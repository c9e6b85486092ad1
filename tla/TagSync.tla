------------------------------- MODULE TagSync -------------------------------
(***************************************************************************)
(* Tags (internal/controller/sync.go: syncTags, mergeTags,                 *)
(* deriveLabelTags; internal/kuma/client.go: Tags, CreateTag,              *)
(* SetMonitorTags).  Kuma keeps tags apart from monitors, so every         *)
(* reconcile that reaches Kuma ends by making the tags of its monitors the *)
(* ones the resource asks for.  It does so with one call after another,    *)
(* while the other controllers do the same and users work in Kuma's UI:    *)
(* each step below is one call.                                            *)
(***************************************************************************)
EXTENDS Naturals, Sequences, FiniteSets, FiniteSetsExt, SequencesExt

CONSTANTS
    Controllers, \* each reconciles one resource
    Monitors,    \* monitors in Kuma
    Owner,       \* Owner[m]: the controller whose resource m belongs to
    Names,       \* tag names
    Nameless,    \* a tag id that is not in use
    DefaultTags, \* DEFAULT_TAGS: a sequence of names
    Inferred,    \* names "key=value" whose key matches LABEL_TAG_PATTERNS
    Requests,    \* what a resource may ask for: [own |-> sequence of names,
                 \*   labels |-> the set of its labels, as "key=value" names]
    OldTags,     \* bound: tags Kuma has before the operator starts
    MaxTags,     \* bound: tags ever created
    Budgets      \* bounds: how often each kind of outside event happens; one
                 \* of these in each behaviour

Events == {"edit", "fail", "lost", "uiDelete", "uiAssign", "uiCreate"}

ASSUME NameAssumption == Nameless \notin Names /\ Inferred \subseteq Names
ASSUME OwnerAssumption ==
    /\ IsFiniteSet(Controllers)
    /\ Owner \in [Monitors -> Controllers] /\ Nameless \notin Monitors
ASSUME RequestAssumption ==
    /\ DefaultTags \in Seq(Names)
    /\ Requests \subseteq [own : Seq(Names), labels : SUBSET Names]
    /\ \A r \in Requests : IsFiniteSet(r.labels)
ASSUME BoundAssumption ==
    /\ OldTags \in Nat /\ MaxTags \in Nat /\ OldTags <= MaxTags
    /\ Budgets \subseteq [Events -> Nat]

Ids == 1..MaxTags

(* A name in a list, and its place there.                                  *)
Entries == [at : Nat, name : Names]

Outside == [may : [Events -> Nat], did : SUBSET Events]

VARIABLES
    tags,      \* Kuma: the name of every tag id, Nameless where there is none
    nextTag,   \* Kuma: the next id to be handed out
    assigned,  \* Kuma: the tag ids on every monitor
    request,   \* what each resource asks for
    pc,        \* what each controller does next
    names,     \* tagNames: the merged names, as entries
    todo,      \* monitors of the resource still to be done
    mon,       \* the monitor being done
    missing,   \* those of them that Tags did not list
    ids,       \* ids resolved so far
    adds,      \* SetMonitorTags: ids still to be added
    drops,     \* SetMonitorTags: ids still to be removed
    outside    \* outside events: how many of each kind may still happen and
               \* which kinds have happened

kuma == <<tags, nextTag, assigned>>
work == <<names, todo, mon, missing, ids, adds, drops>>
vars == <<kuma, request, pc, work, outside>>

TypeOK ==
    /\ tags \in [Ids -> Names \cup {Nameless}] /\ nextTag \in 1..(MaxTags + 1)
    /\ assigned \in [Monitors -> SUBSET Ids]
    /\ request \in [Controllers -> Requests]
    /\ pc \in [Controllers -> {"idle", "list", "create", "read", "change"}]
    /\ names \in [Controllers -> SUBSET Entries]
    /\ todo \in [Controllers -> SUBSET Monitors]
    /\ mon \in [Controllers -> Monitors \cup {Nameless}]
    /\ missing \in [Controllers -> SUBSET Entries]
    /\ ids \in [Controllers -> SUBSET Ids]
    /\ adds \in [Controllers -> SUBSET Ids]
    /\ drops \in [Controllers -> SUBSET Ids] /\ outside \in Outside
    /\ \A c \in Controllers :
          /\ pc[c] = "create" => missing[c] # {}
          /\ pc[c] = "change" => adds[c] \cup drops[c] # {}

Spend(kind) ==
    /\ outside.may[kind] > 0
    /\ outside' = [outside EXCEPT !.may[kind] = @ - 1, !.did = @ \cup {kind}]

Goto(c, stage) == pc' = [pc EXCEPT ![c] = stage]

Put(f, c, value) == [f EXCEPT ![c] = value]

-----------------------------------------------------------------------------
(* What a resource asks for.                                               *)

(* Bug to plant: a name listed twice stays twice.                          *)
MergeTagsKeepingDuplicates(all) ==
    {[at |-> i, name |-> all[i]] : i \in DOMAIN all}

(* mergeTags, of the sources one after another: the first occurrence of    *)
(* every name, with the place it has there.                                *)
MergeTags(all) ==
    {[at |-> i, name |-> all[i]] :
        i \in {n \in DOMAIN all : \A k \in 1..(n - 1) : all[k] # all[n]}}

NamesOf(list) == {e.name : e \in list}

First(list) == CHOOSE e \in list : \A f \in list : e.at <= f.at

(* deriveLabelTags: labels are a map, so their order is any.               *)
DeriveLabelTags(labels) == SetToSeqs(labels \cap Inferred)

Wanted(c) ==
    ToSet(DefaultTags) \cup ToSet(request[c].own)
        \cup (request[c].labels \cap Inferred)

-----------------------------------------------------------------------------
(* The reconcile's last part, for one resource.                            *)

(* A return; what was read is forgotten.                                   *)
Forget(c) ==
    /\ Goto(c, "idle")
    /\ names' = Put(names, c, {}) /\ todo' = Put(todo, c, {})
    /\ mon' = Put(mon, c, Nameless) /\ missing' = Put(missing, c, {})
    /\ ids' = Put(ids, c, {}) /\ adds' = Put(adds, c, {})
    /\ drops' = Put(drops, c, {})

(* Bug to plant: a resource that asks for no tag is left alone.            *)
FirstStageUnlessNone(merged) == IF merged = {} THEN "idle" ELSE "list"

(* syncTags asks for the existing tags only when it needs them.            *)
FirstStage(merged) == IF merged = {} THEN "read" ELSE "list"

(* One more monitor: syncTags starts anew for each of them.                *)
Turn(c, m, merged) ==
    /\ mon' = Put(mon, c, m) /\ missing' = Put(missing, c, {})
    /\ ids' = Put(ids, c, {}) /\ adds' = Put(adds, c, {})
    /\ drops' = Put(drops, c, {})
    /\ Goto(c, FirstStage(merged))

(* A reconcile (an event or the drift interval) reaches the tags of the    *)
(* resource's monitors.                                                    *)
Begin(c) ==
    /\ pc[c] = "idle"
    /\ \E m \in Monitors, order \in DeriveLabelTags(request[c].labels) :
          /\ Owner[m] = c
          /\ LET merged == MergeTags(DefaultTags \o request[c].own \o order)
             IN  names' = Put(names, c, merged) /\ Turn(c, m, merged)
          /\ todo' = Put(todo, c, {n \in Monitors : Owner[n] = c} \ {m})
    /\ UNCHANGED <<kuma, request, outside>>

(* The monitor is done: the next one, or the end.                          *)
Done(c) ==
    \/ todo[c] = {} /\ Forget(c)
    \/ \E m \in todo[c] :
          /\ todo' = Put(todo, c, todo[c] \ {m}) /\ Turn(c, m, names[c])
          /\ UNCHANGED names

(* Tags: of several tags with one name the one listed last is known.       *)
Known(name) ==
    {t \in Ids : tags[t] = name /\ \A u \in Ids : tags[u] = name => u <= t}

(* Bug to plant: tags are created although they exist.                     *)
AfterListAlways(unknown) == "create"

AfterList(unknown) == IF unknown = {} THEN "read" ELSE "create"

ListTags(c) ==
    /\ pc[c] = "list"
    /\ LET unknown == {e \in names[c] : Known(e.name) = {}}
       IN  missing' = Put(missing, c, unknown) /\ Goto(c, AfterList(unknown))
    /\ ids' = Put(ids, c, UNION {Known(n) : n \in NamesOf(names[c])})
    /\ UNCHANGED <<kuma, request, names, todo, mon, adds, drops, outside>>

Created(name) ==
    /\ nextTag <= MaxTags
    /\ tags' = [tags EXCEPT ![nextTag] = name] /\ nextTag' = nextTag + 1
    /\ UNCHANGED assigned

CreateTag(c) ==
    /\ pc[c] = "create"
    /\ LET e == First(missing[c])
           rest == missing[c] \ {e}
       IN  Created(e.name) /\ missing' = Put(missing, c, rest)
           /\ Goto(c, AfterList(rest))
    /\ ids' = Put(ids, c, ids[c] \cup {nextTag})
    /\ UNCHANGED <<request, names, todo, mon, adds, drops, outside>>

(* SetMonitorTags reads the monitor's tags once ...                        *)
ReadTags(c) ==
    /\ pc[c] = "read"
    /\ LET current == assigned[mon[c]] IN
       IF current = ids[c] THEN Done(c)
       ELSE /\ adds' = Put(adds, c, ids[c] \ current)
            /\ drops' = Put(drops, c, current \ ids[c])
            /\ Goto(c, "change")
            /\ UNCHANGED <<names, todo, mon, missing, ids>>
    /\ UNCHANGED <<kuma, request, outside>>

Changed(c, more, fewer) ==
    IF more \cup fewer = {} THEN Done(c)
    ELSE /\ adds' = Put(adds, c, more) /\ drops' = Put(drops, c, fewer)
         /\ UNCHANGED <<pc, names, todo, mon, missing, ids>>

Assigned(m, t) ==
    /\ tags[t] # Nameless
    /\ assigned' = [assigned EXCEPT ![m] = @ \cup {t}]
    /\ UNCHANGED <<tags, nextTag>>

Unassigned(m, t) ==
    /\ assigned' = [assigned EXCEPT ![m] = @ \ {t}]
    /\ UNCHANGED <<tags, nextTag>>

(* ... adds what is missing, in any order ...                              *)
AddTag(c) ==
    /\ pc[c] = "change"
    /\ \E t \in adds[c] :
          Assigned(mon[c], t) /\ Changed(c, adds[c] \ {t}, drops[c])
    /\ UNCHANGED <<request, outside>>

(* A tag deleted meanwhile cannot be added: the reconcile fails.           *)
AddTagFails(c) ==
    /\ pc[c] = "change"
    /\ \E t \in adds[c] : tags[t] = Nameless
    /\ Forget(c)
    /\ UNCHANGED <<kuma, request, outside>>

(* Bug to plant: what is not wanted goes first.                            *)
MayDropAtOnce(c) == TRUE

MayDrop(c) == adds[c] = {}

(* ... and then removes what is not wanted.                                *)
DropTag(c) ==
    /\ pc[c] = "change" /\ MayDrop(c)
    /\ \E t \in drops[c] :
          Unassigned(mon[c], t) /\ Changed(c, adds[c], drops[c] \ {t})
    /\ UNCHANGED <<request, outside>>

(* A call fails: nothing is done, and the error ends the reconcile.        *)
CallFails(c) ==
    /\ pc[c] # "idle" /\ Spend("fail")
    /\ Forget(c)
    /\ UNCHANGED <<kuma, request>>

(* Kuma does what it is asked, but its answer is lost.                     *)
AnswerLost(c) ==
    /\ \/ pc[c] = "create" /\ Created(First(missing[c]).name)
       \/ pc[c] = "change" /\ \E t \in adds[c] : Assigned(mon[c], t)
       \/ /\ pc[c] = "change" /\ MayDrop(c)
          /\ \E t \in drops[c] : Unassigned(mon[c], t)
    /\ Spend("lost") /\ Forget(c)
    /\ UNCHANGED request

Reconcile(c) ==
    \/ Begin(c) \/ ListTags(c) \/ CreateTag(c) \/ ReadTags(c)
    \/ AddTag(c) \/ AddTagFails(c) \/ DropTag(c)

-----------------------------------------------------------------------------
(* The users.                                                              *)

UserEdit(c) ==
    /\ Spend("edit")
    /\ \E r \in Requests \ {request[c]} : request' = Put(request, c, r)
    /\ UNCHANGED <<kuma, pc, work>>

(* A deleted tag is taken off every monitor.                               *)
UiDelete(t) ==
    /\ tags[t] # Nameless /\ Spend("uiDelete")
    /\ tags' = [tags EXCEPT ![t] = Nameless]
    /\ assigned' = [m \in Monitors |-> assigned[m] \ {t}]
    /\ UNCHANGED <<nextTag, request, pc, work>>

UiAssign(m, t) ==
    /\ Spend("uiAssign")
    /\ \/ t \notin assigned[m] /\ Assigned(m, t)
       \/ t \in assigned[m] /\ Unassigned(m, t)
    /\ UNCHANGED <<request, pc, work>>

UiCreate(name) ==
    /\ Spend("uiCreate") /\ Created(name)
    /\ UNCHANGED <<request, pc, work>>

World ==
    \/ \E c \in Controllers : UserEdit(c)
    \/ \E t \in Ids : UiDelete(t) \/ \E m \in Monitors : UiAssign(m, t)
    \/ \E name \in Names : UiCreate(name)

-----------------------------------------------------------------------------
(* Kuma may have tags already, even two of one name, and monitors of an    *)
(* earlier run of the operator carry some of them.                         *)
Init ==
    /\ \E n \in 0..OldTags :
          /\ nextTag = n + 1
          /\ \E old \in [1..n -> Names] :
                tags = [t \in Ids |-> IF t <= n THEN old[t] ELSE Nameless]
          /\ assigned \in [Monitors -> SUBSET (1..n)]
    /\ request \in [Controllers -> Requests]
    /\ pc = [c \in Controllers |-> "idle"]
    /\ names = [c \in Controllers |-> {}]
    /\ todo = [c \in Controllers |-> {}]
    /\ mon = [c \in Controllers |-> Nameless]
    /\ missing = [c \in Controllers |-> {}]
    /\ ids = [c \in Controllers |-> {}]
    /\ adds = [c \in Controllers |-> {}]
    /\ drops = [c \in Controllers |-> {}]
    /\ outside \in [may : Budgets, did : {{}}]

Next ==
    \/ \E c \in Controllers : Reconcile(c) \/ CallFails(c) \/ AnswerLost(c)
    \/ World

Spec == Init /\ [][Next]_vars

(* Each controller has a worker of its own, which goes on with a reconcile *)
(* it has begun and is woken again by the drift interval.                  *)
FairSpec == Spec /\ \A c \in Controllers : WF_vars(Reconcile(c))

-----------------------------------------------------------------------------
(* Controllers that miss the same tag at the same time each create it, but *)
(* none creates it again once it is there, whatever names a resource lists *)
(* twice and whatever answers are lost: unless users create tags, too,     *)
(* there are at most as many of a name as there are controllers, or as     *)
(* there were (mergeTags, syncTags).                                       *)
FewPerName ==
    "uiCreate" \notin outside.did =>
        \A name \in Names :
            Cardinality({t \in Ids : tags[t] = name})
                <= Max({Cardinality(Controllers), OldTags})

NamesOn(m) == {tags[t] : t \in assigned[m]}

(* While a reconcile moves a monitor from one tag to another of the same   *)
(* name, or adds and removes others, the monitor never loses a name the    *)
(* reconcile wants it to have, unless a user takes it off in Kuma's UI     *)
(* (SetMonitorTags).                                                       *)
KeepsNames ==
    [][outside'.did \cap {"uiDelete", "uiAssign"} = {} =>
          \A m \in Monitors :
              NamesOn(m) \cap NamesOf(names[Owner[m]]) \subseteq NamesOn(m)']_vars

(* Each monitor ends up with exactly the tags its resource asks for, every *)
(* monitor with the same tag for the same name, and nothing is changed any *)
(* more.                                                                   *)
TagsSettle ==
    <>[](\A m \in Monitors :
            /\ NamesOn(m) = Wanted(Owner[m])
            /\ assigned[m] = UNION {Known(n) : n \in Wanted(Owner[m])})
=============================================================================
