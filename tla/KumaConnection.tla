---------------------------- MODULE KumaConnection ----------------------------
(***************************************************************************)
(* The one connection to Uptime Kuma that every controller shares          *)
(* (internal/kuma/reconnect.go): a call that finds it lost discards it,    *)
(* the next call dials a new one, and the readiness probe dials in the     *)
(* background when nobody calls.                                           *)
(*                                                                         *)
(* mu guards current and is held for a whole dial; down, which the probe   *)
(* reads without mu, has a mutex of its own that is held for one access,   *)
(* so an access is one step.  Calls of several controllers run             *)
(* concurrently on the same connection.                                    *)
(***************************************************************************)
EXTENDS Naturals

CONSTANTS
    Callers,    \* goroutines that call Kuma: the controllers' workers
    Prober,     \* the goroutine ReadyCheck starts to dial
    Free,       \* mu is not held
    MaxConns,   \* bound: connections dialled in the process's life
    Budget      \* bound: how often each kind of outside event happens

Events == {"break", "outage", "slow", "dial", "shutdown"}

ASSUME HolderAssumption ==
    Prober \notin Callers /\ Free \notin Callers /\ Free # Prober

ASSUME BoundAssumption ==
    MaxConns \in Nat \ {0} /\ Budget \in [Events -> Nat]

Conns == 1..MaxConns
Holders == Callers \cup {Prober}

VARIABLES
    server,    \* is Kuma there?
    conns,     \* the state of every connection's transport
    faulted,   \* connections that failed a call: broken, or without an answer
    current,   \* r.current; 0 is nil
    mu,        \* who holds r.mu
    down,      \* r.down: "none" is nil, else why there is no connection
    pc,        \* what each caller does next
    used,      \* c: the connection its call runs on
    probe,     \* where ReadyCheck is
    answer,    \* what the last ReadyCheck answered
    closes,    \* how often Close was called on each connection
    ctxDone,   \* are the reconciles' contexts cancelled (shutdown)?
    left       \* how many outside events of each kind may still happen

client == <<current, mu, down, pc, used, probe, answer, closes>>
world == <<server, conns, faulted, ctxDone, left>>
vars == <<client, world>>

(* A call never runs on nil.                                               *)
TypeOK ==
    /\ server \in BOOLEAN /\ ctxDone \in BOOLEAN /\ answer \in BOOLEAN
    /\ conns \in [Conns -> {"unused", "open", "broken"}]
    /\ faulted \in SUBSET Conns /\ current \in Conns \cup {0}
    /\ mu \in Holders \cup {Free} /\ down \in {"none", "dial", "lost"}
    /\ pc \in [Callers -> {"idle", "get", "dial", "call", "check", "mark"}]
    /\ used \in [Callers -> Conns \cup {0}] /\ probe \in {"idle", "try"}
    /\ closes \in [Conns -> Nat] /\ left \in [Events -> Nat]
    /\ \A p \in Callers : pc[p] \in {"call", "check", "mark"} => used[p] # 0

Spend(kind) == left[kind] > 0 /\ left' = [left EXCEPT ![kind] = @ - 1]

Goto(p, stage) == pc' = [pc EXCEPT ![p] = stage]

-----------------------------------------------------------------------------
(* A call: get, the call itself, check.                                    *)

(* A reconciler calls Kuma.                                                *)
Start(p) ==
    /\ pc[p] = "idle" /\ ~ctxDone
    /\ Goto(p, "get")
    /\ UNCHANGED <<current, mu, down, used, probe, answer, closes, world>>

(* Bug to plant: current is returned even when it is nil.                  *)
AvailableUnchecked == TRUE

Available == current # 0

(* get finds a connection.                                                 *)
Get(p) ==
    /\ pc[p] = "get" /\ mu = Free /\ Available
    /\ used' = [used EXCEPT ![p] = current] /\ Goto(p, "call")
    /\ UNCHANGED <<current, mu, down, probe, answer, closes, world>>

(* get finds none and dials, with mu held.                                 *)
DialBegin(p) ==
    /\ pc[p] = "get" /\ mu = Free /\ ~Available
    /\ mu' = p /\ Goto(p, "dial")
    /\ UNCHANGED <<current, down, used, probe, answer, closes, world>>

(* What the dial means to the one who asked for it: a caller goes on with  *)
(* its call or returns the error, the probe's goroutine just ends.         *)
Proceed(h, c) ==
    IF h = Prober THEN UNCHANGED <<pc, used>>
    ELSE /\ Goto(h, IF c # 0 THEN "call" ELSE "idle")
         /\ used' = [used EXCEPT ![h] = c]

Dialing(h) ==
    /\ mu = h
    /\ IF h = Prober THEN ~Available ELSE pc[h] = "dial"

DialSucceeds(h) ==
    /\ Dialing(h) /\ server
    /\ \E c \in Conns :
          /\ conns[c] = "unused"
          /\ \A d \in Conns : d < c => conns[d] # "unused"
          /\ conns' = [conns EXCEPT ![c] = "open"] /\ current' = c
          /\ Proceed(h, c)
    /\ down' = "none" /\ mu' = Free
    /\ UNCHANGED <<probe, answer, closes, server, faulted, ctxDone, left>>

DialFails(h) ==
    /\ Dialing(h)
    /\ \/ ~server /\ UNCHANGED left
       \/ server /\ Spend("dial")
    /\ down' = "dial" /\ mu' = Free
    /\ Proceed(h, 0)
    /\ UNCHANGED <<current, probe, answer, closes, server, conns, faulted,
                   ctxDone>>

(* Bug to plant: a cancelled call always means a lost connection.          *)
ConnectionLostOrCancelled(kind) == kind # "rejected"

(* Bug to plant: a missing answer is taken for a refusal.                  *)
ConnectionLostUnlessSilent(kind) ==
    kind = "transport" \/ (kind = "cancelled" /\ ~ctxDone)

(* connectionLost: the transport failed, no answer came in time, or the    *)
(* client cancelled a call its caller did not cancel.                      *)
ConnectionLost(kind) ==
    kind \in {"transport", "timeout"} \/ (kind = "cancelled" /\ ~ctxDone)

CallAnswered(p) ==
    /\ pc[p] = "call" /\ conns[used[p]] = "open"
    /\ Goto(p, "idle")
    /\ UNCHANGED <<current, mu, down, used, probe, answer, closes, world>>

(* A broken transport fails with its own error, with the client's own      *)
(* cancellation, or by never answering; a sound one because Kuma is too    *)
(* slow, because the caller is cancelled, or because Kuma says no.         *)
CallFails(p) ==
    /\ pc[p] = "call"
    /\ \E kind \in {"transport", "cancelled", "timeout", "rejected"} :
          /\ \/ /\ conns[used[p]] = "broken" /\ kind # "rejected"
                /\ faulted' = faulted \cup {used[p]} /\ UNCHANGED left
             \/ /\ conns[used[p]] = "open" /\ kind = "timeout"
                /\ faulted' = faulted \cup {used[p]} /\ Spend("slow")
             \/ /\ conns[used[p]] = "open" /\ kind = "cancelled" /\ ctxDone
                /\ UNCHANGED <<faulted, left>>
             \/ /\ conns[used[p]] = "open" /\ kind = "rejected"
                /\ UNCHANGED <<faulted, left>>
          /\ Goto(p, IF ConnectionLost(kind) THEN "check" ELSE "idle")
    /\ UNCHANGED <<current, mu, down, used, probe, answer, closes, server,
                   conns, ctxDone>>

(* Bug to plant: whatever connection is there is discarded.                *)
IsCurrentAnyhow(c) == current # 0

IsCurrent(c) == current = c

(* check: another call has replaced the connection that failed already.    *)
CheckStale(p) ==
    /\ pc[p] = "check" /\ mu = Free /\ ~IsCurrent(used[p])
    /\ Goto(p, "idle")
    /\ UNCHANGED <<current, mu, down, used, probe, answer, closes, world>>

(* Bug to plant: mu is released before down is set.                        *)
KeepLockNot(p) == Free

KeepLock(p) == p

(* Bug to plant: the unlock is forgotten.                                  *)
UnlockNot(p) == UNCHANGED mu

Unlock(p) == mu' = IF mu = p THEN Free ELSE mu

(* check: the connection that failed is still the one in use.              *)
Discard(p) ==
    /\ pc[p] = "check" /\ mu = Free /\ IsCurrent(used[p])
    /\ current' = 0 /\ mu' = KeepLock(p) /\ Goto(p, "mark")
    /\ UNCHANGED <<down, used, probe, answer, closes, world>>

MarkDown(p) ==
    /\ pc[p] = "mark"
    /\ down' = "lost" /\ Unlock(p)
    /\ closes' = [closes EXCEPT ![used[p]] = @ + 1]
    /\ Goto(p, "idle")
    /\ UNCHANGED <<current, used, probe, answer, world>>

-----------------------------------------------------------------------------
(* The readiness probe, which the kubelet calls again and again.           *)

ProbeUp ==
    /\ probe = "idle" /\ down = "none"
    /\ answer' = TRUE
    /\ UNCHANGED <<current, mu, down, pc, used, probe, closes, world>>

ProbeDown ==
    /\ probe = "idle" /\ down # "none"
    /\ probe' = "try"
    /\ UNCHANGED <<current, mu, down, pc, used, answer, closes, world>>

(* Bug to plant: the probe leaves dialling to the callers.                 *)
TryLockNever == UNCHANGED mu

(* TryLock: nobody dials, so a goroutine that holds mu from now on will.   *)
TryLock == mu' = IF mu = Free THEN Prober ELSE mu

ProbeTry ==
    /\ probe = "try"
    /\ TryLock /\ answer' = FALSE /\ probe' = "idle"
    /\ UNCHANGED <<current, down, pc, used, closes, world>>

(* The goroutine finds that a call has dialled since down was read.        *)
ProberFinds ==
    /\ mu = Prober /\ Available
    /\ mu' = Free
    /\ UNCHANGED <<current, down, pc, used, probe, answer, closes, world>>

-----------------------------------------------------------------------------
(* Kuma, the network and the process.                                      *)

Break(c) ==
    /\ Spend("break") /\ conns[c] = "open"
    /\ conns' = [conns EXCEPT ![c] = "broken"]
    /\ UNCHANGED <<client, server, faulted, ctxDone>>

KumaDown ==
    /\ Spend("outage") /\ server
    /\ server' = FALSE
    /\ conns' = [c \in Conns |-> IF conns[c] = "open" THEN "broken" ELSE conns[c]]
    /\ UNCHANGED <<client, faulted, ctxDone>>

KumaUp ==
    /\ ~server /\ server' = TRUE
    /\ UNCHANGED <<client, conns, faulted, ctxDone, left>>

(* The manager is told to stop and cancels the reconciles' contexts.       *)
Shutdown ==
    /\ Spend("shutdown") /\ ~ctxDone /\ ctxDone' = TRUE
    /\ UNCHANGED <<client, server, conns, faulted>>

-----------------------------------------------------------------------------
(* NewClient has dialled the first connection; without it there is no      *)
(* process.                                                                *)
Init ==
    /\ server = TRUE /\ ctxDone = FALSE /\ left = Budget
    /\ conns = [c \in Conns |-> IF c = 1 THEN "open" ELSE "unused"]
    /\ faulted = {} /\ current = 1 /\ mu = Free /\ down = "none"
    /\ pc = [p \in Callers |-> "idle"] /\ used = [p \in Callers |-> 0]
    /\ probe = "idle" /\ answer = TRUE /\ closes = [c \in Conns |-> 0]

Locks(p) == Get(p) \/ DialBegin(p) \/ CheckStale(p) \/ Discard(p)
Works(p) == CallAnswered(p) \/ CallFails(p) \/ MarkDown(p)
Dials(h) == DialSucceeds(h) \/ DialFails(h)
Probes == ProbeUp \/ ProbeDown \/ ProbeTry

Next ==
    \/ \E p \in Callers : Start(p) \/ Locks(p) \/ Works(p)
    \/ (\E h \in Holders : Dials(h)) \/ ProberFinds \/ Probes
    \/ (\E c \in Conns : Break(c)) \/ KumaDown \/ KumaUp \/ Shutdown

Spec == Init /\ [][Next]_vars

(* Every call and dial ends, within its timeout at the latest; a goroutine *)
(* waiting for a sync.Mutex gets it in the end, although others may have   *)
(* it in between; the kubelet goes on probing; Kuma comes back.  Nobody    *)
(* has to call.                                                            *)
FairSpec ==
    /\ Spec
    /\ \A p \in Callers : SF_vars(Locks(p)) /\ WF_vars(Works(p))
    /\ \A h \in Holders : WF_vars(Dials(h))
    /\ WF_vars(ProberFinds) /\ WF_vars(Probes) /\ WF_vars(KumaUp)

-----------------------------------------------------------------------------
(* Safety.                                                                 *)

(* Whenever nobody holds mu, what the readiness probe reads agrees with    *)
(* whether there is a connection: no late setDown outlives the dial that   *)
(* replaced the connection (check, getLocked).                             *)
DownAgrees == mu = Free => (down = "none" <=> current # 0)

(* Only a connection on which a call failed is ever given up: not the one  *)
(* that has replaced it meanwhile, and not one whose caller was cancelled  *)
(* (check, connectionLost).                                                *)
OnlyFaultedDropped == [][current' # current => current \in faulted \cup {0}]_vars

(* Every connection that was dialled is in use or has been closed exactly  *)
(* once, by the call that discarded it: no goroutines of an old client are *)
(* left behind, and none is closed under another call that still owns it   *)
(* (check).                                                                *)
Closing(c) == \E p \in Callers : pc[p] = "mark" /\ used[p] = c
ClosedOnce ==
    \A c \in Conns :
        closes[c] = IF conns[c] = "unused" \/ current = c \/ Closing(c)
                    THEN 0 ELSE 1

-----------------------------------------------------------------------------
(* Liveness.                                                               *)

(* Every call returns: no dial, discard or probe leaves mu locked (get,    *)
(* check, ReadyCheck).                                                     *)
CallsReturn == \A p \in Callers : pc[p] # "idle" ~> pc[p] = "idle"

(* The pod turns ready again once Kuma is back even if no reconcile is     *)
(* pending (ReadyCheck).                                                   *)
ReadyAgain == <>[]answer

(* If reconciles go on calling, as drift checks do, the operator ends up   *)
(* with a connection that works (get, check).                              *)
Reconnects ==
    []<>(\E p \in Callers : pc[p] = "get")
        => <>[](current # 0 /\ conns[current] = "open")
=============================================================================
