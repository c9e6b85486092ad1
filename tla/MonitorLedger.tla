---------------------------- MODULE MonitorLedger ----------------------------
(***************************************************************************)
(* What either reconciler promises of the book it keeps, whatever happens  *)
(* to its calls, its cache and its process: the record of monitor ids in   *)
(* an object's annotation or status, guarded by a finalizer.  HostSync     *)
(* keeps one entry per host and MonitorSync a single one; both implement   *)
(* this specification (Ledger!Spec).                                       *)
(*                                                                         *)
(* A monitor id belongs to one owner from the moment Kuma hands it out and *)
(* never comes back once its monitor is gone.  The book holds such ids     *)
(* only, each under its owner; the guard is up whenever the book is        *)
(* written, and when it comes down either every monitor in the book is     *)
(* gone or the object itself was dismissed and its book emptied with it.   *)
(***************************************************************************)
EXTENDS Naturals

CONSTANTS
    Owners,     \* what a monitor can be made for
    Ids,        \* the ids Kuma can hand out
    Nobody,     \* the owner of an id not handed out yet
    MayDismiss  \* may an object be let go that is not being deleted?
                \* BOOLEAN; Nobody is no owner and 0 no id

VARIABLES
    made,     \* the owner each id was handed out for
    gone,     \* the ids whose monitor no longer exists
    book,     \* the id on record for each owner, 0 for none
    guard,    \* is the finalizer on the object?
    closing   \* is the keeper about to see the object's deletion through?

vars == <<made, gone, book, guard, closing>>

Empty == [o \in Owners |-> 0]
Entries(b) == {o \in Owners : b[o] # 0}
Truthful(b) == \A o \in Entries(b) : made[b[o]] = o
AllGone(b) == \A o \in Entries(b) : b[o] \in gone

Init ==
    /\ made = [id \in Ids |-> Nobody] /\ gone = {}
    /\ book = Empty /\ guard = FALSE /\ closing \in BOOLEAN

(* Kuma creates a monitor for an owner.                                    *)
Make(id, o) ==
    /\ made[id] = Nobody /\ made' = [made EXCEPT ![id] = o]
    /\ UNCHANGED <<gone, book, guard>>

(* A monitor is deleted, by the operator or by somebody else.              *)
Lose(id) ==
    /\ made[id] # Nobody /\ gone' = gone \cup {id}
    /\ UNCHANGED <<made, book, guard>>

(* The book is written anew, under guard.                                  *)
Record ==
    /\ book' \in [Owners -> Ids \cup {0}] /\ Truthful(book') /\ guard' = TRUE
    /\ UNCHANGED <<made, gone>>

(* The deletion is seen through; the object may vanish with it.            *)
Release ==
    /\ closing /\ guard /\ guard' = FALSE /\ AllGone(book)
    /\ book' \in {book, Empty}
    /\ UNCHANGED <<made, gone>>

(* The object no longer wants to be looked after.                          *)
Dismiss ==
    /\ MayDismiss /\ ~closing /\ guard' = FALSE /\ book' = Empty
    /\ UNCHANGED <<made, gone>>

(* An object nothing guards any more vanishes.                             *)
Vanish ==
    /\ ~guard /\ guard' = FALSE /\ book' = Empty
    /\ UNCHANGED <<made, gone>>

(* The keeper starts or stops seeing a deletion through.                   *)
Turn == UNCHANGED <<made, gone, book, guard>>

Next ==
    /\ closing' \in BOOLEAN
    /\ \/ \E id \in Ids : Lose(id) \/ \E o \in Owners : Make(id, o)
       \/ Record \/ Release \/ Dismiss \/ Vanish \/ Turn

Spec == Init /\ [][Next]_vars

-----------------------------------------------------------------------------
TypeOK ==
    /\ made \in [Ids -> Owners \cup {Nobody}] /\ gone \in SUBSET Ids
    /\ book \in [Owners -> Ids \cup {0}]
    /\ guard \in BOOLEAN /\ closing \in BOOLEAN

(* Every id in the book was made for the owner it stands under, so two     *)
(* owners never share a monitor (syncMonitors, updateStatus).              *)
BookTruthful == Truthful(book)

(* Without the guard nothing in the book is left to clean up: whoever      *)
(* deletes the object then leaves no monitor behind (the finalizer).       *)
UnguardedIsDone == ~guard => AllGone(book)
=============================================================================
