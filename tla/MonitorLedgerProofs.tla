------------------------- MODULE MonitorLedgerProofs -------------------------
(* What the ledger promises, for any owners and ids: Nobody must be no     *)
(* owner and 0 no id.                                                      *)
EXTENDS MonitorLedger, TLAPS

(* The sentinels are told apart from what they stand beside.               *)
Sentinels == Nobody \notin Owners /\ 0 \notin Ids

Kept == TypeOK /\ BookTruthful /\ UnguardedIsDone

LEMMA KeptInit == Sentinels /\ Init => Kept
BY DEF Init, Kept, TypeOK, BookTruthful, UnguardedIsDone, Truthful, AllGone,
       Entries, Empty

(* An id already made keeps its owner.                                     *)
LEMMA KeptMake ==
  ASSUME Sentinels, Kept, NEW id \in Ids, NEW o \in Owners, Make(id, o),
         closing' \in BOOLEAN
  PROVE  Kept'
<1>1. \A e \in Entries(book) : book[e] # id
  BY DEF Sentinels, Kept, BookTruthful, Truthful, Entries, Make
<1>2. TypeOK'
  BY DEF Kept, TypeOK, Make
<1>3. BookTruthful'
  BY <1>1 DEF Kept, BookTruthful, Truthful, Entries, TypeOK, Make
<1>4. UnguardedIsDone'
  BY DEF Kept, UnguardedIsDone, AllGone, Entries, Make
<1> QED
  BY <1>2, <1>3, <1>4 DEF Kept

LEMMA KeptStep ==
  ASSUME Sentinels, Kept, [Next]_vars
  PROVE  Kept'
<1> USE DEF Kept, TypeOK, BookTruthful, UnguardedIsDone, Truthful, AllGone,
            Entries, Empty
<1>1. CASE UNCHANGED vars
  BY <1>1 DEF vars
<1>2. CASE closing' \in BOOLEAN /\ \E id \in Ids : Lose(id)
  BY <1>2 DEF Lose
<1>3. ASSUME NEW id \in Ids, NEW o \in Owners, closing' \in BOOLEAN, Make(id, o)
      PROVE  Kept'
  BY <1>3, KeptMake
<1>4. CASE closing' \in BOOLEAN /\ Record
  BY <1>4 DEF Record
<1>5. CASE closing' \in BOOLEAN /\ (Release \/ Dismiss \/ Vanish)
  BY <1>5 DEF Release, Dismiss, Vanish
<1>6. CASE closing' \in BOOLEAN /\ Turn
  BY <1>6 DEF Turn
<1> QED
  BY <1>1, <1>2, <1>3, <1>4, <1>5, <1>6 DEF Next

(* Every id on record was made for the owner it stands under, and once the *)
(* guard is down nothing on record is left to clean up: an object may then *)
(* be deleted by anyone without leaving a monitor behind (syncMonitors,    *)
(* persistMonitorIDs, deleteAllMonitors).                                  *)
THEOREM LedgerTruthful ==
  ASSUME Sentinels
  PROVE  Spec => [](BookTruthful /\ UnguardedIsDone)
<1>1. Kept => BookTruthful /\ UnguardedIsDone
  BY DEF Kept
<1> QED
  BY <1>1, KeptInit, KeptStep, PTL DEF Spec
=============================================================================
