-------------------------------- MODULE Lists --------------------------------
(* Lists the code makes of sets and of other lists.                        *)
EXTENDS Integers, FiniteSets, SequencesExt

(* The numbers in S, in ascending order.                                   *)
Sorted(S) ==
    CHOOSE s \in SetToSeqs(S) : \A i, j \in DOMAIN s : i < j => s[i] < s[j]

(* What s has at the places in I, in the same order.                       *)
Sublist(s, I) ==
    LET order == Sorted(I)
    IN  [k \in DOMAIN order |-> s[order[k]]]
=============================================================================
