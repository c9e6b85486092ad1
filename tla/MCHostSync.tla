----------------------------- MODULE MCHostSync -----------------------------
(* Budgets of outside events for the runs of HostSync, and the symmetry of *)
(* its hosts.                                                              *)
EXTENDS HostSync, TLC

Allow(kinds, n) == [e \in Events |-> IF e \in kinds THEN n ELSE 0]

(* Everything once; an edit in Kuma's UI changes nothing an object records. *)
HostileBudgets == {Allow(Events \ {"uiEdit"}, 1)}

(* Users who keep changing their minds, and a quiet object under faults.   *)
Busy == [Allow({"uiEdit", "delete"}, 1) EXCEPT !["edit"] = 2]
Faulty == Allow({"kuma", "api", "crash", "uiEdit", "uiDelete"}, 1)
SettlingBudgets == {Busy, Faulty}

DeleteBudgets == {Allow({"delete"}, 1)}
KumaBudgets == {Allow({"kuma"}, 1)}
GoneBudgets == {Allow({"uiDelete", "edit"}, 1)}

HostSymmetry == Permutations(Hosts)
=============================================================================
