---------------------------- MODULE MCMonitorSync ----------------------------
(* Budgets of outside events for the runs of MonitorSync, and the symmetry *)
(* of its specs where none is refused.                                     *)
EXTENDS MonitorSync, TLC

Allow(kinds, n) == [e \in Events |-> IF e \in kinds THEN n ELSE 0]

HostileBudgets ==
    {[Allow(Events \ {"secret", "uiEdit"}, 1) EXCEPT !["edit"] = 2]}

(* Users who keep changing their minds, and a quiet resource under faults. *)
Busy == [Allow({"delete", "uiEdit"}, 1) EXCEPT !["edit"] = 2, !["secret"] = 2]
Faulty == [Allow({"kuma", "api", "crash", "uiEdit", "uiDelete", "secret"}, 1)
           EXCEPT !["kuma"] = 2]
SettlingBudgets == {Busy, Faulty}

NoBudgets == {Allow({}, 0)}

SpecSymmetry == Permutations(Specs)
=============================================================================
