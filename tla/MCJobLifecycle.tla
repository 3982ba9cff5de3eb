--------------------------- MODULE MCJobLifecycle ---------------------------
(* Small instances of JobLifecycle for TLC.                                *)
EXTENDS JobLifecycle, TLC

CONSTANTS j1, j2, r1, r2

OneJob == {j1}
TwoJobs == {j1, j2}
TwoReplicas == {r1, r2}
OneReplica == {r1}

Unscheduled == [j \in Jobs |-> "none"]
FirstUnscheduled == [j \in Jobs |-> IF j = j1 THEN "none" ELSE "recurring"]
OneAttempt == [j \in Jobs |-> 1]
TwoAttempts == [j \in Jobs |-> 2]
FirstOnce == [j \in Jobs |-> IF j = j1 THEN 1 ELSE 2]
FirstStepGated == [j \in Jobs |-> {1}]
FirstJobGated == [j \in Jobs |-> IF j = j1 THEN {1} ELSE {}]

ReplicaSymmetry == Permutations(Replicas)
=============================================================================
