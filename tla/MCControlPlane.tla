--------------------------- MODULE MCControlPlane ---------------------------
(* Instances of ControlPlane: jobs sharing one environment, or apart.      *)
EXTENDS ControlPlane, TLC

CONSTANTS j1, j2, e1, e2, s1

OneJob == {j1}
TwoJobs == {j1, j2}
OneJobsEnvironment == [j \in OneJob |-> e1]
OneJobsServer == [j \in OneJob |-> s1]
SharedEnvironment == [j \in TwoJobs |-> e1]
ApartEnvironments == [j \in TwoJobs |-> IF j = j1 THEN e1 ELSE e2]
SharedServer == [j \in TwoJobs |-> s1]
JobSymmetry == Permutations(TwoJobs)
=============================================================================
