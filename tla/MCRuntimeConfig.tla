-------------------------- MODULE MCRuntimeConfig --------------------------
(* Model values for RuntimeConfig.  Administrators, variables and settings *)
(* are interchangeable: nothing in the model tells one from another.       *)
EXTENDS RuntimeConfig, TLC

RuntimeSymmetry ==
    Permutations(Admin) \cup Permutations(Variable) \cup Permutations(Setting)

=============================================================================
