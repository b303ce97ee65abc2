-------------------------- MODULE MCServerRegistry --------------------------
(* Instances of ServerRegistry for TLC.  Hosts are interchangeable.        *)
EXTENDS ServerRegistry, TLC

HostSymmetry == Permutations(Host)
=============================================================================
