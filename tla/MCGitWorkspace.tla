---------------------------- MODULE MCGitWorkspace ----------------------------
(* Instances of GitWorkspace: the agent runs one checkout after another.   *)
EXTENDS GitWorkspace
=============================================================================
