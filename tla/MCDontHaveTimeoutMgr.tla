------------------------ MODULE MCDontHaveTimeoutMgr ------------------------
(* Small instances of DontHaveTimeoutMgr. *)
EXTENDS DontHaveTimeoutMgr, TLC

Symmetry == Permutations(Keys)

\* After Shutdown nothing is left to check.
UntilShutdown == running
=============================================================================
