--------------------------- MODULE SemRefinement ---------------------------
(***************************************************************************)
(* The scheduler with the semaphores still implements ProcessLifecycle:    *)
(* in particular a process that blocks never becomes ready again.          *)
(***************************************************************************)
EXTENDS MCSem, ProcessRefinement
=============================================================================
