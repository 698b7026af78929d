------------------------------- MODULE MCSem -------------------------------
(***************************************************************************)
(* Small instance of Sem for TLC.                                          *)
(***************************************************************************)
EXTENDS Sem

MCValMin == -2
MCCounts == {-1, 1, 2}

\* Bound of the run of SemRefinement: a screate past the limit, which only adds
\* to nb_sem, and what comes of it, as long as no process has lost the processor
\* inside a primitive.
RefusedWhileUntorn == nb_sem > NBSEMS => ~torn
=============================================================================
