----------------------------- MODULE SemClaims -----------------------------
(***************************************************************************)
(* What comments and tests of the repository say of the semaphores and     *)
(* that the code does not do.                                              *)
(***************************************************************************)
EXTENDS MCSem

\* The running process comes to the comment of sem.c:124: it is in signaln,
\* past an increment that has left the counter at or below zero.
AtWakeUp == Running("sem_check") /\ Mine.op = "signaln" /\ Counter <= 0

\* sem.c:124: such a signal makes the first blocked process ready.
SignalWakes ==
  [][AtWakeUp /\ Mine.left # frame'[chosen].left /\ BlockedOn(Cour) # {}
       => \E p \in BlockedOn(Cour) : state'[p] # "BLOCKED_ON_SEM"]_allvars
=============================================================================
