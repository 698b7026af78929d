--------------------------- MODULE MCProcessFair ---------------------------
(***************************************************************************)
(* ProcessFair for the processes of a program that only starts, awaits and *)
(* ends processes: no kill, and no process clears the interrupt flag       *)
(* itself.                                                                 *)
(***************************************************************************)
EXTENDS ProcessFair

QuietNext ==
  \/ Boot(MAXPRIO)
  \/ \E pr \in Prio : Start(pr)
  \/ \E v \in RETVALS : Exit(v)
  \/ \E k \in PidArg : Waitpid(k)
  \/ Resume
  \/ Tick
  \/ Sti

QuietSpec ==
  Init /\ [][QuietNext]_vars /\ ClockFairness /\ \A p \in Pid : EndsInTime(p)
=============================================================================
