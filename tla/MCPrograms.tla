----------------------------- MODULE MCPrograms -----------------------------
(***************************************************************************)
(* ProcessFair for two programs: one of many processes, which may run for  *)
(* ever, and one of a few, which end when they are given the time to.      *)
(* They have the same steps; the fairness of the ends is asked of the few  *)
(* only, and of the processes idle starts, not of idle itself.             *)
(***************************************************************************)
EXTENDS ProcessFair

CONSTANTS
  FEW,       \* how many processes the few are, idle apart
  MANYPRIO   \* the priorities of the many are 1..MANYPRIO

ASSUME ProgramsAssumption == FEW \in 1..PROCESS_TABLE_SIZE-1 /\ MANYPRIO \in Prio

VARIABLE program   \* the program that runs

ProgramsInit == Init /\ program \in {"many", "few"}

ProgramsNext ==
  /\ UNCHANGED program
  /\ \/ program = "many" /\ FairNext(MANYPRIO)
     \/ program = "few" /\ FairNext(MAXPRIO) /\ pidmax' <= FEW

\* EndsInTime, for the processes of the few.
FewEndInTime ==
  \A p \in 1..FEW :
    /\ SF_vars(program = "few" /\ TickReturnOf(p))
    /\ SF_vars(program = "few" /\ ResumeOf(p))
    /\ SF_vars(program = "few" /\ ExitOf(p))

ProgramsSpec ==
  /\ ProgramsInit
  /\ [][ProgramsNext]_<<vars, program>>
  /\ ClockFairness /\ FewEndInTime

\* WaitpidEnds for the few: a parent that waits gets its child's value,
\* whatever the priorities of the two (waitpid's busy loop).
FewWaitpidEnds == program = "few" => WaitpidEnds
=============================================================================
