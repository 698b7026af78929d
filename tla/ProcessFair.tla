---------------------------- MODULE ProcessFair ----------------------------
(***************************************************************************)
(* Process under the fairness the hardware and well-behaved processes      *)
(* give, for what must eventually happen.                                  *)
(*                                                                         *)
(* The clock ticks as long as the interrupt flag is set again and again    *)
(* (SF of Tick), what a primitive or the handler has left to do with the   *)
(* flag clear is done (WF of Resume), and no process keeps the flag clear  *)
(* for ever, as those of kernel/tests.c, which call sti in their loops     *)
(* (WF of Sti).  Processes do not change priorities here: one that         *)
(* requeues the others with chprio at every turn can starve them.          *)
(***************************************************************************)
EXTENDS Process

\* The steps of programs whose processes have priorities up to top.
FairNext(top) ==
  \/ Boot(top)
  \/ \E pr \in 1..top : Start(pr)
  \/ \E v \in RETVALS : Exit(v)
  \/ \E k \in PidArg : Kill(k)
  \/ \E k \in PidArg : Waitpid(k)
  \/ Resume
  \/ Tick
  \/ Sti
  \/ Cli

\* p goes on from where it was, in the handler or in its primitive.
TickReturnOf(p) == chosen = p /\ TickReturn
ResumeOf(p)     == chosen = p /\ Resume /\ ~TickReturn
ExitOf(p)       == chosen = p /\ \E v \in RETVALS : Exit(v)

ClockFairness == SF_vars(Tick) /\ WF_vars(Sti) /\ WF_vars(Resume)

\* p ends when it is given the time to: it gets out of the handler and of its
\* primitive, and exits.
EndsInTime(p) ==
  SF_vars(TickReturnOf(p)) /\ SF_vars(ResumeOf(p)) /\ SF_vars(ExitOf(p))

Alive(p) == state[p] \in {"ACTIVABLE", "CHOSEN"}
Highest(p) == \A q \in Pid : Alive(q) => prio[q] <= prio[p]

\* A ready process of the highest priority runs, however many share that
\* priority, unless it is killed or a process of higher priority appears
\* (ordonnance's FIFO order among equals, queue.h).
HighestRuns ==
  \A p \in Pid :
    state[p] = "ACTIVABLE" /\ Highest(p)
      ~> state[p] # "ACTIVABLE" \/ ~Highest(p) \/ halted # "no"

\* A process that waits for another one gets its value, when every process
\* ends, unless it dies itself or the machine stops (waitpid's busy loop).
WaitpidEnds ==
  \A p \in Pid :
    pc[p] = "waitpid" ~> pc[p] # "waitpid" \/ state[p] = "ZOMBIE" \/ halted # "no"
=============================================================================
