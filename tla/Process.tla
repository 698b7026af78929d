------------------------------ MODULE Process ------------------------------
(***************************************************************************)
(* The scheduler and the process primitives of kernel/process.c, with the  *)
(* clock interrupt of shared/time.c and the boot of kernel/start.c.        *)
(*                                                                         *)
(* One action is the stretch of code a process executes between two points *)
(* at which another context may take the processor: a primitive up to its  *)
(* return or to the ctx_sw inside ordonnance, what follows a ctx_sw when   *)
(* the process is resumed, one turn of the waiting loop of waitpid, and    *)
(* the clock handler up to its own ctx_sw.  The clock interrupts a process *)
(* between two of these steps whenever the interrupt flag is set.          *)
(***************************************************************************)
EXTENDS Integers, PrioQueue, FiniteSets

CONSTANTS
  PROCESS_TABLE_SIZE,   \* pids are 0..PROCESS_TABLE_SIZE-1, 0 is idle
  MAXPRIO,              \* priorities are 1..MAXPRIO
  RETVALS               \* the values processes exit with

ASSUME ConstantsAssumption ==
  /\ PROCESS_TABLE_SIZE \in Nat \ {0, 1}
  /\ MAXPRIO \in Nat \ {0, 1}
  /\ RETVALS \subseteq Int

VARIABLES
  pidmax,        \* the last pid handed out
  state, prio, retval, children,      \* fields of struct process, by pid
  process_list,  \* the queue of processes ready to run, head first
  toKill_list,   \* the zombies taken off the processor; only searched by pid
  chosen,        \* the pid of the process that has the processor
  IFLAG,            \* the interrupt flag, which ctx_sw does not save
  pc,            \* where a process will continue when it has the processor
  local,         \* what its suspended primitive keeps on the stack
  interrupted,   \* the process is inside tic_PIT, above what pc says
  halted         \* the assertion or fault that stopped the machine, if any

table == <<pidmax, state, prio, retval, children>>
lists == <<process_list, toKill_list, chosen>>
ctx   == <<pc, local, interrupted>>
vars  == <<table, lists, IFLAG, ctx, halted>>

Pid     == 0 .. PROCESS_TABLE_SIZE - 1
Prio    == 1 .. MAXPRIO
Idle    == 0
Created == {p \in Pid : state[p] # "NONE"}

States  == {"NONE", "CHOSEN", "ACTIVABLE", "BLOCKED_ON_SEM", "ZOMBIE"}
Points  == {"boot", "user", "start", "exit", "kill", "chprio", "waitpid", "signal", "wait",
            "sem_test", "sem_load", "sem_store", "sem_check", "sem_yield"}
Halts   == {"no", "queue_del", "fault"}

\* A process whose pid names a struct that is linked in a list.
Linked(p) == p \in Range(process_list) \cup toKill_list

-----------------------------------------------------------------------------
(* ordonnance *)

\* Variant: the zombies on top of the queue are not skipped.
ElectedUnchecked(l, st) == Len(l)

\* The position of the element ordonnance elects in l, under states st: the
\* last one that is not a zombie.  0 when there is none.
Elected(l, st) ==
  CHOOSE n \in 0..Len(l) :
    /\ n > 0 => st[l[n]] # "ZOMBIE"
    /\ \A i \in n+1..Len(l) : st[l[i]] = "ZOMBIE"

\* Variants: a process is only queued again when it outranks what is left,
\* and a process that blocks is queued as well.
RequeuedIfAbove(p, l, st, pr) ==
  IF st[p] = "CHOSEN" /\ \A i \in DOMAIN l : pr[l[i]] <= pr[p]
  THEN queue_add(p, l, pr) ELSE l

RequeuedAlways(p, l, st, pr) ==
  IF st[p] # "ZOMBIE" THEN queue_add(p, l, pr) ELSE l

\* What becomes of the process that leaves the processor.
Requeued(p, l, st, pr) ==
  IF st[p] = "CHOSEN" THEN queue_add(p, l, pr) ELSE l

Left(p, st) == IF st[p] = "CHOSEN" THEN "ACTIVABLE" ELSE st[p]

Buried(p, st) == IF st[p] = "ZOMBIE" THEN {p} ELSE {}

\* ordonnance(), called with process_list equal to l, the states st and the
\* priorities pr.  It gives the processor to the head of the queue whatever
\* the caller's own priority is.
Ordonnance(l, st, pr) ==
  LET n    == Elected(l, st)
      dead == {l[i] : i \in n+1..Len(l)}
  IN  /\ toKill_list' = toKill_list \cup dead
                          \cup (IF n = 0 THEN {} ELSE Buried(chosen, st))
      /\ IF n = 0
         THEN /\ process_list' = << >>
              /\ state' = st
              /\ chosen' = chosen
         ELSE /\ process_list' = Requeued(chosen, SubSeq(l, 1, n-1), st, pr)
              /\ state' = [st EXCEPT ![chosen] = Left(chosen, st),
                                     ![l[n]] = "CHOSEN"]
              /\ chosen' = l[n]

-----------------------------------------------------------------------------
(* Who executes, and how a primitive gives up the processor and returns.   *)
(* Values that only go back to the caller are not part of the state; the   *)
(* ones that properties are about are operators of their own.              *)

Running(point) ==
  /\ halted = "no"
  /\ ~interrupted[chosen]
  /\ pc[chosen] = point

\* A process other than idle, in its own code.
AtUser == Running("user") /\ chosen # Idle

\* The primitive goes on at point when its caller has the processor again.
ResumeAt(point, v) ==
  /\ pc' = [pc EXCEPT ![chosen] = point]
  /\ local' = [local EXCEPT ![chosen] = v]
  /\ UNCHANGED interrupted

\* The end of a primitive that was suspended at point.
FinishFrom(point) ==
  /\ Running(point)
  /\ pc' = [pc EXCEPT ![chosen] = "user"]
  /\ local' = [local EXCEPT ![chosen] = 0]
  /\ UNCHANGED interrupted

-----------------------------------------------------------------------------
(* start *)

\* The body of start for a priority in range and a free pid.
NewProcess(pr) ==
  LET c     == pidmax + 1
      prio1 == [prio EXCEPT ![c] = pr]
      st    == [state EXCEPT ![c] = "ACTIVABLE"]
      l     == queue_add(c, process_list, prio1)
  IN  /\ pidmax' = c
      /\ prio' = prio1
      /\ children' = [children EXCEPT ![chosen] = @ \cup {c}]
      /\ UNCHANGED <<retval, IFLAG, halted>>
      /\ IF prio[chosen] < pr
         THEN Ordonnance(l, st, prio1) /\ ResumeAt("start", c)
         ELSE /\ process_list' = l
              /\ state' = st
              /\ UNCHANGED <<toKill_list, chosen, ctx>>

Start(pr) ==
  /\ AtUser
  /\ pidmax + 1 < PROCESS_TABLE_SIZE
  /\ pr \in Prio
  /\ NewProcess(pr)

\* Variant: the size of the table is tested with <=.
StartNoStackPastEnd ==
  /\ AtUser
  /\ pidmax < PROCESS_TABLE_SIZE
  /\ pidmax' = pidmax + 1
  /\ UNCHANGED <<state, prio, retval, children, lists, IFLAG, ctx, halted>>

\* mem_alloc has no room for the stack: the pid is used up.
StartNoStack ==
  /\ AtUser
  /\ pidmax + 1 < PROCESS_TABLE_SIZE
  /\ pidmax' = pidmax + 1
  /\ UNCHANGED <<state, prio, retval, children, lists, IFLAG, ctx, halted>>

\* mem_alloc has no room for the struct of the new process, or for the node
\* of the list of children: start writes through the null pointer it gets.
StartFault ==
  /\ AtUser
  /\ pidmax + 1 < PROCESS_TABLE_SIZE
  /\ pidmax' = pidmax + 1
  /\ halted' = "fault"
  /\ UNCHANGED <<state, prio, retval, children, lists, IFLAG, ctx>>

StartRefused(pr) ==
  /\ AtUser
  /\ pidmax + 1 >= PROCESS_TABLE_SIZE \/ pr \notin Prio
  /\ UNCHANGED vars

\* return pidmax, which is read after the new process has run.
StartResult == pidmax

StartReturn ==
  /\ FinishFrom("start")
  /\ UNCHANGED <<table, lists, IFLAG, halted>>

\* kernel_start: idle, which holds the processor, starts the first process.
Boot(pr) ==
  /\ Running("boot")
  /\ pr \in Prio \ {1}
  /\ NewProcess(pr)

-----------------------------------------------------------------------------
(* exit, kill *)

Exit(v) ==
  /\ AtUser
  /\ retval' = [retval EXCEPT ![chosen] = v]
  /\ Ordonnance(process_list, [state EXCEPT ![chosen] = "ZOMBIE"], prio)
  /\ ResumeAt("exit", 0)
  /\ UNCHANGED <<pidmax, prio, children, IFLAG, halted>>

\* Variants of the tests of kill: on the sign of the pid, and on the state.
KillableIdle(k)   == k \in Range(process_list) /\ state[k] # "ZOMBIE"
KillableZombie(k) == k > 0 /\ k \in Range(process_list)

\* kill searches process_list only, and a zombie in it is not killed again.
Killable(k) == k > 0 /\ k \in Range(process_list) /\ state[k] # "ZOMBIE"

\* k will not run again: what its stack still holds is forgotten.
Kill(k) ==
  /\ AtUser
  /\ Killable(k)
  /\ IFLAG' = FALSE
  /\ retval' = [retval EXCEPT ![k] = 0]
  /\ Ordonnance(process_list, [state EXCEPT ![k] = "ZOMBIE"], prio)
  /\ pc' = [pc EXCEPT ![chosen] = "kill", ![k] = "exit"]
  /\ local' = [local EXCEPT ![chosen] = 0, ![k] = 0]
  /\ interrupted' = [interrupted EXCEPT ![k] = FALSE]
  /\ UNCHANGED <<pidmax, prio, children, halted>>

\* The test on the sign of pid returns without sti.
KillRefused(k) ==
  /\ AtUser
  /\ ~Killable(k)
  /\ IFLAG' = (k > 0)
  /\ UNCHANGED <<table, lists, ctx, halted>>

KillReturn ==
  /\ FinishFrom("kill")
  /\ IFLAG' = TRUE
  /\ UNCHANGED <<table, lists, halted>>

-----------------------------------------------------------------------------
(* chprio, getprio *)

\* chosen is queued for the search and taken out again; the priority of a
\* zombie still in the queue is changed where it stands.
Chprio(k, newprio) ==
  LET l1    == queue_add(chosen, process_list, prio)
      prio1 == [prio EXCEPT ![k] = newprio]
      l2    == IF state[k] = "ACTIVABLE"
               THEN queue_add(k, queue_del(k, l1), prio1) ELSE l1
  IN  /\ AtUser
      /\ newprio \in Prio
      /\ k \in Range(l1)
      /\ prio' = prio1
      /\ UNCHANGED <<pidmax, retval, children, halted>>
      /\ IF state[k] # "ZOMBIE"
         THEN /\ IFLAG' = FALSE
              /\ Ordonnance(queue_del(chosen, l2), state, prio1)
              /\ ResumeAt("chprio", 0)
         ELSE /\ IFLAG' = TRUE
              /\ UNCHANGED <<state, lists, ctx>>

ChprioRefused(k, newprio) ==
  /\ AtUser
  /\ newprio \notin Prio \/ k \notin Range(process_list) \cup {chosen}
  /\ IFLAG' = TRUE
  /\ UNCHANGED <<table, lists, ctx, halted>>

ChprioReturn ==
  /\ FinishFrom("chprio")
  /\ IFLAG' = TRUE
  /\ UNCHANGED <<table, lists, halted>>

\* What getprio returns; it looks at chosen and process_list only.
getprio(k) == IF k \in Range(process_list) \cup {chosen} THEN prio[k] ELSE -1

-----------------------------------------------------------------------------
(* waitpid, for pid >= 0 *)

\* Any process in a list may be waited for: the search among the children
\* is commented out, only an empty list of children is refused.
Waitable(k) == k > 0 /\ children[chosen] # {} /\ Linked(k)

Waitpid(k) ==
  /\ AtUser
  /\ Waitable(k)
  /\ IFLAG' = FALSE
  /\ ResumeAt("waitpid", k)
  /\ UNCHANGED <<table, lists, halted>>

WaitpidRefused(k) ==
  /\ AtUser
  /\ ~Waitable(k)
  /\ IFLAG' = TRUE
  /\ UNCHANGED <<table, lists, ctx, halted>>

Awaited == local[chosen]

\* Variant: the loop leaves the interrupt flag alone.
WaitpidSpinMasked ==
  /\ Running("waitpid")
  /\ state[Awaited] \in {"ACTIVABLE", "CHOSEN"}
  /\ ~IFLAG
  /\ UNCHANGED vars

\* One turn of the busy loop; it only ever sets the interrupt flag.
WaitpidSpin ==
  /\ Running("waitpid")
  /\ state[Awaited] \in {"ACTIVABLE", "CHOSEN"}
  /\ ~IFLAG
  /\ IFLAG' = TRUE
  /\ UNCHANGED <<table, lists, ctx, halted>>

\* Variant: the end of the loop is taken for the end of the process, and
\* nothing asserts that the process is linked.
WaitpidReapAnyway ==
  /\ state[Awaited] \notin {"ACTIVABLE", "CHOSEN"}
  /\ FinishFrom("waitpid")
  /\ process_list' = SelectSeq(process_list, LAMBDA p : p # Awaited)
  /\ toKill_list' = toKill_list \ {Awaited}
  /\ IFLAG' = TRUE
  /\ UNCHANGED <<table, chosen, halted>>

\* queue_del unlinks the process from whichever list it is in.
WaitpidReap ==
  /\ state[Awaited] \notin {"ACTIVABLE", "CHOSEN"}
  /\ Linked(Awaited)
  /\ FinishFrom("waitpid")
  /\ process_list' = IF Awaited \in Range(process_list)
                     THEN queue_del(Awaited, process_list) ELSE process_list
  /\ toKill_list' = toKill_list \ {Awaited}
  /\ IFLAG' = TRUE
  /\ UNCHANGED <<table, chosen, halted>>

\* The assertion of queue_del: the process is linked nowhere.
WaitpidPanic ==
  /\ Running("waitpid")
  /\ state[Awaited] \notin {"ACTIVABLE", "CHOSEN"}
  /\ ~Linked(Awaited)
  /\ IFLAG' = FALSE
  /\ halted' = "queue_del"
  /\ UNCHANGED <<table, lists, ctx>>

-----------------------------------------------------------------------------
(* Interrupts *)

\* tic_PIT: ordonnance is called with the flag set, so the handler can be
\* interrupted in turn once the process has the processor again.
Tick ==
  /\ halted = "no"
  /\ IFLAG
  /\ Ordonnance(process_list, state, prio)
  /\ interrupted' = [interrupted EXCEPT ![chosen] = @ \/ chosen' # chosen]
  /\ UNCHANGED <<pidmax, prio, retval, children, IFLAG, pc, local, halted>>

\* The end of the handler: iret restores the flag that let it run.
TickReturn ==
  /\ halted = "no"
  /\ interrupted[chosen]
  /\ interrupted' = [interrupted EXCEPT ![chosen] = FALSE]
  /\ IFLAG' = TRUE
  /\ UNCHANGED <<table, lists, pc, local, halted>>

\* The flag as the processes' own code sets and clears it, and as the loop
\* of idle does: its cli is followed at once by sti, so it ends up waiting
\* in hlt with the flag set.
Sti == /\ Running("user")
       /\ ~IFLAG
       /\ IFLAG' = TRUE
       /\ UNCHANGED <<table, lists, ctx, halted>>

Cli == /\ AtUser
       /\ IFLAG
       /\ IFLAG' = FALSE
       /\ UNCHANGED <<table, lists, ctx, halted>>

-----------------------------------------------------------------------------
(* The specification *)

\* The state init_process_stack leaves: idle has pid 0 and the processor.
Init ==
  /\ pidmax = 0
  /\ state = [p \in Pid |-> IF p = Idle THEN "CHOSEN" ELSE "NONE"]
  /\ prio = [p \in Pid |-> IF p = Idle THEN 1 ELSE 0]
  /\ retval = [p \in Pid |-> 0]
  /\ children = [p \in Pid |-> {}]
  /\ process_list = << >>
  /\ toKill_list = {}
  /\ chosen = Idle
  /\ IFLAG = FALSE
  /\ pc = [p \in Pid |-> IF p = Idle THEN "boot" ELSE "user"]
  /\ local = [p \in Pid |-> 0]
  /\ interrupted = [p \in Pid |-> FALSE]
  /\ halted = "no"

\* Arguments the processes pass, right and wrong ones.
PrioArg == 0 .. MAXPRIO + 1
PidArg  == 0 .. PROCESS_TABLE_SIZE

Primitive ==
  \/ \E pr \in PrioArg : Start(pr) \/ StartRefused(pr)
  \/ StartNoStack \/ StartFault
  \/ \E v \in RETVALS : Exit(v)
  \/ \E k \in PidArg : Kill(k) \/ KillRefused(k)
  \/ \E k \in PidArg : Waitpid(k) \/ WaitpidRefused(k)

ChangePriority ==
  \E k \in PidArg, pr \in PrioArg : Chprio(k, pr) \/ ChprioRefused(k, pr)

Resume ==
  \/ StartReturn \/ KillReturn \/ ChprioReturn
  \/ WaitpidSpin \/ WaitpidReap \/ WaitpidPanic
  \/ TickReturn

Next ==
  \/ \E pr \in Prio : Boot(pr)
  \/ Primitive
  \/ ChangePriority
  \/ Resume
  \/ Tick
  \/ Sti
  \/ Cli

Spec == Init /\ [][Next]_vars

-----------------------------------------------------------------------------
(* Properties *)

TypeOK ==
  /\ pidmax \in Pid
  /\ state \in [Pid -> States]
  /\ prio \in [Pid -> 0..MAXPRIO]
  /\ retval \in [Pid -> RETVALS \cup {0}]
  /\ children \in [Pid -> SUBSET Pid]
  /\ process_list \in Seq(Pid)
  /\ toKill_list \subseteq Pid
  /\ chosen \in Pid
  /\ IFLAG \in BOOLEAN
  /\ pc \in [Pid -> Points]
  /\ local \in [Pid -> Pid]
  /\ interrupted \in [Pid -> BOOLEAN]
  /\ halted \in Halts

\* No process is lost or duplicated between the lists: the ready ones are
\* linked in process_list exactly once, with none but zombies beside them,
\* toKill_list holds zombies that are nowhere else, and exactly the one that
\* has the processor is CHOSEN (ordonnance, start, chprio, waitpid).
Conservation ==
  /\ IsInjective(process_list)
  /\ \A p \in Range(process_list) : state[p] \in {"ACTIVABLE", "ZOMBIE"}
  /\ \A p \in toKill_list : state[p] = "ZOMBIE" /\ p \notin Range(process_list)
  /\ \A p \in Pid : state[p] = "ACTIVABLE" => p \in Range(process_list)
  /\ \A p \in Pid : state[p] = "CHOSEN" <=> p = chosen

\* Whenever another process has the processor idle is ready, so ordonnance
\* called by a process that dies or blocks always finds a successor and the
\* code after it never runs on (the for(;;) of exit is not reached).
IdleReady == chosen # Idle => state[Idle] = "ACTIVABLE"

\* A zombie stays one and keeps the value waitpid will collect, whatever
\* kill, chprio and the scheduler do to it meanwhile.
DeadForever ==
  [][\A p \in Pid : state[p] = "ZOMBIE" =>
       state'[p] = "ZOMBIE" /\ retval'[p] = retval[p]]_vars

\* process_list is kept in the order of queue.h through every removal,
\* insertion and change of priority but one: giving a zombie that is still
\* in the queue another priority (chprio, process.c:374).
OnlyZombiesUnsort ==
  [][/\ Sorted(process_list, prio)
     /\ \A p \in Pid : state[p] = "ZOMBIE" => prio'[p] = prio[p]
     => Sorted(process_list', prio')]_vars
=============================================================================
