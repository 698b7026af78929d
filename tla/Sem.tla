-------------------------------- MODULE Sem --------------------------------
(***************************************************************************)
(* The counting semaphores of kernel/sem.c on top of the scheduler.        *)
(*                                                                         *)
(* A semaphore is a node of the list sems, which only grows; deleting one  *)
(* sets its sid to -1.  A primitive that does not find its semaphore       *)
(* follows a null pointer, and page 0 is not mapped.                       *)
(*                                                                         *)
(* wait, try_wait, signal and signaln mask no interrupt.  Each is split    *)
(* into the steps between which the clock can take the processor away: the *)
(* tests on the counter, the load and the store of val-- and val++, and    *)
(* the test of the result.  pc says which of them comes next, local which  *)
(* semaphore it is about, frame what the primitive keeps in registers and  *)
(* on its stack.                                                           *)
(***************************************************************************)
EXTENDS Process

CONSTANTS
  NBSEMS,               \* the number of semaphores screate will make
  VAL_MAX, VAL_MIN,     \* the limits the primitives test before they add
  COUNTS,               \* the counts processes pass to screate, signaln, sreset
  MAXCREATE             \* bound on the calls of screate, which nb_sem counts

ASSUME SemConstants ==
  /\ NBSEMS \in 0 .. PROCESS_TABLE_SIZE - 1 /\ MAXCREATE \in Nat
  /\ VAL_MAX \in Nat /\ VAL_MIN \in Int /\ VAL_MIN < 0
  /\ COUNTS \subseteq VAL_MIN .. VAL_MAX

VARIABLES
  nb_sem,   \* how many times screate has been called, failures included
  sems,     \* the list of [sid, val, p_bloques], in order of creation
  frame,    \* of each process inside a primitive: which one, the counter it
            \* has loaded, and how many increments are left to signaln
  torn      \* a process has lost the processor between two of the SemSteps

semvars == <<nb_sem, sems, frame, torn>>
allvars == <<vars, semvars>>

\* The position in sems of the semaphore with this sid; 0 is the null pointer.
sem_courant(s) ==
  IF \E i \in DOMAIN sems : sems[i].sid = s
  THEN CHOOSE i \in DOMAIN sems : sems[i].sid = s
  ELSE 0

\* The test at the head of every primitive but scount, and whether the
\* semaphore it lets through exists.
InRange(s) == s \in 0 .. NBSEMS - 1
Names(s)   == InRange(s) /\ sem_courant(s) # 0

\* The list of blocked processes after add_proc_bloque: the node it
\* allocates for pid is never attached to the semaphore.
add_proc_bloque(b, pid) == b

\* passe_activable, for each of the pids taken off a list of blocked ones:
\* it only looks for them in process_list.
passe_activable(pids) ==
  [p \in Pid |-> IF p \in pids /\ p \in Range(process_list)
                 THEN "ACTIVABLE" ELSE state[p]]

-----------------------------------------------------------------------------
(* The steps of a primitive *)

SemSteps == {"sem_test", "sem_load", "sem_store", "sem_check"}

NoFrame == [op |-> "none", reg |-> 0, left |-> 0]

\* A counter is a short: val-- and val++ go round at its ends.
Less(v) == IF v = VAL_MIN THEN VAL_MAX ELSE v - 1
More(v) == IF v = VAL_MAX THEN VAL_MIN ELSE v + 1

\* The counter of the semaphore the running process works on, and its frame.
Cour    == local[chosen]
Counter == sems[Cour].val
Mine    == frame[chosen]

\* The call of op has found semaphore s and goes on at point, with n
\* increments to make.
Call(op, s, n, point) ==
  /\ AtUser
  /\ Names(s)
  /\ ResumeAt(point, sem_courant(s))
  /\ frame' = [frame EXCEPT ![chosen] = [op |-> op, reg |-> 0, left |-> n]]
  /\ UNCHANGED <<table, lists, IFLAG, halted, nb_sem, sems, torn>>

\* A step of the running process inside its primitive: it goes on at point.
GoOn(point) ==
  /\ pc' = [pc EXCEPT ![chosen] = point]
  /\ UNCHANGED <<table, lists, IFLAG, local, interrupted, halted, nb_sem, torn>>

\* The primitive at point returns.
Return(point) ==
  /\ FinishFrom(point)
  /\ frame' = [frame EXCEPT ![chosen] = NoFrame]
  /\ UNCHANGED <<table, lists, IFLAG, halted, nb_sem, torn>>

-----------------------------------------------------------------------------
(* screate, sdelete, sreset *)

\* Variant: only the count is tested.
ScreateUnlimited(count) ==
  /\ AtUser
  /\ nb_sem < MAXCREATE
  /\ nb_sem' = nb_sem + 1
  /\ sems' = IF count < 0 THEN sems
             ELSE Append(sems, [sid |-> nb_sem' - 1, val |-> count,
                                p_bloques |-> << >>])
  /\ UNCHANGED <<vars, frame, torn>>

Screate(count) ==
  /\ AtUser
  /\ nb_sem < MAXCREATE
  /\ nb_sem' = nb_sem + 1
  /\ sems' = IF nb_sem' > NBSEMS \/ count < 0 THEN sems
             ELSE Append(sems, [sid |-> nb_sem' - 1, val |-> count,
                                p_bloques |-> << >>])
  /\ UNCHANGED <<vars, frame, torn>>

\* mem_alloc has no room for the node, and screate writes through the null
\* pointer it gets.
ScreateFault(count) ==
  /\ AtUser
  /\ count >= 0
  /\ nb_sem < MAXCREATE /\ nb_sem < NBSEMS
  /\ nb_sem' = nb_sem + 1
  /\ halted' = "fault"
  /\ UNCHANGED <<table, lists, IFLAG, ctx, sems, frame, torn>>

\* Every process of the list of blocked ones is made ready, first come first
\* served; the semaphore is left as s1.
WakeAll(i, s1) ==
  /\ state' = passe_activable(Range(sems[i].p_bloques))
  /\ sems' = [sems EXCEPT ![i] = [s1 EXCEPT !.p_bloques = << >>]]
  /\ UNCHANGED <<pidmax, prio, retval, children, lists, IFLAG, ctx, halted,
                 nb_sem, frame, torn>>

Sdelete(s) ==
  /\ AtUser
  /\ Names(s)
  /\ LET i == sem_courant(s) IN WakeAll(i, [sems[i] EXCEPT !.sid = -1])

Sreset(s, count) ==
  /\ AtUser
  /\ count >= 0
  /\ Names(s)
  /\ LET i == sem_courant(s) IN WakeAll(i, [sems[i] EXCEPT !.val = count])

-----------------------------------------------------------------------------
(* wait, try_wait, signal and signaln: the calls *)

\* wait, for a counter that can be decremented.
Wait(s) ==
  /\ Names(s) => sems[sem_courant(s)].val - 1 >= VAL_MIN
  /\ Call("wait", s, 0, "sem_load")

\* try_wait, for a counter that passes its first test.
TryWait(s) ==
  /\ Names(s) => sems[sem_courant(s)].val - 1 > 0
  /\ Call("try_wait", s, 0, "sem_test")

Overflows(i, count) == sems[i].val + count > VAL_MAX

\* signaln(s, count), and signal(s) for a count of 1.
Signaln(s, count) ==
  /\ count >= 0
  /\ Names(s) => ~Overflows(sem_courant(s), count)
  /\ Call("signaln", s, count, IF count = 0 THEN "sem_yield" ELSE "sem_load")

-----------------------------------------------------------------------------
(* wait, try_wait, signal and signaln: the counter *)

\* The other tests of try_wait read the counter again.
TryGoesOn ==
  /\ Running("sem_test")
  /\ Counter > 0
  /\ GoOn("sem_load")
  /\ UNCHANGED <<sems, frame>>

\* try_wait returns without taking a unit: 0, or -2 when the counter has
\* reached its lower limit meanwhile.
TryMisses ==
  /\ Return("sem_test")
  /\ Counter <= 0
  /\ UNCHANGED sems

\* The load of val-- or val++.
SemLoad ==
  /\ Running("sem_load")
  /\ frame' = [frame EXCEPT ![chosen].reg = Counter]
  /\ GoOn("sem_store")
  /\ UNCHANGED sems

\* What val-- and val++ store.
Result(f) == IF f.op = "signaln" THEN More(f.reg) ELSE Less(f.reg)

\* The store of val-- or val++, the last thing try_wait does.
SemStore ==
  /\ Running("sem_store")
  /\ sems' = [sems EXCEPT ![Cour].val = Result(Mine)]
  /\ \/ Mine.op = "try_wait" /\ Return("sem_store")
     \/ /\ Mine.op # "try_wait"
        /\ frame' = [frame EXCEPT ![chosen].reg = 0]
        /\ GoOn("sem_check")

-----------------------------------------------------------------------------
(* wait: the end *)

\* Variant: wait blocks one unit too late.
WaitPassLate ==
  /\ Return("sem_check")
  /\ Mine.op = "wait"
  /\ Counter >= -1
  /\ UNCHANGED sems

\* wait by a process that does not have to block.
WaitPass ==
  /\ Return("sem_check")
  /\ Mine.op = "wait"
  /\ Counter >= 0
  /\ UNCHANGED sems

\* Variant: a process that blocks takes another unit.
WaitBlockTwice ==
  /\ Running("sem_check")
  /\ Mine.op = "wait"
  /\ Counter < 0
  /\ sems' = [sems EXCEPT ![Cour].val = Less(@)]
  /\ Ordonnance(process_list,
                [state EXCEPT ![chosen] = "BLOCKED_ON_SEM"], prio)
  /\ ResumeAt("wait", Cour)
  /\ frame' = [frame EXCEPT ![chosen] = NoFrame]
  /\ UNCHANGED <<pidmax, prio, retval, children, IFLAG, halted, nb_sem, torn>>

\* wait by a process that blocks: it is in no list once ordonnance has given
\* the processor away, and nothing gives it the processor back.  What wait
\* does after that, for a semaphore deleted or reset, is never reached.
WaitBlock ==
  /\ Running("sem_check")
  /\ Mine.op = "wait"
  /\ Counter < 0
  /\ sems' = [sems EXCEPT ![Cour].p_bloques = add_proc_bloque(@, chosen)]
  /\ Ordonnance(process_list,
                [state EXCEPT ![chosen] = "BLOCKED_ON_SEM"], prio)
  /\ ResumeAt("wait", Cour)
  /\ frame' = [frame EXCEPT ![chosen] = NoFrame]
  /\ UNCHANGED <<pidmax, prio, retval, children, IFLAG, halted, nb_sem, torn>>

\* mem_alloc has no room for the node of add_proc_bloque.
WaitFault ==
  /\ Running("sem_check")
  /\ Mine.op = "wait"
  /\ Counter < 0
  /\ halted' = "fault"
  /\ UNCHANGED <<table, lists, IFLAG, ctx, semvars>>

-----------------------------------------------------------------------------
(* signal and signaln: the end *)

\* The processes get_premier_proc_bloque takes off b when the counter is v.
Woken(v, b) == IF v <= 0 /\ b # << >> THEN {b[1]} ELSE {}

\* One turn of the loop of signaln: an increment that leaves the counter at
\* or below zero takes the first process off the list.
SignalCheck ==
  /\ Running("sem_check")
  /\ Mine.op = "signaln"
  /\ LET b == sems[Cour].p_bloques
         w == Woken(Counter, b)
     IN  /\ state' = passe_activable(w)
         /\ sems' = [sems EXCEPT ![Cour].p_bloques = IF w = {} THEN b ELSE Tail(b)]
  /\ frame' = [frame EXCEPT ![chosen].left = @ - 1]
  /\ pc' = [pc EXCEPT ![chosen] = IF Mine.left = 1 THEN "sem_yield" ELSE "sem_load"]
  /\ UNCHANGED <<pidmax, prio, retval, children, lists, IFLAG, local,
                 interrupted, halted, nb_sem, torn>>

\* The processor is given up even when nobody was waiting.
SignalYield ==
  /\ Running("sem_yield")
  /\ Ordonnance(process_list, state, prio)
  /\ ResumeAt("signal", 0)
  /\ frame' = [frame EXCEPT ![chosen] = NoFrame]
  /\ UNCHANGED <<pidmax, prio, retval, children, IFLAG, halted, nb_sem, sems, torn>>

SignalReturn ==
  /\ FinishFrom("signal")
  /\ UNCHANGED <<table, lists, IFLAG, halted, semvars>>

-----------------------------------------------------------------------------
(* Refusals and faults of all of them *)

\* The ways a primitive returns a negative value and changes nothing: a
\* semaphore out of range, a negative count, a counter at its limit, nothing
\* for try_wait to take.
SemRefused(s, count) ==
  /\ AtUser
  /\ \/ ~InRange(s)
     \/ count < 0
     \/ /\ Names(s)
        /\ LET i == sem_courant(s) IN
             Overflows(i, count) \/ sems[i].val = VAL_MIN \/ sems[i].val - 1 <= 0
  /\ UNCHANGED allvars

\* A primitive goes through the null pointer: the sid is in the range the
\* primitive accepts, which for scount has no upper end once a semaphore has
\* been made, and no semaphore has it.
SemFault(s) ==
  /\ AtUser
  /\ InRange(s) \/ (s >= 0 /\ sems # << >>)
  /\ sem_courant(s) = 0
  /\ halted' = "fault"
  /\ UNCHANGED <<table, lists, IFLAG, ctx, semvars>>

-----------------------------------------------------------------------------
(* The specification *)

\* What a step of the scheduler leaves of the semaphores.  A process killed
\* inside a primitive has no frame any more.
SemsAside ==
  /\ frame' = [p \in Pid |-> IF pc'[p] = "exit" THEN NoFrame ELSE frame[p]]
  /\ torn' = (torn \/ (pc[chosen] \in SemSteps /\ chosen' # chosen))
  /\ UNCHANGED <<nb_sem, sems>>

SemInit ==
  /\ Init
  /\ nb_sem = 0
  /\ sems = << >>
  /\ frame = [p \in Pid |-> NoFrame]
  /\ torn = FALSE

SidArg == -1 .. NBSEMS

SemPrimitive ==
  \/ \E c \in COUNTS : Screate(c) \/ ScreateFault(c)
  \/ \E s \in SidArg : Sdelete(s) \/ Wait(s) \/ TryWait(s) \/ SemFault(s)
  \/ \E s \in SidArg, c \in COUNTS :
       Sreset(s, c) \/ Signaln(s, c) \/ SemRefused(s, c)

SemStep ==
  \/ TryGoesOn \/ TryMisses \/ SemLoad \/ SemStore
  \/ WaitPass \/ WaitBlock \/ WaitFault
  \/ SignalCheck \/ SignalYield \/ SignalReturn

SemNext ==
  \/ Next /\ SemsAside
  \/ SemPrimitive
  \/ SemStep

SemSpec == SemInit /\ [][SemNext]_allvars

-----------------------------------------------------------------------------
(* Properties *)

SemTypeOK ==
  /\ TypeOK
  /\ nb_sem \in 0..MAXCREATE
  /\ sems \in Seq([sid : -1..NBSEMS-1, val : VAL_MIN..VAL_MAX,
                   p_bloques : Seq(Pid)])
  /\ Len(sems) <= NBSEMS
  /\ frame \in [Pid -> [op : {"none", "wait", "try_wait", "signaln"},
                         reg : VAL_MIN..VAL_MAX, left : 0..VAL_MAX]]
  /\ torn \in BOOLEAN

\* The processes that blocked in wait on the semaphore at position i.
BlockedOn(i) ==
  {p \in Pid : state[p] = "BLOCKED_ON_SEM" /\ pc[p] = "wait" /\ local[p] = i}

\* With those that have taken their unit in wait and not blocked yet.
Owing(i) ==
  BlockedOn(i) \cup
  {p \in Pid : pc[p] = "sem_check" /\ frame[p].op = "wait" /\ local[p] = i}

\* As long as no process has lost the processor inside wait, try_wait or
\* signaln, a counter below zero is never lower than its processes account
\* for: no sequence of waits, failed try_waits, resets and overflowing
\* signals takes a unit from a semaphore without a process that paid for it
\* (wait, try_wait, signaln, sreset of sem.c).
DebtIsBlocked ==
  ~torn => \A i \in DOMAIN sems : -sems[i].val <= Cardinality(Owing(i))

\* waitpid only ever collects a process that has died, even when the one it
\* waits for blocks on a semaphore meanwhile, which ends its loop too
\* (process.c:335-344: the assertion of queue_del stops the machine first).
CollectsTheDead ==
  [][pc[chosen] = "waitpid" /\ pc'[chosen] = "user"
       => state[Awaited] = "ZOMBIE"]_allvars
=============================================================================
