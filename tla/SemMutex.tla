------------------------------ MODULE SemMutex ------------------------------
(***************************************************************************)
(* Processes that use one semaphore as a lock, the way kernel/tests do:    *)
(* created with a count of 1, wait before the critical section and signal  *)
(* after it, under the clock and under processes that die.                 *)
(***************************************************************************)
EXTENDS MCSem

ASSUME LockCount == 1 \in COUNTS

VARIABLE inside   \* the processes between the return of wait, or a try_wait
                  \* that returned 0, and their next call of signal

mutexvars == <<allvars, inside>>

Lock == 0

MutexInit == SemInit /\ inside = {}

MakeLock == nb_sem = 0 /\ Screate(1) /\ UNCHANGED inside

\* The calls by which a process asks for the lock.
Enter ==
  /\ chosen \notin inside
  /\ Wait(Lock) \/ TryWait(Lock)
  /\ UNCHANGED inside

\* The returns by which it gets it.  try_wait also returns 0 when the counter
\* is not above zero at its last test.
Entered ==
  /\ \/ WaitPass
     \/ TryMisses /\ Counter # VAL_MIN
     \/ SemStore /\ Mine.op = "try_wait"
  /\ inside' = inside \cup {chosen}

Leave ==
  /\ chosen \in inside
  /\ Signaln(Lock, 1)
  /\ inside' = inside \ {chosen}

\* The rest of wait, try_wait and signal.
Going ==
  /\ \/ TryGoesOn
     \/ TryMisses /\ Counter = VAL_MIN
     \/ SemLoad
     \/ SemStore /\ Mine.op # "try_wait"
     \/ WaitBlock
     \/ SignalCheck \/ SignalYield \/ SignalReturn
  /\ UNCHANGED inside

\* The rest of a process: it starts others, dies, is killed or preempted,
\* outside and inside the critical section, and masks the interrupts or not.
Elsewhere ==
  /\ \/ \E pr \in Prio : Boot(pr) \/ Start(pr)
     \/ \E v \in RETVALS : Exit(v)
     \/ \E k \in PidArg : Kill(k)
     \/ StartReturn \/ KillReturn \/ TickReturn
     \/ Tick \/ Sti \/ Cli
  /\ SemsAside
  /\ UNCHANGED inside

MutexNext == MakeLock \/ Enter \/ Entered \/ Leave \/ Going \/ Elsewhere

MutexSpec == MutexInit /\ [][MutexNext]_mutexvars

\* Bound of a run of MutualExclusion, which says nothing of the states that
\* follow the others.
Untorn == ~torn

\* At most one process is in the critical section.
OneInside == Cardinality(inside) <= 1

\* At most one process is in the critical section, whichever of them block,
\* die inside or are preempted there, as long as none has lost the processor
\* inside wait, try_wait or signal: that is, when those calls are made with
\* the interrupts masked, or the clock happens to spare them (sem.c).
MutualExclusion == ~torn => OneInside
=============================================================================
