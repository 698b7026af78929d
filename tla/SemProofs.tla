----------------------------- MODULE SemProofs -----------------------------
(***************************************************************************)
(* Proofs about Sem: the scheduler's invariant survives the semaphores,    *)
(* waitpid collects the dead only, Sem implements ProcessLifecycle too; and*)
(* as long as no process loses the processor inside a primitive, a         *)
(* negative counter is backed by blocked processes and a semaphore made    *)
(* with a count of 1 is a lock.                                            *)
(***************************************************************************)
EXTENDS SemMutex, ProcessProofs, FiniteSetTheorems

\* Where a process is inside a primitive of the semaphores.
Spots == SemSteps \cup {"sem_yield"}

Frames == [op : {"none", "wait", "try_wait", "signaln"},
           reg : VAL_MIN..VAL_MAX, left : 0..VAL_MAX]

\* The types of the semaphores.  Nothing ever enters a list of blocked
\* processes, and every semaphore took a call of screate.
SemTyped ==
  /\ nb_sem \in 0..MAXCREATE
  /\ sems \in Seq([sid : -1..NBSEMS-1, val : VAL_MIN..VAL_MAX, p_bloques : {<< >>}])
  /\ Len(sems) <= NBSEMS /\ Len(sems) <= nb_sem
  /\ frame \in [Pid -> Frames] /\ torn \in BOOLEAN

\* What goes with each point of a primitive, of n semaphores: a semaphore,
\* the primitives that come through it, an increment to make.
ShapeOf(point, i, f, n) ==
  /\ point \in Spots => i \in 1..n
  /\ point = "sem_test" => f.op = "try_wait"
  /\ point \in {"sem_load", "sem_store"} => f.op \in {"wait", "try_wait", "signaln"}
  /\ point = "sem_check" => f.op \in {"wait", "signaln"}
  /\ point \in SemSteps /\ f.op = "signaln" => f.left > 0

Shape ==
  /\ \A p \in Pid : ShapeOf(pc[p], local[p], frame[p], Len(sems))
  /\ pc[Idle] \notin Spots

\* As long as no process has lost the processor between two of the SemSteps,
\* only the running one is between two of them.
Alone == ~torn => \A p \in Pid : pc[p] \in SemSteps => p = chosen

\* And what its tests have found of the counter v is still true of it.
AccountOf(point, f, v) ==
  /\ point = "sem_test" => v > 0
  /\ point \in {"sem_load", "sem_store"} /\ f.op = "wait" => v > VAL_MIN
  /\ point \in {"sem_load", "sem_store"} /\ f.op = "try_wait" => v > 0
  /\ point \in {"sem_load", "sem_store"} /\ f.op = "signaln" => v + f.left <= VAL_MAX
  /\ point = "sem_store" => f.reg = v
  /\ point = "sem_check" /\ f.op = "signaln" => v + f.left - 1 <= VAL_MAX

Accounts ==
  ~torn /\ pc[chosen] \in SemSteps => AccountOf(pc[chosen], Mine, Counter)

\* The inductive invariant.
SemInv == IInv /\ SemTyped /\ Shape /\ Alone /\ Accounts /\ DebtIsBlocked

\* A blocked process stays where it is.
BlockedStay ==
  \A p \in Pid : state[p] = "BLOCKED_ON_SEM" =>
    state'[p] = state[p] /\ pc'[p] = pc[p] /\ local'[p] = local[p]

\* What every step establishes.
SemGoal == SemInv' /\ BlockedStay /\ StaysDead

-----------------------------------------------------------------------------
(* The steps of the processes *)

LEMMA SwitchKeepsBlocked ==
  ASSUME ConstantsAssumption, IInv,
         NEW l, NEW st, NEW pr \in [Pid -> Nat], Callable(l, st),
         Ordonnance(l, st, pr),
         \A p \in Pid : state[p] = "BLOCKED_ON_SEM" => st[p] = state[p],
         NEW k \in Pid, state[k] # "BLOCKED_ON_SEM",
         \A p \in Pid : p # chosen /\ p # k => pc'[p] = pc[p] /\ local'[p] = local[p]
  PROVE  BlockedStay
<1>1. \A p \in Pid : st[p] \in {"ZOMBIE", "NONE", "BLOCKED_ON_SEM"} => state'[p] = st[p]
  BY OrdonnanceConserves DEF IInv
<1> QED BY <1>1, Facts DEF BlockedStay

LEMMA ResumeElsewhere ==
  ASSUME NEW point, NEW v, ConstantsAssumption, IInv, ResumeAt(point, v)
  PROVE  \A p \in Pid : p # chosen => pc'[p] = pc[p] /\ local'[p] = local[p]
BY DEF ResumeAt, IInv, TypeOK

LEMMA NewProcessKeepsBlocked ==
  ASSUME ConstantsAssumption, IInv, NEW pr \in Prio, pidmax + 1 \in Pid,
         NewProcess(pr)
  PROVE  BlockedStay
<1> DEFINE c     == pidmax + 1
           prio1 == [prio EXCEPT ![c] = pr]
           st    == [state EXCEPT ![c] = "ACTIVABLE"]
           l     == queue_add(c, process_list, prio1)
<1>1. state[c] = "NONE"
  <2>1. pidmax \in Nat /\ c \in Pid /\ c > pidmax
    BY DEF Pid, IInv, TypeOK
  <2> QED BY <2>1 DEF IInv, Fresh
<1>2. \/ Ordonnance(l, st, prio1) /\ ResumeAt("start", c)
      \/ state' = st /\ UNCHANGED ctx
  BY Zenon DEF NewProcess
<1>3. Callable(l, st)
  BY <1>1, StarterCalls, Zenon
<1>4. prio1 \in [Pid -> Nat]
  <2>1. pr \in Nat /\ prio \in [Pid -> Nat]
    BY Facts DEF Prio
  <2> QED BY <2>1
<1>5. \A p \in Pid : state[p] = "BLOCKED_ON_SEM" => st[p] = state[p]
  BY <1>1 DEF IInv, TypeOK
<1>6. c \in Pid
  OBVIOUS
<1> HIDE DEF l, prio1, st, c
<1>7. CASE Ordonnance(l, st, prio1) /\ ResumeAt("start", c)
  <2>1. \A p \in Pid : p # chosen => pc'[p] = pc[p] /\ local'[p] = local[p]
    BY <1>7, ResumeElsewhere
  <2>2. state[c] # "BLOCKED_ON_SEM"
    BY <1>1
  <2> QED BY <2>1, <2>2, <1>3, <1>4, <1>5, <1>6, <1>7, SwitchKeepsBlocked
<1>8. CASE state' = st /\ UNCHANGED ctx
  BY <1>5, <1>8 DEF BlockedStay, ctx
<1> QED BY <1>2, <1>7, <1>8

LEMMA ChprioKeepsBlocked ==
  ASSUME ConstantsAssumption, IInv, NEW k, NEW newprio, Chprio(k, newprio)
  PROVE  BlockedStay
<1> DEFINE l1    == queue_add(chosen, process_list, prio)
           prio1 == [prio EXCEPT ![k] = newprio]
           l2    == IF state[k] = "ACTIVABLE"
                    THEN queue_add(k, queue_del(k, l1), prio1) ELSE l1
           l     == queue_del(chosen, l2)
<1>1. /\ newprio \in Prio /\ k \in Range(l1)
      /\ IF state[k] # "ZOMBIE" THEN Ordonnance(l, state, prio1) /\ ResumeAt("chprio", 0)
                                ELSE UNCHANGED <<state, lists, ctx>>
  BY Zenon DEF Chprio
<1>2. k \in Pid
  <2>1. Range(l1) = Range(process_list) \cup {chosen}
    BY Facts, AddRange
  <2> QED BY <2>1, <1>1, Facts
<1>3. Callable(l, state)
  BY <1>1, <1>2, ChprioCalls, Zenon
<1>4. prio1 \in [Pid -> Nat]
  <2>1. newprio \in Nat /\ prio \in [Pid -> Nat]
    BY <1>1, Facts DEF Prio
  <2> QED BY <2>1
<1> HIDE DEF l, prio1
<1>5. CASE state[k] # "ZOMBIE"
  <2>1. \A p \in Pid : p # chosen => pc'[p] = pc[p] /\ local'[p] = local[p]
    BY <1>1, <1>5, ResumeElsewhere
  <2>2. chosen \in Pid /\ state[chosen] # "BLOCKED_ON_SEM"
    BY Facts
  <2>3. Ordonnance(l, state, prio1)
    BY <1>1, <1>5
  <2> QED BY <2>1, <2>2, <2>3, <1>3, <1>4, SwitchKeepsBlocked
<1>6. CASE state[k] = "ZOMBIE"
  BY <1>1, <1>6 DEF BlockedStay, ctx
<1> QED BY <1>5, <1>6

LEMMA NextKeepsBlocked ==
  ASSUME ConstantsAssumption, IInv, [Next]_vars
  PROVE  BlockedStay
<1>1. ASSUME NEW pr \in Prio, Boot(pr) PROVE BlockedStay
  <2>1. pidmax + 1 \in Pid /\ NewProcess(pr)
    <3>1. NewProcess(pr) /\ pc[chosen] = "boot"
      BY <1>1 DEF Boot, Running
    <3>2. pc[Idle] = "boot"
      BY <3>1, Facts DEF IInv, Fresh
    <3> QED BY <3>1, <3>2 DEF IInv, Fresh, Pid, ConstantsAssumption
  <2> QED BY <2>1, NewProcessKeepsBlocked
<1>2. ASSUME NEW pr \in PrioArg, Start(pr) PROVE BlockedStay
  <2>1. pr \in Prio /\ NewProcess(pr) /\ pidmax + 1 < PROCESS_TABLE_SIZE
    BY <1>2 DEF Start
  <2>2. pidmax + 1 \in Pid
    BY <2>1 DEF Pid, IInv, TypeOK, ConstantsAssumption
  <2> QED BY <2>1, <2>2, NewProcessKeepsBlocked
<1>3. ASSUME NEW v \in RETVALS, Exit(v) PROVE BlockedStay
  <2> DEFINE st == [state EXCEPT ![chosen] = "ZOMBIE"]
  <2>1. chosen # Idle /\ Ordonnance(process_list, st, prio) /\ ResumeAt("exit", 0)
    BY <1>3 DEF Exit, AtUser
  <2>2. Callable(process_list, st) /\ prio \in [Pid -> Nat]
    BY <2>1, LeaverCalls, Facts
  <2>3. \A p \in Pid : p # chosen => pc'[p] = pc[p] /\ local'[p] = local[p]
    BY <2>1, ResumeElsewhere
  <2>4. chosen \in Pid /\ state[chosen] # "BLOCKED_ON_SEM"
    BY Facts
  <2>5. \A p \in Pid : state[p] = "BLOCKED_ON_SEM" => st[p] = state[p]
    BY <2>4
  <2> HIDE DEF st
  <2> QED BY <2>1, <2>2, <2>3, <2>4, <2>5, SwitchKeepsBlocked
<1>4. ASSUME NEW k \in PidArg, Kill(k) PROVE BlockedStay
  <2> DEFINE st == [state EXCEPT ![k] = "ZOMBIE"]
  <2>1. /\ chosen # Idle /\ Ordonnance(process_list, st, prio)
        /\ k \in Range(process_list) /\ k # Idle
        /\ pc' = [pc EXCEPT ![chosen] = "kill", ![k] = "exit"]
        /\ local' = [local EXCEPT ![chosen] = 0, ![k] = 0]
    BY <1>4 DEF Kill, AtUser, Killable, Idle
  <2>2. Callable(process_list, st) /\ prio \in [Pid -> Nat]
    BY <2>1, KillerCalls, Facts
  <2>3. \A p \in Pid : p # chosen /\ p # k => pc'[p] = pc[p] /\ local'[p] = local[p]
    BY <2>1 DEF IInv, TypeOK
  <2>4. k \in Pid /\ state[k] # "BLOCKED_ON_SEM"
    BY <2>1, Facts DEF IInv, Conservation
  <2>5. \A p \in Pid : state[p] = "BLOCKED_ON_SEM" => st[p] = state[p]
    BY <2>4
  <2> HIDE DEF st
  <2>6. Ordonnance(process_list, st, prio)
    BY <2>1
  <2> QED BY <2>2, <2>3, <2>4, <2>5, <2>6, SwitchKeepsBlocked
<1>5. ASSUME NEW k \in PidArg, NEW pr \in PrioArg, Chprio(k, pr) PROVE BlockedStay
  BY <1>5, ChprioKeepsBlocked
<1>6. ASSUME Tick PROVE BlockedStay
  <2>1. Ordonnance(process_list, state, prio) /\ UNCHANGED <<pc, local>>
    BY <1>6 DEF Tick
  <2>2. Callable(process_list, state) /\ prio \in [Pid -> Nat]
    BY Facts
  <2>3. chosen \in Pid /\ state[chosen] # "BLOCKED_ON_SEM"
    BY Facts
  <2> QED BY <2>1, <2>2, <2>3, SwitchKeepsBlocked
<1>7. ASSUME UNCHANGED state,
             \A p \in Pid : p # chosen => pc'[p] = pc[p] /\ local'[p] = local[p]
      PROVE  BlockedStay
  BY <1>7, Facts DEF BlockedStay
<1>8. ASSUME StartReturn \/ KillReturn \/ ChprioReturn \/ WaitpidReap
      PROVE  BlockedStay
  <2>1. /\ state' = state
        /\ pc' = [pc EXCEPT ![chosen] = "user"]
        /\ local' = [local EXCEPT ![chosen] = 0]
    BY <1>8 DEF StartReturn, KillReturn, ChprioReturn, WaitpidReap, FinishFrom, table
  <2>2. \A p \in Pid : p # chosen => pc'[p] = pc[p] /\ local'[p] = local[p]
    BY <2>1 DEF IInv, TypeOK
  <2> QED BY <2>1, <2>2, <1>7
<1>9. ASSUME NEW k \in PidArg, Waitpid(k) PROVE BlockedStay
  <2>1. state' = state /\ ResumeAt("waitpid", k)
    BY <1>9 DEF Waitpid, table
  <2> QED BY <2>1, <1>7, ResumeElsewhere
<1>10. ASSUME \/ \E pr \in PrioArg : StartRefused(pr)
              \/ StartNoStack \/ StartFault
              \/ \E k \in PidArg : KillRefused(k) \/ WaitpidRefused(k)
              \/ \E k \in PidArg, pr \in PrioArg : ChprioRefused(k, pr)
              \/ WaitpidSpin \/ WaitpidPanic \/ TickReturn \/ Sti \/ Cli
              \/ UNCHANGED vars
       PROVE  BlockedStay
  <2>1. UNCHANGED <<state, pc, local>>
    BY <1>10 DEF StartRefused, StartNoStack, StartFault, KillRefused, WaitpidRefused,
                 ChprioRefused, WaitpidSpin, WaitpidPanic, TickReturn, Sti, Cli,
                 vars, table, ctx
  <2> QED BY <2>1 DEF BlockedStay
<1>11. Next => BlockedStay
  BY <1>1, <1>2, <1>3, <1>4, <1>5, <1>6, <1>8, <1>9, <1>10
     DEF Next, Primitive, ChangePriority, Resume
<1> QED BY <1>10, <1>11

\* A step of the scheduler takes no process to a point inside a primitive of
\* the semaphores, and leaves one that runs there where it is.
KeepsSpots ==
  /\ \A p \in Pid : pc'[p] \in Spots => pc'[p] = pc[p] /\ local'[p] = local[p]
  /\ pc[chosen] \in Spots => pc' = pc /\ local' = local

LEMMA ResumeSpots ==
  ASSUME ConstantsAssumption, IInv, NEW point, NEW v, ResumeAt(point, v),
         point \notin Spots, pc[chosen] \notin Spots
  PROVE  KeepsSpots
<1>1. pc' = [pc EXCEPT ![chosen] = point] /\ local' = [local EXCEPT ![chosen] = v]
  BY DEF ResumeAt
<1> QED BY <1>1 DEF KeepsSpots, IInv, TypeOK

LEMMA NewProcessSpots ==
  ASSUME ConstantsAssumption, IInv, NEW pr, NewProcess(pr), pc[chosen] \notin Spots
  PROVE  KeepsSpots
<1>1. ResumeAt("start", pidmax + 1) \/ UNCHANGED ctx
  BY Zenon DEF NewProcess
<1>2. "start" \notin Spots
  BY DEF Spots, SemSteps
<1> QED BY <1>1, <1>2, ResumeSpots DEF ctx, KeepsSpots

LEMMA NextKeepsSpots ==
  ASSUME ConstantsAssumption, IInv, Next
  PROVE  KeepsSpots
<1>1. \A x \in Points : x \in Spots <=>
        x \in {"sem_test", "sem_load", "sem_store", "sem_check", "sem_yield"}
  BY DEF Spots, SemSteps
<1>2. /\ {"user", "start", "exit", "kill", "chprio", "waitpid", "boot"} \cap Spots = {}
      /\ AtUser => pc[chosen] \notin Spots
  BY DEF Spots, SemSteps, AtUser, Running
<1>3. ASSUME UNCHANGED <<pc, local>> PROVE KeepsSpots
  BY <1>3 DEF KeepsSpots
<1>4. ASSUME (\E pr \in Prio : Boot(pr)) \/ (\E pr \in PrioArg : Start(pr))
      PROVE  KeepsSpots
  BY <1>4, <1>2, NewProcessSpots DEF Boot, Start, Running
<1>5. ASSUME NEW v \in RETVALS, Exit(v) PROVE KeepsSpots
  BY <1>5, <1>2, ResumeSpots DEF Exit
<1>6. ASSUME NEW k \in PidArg, Kill(k) PROVE KeepsSpots
  <2>1. /\ pc' = [pc EXCEPT ![chosen] = "kill", ![k] = "exit"]
        /\ local' = [local EXCEPT ![chosen] = 0, ![k] = 0]
        /\ pc[chosen] \notin Spots
    BY <1>6, <1>2 DEF Kill
  <2>2. \A p \in Pid : \/ pc'[p] \in {"kill", "exit"}
                       \/ pc'[p] = pc[p] /\ local'[p] = local[p]
    BY <2>1 DEF IInv, TypeOK
  <2> QED BY <2>1, <2>2, <1>2 DEF KeepsSpots
<1>7. ASSUME NEW k \in PidArg, NEW pr \in PrioArg, Chprio(k, pr) PROVE KeepsSpots
  <2>1. pc[chosen] \notin Spots /\ (ResumeAt("chprio", 0) \/ UNCHANGED ctx)
    BY <1>7, <1>2, Zenon DEF Chprio
  <2> QED BY <2>1, <1>2, <1>3, ResumeSpots DEF ctx
<1>8. ASSUME NEW k \in PidArg, Waitpid(k) PROVE KeepsSpots
  BY <1>8, <1>2, ResumeSpots DEF Waitpid
<1>9. ASSUME StartReturn \/ KillReturn \/ ChprioReturn \/ WaitpidReap
      PROVE  KeepsSpots
  <2>1. /\ pc[chosen] \in {"start", "kill", "chprio", "waitpid"}
        /\ ResumeAt("user", 0)
    BY <1>9 DEF StartReturn, KillReturn, ChprioReturn, WaitpidReap, FinishFrom,
                Running, ResumeAt
  <2> QED BY <2>1, <1>2, ResumeSpots
<1>10. ASSUME \/ \E pr \in PrioArg : StartRefused(pr)
              \/ StartNoStack \/ StartFault
              \/ \E k \in PidArg : KillRefused(k) \/ WaitpidRefused(k)
              \/ \E k \in PidArg, pr \in PrioArg : ChprioRefused(k, pr)
              \/ WaitpidSpin \/ WaitpidPanic \/ TickReturn \/ Tick \/ Sti \/ Cli
       PROVE  KeepsSpots
  <2>1. UNCHANGED <<pc, local>>
    BY <1>10 DEF StartRefused, StartNoStack, StartFault, KillRefused, WaitpidRefused,
                 ChprioRefused, WaitpidSpin, WaitpidPanic, TickReturn, Tick, Sti, Cli,
                 vars, ctx
  <2> QED BY <2>1, <1>3
<1> QED BY <1>4, <1>5, <1>6, <1>7, <1>8, <1>9, <1>10
        DEF Next, Primitive, ChangePriority, Resume

-----------------------------------------------------------------------------
(* The semaphores *)

\* The semaphore a primitive works on.
LEMMA CourantIs ==
  ASSUME NEW s, Names(s)
  PROVE  sem_courant(s) \in DOMAIN sems
<1>1. \E i \in DOMAIN sems : sems[i].sid = s
  BY DEF Names, sem_courant
<1> QED BY <1>1 DEF sem_courant

\* A semaphore has no blocked process in its list.
LEMMA SemIs ==
  ASSUME ConstantsAssumption, SemConstants, SemTyped, NEW i \in DOMAIN sems
  PROVE  /\ i \in 1..Len(sems)
         /\ sems[i] \in [sid : -1..NBSEMS-1, val : VAL_MIN..VAL_MAX, p_bloques : {<< >>}]
         /\ sems[i].val \in Int /\ sems[i].p_bloques = << >>
<1> DEFINE R == [sid : -1..NBSEMS-1, val : VAL_MIN..VAL_MAX, p_bloques : {<< >>}]
<1>1. sems \in Seq(R)
  BY DEF SemTyped
<1> HIDE DEF R
<1>2. i \in 1..Len(sems) /\ sems[i] \in R
  BY <1>1
<1>3. VAL_MIN \in Int /\ VAL_MAX \in Int
  BY DEF SemConstants
<1>4. ASSUME NEW r \in R PROVE r.val \in Int /\ r.p_bloques = << >>
  BY <1>3 DEF R
<1> QED BY <1>2, <1>4 DEF R

LEMMA SemIsNext ==
  ASSUME SemConstants, SemTyped', NEW i \in DOMAIN sems'
  PROVE  i \in 1..Len(sems') /\ sems'[i].val \in Int
<1> DEFINE R == [sid : -1..NBSEMS-1, val : VAL_MIN..VAL_MAX, p_bloques : {<< >>}]
<1>1. sems' \in Seq(R)
  BY DEF SemTyped
<1> HIDE DEF R
<1>2. i \in 1..Len(sems') /\ sems'[i] \in R
  BY <1>1
<1>3. VAL_MIN \in Int /\ VAL_MAX \in Int
  BY DEF SemConstants
<1>4. ASSUME NEW r \in R PROVE r.val \in Int
  BY <1>3 DEF R
<1> QED BY <1>2, <1>4

LEMMA PasseNobody ==
  ASSUME ConstantsAssumption, IInv
  PROVE  passe_activable({}) = state
BY DEF passe_activable, IInv, TypeOK

\* So no state changes when a semaphore is deleted, reset or signalled.
LEMMA WakesNobody ==
  ASSUME ConstantsAssumption, SemConstants, IInv, SemTyped,
         NEW i \in DOMAIN sems, NEW s1, WakeAll(i, s1)
  PROVE  /\ UNCHANGED vars /\ UNCHANGED <<nb_sem, frame, torn>>
         /\ sems' = [sems EXCEPT ![i] = [s1 EXCEPT !.p_bloques = << >>]]
<1>1. Range(sems[i].p_bloques) = {}
  BY SemIs DEF Range
<1>2. state' = state
  BY <1>1, PasseNobody DEF WakeAll
<1> QED BY <1>2 DEF WakeAll, vars, table

-----------------------------------------------------------------------------
(* Debts *)

LEMMA OwingFinite ==
  ASSUME ConstantsAssumption, NEW i
  PROVE  /\ IsFiniteSet(Owing(i)) /\ Cardinality(Owing(i)) \in Nat
         /\ IsFiniteSet(Pid)
<1>1. IsFiniteSet(Pid)
  BY FS_Interval DEF Pid, ConstantsAssumption
<1>2. Owing(i) \in SUBSET Pid
  BY DEF Owing, BlockedOn
<1>3. IsFiniteSet(Owing(i))
  BY <1>1, <1>2, FS_Subset
<1> QED BY <1>1, <1>3, FS_CardinalityType

\* The processes that owe after a step, as a set of the new state.
LEMMA OwingNext ==
  ASSUME ConstantsAssumption, NEW i
  PROVE  IsFiniteSet(Owing(i)') /\ Cardinality(Owing(i)') \in Nat
<1>1. IsFiniteSet(Pid)
  BY OwingFinite
<1>2. Owing(i)' \in SUBSET Pid
  BY DEF Owing, BlockedOn
<1>3. IsFiniteSet(Owing(i)')
  BY <1>1, <1>2, FS_Subset
<1> QED BY <1>3, FS_CardinalityType

\* The running process is not blocked: it owes only between its store and
\* its block in wait.
LEMMA ChosenOwes ==
  ASSUME ConstantsAssumption, IInv, NEW i
  PROVE  chosen \in Owing(i) <=>
           pc[chosen] = "sem_check" /\ Mine.op = "wait" /\ Cour = i
BY Facts DEF Owing, BlockedOn, Mine, Cour

\* A step in which only the running process moves.
OthersStay ==
  \A p \in Pid : p # chosen =>
    pc'[p] = pc[p] /\ local'[p] = local[p] /\ frame'[p] = frame[p]

LEMMA OwingKept ==
  ASSUME BlockedStay, OthersStay, NEW i, chosen \in Owing(i) => chosen \in Owing(i)'
  PROVE  Owing(i) \subseteq Owing(i)'
<1> SUFFICES ASSUME NEW p \in Owing(i) PROVE p \in Owing(i)'
  OBVIOUS
<1>1. CASE p = chosen
  BY <1>1
<1>2. CASE p # chosen
  BY <1>2 DEF Owing, BlockedOn, BlockedStay, OthersStay
<1> QED BY <1>1, <1>2

\* The counter of i is not below zero, or it has not gone down under those
\* that owe it, or by one with one more that owes it.
Paid(i) ==
  \/ sems'[i].val >= 0
  \/ /\ i \in DOMAIN sems
     /\ \/ sems'[i].val >= sems[i].val /\ Owing(i) \subseteq Owing(i)'
        \/ /\ sems'[i].val = sems[i].val - 1
           /\ \E p : p \notin Owing(i) /\ Owing(i) \cup {p} \subseteq Owing(i)'

LEMMA DebtKept ==
  ASSUME ConstantsAssumption, SemConstants, SemTyped, DebtIsBlocked, SemTyped',
         torn => torn', ~torn' => \A i \in DOMAIN sems' : Paid(i)
  PROVE  DebtIsBlocked'
<1> SUFFICES ASSUME ~torn', NEW i \in DOMAIN sems'
             PROVE  -sems'[i].val <= Cardinality(Owing(i)')
  BY DEF DebtIsBlocked
<1>1. sems'[i].val \in Int
  BY SemIsNext
<1>2. /\ Cardinality(Owing(i)) \in Nat /\ Cardinality(Owing(i)') \in Nat
      /\ IsFiniteSet(Owing(i)) /\ IsFiniteSet(Owing(i)')
  BY OwingFinite, OwingNext
<1>3. i \in DOMAIN sems => sems[i].val \in Int /\ -sems[i].val <= Cardinality(Owing(i))
  BY SemIs DEF DebtIsBlocked
<1>4. CASE sems'[i].val >= 0
  BY <1>4, <1>1, <1>2
<1>5. CASE i \in DOMAIN sems /\ sems'[i].val >= sems[i].val /\ Owing(i) \subseteq Owing(i)'
  <2>1. Cardinality(Owing(i)) <= Cardinality(Owing(i)')
    BY <1>2, <1>5, FS_Subset
  <2> QED BY <2>1, <1>1, <1>2, <1>3, <1>5
<1>6. ASSUME i \in DOMAIN sems, sems'[i].val = sems[i].val - 1,
             NEW p, p \notin Owing(i), Owing(i) \cup {p} \subseteq Owing(i)'
      PROVE  -sems'[i].val <= Cardinality(Owing(i)')
  <2>1. Cardinality(Owing(i) \cup {p}) = Cardinality(Owing(i)) + 1
    BY <1>2, <1>6, FS_AddElement
  <2>2. Cardinality(Owing(i) \cup {p}) <= Cardinality(Owing(i)')
    BY <1>2, <1>6, FS_Subset
  <2> QED BY <2>1, <2>2, <1>1, <1>2, <1>3, <1>6
<1> QED BY <1>4, <1>5, <1>6 DEF Paid

-----------------------------------------------------------------------------
(* The steps of the semaphores *)

SemRecord == [sid : -1..NBSEMS-1, val : VAL_MIN..VAL_MAX, p_bloques : {<< >>}]

\* A step that replaces one semaphore.
LEMMA Stored ==
  ASSUME SemConstants, SemTyped, NEW i \in DOMAIN sems, NEW r \in SemRecord,
         sems' = [sems EXCEPT ![i] = r], nb_sem' = nb_sem,
         frame' \in [Pid -> Frames], torn' \in BOOLEAN
  PROVE  /\ SemTyped' /\ DOMAIN sems' = DOMAIN sems /\ Len(sems') = Len(sems)
         /\ \A j \in DOMAIN sems : sems'[j] = IF j = i THEN r ELSE sems[j]
<1>1. sems \in Seq(SemRecord)
  BY DEF SemTyped, SemRecord
<1>2. /\ sems' \in Seq(SemRecord) /\ Len(sems') = Len(sems)
      /\ DOMAIN sems' = DOMAIN sems
      /\ \A j \in DOMAIN sems : sems'[j] = IF j = i THEN r ELSE sems[j]
  BY <1>1
<1> QED BY <1>2 DEF SemTyped, SemRecord

\* What a semaphore is after another value is stored in it.
LEMMA NewValue ==
  ASSUME ConstantsAssumption, SemConstants, SemTyped, NEW i \in DOMAIN sems,
         NEW v \in VAL_MIN..VAL_MAX
  PROVE  /\ [sems[i] EXCEPT !.val = v] \in SemRecord
         /\ [sems[i] EXCEPT !.val = v].val = v
         /\ [sems[i] EXCEPT !.sid = -1] \in SemRecord
         /\ [sems[i] EXCEPT !.sid = -1].val = sems[i].val
<1>1. sems[i] \in SemRecord
  BY SemIs DEF SemRecord
<1>2. -1 \in -1..NBSEMS-1
  BY DEF SemConstants
<1> QED BY <1>1, <1>2 DEF SemRecord

\* The value of a semaphore changes to v.
LEMMA ValueStored ==
  ASSUME ConstantsAssumption, SemConstants, SemTyped, NEW i \in DOMAIN sems,
         NEW v \in VAL_MIN..VAL_MAX, nb_sem' = nb_sem,
         frame' \in [Pid -> Frames], torn' \in BOOLEAN,
         sems' = [sems EXCEPT ![i].val = v]
  PROVE  /\ SemTyped' /\ DOMAIN sems' = DOMAIN sems /\ Len(sems') = Len(sems)
         /\ \A j \in DOMAIN sems : sems'[j].val = IF j = i THEN v ELSE sems[j].val
<1> DEFINE r == [sems[i] EXCEPT !.val = v]
<1>1. r \in SemRecord /\ r.val = v
  BY NewValue
<1>2. sems' = [sems EXCEPT ![i] = r]
  OBVIOUS
<1> HIDE DEF r
<1>3. /\ SemTyped' /\ DOMAIN sems' = DOMAIN sems /\ Len(sems') = Len(sems)
      /\ \A j \in DOMAIN sems : sems'[j] = IF j = i THEN r ELSE sems[j]
  BY <1>1, <1>2, Stored
<1> QED BY <1>1, <1>3

\* A field written with what it holds.
LEMMA SameStored ==
  ASSUME ConstantsAssumption, SemConstants, SemTyped, NEW i \in DOMAIN sems
  PROVE  /\ [sems EXCEPT ![i].val = sems[i].val] = sems
         /\ [sems EXCEPT ![i].p_bloques = << >>] = sems
<1>1. sems \in Seq(SemRecord) /\ sems[i] \in SemRecord /\ sems[i].p_bloques = << >>
  BY SemIs DEF SemTyped, SemRecord
<1>2. /\ [sems[i] EXCEPT !.val = sems[i].val] = sems[i]
      /\ [sems[i] EXCEPT !.p_bloques = << >>] = sems[i]
  BY <1>1 DEF SemRecord
<1>3. [sems EXCEPT ![i] = sems[i]] = sems
  BY <1>1
<1> QED BY <1>2, <1>3

\* The registers and the stack of the primitives, after a step of one.
LEMMA FrameStored ==
  ASSUME ConstantsAssumption, IInv, SemTyped, NEW f \in Frames,
         frame' = [frame EXCEPT ![chosen] = f]
  PROVE  /\ frame' \in [Pid -> Frames] /\ frame'[chosen] = f
         /\ \A p \in Pid : p # chosen => frame'[p] = frame[p]
BY Facts DEF SemTyped

LEMMA FrameIs ==
  ASSUME ConstantsAssumption, SemConstants, IInv, SemTyped
  PROVE  /\ Mine \in Frames /\ NoFrame \in Frames
         /\ Mine.reg \in VAL_MIN..VAL_MAX /\ Mine.left \in 0..VAL_MAX /\ Mine.left \in Nat
         /\ VAL_MIN \in Int /\ VAL_MAX \in Nat /\ VAL_MIN < 0 /\ 0 \in VAL_MIN..VAL_MAX
<1>1. VAL_MIN \in Int /\ VAL_MAX \in Nat /\ VAL_MIN < 0
  BY DEF SemConstants
<1>2. 0 \in VAL_MIN..VAL_MAX /\ 0 \in 0..VAL_MAX
  BY <1>1
<1>3. Mine \in Frames
  BY Facts DEF SemTyped, Mine
<1> QED BY <1>1, <1>2, <1>3 DEF Frames, NoFrame

\* The running process goes to point, with semaphore i and frame f.
Moves(point, i, f) ==
  /\ pc' = [pc EXCEPT ![chosen] = point]
  /\ local' = [local EXCEPT ![chosen] = i]
  /\ frame' = [frame EXCEPT ![chosen] = f]

LEMMA MoveShapes ==
  ASSUME ConstantsAssumption, SemConstants, SemInv, torn' = torn,
         Len(sems') \in Nat, Len(sems) \in Nat, Len(sems) <= Len(sems'),
         NEW point, NEW i, NEW f, Moves(point, i, f), ShapeOf(point, i, f, Len(sems')),
         point \in Spots => chosen # Idle,
         chosen' \in Pid, chosen' = chosen \/ point \notin SemSteps,
         ~torn /\ point \in SemSteps => AccountOf(point, f, sems'[i].val)
  PROVE  Shape' /\ Alone' /\ Accounts' /\ OthersStay
<1>1. /\ chosen \in Pid /\ pc'[chosen] = point /\ local'[chosen] = i
      /\ frame'[chosen] = f
      /\ \A p \in Pid : p # chosen =>
           pc'[p] = pc[p] /\ local'[p] = local[p] /\ frame'[p] = frame[p]
  BY Facts DEF Moves, SemInv, SemTyped, IInv, TypeOK
<1>2. Shape'
  <2>0. pc'[Idle] \notin Spots
    BY <1>1, Facts DEF SemInv, Shape
  <2> SUFFICES ASSUME NEW p \in Pid
               PROVE  ShapeOf(pc'[p], local'[p], frame'[p], Len(sems'))
    BY <2>0 DEF Shape
  <2>1. CASE p = chosen
    BY <1>1, <2>1
  <2>2. CASE p # chosen
    <3>1. ShapeOf(pc[p], local[p], frame[p], Len(sems))
      BY DEF SemInv, Shape
    <3>2. ShapeOf(pc[p], local[p], frame[p], Len(sems'))
      BY <3>1 DEF ShapeOf
    <3> QED BY <3>2, <2>2, <1>1
  <2> QED BY <2>1, <2>2
<1>3. ~torn' => \A p \in Pid : p # chosen => pc'[p] \notin SemSteps
  BY <1>1 DEF SemInv, Alone
<1>4. Alone'
  BY <1>1, <1>3 DEF Alone
<1>5. Accounts'
  <2> SUFFICES ASSUME ~torn', pc'[chosen'] \in SemSteps
               PROVE  AccountOf(pc'[chosen'], frame'[chosen'], sems'[local'[chosen']].val)
    BY DEF Accounts, Mine, Counter, Cour
  <2>1. chosen' = chosen
    BY <1>1, <1>3
  <2>2. point \in SemSteps /\ ~torn
    BY <2>1, <1>1
  <2> QED BY <2>1, <2>2, <1>1
<1> QED BY <1>1, <1>2, <1>4, <1>5 DEF OthersStay

\* The inductive invariant again, when no process moves.
LEMMA SemStays ==
  ASSUME ConstantsAssumption, SemConstants, SemInv,
         UNCHANGED <<table, lists, ctx, frame, torn>>,
         pc[chosen] # "boot", IFLAG' \in BOOLEAN, halted' \in Halts,
         SemTyped', Len(sems) \in Nat, Len(sems') \in Nat, Len(sems) <= Len(sems'),
         \/ sems' = sems
         \/ /\ AtUser
            /\ \A i \in DOMAIN sems' :
                 \/ i \in DOMAIN sems /\ sems'[i].val >= sems[i].val
                 \/ sems'[i].val >= 0
  PROVE  SemGoal
<1>1. IInv' /\ StaysDead
  BY QuietStep DEF SemInv
<1>2. BlockedStay
  BY DEF BlockedStay, table, ctx
<1>3. /\ chosen' = chosen /\ chosen \in Pid
      /\ UNCHANGED <<pc, local, frame, torn, state>>
  BY Facts DEF lists, ctx, SemInv, table
<1>4. AtUser => pc[chosen] \notin SemSteps
  BY DEF AtUser, Running, SemSteps
<1>5. Shape'
  <2> SUFFICES ASSUME NEW p \in Pid
               PROVE  ShapeOf(pc[p], local[p], frame[p], Len(sems'))
    BY <1>3 DEF Shape, SemInv
  <2>1. ShapeOf(pc[p], local[p], frame[p], Len(sems))
    BY DEF SemInv, Shape
  <2> QED BY <2>1 DEF ShapeOf
<1>6. Alone'
  BY <1>3 DEF Alone, SemInv
<1>7. Accounts'
  BY <1>3, <1>4 DEF Accounts, SemInv, Mine, Counter, Cour
<1>8. \A i : Owing(i)' = Owing(i)
  BY <1>3 DEF Owing, BlockedOn
<1>9. DebtIsBlocked'
  <2>1. \A i \in DOMAIN sems : sems[i].val \in Int
    BY SemIs DEF SemInv
  <2>2. \A i \in DOMAIN sems' : Paid(i)
    BY <2>1, <1>8 DEF Paid
  <2> QED BY <2>2, <1>3, DebtKept DEF SemInv
<1> QED BY <1>1, <1>2, <1>5, <1>6, <1>7, <1>9 DEF SemGoal, SemInv

LEMMA LenIs ==
  ASSUME SemTyped
  PROVE  Len(sems) \in Nat /\ DOMAIN sems = 1..Len(sems)
BY DEF SemTyped

LEMMA ScreateStep ==
  ASSUME ConstantsAssumption, SemConstants, SemInv, NEW count \in COUNTS,
         Screate(count)
  PROVE  SemGoal
<1> DEFINE r == [sid |-> nb_sem, val |-> count, p_bloques |-> << >>]
<1>1. /\ nb_sem < MAXCREATE /\ nb_sem' = nb_sem + 1 /\ UNCHANGED <<frame, torn>>
      /\ AtUser /\ UNCHANGED vars
      /\ sems' = IF nb_sem' > NBSEMS \/ count < 0 THEN sems
                 ELSE Append(sems, [sid |-> nb_sem' - 1, val |-> count, p_bloques |-> << >>])
  BY DEF Screate
<1>2. /\ nb_sem \in Nat /\ nb_sem' \in 0..MAXCREATE /\ nb_sem' - 1 = nb_sem
      /\ sems \in Seq(SemRecord) /\ Len(sems) <= NBSEMS /\ Len(sems) <= nb_sem
      /\ Len(sems) \in Nat
  BY <1>1 DEF SemInv, SemTyped, SemConstants, SemRecord
<1>3. /\ UNCHANGED <<table, lists, ctx, frame, torn>> /\ pc[chosen] # "boot"
      /\ IFLAG' \in BOOLEAN /\ halted' \in Halts
  BY <1>1 DEF vars, AtUser, Running, SemInv, IInv, TypeOK
<1>4. CASE nb_sem' > NBSEMS \/ count < 0
  <2>1. sems' = sems
    BY <1>1, <1>4
  <2>2. SemTyped'
    BY <1>1, <1>2, <2>1 DEF SemInv, SemTyped, SemRecord
  <2> QED BY <1>1, <1>2, <1>3, <2>1, <2>2, SemStays
<1>5. CASE ~(nb_sem' > NBSEMS \/ count < 0)
  <2>1. sems' = Append(sems, r) /\ nb_sem + 1 <= NBSEMS /\ count >= 0
    BY <1>1, <1>2, <1>5 DEF SemConstants
  <2>2. r \in SemRecord /\ r.val = count
    BY <1>2, <2>1 DEF SemRecord, SemConstants
  <2> HIDE DEF r
  <2>3. /\ sems' \in Seq(SemRecord) /\ Len(sems') = Len(sems) + 1
        /\ sems'[Len(sems) + 1] = r
        /\ \A i \in DOMAIN sems : sems'[i] = sems[i]
        /\ DOMAIN sems' = DOMAIN sems \cup {Len(sems) + 1}
    BY <1>2, <2>1, <2>2
  <2>4. SemTyped'
    BY <1>1, <1>2, <2>1, <2>3 DEF SemInv, SemTyped, SemRecord, SemConstants
  <2>5. \A i \in DOMAIN sems : sems[i].val \in Int
    BY SemIs DEF SemInv
  <2>6. \A i \in DOMAIN sems' :
           \/ i \in DOMAIN sems /\ sems'[i].val >= sems[i].val
           \/ sems'[i].val >= 0
    BY <2>1, <2>2, <2>3, <2>5
  <2> QED BY <1>1, <1>2, <1>3, <2>3, <2>4, <2>6, SemStays
<1> QED BY <1>4, <1>5

LEMMA ScreateFaultStep ==
  ASSUME ConstantsAssumption, SemConstants, SemInv, NEW count \in COUNTS,
         ScreateFault(count)
  PROVE  SemGoal
<1>1. /\ UNCHANGED <<table, lists, ctx, frame, torn>> /\ sems' = sems
      /\ pc[chosen] # "boot" /\ IFLAG' \in BOOLEAN /\ halted' \in Halts
      /\ nb_sem < MAXCREATE /\ nb_sem' = nb_sem + 1
  BY DEF ScreateFault, AtUser, Running, Halts, SemInv, IInv, TypeOK
<1>2. Len(sems) \in Nat
  BY LenIs DEF SemInv
<1>3. SemTyped'
  BY <1>1, <1>2 DEF SemInv, SemTyped, SemConstants
<1> QED BY <1>1, <1>2, <1>3, SemStays

LEMMA WakeAllStep ==
  ASSUME ConstantsAssumption, SemConstants, SemInv, AtUser, NEW i \in DOMAIN sems,
         NEW s1 \in SemRecord, s1.val >= sems[i].val \/ s1.val >= 0,
         WakeAll(i, s1)
  PROVE  SemGoal
<1>1. /\ UNCHANGED vars /\ UNCHANGED <<nb_sem, frame, torn>>
      /\ sems' = [sems EXCEPT ![i] = [s1 EXCEPT !.p_bloques = << >>]]
  BY WakesNobody DEF SemInv
<1>2. s1 = [s1 EXCEPT !.p_bloques = << >>]
  BY DEF SemRecord
<1>3. frame' \in [Pid -> Frames] /\ torn' \in BOOLEAN
  BY <1>1 DEF SemInv, SemTyped
<1>4. /\ SemTyped' /\ DOMAIN sems' = DOMAIN sems /\ Len(sems') = Len(sems)
      /\ \A j \in DOMAIN sems : sems'[j] = IF j = i THEN s1 ELSE sems[j]
  BY <1>1, <1>2, <1>3, Stored DEF SemInv
<1>5. \A j \in DOMAIN sems : sems[j].val \in Int
  BY SemIs DEF SemInv
<1>6. \A j \in DOMAIN sems' :
        \/ j \in DOMAIN sems /\ sems'[j].val >= sems[j].val
        \/ sems'[j].val >= 0
  BY <1>4, <1>5
<1>7. /\ UNCHANGED <<table, lists, ctx, frame, torn>> /\ pc[chosen] # "boot"
      /\ IFLAG' \in BOOLEAN /\ halted' \in Halts
  BY <1>1 DEF vars, AtUser, Running, SemInv, IInv, TypeOK
<1>8. Len(sems) \in Nat /\ Len(sems') \in Nat /\ Len(sems) <= Len(sems')
  BY <1>4, LenIs DEF SemInv
<1> QED BY <1>4, <1>6, <1>7, <1>8, SemStays

LEMMA SdeleteStep ==
  ASSUME ConstantsAssumption, SemConstants, SemInv, NEW s, Sdelete(s)
  PROVE  SemGoal
<1> DEFINE i == sem_courant(s)
<1>1. AtUser /\ i \in DOMAIN sems /\ WakeAll(i, [sems[i] EXCEPT !.sid = -1])
  BY CourantIs DEF Sdelete
<1> HIDE DEF i
<1>2. sems[i].val \in VAL_MIN..VAL_MAX /\ sems[i].val \in Int
  BY <1>1, SemIs DEF SemInv
<1>3. /\ [sems[i] EXCEPT !.sid = -1] \in SemRecord
      /\ [sems[i] EXCEPT !.sid = -1].val = sems[i].val
  BY <1>1, <1>2, NewValue DEF SemInv
<1>4. [sems[i] EXCEPT !.sid = -1].val >= sems[i].val
  <2> DEFINE v == sems[i].val
             w == [sems[i] EXCEPT !.sid = -1].val
  <2>1. w = v /\ v \in Int
    BY <1>2, <1>3
  <2> HIDE DEF v, w
  <2>2. w >= v
    BY <2>1
  <2> QED BY <2>2 DEF v, w
<1> QED BY <1>1, <1>3, <1>4, WakeAllStep, Zenon

LEMMA SresetStep ==
  ASSUME ConstantsAssumption, SemConstants, SemInv, NEW s, NEW count \in COUNTS,
         Sreset(s, count)
  PROVE  SemGoal
<1> DEFINE i == sem_courant(s)
<1>1. /\ AtUser /\ i \in DOMAIN sems /\ WakeAll(i, [sems[i] EXCEPT !.val = count])
      /\ count >= 0 /\ count \in VAL_MIN..VAL_MAX
  BY CourantIs DEF Sreset, SemConstants
<1> HIDE DEF i
<1>2. /\ [sems[i] EXCEPT !.val = count] \in SemRecord
      /\ [sems[i] EXCEPT !.val = count].val = count
  BY <1>1, NewValue DEF SemInv
<1> QED BY <1>1, <1>2, WakeAllStep

-----------------------------------------------------------------------------
(* The steps inside a primitive *)

\* The running process takes its unit and has not blocked.
OwesNow == pc[chosen] = "sem_check" /\ Mine.op = "wait"

\* What is left of the unit of the process that moves: either the counter j
\* now holds v, which is not below zero, or nobody stops or starts owing.
Settled(point, f, j, v) ==
  \/ v >= 0
  \/ v >= sems[j].val /\ ~OwesNow
  \/ v = sems[j].val - 1 /\ ~OwesNow /\ point = "sem_check" /\ f.op = "wait"

\* A step of the running process that keeps the processor and writes v in
\* semaphore j, perhaps what it holds.
LEMMA QuietMove ==
  ASSUME ConstantsAssumption, SemConstants, SemInv,
         UNCHANGED <<table, lists, nb_sem, torn>>,
         pc[chosen] # "boot", IFLAG' \in BOOLEAN, halted' \in Halts,
         NEW point \in Points \ {"boot"}, NEW i \in Pid, ResumeAt(point, i),
         NEW f \in Frames, frame' = [frame EXCEPT ![chosen] = f],
         NEW j \in DOMAIN sems, NEW v \in VAL_MIN..VAL_MAX,
         sems' = [sems EXCEPT ![j].val = v],
         ShapeOf(point, i, f, Len(sems)), point \in SemSteps => i = j,
         point \in Spots => chosen # Idle,
         ~torn /\ point \in SemSteps => AccountOf(point, f, v),
         pc[chosen] = "sem_check" => Cour = j,
         ~torn => Settled(point, f, j, v)
  PROVE  SemGoal
<1>1. IInv' /\ StaysDead
  BY QuietStep DEF SemInv
<1>2. chosen \in Pid /\ chosen' = chosen /\ state' = state
  BY Facts DEF lists, table, SemInv
<1>3. BlockedStay
  BY <1>2, ResumeElsewhere, Facts DEF BlockedStay, SemInv
<1>4. Moves(point, i, f)
  BY DEF Moves, ResumeAt
<1>5. frame' \in [Pid -> Frames] /\ torn' \in BOOLEAN /\ frame'[chosen] = f
  BY FrameStored DEF SemInv, SemTyped
<1>6. /\ SemTyped' /\ DOMAIN sems' = DOMAIN sems /\ Len(sems') = Len(sems)
      /\ \A k \in DOMAIN sems : sems'[k].val = IF k = j THEN v ELSE sems[k].val
  BY <1>5, ValueStored DEF SemInv
<1>7. Len(sems) \in Nat
  BY LenIs DEF SemInv
<1>8. ~torn /\ point \in SemSteps => AccountOf(point, f, sems'[i].val)
  BY <1>6
<1>9. Shape' /\ Alone' /\ Accounts' /\ OthersStay
  BY <1>2, <1>4, <1>6, <1>7, <1>8, MoveShapes
<1>10. ASSUME ~torn', NEW k \in DOMAIN sems' PROVE Paid(k)
  <2>1. k \in DOMAIN sems /\ ~torn /\ sems[k].val \in Int /\ v \in Int
    BY <1>6, <1>10, SemIs, FrameIs DEF SemInv
  <2>2. ~(chosen \in Owing(k)) => Owing(k) \subseteq Owing(k)'
    BY <1>3, <1>9, OwingKept
  <2>3. chosen \in Owing(k) <=> OwesNow /\ Cour = k
    BY ChosenOwes DEF SemInv, OwesNow
  <2>4. CASE k # j
    <3>1. chosen \notin Owing(k)
      BY <2>3, <2>4 DEF OwesNow
    <3>2. sems'[k].val >= sems[k].val
      BY <2>1, <2>4, <1>6
    <3> QED BY <3>1, <3>2, <2>1, <2>2 DEF Paid
  <2>5. CASE k = j /\ v >= 0
    BY <2>5, <2>1, <1>6 DEF Paid
  <2>6. CASE k = j /\ v >= sems[j].val /\ ~OwesNow
    BY <2>1, <2>2, <2>3, <2>6, <1>6 DEF Paid
  <2>7. CASE k = j /\ v = sems[j].val - 1 /\ ~OwesNow /\ point = "sem_check" /\ f.op = "wait"
    <3>1. chosen \notin Owing(k) /\ Owing(k) \subseteq Owing(k)'
      BY <2>2, <2>3, <2>7
    <3>2. pc'[chosen] = "sem_check" /\ local'[chosen] = j
      BY <2>7, <1>2, <1>4 DEF Moves, SemSteps, SemInv, IInv, TypeOK
    <3>3. chosen \in Owing(k)'
      BY <3>2, <2>7, <1>2, <1>5 DEF Owing
    <3>4. Owing(k) \cup {chosen} \subseteq Owing(k)'
      BY <3>1, <3>3
    <3>5. sems'[k].val = sems[k].val - 1
      BY <2>1, <2>7, <1>6
    <3> QED BY <3>1, <3>4, <3>5, <2>1 DEF Paid
  <2> QED BY <2>1, <2>4, <2>5, <2>6, <2>7 DEF Settled
<1>11. DebtIsBlocked'
  BY <1>6, <1>10, DebtKept DEF SemInv
<1> QED BY <1>1, <1>3, <1>6, <1>9, <1>11 DEF SemGoal, SemInv

\* What SemInv says of a process inside a primitive, and of its semaphore.
LEMMA SpotIs ==
  ASSUME ConstantsAssumption, SemConstants, SemInv, pc[chosen] \in Spots
  PROVE  /\ chosen # Idle /\ Cour \in DOMAIN sems /\ Cour \in Pid /\ Counter \in VAL_MIN..VAL_MAX
         /\ Counter \in Int /\ Cour \in 1..Len(sems)
         /\ ShapeOf(pc[chosen], Cour, Mine, Len(sems))
         /\ ~torn /\ pc[chosen] \in SemSteps => AccountOf(pc[chosen], Mine, Counter)
         /\ sems' = sems => sems' = [sems EXCEPT ![Cour].val = Counter]
         /\ sems[Cour].p_bloques = << >>
<1>1. ShapeOf(pc[chosen], Cour, Mine, Len(sems)) /\ Cour \in Pid
  BY Facts DEF SemInv, Shape, Cour, Mine, IInv, TypeOK
<1>2. Cour \in DOMAIN sems /\ Cour \in 1..Len(sems)
  BY <1>1, LenIs DEF ShapeOf, SemInv
<1>3. /\ Counter \in VAL_MIN..VAL_MAX /\ Counter \in Int
      /\ sems[Cour].p_bloques = << >>
  BY <1>2, SemIs DEF SemInv, Counter
<1>4. sems = [sems EXCEPT ![Cour].val = Counter]
  BY <1>2, SameStored DEF SemInv, Counter
<1>5. chosen # Idle
  BY DEF SemInv, Shape
<1> QED BY <1>1, <1>2, <1>3, <1>4, <1>5 DEF SemInv, Accounts

\* The calls that find a semaphore.
LEMMA CallStep ==
  ASSUME ConstantsAssumption, SemConstants, SemInv,
         NEW op, NEW s, NEW n \in 0..VAL_MAX, NEW point, Call(op, s, n, point),
         point \in {"sem_test", "sem_load", "sem_yield"},
         op \in {"wait", "try_wait", "signaln"},
         point = "sem_test" => op = "try_wait",
         point # "sem_yield" /\ op = "signaln" => n > 0,
         point # "sem_yield" => AccountOf(point, [op |-> op, reg |-> 0, left |-> n],
                                          sems[sem_courant(s)].val)
  PROVE  SemGoal
<1>0. PICK i : i = sem_courant(s)
  OBVIOUS
<1> DEFINE f == [op |-> op, reg |-> 0, left |-> n]
<1>1. /\ AtUser /\ i \in DOMAIN sems /\ ResumeAt(point, i) /\ sems' = sems
      /\ frame' = [frame EXCEPT ![chosen] = f]
      /\ UNCHANGED <<table, lists, IFLAG, halted, nb_sem, torn>>
  BY <1>0, CourantIs DEF Call
<1>2. /\ sems[i].val \in VAL_MIN..VAL_MAX /\ sems[i].val \in Int /\ i \in 1..Len(sems)
      /\ sems' = [sems EXCEPT ![i].val = sems[i].val]
  BY <1>1, SemIs, SameStored DEF SemInv
<1>3. f \in Frames /\ f.op = op /\ f.left = n
  BY FrameIs DEF Frames, SemInv
<1>4. ShapeOf(point, i, f, Len(sems))
  BY <1>2, <1>3 DEF ShapeOf, SemSteps
<1>5. point \in SemSteps => AccountOf(point, f, sems[i].val)
  BY <1>0 DEF SemSteps
<1>6. i \in Pid /\ point \in Points \ {"boot"}
  <2>1. /\ Len(sems) \in Nat /\ Len(sems) <= NBSEMS /\ NBSEMS \in Int
        /\ NBSEMS <= PROCESS_TABLE_SIZE - 1 /\ PROCESS_TABLE_SIZE \in Int
    BY LenIs DEF SemInv, SemTyped, SemConstants, ConstantsAssumption
  <2>2. i \in Pid
    BY <2>1, <1>2 DEF Pid
  <2> QED BY <2>2 DEF Points
<1>7. /\ pc[chosen] = "user" /\ IFLAG' \in BOOLEAN /\ halted' \in Halts
  BY <1>1 DEF AtUser, Running, SemInv, IInv, TypeOK
<1>9. chosen # Idle
  BY <1>1 DEF AtUser
<1>8. Settled(point, f, i, sems[i].val)
  BY <1>2, <1>7 DEF Settled, OwesNow
<1> HIDE DEF f
<1> QED BY <1>1, <1>2, <1>3, <1>4, <1>5, <1>6, <1>7, <1>8, <1>9, QuietMove

LEMMA WaitStep ==
  ASSUME ConstantsAssumption, SemConstants, SemInv, NEW s, Wait(s)
  PROVE  SemGoal
<1> DEFINE v == sems[sem_courant(s)].val
           f == [op |-> "wait", reg |-> 0, left |-> 0]
<1>1. Call("wait", s, 0, "sem_load") /\ v - 1 >= VAL_MIN
  BY DEF Wait, Call
<1>2. v \in Int
  BY <1>1, CourantIs, SemIs DEF Call, SemInv
<1> HIDE DEF v
<1>3. AccountOf("sem_load", f, v)
  BY <1>1, <1>2 DEF AccountOf, SemConstants
<1>4. 0 \in 0..VAL_MAX
  BY DEF SemConstants
<1> QED BY <1>1, <1>3, <1>4, CallStep DEF v

LEMMA TryWaitStep ==
  ASSUME ConstantsAssumption, SemConstants, SemInv, NEW s, TryWait(s)
  PROVE  SemGoal
<1> DEFINE v == sems[sem_courant(s)].val
           f == [op |-> "try_wait", reg |-> 0, left |-> 0]
<1>1. Call("try_wait", s, 0, "sem_test") /\ v - 1 > 0
  BY DEF TryWait, Call
<1>2. v \in Int
  BY <1>1, CourantIs, SemIs DEF Call, SemInv
<1> HIDE DEF v
<1>3. AccountOf("sem_test", f, v)
  BY <1>1, <1>2 DEF AccountOf
<1>4. 0 \in 0..VAL_MAX
  BY DEF SemConstants
<1> QED BY <1>1, <1>3, <1>4, CallStep DEF v

LEMMA SignalnStep ==
  ASSUME ConstantsAssumption, SemConstants, SemInv, NEW s, NEW count \in COUNTS,
         Signaln(s, count)
  PROVE  SemGoal
<1> DEFINE v     == sems[sem_courant(s)].val
           f     == [op |-> "signaln", reg |-> 0, left |-> count]
           point == IF count = 0 THEN "sem_yield" ELSE "sem_load"
<1>1. /\ Call("signaln", s, count, point)
      /\ ~(v + count > VAL_MAX) /\ count >= 0
  BY DEF Signaln, Call, Overflows
<1>2. v \in Int
  BY <1>1, CourantIs, SemIs DEF Call, SemInv
<1>3. count \in 0..VAL_MAX /\ VAL_MAX \in Int
  BY <1>1 DEF SemConstants
<1>4. point \in {"sem_test", "sem_load", "sem_yield"} /\ point # "sem_test"
  OBVIOUS
<1>5. point # "sem_yield" => point = "sem_load" /\ count > 0
  BY <1>3
<1> HIDE DEF v, point
<1>6. point # "sem_yield" => AccountOf(point, f, v)
  BY <1>1, <1>2, <1>3, <1>5 DEF AccountOf
<1> QED BY <1>1, <1>3, <1>4, <1>5, <1>6, CallStep DEF v

\* A step of the running process that writes v in its own semaphore.
LEMMA OwnMove ==
  ASSUME ConstantsAssumption, SemConstants, SemInv, pc[chosen] \in Spots,
         NEW point \in {"sem_load", "sem_store", "sem_check", "sem_yield"}, GoOn(point),
         NEW f \in Frames, frame' = [frame EXCEPT ![chosen] = f],
         NEW v \in VAL_MIN..VAL_MAX, sems' = [sems EXCEPT ![Cour].val = v],
         ShapeOf(point, Cour, f, Len(sems)),
         ~torn /\ point \in SemSteps => AccountOf(point, f, v),
         ~torn => Settled(point, f, Cour, v)
  PROVE  SemGoal
<1>1. local' = [local EXCEPT ![chosen] = Cour]
  BY DEF GoOn, Cour, SemInv, IInv, TypeOK
<1>2. ResumeAt(point, Cour)
  BY <1>1 DEF ResumeAt, GoOn
<1>3. /\ UNCHANGED <<table, lists, nb_sem, torn>> /\ IFLAG' \in BOOLEAN
      /\ halted' \in Halts
  BY DEF GoOn, SemInv, IInv, TypeOK
<1>4. pc[chosen] # "boot" /\ point \in Points \ {"boot"}
  BY DEF Spots, SemSteps, Points
<1> QED BY <1>2, <1>3, <1>4, SpotIs, QuietMove

\* A return that leaves v in the semaphore.
LEMMA OwnReturn ==
  ASSUME ConstantsAssumption, SemConstants, SemInv, NEW point \in SemSteps,
         Return(point), NEW v \in VAL_MIN..VAL_MAX,
         sems' = [sems EXCEPT ![Cour].val = v],
         ~torn => v >= 0 \/ (v >= Counter /\ ~OwesNow)
  PROVE  SemGoal
<1>1. /\ pc[chosen] = point /\ ResumeAt("user", 0)
      /\ frame' = [frame EXCEPT ![chosen] = NoFrame]
      /\ UNCHANGED <<table, lists, nb_sem, torn>> /\ IFLAG' \in BOOLEAN
      /\ halted' \in Halts
  BY DEF Return, FinishFrom, Running, ResumeAt, SemInv, IInv, TypeOK
<1>2. pc[chosen] \in Spots /\ pc[chosen] # "boot"
  BY <1>1 DEF Spots, SemSteps
<1>3. /\ 0 \in Pid /\ "user" \in Points \ {"boot"} /\ "user" \notin SemSteps
      /\ "user" \notin Spots /\ ShapeOf("user", 0, NoFrame, Len(sems))
  BY Facts DEF Points, Idle, SemInv, ShapeOf, Spots, SemSteps
<1>4. ~torn => Settled("user", NoFrame, Cour, v)
  BY DEF Settled, Counter
<1>5. NoFrame \in Frames
  BY FrameIs DEF SemInv
<1> QED BY <1>1, <1>2, <1>3, <1>4, <1>5, SpotIs, QuietMove

LEMMA TryStep ==
  ASSUME ConstantsAssumption, SemConstants, SemInv, TryGoesOn \/ TryMisses
  PROVE  SemGoal
<1>1. pc[chosen] = "sem_test" /\ sems' = sems
  BY DEF TryGoesOn, TryMisses, Running, Return, FinishFrom
<1>2. pc[chosen] \in Spots /\ "sem_test" \in SemSteps
  BY <1>1 DEF Spots, SemSteps
<1>3. Mine \in Frames /\ Mine.op = "try_wait" /\ Counter \in VAL_MIN..VAL_MAX
      /\ Counter \in Int /\ Cour \in 1..Len(sems)
      /\ sems' = [sems EXCEPT ![Cour].val = Counter]
  BY <1>1, <1>2, SpotIs, FrameIs DEF ShapeOf, SemInv
<1>4. ~OwesNow
  BY <1>1 DEF OwesNow
<1>5. CASE TryGoesOn
  <2>1. GoOn("sem_load") /\ Counter > 0 /\ frame' = frame
    BY <1>5 DEF TryGoesOn
  <2>2. frame' = [frame EXCEPT ![chosen] = Mine]
    BY <2>1 DEF Mine, SemInv, SemTyped
  <2>3. ShapeOf("sem_load", Cour, Mine, Len(sems)) /\ AccountOf("sem_load", Mine, Counter)
    BY <1>3, <2>1 DEF ShapeOf, AccountOf
  <2>4. Settled("sem_load", Mine, Cour, Counter)
    BY <1>3, <2>1 DEF Settled
  <2> QED BY <1>2, <1>3, <2>1, <2>2, <2>3, <2>4, OwnMove
<1>6. CASE TryMisses
  <2>1. Return("sem_test")
    BY <1>6 DEF TryMisses
  <2>2. Counter >= 0 \/ (Counter >= Counter /\ ~OwesNow)
    BY <1>3, <1>4
  <2> QED BY <1>2, <1>3, <2>1, <2>2, OwnReturn
<1> QED BY <1>5, <1>6

LEMMA LoadStep ==
  ASSUME ConstantsAssumption, SemConstants, SemInv, SemLoad
  PROVE  SemGoal
<1> DEFINE f == [Mine EXCEPT !.reg = Counter]
<1>1. /\ pc[chosen] = "sem_load" /\ GoOn("sem_store") /\ sems' = sems
      /\ frame' = [frame EXCEPT ![chosen] = f]
  BY DEF SemLoad, Running, Mine
<1>2. pc[chosen] \in Spots /\ "sem_load" \in SemSteps /\ ~OwesNow
  BY <1>1 DEF Spots, SemSteps, OwesNow
<1>3. /\ Mine \in Frames /\ Counter \in VAL_MIN..VAL_MAX /\ Counter \in Int
      /\ ShapeOf("sem_load", Cour, Mine, Len(sems))
      /\ ~torn => AccountOf("sem_load", Mine, Counter)
      /\ sems' = [sems EXCEPT ![Cour].val = Counter]
  BY <1>1, <1>2, SpotIs, FrameIs DEF SemInv
<1>4. /\ f \in Frames /\ f.op = Mine.op /\ f.left = Mine.left /\ f.reg = Counter
  BY <1>3 DEF Frames
<1> HIDE DEF f
<1>5. ShapeOf("sem_store", Cour, f, Len(sems))
  BY <1>3, <1>4 DEF ShapeOf, Spots, SemSteps
<1>6. ~torn => AccountOf("sem_store", f, Counter)
  BY <1>3, <1>4 DEF AccountOf
<1>7. Settled("sem_store", f, Cour, Counter)
  BY <1>2, <1>3 DEF Settled, Counter
<1> QED BY <1>1, <1>2, <1>3, <1>4, <1>5, <1>6, <1>7, OwnMove

\* Less and More stay within the short, and add and subtract one inside it.
LEMMA ShortArithmetic ==
  ASSUME SemConstants, NEW v \in VAL_MIN..VAL_MAX
  PROVE  /\ Less(v) \in VAL_MIN..VAL_MAX /\ More(v) \in VAL_MIN..VAL_MAX
         /\ v > VAL_MIN => Less(v) = v - 1
         /\ v < VAL_MAX => More(v) = v + 1
         /\ Less(v) >= 0 \/ Less(v) = v - 1
BY DEF SemConstants, Less, More

LEMMA StoreStep ==
  ASSUME ConstantsAssumption, SemConstants, SemInv, SemStore
  PROVE  SemGoal
<1>0. PICK v : v = Result(Mine)
  OBVIOUS
<1>1. /\ pc[chosen] = "sem_store" /\ sems' = [sems EXCEPT ![Cour].val = v]
      /\ \/ Mine.op = "try_wait" /\ Return("sem_store")
         \/ /\ Mine.op # "try_wait" /\ GoOn("sem_check")
            /\ frame' = [frame EXCEPT ![chosen] = [Mine EXCEPT !.reg = 0]]
  BY <1>0 DEF SemStore, Running, Mine
<1>2. pc[chosen] \in Spots /\ "sem_store" \in SemSteps /\ ~OwesNow
  BY <1>1 DEF Spots, SemSteps, OwesNow
<1>3. /\ Mine \in Frames /\ Counter \in VAL_MIN..VAL_MAX /\ Counter \in Int
      /\ Mine.left \in Nat /\ Mine.reg \in VAL_MIN..VAL_MAX
      /\ ShapeOf("sem_store", Cour, Mine, Len(sems))
      /\ ~torn => AccountOf("sem_store", Mine, Counter)
      /\ VAL_MIN \in Int /\ VAL_MAX \in Nat /\ 0 \in VAL_MIN..VAL_MAX
  BY <1>1, <1>2, SpotIs, FrameIs DEF SemInv
<1>4. /\ v \in VAL_MIN..VAL_MAX
      /\ Mine.op # "signaln" => v = Less(Mine.reg)
      /\ Mine.op = "signaln" => v = More(Mine.reg)
  BY <1>0, <1>3, ShortArithmetic DEF Result
<1>5. ~torn => Mine.reg = Counter
  BY <1>3 DEF AccountOf
<1>6. CASE Mine.op = "try_wait"
  <2>1. Return("sem_store")
    BY <1>1, <1>6
  <2>2. ~torn => v >= 0
    <3> SUFFICES ASSUME ~torn PROVE v >= 0
      OBVIOUS
    <3>1. Counter > 0 /\ v = Less(Counter)
      BY <1>3, <1>4, <1>5, <1>6 DEF AccountOf
    <3> QED BY <3>1, <1>3, ShortArithmetic
  <2> QED BY <1>1, <1>2, <1>4, <2>1, <2>2, OwnReturn
<1>7. CASE Mine.op # "try_wait"
  <2> DEFINE f == [Mine EXCEPT !.reg = 0]
  <2>1. GoOn("sem_check") /\ frame' = [frame EXCEPT ![chosen] = f]
    BY <1>1, <1>7
  <2>2. f \in Frames /\ f.op = Mine.op /\ f.left = Mine.left
    BY <1>3 DEF Frames
  <2>3. Mine.op \in {"wait", "signaln"}
    BY <1>3, <1>7 DEF ShapeOf
  <2> HIDE DEF f
  <2>4. ShapeOf("sem_check", Cour, f, Len(sems))
    BY <1>3, <2>2, <2>3 DEF ShapeOf, Spots, SemSteps
  <2>5. ASSUME ~torn PROVE AccountOf("sem_check", f, v) /\ Settled("sem_check", f, Cour, v)
    <3>1. AccountOf("sem_store", Mine, Counter) /\ Mine.reg = Counter
      BY <1>3, <1>5, <2>5
    <3>2. CASE Mine.op = "wait"
      <4>1. v >= 0 \/ v = Counter - 1
        BY <1>3, <1>4, <3>1, <3>2, ShortArithmetic
      <4>2. Settled("sem_check", f, Cour, v)
        BY <4>1, <3>2, <2>2, <1>2 DEF Settled, Counter
      <4>3. AccountOf("sem_check", f, v)
        BY <3>2, <2>2 DEF AccountOf
      <4> QED BY <4>2, <4>3
    <3>3. CASE Mine.op = "signaln"
      <4>1. Mine.left > 0 /\ Counter + Mine.left <= VAL_MAX
        BY <1>3, <3>1, <3>3 DEF ShapeOf, AccountOf, SemSteps
      <4>2. Counter < VAL_MAX
        BY <4>1, <1>3
      <4>3. v = Counter + 1
        BY <4>2, <1>3, <1>4, <3>1, <3>3, ShortArithmetic
      <4>4. v >= Counter /\ v + f.left - 1 <= VAL_MAX
        BY <4>1, <4>3, <1>3, <2>2
      <4>5. Settled("sem_check", f, Cour, v)
        BY <4>4, <1>2 DEF Settled, Counter
      <4>6. AccountOf("sem_check", f, v)
        BY <4>4 DEF AccountOf
      <4> QED BY <4>5, <4>6
    <3> QED BY <2>3, <3>2, <3>3
  <2> QED BY <1>1, <1>2, <1>4, <2>1, <2>2, <2>4, <2>5, OwnMove
<1> QED BY <1>6, <1>7

LEMMA WaitPassStep ==
  ASSUME ConstantsAssumption, SemConstants, SemInv, WaitPass
  PROVE  SemGoal
<1>1. /\ pc[chosen] = "sem_check" /\ Return("sem_check") /\ Counter >= 0 /\ sems' = sems
  BY DEF WaitPass, Return, FinishFrom, Running
<1>2. pc[chosen] \in Spots /\ "sem_check" \in SemSteps
  BY <1>1 DEF Spots, SemSteps
<1>3. Counter \in VAL_MIN..VAL_MAX /\ sems' = [sems EXCEPT ![Cour].val = Counter]
  BY <1>1, <1>2, SpotIs
<1> QED BY <1>1, <1>2, <1>3, OwnReturn

LEMMA SignalCheckIs ==
  ASSUME ConstantsAssumption, SemConstants, SemInv, SignalCheck
  PROVE  /\ pc[chosen] = "sem_check" /\ Mine.op = "signaln" /\ pc[chosen] \in Spots
         /\ sems' = sems /\ state' = state
         /\ frame' = [frame EXCEPT ![chosen] = [Mine EXCEPT !.left = Mine.left - 1]]
         /\ GoOn(IF Mine.left = 1 THEN "sem_yield" ELSE "sem_load")
<1>1. pc[chosen] = "sem_check" /\ pc[chosen] \in Spots
  BY DEF SignalCheck, Running, Spots, SemSteps
<1>2. sems[Cour].p_bloques = << >> /\ Cour \in DOMAIN sems
  BY <1>1, SpotIs
<1>3. Woken(Counter, << >>) = {}
  BY DEF Woken
<1>4. state' = passe_activable({}) /\ sems' = [sems EXCEPT ![Cour].p_bloques = << >>]
  BY <1>2, <1>3, Zenon DEF SignalCheck
<1>5. state' = state /\ sems' = sems
  BY <1>2, <1>4, PasseNobody, SameStored DEF SemInv
<1> QED BY <1>1, <1>5 DEF SignalCheck, GoOn, table, Mine

LEMMA SignalCheckStep ==
  ASSUME ConstantsAssumption, SemConstants, SemInv, SignalCheck
  PROVE  SemGoal
<1> DEFINE f     == [Mine EXCEPT !.left = Mine.left - 1]
           point == IF Mine.left = 1 THEN "sem_yield" ELSE "sem_load"
<1>1. /\ pc[chosen] = "sem_check" /\ pc[chosen] \in Spots /\ Mine.op = "signaln"
      /\ sems' = sems /\ frame' = [frame EXCEPT ![chosen] = f] /\ GoOn(point)
  BY SignalCheckIs
<1>2. /\ Mine \in Frames /\ Counter \in VAL_MIN..VAL_MAX /\ Counter \in Int
      /\ Mine.left \in Nat /\ Mine.left <= VAL_MAX /\ VAL_MAX \in Nat
      /\ ShapeOf("sem_check", Cour, Mine, Len(sems))
      /\ ~torn => AccountOf("sem_check", Mine, Counter)
      /\ sems' = [sems EXCEPT ![Cour].val = Counter]
  BY <1>1, SpotIs, FrameIs DEF SemInv, SemSteps
<1>3. Mine.left > 0
  BY <1>1, <1>2 DEF ShapeOf, SemSteps
<1>4. f \in Frames /\ f.op = "signaln" /\ f.left = Mine.left - 1
  BY <1>1, <1>2, <1>3 DEF Frames
<1>5. /\ point \in {"sem_load", "sem_yield"}
      /\ point = "sem_load" => Mine.left > 1
  BY <1>2, <1>3
<1> HIDE DEF f, point
<1>6. ShapeOf(point, Cour, f, Len(sems))
  BY <1>2, <1>4, <1>5 DEF ShapeOf, Spots, SemSteps
<1>7. ~torn /\ point \in SemSteps => AccountOf(point, f, Counter)
  <2>1. point \in SemSteps => point = "sem_load"
    BY <1>5 DEF SemSteps
  <2>2. ~torn => Counter + f.left <= VAL_MAX
    BY <1>1, <1>2, <1>4 DEF AccountOf
  <2> QED BY <2>1, <2>2, <1>4 DEF AccountOf
<1>8. Settled(point, f, Cour, Counter)
  BY <1>1, <1>2 DEF Settled, OwesNow, Counter
<1> QED BY <1>1, <1>2, <1>4, <1>5, <1>6, <1>7, <1>8, OwnMove

\* signal and wait call ordonnance and suspend their caller.
LEMMA SuspendStep ==
  ASSUME ConstantsAssumption, IInv, pc[chosen] # "boot",
         NEW st, Callable(process_list, st), Ordonnance(process_list, st, prio),
         \A p \in Pid : p # chosen => st[p] = state[p],
         NEW point \in Points \ {"boot"}, NEW v \in Pid, ResumeAt(point, v),
         UNCHANGED <<pidmax, prio, retval, children, IFLAG, halted>>
  PROVE  IInv' /\ BlockedStay /\ StaysDead
<1>1. /\ pc' \in [Pid -> Points] /\ local' \in [Pid -> Pid]
      /\ interrupted' \in [Pid -> BOOLEAN] /\ \A p \in Pid : pc'[p] # "boot"
  <2>1. \A p \in Pid : pc[p] # "boot"
    BY UserBooted
  <2>2. /\ pc' = [pc EXCEPT ![chosen] = point]
        /\ local' = [local EXCEPT ![chosen] = v] /\ interrupted' = interrupted
    BY DEF ResumeAt
  <2> QED BY <2>1, <2>2, Facts DEF IInv, TypeOK
<1>2. \A p \in Pid : state[p] \in {"ZOMBIE", "NONE"} => st[p] = state[p]
  BY Facts
<1>3. /\ prio' \in [Pid -> 0..MAXPRIO] /\ retval' \in [Pid -> RETVALS \cup {0}]
      /\ \A p \in Pid : state[p] = "ZOMBIE" => retval'[p] = retval[p]
      /\ IFLAG' \in BOOLEAN
  BY DEF IInv, TypeOK
<1>4. IInv' /\ StaysDead
  BY <1>1, <1>2, <1>3, Facts, SwitchStep
<1>5. \A p \in Pid : p # chosen => pc'[p] = pc[p] /\ local'[p] = local[p]
  BY ResumeElsewhere
<1>6. \A p \in Pid : state[p] = "BLOCKED_ON_SEM" => st[p] = state[p]
  BY Facts
<1>7. BlockedStay
  BY <1>5, <1>6, Facts, SwitchKeepsBlocked
<1> QED BY <1>4, <1>7

\* The running process leaves the semaphores as they are and gives up the
\* processor; if it owed a unit it still does.
LEMMA SuspendMove ==
  ASSUME ConstantsAssumption, SemConstants, SemInv, pc[chosen] # "boot",
         NEW st, Callable(process_list, st), Ordonnance(process_list, st, prio),
         \A p \in Pid : p # chosen => st[p] = state[p],
         NEW point \in {"wait", "signal"}, NEW v \in Pid, ResumeAt(point, v),
         frame' = [frame EXCEPT ![chosen] = NoFrame],
         UNCHANGED <<pidmax, prio, retval, children, IFLAG, halted>>,
         UNCHANGED <<nb_sem, sems, torn>>,
         \A k : chosen \in Owing(k) => chosen \in Owing(k)'
  PROVE  SemGoal
<1>1. point \in Points \ {"boot"} /\ point \notin Spots /\ point \notin SemSteps
  BY DEF Points, Spots, SemSteps
<1>2. IInv' /\ BlockedStay /\ StaysDead
  BY <1>1, SuspendStep DEF SemInv
<1>3. Moves(point, v, NoFrame)
  BY DEF Moves, ResumeAt
<1>4. Len(sems) \in Nat /\ chosen' \in Pid
  BY <1>2, LenIs DEF SemInv, IInv, TypeOK
<1>5. ShapeOf(point, v, NoFrame, Len(sems'))
  BY <1>1 DEF ShapeOf, Spots, SemSteps
<1>6. Shape' /\ Alone' /\ Accounts' /\ OthersStay
  BY <1>1, <1>3, <1>4, <1>5, MoveShapes
<1>7. frame' \in [Pid -> Frames]
  BY FrameIs, FrameStored DEF SemInv
<1>8. SemTyped'
  BY <1>7 DEF SemInv, SemTyped
<1>9. ASSUME NEW k \in DOMAIN sems' PROVE Paid(k)
  <2>1. Owing(k) \subseteq Owing(k)'
    BY <1>2, <1>6, OwingKept
  <2>2. k \in DOMAIN sems /\ sems[k].val \in Int
    BY SemIs DEF SemInv
  <2> QED BY <2>1, <2>2 DEF Paid
<1>10. DebtIsBlocked'
  BY <1>8, <1>9, DebtKept DEF SemInv
<1> QED BY <1>2, <1>6, <1>8, <1>10 DEF SemGoal, SemInv

LEMMA SignalYieldStep ==
  ASSUME ConstantsAssumption, SemConstants, SemInv, SignalYield
  PROVE  SemGoal
<1>1. /\ pc[chosen] = "sem_yield" /\ Ordonnance(process_list, state, prio)
      /\ ResumeAt("signal", 0) /\ frame' = [frame EXCEPT ![chosen] = NoFrame]
      /\ UNCHANGED <<pidmax, prio, retval, children, IFLAG, halted>>
      /\ UNCHANGED <<nb_sem, sems, torn>>
  BY DEF SignalYield, Running
<1>2. 0 \in Pid /\ Callable(process_list, state)
  BY Facts DEF Idle, SemInv
<1>3. \A k : chosen \notin Owing(k)
  BY <1>1, ChosenOwes DEF SemInv
<1> QED BY <1>1, <1>2, <1>3, SuspendMove

LEMMA WaitBlockStep ==
  ASSUME ConstantsAssumption, SemConstants, SemInv, WaitBlock
  PROVE  SemGoal
<1> DEFINE st == [state EXCEPT ![chosen] = "BLOCKED_ON_SEM"]
<1>0. PICK j : j = Cour
  OBVIOUS
<1>1. /\ pc[chosen] = "sem_check" /\ Mine.op = "wait"
      /\ sems' = [sems EXCEPT ![Cour].p_bloques = sems[Cour].p_bloques]
      /\ Ordonnance(process_list, st, prio) /\ ResumeAt("wait", Cour)
      /\ frame' = [frame EXCEPT ![chosen] = NoFrame]
      /\ UNCHANGED <<pidmax, prio, retval, children, IFLAG, halted>>
      /\ UNCHANGED <<nb_sem, torn>>
  BY DEF WaitBlock, Running, add_proc_bloque
<1>2. pc[chosen] \in Spots
  BY <1>1 DEF Spots, SemSteps
<1>3. Cour \in DOMAIN sems /\ Cour \in Pid /\ sems[Cour].p_bloques = << >>
  BY <1>2, SpotIs
<1>4. sems' = sems
  BY <1>1, <1>3, SameStored DEF SemInv
<1>5. Callable(process_list, st)
  BY <1>2, SpotIs, LeaverCalls DEF SemInv
<1>6. \A p \in Pid : p # chosen => st[p] = state[p]
  OBVIOUS
<1>7. st[chosen] = "BLOCKED_ON_SEM" /\ chosen \in Pid /\ prio \in [Pid -> Nat]
  BY Facts DEF SemInv, IInv, TypeOK
<1> HIDE DEF st
<1>8. chosen \in BlockedOn(j)'
  <2>1. state'[chosen] = "BLOCKED_ON_SEM"
    BY <1>1, <1>5, <1>7, OrdonnanceConserves DEF SemInv, IInv
  <2>2. pc'[chosen] = "wait" /\ local'[chosen] = j
    BY <1>0, <1>1, <1>7 DEF ResumeAt, SemInv, IInv, TypeOK
  <2> QED BY <2>1, <2>2, <1>7 DEF BlockedOn
<1>9. \A k : chosen \in Owing(k) => chosen \in Owing(k)'
  <2> SUFFICES ASSUME NEW k, chosen \in Owing(k) PROVE chosen \in Owing(k)'
    OBVIOUS
  <2>1. k = j
    BY <1>0, ChosenOwes DEF SemInv
  <2> QED BY <2>1, <1>8 DEF Owing
<1> QED BY <1>1, <1>3, <1>4, <1>5, <1>6, <1>9, SuspendMove

\* The steps of the scheduler.
LEMMA SchedulerStep ==
  ASSUME ConstantsAssumption, SemConstants, SemInv, Next, SemsAside
  PROVE  SemGoal
<1>1. IInv' /\ BlockedStay /\ StaysDead
  BY NextStep, NextKeepsBlocked DEF SemInv
<1>2. /\ UNCHANGED <<nb_sem, sems>>
      /\ torn' = (torn \/ (pc[chosen] \in SemSteps /\ chosen' # chosen))
      /\ frame' = [p \in Pid |-> IF pc'[p] = "exit" THEN NoFrame ELSE frame[p]]
  BY DEF SemsAside
<1>3. KeepsSpots
  BY NextKeepsSpots DEF SemInv
<1>4. frame' \in [Pid -> Frames] /\ torn' \in BOOLEAN
  BY <1>2, FrameIs DEF SemInv, SemTyped
<1>5. SemTyped'
  BY <1>2, <1>4 DEF SemInv, SemTyped
<1>6. "exit" \notin Spots /\ SemSteps \subseteq Spots
  BY DEF Spots, SemSteps
<1>7. \A p \in Pid : pc'[p] \in Spots =>
        pc'[p] = pc[p] /\ local'[p] = local[p] /\ frame'[p] = frame[p]
  BY <1>2, <1>3, <1>6 DEF KeepsSpots
<1>8. Shape'
  <2>0. pc'[Idle] \notin Spots
    BY <1>7, Facts DEF SemInv, Shape
  <2> SUFFICES ASSUME NEW p \in Pid
               PROVE  ShapeOf(pc'[p], local'[p], frame'[p], Len(sems))
    BY <1>2, <2>0 DEF Shape
  <2>1. CASE pc'[p] \in Spots
    BY <2>1, <1>7 DEF SemInv, Shape
  <2>2. CASE pc'[p] \notin Spots
    BY <2>2 DEF ShapeOf, Spots, SemSteps
  <2> QED BY <2>1, <2>2
<1>9. ASSUME ~torn', NEW p \in Pid, pc'[p] \in SemSteps
      PROVE  p = chosen /\ chosen' = chosen /\ ~torn
  <2>1. ~torn /\ pc[p] \in SemSteps
    BY <1>2, <1>6, <1>7, <1>9
  <2>2. p = chosen
    BY <2>1 DEF SemInv, Alone
  <2> QED BY <2>1, <2>2, <1>2, <1>9
<1>10. Alone'
  BY <1>9 DEF Alone
<1>11. Accounts'
  <2> SUFFICES ASSUME ~torn', pc'[chosen'] \in SemSteps
               PROVE  AccountOf(pc'[chosen'], frame'[chosen'], sems'[local'[chosen']].val)
    BY DEF Accounts, Mine, Counter, Cour
  <2>1. chosen' \in Pid
    BY <1>1 DEF IInv, TypeOK
  <2>2. chosen' = chosen /\ ~torn
    BY <2>1, <1>9
  <2>3. pc'[chosen] = pc[chosen] /\ local'[chosen] = local[chosen]
        /\ frame'[chosen] = frame[chosen] /\ sems' = sems
    BY <2>1, <2>2, <1>2, <1>6, <1>7
  <2>4. AccountOf(pc[chosen], frame[chosen], sems[local[chosen]].val)
    BY <2>2, <2>3 DEF SemInv, Accounts, Mine, Counter, Cour
  <2> QED BY <2>2, <2>3, <2>4
<1>12. ASSUME ~torn', NEW k \in DOMAIN sems' PROVE Paid(k)
  <2>1. k \in DOMAIN sems /\ sems'[k].val >= sems[k].val
    BY <1>2, SemIs DEF SemInv
  <2>2. ASSUME NEW p \in Owing(k) PROVE p \in Owing(k)'
    <3>1. CASE p \in BlockedOn(k)
      BY <3>1, <1>1 DEF Owing, BlockedOn, BlockedStay
    <3>2. CASE p \notin BlockedOn(k)
      <4>1. p \in Pid /\ pc[p] = "sem_check" /\ frame[p].op = "wait" /\ local[p] = k
        BY <2>2, <3>2 DEF Owing
      <4>2. p = chosen /\ pc[p] \in Spots
        BY <4>1, <1>2, <1>12 DEF SemInv, Alone, SemSteps, Spots
      <4>3. pc'[p] = "sem_check" /\ local'[p] = k
        BY <4>1, <4>2, <1>3 DEF KeepsSpots
      <4>4. frame'[p] = frame[p]
        BY <4>1, <4>3, <1>2
      <4> QED BY <4>1, <4>3, <4>4 DEF Owing
    <3> QED BY <3>1, <3>2
  <2> QED BY <2>1, <2>2 DEF Paid
<1>13. DebtIsBlocked'
  BY <1>2, <1>5, <1>12, DebtKept DEF SemInv
<1> QED BY <1>1, <1>5, <1>8, <1>10, <1>11, <1>13 DEF SemGoal, SemInv

LEMMA SemNextStep ==
  ASSUME ConstantsAssumption, SemConstants, SemInv, [SemNext]_allvars
  PROVE  SemGoal
<1>1. ASSUME UNCHANGED allvars PROVE SemGoal
  <2>1. UNCHANGED vars /\ UNCHANGED semvars
    BY <1>1 DEF allvars
  <2>2. IInv' /\ BlockedStay
    BY <2>1, NextStep, NextKeepsBlocked DEF SemInv
  <2>3. StaysDead
    BY <2>1 DEF StaysDead, vars, table
  <2>4. SemTyped' /\ Shape' /\ Alone' /\ Accounts' /\ DebtIsBlocked'
    BY <2>1 DEF SemInv, SemTyped, Shape, Alone, Accounts, DebtIsBlocked, Owing,
       BlockedOn, Mine, Counter, Cour, vars, table, lists, ctx, semvars
  <2> QED BY <2>2, <2>3, <2>4 DEF SemGoal, SemInv
<1>2. ASSUME \/ WaitFault
             \/ \E s \in SidArg : SemFault(s)
      PROVE  SemGoal
  <2>1. /\ UNCHANGED <<table, lists, ctx, frame, torn>> /\ sems' = sems
        /\ pc[chosen] # "boot" /\ IFLAG' \in BOOLEAN /\ halted' \in Halts
        /\ nb_sem' = nb_sem
    BY <1>2 DEF SemFault, WaitFault, AtUser, Running, Halts, SemInv, IInv, TypeOK, semvars
  <2>2. SemTyped' /\ Len(sems) \in Nat
    BY <2>1, LenIs DEF SemInv, SemTyped
  <2> QED BY <2>1, <2>2, SemStays
<1>3. ASSUME SignalReturn PROVE SemGoal
  <2>1. /\ pc[chosen] = "signal" /\ UNCHANGED <<table, lists, semvars>>
        /\ IFLAG' \in BOOLEAN /\ halted' \in Halts /\ ResumeAt("user", 0)
    BY <1>3 DEF SignalReturn, FinishFrom, Running, ResumeAt, SemInv, IInv, TypeOK
  <2>2. /\ 0 \in Pid /\ "user" \in Points \ {"boot"} /\ "user" \notin SemSteps
        /\ "user" \notin Spots
    BY Facts DEF Points, Idle, SemInv, Spots, SemSteps
  <2>3. IInv' /\ StaysDead
    BY <2>1, <2>2, QuietStep DEF SemInv
  <2>4. state' = state /\ chosen' = chosen /\ chosen \in Pid
    BY <2>1, Facts DEF table, lists, SemInv
  <2>5. BlockedStay
    BY <2>1, <2>4, ResumeElsewhere, Facts DEF BlockedStay, SemInv
  <2>6. frame = [frame EXCEPT ![chosen] = Mine]
    BY DEF SemInv, SemTyped, Mine
  <2>7. Moves("user", 0, Mine) /\ sems' = sems /\ torn' = torn
    BY <2>1, <2>6 DEF Moves, ResumeAt, semvars
  <2>8. Len(sems) \in Nat /\ ShapeOf("user", 0, Mine, Len(sems))
    BY LenIs DEF SemInv, ShapeOf, Spots, SemSteps
  <2>9. Shape' /\ Alone' /\ Accounts' /\ OthersStay
    BY <2>2, <2>4, <2>7, <2>8, MoveShapes
  <2>10. SemTyped'
    BY <2>1 DEF SemInv, SemTyped, semvars
  <2>11. ASSUME NEW k \in DOMAIN sems' PROVE Paid(k)
    <3>1. chosen \notin Owing(k)
      BY <2>1, ChosenOwes DEF SemInv
    <3>2. Owing(k) \subseteq Owing(k)'
      BY <3>1, <2>5, <2>9, OwingKept
    <3>3. k \in DOMAIN sems /\ sems'[k].val >= sems[k].val
      BY <2>7, SemIs DEF SemInv
    <3> QED BY <3>2, <3>3 DEF Paid
  <2>12. DebtIsBlocked'
    BY <2>7, <2>10, <2>11, DebtKept DEF SemInv
  <2> QED BY <2>3, <2>5, <2>9, <2>10, <2>12 DEF SemGoal, SemInv
<1>4. ASSUME NEW c \in COUNTS, Screate(c) \/ ScreateFault(c) PROVE SemGoal
  BY <1>4, ScreateStep, ScreateFaultStep
<1>5. ASSUME NEW s \in SidArg, Sdelete(s) \/ Wait(s) \/ TryWait(s) PROVE SemGoal
  BY <1>5, SdeleteStep, WaitStep, TryWaitStep
<1>6. ASSUME NEW s \in SidArg, NEW c \in COUNTS,
             Sreset(s, c) \/ Signaln(s, c) \/ SemRefused(s, c)
      PROVE  SemGoal
  BY <1>1, <1>6, SresetStep, SignalnStep DEF SemRefused
<1>7. ASSUME \/ TryGoesOn \/ TryMisses \/ SemLoad \/ SemStore
             \/ WaitPass \/ WaitBlock \/ SignalCheck \/ SignalYield
      PROVE  SemGoal
  BY <1>7, TryStep, LoadStep, StoreStep, WaitPassStep, WaitBlockStep,
     SignalCheckStep, SignalYieldStep
<1>8. SemNext => SemGoal
  BY <1>2, <1>3, <1>4, <1>5, <1>6, <1>7, SchedulerStep DEF SemNext, SemPrimitive, SemStep
<1> QED BY <1>1, <1>8

LEMMA SemInitInv ==
  ASSUME ConstantsAssumption, SemConstants, SemInit
  PROVE  SemInv
<1>1. IInv
  BY InitInv DEF SemInit
<1>2. /\ sems = << >> /\ Len(sems) = 0 /\ DOMAIN sems = {} /\ nb_sem = 0
      /\ frame = [p \in Pid |-> NoFrame] /\ torn = FALSE
  BY DEF SemInit
<1>3. NoFrame \in Frames
  <2>1. 0 \in VAL_MIN..VAL_MAX /\ 0 \in 0..VAL_MAX
    BY DEF SemConstants
  <2> QED BY <2>1 DEF NoFrame, Frames
<1>4. SemTyped
  <2>1. 0 \in 0..MAXCREATE /\ 0 <= NBSEMS
    BY DEF SemConstants
  <2>2. frame \in [Pid -> Frames]
    BY <1>2, <1>3
  <2>3. << >> \in Seq(SemRecord)
    OBVIOUS
  <2>4. nb_sem \in 0..MAXCREATE /\ Len(sems) <= NBSEMS /\ Len(sems) <= nb_sem
    BY <1>2, <2>1
  <2>5. sems \in Seq(SemRecord) /\ torn \in BOOLEAN
    BY <1>2, <2>3
  <2> QED BY <2>2, <2>4, <2>5, Zenon DEF SemTyped, SemRecord
<1>5. \A p \in Pid : pc[p] \notin Spots
  BY DEF SemInit, Init, Spots, SemSteps
<1>6. SemSteps \subseteq Spots /\ chosen \in Pid /\ Idle \in Pid
  BY <1>1, Facts DEF Spots
<1>7. Shape
  BY <1>5, <1>6 DEF Shape, ShapeOf, SemSteps, Spots
<1>8. Alone /\ Accounts /\ DebtIsBlocked
  BY <1>2, <1>5, <1>6 DEF Alone, Accounts, DebtIsBlocked
<1> QED BY <1>1, <1>4, <1>7, <1>8 DEF SemInv

-----------------------------------------------------------------------------
(* Who collects whom *)

Collects ==
  pc[chosen] = "waitpid" /\ pc'[chosen] = "user" => state[Awaited] = "ZOMBIE"

\* Only the end of waitpid's loop takes a process from there to its own code.
LEMMA CollectsStep ==
  ASSUME ConstantsAssumption, IInv, SemNext
  PROVE  Collects
<1> SUFFICES ASSUME pc[chosen] = "waitpid", pc'[chosen] = "user"
             PROVE  state[Awaited] = "ZOMBIE"
  BY DEF Collects
<1>1. ~AtUser
  BY DEF AtUser, Running
<1>2. ~SemPrimitive
  BY <1>1 DEF SemPrimitive, Screate, ScreateFault, Sdelete, Wait, TryWait, Signaln,
              Call, SemFault, Sreset, SemRefused
<1>3. ~Primitive
  BY <1>1 DEF Primitive, Start, StartRefused, StartNoStack, StartFault, Exit, Kill,
              KillRefused, Waitpid, WaitpidRefused
<1>4. ~ChangePriority
  BY <1>1 DEF ChangePriority, Chprio, ChprioRefused
<1>5. ~StartReturn /\ ~KillReturn /\ ~ChprioReturn /\ ~SemStep /\ ~Sti /\ ~Cli
  BY <1>1 DEF StartReturn, KillReturn, ChprioReturn, FinishFrom, Sti, Cli, Running,
              SemStep, TryGoesOn, TryMisses, SemLoad, SemStore, WaitPass, WaitBlock,
              WaitFault, SignalCheck, SignalYield, SignalReturn, Return
<1>6. \A pr \in Prio : ~Boot(pr)
  BY DEF Boot, Running
<1>7. pc' # pc
  OBVIOUS
<1>8. ~WaitpidSpin /\ ~WaitpidPanic /\ ~Tick /\ ~TickReturn
  BY <1>7 DEF WaitpidSpin, WaitpidPanic, Tick, TickReturn, ctx
<1>9. WaitpidReap
  BY <1>2, <1>3, <1>4, <1>5, <1>6, <1>8 DEF SemNext, Next, Resume
<1> QED BY <1>9 DEF WaitpidReap, Linked, IInv, Conservation

-----------------------------------------------------------------------------
(* The theorems *)

LEMMA SemInvHolds == SemSpec => []SemInv
<1>1. SemInit => SemInv
  BY SemInitInv, ConstantsAssumption, SemConstants
<1>2. SemInv /\ [SemNext]_allvars => SemInv'
  BY SemNextStep, ConstantsAssumption, SemConstants DEF SemGoal
<1> QED BY <1>1, <1>2, PTL DEF SemSpec

\* The semaphores stay within the bounds the primitives test, and their
\* number within NBSEMS whatever screate is given (sem.c).
THEOREM SemTypeCorrect == SemSpec => []SemTypeOK
<1>1. SemInv => SemTypeOK
  <2> SUFFICES ASSUME SemInv PROVE SemTypeOK
    OBVIOUS
  <2>1. TypeOK /\ nb_sem \in 0..MAXCREATE /\ Len(sems) <= NBSEMS
    BY DEF SemInv, IInv, SemTyped
  <2>2. sems \in Seq([sid : -1..NBSEMS-1, val : VAL_MIN..VAL_MAX, p_bloques : Seq(Pid)])
    <3> DEFINE R == [sid : -1..NBSEMS-1, val : VAL_MIN..VAL_MAX, p_bloques : {<< >>}]
               Q == [sid : -1..NBSEMS-1, val : VAL_MIN..VAL_MAX, p_bloques : Seq(Pid)]
    <3>1. sems \in Seq(R)
      BY DEF SemInv, SemTyped
    <3>2. R \subseteq Q
      <4>1. {<< >>} \subseteq Seq(Pid)
        OBVIOUS
      <4> HIDE DEF Pid
      <4> QED BY <4>1, Zenon
    <3> HIDE DEF R, Q
    <3>3. sems \in Seq(Q)
      BY <3>1, <3>2
    <3> QED BY <3>3 DEF Q
  <2>3. frame \in [Pid -> Frames] /\ torn \in BOOLEAN
    BY DEF SemInv, SemTyped
  <2> QED BY <2>1, <2>2, <2>3 DEF SemTypeOK, Frames
<1> QED BY <1>1, SemInvHolds, PTL

\* Blocking on a semaphore loses no process: those that are not blocked stay
\* in exactly one list whatever the semaphores do (sem.c with ordonnance).
THEOREM SemConservation == SemSpec => []Conservation
<1>1. SemInv => Conservation
  BY DEF SemInv, IInv
<1> QED BY <1>1, SemInvHolds, PTL

\* As long as no process has lost the processor inside a primitive, a negative
\* counter never exceeds the processes that blocked for it or are about to,
\* whatever resets, deletions and overflows come between (sem.c).
THEOREM DebtsAreBlocked == SemSpec => []DebtIsBlocked
<1>1. SemInv => DebtIsBlocked
  BY DEF SemInv
<1> QED BY <1>1, SemInvHolds, PTL

\* waitpid collects processes that died, never one that is only blocked
\* (process.c:335-348).
THEOREM OnlyTheDeadCollected == SemSpec => CollectsTheDead
<1>1. SemInv /\ [SemNext]_allvars => [Collects]_allvars
  BY CollectsStep, ConstantsAssumption DEF SemInv
<1>2. Collects <=> (pc[chosen] = "waitpid" /\ pc'[chosen] = "user"
                      => state[Awaited] = "ZOMBIE")
  BY DEF Collects
<1> QED BY <1>1, <1>2, SemInvHolds, PTL DEF SemSpec, CollectsTheDead

-----------------------------------------------------------------------------
(* The scheduler with the semaphores implements ProcessLifecycle *)

LEMMA SignalYieldImplements ==
  ASSUME ConstantsAssumption, SemConstants, SemInv, SignalYield
  PROVE  Life!LifeNext \/ Status' = Status
<1>1. Ordonnance(process_list, state, prio)
  BY DEF SignalYield
<1>2. Callable(process_list, state) /\ prio \in [Pid -> Nat]
  BY Facts DEF SemInv
<1>3. \A p \in Pid : state[p] = "ZOMBIE" =>
        (p \in Range(process_list) <=> p \in Range(process_list))
  OBVIOUS
<1> QED BY <1>1, <1>2, <1>3, YieldImplements DEF SemInv

LEMMA WaitBlockImplements ==
  ASSUME ConstantsAssumption, SemConstants, SemInv, WaitBlock
  PROVE  Life!LifeNext
<1> DEFINE st == [state EXCEPT ![chosen] = "BLOCKED_ON_SEM"]
<1>0. IInv
  BY DEF SemInv
<1>1. chosen # Idle /\ Ordonnance(process_list, st, prio)
  <2>1. pc[chosen] \in Spots
    BY DEF WaitBlock, Running, Spots, SemSteps
  <2> QED BY <2>1, SpotIs DEF WaitBlock
<1>2. Callable(process_list, st)
  BY <1>0, <1>1, LeaverCalls
<1>3. /\ prio \in [Pid -> Nat] /\ chosen \in Pid /\ Status[chosen] = "running"
      /\ st[Idle] = "ACTIVABLE" /\ Idle \in Pid
      /\ Left(chosen, st) = "BLOCKED_ON_SEM"
  BY <1>0, <1>1, Facts, StatusCases DEF IInv, IdleReady, TypeOK, Left
<1>4. StatusAtCall(st) = [Status EXCEPT ![chosen] = "blocked"]
  <2>1. StatusAtCall(st) =
          [Status EXCEPT ![chosen] =
             StatusIn("BLOCKED_ON_SEM", chosen, InLists \cup {chosen})]
    BY <1>0, <1>3, CallStatusBut DEF States
  <2>2. StatusIn("BLOCKED_ON_SEM", chosen, InLists \cup {chosen}) = "blocked"
    BY StatusValues
  <2> QED BY <2>1, <2>2, Zenon
<1>5. \A p \in Pid : st[p] = "ZOMBIE" =>
        (p \in Range(process_list) <=> p \in Range(process_list))
  OBVIOUS
<1> HIDE DEF st
<1>6. /\ chosen' \in Pid /\ chosen' # chosen
      /\ StatusAtCall(st)[chosen'] = "ready"
      /\ Status' = [StatusAtCall(st) EXCEPT
                      ![chosen] = StatusIn("BLOCKED_ON_SEM", chosen, {chosen}),
                      ![chosen'] = "running"]
  BY <1>0, <1>1, <1>2, <1>3, <1>5, SwitchImplements
<1>7. StatusIn("BLOCKED_ON_SEM", chosen, {chosen}) = "blocked"
  BY StatusValues
<1>8. Status = [p \in Pid |-> Status[p]]
  BY DEF Status
<1>9. /\ Status[chosen'] = "ready"
      /\ Status' = [Status EXCEPT ![chosen] = "blocked", ![chosen'] = "running"]
  BY <1>3, <1>4, <1>6, <1>7, <1>8
<1>10. Life!Block(chosen, chosen')
  BY <1>1, <1>9, BlockIs
<1> QED BY <1>3, <1>6, <1>10, LifeSteps, Zenon

LEMMA SemNextImplements ==
  ASSUME ConstantsAssumption, SemConstants, SemInv, [SemNext]_allvars
  PROVE  Life!LifeNext \/ Status' = Status
<1> DEFINE Goal == Life!LifeNext \/ Status' = Status
<1> HIDE DEF Goal
<1>1. ASSUME UNCHANGED <<state, process_list, toKill_list>> PROVE Goal
  BY <1>1, QuietImplements DEF Goal
<1>2. ASSUME Next PROVE Goal
  BY <1>2, NextImplements DEF Goal, SemInv
<1>3. ASSUME UNCHANGED vars \/ UNCHANGED <<table, lists>> PROVE Goal
  <2>1. UNCHANGED <<state, process_list, toKill_list>>
    BY <1>3 DEF vars, table, lists
  <2> QED BY <2>1, <1>1
<1>4. ASSUME NEW c \in COUNTS, Screate(c) \/ ScreateFault(c) PROVE Goal
  BY <1>3, <1>4 DEF Screate, ScreateFault
<1>5. ASSUME NEW s \in SidArg, Sdelete(s) PROVE Goal
  <2>1. UNCHANGED vars
    BY <1>5, CourantIs, WakesNobody DEF Sdelete, SemInv
  <2> QED BY <2>1, <1>3
<1>6. ASSUME NEW s \in SidArg, NEW c \in COUNTS, Sreset(s, c) PROVE Goal
  <2>1. UNCHANGED vars
    BY <1>6, CourantIs, WakesNobody DEF Sreset, SemInv
  <2> QED BY <2>1, <1>3
<1>7. ASSUME \/ \E s \in SidArg : Wait(s) \/ TryWait(s) \/ SemFault(s)
             \/ \E s \in SidArg, c \in COUNTS : Signaln(s, c)
             \/ TryGoesOn \/ TryMisses \/ SemLoad \/ SemStore \/ WaitPass \/ WaitFault
             \/ SignalReturn
      PROVE  Goal
  <2>1. UNCHANGED <<table, lists>>
    BY <1>7 DEF Wait, TryWait, SemFault, Signaln, Call, TryGoesOn, TryMisses, SemLoad,
                SemStore, WaitPass, WaitFault, SignalReturn, GoOn, Return
  <2> QED BY <2>1, <1>3
<1>8. ASSUME WaitBlock PROVE Goal
  BY <1>8, WaitBlockImplements DEF Goal
<1>9. ASSUME SignalYield PROVE Goal
  BY <1>9, SignalYieldImplements DEF Goal
<1>10. ASSUME SignalCheck PROVE Goal
  <2>1. state' = state /\ UNCHANGED lists
    BY <1>10, SignalCheckIs DEF SignalCheck
  <2> QED BY <2>1, <1>1 DEF lists
<1>11. ASSUME UNCHANGED allvars PROVE Goal
  BY <1>3, <1>11 DEF allvars
<1>12. ASSUME NEW s \in SidArg, NEW c \in COUNTS, SemRefused(s, c) PROVE Goal
  BY <1>11, <1>12 DEF SemRefused
<1>13. SemNext => Goal
  BY <1>2, <1>4, <1>5, <1>6, <1>7, <1>8, <1>9, <1>10, <1>12
     DEF SemNext, SemPrimitive, SemStep
<1> QED BY <1>11, <1>13 DEF Goal

\* With the semaphores every step is still one of the life cycle of processes
\* or changes the status of none: a process that blocks hands the processor
\* to a ready one and never becomes ready again (wait, signal, sdelete and
\* sreset of sem.c).
THEOREM SemLifecycleImplemented == SemSpec => ImplementsLifecycle
<1>1. SemInit => Life!LifeInit
  BY InitImplements, ConstantsAssumption DEF SemInit
<1>2. SemInv /\ [SemNext]_allvars =>
        [Life!LifeStep]_([p \in Pid |-> StatusOf(p)])
  BY SemNextImplements, StatusIsMapped, ConstantsAssumption, SemConstants DEF Life!LifeStep
<1> QED BY <1>1, <1>2, SemInvHolds, PTL
        DEF SemSpec, ImplementsLifecycle, Life!LifeSpec

-----------------------------------------------------------------------------
(* A semaphore used as a lock, by any number of processes *)

\* The units of a process at point that have left the counter and not reached
\* the process that waits, or left the one that signals and not reached the
\* counter.
Pending(point, f) ==
  IF point = "sem_check" /\ f.op = "wait" THEN 1
  ELSE IF point \in {"sem_load", "sem_store"} /\ f.op = "signaln" THEN f.left
  ELSE IF point = "sem_check" /\ f.op = "signaln" THEN f.left - 1
  ELSE 0

InFlight == Pending(pc[chosen], Mine)

\* The counter v and the processes in set s leave n units of one.
Shared(v, s, n) == v + Cardinality(s) + n <= 1

\* The lock is the only semaphore; its value, the processes inside and what
\* is in flight share one unit, of which the blocked processes leave a debt.
LockInv ==
  /\ SemInv
  /\ IsFiniteSet(inside) /\ Len(sems) <= 1
  /\ sems = << >> => inside = {}
  /\ ~torn => /\ Cardinality(inside) <= 1
              /\ \A i \in DOMAIN sems : Shared(sems[i].val, inside, InFlight)

\* The steps of the users of the lock are steps of the semaphores.
LEMMA ElsewhereIsNext ==
  ASSUME ConstantsAssumption, Elsewhere
  PROVE  Next /\ SemsAside
<1>1. Prio \subseteq PrioArg
  BY DEF Prio, PrioArg, ConstantsAssumption
<1>2. ASSUME NEW pr \in Prio, Boot(pr) \/ Start(pr) PROVE Next
  BY <1>1, <1>2 DEF Next, Primitive
<1>3. ASSUME \/ \E v \in RETVALS : Exit(v)
             \/ \E k \in PidArg : Kill(k)
      PROVE  Next
  BY <1>3, Zenon DEF Next, Primitive
<1>4. ASSUME StartReturn \/ KillReturn \/ TickReturn \/ Tick \/ Sti \/ Cli PROVE Next
  BY <1>4, Zenon DEF Next, Primitive, Resume
<1> QED BY <1>2, <1>3, <1>4, Zenon DEF Elsewhere

LEMMA MutexIsSem ==
  ASSUME ConstantsAssumption, [MutexNext]_mutexvars
  PROVE  [SemNext]_allvars
<1>1. Lock \in SidArg /\ 1 \in COUNTS
  BY LockCount, SemConstants DEF Lock, SidArg, SemConstants
<1>2. CASE MakeLock \/ Enter \/ Leave
  BY <1>1, <1>2 DEF MakeLock, Enter, Leave, SemNext, SemPrimitive
<1>3. CASE Entered \/ Going
  BY <1>3 DEF Entered, Going, SemNext, SemStep
<1>4. CASE Elsewhere
  BY <1>4, ElsewhereIsNext DEF SemNext
<1>5. CASE UNCHANGED mutexvars
  BY <1>5 DEF mutexvars
<1> QED BY <1>2, <1>3, <1>4, <1>5 DEF MutexNext

LEMMA InsideCard ==
  ASSUME LockInv, NEW p
  PROVE  /\ IsFiniteSet(inside) /\ Cardinality(inside) \in Nat
         /\ IsFiniteSet(inside \cup {p}) /\ Cardinality(inside \cup {p}) \in Nat
         /\ Cardinality(inside \cup {p}) <= Cardinality(inside) + 1
         /\ IsFiniteSet(inside \ {p})
         /\ p \in inside => Cardinality(inside \ {p}) = Cardinality(inside) - 1
<1>1. IsFiniteSet(inside)
  BY DEF LockInv
<1>2. Cardinality(inside) \in Nat
  BY <1>1, FS_CardinalityType
<1>3. /\ IsFiniteSet(inside \cup {p})
      /\ \/ Cardinality(inside \cup {p}) = Cardinality(inside)
         \/ Cardinality(inside \cup {p}) = Cardinality(inside) + 1
  BY <1>1, FS_AddElement
<1>4. /\ IsFiniteSet(inside \ {p})
      /\ p \in inside => Cardinality(inside \ {p}) = Cardinality(inside) - 1
  BY <1>1, FS_RemoveElement
<1> QED BY <1>1, <1>2, <1>3, <1>4

\* A process in one of the SemSteps works on the lock; while no process has
\* lost the processor there, the accounts are those of the lock.
LEMMA LockSpot ==
  ASSUME ConstantsAssumption, SemConstants, LockInv, pc[chosen] \in SemSteps
  PROVE  /\ DOMAIN sems = {1} /\ Cour = 1 /\ Counter = sems[1].val
         /\ Counter \in Int /\ Counter \in VAL_MIN..VAL_MAX
         /\ ~torn => /\ AccountOf(pc[chosen], Mine, Counter)
                     /\ Shared(Counter, inside, InFlight)
                     /\ Cardinality(inside) <= 1
<1>1. pc[chosen] \in Spots
  BY DEF Spots
<1>2. Cour \in DOMAIN sems /\ Counter \in Int /\ Counter \in VAL_MIN..VAL_MAX
  BY <1>1, SpotIs DEF LockInv
<1>3. DOMAIN sems = {1} /\ Cour = 1
  <2>1. Len(sems) \in Nat /\ DOMAIN sems = 1..Len(sems) /\ Len(sems) <= 1
    BY LenIs DEF LockInv, SemInv
  <2>2. Len(sems) = 1
    BY <1>2, <2>1
  <2> QED BY <1>2, <2>1, <2>2
<1>4. ~torn => AccountOf(pc[chosen], Mine, Counter)
  BY <1>1, SpotIs DEF LockInv
<1>5. Counter = sems[1].val
  BY <1>3 DEF Counter
<1> QED BY <1>2, <1>3, <1>4, <1>5 DEF LockInv

\* What the users of the lock must leave when they move.
LockGoal ==
  /\ IsFiniteSet(inside') /\ Len(sems') <= 1
  /\ sems' = << >> => inside' = {}
  /\ ~torn' => /\ Cardinality(inside') <= 1
               /\ \A i \in DOMAIN sems' : Shared(sems'[i].val, inside', InFlight')

\* The counter of the lock becomes v, which may be what it was.
LEMMA LockStored ==
  ASSUME ConstantsAssumption, SemConstants, LockInv, pc[chosen] \in SemSteps,
         NEW v \in VAL_MIN..VAL_MAX, sems' = [sems EXCEPT ![Cour].val = v],
         IsFiniteSet(inside'), torn' = torn,
         ~torn => Cardinality(inside') <= 1 /\ Shared(v, inside', InFlight')
  PROVE  LockGoal
<1>1. DOMAIN sems = {1} /\ Cour = 1
  BY LockSpot
<1>2. sems \in Seq(SemRecord) /\ Len(sems) <= 1
  BY DEF LockInv, SemInv, SemTyped, SemRecord
<1>3. PICK r : r = [sems[1] EXCEPT !.val = v]
  OBVIOUS
<1>4. r \in SemRecord /\ r.val = v
  BY <1>1, <1>3, NewValue DEF LockInv, SemInv
<1>5. sems' = [sems EXCEPT ![1] = r]
  BY <1>1, <1>3
<1>6. DOMAIN sems' = {1} /\ Len(sems') <= 1 /\ sems'[1] = r
  <2>1. 1 \in DOMAIN sems
    BY <1>1
  <2>2. /\ Len(sems') = Len(sems) /\ DOMAIN sems' = DOMAIN sems
        /\ sems'[1] = r
    BY <1>2, <1>4, <1>5, <2>1
  <2> QED BY <1>1, <1>2, <2>2
<1>7. sems' # << >>
  <2>1. DOMAIN << >> = 1..0
    OBVIOUS
  <2>2. 1 \in DOMAIN sems' /\ 1 \notin 1..0
    BY <1>6
  <2> QED BY <2>1, <2>2, Zenon
<1> QED BY <1>4, <1>6, <1>7 DEF LockGoal

\* The semaphores and the processes inside stay as they are, and so does what
\* is in flight.
LEMMA LockKept ==
  ASSUME LockInv, sems' = sems, inside' = inside, torn => torn',
         ~torn' => InFlight' = InFlight
  PROVE  LockGoal
BY DEF LockGoal, LockInv

\* What is in flight after a step of the running process.
LEMMA FlightNext ==
  ASSUME ConstantsAssumption, SemInv, NEW point, NEW f,
         pc' = [pc EXCEPT ![chosen] = point], frame' = [frame EXCEPT ![chosen] = f],
         chosen' = chosen
  PROVE  InFlight' = Pending(point, f)
<1>1. pc'[chosen'] = point /\ Mine' = f
  BY Facts DEF SemInv, IInv, TypeOK, SemTyped, Mine
<1> QED BY <1>1 DEF InFlight

LEMMA PendingIs ==
  ASSUME NEW f
  PROVE  /\ Pending("user", f) = 0 /\ Pending("sem_test", f) = 0
         /\ Pending("sem_yield", f) = 0
         /\ f.op = "signaln" => /\ Pending("sem_load", f) = f.left
                                /\ Pending("sem_store", f) = f.left
                                /\ Pending("sem_check", f) = f.left - 1
         /\ f.op # "signaln" => Pending("sem_load", f) = 0 /\ Pending("sem_store", f) = 0
         /\ f.op = "wait" => Pending("sem_check", f) = 1
BY DEF Pending

LEMMA MakeLockStep ==
  ASSUME ConstantsAssumption, SemConstants, LockInv, MakeLock
  PROVE  LockGoal
<1> DEFINE r == [sid |-> nb_sem' - 1, val |-> 1, p_bloques |-> << >>]
<1>1. /\ nb_sem = 0 /\ inside' = inside /\ UNCHANGED vars /\ AtUser
      /\ sems' = IF nb_sem' > NBSEMS \/ 1 < 0 THEN sems ELSE Append(sems, r)
  BY DEF MakeLock, Screate
<1>2. sems = << >> /\ inside = {}
  BY <1>1, LenIs DEF LockInv, SemInv, SemTyped
<1>7. r.val = 1
  OBVIOUS
<1> HIDE DEF r
<1>3. IsFiniteSet({}) /\ Cardinality({}) = 0
  BY FS_EmptySet
<1>4. InFlight' = 0
  BY <1>1 DEF InFlight, Pending, AtUser, Running, vars, lists, ctx
<1>5. sems' = << >> \/ sems' = <<r>>
  BY <1>1, <1>2
<1>6. Len(sems') <= 1 /\ \A i \in DOMAIN sems' : sems'[i].val = 1
  <2>1. CASE sems' = << >>
    BY <2>1
  <2>2. CASE sems' = <<r>>
    <3>1. Len(sems') = 1 /\ DOMAIN sems' = 1..1 /\ sems'[1] = r
      BY <2>2
    <3> QED BY <3>1, <1>7
  <2> QED BY <1>5, <2>1, <2>2
<1> QED BY <1>1, <1>2, <1>3, <1>4, <1>6 DEF LockGoal, Shared

LEMMA EnterStep ==
  ASSUME ConstantsAssumption, SemConstants, LockInv, Enter
  PROVE  LockGoal
<1>1. PICK f \in {[op |-> "wait", reg |-> 0, left |-> 0],
                  [op |-> "try_wait", reg |-> 0, left |-> 0]},
           point \in {"sem_load", "sem_test"} :
        /\ pc' = [pc EXCEPT ![chosen] = point]
        /\ frame' = [frame EXCEPT ![chosen] = f]
  BY DEF Enter, Wait, TryWait, Call, ResumeAt
<1>2. /\ chosen' = chosen /\ sems' = sems /\ inside' = inside /\ torn' = torn
      /\ pc[chosen] = "user"
  BY DEF Enter, Wait, TryWait, Call, AtUser, Running, lists
<1>3. InFlight' = Pending(point, f)
  BY <1>1, <1>2, FlightNext DEF LockInv
<1>4. InFlight' = 0 /\ InFlight = 0
  BY <1>1, <1>2, <1>3 DEF Pending, InFlight
<1> QED BY <1>2, <1>4, LockKept

LEMMA LeaveStep ==
  ASSUME ConstantsAssumption, SemConstants, LockInv, Leave
  PROVE  LockGoal
<1> DEFINE f == [op |-> "signaln", reg |-> 0, left |-> 1]
<1>1. /\ pc' = [pc EXCEPT ![chosen] = "sem_load"]
      /\ frame' = [frame EXCEPT ![chosen] = f]
      /\ chosen' = chosen /\ sems' = sems /\ torn' = torn /\ pc[chosen] = "user"
      /\ chosen \in inside /\ inside' = inside \ {chosen}
  BY DEF Leave, Signaln, Call, ResumeAt, AtUser, Running, lists
<1>2. InFlight' = 1 /\ InFlight = 0
  <2>1. InFlight' = Pending("sem_load", f)
    BY <1>1, FlightNext DEF LockInv
  <2> QED BY <1>1, <2>1 DEF Pending, InFlight
<1>3. /\ IsFiniteSet(inside') /\ Cardinality(inside) \in Nat
      /\ Cardinality(inside') = Cardinality(inside) - 1
  BY <1>1, InsideCard
<1>4. \A i \in DOMAIN sems : sems[i].val \in Int
  BY SemIs DEF LockInv, SemInv
<1>5. ASSUME ~torn, NEW i \in DOMAIN sems
      PROVE  Shared(sems[i].val, inside', InFlight')
  BY <1>2, <1>3, <1>4, <1>5 DEF LockInv, Shared
<1>6. sems = << >> => inside' = {}
  BY <1>1 DEF LockInv
<1>7. ~torn => Cardinality(inside') <= 1
  BY <1>3 DEF LockInv
<1> QED BY <1>1, <1>3, <1>5, <1>6, <1>7 DEF LockGoal, LockInv

\* A return from a primitive.
LEMMA ReturnFlight ==
  ASSUME ConstantsAssumption, SemInv, NEW point, Return(point)
  PROVE  InFlight' = 0 /\ pc[chosen] = point /\ torn' = torn /\ chosen \in Pid
<1>1. /\ pc' = [pc EXCEPT ![chosen] = "user"] /\ chosen' = chosen
      /\ frame' = [frame EXCEPT ![chosen] = NoFrame] /\ pc[chosen] = point
      /\ torn' = torn
  BY DEF Return, FinishFrom, Running, lists
<1> QED BY <1>1, FlightNext, PendingIs, Facts DEF SemInv

LEMMA EnteredStep ==
  ASSUME ConstantsAssumption, SemConstants, LockInv, Entered
  PROVE  LockGoal
<1>1. inside' = inside \cup {chosen}
  BY DEF Entered
<1>2. /\ IsFiniteSet(inside') /\ Cardinality(inside) \in Nat
      /\ Cardinality(inside') \in Nat
      /\ Cardinality(inside') <= Cardinality(inside) + 1
  BY <1>1, InsideCard
<1>3. CASE WaitPass
  <2>1. /\ Return("sem_check") /\ Mine.op = "wait" /\ Counter >= 0 /\ sems' = sems
    BY <1>3 DEF WaitPass
  <2>2. InFlight' = 0 /\ pc[chosen] = "sem_check" /\ torn' = torn
    BY <2>1, ReturnFlight DEF LockInv
  <2>3. pc[chosen] \in SemSteps /\ pc[chosen] \in Spots
    BY <2>2 DEF SemSteps, Spots
  <2>4. InFlight = 1
    BY <2>1, <2>2, PendingIs DEF InFlight
  <2>5. /\ Counter \in VAL_MIN..VAL_MAX /\ Counter \in Int
        /\ ~torn => Shared(Counter, inside, InFlight)
    BY <2>3, LockSpot
  <2>6. ~torn => Cardinality(inside') <= 1 /\ Shared(Counter, inside', InFlight')
    BY <1>2, <2>1, <2>2, <2>4, <2>5 DEF Shared
  <2>7. sems' = [sems EXCEPT ![Cour].val = Counter]
    BY <2>1, <2>3, SpotIs DEF LockInv
  <2> QED BY <1>2, <2>2, <2>3, <2>5, <2>6, <2>7, LockStored
<1>4. CASE TryMisses
  <2>1. Return("sem_test") /\ Counter <= 0 /\ sems' = sems
    BY <1>4 DEF TryMisses
  <2>2. pc[chosen] = "sem_test" /\ torn' = torn
    BY <2>1, ReturnFlight DEF LockInv
  <2>3. pc[chosen] \in SemSteps /\ pc[chosen] \in Spots
    BY <2>2 DEF SemSteps, Spots
  <2>4. /\ Counter \in VAL_MIN..VAL_MAX /\ Counter \in Int
        /\ ~torn => AccountOf(pc[chosen], Mine, Counter)
    BY <2>3, LockSpot
  <2>5. torn
    BY <2>1, <2>2, <2>4 DEF AccountOf
  <2>6. sems' = [sems EXCEPT ![Cour].val = Counter]
    BY <2>1, <2>3, SpotIs DEF LockInv
  <2> QED BY <1>2, <2>2, <2>3, <2>4, <2>5, <2>6, LockStored
<1>5. CASE SemStore /\ Mine.op = "try_wait"
  <2>0. PICK v : v = Result(Mine)
    OBVIOUS
  <2>1. Return("sem_store") /\ sems' = [sems EXCEPT ![Cour].val = v]
    BY <1>5, <2>0 DEF SemStore
  <2>2. InFlight' = 0 /\ pc[chosen] = "sem_store" /\ torn' = torn
    BY <2>1, ReturnFlight DEF LockInv
  <2>3. pc[chosen] \in SemSteps /\ pc[chosen] \in Spots
    BY <2>2 DEF SemSteps, Spots
  <2>4. InFlight = 0
    BY <1>5, <2>2, PendingIs DEF InFlight
  <2>5. /\ Counter \in Int /\ Counter \in VAL_MIN..VAL_MAX
        /\ ~torn => /\ Shared(Counter, inside, InFlight)
                    /\ AccountOf(pc[chosen], Mine, Counter)
    BY <2>3, LockSpot
  <2>6. v = Less(Mine.reg) /\ Mine.reg \in VAL_MIN..VAL_MAX
    BY <1>5, <2>0, FrameIs DEF Result, LockInv, SemInv
  <2>7. v \in VAL_MIN..VAL_MAX
    BY <2>6, ShortArithmetic
  <2>8. ASSUME ~torn PROVE Cardinality(inside') <= 1 /\ Shared(v, inside', InFlight')
    <3>1. Counter > 0 /\ Mine.reg = Counter
      BY <1>5, <2>2, <2>5, <2>8 DEF AccountOf
    <3>2. v = Counter - 1
      BY <2>5, <2>6, <3>1, ShortArithmetic DEF SemConstants
    <3> QED BY <1>2, <2>2, <2>4, <2>5, <2>8, <3>1, <3>2 DEF Shared
  <2> QED BY <1>2, <2>1, <2>2, <2>3, <2>7, <2>8, LockStored
<1> QED BY <1>3, <1>4, <1>5 DEF Entered

\* The steps of a primitive by which the running process goes on.
LEMMA GoOnFlight ==
  ASSUME ConstantsAssumption, SemInv, NEW point, GoOn(point), NEW f,
         frame' = [frame EXCEPT ![chosen] = f]
  PROVE  InFlight' = Pending(point, f) /\ torn' = torn
<1>1. pc' = [pc EXCEPT ![chosen] = point] /\ chosen' = chosen /\ torn' = torn
  BY DEF GoOn, lists
<1> QED BY <1>1, FlightNext

LEMMA GoesOnStep ==
  ASSUME ConstantsAssumption, SemConstants, LockInv, inside' = inside,
         TryGoesOn \/ SemLoad \/ (TryMisses /\ Counter = VAL_MIN)
  PROVE  LockGoal
<1>1. sems' = sems /\ pc[chosen] \in {"sem_test", "sem_load"}
  BY DEF TryGoesOn, SemLoad, TryMisses, Return, FinishFrom, Running
<1>2. pc[chosen] \in SemSteps /\ pc[chosen] \in Spots
  BY <1>1 DEF SemSteps, Spots
<1>3. ShapeOf(pc[chosen], Cour, Mine, Len(sems))
  BY <1>2, SpotIs DEF LockInv
<1>4. CASE TryGoesOn
  <2>1. GoOn("sem_load") /\ frame' = [frame EXCEPT ![chosen] = Mine]
        /\ pc[chosen] = "sem_test"
    BY <1>4 DEF TryGoesOn, Running, Mine, LockInv, SemInv, SemTyped
  <2>2. Mine.op = "try_wait"
    BY <1>3, <2>1 DEF ShapeOf
  <2>3. InFlight' = Pending("sem_load", Mine) /\ torn' = torn
    BY <2>1, GoOnFlight DEF LockInv
  <2>4. InFlight' = InFlight
    BY <2>1, <2>2, <2>3, PendingIs DEF InFlight
  <2> QED BY <1>1, <2>3, <2>4, LockKept
<1>5. CASE SemLoad
  <2> DEFINE f == [Mine EXCEPT !.reg = Counter]
  <2>1. GoOn("sem_store") /\ frame' = [frame EXCEPT ![chosen] = f]
        /\ pc[chosen] = "sem_load"
    BY <1>5 DEF SemLoad, Running, Mine
  <2>2. InFlight' = Pending("sem_store", f) /\ torn' = torn
    BY <2>1, GoOnFlight DEF LockInv
  <2>3. f.op = Mine.op /\ f.left = Mine.left
    BY FrameIs DEF LockInv, SemInv, Frames
  <2>4. InFlight' = InFlight
    BY <2>1, <2>2, <2>3, PendingIs DEF InFlight
  <2> QED BY <1>1, <2>2, <2>4, LockKept
<1>6. CASE TryMisses
  <2>1. InFlight' = 0 /\ pc[chosen] = "sem_test" /\ torn' = torn
    BY <1>6, ReturnFlight DEF TryMisses, LockInv
  <2> QED BY <1>1, <2>1, PendingIs, LockKept DEF InFlight
<1> QED BY <1>4, <1>5, <1>6

LEMMA LockStore ==
  ASSUME ConstantsAssumption, SemConstants, LockInv, inside' = inside,
         SemStore, Mine.op # "try_wait"
  PROVE  LockGoal
<1> DEFINE f == [Mine EXCEPT !.reg = 0]
<1>0. PICK v : v = Result(Mine)
  OBVIOUS
<1>1. /\ GoOn("sem_check") /\ frame' = [frame EXCEPT ![chosen] = f]
      /\ pc[chosen] = "sem_store" /\ sems' = [sems EXCEPT ![Cour].val = v]
  BY <1>0 DEF SemStore, Running, Mine
<1>2. pc[chosen] \in SemSteps /\ pc[chosen] \in Spots
  BY <1>1 DEF SemSteps, Spots
<1>3. /\ Counter \in Int /\ Counter \in VAL_MIN..VAL_MAX
      /\ ~torn => /\ Shared(Counter, inside, InFlight) /\ Cardinality(inside) <= 1
                  /\ AccountOf("sem_store", Mine, Counter)
  BY <1>1, <1>2, LockSpot
<1>4. /\ Mine.reg \in VAL_MIN..VAL_MAX /\ Mine.left \in Nat
      /\ f.op = Mine.op /\ f.left = Mine.left
      /\ Mine.op \in {"wait", "signaln"}
      /\ Mine.op = "signaln" => Mine.left > 0
  BY <1>1, <1>2, SpotIs, FrameIs DEF LockInv, SemInv, Frames, ShapeOf
<1>5. InFlight' = Pending("sem_check", f) /\ torn' = torn
  BY <1>1, GoOnFlight DEF LockInv
<1> HIDE DEF f
<1>6. v \in VAL_MIN..VAL_MAX
  BY <1>0, <1>4, ShortArithmetic DEF Result
<1>7. Cardinality(inside) \in Nat /\ IsFiniteSet(inside) /\ VAL_MAX \in Nat
  BY InsideCard DEF SemConstants
<1>8. ASSUME ~torn PROVE Shared(v, inside, InFlight')
  <2>1. Mine.reg = Counter
    BY <1>3, <1>8 DEF AccountOf
  <2>2. CASE Mine.op = "wait"
    <3>1. InFlight = 0 /\ InFlight' = 1
      BY <1>1, <1>4, <1>5, <2>2, PendingIs DEF InFlight
    <3>2. Counter > VAL_MIN /\ v = Less(Counter)
      BY <1>0, <1>3, <1>8, <2>1, <2>2 DEF AccountOf, Result
    <3>3. v = Counter - 1
      BY <1>3, <3>2, ShortArithmetic
    <3> QED BY <1>3, <1>7, <1>8, <3>1, <3>3 DEF Shared
  <2>3. CASE Mine.op = "signaln"
    <3>1. InFlight = Mine.left /\ InFlight' = Mine.left - 1
      BY <1>1, <1>4, <1>5, <2>3, PendingIs DEF InFlight
    <3>2. Counter + Mine.left <= VAL_MAX /\ v = More(Counter)
      BY <1>0, <1>3, <1>8, <2>1, <2>3 DEF AccountOf, Result
    <3>3. Counter < VAL_MAX
      BY <1>3, <1>4, <1>7, <2>3, <3>2
    <3>4. v = Counter + 1
      BY <1>3, <3>2, <3>3, ShortArithmetic
    <3> QED BY <1>3, <1>4, <1>7, <1>8, <3>1, <3>4 DEF Shared
  <2> QED BY <1>4, <2>2, <2>3
<1> QED BY <1>1, <1>2, <1>3, <1>5, <1>6, <1>7, <1>8, LockStored

LEMMA LockCheck ==
  ASSUME ConstantsAssumption, SemConstants, LockInv, inside' = inside, SignalCheck
  PROVE  LockGoal
<1> DEFINE f     == [Mine EXCEPT !.left = Mine.left - 1]
           point == IF Mine.left = 1 THEN "sem_yield" ELSE "sem_load"
<1>1. /\ pc[chosen] = "sem_check" /\ Mine.op = "signaln" /\ sems' = sems
      /\ frame' = [frame EXCEPT ![chosen] = f] /\ GoOn(point)
  BY SignalCheckIs DEF LockInv
<1>2. InFlight' = Pending(point, f) /\ torn' = torn
  BY <1>1, GoOnFlight DEF LockInv
<1>3. f.op = "signaln" /\ f.left = Mine.left - 1 /\ Mine.left \in Nat
  BY <1>1, FrameIs DEF LockInv, SemInv, Frames
<1>4. InFlight = Mine.left - 1
  BY <1>1, PendingIs DEF InFlight
<1> HIDE DEF f
<1>5. InFlight' = InFlight
  BY <1>2, <1>3, <1>4, PendingIs
<1> QED BY <1>1, <1>2, <1>5, LockKept

\* Once the running process has left the SemSteps nothing is in flight.
LEMMA NoneInFlight ==
  ASSUME SemInv, ~torn, chosen' \in Pid, pc'[chosen'] \in SemSteps => pc'[chosen'] = pc[chosen'],
         pc[chosen] \in SemSteps => pc'[chosen] \notin SemSteps
  PROVE  InFlight' = 0
<1>1. pc'[chosen'] \notin SemSteps
  BY DEF SemInv, Alone
<1> QED BY <1>1 DEF InFlight, Pending, SemSteps

LEMMA LockYield ==
  ASSUME ConstantsAssumption, SemConstants, LockInv, SemInv', inside' = inside,
         WaitBlock \/ SignalYield \/ SignalReturn
  PROVE  LockGoal
<1>1. PICK point \in {"wait", "signal", "user"} : pc' = [pc EXCEPT ![chosen] = point]
  BY DEF WaitBlock, SignalYield, SignalReturn, FinishFrom, ResumeAt
<1>2. /\ torn' = torn /\ sems' = sems
      /\ pc[chosen] \in {"sem_check", "sem_yield", "signal"}
      /\ pc[chosen] = "sem_check" => Mine.op = "wait" /\ Counter < 0
  <2>1. CASE WaitBlock
    <3>1. pc[chosen] \in Spots
      BY <2>1 DEF WaitBlock, Running, Spots, SemSteps
    <3>2. Cour \in DOMAIN sems /\ sems[Cour].p_bloques = << >>
      BY <3>1, SpotIs DEF LockInv
    <3>3. sems' = [sems EXCEPT ![Cour].p_bloques = sems[Cour].p_bloques]
      BY <2>1 DEF WaitBlock, add_proc_bloque
    <3>4. sems' = sems
      BY <3>2, <3>3, SameStored DEF LockInv, SemInv
    <3> QED BY <2>1, <3>4 DEF WaitBlock, Running
  <2>2. CASE SignalYield \/ SignalReturn
    BY <2>2 DEF SignalYield, SignalReturn, FinishFrom, Running, semvars
  <2> QED BY <2>1, <2>2
<1>3. chosen' \in Pid /\ chosen \in Pid /\ \A p \in Pid : p # chosen => pc'[p] = pc[p]
  BY <1>1, Facts DEF LockInv, SemInv, IInv, TypeOK
<1>4. pc'[chosen] = point /\ point \notin SemSteps
  BY <1>1, Facts DEF LockInv, SemInv, IInv, TypeOK, SemSteps
<1>5. ~torn => InFlight' = 0
  BY <1>3, <1>4, NoneInFlight DEF LockInv
<1>6. CASE pc[chosen] = "sem_check"
  <2>1. pc[chosen] \in SemSteps /\ pc[chosen] \in Spots
    BY <1>6 DEF SemSteps, Spots
  <2>2. /\ Counter \in VAL_MIN..VAL_MAX /\ Counter \in Int
        /\ (~torn => Cardinality(inside) <= 1)
        /\ (~torn => Shared(Counter, inside, InFlight))
    BY <2>1, LockSpot
  <2>3. InFlight = 1
    BY <1>2, <1>6, PendingIs DEF InFlight
  <2>4. Cardinality(inside) \in Nat /\ IsFiniteSet(inside)
    BY InsideCard
  <2>5. ~torn => Shared(Counter, inside, InFlight')
    BY <1>5, <2>2, <2>3, <2>4 DEF Shared
  <2>6. sems' = [sems EXCEPT ![Cour].val = Counter]
    BY <1>2, <2>1, SpotIs DEF LockInv
  <2> QED BY <1>2, <2>1, <2>2, <2>4, <2>5, <2>6, LockStored
<1>7. CASE pc[chosen] # "sem_check"
  <2>1. InFlight = 0
    BY <1>2, <1>7 DEF InFlight, Pending
  <2> QED BY <1>2, <1>5, <2>1, LockKept
<1> QED BY <1>6, <1>7

LEMMA LockElsewhere ==
  ASSUME ConstantsAssumption, SemConstants, LockInv, SemInv',
         [SemNext]_allvars, Elsewhere, Next
  PROVE  LockGoal
<1>1. /\ inside' = inside /\ sems' = sems
      /\ torn' = (torn \/ (pc[chosen] \in SemSteps /\ chosen' # chosen))
      /\ frame' = [p \in Pid |-> IF pc'[p] = "exit" THEN NoFrame ELSE frame[p]]
  BY DEF Elsewhere, SemsAside
<1>2. KeepsSpots /\ chosen' \in Pid /\ chosen \in Pid
  BY NextKeepsSpots, Facts DEF LockInv, SemInv, IInv, TypeOK
<1>3. torn => torn'
  BY <1>1
<1>4. ASSUME ~torn' PROVE InFlight' = InFlight
  <2>1. ~torn /\ (pc[chosen] \in SemSteps => chosen' = chosen)
    BY <1>1, <1>4
  <2>2. CASE pc[chosen] \in SemSteps
    <3>1. pc' = pc /\ chosen' = chosen
      BY <1>2, <2>1, <2>2 DEF KeepsSpots, Spots
    <3>2. pc[chosen] # "exit"
      BY <2>2 DEF SemSteps
    <3>3. frame'[chosen'] = frame[chosen]
      BY <1>1, <1>2, <3>1, <3>2
    <3> QED BY <3>1, <3>3 DEF InFlight, Mine
  <2>3. CASE pc[chosen] \notin SemSteps
    <3>1. InFlight = 0
      BY <2>3 DEF InFlight, Pending, SemSteps
    <3>2. pc'[chosen'] \in SemSteps => pc'[chosen'] = pc[chosen']
      BY <1>2 DEF KeepsSpots, Spots
    <3>3. InFlight' = 0
      BY <1>2, <2>1, <2>3, <3>2, NoneInFlight DEF LockInv
    <3> QED BY <3>1, <3>3
  <2> QED BY <2>2, <2>3
<1> QED BY <1>1, <1>3, <1>4, LockKept

LEMMA MutexStep ==
  ASSUME ConstantsAssumption, SemConstants, LockInv, [MutexNext]_mutexvars
  PROVE  LockInv'
<1>1. [SemNext]_allvars
  BY MutexIsSem
<1>2. SemInv'
  BY <1>1, SemNextStep DEF SemGoal, LockInv
<1> SUFFICES LockGoal
  BY <1>2 DEF LockGoal, LockInv
<1>3. CASE MakeLock
  BY <1>3, MakeLockStep
<1>4. CASE Enter
  BY <1>4, EnterStep
<1>5. CASE Leave
  BY <1>5, LeaveStep
<1>6. CASE Entered
  BY <1>6, EnteredStep
<1>7. CASE Going
  <2>1. inside' = inside
    BY <1>7 DEF Going
  <2>2. CASE TryGoesOn \/ SemLoad \/ (TryMisses /\ Counter = VAL_MIN)
    BY <2>1, <2>2, GoesOnStep
  <2>3. CASE SemStore /\ Mine.op # "try_wait"
    BY <2>1, <2>3, LockStore
  <2>4. CASE SignalCheck
    BY <2>1, <2>4, LockCheck
  <2>5. CASE WaitBlock \/ SignalYield \/ SignalReturn
    BY <1>2, <2>1, <2>5, LockYield
  <2> QED BY <1>7, <2>2, <2>3, <2>4, <2>5, Zenon DEF Going
<1>8. CASE Elsewhere
  BY <1>1, <1>2, <1>8, ElsewhereIsNext, LockElsewhere
<1>9. CASE UNCHANGED mutexvars
  <2>1. UNCHANGED <<sems, inside, torn, pc, chosen, frame>>
    BY <1>9 DEF mutexvars, allvars, semvars, vars, ctx, lists
  <2>2. InFlight' = InFlight /\ torn' = torn /\ sems' = sems /\ inside' = inside
    BY <2>1 DEF InFlight, Mine
  <2> QED BY <2>2, LockKept
<1> QED BY <1>3, <1>4, <1>5, <1>6, <1>7, <1>8, <1>9, Zenon DEF MutexNext

\* At most one process is inside a critical section guarded by a semaphore
\* made with a count of 1, for any number of processes that also die, block
\* or are killed inside it, as long as no process loses the processor inside
\* wait, try_wait or signal (sem.c): when one does, two can be inside.
THEOREM LockExcludes == MutexSpec => []MutualExclusion
<1>1. MutexInit => LockInv
  <2> SUFFICES ASSUME MutexInit PROVE LockInv
    OBVIOUS
  <2>1. SemInv
    BY SemInitInv, ConstantsAssumption, SemConstants DEF MutexInit
  <2>2. sems = << >> /\ inside = {}
    BY DEF MutexInit, SemInit
  <2>3. IsFiniteSet({}) /\ Cardinality({}) = 0
    BY FS_EmptySet
  <2> QED BY <2>1, <2>2, <2>3 DEF LockInv
<1>2. LockInv /\ [MutexNext]_mutexvars => LockInv'
  BY MutexStep, ConstantsAssumption, SemConstants
<1>3. LockInv => MutualExclusion
  BY DEF LockInv, MutualExclusion, OneInside
<1> QED BY <1>1, <1>2, <1>3, PTL DEF MutexSpec
=============================================================================
