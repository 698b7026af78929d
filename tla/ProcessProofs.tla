--------------------------- MODULE ProcessProofs ---------------------------
(***************************************************************************)
(* Proofs about Process: its type invariant, the conservation of processes *)
(* between the lists, what no step does to a zombie, that one thing only   *)
(* spoils the order of process_list (giving another priority to a zombie   *)
(* that is still queued), and that Process implements ProcessLifecycle.    *)
(***************************************************************************)
EXTENDS ProcessRefinement, PrioQueueProofs

\* The pids above pidmax have never been given, and idle has done nothing
\* until it starts the first process.
Fresh ==
  /\ \A p \in Pid : p > pidmax => state[p] = "NONE"
  /\ \A p \in Pid \ {Idle} : pc[p] # "boot"
  /\ pc[Idle] = "boot" =>
       /\ pidmax = 0 /\ prio[Idle] = 1 /\ process_list = << >>
       /\ chosen = Idle /\ ~interrupted[Idle] /\ ~IFLAG

\* The inductive invariant.
IInv == TypeOK /\ Conservation /\ IdleReady /\ Fresh

-----------------------------------------------------------------------------
(* ordonnance *)

\* ordonnance elects the last element that is not a zombie, if there is one.
LEMMA ElectedStops ==
  ASSUME NEW S, NEW l \in Seq(S), NEW st
  PROVE  LET n == Elected(l, st)
         IN  /\ n \in 0..Len(l)
             /\ n > 0 => st[l[n]] # "ZOMBIE"
             /\ \A i \in n+1..Len(l) : st[l[i]] = "ZOMBIE"
<1> DEFINE T == {n \in 0..Len(l) : n > 0 => st[l[n]] # "ZOMBIE"}
<1>1. Len(l) \in Nat /\ 0 \in T /\ T \in SUBSET (0..Len(l))
  OBVIOUS
<1>2. PICK n \in T : \A i \in T : i <= n
  <2> HIDE DEF T
  <2> QED BY <1>1, GreatestOf
<1>3. \A i \in n+1..Len(l) : st[l[i]] = "ZOMBIE"
  BY <1>1, <1>2
<1>4. \E m \in 0..Len(l) :
        /\ m > 0 => st[l[m]] # "ZOMBIE"
        /\ \A i \in m+1..Len(l) : st[l[i]] = "ZOMBIE"
  BY <1>2, <1>3
<1> QED BY <1>4, Zenon DEF Elected

\* What the caller of ordonnance owes it: a list of the ready processes and
\* of zombies without repetition, no process but the caller marked CHOSEN,
\* and idle ready unless it is the caller.
Callable(l, st) ==
  /\ l \in Seq(Pid)
  /\ st \in [Pid -> States]
  /\ IsInjective(l)
  /\ \A p \in Range(l) : st[p] \in {"ACTIVABLE", "ZOMBIE"} /\ p # chosen
  /\ \A p \in toKill_list : st[p] = "ZOMBIE" /\ p \notin Range(l) /\ p # chosen
  /\ \A p \in Pid : st[p] = "ACTIVABLE" => p \in Range(l)
  /\ \A p \in Pid : st[p] = "CHOSEN" => p = chosen
  /\ IF chosen = Idle THEN st[Idle] = "CHOSEN" ELSE st[Idle] = "ACTIVABLE"

\* ordonnance conserves the processes, leaves idle ready, and neither makes
\* nor revives a zombie.
LEMMA OrdonnanceConserves ==
  ASSUME NEW l, NEW st, NEW pr \in [Pid -> Nat], ConstantsAssumption,
         TypeOK, Callable(l, st), Ordonnance(l, st, pr)
  PROVE  /\ process_list' \in Seq(Pid) /\ toKill_list' \subseteq Pid
         /\ chosen' \in Pid /\ state' \in [Pid -> States]
         /\ Conservation' /\ IdleReady'
         /\ \A p \in Pid : st[p] \in {"ZOMBIE", "NONE", "BLOCKED_ON_SEM"} => state'[p] = st[p]
<1> DEFINE n    == Elected(l, st)
           dead == {l[i] : i \in n+1..Len(l)}
           pre  == SubSeq(l, 1, n-1)
<1>1. /\ Idle \in Pid /\ chosen \in Pid /\ toKill_list \subseteq Pid
      /\ l \in Seq(Pid) /\ st \in [Pid -> States]
      /\ Len(l) \in Nat /\ Range(l) \subseteq Pid
      /\ \A i \in 1..Len(l) : l[i] \in Range(l)
  <2>1. Idle \in Pid
    BY DEF Idle, Pid, ConstantsAssumption
  <2>2. chosen \in Pid /\ toKill_list \subseteq Pid
    BY DEF TypeOK
  <2>3. l \in Seq(Pid) /\ st \in [Pid -> States]
    BY DEF Callable
  <2> QED BY <2>1, <2>2, <2>3 DEF Range
<1>2. /\ IsInjective(l)
      /\ \A p \in Range(l) : st[p] \in {"ACTIVABLE", "ZOMBIE"} /\ p # chosen
      /\ \A p \in toKill_list : st[p] = "ZOMBIE" /\ p \notin Range(l) /\ p # chosen
      /\ \A p \in Pid : st[p] = "ACTIVABLE" => p \in Range(l)
      /\ \A p \in Pid : st[p] = "CHOSEN" => p = chosen
      /\ chosen = Idle => st[Idle] = "CHOSEN"
      /\ chosen # Idle => st[Idle] = "ACTIVABLE"
  BY DEF Callable
<1>3. /\ n \in 0..Len(l)
      /\ n > 0 => st[l[n]] # "ZOMBIE"
      /\ \A i \in n+1..Len(l) : st[l[i]] = "ZOMBIE"
  BY <1>1, ElectedStops
<1>4. /\ toKill_list' = toKill_list \cup dead
                          \cup (IF n = 0 THEN {} ELSE Buried(chosen, st))
      /\ n = 0 => /\ process_list' = << >>
                  /\ state' = st
                  /\ chosen' = chosen
      /\ n # 0 => /\ process_list' = Requeued(chosen, pre, st, pr)
                  /\ state' = [st EXCEPT ![chosen] = Left(chosen, st),
                                         ![l[n]] = "CHOSEN"]
                  /\ chosen' = l[n]
  BY Zenon DEF Ordonnance
<1> HIDE DEF n
<1>5. dead \subseteq Range(l) /\ \A p \in dead : st[p] = "ZOMBIE"
  BY <1>1, <1>3
<1>6. CASE n = 0
  <2>1. Range(l) = dead
    BY <1>1, <1>6 DEF Range
  <2> HIDE DEF dead
  <2>2. \A p \in Pid : st[p] # "ACTIVABLE"
    BY <2>1, <1>2, <1>5
  <2>3. chosen = Idle /\ st[Idle] = "CHOSEN"
    BY <2>2, <1>1, <1>2
  <2>4. /\ process_list' = << >> /\ state' = st /\ chosen' = chosen
        /\ toKill_list' = toKill_list \cup dead
    BY <1>4, <1>6
  <2>5. /\ Range(process_list') = {} /\ IsInjective(process_list')
        /\ process_list' \in Seq(Pid)
    BY <2>4 DEF Range, IsInjective
  <2>6. Conservation'
    BY <2>2, <2>3, <2>4, <2>5, <1>2, <1>5 DEF Conservation
  <2> QED BY <2>3, <2>4, <2>5, <2>6, <1>1, <1>5 DEF IdleReady
<1>7. CASE n # 0
  <2> DEFINE back   == IF st[chosen] = "CHOSEN" THEN {chosen} ELSE {}
             buried == IF st[chosen] = "ZOMBIE" THEN {chosen} ELSE {}
  <2>1. /\ n \in 1..Len(l) /\ l[n] \in Pid /\ l[n] \in Range(l)
        /\ st[l[n]] = "ACTIVABLE" /\ l[n] # chosen
    BY <1>1, <1>2, <1>3, <1>7
  <2>2. /\ Range(l) = Range(pre) \cup {l[n]} \cup dead
        /\ l[n] \notin Range(pre) /\ l[n] \notin dead
        /\ \A p \in dead : p \notin Range(pre)
    BY <2>1, <1>1, <1>2, SplitAt, Zenon
  <2>3. pre \in Seq(Pid) /\ IsInjective(pre)
    <3>1. n - 1 \in 0..Len(l)
      BY <2>1
    <3>2. [p \in Pid |-> 0] \in [Pid -> Nat]
      OBVIOUS
    <3> QED BY <3>1, <3>2, <1>1, <1>2, PrefixPlaces, PrefixKeeps, Zenon
  <2> HIDE DEF pre, dead
  <2>4. /\ process_list' \in Seq(Pid)
        /\ Range(process_list') = Range(pre) \cup back
        /\ IsInjective(process_list')
    <3>1. process_list' = IF st[chosen] = "CHOSEN" THEN queue_add(chosen, pre, pr) ELSE pre
      BY <1>4, <1>7, Zenon DEF Requeued
    <3>2. chosen \notin Range(pre)
      BY <2>2, <1>2
    <3>3. CASE st[chosen] = "CHOSEN"
      <4>1. process_list' = queue_add(chosen, pre, pr) /\ back = {chosen}
        BY <3>1, <3>3
      <4>2. queue_add(chosen, pre, pr) \in Seq(Pid)
        BY <2>3, <1>1, AddPlaces
      <4>3. Range(queue_add(chosen, pre, pr)) = Range(pre) \cup {chosen}
        BY <2>3, <1>1, AddRange
      <4>4. IsInjective(queue_add(chosen, pre, pr))
        BY <2>3, <3>2, <1>1, AddInjective
      <4> QED BY <4>1, <4>2, <4>3, <4>4
    <3>4. CASE st[chosen] # "CHOSEN"
      BY <3>1, <3>4, <2>3
    <3> QED BY <3>3, <3>4
  <2>5. /\ state' \in [Pid -> States] /\ chosen' = l[n]
        /\ state'[l[n]] = "CHOSEN"
        /\ state'[chosen] = IF st[chosen] = "CHOSEN" THEN "ACTIVABLE" ELSE st[chosen]
        /\ \A p \in Pid : p # chosen /\ p # l[n] => state'[p] = st[p]
    BY <2>1, <1>1, <1>4, <1>7 DEF Left, States
  <2>6. toKill_list' = toKill_list \cup dead \cup buried
    BY <1>4, <1>7 DEF Buried
  <2>7. \A p \in Range(pre) \cup dead : p \in Pid /\ p # chosen /\ p # l[n]
    BY <2>2, <1>1, <1>2
  <2>8. \A p \in Range(process_list') : state'[p] \in {"ACTIVABLE", "ZOMBIE"}
    <3>1. \A p \in Range(pre) : state'[p] \in {"ACTIVABLE", "ZOMBIE"}
      BY <2>2, <2>5, <2>7, <1>2
    <3>2. \A p \in back : state'[p] = "ACTIVABLE"
      BY <2>5
    <3> QED BY <3>1, <3>2, <2>4
  <2>9. \A p \in toKill_list' : state'[p] = "ZOMBIE" /\ p \notin Range(process_list')
    <3>1. \A p \in toKill_list : p # l[n] /\ p # chosen /\ p \notin Range(pre)
      BY <2>1, <2>2, <1>2
    <3>2. \A p \in toKill_list \cup dead : state'[p] = "ZOMBIE"
      BY <3>1, <2>5, <2>7, <1>1, <1>2, <1>5
    <3>3. \A p \in buried : state'[p] = "ZOMBIE" /\ p \notin Range(pre) /\ p \notin back
      BY <2>5, <2>7
    <3>4. \A p \in toKill_list \cup dead : p \notin Range(pre) /\ p \notin back
      BY <3>1, <2>2, <2>7
    <3> HIDE DEF back, buried
    <3> QED BY <3>2, <3>3, <3>4, <2>4, <2>6
  <2>10. \A p \in Pid : state'[p] = "ACTIVABLE" => p \in Range(process_list')
    BY <2>1, <2>2, <2>4, <2>5, <1>2, <1>5
  <2>11. \A p \in Pid : state'[p] = "CHOSEN" <=> p = chosen'
    BY <2>1, <2>5, <1>2
  <2>12. IdleReady'
    BY <2>1, <2>5, <1>1, <1>2 DEF IdleReady
  <2>13. Conservation'
    BY <2>4, <2>8, <2>9, <2>10, <2>11 DEF Conservation
  <2>14. \A p \in Pid : st[p] \in {"ZOMBIE", "NONE", "BLOCKED_ON_SEM"} => state'[p] = st[p]
    BY <2>1, <2>5
  <2>15. toKill_list' \subseteq Pid
    BY <2>6, <2>7, <1>1
  <2> QED BY <2>1, <2>4, <2>5, <2>12, <2>13, <2>14, <2>15
<1> QED BY <1>6, <1>7

-----------------------------------------------------------------------------
(* The callers of ordonnance *)

\* What the typing and the conservation give about the lists.
LEMMA Facts ==
  ASSUME ConstantsAssumption, IInv
  PROVE  /\ Idle \in Pid /\ chosen \in Pid /\ state[chosen] = "CHOSEN"
         /\ prio \in [Pid -> Nat]
         /\ process_list \in Seq(Pid) /\ Range(process_list) \subseteq Pid
         /\ chosen \notin Range(process_list)
         /\ Callable(process_list, state)
<1>1. Idle \in Pid
  BY DEF Idle, Pid, ConstantsAssumption
<1>2. /\ chosen \in Pid /\ process_list \in Seq(Pid) /\ toKill_list \subseteq Pid
      /\ state \in [Pid -> States]
  BY DEF IInv, TypeOK
<1>3. prio \in [Pid -> Nat]
  <2>1. prio \in [Pid -> 0..MAXPRIO] /\ 0..MAXPRIO \subseteq Nat
    BY DEF IInv, TypeOK
  <2> QED BY <2>1
<1>4. Range(process_list) \subseteq Pid
  BY <1>2 DEF Range
<1>5. state[chosen] = "CHOSEN"
  BY <1>2 DEF IInv, Conservation
<1>6. \A p \in Range(process_list) \cup toKill_list : p # chosen
  BY <1>5 DEF IInv, Conservation
<1>7. IF chosen = Idle THEN state[Idle] = "CHOSEN" ELSE state[Idle] = "ACTIVABLE"
  BY <1>5 DEF IInv, IdleReady
<1> QED BY <1>1, <1>2, <1>3, <1>4, <1>5, <1>6, <1>7 DEF IInv, Conservation, Callable

\* A process other than idle may call ordonnance after it marked itself a
\* zombie or blocked.
LEMMA LeaverCalls ==
  ASSUME ConstantsAssumption, IInv, chosen # Idle,
         NEW s \in {"ZOMBIE", "BLOCKED_ON_SEM"}
  PROVE  Callable(process_list, [state EXCEPT ![chosen] = s])
BY Facts DEF Callable, States

\* It may also mark another process than idle a zombie, one in the queue.
LEMMA KillerCalls ==
  ASSUME ConstantsAssumption, IInv, chosen # Idle,
         NEW k \in Range(process_list), k # Idle
  PROVE  Callable(process_list, [state EXCEPT ![k] = "ZOMBIE"])
<1>1. k \in Pid /\ k # chosen /\ k \notin toKill_list
  BY Facts DEF IInv, Conservation
<1> QED BY <1>1, Facts DEF Callable, States

\* A process under a fresh pid may be queued before the call.
LEMMA StarterCalls ==
  ASSUME ConstantsAssumption, IInv,
         NEW c \in Pid, state[c] = "NONE", NEW pr \in Prio
  PROVE  Callable(queue_add(c, process_list, [prio EXCEPT ![c] = pr]),
                  [state EXCEPT ![c] = "ACTIVABLE"])
<1> DEFINE prio1 == [prio EXCEPT ![c] = pr]
           l     == queue_add(c, process_list, prio1)
<1>1. prio1 \in [Pid -> Nat]
  BY Facts DEF Prio
<1>2. c \notin Range(process_list) /\ c \notin toKill_list /\ c # chosen /\ c # Idle
  BY Facts DEF IInv, Conservation, IdleReady
<1> HIDE DEF prio1
<1>3. l \in Seq(Pid)
  BY <1>1, Facts, AddPlaces
<1>4. Range(l) = Range(process_list) \cup {c}
  BY <1>1, Facts, AddRange
<1>5. IsInjective(l)
  BY <1>1, <1>2, Facts, AddInjective DEF IInv, Conservation
<1> HIDE DEF l
<1>6. Callable(l, [state EXCEPT ![c] = "ACTIVABLE"])
  BY <1>2, <1>3, <1>4, <1>5, Facts DEF Callable, States
<1> QED BY <1>6 DEF l, prio1

\* The list chprio hands over holds the same processes as before.
LEMMA ChprioCalls ==
  ASSUME ConstantsAssumption, IInv, NEW newprio \in Prio, NEW k \in Pid,
         k \in Range(queue_add(chosen, process_list, prio))
  PROVE  LET l1    == queue_add(chosen, process_list, prio)
             prio1 == [prio EXCEPT ![k] = newprio]
             l2    == IF state[k] = "ACTIVABLE"
                      THEN queue_add(k, queue_del(k, l1), prio1) ELSE l1
         IN  /\ Callable(queue_del(chosen, l2), state)
             /\ Range(queue_del(chosen, l2)) = Range(process_list)
<1> DEFINE l1    == queue_add(chosen, process_list, prio)
           prio1 == [prio EXCEPT ![k] = newprio]
           d     == queue_del(k, l1)
           l2    == IF state[k] = "ACTIVABLE" THEN queue_add(k, d, prio1) ELSE l1
<1>1. prio1 \in [Pid -> Nat]
  BY Facts DEF Prio
<1>2. l1 \in Seq(Pid)
  BY Facts, AddPlaces
<1>3. Range(l1) = Range(process_list) \cup {chosen}
  BY Facts, AddRange
<1>4. IsInjective(l1)
  BY Facts, AddInjective DEF Callable
<1> HIDE DEF l1, prio1
<1>5. k \in Range(l1)
  BY DEF l1
<1>6. d \in Seq(Pid)
  BY <1>2, <1>5, DelPlaces
<1>7. Range(d) = Range(l1) \ {k} /\ IsInjective(d)
  BY <1>2, <1>4, <1>5, DelRange
<1> HIDE DEF d
<1>8. /\ queue_add(k, d, prio1) \in Seq(Pid)
      /\ Range(queue_add(k, d, prio1)) = Range(l1)
      /\ IsInjective(queue_add(k, d, prio1))
  <2>1. k \notin Range(d)
    BY <1>7
  <2>2. queue_add(k, d, prio1) \in Seq(Pid)
    BY <1>1, <1>6, AddPlaces
  <2>3. Range(queue_add(k, d, prio1)) = Range(d) \cup {k}
    BY <1>1, <1>6, AddRange
  <2>4. IsInjective(queue_add(k, d, prio1))
    BY <1>1, <1>6, <1>7, <2>1, AddInjective
  <2> QED BY <2>2, <2>3, <2>4, <1>5, <1>7
<1>9. l2 \in Seq(Pid) /\ Range(l2) = Range(l1) /\ IsInjective(l2)
  BY <1>2, <1>4, <1>8
<1> HIDE DEF l2
<1>10. chosen \in Range(l2)
  BY <1>3, <1>9
<1>11. queue_del(chosen, l2) \in Seq(Pid)
  BY <1>9, <1>10, DelPlaces
<1>12. Range(queue_del(chosen, l2)) = Range(l2) \ {chosen} /\ IsInjective(queue_del(chosen, l2))
  BY <1>9, <1>10, DelRange
<1>13. Range(queue_del(chosen, l2)) = Range(process_list)
  BY <1>3, <1>9, <1>12, Facts
<1>14. Callable(queue_del(chosen, l2), state)
  BY <1>11, <1>12, <1>13, Facts DEF Callable
<1> QED BY <1>13, <1>14, Zenon DEF l2, d, l1, prio1

-----------------------------------------------------------------------------
(* The steps.  Each keeps the inductive invariant, and each leaves the      *)
(* zombies what they are.                                                   *)

StaysDead ==
  \A p \in Pid : state[p] = "ZOMBIE" => state'[p] = "ZOMBIE" /\ retval'[p] = retval[p]

LEMMA InitInv ==
  ASSUME ConstantsAssumption, Init
  PROVE  IInv
<1>1. Idle \in Pid /\ Pid \subseteq Nat
  BY DEF Idle, Pid, ConstantsAssumption
<1>2. 1 \in 0..MAXPRIO /\ 0 \in 0..MAXPRIO
  BY DEF ConstantsAssumption
<1>3. TypeOK
  BY <1>1, <1>2 DEF Init, TypeOK, States, Points, Halts, Idle
<1>4. Range(process_list) = {} /\ IsInjective(process_list)
  BY DEF Init, Range, IsInjective
<1>5. Conservation
  BY <1>1, <1>4 DEF Init, Conservation
<1>6. IdleReady /\ Fresh
  BY <1>1 DEF Init, IdleReady, Fresh, Idle
<1> QED BY <1>3, <1>5, <1>6 DEF IInv

\* start and the boot, when the new pid names a slot of the table and the
\* boot switches to the new process.
LEMMA NewProcessStep ==
  ASSUME ConstantsAssumption, IInv, NEW pr \in Prio, pidmax + 1 \in Pid,
         NewProcess(pr), pc[Idle] = "boot" => prio[chosen] < pr
  PROVE  IInv' /\ StaysDead
<1> DEFINE c     == pidmax + 1
           prio1 == [prio EXCEPT ![c] = pr]
           st    == [state EXCEPT ![c] = "ACTIVABLE"]
           l     == queue_add(c, process_list, prio1)
<1>1. c \in Pid /\ state[c] = "NONE" /\ c # chosen /\ c # Idle /\ Pid \subseteq Nat
  <2>1. Pid \subseteq Nat /\ pidmax \in Nat
    BY DEF Pid, IInv, TypeOK
  <2>2. state[c] = "NONE"
    BY <2>1 DEF IInv, Fresh
  <2> QED BY <2>1, <2>2, Facts DEF Idle
<1>2. /\ pidmax' = c /\ prio' = prio1 /\ retval' = retval /\ IFLAG' = IFLAG
      /\ halted' = halted
      /\ children' = [children EXCEPT ![chosen] = @ \cup {c}]
      /\ IF prio[chosen] < pr
         THEN Ordonnance(l, st, prio1) /\ ResumeAt("start", c)
         ELSE /\ process_list' = l
              /\ state' = st
              /\ UNCHANGED <<toKill_list, chosen, ctx>>
  BY Zenon DEF NewProcess
<1>3. Callable(l, st)
  BY <1>1, StarterCalls, Zenon
<1>4. /\ pidmax' \in Pid /\ prio' \in [Pid -> 0..MAXPRIO] /\ prio' \in [Pid -> Nat]
      /\ retval' \in [Pid -> RETVALS \cup {0}] /\ children' \in [Pid -> SUBSET Pid]
      /\ IFLAG' \in BOOLEAN /\ halted' \in Halts
  <2>1. /\ pidmax' \in Pid /\ retval' \in [Pid -> RETVALS \cup {0}]
        /\ IFLAG' \in BOOLEAN /\ halted' \in Halts
    BY <1>1, <1>2 DEF IInv, TypeOK
  <2>2. prio' \in [Pid -> 0..MAXPRIO] /\ prio' \in [Pid -> Nat]
    BY <1>2, Facts DEF IInv, TypeOK, Prio
  <2>3. children' \in [Pid -> SUBSET Pid]
    BY <1>1, <1>2, Facts DEF IInv, TypeOK
  <2> QED BY <2>1, <2>2, <2>3
<1>5. st \in [Pid -> States] /\ \A p \in Pid : p # c => st[p] = state[p]
  BY <1>1 DEF IInv, TypeOK, States
<1>6. \A p \in Pid : p > pidmax' => st[p] = "NONE"
  BY <1>1, <1>2, <1>5 DEF IInv, Fresh, TypeOK
<1> HIDE DEF l, st, prio1
<1>7. CASE prio[chosen] < pr
  <2>1. Ordonnance(l, st, prio1)
    BY <1>2, <1>7
  <2>2. ResumeAt("start", c)
    BY <1>2, <1>7
  <2>3. /\ process_list' \in Seq(Pid) /\ toKill_list' \subseteq Pid
        /\ chosen' \in Pid /\ state' \in [Pid -> States]
        /\ Conservation' /\ IdleReady'
        /\ \A p \in Pid : st[p] \in {"ZOMBIE", "NONE", "BLOCKED_ON_SEM"} => state'[p] = st[p]
    <3>1. TypeOK /\ prio1 \in [Pid -> Nat]
      BY <1>2, <1>4 DEF IInv
    <3> QED BY <2>1, <3>1, <1>3, OrdonnanceConserves
  <2>4. /\ pc' \in [Pid -> Points] /\ local' \in [Pid -> Pid]
        /\ interrupted' \in [Pid -> BOOLEAN]
    BY <2>2, <1>1, Facts DEF ResumeAt, IInv, TypeOK, Points
  <2>5. TypeOK'
    BY <2>3, <2>4, <1>4 DEF TypeOK
  <2>6. Fresh'
    <3>1. \A p \in Pid : p > pidmax' => state'[p] = "NONE"
      BY <1>6, <2>3
    <3>2. /\ \A p \in Pid \ {Idle} : pc'[p] # "boot"
          /\ pc'[Idle] # "boot"
      BY <2>2, Facts DEF ResumeAt, IInv, TypeOK, Fresh
    <3> QED BY <3>1, <3>2 DEF Fresh
  <2>7. StaysDead
    BY <2>3, <1>1, <1>2, <1>5 DEF StaysDead
  <2> QED BY <2>3, <2>5, <2>6, <2>7 DEF IInv
<1>8. CASE ~(prio[chosen] < pr)
  <2>1. /\ process_list' = l /\ state' = st /\ toKill_list' = toKill_list
        /\ chosen' = chosen /\ pc' = pc /\ local' = local /\ interrupted' = interrupted
    BY <1>2, <1>8 DEF ctx
  <2>2. TypeOK'
    BY <2>1, <1>3, <1>4, <1>5 DEF IInv, TypeOK, Callable
  <2>3. Conservation' /\ IdleReady'
    BY <2>1, <1>1, <1>3, <1>5, Facts DEF Callable, Conservation, IdleReady, IInv
  <2>4. Fresh'
    BY <2>1, <1>6, <1>8 DEF Fresh, IInv
  <2>5. StaysDead
    BY <2>1, <1>1, <1>2, <1>5 DEF StaysDead
  <2> QED BY <2>2, <2>3, <2>4, <2>5 DEF IInv
<1> QED BY <1>7, <1>8

LEMMA StartStep ==
  ASSUME ConstantsAssumption, IInv, NEW pr \in PrioArg, Start(pr)
  PROVE  IInv' /\ StaysDead
<1>1. pr \in Prio /\ NewProcess(pr)
  BY DEF Start
<1>2. pidmax + 1 \in Pid
  BY DEF Start, Pid, IInv, TypeOK, ConstantsAssumption
<1>3. pc[Idle] # "boot"
  BY DEF Start, AtUser, Running, IInv, Fresh
<1> QED BY <1>1, <1>2, <1>3, NewProcessStep

LEMMA BootStep ==
  ASSUME ConstantsAssumption, IInv, NEW pr \in Prio, Boot(pr)
  PROVE  IInv' /\ StaysDead
<1>1. NewProcess(pr) /\ pr \in Prio \ {1} /\ pc[chosen] = "boot"
  BY DEF Boot, Running
<1>2. pc[Idle] = "boot"
  BY <1>1, Facts DEF IInv, Fresh
<1>3. pidmax + 1 \in Pid /\ prio[chosen] < pr
  BY <1>1, <1>2 DEF IInv, Fresh, Pid, ConstantsAssumption, Prio
<1> QED BY <1>1, <1>3, NewProcessStep

\* exit, kill, chprio and the clock: a call of ordonnance under states st in
\* which no zombie and no free pid has changed.
LEMMA SwitchStep ==
  ASSUME ConstantsAssumption, IInv,
         NEW l, NEW st, NEW pr \in [Pid -> Nat], Callable(l, st),
         Ordonnance(l, st, pr),
         \A p \in Pid : state[p] \in {"ZOMBIE", "NONE"} => st[p] = state[p],
         UNCHANGED <<pidmax, children, halted>>,
         prio' \in [Pid -> 0..MAXPRIO], retval' \in [Pid -> RETVALS \cup {0}],
         \A p \in Pid : state[p] = "ZOMBIE" => retval'[p] = retval[p],
         IFLAG' \in BOOLEAN, pc' \in [Pid -> Points], local' \in [Pid -> Pid],
         interrupted' \in [Pid -> BOOLEAN], \A p \in Pid : pc'[p] # "boot"
  PROVE  IInv' /\ StaysDead
<1>1. /\ process_list' \in Seq(Pid) /\ toKill_list' \subseteq Pid
      /\ chosen' \in Pid /\ state' \in [Pid -> States]
      /\ Conservation' /\ IdleReady'
      /\ \A p \in Pid : st[p] \in {"ZOMBIE", "NONE", "BLOCKED_ON_SEM"} => state'[p] = st[p]
  BY OrdonnanceConserves DEF IInv
<1>2. TypeOK'
  BY <1>1 DEF IInv, TypeOK
<1>3. Fresh'
  <2>1. \A p \in Pid : p > pidmax' => state'[p] = "NONE"
    BY <1>1 DEF IInv, Fresh
  <2> QED BY <2>1, Facts DEF Fresh
<1>4. StaysDead
  BY <1>1 DEF StaysDead
<1> QED BY <1>1, <1>2, <1>3, <1>4 DEF IInv

\* A process that executes its own code is not idle before the boot.
LEMMA UserBooted ==
  ASSUME ConstantsAssumption, IInv, pc[chosen] # "boot"
  PROVE  \A p \in Pid : pc[p] # "boot"
BY Facts DEF IInv, Fresh

LEMMA ExitStep ==
  ASSUME ConstantsAssumption, IInv, NEW v \in RETVALS, Exit(v)
  PROVE  IInv' /\ StaysDead
<1> DEFINE st == [state EXCEPT ![chosen] = "ZOMBIE"]
<1>1. /\ chosen # Idle /\ pc[chosen] = "user"
      /\ Ordonnance(process_list, st, prio) /\ ResumeAt("exit", 0)
      /\ UNCHANGED <<pidmax, prio, children, IFLAG, halted>>
      /\ retval' = [retval EXCEPT ![chosen] = v]
  BY DEF Exit, AtUser, Running
<1>2. Callable(process_list, st)
  BY <1>1, LeaverCalls
<1>3. \A p \in Pid : state[p] \in {"ZOMBIE", "NONE"} => st[p] = state[p]
  BY Facts
<1>4. /\ pc' \in [Pid -> Points] /\ local' \in [Pid -> Pid]
      /\ interrupted' \in [Pid -> BOOLEAN] /\ \A p \in Pid : pc'[p] # "boot"
  BY <1>1, UserBooted, Facts DEF ResumeAt, IInv, TypeOK, Points, Idle
<1>5. /\ retval' \in [Pid -> RETVALS \cup {0}]
      /\ \A p \in Pid : state[p] = "ZOMBIE" => retval'[p] = retval[p]
  BY <1>1, Facts DEF IInv, TypeOK
<1>6. prio' \in [Pid -> 0..MAXPRIO] /\ IFLAG' \in BOOLEAN
  BY <1>1 DEF IInv, TypeOK
<1> HIDE DEF st
<1> QED BY <1>1, <1>2, <1>3, <1>4, <1>5, <1>6, Facts, SwitchStep

LEMMA KillStep ==
  ASSUME ConstantsAssumption, IInv, NEW k \in PidArg, Kill(k)
  PROVE  IInv' /\ StaysDead
<1> DEFINE st == [state EXCEPT ![k] = "ZOMBIE"]
<1>1. /\ chosen # Idle /\ pc[chosen] = "user" /\ k > 0
      /\ k \in Range(process_list) /\ state[k] # "ZOMBIE" /\ IFLAG' = FALSE
      /\ Ordonnance(process_list, st, prio)
      /\ UNCHANGED <<pidmax, prio, children, halted>>
      /\ retval' = [retval EXCEPT ![k] = 0]
      /\ pc' = [pc EXCEPT ![chosen] = "kill", ![k] = "exit"]
      /\ local' = [local EXCEPT ![chosen] = 0, ![k] = 0]
      /\ interrupted' = [interrupted EXCEPT ![k] = FALSE]
  BY DEF Kill, Killable, AtUser, Running
<1>2. k \in Pid /\ k # Idle /\ state[k] = "ACTIVABLE"
  BY <1>1, Facts DEF Idle, IInv, Conservation
<1>3. Callable(process_list, st)
  BY <1>1, <1>2, KillerCalls
<1>4. \A p \in Pid : state[p] \in {"ZOMBIE", "NONE"} => st[p] = state[p]
  BY <1>2
<1>5. /\ pc' \in [Pid -> Points] /\ local' \in [Pid -> Pid]
      /\ interrupted' \in [Pid -> BOOLEAN] /\ \A p \in Pid : pc'[p] # "boot"
  BY <1>1, <1>2, UserBooted, Facts DEF IInv, TypeOK, Points, Idle
<1>6. /\ retval' \in [Pid -> RETVALS \cup {0}]
      /\ \A p \in Pid : state[p] = "ZOMBIE" => retval'[p] = retval[p]
  BY <1>1, <1>2 DEF IInv, TypeOK
<1>7. prio' \in [Pid -> 0..MAXPRIO] /\ IFLAG' \in BOOLEAN
  BY <1>1 DEF IInv, TypeOK
<1> HIDE DEF st
<1>8. /\ Ordonnance(process_list, st, prio) /\ prio \in [Pid -> Nat]
      /\ UNCHANGED <<pidmax, children, halted>>
  BY <1>1, Facts
<1> QED BY <1>3, <1>4, <1>5, <1>6, <1>7, <1>8, SwitchStep

LEMMA ChprioStep ==
  ASSUME ConstantsAssumption, IInv,
         NEW k \in PidArg, NEW newprio \in PrioArg, Chprio(k, newprio)
  PROVE  IInv' /\ StaysDead
<1> DEFINE l1    == queue_add(chosen, process_list, prio)
           prio1 == [prio EXCEPT ![k] = newprio]
           l2    == IF state[k] = "ACTIVABLE"
                    THEN queue_add(k, queue_del(k, l1), prio1) ELSE l1
           l     == queue_del(chosen, l2)
<1>1. /\ AtUser /\ newprio \in Prio /\ k \in Range(l1) /\ prio' = prio1
      /\ UNCHANGED <<pidmax, retval, children, halted>>
      /\ IF state[k] # "ZOMBIE"
         THEN IFLAG' = FALSE /\ Ordonnance(l, state, prio1) /\ ResumeAt("chprio", 0)
         ELSE IFLAG' = TRUE /\ UNCHANGED <<state, lists, ctx>>
  BY Zenon DEF Chprio
<1>2. k \in Pid
  <2>1. Range(l1) = Range(process_list) \cup {chosen}
    BY Facts, AddRange
  <2> QED BY <2>1, <1>1, Facts
<1>3. Callable(l, state)
  BY <1>1, <1>2, ChprioCalls, Zenon
<1>4. prio' \in [Pid -> 0..MAXPRIO] /\ prio1 \in [Pid -> Nat]
  BY <1>1, <1>2, Facts DEF IInv, TypeOK, Prio
<1>5. pc[chosen] = "user" /\ \A p \in Pid : pc[p] # "boot"
  BY <1>1, UserBooted DEF AtUser, Running
<1> HIDE DEF l, prio1
<1>6. CASE state[k] # "ZOMBIE"
  <2>1. IFLAG' = FALSE /\ Ordonnance(l, state, prio1) /\ ResumeAt("chprio", 0)
    BY <1>1, <1>6
  <2>2. /\ pc' \in [Pid -> Points] /\ local' \in [Pid -> Pid]
        /\ interrupted' \in [Pid -> BOOLEAN] /\ \A p \in Pid : pc'[p] # "boot"
    BY <2>1, <1>5, Facts DEF ResumeAt, IInv, TypeOK, Points, Idle
  <2>3. /\ retval' \in [Pid -> RETVALS \cup {0}] /\ IFLAG' \in BOOLEAN
        /\ \A p \in Pid : state[p] = "ZOMBIE" => retval'[p] = retval[p]
        /\ UNCHANGED <<pidmax, children, halted>>
    BY <2>1, <1>1 DEF IInv, TypeOK
  <2>4. Ordonnance(l, state, prio1)
    BY <2>1
  <2>5. \A p \in Pid : state[p] \in {"ZOMBIE", "NONE"} => state[p] = state[p]
    OBVIOUS
  <2> QED BY <2>2, <2>3, <2>4, <2>5, <1>3, <1>4, SwitchStep, Zenon
<1>7. CASE state[k] = "ZOMBIE"
  BY <1>1, <1>4, <1>5, <1>7, Facts
     DEF IInv, TypeOK, Conservation, IdleReady, Fresh, StaysDead, lists, ctx
<1> QED BY <1>6, <1>7

LEMMA TickStep ==
  ASSUME ConstantsAssumption, IInv, Tick
  PROVE  IInv' /\ StaysDead
<1>1. /\ IFLAG /\ Ordonnance(process_list, state, prio)
      /\ interrupted' = [interrupted EXCEPT ![chosen] = @ \/ chosen' # chosen]
      /\ UNCHANGED <<pidmax, prio, retval, children, IFLAG, pc, local, halted>>
  BY DEF Tick
<1>2. /\ pc' \in [Pid -> Points] /\ local' \in [Pid -> Pid]
      /\ interrupted' \in [Pid -> BOOLEAN] /\ \A p \in Pid : pc'[p] # "boot"
  BY <1>1, Facts DEF IInv, TypeOK, Fresh
<1>3. /\ prio' \in [Pid -> 0..MAXPRIO] /\ retval' \in [Pid -> RETVALS \cup {0}]
      /\ IFLAG' \in BOOLEAN
  BY <1>1 DEF IInv, TypeOK
<1> QED BY <1>1, <1>2, <1>3, Facts, SwitchStep

\* The steps that touch neither the table nor the lists.
LEMMA QuietStep ==
  ASSUME ConstantsAssumption, IInv, UNCHANGED <<table, lists>>,
         pc[chosen] # "boot",
         IFLAG' \in BOOLEAN, halted' \in Halts,
         \/ UNCHANGED ctx
         \/ \E point \in Points \ {"boot"}, v \in Pid : ResumeAt(point, v)
  PROVE  IInv' /\ StaysDead
<1>1. \A p \in Pid : pc[p] # "boot"
  BY UserBooted
<1>2. /\ pc' \in [Pid -> Points] /\ local' \in [Pid -> Pid]
      /\ interrupted' \in [Pid -> BOOLEAN] /\ \A p \in Pid : pc'[p] # "boot"
  <2>1. CASE UNCHANGED ctx
    BY <2>1, <1>1 DEF ctx, IInv, TypeOK
  <2>2. CASE \E point \in Points \ {"boot"}, v \in Pid : ResumeAt(point, v)
    <3>1. PICK point \in Points \ {"boot"}, v \in Pid : ResumeAt(point, v)
      BY <2>2
    <3>2. /\ pc' = [pc EXCEPT ![chosen] = point]
          /\ local' = [local EXCEPT ![chosen] = v] /\ interrupted' = interrupted
      BY <3>1 DEF ResumeAt
    <3> QED BY <3>2, <1>1, Facts DEF IInv, TypeOK
  <2> QED BY <2>1, <2>2
<1>3. TypeOK' /\ Conservation' /\ IdleReady' /\ StaysDead
  BY <1>2 DEF table, lists, IInv, TypeOK, Conservation, IdleReady, StaysDead
<1>4. Fresh'
  BY <1>2, Facts DEF table, IInv, Fresh
<1> QED BY <1>3, <1>4 DEF IInv

\* A start for which there is no memory, whatever becomes of the machine.
LEMMA StartNoStackStep ==
  ASSUME ConstantsAssumption, IInv, StartNoStack \/ StartFault
  PROVE  IInv' /\ StaysDead
<1>1. /\ pc[chosen] = "user" /\ pidmax' = pidmax + 1
      /\ pidmax + 1 < PROCESS_TABLE_SIZE
      /\ UNCHANGED <<state, prio, retval, children, lists, IFLAG, ctx>>
      /\ halted' = halted \/ halted' = "fault"
  BY DEF StartNoStack, StartFault, AtUser, Running
<1>2. \A p \in Pid : pc[p] # "boot"
  BY <1>1, UserBooted
<1>3. pidmax' \in Pid /\ \A p \in Pid : p > pidmax' => p > pidmax
  BY <1>1 DEF Pid, IInv, TypeOK, ConstantsAssumption
<1>4. TypeOK' /\ Conservation' /\ IdleReady' /\ StaysDead
  BY <1>1, <1>3 DEF lists, ctx, IInv, TypeOK, Conservation, IdleReady, StaysDead, Halts
<1>5. Fresh'
  BY <1>1, <1>2, <1>3, Facts DEF ctx, IInv, Fresh
<1> QED BY <1>4, <1>5 DEF IInv

\* What waitpid awaits is not running and not ready when it is taken out of
\* its list.
LEMMA WaitpidReapStep ==
  ASSUME ConstantsAssumption, IInv, WaitpidReap
  PROVE  IInv' /\ StaysDead
<1> DEFINE a == local[chosen]
<1>1. /\ pc[chosen] = "waitpid" /\ state[a] \notin {"ACTIVABLE", "CHOSEN"}
      /\ pc' = [pc EXCEPT ![chosen] = "user"]
      /\ local' = [local EXCEPT ![chosen] = 0]
      /\ process_list' = IF a \in Range(process_list)
                         THEN queue_del(a, process_list) ELSE process_list
      /\ toKill_list' = toKill_list \ {a}
      /\ IFLAG' = TRUE
      /\ UNCHANGED <<table, chosen, halted, interrupted>>
  BY DEF WaitpidReap, FinishFrom, Running, Awaited
<1>2. /\ process_list' \in Seq(Pid) /\ IsInjective(process_list')
      /\ Range(process_list') = Range(process_list) \ {a}
  <2> HIDE DEF a
  <2>1. CASE a \in Range(process_list)
    <3>1. process_list' = queue_del(a, process_list)
      BY <1>1, <2>1
    <3>2. queue_del(a, process_list) \in Seq(Pid)
      BY <2>1, Facts, DelPlaces
    <3>3. /\ Range(queue_del(a, process_list)) = Range(process_list) \ {a}
          /\ IsInjective(queue_del(a, process_list))
      BY <2>1, Facts, DelRange DEF IInv, Conservation
    <3> QED BY <3>1, <3>2, <3>3
  <2>2. CASE a \notin Range(process_list)
    BY <1>1, <2>2, Facts DEF IInv, Conservation
  <2> QED BY <2>1, <2>2
<1>3. \A p \in Pid : pc'[p] # "boot"
  BY <1>1, UserBooted, Facts DEF IInv, TypeOK
<1>4. TypeOK'
  BY <1>1, <1>2, Facts DEF table, IInv, TypeOK, Points, Idle
<1> HIDE DEF a
<1>5. Conservation' /\ IdleReady' /\ StaysDead
  BY <1>1, <1>2, Facts DEF table, IInv, Conservation, IdleReady, StaysDead
<1>6. Fresh'
  BY <1>1, <1>3, Facts DEF table, IInv, Fresh
<1> QED BY <1>4, <1>5, <1>6 DEF IInv

\* Every step.
LEMMA NextStep ==
  ASSUME ConstantsAssumption, IInv, [Next]_vars
  PROVE  IInv' /\ (Next => StaysDead)
<1>0. Idle \in Pid /\ Points \ {"boot"} = Points \ {"boot"} /\ BOOLEAN = {TRUE, FALSE}
  BY Facts
<1>1. ASSUME NEW pr \in Prio, Boot(pr) PROVE IInv' /\ StaysDead
  BY <1>1, BootStep
<1>2. ASSUME NEW pr \in PrioArg, Start(pr) PROVE IInv' /\ StaysDead
  BY <1>2, StartStep
<1>3. ASSUME NEW v \in RETVALS, Exit(v) PROVE IInv' /\ StaysDead
  BY <1>3, ExitStep
<1>4. ASSUME NEW k \in PidArg, Kill(k) PROVE IInv' /\ StaysDead
  BY <1>4, KillStep
<1>5. ASSUME NEW k \in PidArg, NEW pr \in PrioArg, Chprio(k, pr)
      PROVE  IInv' /\ StaysDead
  BY <1>5, ChprioStep
<1>6. ASSUME UNCHANGED vars PROVE IInv' /\ StaysDead
  BY <1>6 DEF vars, table, lists, ctx, IInv, TypeOK, Conservation, IdleReady, Fresh, StaysDead
<1>7. ASSUME NEW k \in PidArg, KillRefused(k) PROVE IInv' /\ StaysDead
  <2>1. /\ pc[chosen] # "boot" /\ UNCHANGED <<table, lists, ctx, halted>>
        /\ IFLAG' \in BOOLEAN
    BY <1>7 DEF KillRefused, AtUser, Running
  <2> QED BY <2>1, QuietStep DEF IInv, TypeOK
<1>8. ASSUME NEW k \in PidArg, NEW pr \in PrioArg, ChprioRefused(k, pr)
      PROVE  IInv' /\ StaysDead
  BY <1>8, QuietStep DEF ChprioRefused, AtUser, Running, IInv, TypeOK
<1>9. ASSUME NEW k \in PidArg, WaitpidRefused(k) PROVE IInv' /\ StaysDead
  BY <1>9, QuietStep DEF WaitpidRefused, AtUser, Running, IInv, TypeOK
<1>10. ASSUME NEW k \in PidArg, Waitpid(k) PROVE IInv' /\ StaysDead
  <2>1. /\ pc[chosen] # "boot" /\ UNCHANGED <<table, lists, halted>>
        /\ IFLAG' = FALSE /\ ResumeAt("waitpid", k) /\ Linked(k)
    BY <1>10 DEF Waitpid, Waitable, AtUser, Running
  <2>2. k \in Pid /\ "waitpid" \in Points \ {"boot"}
    BY <2>1, Facts DEF Linked, IInv, TypeOK, Points
  <2> QED BY <2>1, <2>2, QuietStep DEF IInv, TypeOK
<1>11. ASSUME StartReturn \/ KillReturn \/ ChprioReturn PROVE IInv' /\ StaysDead
  <2>1. /\ pc[chosen] # "boot" /\ UNCHANGED <<table, lists, halted>>
        /\ IFLAG' \in BOOLEAN /\ ResumeAt("user", 0)
    BY <1>11 DEF StartReturn, KillReturn, ChprioReturn, FinishFrom, Running,
                 ResumeAt, IInv, TypeOK
  <2>2. 0 \in Pid /\ "user" \in Points \ {"boot"}
    BY Facts DEF Points, Idle
  <2> QED BY <2>1, <2>2, QuietStep DEF IInv, TypeOK
<1>12. ASSUME WaitpidSpin \/ Sti \/ Cli PROVE IInv' /\ StaysDead
  <2>1. /\ pc[chosen] # "boot" /\ UNCHANGED <<table, lists, ctx, halted>>
        /\ IFLAG' \in BOOLEAN
    BY <1>12 DEF WaitpidSpin, Sti, Cli, AtUser, Running
  <2> QED BY <2>1, QuietStep DEF IInv, TypeOK
<1>13. ASSUME WaitpidPanic PROVE IInv' /\ StaysDead
  <2>1. /\ pc[chosen] # "boot" /\ UNCHANGED <<table, lists, ctx>>
        /\ IFLAG' \in BOOLEAN /\ halted' \in Halts
    BY <1>13 DEF WaitpidPanic, Running, Halts
  <2> QED BY <2>1, QuietStep
<1>14. ASSUME WaitpidReap PROVE IInv' /\ StaysDead
  BY <1>14, WaitpidReapStep
<1>15. ASSUME TickReturn PROVE IInv' /\ StaysDead
  <2>1. pc[chosen] # "boot"
    BY <1>15, Facts DEF TickReturn, IInv, Fresh
  <2>2. /\ interrupted' \in [Pid -> BOOLEAN] /\ IFLAG' = TRUE
        /\ UNCHANGED <<table, lists, pc, local, halted>>
    BY <1>15 DEF TickReturn, IInv, TypeOK
  <2>3. \A p \in Pid : pc[p] # "boot"
    BY <2>1, UserBooted
  <2> QED BY <2>2, <2>3, Facts DEF table, lists, IInv, TypeOK, Conservation,
             IdleReady, Fresh, StaysDead
<1>16. ASSUME Tick PROVE IInv' /\ StaysDead
  BY <1>16, TickStep
<1>17. ASSUME StartNoStack \/ StartFault PROVE IInv' /\ StaysDead
  BY <1>17, StartNoStackStep
<1>18. ASSUME NEW pr \in PrioArg, StartRefused(pr) PROVE IInv' /\ StaysDead
  BY <1>6, <1>18 DEF StartRefused
<1>19. Next => IInv' /\ StaysDead
  BY <1>1, <1>2, <1>3, <1>4, <1>5, <1>7, <1>8, <1>9, <1>10, <1>11, <1>12, <1>13,
     <1>14, <1>15, <1>16, <1>17, <1>18 DEF Next, Primitive, ChangePriority, Resume
<1> QED BY <1>6, <1>19

-----------------------------------------------------------------------------
(* The theorems *)

LEMMA IInvHolds == Spec => []IInv
<1>1. Init => IInv
  BY InitInv, ConstantsAssumption
<1>2. IInv /\ [Next]_vars => IInv'
  BY NextStep, ConstantsAssumption
<1> QED BY <1>1, <1>2, PTL DEF Spec

\* The variables always have their types: in particular no step of any
\* primitive indexes the table out of its bounds (process.c).
THEOREM TypeCorrect == Spec => []TypeOK
<1>1. IInv => TypeOK
  BY DEF IInv
<1> QED BY <1>1, IInvHolds, PTL

\* No process is ever lost or duplicated between process_list, toKill_list
\* and the processor, for tables and queues of any size (ordonnance, start,
\* kill, exit, chprio and waitpid in process.c).
THEOREM ConservationHolds == Spec => []Conservation
<1>1. IInv => Conservation
  BY DEF IInv
<1> QED BY <1>1, IInvHolds, PTL

\* Idle is ready whenever another process runs, so that ordonnance always
\* has somebody to elect for a process that dies (process.c:118-160).
THEOREM IdleAlwaysReady == Spec => []IdleReady
<1>1. IInv => IdleReady
  BY DEF IInv
<1> QED BY <1>1, IInvHolds, PTL

\* No step revives a zombie or changes the value it died with.
THEOREM DeadStayDead == Spec => DeadForever
<1>1. IInv /\ [Next]_vars => [StaysDead]_vars
  BY NextStep, ConstantsAssumption
<1>2. StaysDead <=> \A p \in Pid : state[p] = "ZOMBIE" =>
                      state'[p] = "ZOMBIE" /\ retval'[p] = retval[p]
  BY DEF StaysDead
<1> QED BY <1>1, <1>2, IInvHolds, PTL DEF Spec, DeadForever

-----------------------------------------------------------------------------
(* The order of process_list *)

KeepsOrder ==
  /\ Sorted(process_list, prio)
  /\ \A p \in Pid : state[p] = "ZOMBIE" => prio'[p] = prio[p]
  => Sorted(process_list', prio')

\* The order of a queue depends on the priorities of its elements only.
LEMMA SortedAgree ==
  ASSUME NEW S, NEW q \in Seq(S), NEW pr1, NEW pr2, Sorted(q, pr1),
         \A x \in Range(q) : pr1[x] = pr2[x]
  PROVE  Sorted(q, pr2)
<1>1. \A i \in DOMAIN q : pr1[q[i]] = pr2[q[i]]
  BY Zenon DEF Range
<1> QED BY <1>1 DEF Sorted

\* ordonnance keeps the order of the list it is given.
LEMMA OrdonnanceSorts ==
  ASSUME NEW l, NEW st, NEW pr \in [Pid -> Nat], ConstantsAssumption,
         TypeOK, Callable(l, st), Ordonnance(l, st, pr), Sorted(l, pr)
  PROVE  Sorted(process_list', pr)
<1> DEFINE n   == Elected(l, st)
           pre == SubSeq(l, 1, n-1)
<1>1. l \in Seq(Pid) /\ chosen \in Pid
  BY DEF Callable, TypeOK
<1>2. n \in 0..Len(l)
  BY <1>1, ElectedStops
<1>3. IF n = 0 THEN process_list' = << >>
      ELSE process_list' = Requeued(chosen, pre, st, pr)
  BY Zenon DEF Ordonnance
<1> HIDE DEF n
<1>4. CASE n = 0
  BY <1>3, <1>4 DEF Sorted
<1>5. CASE n # 0
  <2>1. n - 1 \in 0..Len(l)
    BY <1>1, <1>2, <1>5
  <2>2. pre \in Seq(Pid)
    BY <2>1, <1>1, PrefixPlaces, Zenon
  <2>3. Sorted(pre, pr)
    BY <2>1, <1>1, PrefixKeeps, Zenon
  <2> HIDE DEF pre
  <2>4. Sorted(queue_add(chosen, pre, pr), pr)
    BY <2>2, <2>3, <1>1, AddSorted
  <2>5. process_list' = IF st[chosen] = "CHOSEN" THEN queue_add(chosen, pre, pr) ELSE pre
    BY <1>3, <1>5 DEF Requeued
  <2> QED BY <2>3, <2>4, <2>5
<1> QED BY <1>4, <1>5

LEMMA NewProcessOrder ==
  ASSUME ConstantsAssumption, IInv, NEW pr \in Prio, pidmax + 1 \in Pid,
         NewProcess(pr), Sorted(process_list, prio)
  PROVE  Sorted(process_list', prio')
<1> DEFINE c     == pidmax + 1
           prio1 == [prio EXCEPT ![c] = pr]
           st    == [state EXCEPT ![c] = "ACTIVABLE"]
           l     == queue_add(c, process_list, prio1)
<1>1. state[c] = "NONE"
  <2>1. pidmax \in Nat
    BY DEF Pid, IInv, TypeOK
  <2> QED BY <2>1 DEF IInv, Fresh
<1>2. /\ prio' = prio1
      /\ \/ Ordonnance(l, st, prio1)
         \/ process_list' = l
  BY Zenon DEF NewProcess
<1>3. Callable(l, st)
  BY <1>1, StarterCalls, Zenon
<1>4. c \notin Range(process_list)
  BY <1>1 DEF IInv, Conservation
<1>5. prio1 \in [Pid -> Nat] /\ \A x \in Range(process_list) : prio[x] = prio1[x]
  BY <1>4, Facts DEF Prio
<1> HIDE DEF c, prio1
<1>6. Sorted(process_list, prio1)
  BY <1>5, Facts, SortedAgree
<1>7. Sorted(l, prio1)
  BY <1>5, <1>6, Facts, AddSorted DEF c
<1> HIDE DEF l, st
<1>8. TypeOK
  BY DEF IInv
<1> QED BY <1>2, <1>3, <1>5, <1>7, <1>8, OrdonnanceSorts

LEMMA ChprioOrder ==
  ASSUME ConstantsAssumption, IInv,
         NEW k \in PidArg, NEW newprio \in PrioArg, Chprio(k, newprio),
         Sorted(process_list, prio), state[k] # "ZOMBIE"
  PROVE  Sorted(process_list', prio')
<1> DEFINE l1    == queue_add(chosen, process_list, prio)
           prio1 == [prio EXCEPT ![k] = newprio]
           d     == queue_del(k, l1)
           l2    == IF state[k] = "ACTIVABLE" THEN queue_add(k, d, prio1) ELSE l1
           l     == queue_del(chosen, l2)
<1>1. /\ newprio \in Prio /\ k \in Range(l1) /\ prio' = prio1
      /\ Ordonnance(l, state, prio1)
  BY Zenon DEF Chprio
<1>2. l1 \in Seq(Pid) /\ Range(l1) = Range(process_list) \cup {chosen}
  <2>1. l1 \in Seq(Pid)
    BY Facts, AddPlaces
  <2>2. Range(l1) = Range(process_list) \cup {chosen}
    BY Facts, AddRange
  <2> QED BY <2>1, <2>2
<1>3. k \in Pid
  BY <1>1, <1>2, Facts
<1>4. IsInjective(l1)
  BY Facts, AddInjective DEF Callable
<1>5. Sorted(l1, prio)
  BY Facts, AddSorted
<1>6. Callable(l, state)
  BY <1>1, <1>3, ChprioCalls, Zenon
<1>7. prio1 \in [Pid -> Nat] /\ \A x \in Pid \ {k} : prio[x] = prio1[x]
  BY <1>1, <1>3, Facts DEF Prio
<1> HIDE DEF l1, prio1
<1>8. Sorted(l, prio1)
  <2>1. CASE state[k] = "ACTIVABLE"
    <3>1. d \in Seq(Pid)
      BY <1>1, <1>2, DelPlaces
    <3>2. Range(d) = Range(l1) \ {k} /\ IsInjective(d)
      BY <1>1, <1>2, <1>4, DelRange
    <3>3. Sorted(d, prio)
      BY <1>1, <1>2, <1>5, Facts, DelSorted
    <3>4. \A x \in Range(d) : prio[x] = prio1[x]
      BY <3>2, <1>2, <1>7, Facts
    <3> HIDE DEF d
    <3>5. Sorted(d, prio1)
      BY <3>1, <3>3, <3>4, SortedAgree
    <3>6. l2 = queue_add(k, d, prio1)
      BY <2>1
    <3>7. l2 \in Seq(Pid) /\ Range(l2) = Range(d) \cup {k} /\ Sorted(l2, prio1)
      <4>1. l2 \in Seq(Pid)
        BY <3>1, <3>6, <1>3, <1>7, AddPlaces
      <4>2. Range(l2) = Range(d) \cup {k}
        BY <3>1, <3>6, <1>3, <1>7, AddRange
      <4>3. Sorted(l2, prio1)
        BY <3>1, <3>5, <3>6, <1>3, <1>7, AddSorted
      <4> QED BY <4>1, <4>2, <4>3
    <3>8. chosen \in Range(l2)
      BY <3>2, <3>7, <1>1, <1>2
    <3> HIDE DEF l2
    <3> QED BY <3>7, <3>8, <1>7, DelSorted
  <2>2. CASE state[k] # "ACTIVABLE"
    <3>1. k = chosen /\ l2 = l1
      BY <2>2, <1>1, <1>2 DEF IInv, Conservation
    <3>2. chosen \in Range(l1)
      BY <1>2
    <3>3. l \in Seq(Pid)
      BY <3>1, <3>2, <1>2, DelPlaces
    <3>4. Range(l) = Range(l1) \ {chosen}
      BY <3>1, <3>2, <1>2, <1>4, DelRange
    <3>5. Sorted(l, prio)
      BY <3>1, <3>2, <1>2, <1>5, Facts, DelSorted
    <3>6. \A x \in Range(l) : prio[x] = prio1[x]
      BY <3>1, <3>4, <1>2, <1>7, Facts
    <3> HIDE DEF l
    <3> QED BY <3>3, <3>5, <3>6, SortedAgree
  <2> QED BY <2>1, <2>2
<1> HIDE DEF l
<1>9. TypeOK
  BY DEF IInv
<1> QED BY <1>1, <1>6, <1>7, <1>8, <1>9, OrdonnanceSorts

\* Exit, kill and the clock hand ordonnance the list as it is.
LEMMA SwitchOrder ==
  ASSUME ConstantsAssumption, IInv, Sorted(process_list, prio), prio' = prio,
         NEW st, Callable(process_list, st), Ordonnance(process_list, st, prio)
  PROVE  Sorted(process_list', prio')
<1>1. TypeOK
  BY DEF IInv
<1> QED BY <1>1, Facts, OrdonnanceSorts

LEMMA NextOrder ==
  ASSUME ConstantsAssumption, IInv, Next
  PROVE  KeepsOrder
<1> SUFFICES ASSUME Sorted(process_list, prio),
                    \A p \in Pid : state[p] = "ZOMBIE" => prio'[p] = prio[p]
             PROVE  Sorted(process_list', prio')
  BY DEF KeepsOrder
<1> DEFINE Goal == Sorted(process_list', prio')
<1>1. ASSUME NEW pr \in Prio, Boot(pr) PROVE Goal
  <2>1. NewProcess(pr) /\ pc[Idle] = "boot"
    BY <1>1, Facts DEF Boot, Running, IInv, Fresh
  <2>2. pidmax + 1 \in Pid
    BY <2>1 DEF IInv, Fresh, Pid, ConstantsAssumption
  <2> QED BY <2>1, <2>2, NewProcessOrder
<1>2. ASSUME NEW pr \in PrioArg, Start(pr) PROVE Goal
  <2>1. NewProcess(pr) /\ pr \in Prio
    BY <1>2 DEF Start
  <2>2. pidmax + 1 \in Pid
    BY <1>2 DEF Start, Pid, IInv, TypeOK, ConstantsAssumption
  <2> QED BY <2>1, <2>2, NewProcessOrder
<1>3. ASSUME NEW v \in RETVALS, Exit(v) PROVE Goal
  <2>1. chosen # Idle /\ prio' = prio
        /\ Ordonnance(process_list, [state EXCEPT ![chosen] = "ZOMBIE"], prio)
    BY <1>3 DEF Exit, AtUser
  <2> QED BY <2>1, LeaverCalls, SwitchOrder
<1>4. ASSUME NEW k \in PidArg, Kill(k) PROVE Goal
  <2>1. /\ chosen # Idle /\ prio' = prio /\ k \in Range(process_list) /\ k # Idle
        /\ Ordonnance(process_list, [state EXCEPT ![k] = "ZOMBIE"], prio)
    BY <1>4 DEF Kill, Killable, AtUser, Idle
  <2>2. Callable(process_list, [state EXCEPT ![k] = "ZOMBIE"])
    BY <2>1, KillerCalls
  <2> QED BY <2>1, <2>2, SwitchOrder
<1>5. ASSUME NEW k \in PidArg, NEW pr \in PrioArg, Chprio(k, pr) PROVE Goal
  <2>1. CASE state[k] # "ZOMBIE"
    BY <2>1, <1>5, ChprioOrder
  <2>2. CASE state[k] = "ZOMBIE"
    <3>1. process_list' = process_list /\ prio' = [prio EXCEPT ![k] = pr]
      BY <2>2, <1>5, Zenon DEF Chprio, lists
    <3>2. \A x \in Range(process_list) : prio[x] = prio'[x]
      <4>1. \A x \in Range(process_list) : x \in Pid /\ (x = k => state[x] = "ZOMBIE")
        BY <2>2, Facts
      <4>2. \A x \in Pid : x # k => prio'[x] = prio[x]
        BY <3>1, Facts
      <4> QED BY <4>1, <4>2
    <3>3. Sorted(process_list, prio')
      BY <3>2, Facts, SortedAgree
    <3> QED BY <3>1, <3>3
  <2> QED BY <2>1, <2>2
<1>6. ASSUME Tick PROVE Goal
  <2>1. prio' = prio /\ Ordonnance(process_list, state, prio)
    BY <1>6 DEF Tick
  <2> QED BY <2>1, Facts, SwitchOrder
<1>7. ASSUME WaitpidReap PROVE Goal
  <2>1. /\ prio' = prio
        /\ process_list' = IF Awaited \in Range(process_list)
                           THEN queue_del(Awaited, process_list) ELSE process_list
    BY <1>7, Zenon DEF WaitpidReap, table
  <2>2. Awaited \in Range(process_list) =>
          Sorted(queue_del(Awaited, process_list), prio)
    BY Facts, DelSorted
  <2> QED BY <2>1, <2>2
<1>8. ASSUME UNCHANGED <<prio, process_list>> PROVE Goal
  BY <1>8
<1>9. ASSUME \/ \E pr \in PrioArg : StartRefused(pr)
             \/ StartNoStack \/ StartFault
             \/ \E k \in PidArg : KillRefused(k) \/ Waitpid(k) \/ WaitpidRefused(k)
             \/ \E k \in PidArg, pr \in PrioArg : ChprioRefused(k, pr)
             \/ StartReturn \/ KillReturn \/ ChprioReturn
             \/ WaitpidSpin \/ WaitpidPanic \/ TickReturn \/ Sti \/ Cli
      PROVE  Goal
  <2>1. UNCHANGED <<prio, process_list>>
    BY <1>9 DEF StartRefused, StartNoStack, StartFault, KillRefused, Waitpid,
                WaitpidRefused, ChprioRefused, StartReturn, KillReturn, ChprioReturn, WaitpidSpin,
                WaitpidPanic, TickReturn, Sti, Cli, vars, table, lists
  <2> QED BY <2>1
<1> QED BY <1>1, <1>2, <1>3, <1>4, <1>5, <1>6, <1>7, <1>9
        DEF Next, Primitive, ChangePriority, Resume

\* chprio of a zombie that is still queued is the one step that can leave
\* process_list out of order (process.c:374), for any number of processes
\* and priorities.
THEOREM OrderKept == Spec => OnlyZombiesUnsort
<1>1. IInv /\ [Next]_vars => [KeepsOrder]_vars
  BY NextOrder, ConstantsAssumption
<1>2. KeepsOrder <=>
        (/\ Sorted(process_list, prio)
         /\ \A p \in Pid : state[p] = "ZOMBIE" => prio'[p] = prio[p]
         => Sorted(process_list', prio'))
  BY DEF KeepsOrder
<1> QED BY <1>1, <1>2, IInvHolds, PTL DEF Spec, OnlyZombiesUnsort

-----------------------------------------------------------------------------
(* Process implements ProcessLifecycle *)

\* The processes linked in a list, and the status of process p in state x
\* when those of L are.
InLists == Range(process_list) \cup toKill_list

StatusIn(x, p, L) ==
  CASE x = "NONE"           -> "absent"
    [] x = "ACTIVABLE"      -> "ready"
    [] x = "CHOSEN"         -> "running"
    [] x = "BLOCKED_ON_SEM" -> "blocked"
    [] x = "ZOMBIE"         -> IF p \in L THEN "dead" ELSE "collected"

Status == [p \in Pid |-> StatusIn(state[p], p, InLists)]

\* Only for a zombie does it matter whether it is linked.
LEMMA StatusValues ==
  ASSUME NEW p, NEW L
  PROVE  /\ StatusIn("NONE", p, L) = "absent"
         /\ StatusIn("ACTIVABLE", p, L) = "ready"
         /\ StatusIn("CHOSEN", p, L) = "running"
         /\ StatusIn("BLOCKED_ON_SEM", p, L) = "blocked"
         /\ p \in L => StatusIn("ZOMBIE", p, L) = "dead"
         /\ p \notin L => StatusIn("ZOMBIE", p, L) = "collected"
BY DEF StatusIn

LEMMA StatusSame ==
  ASSUME NEW x \in States, NEW p, NEW L, NEW M,
         x = "ZOMBIE" => (p \in L <=> p \in M)
  PROVE  StatusIn(x, p, L) = StatusIn(x, p, M)
BY StatusValues DEF States

LEMMA StatusIsMapped ==
  /\ Status = [p \in Pid |-> StatusOf(p)]
  /\ Status' = [p \in Pid |-> StatusOf(p)]'
BY DEF Status, StatusIn, StatusOf, InLists, Linked

\* Who has the processor after ordonnance, and where the zombies are.
LEMMA OrdonnanceSwitches ==
  ASSUME NEW l, NEW st, NEW pr \in [Pid -> Nat], ConstantsAssumption,
         TypeOK, Callable(l, st), Ordonnance(l, st, pr)
  PROVE  /\ \/ /\ chosen' = chosen /\ state' = st
               /\ \A p \in Pid : st[p] # "ACTIVABLE"
            \/ /\ chosen' \in Pid /\ chosen' # chosen /\ st[chosen'] = "ACTIVABLE"
               /\ state' = [st EXCEPT ![chosen] = Left(chosen, st),
                                      ![chosen'] = "CHOSEN"]
         /\ \A p \in Pid : st[p] = "ZOMBIE" =>
              (p \in InLists' <=> p \in Range(l) \cup toKill_list \cup {chosen})
<1> DEFINE n    == Elected(l, st)
           dead == {l[i] : i \in n+1..Len(l)}
           pre  == SubSeq(l, 1, n-1)
<1>1. /\ l \in Seq(Pid) /\ st \in [Pid -> States] /\ chosen \in Pid
      /\ IsInjective(l)
      /\ \A p \in Range(l) : st[p] \in {"ACTIVABLE", "ZOMBIE"} /\ p # chosen
      /\ \A p \in Pid : st[p] = "ACTIVABLE" => p \in Range(l)
      /\ IF chosen = Idle THEN st[Idle] = "CHOSEN" ELSE st[Idle] = "ACTIVABLE"
      /\ Idle \in Pid
  BY DEF Callable, TypeOK, Idle, Pid, ConstantsAssumption
<1>2. /\ n \in 0..Len(l)
      /\ n > 0 => st[l[n]] # "ZOMBIE"
      /\ \A i \in n+1..Len(l) : st[l[i]] = "ZOMBIE"
  BY <1>1, ElectedStops
<1>3. /\ toKill_list' = toKill_list \cup dead
                          \cup (IF n = 0 THEN {} ELSE Buried(chosen, st))
      /\ n = 0 => process_list' = << >> /\ state' = st /\ chosen' = chosen
      /\ n # 0 => /\ process_list' = Requeued(chosen, pre, st, pr)
                  /\ state' = [st EXCEPT ![chosen] = Left(chosen, st),
                                         ![l[n]] = "CHOSEN"]
                  /\ chosen' = l[n]
  BY Zenon DEF Ordonnance
<1> HIDE DEF n
<1>4. \A i \in 1..Len(l) : l[i] \in Pid /\ l[i] \in Range(l)
  BY <1>1 DEF Range
<1>5. \A p \in dead : st[p] = "ZOMBIE"
  BY <1>2
<1>6. CASE n = 0
  <2>1. Range(l) = dead
    BY <1>1, <1>6 DEF Range
  <2> HIDE DEF dead
  <2>2. \A p \in Pid : st[p] # "ACTIVABLE"
    BY <2>1, <1>1, <1>5
  <2>3. st[chosen] = "CHOSEN"
    BY <2>2, <1>1
  <2>4. Range(process_list') = {} /\ toKill_list' = toKill_list \cup dead
    BY <1>3, <1>6 DEF Range
  <2>5. \A p \in Pid : st[p] = "ZOMBIE" =>
          (p \in InLists' <=> p \in Range(l) \cup toKill_list \cup {chosen})
    BY <2>1, <2>3, <2>4 DEF InLists
  <2>6. chosen' = chosen /\ state' = st
    BY <1>3, <1>6
  <2> QED BY <2>2, <2>5, <2>6, Zenon
<1>7. CASE n # 0
  <2>1. /\ n \in 1..Len(l) /\ l[n] \in Pid /\ st[l[n]] = "ACTIVABLE"
        /\ l[n] # chosen
    BY <1>1, <1>2, <1>4, <1>7
  <2>2. Range(l) = Range(pre) \cup {l[n]} \cup dead
    BY <2>1, <1>1, SplitAt, ZenonT(30)
  <2>3. pre \in Seq(Pid)
    <3>1. n - 1 \in 0..Len(l)
      BY <2>1
    <3> QED BY <3>1, <1>1, PrefixPlaces, Zenon
  <2> HIDE DEF pre, dead
  <2>4. Range(queue_add(chosen, pre, pr)) = Range(pre) \cup {chosen}
    BY <2>3, <1>1, AddRange
  <2>5. /\ st[chosen] = "CHOSEN" => Range(process_list') = Range(pre) \cup {chosen}
        /\ st[chosen] # "CHOSEN" => Range(process_list') = Range(pre)
    BY <2>4, <1>3, <1>7 DEF Requeued
  <2>6. toKill_list' = toKill_list \cup dead
                         \cup (IF st[chosen] = "ZOMBIE" THEN {chosen} ELSE {})
    BY <1>3, <1>7 DEF Buried
  <2>7. \A p \in Pid : st[p] = "ZOMBIE" =>
          (p \in InLists' <=> p \in Range(l) \cup toKill_list \cup {chosen})
    BY <2>1, <2>2, <2>5, <2>6 DEF InLists
  <2> QED BY <2>1, <2>7, <1>3, <1>7
<1> QED BY <1>6, <1>7

-----------------------------------------------------------------------------
(* The abstract steps, on Status *)

\* The disjuncts of LifeNext, one by one.
LEMMA LifeSteps ==
  ASSUME NEW r \in Pid, Status[r] = "running",
         \/ \E c \in Pid : Life!Create(c) \/ Life!Collect(c)
         \/ \E q \in Pid : Life!Yield(r, q) \/ Life!Die(r, q) \/ Life!Block(r, q)
         \/ \E c, q \in Pid : Life!CreateAndSwitch(c, r, q) \/ Life!KillAndSwitch(c, r, q)
  PROVE  Life!LifeNext
<1>1. [p \in Pid |-> StatusOf(p)][r] = "running"
  BY StatusIsMapped
<1> QED BY <1>1, Zenon DEF Life!LifeNext

LEMMA CreateIs ==
  ASSUME NEW c, Status[c] = "absent", Status' = [Status EXCEPT ![c] = "ready"]
  PROVE  Life!Create(c)
BY StatusIsMapped DEF Life!Create

LEMMA CollectIs ==
  ASSUME NEW c, Status[c] = "dead", Status' = [Status EXCEPT ![c] = "collected"]
  PROVE  Life!Collect(c)
BY StatusIsMapped DEF Life!Collect

LEMMA YieldIs ==
  ASSUME NEW r, NEW q, Status[q] = "ready",
         Status' = [Status EXCEPT ![r] = "ready", ![q] = "running"]
  PROVE  Life!Yield(r, q)
BY StatusIsMapped DEF Life!Yield, Life!Switch

LEMMA DieIs ==
  ASSUME NEW r, NEW q, Status[q] = "ready", r # Idle,
         Status' = [Status EXCEPT ![r] = "dead", ![q] = "running"]
  PROVE  Life!Die(r, q)
BY StatusIsMapped DEF Life!Die, Life!Switch

LEMMA BlockIs ==
  ASSUME NEW r, NEW q, Status[q] = "ready", r # Idle,
         Status' = [Status EXCEPT ![r] = "blocked", ![q] = "running"]
  PROVE  Life!Block(r, q)
BY StatusIsMapped DEF Life!Block, Life!Switch

LEMMA CreateAndSwitchIs ==
  ASSUME NEW c, NEW r, NEW q, NEW s, s = [Status EXCEPT ![c] = "ready"],
         Status[c] = "absent", s[q] = "ready",
         Status' = [s EXCEPT ![r] = "ready", ![q] = "running"]
  PROVE  Life!CreateAndSwitch(c, r, q)
BY StatusIsMapped DEF Life!CreateAndSwitch, Life!Switch

LEMMA KillAndSwitchIs ==
  ASSUME NEW c, NEW r, NEW q, NEW s, s = [Status EXCEPT ![c] = "dead"],
         c # Idle, Status[c] = "ready", s[q] = "ready",
         Status' = [s EXCEPT ![r] = "ready", ![q] = "running"]
  PROVE  Life!KillAndSwitch(c, r, q)
BY StatusIsMapped DEF Life!KillAndSwitch, Life!Switch

-----------------------------------------------------------------------------
(* The steps *)

\* The status of every process, in terms of its state.
LEMMA StatusCases ==
  ASSUME ConstantsAssumption, IInv
  PROVE  /\ chosen \in Pid /\ Status[chosen] = "running"
         /\ \A p \in Pid :
              /\ state[p] = "NONE" => Status[p] = "absent"
              /\ state[p] = "ACTIVABLE" => Status[p] = "ready"
              /\ state[p] = "ZOMBIE" /\ p \in InLists => Status[p] = "dead"
              /\ state[p] = "ZOMBIE" /\ p \notin InLists => Status[p] = "collected"
<1>1. \A p \in Pid : Status[p] = StatusIn(state[p], p, InLists)
  BY DEF Status
<1> QED BY <1>1, StatusValues, Facts

\* The status of the processes at a call of ordonnance under states st, the
\* caller counted among the linked ones in case it dies.
StatusAtCall(st) == [p \in Pid |-> StatusIn(st[p], p, InLists \cup {chosen})]

\* What a call of ordonnance makes of that status.
LEMMA SwitchImplements ==
  ASSUME ConstantsAssumption, IInv,
         NEW l, NEW st, NEW pr \in [Pid -> Nat], Callable(l, st),
         Ordonnance(l, st, pr),
         \A p \in Pid : st[p] = "ZOMBIE" => (p \in Range(l) <=> p \in Range(process_list))
  PROVE  \/ /\ Status' = StatusAtCall(st) /\ chosen' = chosen
            /\ \A p \in Pid : st[p] # "ACTIVABLE"
         \/ /\ chosen' \in Pid /\ chosen' # chosen
            /\ StatusAtCall(st)[chosen'] = "ready"
            /\ Status' = [StatusAtCall(st) EXCEPT
                            ![chosen] = StatusIn(Left(chosen, st), chosen, {chosen}),
                            ![chosen'] = "running"]
<1> DEFINE s == [p \in Pid |-> StatusIn(st[p], p, InLists \cup {chosen})]
<1>0. StatusAtCall(st) = s
  BY DEF StatusAtCall
<1>1. /\ \/ /\ chosen' = chosen /\ state' = st
            /\ \A p \in Pid : st[p] # "ACTIVABLE"
         \/ /\ chosen' \in Pid /\ chosen' # chosen /\ st[chosen'] = "ACTIVABLE"
            /\ state' = [st EXCEPT ![chosen] = Left(chosen, st),
                                   ![chosen'] = "CHOSEN"]
      /\ \A p \in Pid : st[p] = "ZOMBIE" =>
           (p \in InLists' <=> p \in Range(l) \cup toKill_list \cup {chosen})
  BY OrdonnanceSwitches, Zenon DEF IInv
<1>2. \A p \in Pid : st[p] = "ZOMBIE" => (p \in InLists' <=> p \in InLists \cup {chosen})
  BY <1>1 DEF InLists
<1>3. st \in [Pid -> States] /\ chosen \in Pid
  BY Facts DEF Callable
<1>4. \A p \in Pid : StatusIn(st[p], p, InLists') = s[p]
  <2> TAKE p \in Pid
  <2>1. st[p] \in States
    BY <1>3
  <2>2. s[p] = StatusIn(st[p], p, InLists \cup {chosen})
    OBVIOUS
  <2>3. st[p] = "ZOMBIE" => (p \in InLists' <=> p \in InLists \cup {chosen})
    BY <1>2
  <2> HIDE DEF s
  <2> DEFINE x == st[p]  M == InLists'  N == InLists \cup {chosen}
  <2>4. x \in States /\ (x = "ZOMBIE" => (p \in M <=> p \in N))
    BY <2>1, <2>3
  <2> HIDE DEF x, M, N
  <2>5. StatusIn(x, p, M) = StatusIn(x, p, N)
    BY <2>4, StatusSame
  <2> QED BY <2>2, <2>5 DEF x, M, N
<1> HIDE DEF s
<1>5. Status' = [p \in Pid |-> StatusIn(state'[p], p, InLists')]
  BY DEF Status
<1>6. CASE /\ chosen' = chosen /\ state' = st
           /\ \A p \in Pid : st[p] # "ACTIVABLE"
  <2>1. Status' = [p \in Pid |-> s[p]]
    BY <1>4, <1>5, <1>6
  <2> QED BY <2>1, <1>0, <1>6 DEF s
<1>7. CASE /\ chosen' \in Pid /\ chosen' # chosen /\ st[chosen'] = "ACTIVABLE"
           /\ state' = [st EXCEPT ![chosen] = Left(chosen, st),
                                  ![chosen'] = "CHOSEN"]
  <2> DEFINE left == StatusIn(Left(chosen, st), chosen, {chosen})
  <2>1. s[chosen'] = "ready"
    BY <1>7, StatusValues DEF s
  <2>2. \A p \in Pid : p # chosen /\ p # chosen' => Status'[p] = s[p]
    BY <1>3, <1>4, <1>5, <1>7
  <2>3. Status'[chosen'] = "running"
    BY <1>3, <1>5, <1>7, StatusValues
  <2>4. Status'[chosen] = left
    <3>1. Status'[chosen] = StatusIn(Left(chosen, st), chosen, InLists')
      BY <1>3, <1>5, <1>7
    <3>2. Left(chosen, st) \in States
      BY <1>3 DEF Left, States
    <3>3. Left(chosen, st) = "ZOMBIE" => (chosen \in InLists' <=> chosen \in {chosen})
      BY <1>2, <1>3 DEF Left
    <3>4. StatusIn(Left(chosen, st), chosen, InLists') = left
      BY <3>2, <3>3, StatusSame
    <3> QED BY <3>1, <3>4
  <2> HIDE DEF left
  <2>5. Status' = [p \in Pid |-> Status'[p]]
    BY <1>5
  <2>6. Status' = [s EXCEPT ![chosen] = left, ![chosen'] = "running"]
    BY <2>2, <2>3, <2>4, <2>5 DEF s
  <2> QED BY <2>1, <2>6, <1>0, <1>7 DEF left
<1> QED BY <1>1, <1>6, <1>7

\* A process whose state the caller has not changed has the status it had.
LEMMA CallStatus ==
  ASSUME ConstantsAssumption, IInv, NEW st \in [Pid -> States],
         NEW p \in Pid, p # chosen, st[p] = state[p]
  PROVE  StatusAtCall(st)[p] = Status[p]
<1>1. Status[p] = StatusIn(state[p], p, InLists)
  BY DEF Status
<1>2. StatusAtCall(st)[p] = StatusIn(state[p], p, InLists \cup {chosen})
  BY DEF StatusAtCall
<1>3. state[p] \in States
  OBVIOUS
<1>4. p \in InLists <=> p \in InLists \cup {chosen}
  OBVIOUS
<1>5. StatusIn(state[p], p, InLists) = StatusIn(state[p], p, InLists \cup {chosen})
  BY <1>3, <1>4, StatusSame
<1> QED BY <1>1, <1>2, <1>5

LEMMA NewProcessImplements ==
  ASSUME ConstantsAssumption, IInv, NEW pr \in Prio, pidmax + 1 \in Pid,
         NewProcess(pr)
  PROVE  Life!LifeNext
<1> DEFINE c     == pidmax + 1
           prio1 == [prio EXCEPT ![c] = pr]
           st    == [state EXCEPT ![c] = "ACTIVABLE"]
           l     == queue_add(c, process_list, prio1)
           s     == [Status EXCEPT ![c] = "ready"]
           call  == StatusAtCall(st)
<1>1. state[c] = "NONE" /\ c # chosen
  <2>1. pidmax \in Nat
    BY DEF Pid, IInv, TypeOK
  <2>2. state[c] = "NONE"
    BY <2>1 DEF IInv, Fresh
  <2> QED BY <2>2, Facts
<1>2. \/ Ordonnance(l, st, prio1)
      \/ process_list' = l /\ state' = st /\ toKill_list' = toKill_list
  BY Zenon DEF NewProcess
<1>3. Callable(l, st)
  BY <1>1, StarterCalls, Zenon
<1>4. prio1 \in [Pid -> Nat] /\ st \in [Pid -> States]
  BY Facts DEF Prio, IInv, TypeOK, States
<1> HIDE DEF prio1
<1>5. Range(l) = Range(process_list) \cup {c}
  <2>1. process_list \in Seq(Pid) /\ c \in Pid
    BY Facts
  <2> HIDE DEF c
  <2>2. Range(queue_add(c, process_list, prio1)) = Range(process_list) \cup {c}
    BY <2>1, <1>4, AddRange, SMTT(30)
  <2> QED BY <2>1, <2>2, Zenon
<1> HIDE DEF l
<1>6. Status[c] = "absent" /\ chosen \in Pid /\ Status[chosen] = "running"
  BY <1>1, StatusCases
<1>7. CASE Ordonnance(l, st, prio1)
  <2>1. call = s
    <3>1. \A p \in Pid : p # c => call[p] = Status[p]
      <4> TAKE p \in Pid
      <4>1. CASE p = chosen
        <5>1. call[p] = "running"
          BY <4>1, <1>1, StatusValues, Facts DEF StatusAtCall
        <5> QED BY <4>1, <5>1, <1>6
      <4>2. CASE p # chosen /\ p # c
        <5>1. st[p] = state[p]
          BY <4>2
        <5> QED BY <4>2, <5>1, <1>4, CallStatus
      <4> QED BY <4>1, <4>2
    <3>2. call[c] = "ready"
      <4>1. st[c] = "ACTIVABLE"
        BY DEF IInv, TypeOK
      <4>2. call[c] = StatusIn(st[c], c, InLists \cup {chosen})
        BY DEF StatusAtCall
      <4> HIDE DEF st, c, call
      <4> QED BY <4>1, <4>2, StatusValues
    <3>3. Status \in [Pid -> {Status[p] : p \in Pid}]
      BY DEF Status
    <3>4. call = [p \in Pid |-> call[p]]
      BY DEF StatusAtCall
    <3> HIDE DEF call
    <3> QED BY <3>1, <3>2, <3>3, <3>4
  <2>2. \A p \in Pid : st[p] = "ZOMBIE" => (p \in Range(l) <=> p \in Range(process_list))
    BY <1>1, <1>5
  <2>3. st[c] = "ACTIVABLE" /\ Left(chosen, st) = "ACTIVABLE"
    BY <1>1, <1>4, Facts DEF Left, IInv, TypeOK
  <2> HIDE DEF st, c, s
  <2>4. \/ /\ Status' = s /\ chosen' = chosen
           /\ \A p \in Pid : st[p] # "ACTIVABLE"
        \/ /\ chosen' \in Pid /\ chosen' # chosen /\ s[chosen'] = "ready"
           /\ Status' = [s EXCEPT ![chosen] = StatusIn(Left(chosen, st), chosen, {chosen}),
                                  ![chosen'] = "running"]
    BY <2>1, <2>2, <1>3, <1>4, <1>7, SwitchImplements
  <2>5. c \in Pid
    BY DEF c
  <2>6. /\ chosen' \in Pid /\ s[chosen'] = "ready"
        /\ Status' = [s EXCEPT ![chosen] = "ready", ![chosen'] = "running"]
    BY <2>3, <2>4, <2>5, StatusValues
  <2>7. s = [Status EXCEPT ![c] = "ready"]
    BY DEF s
  <2>8. Life!CreateAndSwitch(c, chosen, chosen')
    BY <2>6, <2>7, <1>6, CreateAndSwitchIs, Zenon
  <2> QED BY <2>5, <2>6, <2>8, <1>6, LifeSteps, Zenon
<1>8. CASE process_list' = l /\ state' = st /\ toKill_list' = toKill_list
  <2>1. InLists' = InLists \cup {c}
    BY <1>5, <1>8 DEF InLists
  <2>2. Status' = [p \in Pid |-> StatusIn(st[p], p, InLists')]
    BY <1>8 DEF Status
  <2>3. \A p \in Pid : p # c => StatusIn(st[p], p, InLists') = Status[p]
    <3> SUFFICES ASSUME NEW p \in Pid, p # c
                 PROVE  StatusIn(st[p], p, InLists') = Status[p]
      OBVIOUS
    <3>1. st[p] = state[p] /\ state[p] \in States /\ (p \in InLists' <=> p \in InLists)
      BY <2>1, <1>4
    <3>2. Status[p] = StatusIn(state[p], p, InLists)
      BY DEF Status
    <3> HIDE DEF st, c
    <3> QED BY <3>1, <3>2, StatusSame
  <2>4. StatusIn(st[c], c, InLists') = "ready"
    <3>1. st[c] = "ACTIVABLE"
      BY <1>1, <1>4 DEF IInv, TypeOK
    <3> QED BY <3>1, StatusValues
  <2>5. Status = [p \in Pid |-> Status[p]]
    BY DEF Status
  <2>6. Status' = s
    <3> HIDE DEF st, c
    <3> QED BY <2>2, <2>3, <2>4, <2>5
  <2> HIDE DEF c
  <2>7. Life!Create(c)
    BY <2>6, <1>6, CreateIs DEF s
  <2> QED BY <2>7, <1>6, LifeSteps, Zenon DEF c
<1> QED BY <1>2, <1>7, <1>8

\* A call that changes no state is made with the status as it is; so is one
\* that changes the state of process k alone, for all the others.
LEMMA CallStatusBut ==
  ASSUME ConstantsAssumption, IInv, NEW k \in Pid, NEW x \in States,
         NEW st, st = [state EXCEPT ![k] = x]
  PROVE  StatusAtCall(st) =
           [Status EXCEPT ![k] = StatusIn(x, k, InLists \cup {chosen})]
<1>1. st \in [Pid -> States] /\ st[k] = x /\ \A p \in Pid : p # k => st[p] = state[p]
  BY DEF IInv, TypeOK
<1>2. \A p \in Pid : p # k => StatusAtCall(st)[p] = Status[p]
  <2> TAKE p \in Pid
  <2>1. CASE p = chosen /\ p # k
    <3>1. st[p] = "CHOSEN"
      BY <1>1, <2>1, Facts
    <3>2. StatusAtCall(st)[p] = StatusIn(st[p], p, InLists \cup {chosen})
      BY DEF StatusAtCall
    <3>3. Status[p] = "running"
      BY <2>1, StatusCases
    <3> QED BY <3>1, <3>2, <3>3, StatusValues
  <2>2. CASE p # chosen /\ p # k
    BY <1>1, <2>2, CallStatus
  <2> QED BY <2>1, <2>2
<1>3. StatusAtCall(st)[k] = StatusIn(x, k, InLists \cup {chosen})
  BY <1>1 DEF StatusAtCall
<1>4. /\ StatusAtCall(st) = [p \in Pid |-> StatusAtCall(st)[p]]
      /\ Status = [p \in Pid |-> Status[p]]
  BY DEF StatusAtCall, Status
<1> QED BY <1>2, <1>3, <1>4

LEMMA CallStatusSame ==
  ASSUME ConstantsAssumption, IInv
  PROVE  StatusAtCall(state) = Status
<1>1. /\ state = [state EXCEPT ![chosen] = "CHOSEN"]
      /\ chosen \in Pid /\ "CHOSEN" \in States
  BY Facts DEF IInv, TypeOK, States
<1>2. StatusAtCall(state) =
        [Status EXCEPT ![chosen] = StatusIn("CHOSEN", chosen, InLists \cup {chosen})]
  BY <1>1, CallStatusBut
<1>3. Status[chosen] = "running" /\ Status = [p \in Pid |-> Status[p]]
  BY StatusCases DEF Status
<1> QED BY <1>2, <1>3, StatusValues

\* A call of ordonnance by a process that stays ready.
LEMMA YieldImplements ==
  ASSUME ConstantsAssumption, IInv,
         NEW l, NEW pr \in [Pid -> Nat], Callable(l, state),
         Ordonnance(l, state, pr),
         \A p \in Pid : state[p] = "ZOMBIE" => (p \in Range(l) <=> p \in Range(process_list))
  PROVE  Life!LifeNext \/ Status' = Status
<1>1. \/ Status' = Status
      \/ /\ chosen' \in Pid /\ Status[chosen'] = "ready"
         /\ Status' = [Status EXCEPT ![chosen] = StatusIn(Left(chosen, state), chosen, {chosen}),
                                ![chosen'] = "running"]
  BY SwitchImplements, CallStatusSame
<1>2. Left(chosen, state) = "ACTIVABLE"
  BY Facts DEF Left
<1>3. chosen \in Pid /\ Status[chosen] = "running"
  BY StatusCases
<1>4. CASE Status' = Status
  BY <1>4
<1>5. CASE /\ chosen' \in Pid /\ Status[chosen'] = "ready"
           /\ Status' = [Status EXCEPT ![chosen] = StatusIn(Left(chosen, state), chosen, {chosen}),
                                  ![chosen'] = "running"]
  <2>0. StatusIn(Left(chosen, state), chosen, {chosen}) = "ready"
    BY <1>2, StatusValues
  <2>1. Status' = [Status EXCEPT ![chosen] = "ready", ![chosen'] = "running"]
    BY <2>0, <1>5, Zenon
  <2>2. Life!Yield(chosen, chosen')
    BY <2>1, <1>5, YieldIs
  <2> QED BY <2>2, <1>3, <1>5, LifeSteps, Zenon
<1> QED BY <1>1, <1>4, <1>5

LEMMA ExitImplements ==
  ASSUME ConstantsAssumption, IInv, NEW v, Exit(v)
  PROVE  Life!LifeNext
<1> DEFINE st == [state EXCEPT ![chosen] = "ZOMBIE"]
<1>1. chosen # Idle /\ Ordonnance(process_list, st, prio)
  BY DEF Exit, AtUser
<1>2. Callable(process_list, st)
  BY <1>1, LeaverCalls
<1>3. /\ prio \in [Pid -> Nat] /\ chosen \in Pid /\ Status[chosen] = "running"
      /\ st[Idle] = "ACTIVABLE" /\ Idle \in Pid /\ Left(chosen, st) = "ZOMBIE"
  BY <1>1, Facts, StatusCases DEF IInv, IdleReady, TypeOK, Left
<1>4. StatusAtCall(st) = [Status EXCEPT ![chosen] = "dead"]
  <2>1. StatusAtCall(st) =
          [Status EXCEPT ![chosen] = StatusIn("ZOMBIE", chosen, InLists \cup {chosen})]
    BY <1>3, CallStatusBut DEF States
  <2>2. StatusIn("ZOMBIE", chosen, InLists \cup {chosen}) = "dead"
    BY StatusValues
  <2> QED BY <2>1, <2>2, Zenon
<1>5. \A p \in Pid : st[p] = "ZOMBIE" =>
        (p \in Range(process_list) <=> p \in Range(process_list))
  OBVIOUS
<1> HIDE DEF st
<1>6. /\ chosen' \in Pid /\ chosen' # chosen
      /\ StatusAtCall(st)[chosen'] = "ready"
      /\ Status' = [StatusAtCall(st) EXCEPT ![chosen] = StatusIn("ZOMBIE", chosen, {chosen}),
                             ![chosen'] = "running"]
  BY <1>1, <1>2, <1>3, <1>5, SwitchImplements
<1>7. StatusIn("ZOMBIE", chosen, {chosen}) = "dead"
  BY StatusValues
<1>8. Status = [p \in Pid |-> Status[p]]
  BY DEF Status
<1>9. /\ Status[chosen'] = "ready"
      /\ Status' = [Status EXCEPT ![chosen] = "dead", ![chosen'] = "running"]
  BY <1>3, <1>4, <1>6, <1>7, <1>8
<1>10. Life!Die(chosen, chosen')
  BY <1>1, <1>9, DieIs
<1> QED BY <1>3, <1>6, <1>10, LifeSteps, Zenon

LEMMA KillImplements ==
  ASSUME ConstantsAssumption, IInv, NEW k, Kill(k)
  PROVE  Life!LifeNext
<1> DEFINE st == [state EXCEPT ![k] = "ZOMBIE"]
<1>1. /\ chosen # Idle /\ Ordonnance(process_list, st, prio)
      /\ k \in Range(process_list) /\ state[k] # "ZOMBIE" /\ k # Idle
  BY DEF Kill, AtUser, Killable, Idle
<1>2. Callable(process_list, st)
  BY <1>1, KillerCalls
<1>3. /\ prio \in [Pid -> Nat] /\ chosen \in Pid /\ Status[chosen] = "running"
      /\ k \in Pid /\ k # chosen /\ k \in InLists /\ state[k] = "ACTIVABLE"
      /\ Idle \in Pid
  BY <1>1, Facts, StatusCases DEF IInv, Conservation, InLists
<1>4. st[Idle] = "ACTIVABLE" /\ Left(chosen, st) = "ACTIVABLE" /\ Status[k] = "ready"
  BY <1>1, <1>3, Facts, StatusCases DEF IInv, IdleReady, Left
<1>5. StatusAtCall(st) = [Status EXCEPT ![k] = "dead"]
  <2>1. StatusAtCall(st) =
          [Status EXCEPT ![k] = StatusIn("ZOMBIE", k, InLists \cup {chosen})]
    BY <1>3, CallStatusBut DEF States
  <2>2. StatusIn("ZOMBIE", k, InLists \cup {chosen}) = "dead"
    BY <1>3, StatusValues
  <2> QED BY <2>1, <2>2, Zenon
<1>6. \A p \in Pid : st[p] = "ZOMBIE" =>
        (p \in Range(process_list) <=> p \in Range(process_list))
  OBVIOUS
<1> HIDE DEF st
<1>7. /\ chosen' \in Pid /\ StatusAtCall(st)[chosen'] = "ready"
      /\ Status' = [StatusAtCall(st) EXCEPT ![chosen] = StatusIn("ACTIVABLE", chosen, {chosen}),
                             ![chosen'] = "running"]
  BY <1>1, <1>2, <1>3, <1>4, <1>6, SwitchImplements
<1>8. Status' = [StatusAtCall(st) EXCEPT ![chosen] = "ready", ![chosen'] = "running"]
  <2>1. StatusIn("ACTIVABLE", chosen, {chosen}) = "ready"
    BY StatusValues
  <2> QED BY <2>1, <1>7, Zenon
<1>9. Life!KillAndSwitch(k, chosen, chosen')
  BY <1>1, <1>4, <1>5, <1>7, <1>8, KillAndSwitchIs, Zenon
<1> QED BY <1>3, <1>7, <1>9, LifeSteps, Zenon

LEMMA TickImplements ==
  ASSUME ConstantsAssumption, IInv, Tick
  PROVE  Life!LifeNext \/ Status' = Status
<1>1. Ordonnance(process_list, state, prio)
  BY DEF Tick
<1>2. \A p \in Pid : state[p] = "ZOMBIE" =>
        (p \in Range(process_list) <=> p \in Range(process_list))
  OBVIOUS
<1> QED BY <1>1, <1>2, Facts, YieldImplements

\* A step that changes neither a state nor a list changes no status.
LEMMA QuietImplements ==
  ASSUME UNCHANGED <<state, process_list, toKill_list>>
  PROVE  Status' = Status
<1>1. InLists' = InLists
  BY DEF InLists
<1> QED BY <1>1 DEF Status

\* chprio of a process that is not a zombie calls ordonnance with the same
\* processes in the queue; of a zombie, it changes no status.
LEMMA ChprioImplements ==
  ASSUME ConstantsAssumption, IInv, NEW k, NEW newprio, Chprio(k, newprio)
  PROVE  Life!LifeNext \/ Status' = Status
<1> DEFINE l1    == queue_add(chosen, process_list, prio)
           prio1 == [prio EXCEPT ![k] = newprio]
           l2    == IF state[k] = "ACTIVABLE"
                    THEN queue_add(k, queue_del(k, l1), prio1) ELSE l1
           l     == queue_del(chosen, l2)
<1>1. /\ newprio \in Prio /\ k \in Range(l1)
      /\ IF state[k] # "ZOMBIE" THEN Ordonnance(l, state, prio1)
                                ELSE UNCHANGED <<state, lists>>
  BY Zenon DEF Chprio
<1>2. k \in Pid
  <2>1. Range(l1) = Range(process_list) \cup {chosen}
    BY Facts, AddRange
  <2> QED BY <2>1, <1>1, Facts
<1>3. Callable(l, state) /\ Range(l) = Range(process_list)
  BY <1>1, <1>2, ChprioCalls, Zenon
<1>4. prio1 \in [Pid -> Nat]
  <2>1. newprio \in Nat /\ prio \in [Pid -> Nat]
    BY <1>1, Facts DEF Prio
  <2> QED BY <2>1
<1> HIDE DEF l, prio1
<1>5. CASE state[k] # "ZOMBIE"
  <2>1. Ordonnance(l, state, prio1)
    BY <1>1, <1>5
  <2>2. \A p \in Pid : state[p] = "ZOMBIE" => (p \in Range(l) <=> p \in Range(process_list))
    BY <1>3
  <2> QED BY <2>1, <2>2, <1>3, <1>4, YieldImplements
<1>6. CASE state[k] = "ZOMBIE"
  BY <1>1, <1>6, QuietImplements DEF lists
<1> QED BY <1>5, <1>6

\* waitpid collects a zombie, which Conservation finds in its list.
LEMMA ReapImplements ==
  ASSUME ConstantsAssumption, IInv, WaitpidReap
  PROVE  Life!LifeNext
<1> DEFINE a == Awaited
<1>1. /\ state[a] \notin {"ACTIVABLE", "CHOSEN"} /\ Linked(a) /\ state' = state
      /\ process_list' = IF a \in Range(process_list)
                         THEN queue_del(a, process_list) ELSE process_list
      /\ toKill_list' = toKill_list \ {a}
  BY DEF WaitpidReap, table
<1> HIDE DEF a
<1>2. a \in Pid /\ a \in InLists /\ state[a] = "ZOMBIE"
  BY <1>1, Facts DEF IInv, TypeOK, Conservation, Linked, InLists
<1>3. Range(process_list') = Range(process_list) \ {a}
  <2>1. a \in Range(process_list) =>
          Range(queue_del(a, process_list)) = Range(process_list) \ {a}
    BY Facts, DelRange DEF IInv, Conservation
  <2> QED BY <2>1, <1>1
<1>4. InLists' = InLists \ {a}
  BY <1>1, <1>3 DEF InLists
<1>5. \A p \in Pid : p # a => StatusIn(state[p], p, InLists') = Status[p]
  <2> TAKE p \in Pid
  <2> HAVE p # a
  <2>1. state[p] \in States /\ (p \in InLists' <=> p \in InLists)
    BY <1>4 DEF IInv, TypeOK
  <2>2. Status[p] = StatusIn(state[p], p, InLists)
    BY DEF Status
  <2> QED BY <2>1, <2>2, StatusSame
<1>6. StatusIn(state[a], a, InLists') = "collected"
  BY <1>2, <1>4, StatusValues
<1>7. Status' = [p \in Pid |-> StatusIn(state[p], p, InLists')]
  BY <1>1 DEF Status
<1>8. Status = [p \in Pid |-> Status[p]]
  BY DEF Status
<1>9. Status' = [Status EXCEPT ![a] = "collected"]
  BY <1>2, <1>5, <1>6, <1>7, <1>8
<1>10. chosen \in Pid /\ Status[chosen] = "running" /\ Status[a] = "dead"
  BY <1>2, StatusCases
<1>11. Life!Collect(a)
  BY <1>9, <1>10, CollectIs
<1> QED BY <1>2, <1>10, <1>11, LifeSteps, Zenon

\* Every step.
LEMMA NextImplements ==
  ASSUME ConstantsAssumption, IInv, [Next]_vars
  PROVE  Life!LifeNext \/ Status' = Status
<1> DEFINE Goal == Life!LifeNext \/ Status' = Status
<1> HIDE DEF Goal
<1>1. ASSUME NEW pr \in Prio, Boot(pr) PROVE Goal
  <2>1. pidmax + 1 \in Pid /\ NewProcess(pr)
    <3>1. NewProcess(pr) /\ pc[chosen] = "boot"
      BY <1>1 DEF Boot, Running
    <3>2. pc[Idle] = "boot"
      BY <3>1, Facts DEF IInv, Fresh
    <3> QED BY <3>1, <3>2 DEF IInv, Fresh, Pid, ConstantsAssumption
  <2> QED BY <2>1, NewProcessImplements DEF Goal
<1>2. ASSUME NEW pr \in PrioArg, Start(pr) PROVE Goal
  <2>1. pr \in Prio /\ NewProcess(pr) /\ pidmax + 1 < PROCESS_TABLE_SIZE
    BY <1>2 DEF Start
  <2>2. pidmax + 1 \in Pid
    BY <2>1 DEF Pid, IInv, TypeOK, ConstantsAssumption
  <2> QED BY <2>1, <2>2, NewProcessImplements DEF Goal
<1>3. ASSUME NEW v \in RETVALS, Exit(v) PROVE Goal
  BY <1>3, ExitImplements DEF Goal
<1>4. ASSUME NEW k \in PidArg, Kill(k) PROVE Goal
  BY <1>4, KillImplements DEF Goal
<1>5. ASSUME NEW k \in PidArg, NEW pr \in PrioArg, Chprio(k, pr) PROVE Goal
  BY <1>5, ChprioImplements DEF Goal
<1>6. ASSUME Tick PROVE Goal
  BY <1>6, TickImplements DEF Goal
<1>7. ASSUME WaitpidReap PROVE Goal
  BY <1>7, ReapImplements DEF Goal
<1>8. ASSUME UNCHANGED <<state, process_list, toKill_list>> PROVE Goal
  BY <1>8, QuietImplements DEF Goal
<1>9. ASSUME \/ \E pr \in PrioArg : StartRefused(pr)
             \/ StartNoStack \/ StartFault
             \/ \E k \in PidArg : KillRefused(k) \/ Waitpid(k) \/ WaitpidRefused(k)
             \/ \E k \in PidArg, pr \in PrioArg : ChprioRefused(k, pr)
             \/ StartReturn \/ KillReturn \/ ChprioReturn \/ WaitpidSpin
             \/ WaitpidPanic \/ TickReturn \/ Sti \/ Cli \/ UNCHANGED vars
      PROVE  Goal
  <2>1. UNCHANGED <<state, process_list, toKill_list>>
    BY <1>9 DEF StartRefused, StartNoStack, StartFault, KillRefused, Waitpid,
                WaitpidRefused, ChprioRefused, StartReturn, KillReturn, ChprioReturn, WaitpidSpin,
                WaitpidPanic, TickReturn, Sti, Cli, vars, table, lists
  <2> QED BY <2>1, <1>8
<1>10. Next => Goal
  BY <1>1, <1>2, <1>3, <1>4, <1>5, <1>6, <1>7, <1>9
     DEF Next, Primitive, ChangePriority, Resume
<1> QED BY <1>9, <1>10 DEF Goal

-----------------------------------------------------------------------------
(* The theorem *)

LEMMA InitImplements ==
  ASSUME ConstantsAssumption, Init
  PROVE  Life!LifeInit
<1>1. Status = [p \in Pid |-> IF p = Idle THEN "running" ELSE "absent"]
  <2>1. \A p \in Pid : StatusIn(state[p], p, InLists) =
                         IF p = Idle THEN "running" ELSE "absent"
    <3> TAKE p \in Pid
    <3>1. state[p] = IF p = Idle THEN "CHOSEN" ELSE "NONE"
      BY DEF Init
    <3> QED BY <3>1, StatusValues
  <2> QED BY <2>1 DEF Status
<1> QED BY <1>1, StatusIsMapped DEF Life!LifeInit

\* The scheduler and the process primitives implement the life of a process
\* as ProcessLifecycle promises it, for tables of any size: every step of
\* process.c is one of its steps or changes the status of no process.
THEOREM LifecycleImplemented == Spec => ImplementsLifecycle
<1>1. Init => Life!LifeInit
  BY InitImplements, ConstantsAssumption
<1>2. IInv /\ [Next]_vars =>
        [Life!LifeStep]_([p \in Pid |-> StatusOf(p)])
  BY NextImplements, StatusIsMapped, ConstantsAssumption DEF Life!LifeStep
<1> QED BY <1>1, <1>2, IInvHolds, PTL
        DEF Spec, ImplementsLifecycle, Life!LifeSpec

=============================================================================
