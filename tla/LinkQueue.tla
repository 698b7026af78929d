----------------------------- MODULE LinkQueue -----------------------------
(***************************************************************************)
(* The pointers of shared/queue.h: circular doubly linked lists through    *)
(* list heads.  An address is that of a head or of the link field of an    *)
(* element, one such field per element, shared by all the queues.          *)
(***************************************************************************)
EXTENDS Naturals, Sequences, Functions, FiniteSets

CONSTANTS Elems, Heads, Prio,
          NULL      \* the pointer 0

ASSUME LinkConstants ==
  /\ Elems \cap Heads = {} /\ NULL \notin Elems \cup Heads
  /\ IsFiniteSet(Elems)
  /\ Prio \subseteq Nat

VARIABLES
  prev, next,   \* the two pointers of every link
  prio,         \* the priority field of every element
  failed,       \* an assertion has failed
  given,        \* what the last operation returned, if it was queue_out
  arrivals      \* history: the queued elements in the order of queue_add

linkvars == <<prev, next, prio, failed, given, arrivals>>

Link == Elems \cup Heads

\* LIST_HEAD for the heads; the links of elements start as zero, from
\* mem_alloc or crt0.
LinkInit ==
  /\ prev = [n \in Link |-> IF n \in Heads THEN n ELSE NULL]
  /\ next = [n \in Link |-> IF n \in Heads THEN n ELSE NULL]
  /\ prio \in [Elems -> Prio]
  /\ failed = FALSE
  /\ given = NULL
  /\ arrivals = << >>

queue_empty(h) == next[h] = h

\* The contents of a queue, by following next from its head: At(h)[i] is
\* where i steps lead.
At(h) ==
  LET at[i \in 0..Cardinality(Elems)+1] == IF i = 0 THEN h ELSE next[at[i-1]]
  IN  at
Contents(h) ==
  LET at == At(h)
      n == CHOOSE n \in 0..Cardinality(Elems) :
             at[n+1] = h /\ \A i \in 1..n : at[i] # h
  IN  [i \in 1..n |-> at[i]]

\* Variant: the scan goes past elements of equal priority.
StopsPastEquals(e, h, n) == n = h \/ ~(prio[n] <= prio[e])

\* The link before which queue_add inserts e: the first one, from head.next
\* on, that is the head again or whose element is not below e.
StopsAt(e, h, n) == n = h \/ ~(prio[n] < prio[e])
InsertionPoint(e, h) ==
  LET i == CHOOSE i \in 1..Cardinality(Elems)+1 :
             /\ StopsAt(e, h, At(h)[i])
             /\ \A j \in 1..i-1 : ~StopsAt(e, h, At(h)[j])
  IN  At(h)[i]

Unlinked(e) == prev[e] = NULL /\ next[e] = NULL

Add(e, h) ==
  LET cur == InsertionPoint(e, h)
  IN  /\ ~failed
      /\ Unlinked(e)
      /\ next' = [next EXCEPT ![e] = cur, ![prev[cur]] = e]
      /\ prev' = [prev EXCEPT ![e] = prev[cur], ![cur] = e]
      /\ given' = NULL
      /\ arrivals' = Append(arrivals, e)
      /\ UNCHANGED <<prio, failed>>

Arrival(e) == CHOOSE i \in DOMAIN arrivals : arrivals[i] = e
Leaves(e) ==
  [j \in 1..Len(arrivals)-1 |-> IF j < Arrival(e) THEN arrivals[j] ELSE arrivals[j+1]]

\* Variants: the element taken out keeps its pointers, or it is the first
\* of the list (queue_bottom) instead of the last.
OutKeepsLinks(h) ==
  LET last   == prev[h]
      before == prev[last]
  IN  /\ ~failed
      /\ ~queue_empty(h)
      /\ prev' = [prev EXCEPT ![h] = before]
      /\ next' = [next EXCEPT ![before] = h]
      /\ given' = last
      /\ arrivals' = Leaves(last)
      /\ UNCHANGED <<prio, failed>>

OutBottom(h) ==
  LET first == next[h]
      after == next[first]
  IN  /\ ~failed
      /\ ~queue_empty(h)
      /\ next' = [next EXCEPT ![h] = after, ![first] = NULL]
      /\ prev' = [prev EXCEPT ![after] = h, ![first] = NULL]
      /\ given' = first
      /\ arrivals' = Leaves(first)
      /\ UNCHANGED <<prio, failed>>

Out(h) ==
  LET last   == prev[h]
      before == prev[last]
  IN  /\ ~failed
      /\ ~queue_empty(h)
      /\ prev' = [prev EXCEPT ![h] = before, ![last] = NULL]
      /\ next' = [next EXCEPT ![before] = h, ![last] = NULL]
      /\ given' = last
      /\ arrivals' = Leaves(last)
      /\ UNCHANGED <<prio, failed>>

OutEmpty(h) ==
  /\ ~failed
  /\ queue_empty(h)
  /\ given' = NULL
  /\ UNCHANGED <<prev, next, prio, failed, arrivals>>

\* Variant: the link is not zeroed.
DelKeepsLinks(e) ==
  /\ ~failed
  /\ prev[e] # NULL /\ next[e] # NULL
  /\ next' = [next EXCEPT ![prev[e]] = next[e]]
  /\ prev' = [prev EXCEPT ![next[e]] = prev[e]]
  /\ given' = NULL
  /\ arrivals' = Leaves(e)
  /\ UNCHANGED <<prio, failed>>

Del(e) ==
  /\ ~failed
  /\ prev[e] # NULL /\ next[e] # NULL
  /\ next' = [next EXCEPT ![prev[e]] = next[e], ![e] = NULL]
  /\ prev' = [prev EXCEPT ![next[e]] = prev[e], ![e] = NULL]
  /\ given' = NULL
  /\ arrivals' = Leaves(e)
  /\ UNCHANGED <<prio, failed>>

\* The assertions of queue_add and queue_del.
AddFails(e) ==
  /\ ~failed /\ ~Unlinked(e)
  /\ failed' = TRUE
  /\ given' = NULL
  /\ UNCHANGED <<prev, next, prio, arrivals>>

DelFails(e) ==
  /\ ~failed /\ (prev[e] = NULL \/ next[e] = NULL)
  /\ failed' = TRUE
  /\ given' = NULL
  /\ UNCHANGED <<prev, next, prio, arrivals>>

\* The owner of an element that is in no queue changes its priority, as start
\* does before it queues it.  chprio writes the priority of a queued element
\* (process.c:374): one it then takes out and adds again might as well have
\* been changed in between, since queue_del does not look at it; a zombie stays
\* where it is, and what becomes of the order then is the matter of
\* OnlyZombiesUnsort, in Process.
SetPrio(e, v) ==
  /\ ~failed
  /\ Unlinked(e)
  /\ prio' = [prio EXCEPT ![e] = v]
  /\ given' = NULL
  /\ UNCHANGED <<prev, next, failed, arrivals>>

LinkNext ==
  \/ \E e \in Elems, h \in Heads : Add(e, h)
  \/ \E h \in Heads : Out(h) \/ OutEmpty(h)
  \/ \E e \in Elems : Del(e) \/ AddFails(e) \/ DelFails(e)
  \/ \E e \in Elems, v \in Prio : SetPrio(e, v)

LinkSpec == LinkInit /\ [][LinkNext]_linkvars

-----------------------------------------------------------------------------
(* Properties *)

\* The pointers of a linked element lead to linked ones and back; those of
\* an element in no queue are both 0.
LinksTyped ==
  /\ prev \in [Link -> Link \cup {NULL}]
  /\ next \in [Link -> Link \cup {NULL}]
  /\ \A n \in Link :
       \/ n \in Elems /\ Unlinked(n)
       \/ next[n] # NULL /\ prev[n] # NULL /\ prev[next[n]] = n /\ next[prev[n]] = n

\* Every linked element is on exactly one of the circles: no operation ever
\* splices two queues or leaves a circle that no head is on.
OneQueueEach ==
  LET members == [h \in Heads |-> Range(Contents(h))] IN
  \A e \in Elems : ~Unlinked(e) <=> Cardinality({h \in Heads : e \in members[h]}) = 1

\* The element queue_out gives is one of the highest priority, and of those
\* the one that was added first ("A priorite egale, comportement FIFO").
HighestFirstCome ==
  \A h \in Heads : ~queue_empty(h) =>
    \A e \in Range(Contents(h)) \ {prev[h]} :
      \/ prio[e] < prio[prev[h]]
      \/ prio[e] = prio[prev[h]] /\ Arrival(prev[h]) < Arrival(e)

\* The macros implement the operators of PrioQueue.
Abstract == INSTANCE QueueSpec WITH queue <- [h \in Heads |-> Contents(h)]
ImplementsQueue == Abstract!QueueBehaviour
=============================================================================
