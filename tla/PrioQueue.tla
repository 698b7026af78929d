----------------------------- MODULE PrioQueue -----------------------------
(***************************************************************************)
(* shared/queue.h as pure operators on sequences.                          *)
(*                                                                         *)
(* A queue is the sequence of its elements from head.next (position 1) to  *)
(* head.prev (the last position, the element that leaves first).  prio is  *)
(* the function that gives the priority field of every element; it is an   *)
(* argument because the code can change the field of a queued element.     *)
(* LinkQueue shows that the pointer manipulation of the macros implements  *)
(* these operators.                                                        *)
(***************************************************************************)
EXTENDS Naturals, Sequences, Functions

\* Variants of ScanStop: a scan that goes past equal priorities too, and one
\* that compares the wrong way round.
ScanStopPastEquals(e, q, prio) ==
  CHOOSE k \in 1..Len(q)+1 :
    /\ k = Len(q) + 1 \/ prio[q[k]] > prio[e]
    /\ \A i \in 1..k-1 : prio[q[i]] <= prio[e]

ScanStopReversed(e, q, prio) ==
  CHOOSE k \in 1..Len(q)+1 :
    /\ k = Len(q) + 1 \/ prio[q[k]] <= prio[e]
    /\ \A i \in 1..k-1 : prio[q[i]] > prio[e]

\* Where the scan of queue_add stops: the first position whose element has
\* a priority that is not below the new one, or one past the end.
ScanStop(e, q, prio) ==
  CHOOSE k \in 1..Len(q)+1 :
    /\ k = Len(q) + 1 \/ prio[q[k]] >= prio[e]
    /\ \A i \in 1..k-1 : prio[q[i]] < prio[e]

\* The macro queue_add without its assertion: e linked before the element
\* on which the scan stopped.
queue_add(e, q, prio) ==
  LET k == ScanStop(e, q, prio)
  IN  [i \in 1..Len(q)+1 |->
         IF i < k THEN q[i] ELSE IF i = k THEN e ELSE q[i-1]]

\* The macro queue_del without its assertion, for an e that is in q.
queue_del(e, q) ==
  LET k == CHOOSE k \in DOMAIN q : q[k] = e
  IN  [i \in 1..Len(q)-1 |-> IF i < k THEN q[i] ELSE q[i+1]]

\* The element queue_top returns and queue_out removes, and what is left.
queue_top(q)  == q[Len(q)]
queue_rest(q) == SubSeq(q, 1, Len(q) - 1)

\* The order the header promises: increasing priority from the head.
Sorted(q, prio) == \A i, j \in DOMAIN q : i < j => prio[q[i]] <= prio[q[j]]
=============================================================================
