----------------------------- MODULE QueueSpec -----------------------------
(***************************************************************************)
(* What shared/queue.h promises: queues of elements in which an element is *)
(* in one queue at a time, and which give out the element of highest       *)
(* priority, the one that came first among equals.                         *)
(***************************************************************************)
EXTENDS PrioQueue

CONSTANTS Elems, Heads, Prio,
          NULL   \* no element

VARIABLES
  queue,    \* the contents of each queue, next to its head first
  prio,     \* the priority field of each element
  failed,   \* an assertion of the header has stopped the program
  given     \* the element the last operation took out as the first to leave

Queued(e) == \E h \in Heads : e \in Range(queue[h])

QueueInit ==
  /\ queue = [h \in Heads |-> << >>]
  /\ prio \in [Elems -> Prio]
  /\ failed = FALSE
  /\ given = NULL

AddTo(h, e) ==
  /\ ~Queued(e)
  /\ queue' = [queue EXCEPT ![h] = queue_add(e, @, prio)]
  /\ given' = NULL
  /\ UNCHANGED <<prio, failed>>

TakeFromEmpty(h) ==
  /\ queue[h] = << >>
  /\ given' = NULL
  /\ UNCHANGED <<queue, prio, failed>>

TakeFrom(h) ==
  /\ queue[h] # << >>
  /\ given' = queue_top(queue[h])
  /\ queue' = [queue EXCEPT ![h] = queue_rest(@)]
  /\ UNCHANGED <<prio, failed>>

Delete(e) ==
  /\ \E h \in Heads :
       /\ e \in Range(queue[h])
       /\ queue' = [queue EXCEPT ![h] = queue_del(e, @)]
  /\ given' = NULL
  /\ UNCHANGED <<prio, failed>>

\* Adding a queued element or deleting one that is not is an error of the
\* caller, which the header detects.
Misuse ==
  /\ failed' = TRUE
  /\ given' = NULL
  /\ UNCHANGED <<queue, prio>>

Reprioritise(e, v) ==
  /\ ~Queued(e)
  /\ prio' = [prio EXCEPT ![e] = v]
  /\ given' = NULL
  /\ UNCHANGED <<queue, failed>>

QueueNext ==
  /\ ~failed
  /\ \/ \E h \in Heads : TakeFromEmpty(h) \/ TakeFrom(h)
     \/ \E e \in Elems, h \in Heads : AddTo(h, e)
     \/ \E e \in Elems : Delete(e)
     \/ Misuse
     \/ \E e \in Elems, v \in Prio : Reprioritise(e, v)

QueueBehaviour == QueueInit /\ [][QueueNext]_<<queue, prio, failed, given>>
=============================================================================
