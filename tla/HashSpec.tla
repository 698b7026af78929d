------------------------------ MODULE HashSpec ------------------------------
(***************************************************************************)
(* What kernel/hash.h promises: a map from keys to values, whatever the    *)
(* table behind it does.                                                   *)
(***************************************************************************)
EXTENDS Integers

CONSTANTS Keys, Values,
          Same(_, _, _),  \* two keys are one for a kind of table
          NONE            \* no value, and the default asked of hash_get

VARIABLES
  kind,      \* the kind of table: "direct", "string", or "none"
  contents,  \* the value of each key
  answer     \* what the last operation returned

Empty == [k \in Keys |-> NONE]

Create ==
  /\ kind' \in {"direct", "string"} /\ contents' = Empty /\ answer' = 0

CannotCreate == answer' = -1 /\ UNCHANGED <<kind, contents>>

Destroy == kind' = "none" /\ contents' = Empty /\ answer' = 0

\* Setting and deleting may report that memory is short, and have their
\* effect all the same.
Write(k, v) ==
  /\ answer' \in {0, -1}
  /\ UNCHANGED kind
  /\ LET old == contents IN
       contents' = [x \in Keys |-> IF Same(kind, x, k) THEN v ELSE old[x]]

Get(k) == answer' = contents[k] /\ UNCHANGED <<kind, contents>>

Isset(k) ==
  /\ answer' = IF contents[k] = NONE THEN 0 ELSE 1
  /\ UNCHANGED <<kind, contents>>

MapInit == kind = "none" /\ contents = Empty /\ answer = 0

MapNext ==
  \/ kind = "none" /\ (Create \/ CannotCreate)
  \/ kind # "none" /\ (\/ Destroy
                       \/ \E k \in Keys, v \in Values \cup {NONE} : Write(k, v)
                       \/ \E k \in Keys : Get(k) \/ Isset(k))

MapBehaviour == MapInit /\ [][MapNext]_<<kind, contents, answer>>
=============================================================================
