---------------------------- MODULE MCLibraries ----------------------------
(***************************************************************************)
(* The code that runs without interruption and keeps its state to itself,  *)
(* one part to a behaviour: the lists of queue.h, the hash table, the heap *)
(* and the functions of Library.                                           *)
(*                                                                         *)
(* The addresses used as keys collide in tables of 4 and 8 slots, and two  *)
(* of them point to equal strings.  Words have five bits in Library,       *)
(* strings two letters, pages two bytes; the divisors are those around the *)
(* powers of two and the word.                                             *)
(***************************************************************************)
EXTENDS LinkQueue, Hash, HashFunctions, Heap, LibraryProperties

VARIABLE part   \* the part that runs

Parts == {"queue", "hash", "heap", "library"}

AnyPrio == [e \in Elems |-> Min(Prio)]

Init ==
  /\ part \in Parts
  /\ LinkInit /\ (part # "queue" => prio = AnyPrio)
  /\ TableInit /\ HeapInit /\ LibraryInit

Next ==
  \/ part = "queue" /\ LinkNext /\ UNCHANGED <<part, hashvars, heapvars, call>>
  \/ part = "hash" /\ TableNext /\ UNCHANGED <<part, linkvars, heapvars, call>>
  \/ part = "heap" /\ HeapNext /\ UNCHANGED <<part, linkvars, hashvars, call>>
  \/ part = "library" /\ LibraryNext /\ UNCHANGED <<part, linkvars, hashvars, heapvars>>

Spec == Init /\ [][Next]_<<part, linkvars, hashvars, heapvars, call>>

MCText == 4 :> <<97>> @@ 20 :> <<97>> @@ 36 :> <<105>> @@ 39 :> <<98, 97>>
MCHash(k) == k :> hash_string_hfunc(MCText[k])
MCStringHash == MCHash(4) @@ MCHash(20) @@ MCHash(36) @@ MCHash(39)
MCHfunc == [direct |-> [k \in ADDRESSES |-> hash_direct_hfunc(k)],
            string |-> MCStringHash]
MCLetters == {97, 98}
MCDividends == 0..1023
MCDivisors == {0, 1, 2, 5, 31, 32, 33, 47, 62, 63, 64, 65, 127, 128, 511, 512,
               991, 992, 993, 1022, 1023}
=============================================================================
