-------------------------------- MODULE Hash --------------------------------
(***************************************************************************)
(* The hash table of kernel/hash.c: open addressing with a perturbed probe *)
(* sequence, deleted slots, and a table that is resized by allocating      *)
(* another one, which may fail.  Memory never suffices for more than       *)
(* MAXSIZE slots; a smaller allocation may or may not succeed.             *)
(***************************************************************************)
EXTENDS Integers, Sequences, FiniteSetsExt, Functions

CONSTANTS
  HASH_MINSIZE,  \* size of a new table, a power of two
  MAXSIZE,       \* bound: no memory for a larger table
  ADDRESSES,     \* the pointers used as keys
  text,          \* the string each of them points to, as character codes
  hfunc,         \* the hash of each of them, by the functions of either kind
  VALUES         \* the values stored

NOKEY == 0
NONE == 0
NOSLOT == -1

Kinds == {"direct", "string"}

PowerOfTwo(s) == \A d \in 2..s : s % d = 0 => d % 2 = 0

Sizes == {s \in 1..MAXSIZE : PowerOfTwo(s)}

\* The unsigned values of a word of 32 bits.
IsWord(h) == h \in Nat /\ h \div 65536 < 65536

ASSUME HashAssumption ==
  /\ MAXSIZE \in Nat /\ HASH_MINSIZE \in Sizes
  /\ NOKEY \notin ADDRESSES /\ NONE \notin VALUES
  /\ DOMAIN text = ADDRESSES
  /\ hfunc \in [Kinds -> [ADDRESSES -> Nat]]
  /\ \A which \in Kinds, k \in ADDRESSES : IsWord(hfunc[which][k])
  /\ \A k1, k2 \in ADDRESSES :
        text[k1] = text[k2] => hfunc["string"][k1] = hfunc["string"][k2]

VARIABLES
  map,      \* the hash_t: size of the table, fill, count, slots
  kind,     \* the functions it was made with, "none" before hash_init
  answer,   \* what the last operation returned
  endless,  \* a lookup does not end
  refused   \* the last attempt to make the table larger has failed

hashvars == <<map, kind, answer, endless, refused>>

-----------------------------------------------------------------------------

cmp(which, k1, k2) == k1 = k2 \/ (which = "string" /\ text[k1] = text[k2])

EmptySlot == [key |-> NOKEY, value |-> NONE, hash |-> 0, mode |-> "SL_EMPTY"]

hash_initialize(size) ==
  [size |-> size, fill |-> 0, count |-> 0,
   table |-> [i \in 0..size-1 |-> EmptySlot]]

\* The n-th slot a lookup visits.
NextProbeShort(p, size) ==   \* a probe that stops being perturbed moves by 4
  [index |-> (4 * p.index + p.perturb + 1) % size,
   perturb |-> p.perturb \div 32]

NextProbe(p, size) ==
  [index |-> (5 * p.index + p.perturb + 1) % size,
   perturb |-> p.perturb \div 32]

\* A word is used up by the perturbation in 7 turns; the indices are periodic
\* from then on.
Turns(size) == 0 .. size + 7

Probe(hash, size) ==
  LET p[n \in Turns(size)] ==
        IF n = 0 THEN [index |-> hash % size, perturb |-> hash]
        ELSE NextProbe(p[n-1], size)
  IN  p

Hashes == UNION {Range(hfunc[which]) : which \in Kinds}

Probes ==
  [hash \in Hashes |-> [size \in Sizes |->
     LET p == Probe(hash, size) IN [n \in Turns(size) |-> p[n].index]]]

SetsFree(slot) == slot.mode = "SL_DELETED"

Matches(which, slot, key, hash) ==
  /\ slot.mode = "SL_ACTIVE"
  /\ slot.key = key \/ (slot.hash = hash /\ cmp(which, slot.key, key))

SlotAt(m, p, last) ==
  LET free == {n \in 0..last-1 : SetsFree(m.table[p[n]])} IN
  IF m.table[p[last]].mode = "SL_EMPTY" /\ free # {} THEN p[Min(free)] ELSE p[last]

\* A turn returns at an empty slot and at the one of the key.
Returns(which, slot, key, hash) ==
  slot.mode = "SL_EMPTY" \/ Matches(which, slot, key, hash)

LookupAlong(m, which, key, hash, p) ==
  LET Stops(n) == /\ Returns(which, m.table[p[n]], key, hash)
                 /\ \A i \in 0..n-1 : ~Returns(which, m.table[p[i]], key, hash)
  IN  IF \E n \in Turns(m.size) : Stops(n)
      THEN SlotAt(m, p, CHOOSE n \in Turns(m.size) : Stops(n)) ELSE NOSLOT

hash_lookup(m, which, key) ==
  LET hash == hfunc[which][key] IN LookupAlong(m, which, key, hash, Probes[hash][m.size])

Active(m, i) == i # NOSLOT /\ m.table[i].mode = "SL_ACTIVE"

FilledTwice(m, i, key, value, hash) ==   \* counts a reused slot again
  [m EXCEPT !.count = @ + 1, !.fill = @ + 1,
            !.table[i] = [key |-> key, value |-> value, hash |-> hash,
                          mode |-> "SL_ACTIVE"]]

\* The writes of hash_set into a slot that is not active.
Filled(m, i, key, value, hash) ==
  [m EXCEPT !.count = @ + 1,
            !.fill = IF m.table[i].mode = "SL_EMPTY" THEN @ + 1 ELSE @,
            !.table[i] = [key |-> key, value |-> value, hash |-> hash,
                          mode |-> "SL_ACTIVE"]]

\* The writes of hash_copy into the slot found for the old one.
Copied(m, i, old) ==
  [m EXCEPT !.count = @ + 1, !.fill = @ + 1, !.table[i] = old]

CopySlot(m, which, old) ==
  IF old.mode # "SL_ACTIVE" THEN m
  ELSE Copied(m, hash_lookup(m, which, old.key), old)

\* new[n] has the n first slots of old.
hash_copy(m, which, old) ==
  LET new[n \in 0..old.size] ==
        IF n = 0 THEN m ELSE CopySlot(new[n-1], which, old.table[n-1])
  IN  new[old.size]

\* The size hash_update wants for a table.
NewSize(m) ==
  IF 3 * m.fill >= 2 * m.size THEN 2 * m.size
  ELSE IF m.size > HASH_MINSIZE /\ 4 * m.count <= m.size THEN m.size \div 2
  ELSE m.size

Resized(m, size) ==
  \/ /\ size = m.size
     /\ map' = m /\ answer' = 0 /\ UNCHANGED refused
  \/ /\ size # m.size /\ size <= MAXSIZE
     /\ map' = hash_copy(hash_initialize(size), kind, m)
     /\ answer' = 0 /\ refused' = FALSE
  \/ /\ size # m.size
     /\ map' = m /\ answer' = -1 /\ refused' = (size > m.size)

hash_update(m) == Resized(m, NewSize(m))

-----------------------------------------------------------------------------
(* The operations *)

Usable == kind # "none" /\ ~endless

HashInit(which) ==
  /\ kind = "none"
  /\ map' = hash_initialize(HASH_MINSIZE)
  /\ kind' = which /\ answer' = 0 /\ refused' = FALSE
  /\ UNCHANGED endless

HashInitFails ==
  /\ kind = "none"
  /\ answer' = -1
  /\ UNCHANGED <<map, kind, endless, refused>>

Destroyed == [size |-> 1, fill |-> 0, count |-> 0, table |-> << >>]

HashDestroy ==
  /\ Usable
  /\ map' = Destroyed
  /\ kind' = "none" /\ answer' = 0 /\ refused' = FALSE
  /\ UNCHANGED endless

\* The slot a lookup ends at, if it ends.
Slots(key) == {hash_lookup(map, kind, key)} \ {NOSLOT}

HashSet(key, value) ==
  /\ Usable
  /\ \E i \in Slots(key) :
       IF Active(map, i)
       THEN /\ map' = [map EXCEPT !.table[i].value = value]
            /\ answer' = 0
            /\ UNCHANGED refused
       ELSE hash_update(Filled(map, i, key, value, hfunc[kind][key]))
  /\ UNCHANGED <<kind, endless>>

DeletedToEmpty(m, i) ==   \* no mark where a key was
  [m EXCEPT !.count = @ - 1, !.fill = @ - 1, !.table[i] = EmptySlot]

Deleted(m, i) ==
  [m EXCEPT !.count = @ - 1,
            !.table[i] = [EmptySlot EXCEPT !.mode = "SL_DELETED"]]

HashDel(key) ==
  /\ Usable
  /\ \E i \in Slots(key) :
       IF Active(map, i)
       THEN hash_update(Deleted(map, i))
       ELSE answer' = 0 /\ UNCHANGED <<map, refused>>
  /\ UNCHANGED <<kind, endless>>

\* The default value asked for is NONE.
HashGet(key) ==
  /\ Usable
  /\ \E i \in Slots(key) : answer' = IF Active(map, i) THEN map.table[i].value ELSE NONE
  /\ UNCHANGED <<map, kind, endless, refused>>

HashIsset(key) ==
  /\ Usable
  /\ \E i \in Slots(key) : answer' = IF Active(map, i) THEN 1 ELSE 0
  /\ UNCHANGED <<map, kind, endless, refused>>

\* Whatever the operation, its lookup goes round a table without an empty slot.
Endless(key) ==
  /\ Usable
  /\ Slots(key) = {}
  /\ endless' = TRUE
  /\ UNCHANGED <<map, kind, answer, refused>>

TableInit ==
  map = Destroyed /\ kind = "none" /\ answer = 0 /\ endless = FALSE /\ refused = FALSE

TableNext ==
  \/ \E which \in Kinds : HashInit(which)
  \/ HashInitFails
  \/ HashDestroy
  \/ \E k \in ADDRESSES : \/ \E v \in VALUES : HashSet(k, v)
                          \/ HashDel(k) \/ HashGet(k) \/ HashIsset(k)
                          \/ Endless(k)

TableSpec == TableInit /\ [][TableNext]_hashvars

-----------------------------------------------------------------------------
(* Properties *)

\* fill and count, on which the decision to resize rests, are the number of
\* slots that are not empty and that are active, through every reuse of a
\* deleted slot and every resize (hash_set, hash_del, hash_copy).
Counted ==
  kind # "none" =>
    /\ map.fill = Cardinality({i \in DOMAIN map.table :
                                  map.table[i].mode # "SL_EMPTY"})
    /\ map.count = Cardinality({i \in DOMAIN map.table : Active(map, i)})

\* A lookup only fails to end after memory for a larger table was refused:
\* otherwise an empty slot is left and the probe sequence reaches it, however
\* the keys collide (hash_lookup, hash.c:63; hash_update keeps the room).
EndsUnlessRefused == endless => refused

\* The keys and values of the table as a map.
contents ==
  [k \in ADDRESSES |->
     LET holding == {i \in DOMAIN map.table :
                       Matches(kind, map.table[i], k, hfunc[kind][k])}
     IN  IF holding = {} THEN NONE
         ELSE map.table[CHOOSE i \in holding : TRUE].value]

AbstractMap == INSTANCE HashSpec WITH Keys <- ADDRESSES, Values <- VALUES, Same <- cmp

\* Every operation is one of a map: what is set is found until it is deleted,
\* through collisions, deletions, resizes and refused resizes, and a set or a
\* delete that returns -1 has been done (hash_set, hash_get, hash_del of hash.c).
ImplementsMap == AbstractMap!MapBehaviour

=============================================================================
