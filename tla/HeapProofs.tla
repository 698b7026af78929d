----------------------------- MODULE HeapProofs -----------------------------
(***************************************************************************)
(* Proofs about Heap, for any memory, any page, any lengths and any number *)
(* of blocks.                                                              *)
(***************************************************************************)
EXTENDS Heap, FiniteSetTheorems, SequenceTheorems, WellFoundedInduction, TLAPS

-----------------------------------------------------------------------------
(* Arithmetic *)

\* A set of natural numbers that is not empty has a least element.
LEMMA LeastOf ==
  ASSUME NEW T \in SUBSET Nat, T # {}
  PROVE  \E k \in T : \A i \in T : k <= i
<1> DEFINE Below == {ss \in Nat \X Nat : ss[1] < ss[2]}
<1>1. \A i, j \in Nat : i < j => <<i, j>> \in Below
  BY Zenon
<1>2. IsWellFoundedOn(Below, Nat)
  BY NatLessThanWellFounded, Zenon DEF OpToRel
<1> HIDE DEF Below
<1>3. PICK k \in T : \A i \in T : ~ (<<i, k>> \in Below)
  BY <1>2, WFMin, Zenon
<1>4. \A i \in T : ~ (i < k)
  BY <1>1, <1>3, Zenon
<1> QED BY <1>4

LEMMA Sums ==
  /\ \A a, b \in Int : a + b \in Int /\ a - b \in Int
  /\ \A a, b \in Nat : a + b \in Nat
OBVIOUS

\* What set_head, set_foot and set_inuse do to the headers.
Header == [size : Nat, prev_inuse : BOOLEAN, prev_size : Nat]

\* The aligned start of the memory.
Base == mem_heap + (IF mem_heap % 8 = 0 THEN 0 ELSE 8 - (mem_heap % 8))

\* The headers c tile the memory from Base to cur: the free chunks F, the chunks
\* in use U, and top.
Tiled(c, top, cur, F, U) ==
  /\ c \in [DOMAIN c -> Header] /\ IsFiniteSet(DOMAIN c)
  /\ DOMAIN c = F \cup U \cup {top} /\ top \notin F \cup U /\ F \cap U = {}
  /\ Base \in DOMAIN c /\ Base \in Nat
  /\ \A p \in DOMAIN c : p \in Nat /\ p >= Base /\ p % 8 = 0
  /\ \A p \in F \cup U : c[p].size >= 16 /\ c[p].size % 8 = 0 /\ p + c[p].size \in DOMAIN c
  /\ c[top].size >= 16 /\ top + c[top].size = cur
  /\ \A p, q \in DOMAIN c : p < q => p + c[p].size <= q
  /\ \A q \in DOMAIN c \ {Base} : \E p \in F \cup U : p + c[p].size = q
  /\ c[Base].prev_inuse
  /\ \A p \in F \cup U : c[p + c[p].size].prev_inuse <=> p \notin F
  /\ \A p \in F : c[p + c[p].size].prev_size = c[p].size /\ p + c[p].size \in U

-----------------------------------------------------------------------------
(* The headers *)

LEMMA NextIsApart ==
  ASSUME NEW c, NEW top, NEW cur, NEW F, NEW U, Tiled(c, top, cur, F, U),
         NEW p \in F \cup U, NEW r \in DOMAIN c, r # p
  PROVE  r < p \/ r >= p + c[p].size
BY DEF Tiled

\* A chunk behind a free one finds it.
LEMMA BeforeIsFree ==
  ASSUME NEW c, NEW top, NEW cur, NEW F, NEW U, Tiled(c, top, cur, F, U),
         NEW p \in U, ~c[p].prev_inuse
  PROVE  LET b == p - c[p].prev_size IN b \in F /\ b + c[b].size = p /\ c[b].prev_inuse
<1>1. p \in DOMAIN c /\ p # Base
  BY DEF Tiled
<1>2. PICK b \in F \cup U : b + c[b].size = p
  BY <1>1 DEF Tiled
<1>3. b \in F
  BY <1>2 DEF Tiled
<1>4. c[p].prev_size = c[b].size
  BY <1>2, <1>3 DEF Tiled
<1>5. b \in Nat /\ c[b].size \in Nat
  BY DEF Tiled, Header
<1>6. p - c[p].prev_size = b
  BY <1>2, <1>4, <1>5
<1>7. c[b].prev_inuse
  <2>1. CASE b = Base
    BY <2>1 DEF Tiled
  <2>2. CASE b # Base
    <3>1. PICK a \in F \cup U : a + c[a].size = b
      BY <2>2 DEF Tiled
    <3>2. a \notin F
      BY <3>1, <1>3 DEF Tiled
    <3> QED BY <3>1, <3>2 DEF Tiled
  <2> QED BY <2>1, <2>2
<1> QED BY <1>2, <1>3, <1>6, <1>7

\* Two chunks, one behind the other.
LEMMA MergedIs ==
  ASSUME NEW c, NEW top, NEW cur, NEW F, NEW U, Tiled(c, top, cur, F, U),
         NEW p \in F \cup U, NEW q \in DOMAIN c, p + c[p].size = q
  PROVE  LET d == Merged(c, p, q) IN
         /\ DOMAIN d = DOMAIN c \ {q} /\ p \in DOMAIN d /\ p # q /\ q # Base
         /\ d \in [DOMAIN d -> Header] /\ IsFiniteSet(DOMAIN d)
         /\ d[p].size = c[p].size + c[q].size /\ d[p].prev_inuse
         /\ d[p].prev_size = c[p].prev_size
         /\ \A r \in DOMAIN d \ {p} : d[r] = c[r]
         /\ \A r \in DOMAIN d : d[r].size >= c[r].size
         /\ \A r, s \in DOMAIN d : r < s => r + d[r].size <= s
<1> DEFINE d == Merged(c, p, q)
<1>1. c \in [DOMAIN c -> Header] /\ IsFiniteSet(DOMAIN c) /\ p \in DOMAIN c
      /\ p \in Nat /\ q \in Nat /\ c[p].size \in Nat /\ c[q].size \in Nat
      /\ c[p].size >= 16
  BY DEF Tiled, Header
<1>2. DOMAIN d = DOMAIN c \ {q} /\ p # q
  BY <1>1 DEF Merged
<1>3. q # Base
  BY <1>1 DEF Tiled
<1>4. c[p] \in Header
  BY <1>1
<1>5. d[p] = [size |-> c[p].size + c[q].size, prev_inuse |-> TRUE, prev_size |-> c[p].prev_size]
  BY <1>1, <1>2 DEF Merged
<1>6. d[p] \in Header /\ d[p].size = c[p].size + c[q].size /\ d[p].prev_inuse
      /\ d[p].prev_size = c[p].prev_size
  BY <1>1, <1>4, <1>5 DEF Header
<1>7. \A r \in DOMAIN d \ {p} : d[r] = c[r]
  BY <1>2 DEF Merged
<1>8. d = [r \in DOMAIN d |-> d[r]]
  BY <1>2 DEF Merged
<1>9. IsFiniteSet(DOMAIN d)
  BY <1>1, <1>2, FS_RemoveElement
<1> HIDE DEF d
<1>10. \A r \in DOMAIN d : d[r] \in Header
  BY <1>1, <1>2, <1>6, <1>7
<1>11. d \in [DOMAIN d -> Header]
  BY <1>8, <1>10
<1>12. \A r \in DOMAIN d : d[r].size >= c[r].size /\ d[r].size \in Nat
  BY <1>1, <1>2, <1>6, <1>7 DEF Header
<1>13. ASSUME NEW r \in DOMAIN d, NEW s \in DOMAIN d, r < s PROVE r + d[r].size <= s
  <2>1. r \in DOMAIN c /\ s \in DOMAIN c /\ s # q /\ r # q
    BY <1>2
  <2>2. CASE r # p
    BY <2>1, <2>2, <1>7, <1>13 DEF Tiled
  <2>3. CASE r = p
    <3>1. q <= s
      BY <2>1, <2>3, <1>13 DEF Tiled
    <3>2. q < s /\ s \in Nat
      BY <3>1, <2>1, <1>1 DEF Tiled
    <3>3. q + c[q].size <= s
      BY <3>2, <2>1 DEF Tiled
    <3> QED BY <3>3, <3>2, <2>3, <1>1, <1>6
  <2> QED BY <2>2, <2>3
<1> QED BY <1>2, <1>3, <1>6, <1>7, <1>9, <1>11, <1>12, <1>13, <1>1 DEF d

\* What set_head, set_foot and set_inuse leave.
Headed(c, d, p, size) ==
  /\ DOMAIN d = DOMAIN c \cup {p} /\ d \in [DOMAIN d -> Header]
  /\ d[p].size = size /\ d[p].prev_inuse
  /\ \A q \in DOMAIN c \ {p} : d[q] = c[q]

LEMMA HeadIs ==
  ASSUME NEW c, c \in [DOMAIN c -> Header], NEW p, NEW size \in Nat
  PROVE  Headed(c, set_head(c, p, size), p, size)
<1> DEFINE old == IF p \in DOMAIN c THEN c[p].prev_size ELSE 0
           d == set_head(c, p, size)
<1>1. old \in Nat
  BY DEF Header
<1>2. /\ DOMAIN d = DOMAIN c \cup {p}
      /\ \A q \in DOMAIN c \ {p} : d[q] = c[q]
      /\ d[p] = [size |-> size, prev_inuse |-> TRUE, prev_size |-> old]
      /\ d = [q \in DOMAIN d |-> d[q]]
  BY DEF set_head
<1> HIDE DEF d, old
<1>3. d[p] \in Header /\ d[p].size = size /\ d[p].prev_inuse
  BY <1>1, <1>2 DEF Header
<1>4. \A q \in DOMAIN d : d[q] \in Header
  BY <1>2, <1>3
<1>5. d \in [DOMAIN d -> Header]
  BY <1>2, <1>4
<1> QED BY <1>2, <1>3, <1>5 DEF d, Headed

LEMMA FootIs ==
  ASSUME NEW c, c \in [DOMAIN c -> Header], NEW p \in DOMAIN c, p + c[p].size \in DOMAIN c
  PROVE  LET d == set_foot(c, p) IN
         /\ DOMAIN d = DOMAIN c /\ d \in [DOMAIN d -> Header]
         /\ d[p + c[p].size].prev_size = c[p].size
         /\ \A q \in DOMAIN c : d[q].size = c[q].size /\ d[q].prev_inuse = c[q].prev_inuse
         /\ \A q \in DOMAIN c \ {p + c[p].size} : d[q] = c[q]
<1> DEFINE n == p + c[p].size
           d == set_foot(c, p)
<1>1. c[p].size \in Nat /\ c[n] \in Header
  BY DEF Header
<1>2. /\ DOMAIN d = DOMAIN c
      /\ \A q \in DOMAIN c \ {n} : d[q] = c[q]
      /\ d[n] = [c[n] EXCEPT !.prev_size = c[p].size]
      /\ d = [q \in DOMAIN d |-> d[q]]
  BY DEF set_foot
<1> HIDE DEF d, n
<1>3. d[n] = [size |-> c[n].size, prev_inuse |-> c[n].prev_inuse, prev_size |-> c[p].size]
  BY <1>1, <1>2 DEF Header
<1>4. d[n] \in Header /\ d[n].prev_size = c[p].size /\ d[n].size = c[n].size
      /\ d[n].prev_inuse = c[n].prev_inuse
  BY <1>1, <1>3 DEF Header
<1>5. \A q \in DOMAIN d : d[q] \in Header
  BY <1>2, <1>4
<1>6. d \in [DOMAIN d -> Header]
  BY <1>2, <1>5
<1>7. \A q \in DOMAIN c : d[q].size = c[q].size /\ d[q].prev_inuse = c[q].prev_inuse
  BY <1>2, <1>4
<1> QED BY <1>2, <1>4, <1>6, <1>7 DEF d, n

Taken(c, p) == set_inuse(c, p, TRUE)
Freed(c, p) == set_inuse(c, p, FALSE)

LEMMA TakenIs ==
  ASSUME NEW c, c \in [DOMAIN c -> Header], NEW p \in DOMAIN c, p + c[p].size \in DOMAIN c
  PROVE  LET d == Taken(c, p) IN
         /\ DOMAIN d = DOMAIN c /\ d \in [DOMAIN d -> Header]
         /\ d[p + c[p].size].prev_inuse
         /\ \A q \in DOMAIN c : d[q].size = c[q].size
         /\ \A q \in DOMAIN c \ {p + c[p].size} : d[q] = c[q]
<1> DEFINE n == p + c[p].size
           d == Taken(c, p)
<1>1. c[p].size \in Nat /\ c[n] \in Header
  BY DEF Header
<1>2. /\ DOMAIN d = DOMAIN c
      /\ \A q \in DOMAIN c \ {n} : d[q] = c[q]
      /\ d[n] = [c[n] EXCEPT !.prev_inuse = TRUE]
      /\ d = [q \in DOMAIN d |-> d[q]]
  BY DEF Taken, set_inuse
<1> HIDE DEF d, n
<1>3. d[n] = [size |-> c[n].size, prev_inuse |-> TRUE, prev_size |-> c[n].prev_size]
  BY <1>1, <1>2 DEF Header
<1>4. d[n] \in Header /\ d[n].prev_inuse /\ d[n].size = c[n].size
  BY <1>1, <1>3 DEF Header
<1>5. \A q \in DOMAIN d : d[q] \in Header
  BY <1>2, <1>4
<1>6. d \in [DOMAIN d -> Header]
  BY <1>2, <1>5
<1>7. \A q \in DOMAIN c : d[q].size = c[q].size
  BY <1>2, <1>4
<1> QED BY <1>2, <1>4, <1>6, <1>7 DEF d, n

LEMMA FreedIs ==
  ASSUME NEW c, c \in [DOMAIN c -> Header], NEW p \in DOMAIN c, p + c[p].size \in DOMAIN c
  PROVE  LET d == Freed(c, p) IN
         /\ DOMAIN d = DOMAIN c /\ d \in [DOMAIN d -> Header]
         /\ ~d[p + c[p].size].prev_inuse
         /\ \A q \in DOMAIN c : d[q].size = c[q].size
         /\ \A q \in DOMAIN c \ {p + c[p].size} : d[q] = c[q]
<1> DEFINE n == p + c[p].size
           d == Freed(c, p)
<1>1. c[p].size \in Nat /\ c[n] \in Header
  BY DEF Header
<1>2. /\ DOMAIN d = DOMAIN c
      /\ \A q \in DOMAIN c \ {n} : d[q] = c[q]
      /\ d[n] = [c[n] EXCEPT !.prev_inuse = FALSE]
      /\ d = [q \in DOMAIN d |-> d[q]]
  BY DEF Freed, set_inuse
<1> HIDE DEF d, n
<1>3. d[n] = [size |-> c[n].size, prev_inuse |-> FALSE, prev_size |-> c[n].prev_size]
  BY <1>1, <1>2 DEF Header
<1>4. d[n] \in Header /\ ~d[n].prev_inuse /\ d[n].size = c[n].size
  BY <1>1, <1>3 DEF Header
<1>5. \A q \in DOMAIN d : d[q] \in Header
  BY <1>2, <1>4
<1>6. d \in [DOMAIN d -> Header]
  BY <1>2, <1>5
<1>7. \A q \in DOMAIN c : d[q].size = c[q].size
  BY <1>2, <1>4
<1> QED BY <1>2, <1>4, <1>6, <1>7 DEF d, n

-----------------------------------------------------------------------------
(* The tiling, under each change of the headers *)

\* Two chunks have two chunks behind them.
LEMMA NextDiffers ==
  ASSUME NEW c, NEW top, NEW cur, NEW F, NEW U, Tiled(c, top, cur, F, U),
         NEW p \in F \cup U, NEW q \in F \cup U, p # q
  PROVE  p + c[p].size # q + c[q].size
<1>1. p \in Nat /\ q \in Nat /\ c[p].size \in Nat /\ c[q].size \in Nat
      /\ c[p].size >= 16 /\ c[q].size >= 16 /\ p \in DOMAIN c /\ q \in DOMAIN c
  BY DEF Tiled, Header
<1>2. \A r, s \in DOMAIN c : r < s => r + c[r].size <= s
  BY DEF Tiled
<1>3. p < q => p + c[p].size <= q
  BY <1>1, <1>2
<1>4. q < p => q + c[q].size <= p
  BY <1>1, <1>2
<1> QED BY <1>1, <1>3, <1>4

\* Only tags have changed.
LEMMA Retagged ==
  ASSUME NEW c, NEW top, NEW cur, NEW F, NEW U, Tiled(c, top, cur, F, U),
         NEW d, DOMAIN d = DOMAIN c, d \in [DOMAIN d -> Header],
         \A r \in DOMAIN c : d[r].size = c[r].size,
         NEW G, NEW V, G \cup V = F \cup U, G \cap V = {},
         d[Base].prev_inuse,
         \A p \in F \cup U : d[p + c[p].size].prev_inuse <=> p \notin G,
         \A p \in G : d[p + c[p].size].prev_size = c[p].size /\ p + c[p].size \in V
  PROVE  Tiled(d, top, cur, G, V)
<1>1. \A p \in F \cup U : d[p].size = c[p].size
  BY DEF Tiled
<1>2. /\ d \in [DOMAIN d -> Header] /\ IsFiniteSet(DOMAIN d)
      /\ DOMAIN d = G \cup V \cup {top} /\ top \notin G \cup V /\ G \cap V = {}
      /\ Base \in DOMAIN d /\ Base \in Nat
      /\ \A p \in DOMAIN d : p \in Nat /\ p >= Base /\ p % 8 = 0
      /\ d[Base].prev_inuse
  BY DEF Tiled
<1>3. \A p \in G \cup V : d[p].size >= 16 /\ d[p].size % 8 = 0 /\ p + d[p].size \in DOMAIN d
  BY <1>1 DEF Tiled
<1>4. d[top].size >= 16 /\ top + d[top].size = cur
  BY DEF Tiled
<1>5. \A p, q \in DOMAIN d : p < q => p + d[p].size <= q
  BY DEF Tiled
<1>6. \A q \in DOMAIN d \ {Base} : \E p \in G \cup V : p + d[p].size = q
  <2> SUFFICES ASSUME NEW q \in DOMAIN d \ {Base}
               PROVE  \E p \in G \cup V : p + d[p].size = q
    OBVIOUS
  <2>1. PICK p \in F \cup U : p + c[p].size = q
    BY DEF Tiled
  <2> QED BY <2>1, <1>1
<1>7. \A p \in G \cup V : d[p + d[p].size].prev_inuse <=> p \notin G
  BY <1>1
<1>8. \A p \in G : d[p + d[p].size].prev_size = d[p].size /\ p + d[p].size \in V
  BY <1>1
<1> QED BY <1>2, <1>3, <1>4, <1>5, <1>6, <1>7, <1>8 DEF Tiled

\* Base is not behind another chunk.
LEMMA NextIsAbove ==
  ASSUME NEW c, NEW top, NEW cur, NEW F, NEW U, Tiled(c, top, cur, F, U), NEW p \in F \cup U
  PROVE  p + c[p].size # Base /\ p + c[p].size # p /\ p \in DOMAIN c /\ p + c[p].size \in DOMAIN c
         /\ p + c[p].size \in Nat /\ p \in Nat /\ c[p].size \in Nat /\ c[p].size >= 16
BY DEF Tiled, Header

\* A free chunk comes to be in use.
LEMMA TakenIsTiled ==
  ASSUME NEW c, NEW top, NEW cur, NEW F, NEW U, Tiled(c, top, cur, F, U), NEW p \in F
  PROVE  Tiled(Taken(c, p), top, cur, F \ {p}, U \cup {p})
<1> DEFINE d == Taken(c, p)
           n == p + c[p].size
<1>1. p \in DOMAIN c /\ n \in DOMAIN c /\ n # Base /\ c \in [DOMAIN c -> Header] /\ p \notin U
  BY NextIsAbove DEF Tiled
<1>2. /\ DOMAIN d = DOMAIN c /\ d \in [DOMAIN d -> Header] /\ d[n].prev_inuse
      /\ \A q \in DOMAIN c : d[q].size = c[q].size
      /\ \A q \in DOMAIN c \ {n} : d[q] = c[q]
  BY <1>1, TakenIs
<1>3. \A q \in F \cup U : q # p => q + c[q].size \in DOMAIN c \ {n}
  BY NextDiffers, NextIsAbove
<1> HIDE DEF d, n
<1>4. d[Base].prev_inuse
  BY <1>1, <1>2 DEF Tiled
<1>5. ASSUME NEW q \in F \cup U PROVE d[q + c[q].size].prev_inuse <=> q \notin F \ {p}
  <2>1. CASE q = p
    BY <2>1, <1>2 DEF n
  <2>2. CASE q # p
    BY <2>2, <1>2, <1>3 DEF Tiled
  <2> QED BY <2>1, <2>2
<1>6. ASSUME NEW q \in F \ {p}
      PROVE  d[q + c[q].size].prev_size = c[q].size /\ q + c[q].size \in U \cup {p}
  BY <1>2, <1>3 DEF Tiled
<1>7. (F \ {p}) \cup (U \cup {p}) = F \cup U /\ (F \ {p}) \cap (U \cup {p}) = {}
  BY <1>1 DEF Tiled
<1>8. Tiled(d, top, cur, F \ {p}, U \cup {p})
  BY <1>2, <1>4, <1>5, <1>6, <1>7, Retagged
<1> QED BY <1>8 DEF d

\* A chunk in use comes to be free, between two that are not.
LEMMA FreedIsTiled ==
  ASSUME NEW c, NEW top, NEW cur, NEW F, NEW U, Tiled(c, top, cur, F, U), NEW p \in U,
         c[p].prev_inuse, p + c[p].size \in U
  PROVE  Tiled(set_foot(Freed(c, p), p), top, cur, F \cup {p}, U \ {p})
<1> DEFINE e == Freed(c, p)
           d == set_foot(e, p)
           n == p + c[p].size
<1>1. p \in DOMAIN c /\ n \in DOMAIN c /\ n # Base /\ c \in [DOMAIN c -> Header] /\ p \notin F
  BY NextIsAbove DEF Tiled
<1>2. /\ DOMAIN e = DOMAIN c /\ e \in [DOMAIN e -> Header] /\ ~e[n].prev_inuse
      /\ \A q \in DOMAIN c : e[q].size = c[q].size
      /\ \A q \in DOMAIN c \ {n} : e[q] = c[q]
  BY <1>1, FreedIs
<1>3. e[p].size = c[p].size
  BY <1>1, <1>2
<1> HIDE DEF e
<1>4. /\ DOMAIN d = DOMAIN c /\ d \in [DOMAIN d -> Header] /\ ~d[n].prev_inuse
      /\ d[n].prev_size = c[p].size
      /\ \A q \in DOMAIN c : d[q].size = c[q].size
      /\ \A q \in DOMAIN c \ {n} : d[q] = c[q]
  BY <1>1, <1>2, <1>3, FootIs
<1>5. \A q \in F \cup U : q # p => q + c[q].size \in DOMAIN c \ {n}
  BY NextDiffers, NextIsAbove
<1>6. \A q \in F : q + c[q].size # p
  BY DEF Tiled
<1>7. n # p
  BY NextIsAbove
<1> HIDE DEF d, n
<1>8. d[Base].prev_inuse
  BY <1>1, <1>4 DEF Tiled
<1>9. ASSUME NEW q \in F \cup U PROVE d[q + c[q].size].prev_inuse <=> q \notin F \cup {p}
  <2>1. CASE q = p
    BY <2>1, <1>4 DEF n
  <2>2. CASE q # p
    BY <2>2, <1>4, <1>5 DEF Tiled
  <2> QED BY <2>1, <2>2
<1>10. ASSUME NEW q \in F \cup {p}
       PROVE  d[q + c[q].size].prev_size = c[q].size /\ q + c[q].size \in U \ {p}
  <2>1. CASE q = p
    BY <2>1, <1>4, <1>7 DEF n
  <2>2. CASE q # p
    BY <2>2, <1>4, <1>5, <1>6 DEF Tiled
  <2> QED BY <2>1, <2>2
<1>11. (F \cup {p}) \cup (U \ {p}) = F \cup U /\ (F \cup {p}) \cap (U \ {p}) = {}
  BY <1>1 DEF Tiled
<1> QED BY <1>4, <1>8, <1>9, <1>10, <1>11, Retagged DEF d, e

\* The user writes over the tag behind his chunk.
LEMMA LentIsTiled ==
  ASSUME NEW c, NEW top, NEW cur, NEW F, NEW U, Tiled(c, top, cur, F, U), NEW p \in U
  PROVE  Tiled([c EXCEPT ![p + c[p].size].prev_size = 0], top, cur, F, U)
<1> DEFINE n == p + c[p].size
           d == [c EXCEPT ![n].prev_size = 0]
<1>1. p \in DOMAIN c /\ n \in DOMAIN c /\ c \in [DOMAIN c -> Header] /\ p \notin F
      /\ c[n] \in Header
  BY NextIsAbove DEF Tiled
<1>2. /\ DOMAIN d = DOMAIN c /\ d = [q \in DOMAIN d |-> d[q]]
      /\ d[n] = [c[n] EXCEPT !.prev_size = 0]
      /\ \A q \in DOMAIN c \ {n} : d[q] = c[q]
  BY <1>1
<1>3. \A q \in F \cup U : q # p => q + c[q].size \in DOMAIN c \ {n}
  BY NextDiffers, NextIsAbove
<1> HIDE DEF d, n
<1>4. d[n] = [size |-> c[n].size, prev_inuse |-> c[n].prev_inuse, prev_size |-> 0]
  BY <1>1, <1>2 DEF Header
<1>5. d[n] \in Header /\ d[n].prev_inuse = c[n].prev_inuse /\ d[n].size = c[n].size
  BY <1>1, <1>4 DEF Header
<1>6. d \in [DOMAIN d -> Header]
  <2>1. \A q \in DOMAIN d : d[q] \in Header
    BY <1>1, <1>2, <1>5
  <2> QED BY <2>1, <1>2
<1>7. \A q \in DOMAIN c : d[q].size = c[q].size /\ d[q].prev_inuse = c[q].prev_inuse
  BY <1>2, <1>5
<1>8. \A q \in F \cup U : q + c[q].size \in DOMAIN c
  BY NextIsAbove
<1>9. d[Base].prev_inuse
  BY <1>7 DEF Tiled
<1>10. \A q \in F \cup U : d[q + c[q].size].prev_inuse <=> q \notin F
  BY <1>7, <1>8 DEF Tiled
<1>11. \A q \in F : d[q + c[q].size].prev_size = c[q].size /\ q + c[q].size \in U
  BY <1>1, <1>2, <1>3 DEF Tiled
<1>12. F \cap U = {}
  BY DEF Tiled
<1>13. Tiled(d, top, cur, F, U)
  BY <1>2, <1>6, <1>7, <1>9, <1>10, <1>11, <1>12, Retagged
<1> QED BY <1>13 DEF d, n

\* A merged chunk ends where the second did, and the others where they did.
Spans(c, d, p, q, S) ==
  /\ p + d[p].size = q + c[q].size
  /\ \A r \in S \ {p, q} : r + d[r].size = r + c[r].size /\ r + d[r].size # q
  /\ \A r \in S \ {q} : d[r].size >= 16 /\ d[r].size % 8 = 0 /\ r + d[r].size \in DOMAIN d
  /\ \A s \in DOMAIN d \ {Base} : \E r \in S \ {q} : r + d[r].size = s

LEMMA MergedNext ==
  ASSUME NEW c, NEW top, NEW cur, NEW F, NEW U, Tiled(c, top, cur, F, U),
         NEW p \in F \cup U, NEW q \in F \cup U, p + c[p].size = q
  PROVE  Spans(c, Merged(c, p, q), p, q, F \cup U)
<1> DEFINE d == Merged(c, p, q)
<1>1. q \in DOMAIN c /\ p \in DOMAIN c /\ p \in Nat /\ q \in Nat
      /\ c[p].size \in Nat /\ c[q].size \in Nat
      /\ q + c[q].size \in DOMAIN c /\ q + c[q].size # q
  BY NextIsAbove
<1>2. /\ DOMAIN d = DOMAIN c \ {q} /\ p # q
      /\ d[p].size = c[p].size + c[q].size
      /\ \A r \in DOMAIN d \ {p} : d[r] = c[r]
  <2>1. DOMAIN d = DOMAIN c \ {q} /\ p # q /\ d[p].size = c[p].size + c[q].size
    BY <1>1, MergedIs
  <2>2. \A r \in DOMAIN d \ {p} : d[r] = c[r]
    BY DEF Merged
  <2> QED BY <2>1, <2>2
<1> HIDE DEF d
<1>3. p + d[p].size = q + c[q].size
  BY <1>1, <1>2
<1>4. ASSUME NEW r \in (F \cup U) \ {p, q}
      PROVE  d[r] = c[r] /\ r + c[r].size # q /\ r + c[r].size \in DOMAIN d
  <2>1. r \in DOMAIN d /\ r + c[r].size \in DOMAIN c
    BY <1>2, NextIsAbove
  <2>2. r + c[r].size # q
    BY NextDiffers
  <2> QED BY <2>1, <2>2, <1>2
<1>5. d[p].size >= 16 /\ d[p].size % 8 = 0 /\ p + d[p].size \in DOMAIN d
  <2>1. c[p].size >= 16 /\ c[q].size >= 16 /\ c[p].size % 8 = 0 /\ c[q].size % 8 = 0
    BY DEF Tiled
  <2> QED BY <2>1, <1>1, <1>2, <1>3
<1>6. \A r \in (F \cup U) \ {q} : /\ d[r].size >= 16 /\ d[r].size % 8 = 0
                                  /\ r + d[r].size \in DOMAIN d
  BY <1>4, <1>5 DEF Tiled
<1>7. ASSUME NEW s \in DOMAIN d \ {Base} PROVE \E r \in (F \cup U) \ {q} : r + d[r].size = s
  <2>1. PICK r \in F \cup U : r + c[r].size = s
    BY <1>2 DEF Tiled
  <2>2. CASE r = q
    BY <2>1, <2>2, <1>2, <1>3
  <2>3. CASE r # q
    BY <2>1, <2>3, <1>2, <1>4, <1>1
  <2> QED BY <2>2, <2>3
<1> QED BY <1>3, <1>4, <1>6, <1>7 DEF d, Spans

\* The free chunk behind p becomes part of it (free, forwards).
LEMMA MergedHeaders ==
  ASSUME NEW c, NEW top, NEW cur, NEW F, NEW U, Tiled(c, top, cur, F, U),
         NEW p \in F \cup U, NEW q \in DOMAIN c, p + c[p].size = q
  PROVE  Merged(c, p, q) \in [DOMAIN Merged(c, p, q) -> Header] /\ p \in DOMAIN Merged(c, p, q)
<1> DEFINE d == Merged(c, p, q)
<1>1. c \in [DOMAIN c -> Header] /\ p \in DOMAIN c /\ p # q
      /\ c[p].size \in Nat /\ c[q].size \in Nat
  BY NextIsAbove DEF Tiled, Header
<1>2. DOMAIN d = DOMAIN c \ {q}
  BY DEF Merged
<1>3. [size |-> c[p].size + c[q].size, prev_inuse |-> TRUE, prev_size |-> c[p].prev_size] \in Header
  BY <1>1 DEF Header
<1>4. \A r \in DOMAIN d : d[r] \in Header
  BY <1>1, <1>3 DEF Merged
<1>5. d = [r \in DOMAIN d |-> d[r]]
  BY DEF Merged
<1> HIDE DEF d
<1>6. d \in [DOMAIN d -> Header]
  BY <1>4, <1>5
<1> QED BY <1>1, <1>2, <1>6 DEF d

LEMMA ForwardIsTiled ==
  ASSUME NEW c, NEW top, NEW cur, NEW F, NEW U, Tiled(c, top, cur, F, U),
         NEW p \in U, c[p].prev_inuse, NEW q \in F, p + c[p].size = q
  PROVE  Tiled(set_foot(Merged(c, p, q), p), top, cur, (F \ {q}) \cup {p}, U \ {p})
<1> DEFINE e == Merged(c, p, q)
           d == set_foot(e, p)
           n == q + c[q].size
           G == (F \ {q}) \cup {p}
           V == U \ {p}
<1>1. p \in DOMAIN c /\ q \in DOMAIN c /\ n \in DOMAIN c \ {q, Base} /\ p \notin F /\ q \notin U
      /\ n \in U /\ n # p
  BY NextIsAbove DEF Tiled, Header
<1>2. /\ DOMAIN e = DOMAIN c \ {q} /\ p \in DOMAIN e /\ p # q /\ q # Base
      /\ e \in [DOMAIN e -> Header] /\ IsFiniteSet(DOMAIN e)
      /\ e[p].prev_inuse
      /\ \A r \in DOMAIN e \ {p} : e[r] = c[r]
      /\ \A r, s \in DOMAIN e : r < s => r + e[r].size <= s
  BY <1>1, MergedIs
<1>3. /\ p + e[p].size = n
      /\ \A r \in (F \cup U) \ {p, q} : r + e[r].size = r + c[r].size /\ r + e[r].size # q
      /\ \A r \in (F \cup U) \ {q} : /\ e[r].size >= 16 /\ e[r].size % 8 = 0
                                     /\ r + e[r].size \in DOMAIN e
      /\ \A s \in DOMAIN e \ {Base} : \E r \in (F \cup U) \ {q} : r + e[r].size = s
  <2>1. p \in F \cup U /\ q \in F \cup U
    OBVIOUS
  <2>2. Spans(c, e, p, q, F \cup U)
    BY <2>1, MergedNext
  <2> QED BY <2>2 DEF Spans, n
<1>4. \A r \in (F \cup U) \ {p, q} : r + c[r].size \in DOMAIN e \ {n}
  <2> SUFFICES ASSUME NEW r \in (F \cup U) \ {p, q} PROVE r + c[r].size \in DOMAIN e \ {n}
    OBVIOUS
  <2>1. r + c[r].size # q + c[q].size
    BY NextDiffers
  <2> QED BY <2>1, <1>3 DEF n
<1> HIDE DEF e, n
<1>5. /\ DOMAIN d = DOMAIN e /\ d \in [DOMAIN d -> Header]
      /\ d[n].prev_size = e[p].size
      /\ \A r \in DOMAIN e : d[r].size = e[r].size /\ d[r].prev_inuse = e[r].prev_inuse
      /\ \A r \in DOMAIN e \ {n} : d[r] = e[r]
  BY <1>1, <1>2, <1>3, FootIs
<1>6. ~e[n].prev_inuse
  BY <1>1, <1>2 DEF Tiled, n
<1> HIDE DEF d
<1>7. G \cup V = (F \cup U) \ {q} /\ G \cap V = {}
  BY <1>1, <1>2 DEF Tiled
<1>8. /\ DOMAIN d = G \cup V \cup {top} /\ top \notin G \cup V
      /\ Base \in DOMAIN d /\ Base \in Nat
      /\ \A r \in DOMAIN d : r \in Nat /\ r >= Base /\ r % 8 = 0
  BY <1>2, <1>5, <1>7 DEF Tiled
<1>9. \A r \in G \cup V : d[r].size = e[r].size
  BY <1>5, <1>7, <1>8
<1>10. \A r \in G \cup V : d[r].size >= 16 /\ d[r].size % 8 = 0 /\ r + d[r].size \in DOMAIN d
  BY <1>3, <1>5, <1>7, <1>9
<1>11. d[top].size >= 16 /\ top + d[top].size = cur
  BY <1>1, <1>2, <1>5, <1>8 DEF Tiled
<1>12. \A r, s \in DOMAIN d : r < s => r + d[r].size <= s
  BY <1>2, <1>5
<1>13. \A s \in DOMAIN d \ {Base} : \E r \in G \cup V : r + d[r].size = s
  BY <1>3, <1>5, <1>7, <1>9
<1>14. d[Base].prev_inuse
  BY <1>1, <1>2, <1>5, <1>8 DEF Tiled
<1>15. ASSUME NEW r \in G \cup V
       PROVE  /\ d[r + d[r].size].prev_inuse <=> r \notin G
              /\ r \in G => d[r + d[r].size].prev_size = d[r].size /\ r + d[r].size \in V
  <2>1. CASE r = p
    BY <2>1, <1>1, <1>2, <1>3, <1>5, <1>6, <1>9
  <2>2. CASE r # p
    <3>1. r \in (F \cup U) \ {p, q}
      BY <2>2, <1>7
    <3>2. r + d[r].size = r + c[r].size /\ r + c[r].size \in DOMAIN e \ {n}
      BY <3>1, <1>3, <1>4, <1>9
    <3>3. r \in G <=> r \in F
      BY <3>1
    <3>4. r + c[r].size = p => r \notin F
      BY <3>1 DEF Tiled
    <3>5. d[r].size = c[r].size
      BY <1>9, <1>2, <3>1, <2>2, <1>5, <1>8
    <3>6. CASE r + c[r].size = p
      BY <3>2, <3>3, <3>4, <3>6, <1>2, <1>5
    <3>7. CASE r + c[r].size # p
      <4>1. d[r + c[r].size] = c[r + c[r].size]
        BY <3>2, <3>7, <1>2, <1>5
      <4>2. c[r + c[r].size].prev_inuse <=> r \notin F
        BY <3>1 DEF Tiled
      <4>3. r \in F => c[r + c[r].size].prev_size = c[r].size /\ r + c[r].size \in U
        BY <3>1 DEF Tiled
      <4> QED BY <4>1, <4>2, <4>3, <3>2, <3>3, <3>5, <3>7
    <3> QED BY <3>6, <3>7
  <2> QED BY <2>1, <2>2
<1> HIDE DEF G, V
<1>16. Tiled(d, top, cur, G, V)
  BY <1>2, <1>5, <1>7, <1>8, <1>10, <1>11, <1>12, <1>13, <1>14, <1>15 DEF Tiled
<1> QED BY <1>16 DEF d, e, G, V

\* p becomes part of the free chunk before it, which is then in use (free, backwards).
LEMMA BackwardIsTiled ==
  ASSUME NEW c, NEW top, NEW cur, NEW F, NEW U, Tiled(c, top, cur, F, U),
         NEW b \in F, NEW p \in U, b + c[b].size = p
  PROVE  /\ Tiled(Merged(c, b, p), top, cur, F \ {b}, (U \ {p}) \cup {b})
         /\ Merged(c, b, p)[b].prev_inuse
<1> DEFINE d == Merged(c, b, p)
           G == F \ {b}
           V == (U \ {p}) \cup {b}
<1>1. p \in DOMAIN c /\ b \in DOMAIN c /\ p \notin F /\ b \notin U
      /\ b \in F \cup U /\ p \in F \cup U
  BY NextIsAbove DEF Tiled
<1>2. /\ DOMAIN d = DOMAIN c \ {p} /\ b \in DOMAIN d /\ p # b /\ p # Base
      /\ d \in [DOMAIN d -> Header] /\ IsFiniteSet(DOMAIN d)
      /\ d[b].prev_inuse
      /\ \A r \in DOMAIN d \ {b} : d[r] = c[r]
      /\ \A r, s \in DOMAIN d : r < s => r + d[r].size <= s
  BY <1>1, MergedIs
<1>3. Spans(c, d, b, p, F \cup U)
  BY <1>1, MergedNext
<1>4. c[p + c[p].size].prev_inuse /\ p + c[p].size \in DOMAIN c \ {p}
  BY <1>1, NextIsAbove DEF Tiled
<1> HIDE DEF d
<1>5. G \cup V = (F \cup U) \ {p} /\ G \cap V = {}
  BY <1>1, <1>2 DEF Tiled
<1>6. /\ DOMAIN d = G \cup V \cup {top} /\ top \notin G \cup V
      /\ Base \in DOMAIN d /\ Base \in Nat
      /\ \A r \in DOMAIN d : r \in Nat /\ r >= Base /\ r % 8 = 0
  BY <1>2, <1>5 DEF Tiled
<1>7. \A r \in G \cup V : d[r].size >= 16 /\ d[r].size % 8 = 0 /\ r + d[r].size \in DOMAIN d
  BY <1>3, <1>5 DEF Spans
<1>8. d[top].size >= 16 /\ top + d[top].size = cur
  BY <1>1, <1>2, <1>6 DEF Tiled
<1>9. \A s \in DOMAIN d \ {Base} : \E r \in G \cup V : r + d[r].size = s
  BY <1>3, <1>5 DEF Spans
<1>10. d[Base].prev_inuse
  BY <1>1, <1>2, <1>6 DEF Tiled
<1>11. ASSUME NEW r \in G \cup V
       PROVE  /\ d[r + d[r].size].prev_inuse <=> r \notin G
              /\ r \in G => d[r + d[r].size].prev_size = d[r].size /\ r + d[r].size \in V
  <2>1. CASE r = b
    <3>1. r + d[r].size = p + c[p].size
      BY <2>1, <1>3 DEF Spans
    <3>2. d[p + c[p].size].prev_inuse
      BY <1>2, <1>4
    <3> QED BY <3>1, <3>2, <2>1
  <2>2. CASE r # b
    <3>1. r \in (F \cup U) \ {b, p}
      BY <2>2, <1>5
    <3>2. r + d[r].size = r + c[r].size /\ r + c[r].size \in DOMAIN d /\ d[r].size = c[r].size
      BY <3>1, <1>2, <1>3, <1>6, <1>5 DEF Spans
    <3>3. r \in G <=> r \in F
      BY <3>1
    <3>4. c[r + c[r].size].prev_inuse <=> r \notin F
      BY <3>1 DEF Tiled
    <3>5. r \in F => c[r + c[r].size].prev_size = c[r].size /\ r + c[r].size \in U
      BY <3>1 DEF Tiled
    <3>6. CASE r + c[r].size = b
      <4>1. r \notin F
        BY <3>5, <3>6, <1>1
      <4> QED BY <4>1, <3>2, <3>3, <3>6, <1>2
    <3>7. CASE r + c[r].size # b
      <4>1. d[r + c[r].size] = c[r + c[r].size]
        BY <3>2, <3>7, <1>2
      <4>2. r + c[r].size # p
        BY <3>2, <1>2
      <4> QED BY <4>1, <4>2, <3>2, <3>3, <3>4, <3>5
    <3> QED BY <3>6, <3>7
  <2> QED BY <2>1, <2>2
<1> HIDE DEF G, V
<1>12. Tiled(d, top, cur, G, V)
  BY <1>2, <1>5, <1>6, <1>7, <1>8, <1>9, <1>10, <1>11 DEF Tiled
<1> QED BY <1>2, <1>12 DEF d, G, V

\* top becomes part of p, which becomes top.
LEMMA TopIsTiled ==
  ASSUME NEW c, NEW top, NEW cur, NEW F, NEW U, Tiled(c, top, cur, F, U),
         NEW p \in U, c[p].prev_inuse, p + c[p].size = top
  PROVE  Tiled(Merged(c, p, top), p, cur, F, U \ {p})
<1> DEFINE d == Merged(c, p, top)
           V == U \ {p}
<1>1. p \in DOMAIN c /\ top \in DOMAIN c /\ p \notin F /\ p \in F \cup U
      /\ p \in Nat /\ top \in Nat /\ c[p].size \in Nat /\ c[top].size \in Nat
  BY NextIsAbove DEF Tiled, Header
<1>2. /\ DOMAIN d = DOMAIN c \ {top} /\ p \in DOMAIN d /\ p # top /\ top # Base
      /\ d \in [DOMAIN d -> Header] /\ IsFiniteSet(DOMAIN d)
      /\ d[p].size = c[p].size + c[top].size
      /\ d[p].prev_inuse
      /\ \A r \in DOMAIN d \ {p} : d[r] = c[r]
      /\ \A r, s \in DOMAIN d : r < s => r + d[r].size <= s
  BY <1>1, MergedIs
<1> HIDE DEF d
<1>3. /\ DOMAIN d = F \cup V \cup {p} /\ p \notin F \cup V /\ F \cap V = {}
      /\ Base \in DOMAIN d /\ Base \in Nat
      /\ \A r \in DOMAIN d : r \in Nat /\ r >= Base /\ r % 8 = 0
  BY <1>1, <1>2 DEF Tiled
<1>4. d[p].size >= 16 /\ p + d[p].size = cur
  <2>1. c[top].size >= 16 /\ top + c[top].size = cur
    BY DEF Tiled
  <2> QED BY <1>1, <1>2, <2>1
<1>5. ASSUME NEW r \in F \cup V
      PROVE  d[r] = c[r] /\ r + c[r].size \in DOMAIN d
  <2>1. r + c[r].size # p + c[p].size /\ r + c[r].size \in DOMAIN c
    <3>1. r \in F \cup U /\ r # p
      BY <1>1
    <3> QED BY <3>1, <1>1, NextDiffers, NextIsAbove
  <2> QED BY <2>1, <1>2, <1>3
<1>6. \A r \in F \cup V : d[r].size >= 16 /\ d[r].size % 8 = 0 /\ r + d[r].size \in DOMAIN d
  BY <1>5 DEF Tiled
<1>7. ASSUME NEW s \in DOMAIN d \ {Base} PROVE \E r \in F \cup V : r + d[r].size = s
  <2>1. PICK r \in F \cup U : r + c[r].size = s
    BY <1>2 DEF Tiled
  <2>2. r # p
    BY <2>1, <1>2
  <2> QED BY <2>1, <2>2, <1>5
<1>8. d[Base].prev_inuse
  BY <1>1, <1>2, <1>3 DEF Tiled
<1>9. ASSUME NEW r \in F \cup V
      PROVE  /\ d[r + d[r].size].prev_inuse <=> r \notin F
             /\ r \in F => d[r + d[r].size].prev_size = d[r].size /\ r + d[r].size \in V
  <2>1. c[r + c[r].size].prev_inuse <=> r \notin F
    BY DEF Tiled
  <2>2. r \in F => c[r + c[r].size].prev_size = c[r].size /\ r + c[r].size \in U
    BY DEF Tiled
  <2>3. CASE r + c[r].size = p
    BY <2>1, <2>3, <1>2, <1>5
  <2>4. CASE r + c[r].size # p
    BY <2>1, <2>2, <2>4, <1>2, <1>5
  <2> QED BY <2>3, <2>4
<1> HIDE DEF V
<1>10. Tiled(d, p, cur, F, V)
  BY <1>2, <1>3, <1>4, <1>6, <1>7, <1>8, <1>9 DEF Tiled
<1> QED BY <1>10 DEF d, V

\* The headers once a chunk is cut in two at r, and once the rest has its foot.
Cut(c, p, nb, r) == set_head(set_head(c, p, nb), r, c[p].size - nb)

Halved(c, p, nb, r) == set_foot(Cut(c, p, nb, r), r)

\* The front has nb bytes, and the other chunks what they had.
CutAt(c, d, p, nb, r) ==
  r \notin DOMAIN c /\ d[p].size = nb /\ \A q \in DOMAIN c \ {p} : d[q].size = c[q].size

\* The front of a free chunk comes to be in use, and the rest stays free.
LEMMA SplitIsTiled ==
  ASSUME NEW c, NEW top, NEW cur, NEW F, NEW U, Tiled(c, top, cur, F, U), NEW p \in F,
         NEW nb \in Nat, nb >= 16, nb % 8 = 0, c[p].size - nb >= 16,
         NEW r, r = p + nb, NEW d, d = Halved(c, p, nb, r)
  PROVE  Tiled(d, top, cur, (F \ {p}) \cup {r}, U \cup {p}) /\ CutAt(c, d, p, nb, r)
<1> DEFINE e1 == set_head(c, p, nb)
           e == set_head(e1, r, c[p].size - nb)
           rest == c[p].size - nb
           n == p + c[p].size
           G == (F \ {p}) \cup {r}
           V == U \cup {p}
<1>1. /\ p \in DOMAIN c /\ n \in DOMAIN c /\ n # Base /\ n # p /\ n \in U
      /\ c \in [DOMAIN c -> Header]
      /\ p \notin U /\ p \in F \cup U /\ p \in Nat /\ n \in Nat /\ c[p].size \in Nat /\ p # top
  <2>1. n \in U /\ c \in [DOMAIN c -> Header] /\ p \notin U /\ p # top
    BY DEF Tiled
  <2> QED BY <2>1, NextIsAbove
<1>2. p % 8 = 0 /\ c[p].size % 8 = 0 /\ p >= Base /\ Base \in Nat
  BY <1>1 DEF Tiled
<1>3. /\ rest \in Nat /\ r \in Nat /\ rest >= 16 /\ r + rest = n /\ r > p /\ r < n
      /\ r % 8 = 0 /\ rest % 8 = 0 /\ r >= Base /\ r # Base
  BY <1>1, <1>2
<1>4. r \notin DOMAIN c
  <2>1. \A q \in DOMAIN c : p < q => n <= q
    BY <1>1 DEF Tiled
  <2> QED BY <2>1, <1>3
<1>5. /\ DOMAIN e1 = DOMAIN c /\ e1 \in [DOMAIN e1 -> Header]
      /\ e1[p].size = nb /\ e1[p].prev_inuse /\ \A q \in DOMAIN c \ {p} : e1[q] = c[q]
  <2>1. DOMAIN c \cup {p} = DOMAIN c
    BY <1>1
  <2>2. Headed(c, e1, p, nb)
    BY <1>1, HeadIs
  <2> QED BY <2>1, <2>2 DEF Headed
<1> HIDE DEF e1, rest
<1>6. /\ DOMAIN e = DOMAIN e1 \cup {r} /\ e \in [DOMAIN e -> Header]
      /\ e[r].size = rest /\ e[r].prev_inuse
      /\ \A q \in DOMAIN e1 \ {r} : e[q] = e1[q]
  <2>1. Headed(e1, set_head(e1, r, rest), r, rest)
    BY <1>3, <1>5, HeadIs
  <2> QED BY <2>1 DEF Headed, rest
<1>7. r + e[r].size = n /\ n \in DOMAIN e /\ r \in DOMAIN e
  BY <1>1, <1>3, <1>5, <1>6
<1>8. d = set_foot(e, r)
  BY DEF e1, rest, Halved, Cut
<1> HIDE DEF e, n
<1>9. /\ DOMAIN d = DOMAIN e /\ d \in [DOMAIN d -> Header]
      /\ d[n].prev_size = rest
      /\ \A q \in DOMAIN e : d[q].size = e[q].size /\ d[q].prev_inuse = e[q].prev_inuse
      /\ \A q \in DOMAIN e \ {n} : d[q] = e[q]
  BY <1>6, <1>7, <1>8, FootIs
<1>10. /\ DOMAIN d = DOMAIN c \cup {r}
       /\ d[p].size = nb /\ d[r].size = rest /\ d[p].prev_inuse /\ d[r].prev_inuse
       /\ \A q \in DOMAIN c \ {p} : d[q].size = c[q].size
       /\ \A q \in DOMAIN c \ {p} : d[q].prev_inuse = c[q].prev_inuse
       /\ \A q \in DOMAIN c \ {p, n} : d[q] = c[q]
  BY <1>1, <1>4, <1>5, <1>6, <1>9
<1>11. G \cup V = F \cup U \cup {r} /\ G \cap V = {}
  BY <1>1, <1>4 DEF Tiled
<1>12. /\ DOMAIN d = G \cup V \cup {top} /\ top \notin G \cup V
       /\ Base \in DOMAIN d /\ Base \in Nat
       /\ \A q \in DOMAIN d : q \in Nat /\ q >= Base /\ q % 8 = 0
  <2>1. DOMAIN c = F \cup U \cup {top} /\ top \notin F \cup U /\ Base \in DOMAIN c /\ Base \in Nat
    BY DEF Tiled
  <2>2. \A q \in DOMAIN c : q \in Nat /\ q >= Base /\ q % 8 = 0
    BY DEF Tiled
  <2> QED BY <2>1, <2>2, <1>3, <1>4, <1>10, <1>11
<1>13. IsFiniteSet(DOMAIN d)
  <2>1. IsFiniteSet(DOMAIN c)
    BY DEF Tiled
  <2> QED BY <2>1, <1>10, FS_AddElement
<1>14. /\ d[top].size >= 16 /\ top + d[top].size = cur
       /\ d[Base].prev_inuse
  BY <1>1, <1>10 DEF Tiled
<1>15. p + d[p].size = r /\ r + d[r].size = n
  BY <1>1, <1>3, <1>10
<1>16. \A q \in F \cup U : q # p => q + c[q].size \in DOMAIN c \ {n} /\ d[q].size = c[q].size
  BY NextDiffers, NextIsAbove, <1>10, <1>1 DEF n
<1>17. ASSUME NEW q \in G \cup V
       PROVE  d[q].size >= 16 /\ d[q].size % 8 = 0 /\ q + d[q].size \in DOMAIN d
  <2>1. CASE q = p
    BY <2>1, <1>10, <1>15
  <2>2. CASE q = r
    BY <2>2, <1>1, <1>3, <1>10, <1>15
  <2>3. CASE q # p /\ q # r
    BY <2>3, <1>10, <1>11, <1>16 DEF Tiled
  <2> QED BY <2>1, <2>2, <2>3
<1>18. ASSUME NEW q \in DOMAIN d, NEW s \in DOMAIN d, q < s PROVE q + d[q].size <= s
  <2>1. \A a, b \in DOMAIN c : a < b => a + c[a].size <= b
    BY DEF Tiled
  <2>2. \A a \in DOMAIN c : a \in Nat /\ c[a].size \in Nat
    BY DEF Tiled, Header
  <2>3. CASE q = r
    <3>1. s \in DOMAIN c /\ p < s
      BY <2>3, <1>3, <1>10, <1>18, <2>2, <1>1
    <3>2. n <= s
      BY <3>1, <2>1, <1>1 DEF n
    <3> QED BY <3>2, <2>3, <1>15
  <2>4. CASE q = p
    <3>1. CASE s = r
      BY <3>1, <2>4, <1>3, <1>15
    <3>2. CASE s # r
      <4>1. n <= s /\ s \in Nat
        BY <3>2, <2>1, <2>2, <2>4, <1>1, <1>10, <1>18 DEF n
      <4> QED BY <4>1, <2>4, <1>3, <1>15
    <3> QED BY <3>1, <3>2
  <2>5. CASE q # r /\ q # p /\ s # r
    BY <2>1, <2>5, <1>10, <1>18
  <2>6. CASE q # r /\ q # p /\ s = r
    <3>1. q \in DOMAIN c /\ q \in Nat
      BY <2>2, <2>6, <1>10
    <3>2. q < p
      <4>1. p < q => n <= q
        BY <3>1, <2>1, <1>1 DEF n
      <4> QED BY <4>1, <3>1, <2>6, <1>1, <1>3, <1>18
    <3>3. q + c[q].size <= p
      BY <3>1, <3>2, <2>1, <1>1
    <3>4. d[q].size = c[q].size /\ c[q].size \in Nat
      BY <3>1, <2>2, <2>6, <1>10
    <3> QED BY <3>1, <3>3, <3>4, <2>6, <1>1, <1>3
  <2> QED BY <2>3, <2>4, <2>5, <2>6
<1>19. ASSUME NEW s \in DOMAIN d \ {Base} PROVE \E q \in G \cup V : q + d[q].size = s
  <2>1. CASE s = r
    BY <2>1, <1>15
  <2>2. CASE s = n
    BY <2>2, <1>15
  <2>3. CASE s # r /\ s # n
    <3>1. PICK q \in F \cup U : q + c[q].size = s
      BY <2>3, <1>10 DEF Tiled
    <3>2. q # p
      BY <3>1, <2>3 DEF n
    <3> QED BY <3>1, <3>2, <1>11, <1>16
  <2> QED BY <2>1, <2>2, <2>3
<1>20. ASSUME NEW q \in G \cup V
       PROVE  /\ d[q + d[q].size].prev_inuse <=> q \notin G
              /\ q \in G => d[q + d[q].size].prev_size = d[q].size /\ q + d[q].size \in V
  <2>1. CASE q = p
    BY <2>1, <1>10, <1>11, <1>15
  <2>2. CASE q = r
    <3>1. ~c[n].prev_inuse
      BY <1>1 DEF Tiled, n
    <3> QED BY <2>2, <3>1, <1>1, <1>9, <1>10, <1>15
  <2>3. CASE q # p /\ q # r
    <3>1. q \in F \cup U
      BY <2>3, <1>11
    <3>2. q + d[q].size = q + c[q].size /\ q + c[q].size \in DOMAIN c \ {n}
          /\ d[q].size = c[q].size
      BY <3>1, <2>3, <1>16
    <3>3. c[q + c[q].size].prev_inuse <=> q \notin F
      BY <3>1 DEF Tiled
    <3>4. q \in F => c[q + c[q].size].prev_size = c[q].size /\ q + c[q].size \in U
      BY <3>1 DEF Tiled
    <3>5. q \in G <=> q \in F
      BY <2>3
    <3>6. CASE q + c[q].size = p
      BY <3>2, <3>4, <3>5, <3>6, <1>1, <1>10
    <3>7. CASE q + c[q].size # p
      BY <3>2, <3>3, <3>4, <3>5, <3>7, <1>10
    <3> QED BY <3>6, <3>7
  <2> QED BY <2>1, <2>2, <2>3
<1> HIDE DEF G, V
<1>21. Tiled(d, top, cur, G, V)
  BY <1>9, <1>11, <1>12, <1>13, <1>14, <1>17, <1>18, <1>19, <1>20 DEF Tiled
<1> QED BY <1>4, <1>10, <1>21 DEF G, V, CutAt

LEMMA FiniteHasMax ==
  ASSUME NEW S \in SUBSET Int, IsFiniteSet(S), S # {}
  PROVE  \E x \in S : \A y \in S : x >= y
<1> DEFINE Unbounded(T) == T # {} /\ \A x \in T : \E y \in T : y > x
           Sizes == {n \in Nat : \E T \in SUBSET S : Cardinality(T) = n /\ Unbounded(T)}
<1>1. \A T \in SUBSET S : IsFiniteSet(T) /\ Cardinality(T) \in Nat
  BY FS_Subset, FS_CardinalityType
<1>2. ASSUME Unbounded(S) PROVE FALSE
  <2>1. Cardinality(S) \in Sizes /\ Sizes \in SUBSET Nat
    BY <1>1, <1>2
  <2>2. PICK n \in Sizes : \A m \in Sizes : n <= m
    <3> HIDE DEF Sizes
    <3> QED BY <2>1, LeastOf
  <2>3. PICK T \in SUBSET S : Cardinality(T) = n /\ Unbounded(T)
    BY <2>2
  <2>4. PICK x \in T : TRUE
    BY <2>3
  <2>5. IsFiniteSet(T \ {x}) /\ Cardinality(T \ {x}) = n - 1 /\ n \in Nat
    BY <1>1, <2>2, <2>3, <2>4, FS_RemoveElement
  <2>6. PICK y \in T : y > x
    BY <2>3, <2>4
  <2>7. Unbounded(T \ {x})
    <3>1. y \in T \ {x}
      BY <2>4, <2>6
    <3>2. ASSUME NEW z \in T \ {x} PROVE \E w \in T \ {x} : w > z
      <4>1. PICK w \in T : w > z
        BY <2>3
      <4>2. w # x \/ y > z
        BY <4>1, <2>4, <2>6
      <4> QED BY <4>1, <4>2, <3>1
    <3> QED BY <3>1, <3>2
  <2>8. n - 1 \in Nat /\ T \ {x} \in SUBSET S
    BY <1>1, <2>5
  <2>9. n - 1 \in Sizes
    BY <2>5, <2>7, <2>8
  <2> QED BY <2>2, <2>5, <2>9
<1> QED BY <1>2

\* No chunk lies above top.
LEMMA TopIsLast ==
  ASSUME NEW c, NEW top, NEW cur, NEW F, NEW U, Tiled(c, top, cur, F, U), NEW a \in DOMAIN c
  PROVE  a <= top
<1>1. /\ DOMAIN c = F \cup U \cup {top} /\ IsFiniteSet(DOMAIN c)
      /\ \A q \in DOMAIN c : q \in Nat /\ c[q].size \in Nat
      /\ \A q \in F \cup U : c[q].size >= 16 /\ q + c[q].size \in DOMAIN c
  BY DEF Tiled, Header
<1>2. PICK b \in DOMAIN c : \A x \in DOMAIN c : b >= x
  <2>1. DOMAIN c \in SUBSET Int /\ DOMAIN c # {}
    BY <1>1
  <2> QED BY <1>1, <2>1, FiniteHasMax
<1>3. b = top
  BY <1>1, <1>2
<1> QED BY <1>1, <1>2, <1>3

\* The front of top comes to be in use (use_top).
LEMMA UsedTopIsTiled ==
  ASSUME NEW c, NEW top, NEW cur, NEW F, NEW U, Tiled(c, top, cur, F, U),
         NEW nb \in Nat, nb >= 16, nb % 8 = 0, c[top].size >= nb + 16,
         NEW r, r = top + nb, NEW d, d = Cut(c, top, nb, r)
  PROVE  Tiled(d, r, cur, F, U \cup {top}) /\ CutAt(c, d, top, nb, r)
<1> DEFINE e == set_head(c, top, nb)
           rest == c[top].size - nb
           V == U \cup {top}
<1>1. /\ top \in DOMAIN c /\ c \in [DOMAIN c -> Header] /\ top \notin F \cup U
      /\ DOMAIN c = F \cup U \cup {top} /\ F \cap U = {}
      /\ Base \in DOMAIN c /\ Base \in Nat /\ top + c[top].size = cur
  BY DEF Tiled
<1>2. \A q \in DOMAIN c : q \in Nat /\ q >= Base /\ q % 8 = 0
  BY DEF Tiled
<1>3. \A q \in DOMAIN c : c[q].size \in Nat
  BY <1>1 DEF Header
<1>4. \A q \in F \cup U : c[q].size >= 16 /\ c[q].size % 8 = 0 /\ q + c[q].size \in DOMAIN c
  BY DEF Tiled
<1>5. \A a, b \in DOMAIN c : a < b => a + c[a].size <= b
  BY DEF Tiled
<1>6. /\ rest \in Nat /\ r \in Nat /\ rest >= 16 /\ r + rest = cur /\ r > top
      /\ r % 8 = 0 /\ r >= Base /\ r # Base
  BY <1>1, <1>2, <1>3
<1>7. \A q \in F \cup U : q < top
  BY <1>1, <1>2, TopIsLast
<1>8. r \notin DOMAIN c
  BY <1>1, <1>2, <1>6, <1>7
<1>9. Headed(c, e, top, nb)
  BY <1>1, HeadIs
<1>10. /\ DOMAIN e = DOMAIN c /\ e \in [DOMAIN e -> Header]
       /\ e[top].size = nb /\ e[top].prev_inuse /\ \A q \in DOMAIN c \ {top} : e[q] = c[q]
  BY <1>1, <1>9 DEF Headed
<1> HIDE DEF e, rest
<1>11. Headed(e, d, r, rest)
  BY <1>6, <1>10, HeadIs DEF rest, e, Cut
<1>12. /\ DOMAIN d = DOMAIN c \cup {r} /\ d \in [DOMAIN d -> Header]
       /\ d[top].size = nb /\ d[r].size = rest /\ d[top].prev_inuse /\ d[r].prev_inuse
       /\ \A q \in DOMAIN c \ {top} : d[q] = c[q]
  BY <1>1, <1>8, <1>10, <1>11 DEF Headed
<1>13. IsFiniteSet(DOMAIN d)
  <2>1. IsFiniteSet(DOMAIN c)
    BY DEF Tiled
  <2> QED BY <2>1, <1>12, FS_AddElement
<1>14. /\ DOMAIN d = F \cup V \cup {r} /\ r \notin F \cup V /\ F \cap V = {}
       /\ Base \in DOMAIN d /\ Base \in Nat
       /\ \A q \in DOMAIN d : q \in Nat /\ q >= Base /\ q % 8 = 0
  BY <1>1, <1>2, <1>6, <1>8, <1>12
<1>15. d[r].size >= 16 /\ r + d[r].size = cur /\ top + d[top].size = r
  BY <1>6, <1>12
<1>16. \A q \in F \cup U : d[q] = c[q] /\ q + c[q].size \in DOMAIN c
  BY <1>1, <1>4, <1>12
<1>17. ASSUME NEW q \in F \cup V
       PROVE  d[q].size >= 16 /\ d[q].size % 8 = 0 /\ q + d[q].size \in DOMAIN d
  BY <1>4, <1>12, <1>15, <1>16
<1>18. ASSUME NEW q \in DOMAIN d, NEW s \in DOMAIN d, q < s PROVE q + d[q].size <= s
  <2>1. CASE q = r
    BY <2>1, <1>1, <1>2, <1>6, <1>7, <1>12, <1>18
  <2>2. CASE q = top
    <3>1. s = r
      BY <2>2, <1>1, <1>2, <1>7, <1>12, <1>18
    <3> QED BY <3>1, <2>2, <1>15, <1>6
  <2>3. CASE q \in F \cup U /\ s # r
    BY <2>3, <1>1, <1>5, <1>12, <1>16, <1>18
  <2>4. CASE q \in F \cup U /\ s = r
    <3>1. q + c[q].size <= top
      BY <2>4, <1>1, <1>5, <1>7
    <3> QED BY <3>1, <2>4, <1>1, <1>2, <1>3, <1>6, <1>16
  <2> QED BY <2>1, <2>2, <2>3, <2>4, <1>14
<1>19. ASSUME NEW s \in DOMAIN d \ {Base} PROVE \E q \in F \cup V : q + d[q].size = s
  <2>1. CASE s = r
    BY <2>1, <1>15
  <2>2. CASE s # r
    <3>1. PICK q \in F \cup U : q + c[q].size = s
      BY <2>2, <1>12 DEF Tiled
    <3> QED BY <3>1, <1>16
  <2> QED BY <2>1, <2>2
<1>20. d[Base].prev_inuse
  BY <1>1, <1>12 DEF Tiled
<1>21. ASSUME NEW q \in F \cup V
       PROVE  /\ d[q + d[q].size].prev_inuse <=> q \notin F
              /\ q \in F => d[q + d[q].size].prev_size = d[q].size /\ q + d[q].size \in V
  <2>1. CASE q = top
    BY <2>1, <1>1, <1>12, <1>15
  <2>2. CASE q # top
    <3>1. q \in F \cup U
      BY <2>2
    <3>2. d[q] = c[q] /\ q + c[q].size \in DOMAIN c
      BY <3>1, <1>16
    <3>3. c[q + c[q].size].prev_inuse <=> q \notin F
      BY <3>1 DEF Tiled
    <3>4. q \in F => c[q + c[q].size].prev_size = c[q].size /\ q + c[q].size \in U
      BY <3>1 DEF Tiled
    <3>5. CASE q + c[q].size = top
      BY <3>2, <3>4, <3>5, <1>1, <1>12
    <3>6. CASE q + c[q].size # top
      BY <3>2, <3>3, <3>4, <3>6, <1>12
    <3> QED BY <3>5, <3>6
  <2> QED BY <2>1, <2>2
<1> HIDE DEF V
<1>22. \A q \in F : d[q + d[q].size].prev_size = d[q].size /\ q + d[q].size \in V
  BY <1>21
<1>23. \A q \in F \cup V : d[q + d[q].size].prev_inuse <=> q \notin F
  BY <1>21
<1>24. Tiled(d, r, cur, F, V)
  <2>1. d \in [DOMAIN d -> Header] /\ r + d[r].size = cur /\ d[r].size >= 16
    BY <1>12, <1>15
  <2> QED BY <2>1, <1>13, <1>14, <1>17, <1>18, <1>19, <1>20, <1>22, <1>23 DEF Tiled
<1> QED BY <1>8, <1>12, <1>24 DEF V, CutAt

\* top reaches further (sYSMALLOc).
LEMMA GrownIsTiled ==
  ASSUME NEW c, NEW top, NEW cur, NEW F, NEW U, Tiled(c, top, cur, F, U), NEW k \in Nat
  PROVE  LET d == set_head(c, top, c[top].size + k) IN
         /\ Tiled(d, top, cur + k, F, U) /\ d[top].size = c[top].size + k
         /\ \A q \in DOMAIN c \ {top} : d[q].size = c[q].size
<1> DEFINE size == c[top].size + k
           d == set_head(c, top, size)
<1>1. /\ top \in DOMAIN c /\ c \in [DOMAIN c -> Header] /\ top \notin F \cup U
      /\ DOMAIN c = F \cup U \cup {top} /\ F \cap U = {}
      /\ Base \in DOMAIN c /\ Base \in Nat /\ top + c[top].size = cur /\ c[top].size >= 16
  BY DEF Tiled
<1>2. \A q \in DOMAIN c : q \in Nat /\ c[q].size \in Nat
  BY <1>1 DEF Header, Tiled
<1>3. Headed(c, d, top, size)
  BY <1>1, <1>2, HeadIs
<1> HIDE DEF d
<1>4. /\ DOMAIN d = DOMAIN c /\ d \in [DOMAIN d -> Header]
      /\ d[top].size = size /\ d[top].prev_inuse /\ \A q \in DOMAIN c \ {top} : d[q] = c[q]
  BY <1>1, <1>3 DEF Headed
<1>5. size >= 16 /\ top + size = cur + k
  BY <1>1, <1>2
<1> HIDE DEF size
<1>6. \A q \in F \cup U : d[q] = c[q] /\ q + c[q].size \in DOMAIN c
  BY <1>1, <1>4 DEF Tiled
<1>7. /\ DOMAIN d = F \cup U \cup {top} /\ top \notin F \cup U /\ F \cap U = {}
      /\ IsFiniteSet(DOMAIN d)
      /\ Base \in DOMAIN d /\ Base \in Nat
      /\ \A q \in DOMAIN d : q \in Nat /\ q >= Base /\ q % 8 = 0
  BY <1>1, <1>4 DEF Tiled
<1>8. \A q \in F \cup U : d[q].size >= 16 /\ d[q].size % 8 = 0 /\ q + d[q].size \in DOMAIN d
  BY <1>6, <1>4 DEF Tiled
<1>9. ASSUME NEW q \in DOMAIN d, NEW s \in DOMAIN d, q < s PROVE q + d[q].size <= s
  <2>1. q # top
    BY <1>2, <1>4, <1>9, TopIsLast
  <2> QED BY <2>1, <1>4, <1>9 DEF Tiled
<1>10. \A s \in DOMAIN d \ {Base} : \E q \in F \cup U : q + d[q].size = s
  <2> SUFFICES ASSUME NEW s \in DOMAIN d \ {Base} PROVE \E q \in F \cup U : q + d[q].size = s
    OBVIOUS
  <2>1. PICK q \in F \cup U : q + c[q].size = s
    BY <1>4 DEF Tiled
  <2> QED BY <2>1, <1>6
<1>11. d[Base].prev_inuse
  BY <1>1, <1>4 DEF Tiled
<1>12. ASSUME NEW q \in F \cup U
       PROVE  /\ d[q + d[q].size].prev_inuse <=> q \notin F
              /\ q \in F => d[q + d[q].size].prev_size = d[q].size /\ q + d[q].size \in U
  <2>1. c[q + c[q].size].prev_inuse <=> q \notin F
    BY DEF Tiled
  <2>2. q \in F => c[q + c[q].size].prev_size = c[q].size /\ q + c[q].size \in U
    BY DEF Tiled
  <2>3. CASE q + c[q].size = top
    BY <2>2, <2>3, <1>1, <1>4, <1>6
  <2>4. CASE q + c[q].size # top
    BY <2>1, <2>2, <2>4, <1>4, <1>6
  <2> QED BY <2>3, <2>4
<1>13. Tiled(d, top, cur + k, F, U)
  BY <1>4, <1>5, <1>7, <1>8, <1>9, <1>10, <1>11, <1>12 DEF Tiled
<1> QED BY <1>4, <1>13 DEF d, size

\* The first chunk is top.
LEMMA FirstIsTiled ==
  ASSUME NEW c, DOMAIN c = {}, c \in [DOMAIN c -> Header], NEW size \in Nat, size >= 16,
         Base \in Nat, Base % 8 = 0
  PROVE  LET d == set_head(c, Base, size) IN
         Tiled(d, Base, Base + size, {}, {}) /\ d[Base].size = size
<1> DEFINE d == set_head(c, Base, size)
<1>1. Headed(c, d, Base, size)
  BY HeadIs
<1> HIDE DEF d
<1>2. /\ DOMAIN d = {Base} /\ d \in [DOMAIN d -> Header] /\ d[Base].size = size
      /\ d[Base].prev_inuse
  BY <1>1 DEF Headed
<1>3. IsFiniteSet(DOMAIN d)
  BY <1>2, FS_Singleton
<1>4. \A p \in DOMAIN d : p = Base
  BY <1>2
<1>5. \A p, q \in DOMAIN d : p < q => p + d[p].size <= q
  BY <1>4
<1>6. Tiled(d, Base, Base + size, {}, {})
  BY <1>2, <1>3, <1>4, <1>5 DEF Tiled
<1> QED BY <1>2, <1>6 DEF d

-----------------------------------------------------------------------------
(* The lists *)

LEMMA SeqFacts ==
  ASSUME NEW s \in Seq(Nat)
  PROVE  /\ Len(s) \in Nat /\ DOMAIN s = 1..Len(s) /\ s \in [1..Len(s) -> Nat]
         /\ \A m \in 1..Len(s) : s[m] \in Nat
         /\ s = <<>> <=> Len(s) = 0
         /\ \A p : p \in ToSet(s) <=> \E m \in 1..Len(s) : s[m] = p
<1>1. Len(s) \in Nat /\ DOMAIN s = 1..Len(s) /\ s \in [1..Len(s) -> Nat]
  BY LenProperties
<1>2. s = <<>> <=> Len(s) = 0
  BY EmptySeq
<1> QED BY <1>1, <1>2 DEF ToSet

Distinct(s) == \A m, n \in DOMAIN s : s[m] = s[n] => m = n

\* t is s with p at k.
Inserted(s, t, k, p) ==
  /\ s \in Seq(Nat) /\ t \in Seq(Nat) /\ p \in Nat
  /\ k \in 1..Len(s)+1 /\ Len(t) = Len(s) + 1
  /\ \A j \in 1..Len(s)+1 : t[j] = IF j < k THEN s[j] ELSE IF j = k THEN p ELSE s[j-1]

LEMMA InsertAtIs ==
  ASSUME NEW s \in Seq(Nat), NEW k \in 1..Len(s)+1, NEW p \in Nat
  PROVE  Inserted(s, InsertAt(s, k, p), k, p)
<1> DEFINE a == SubSeq(s, 1, k-1)
           b == SubSeq(s, k, Len(s))
           ap == a \o <<p>>
<1>1. Len(s) \in Nat /\ (\A m \in 1..Len(s) : s[m] \in Nat) /\ k \in Nat /\ k >= 1
      /\ k <= Len(s) + 1
  BY SeqFacts
<1>2. a \in Seq(Nat) /\ Len(a) = k - 1 /\ \A i \in 1..k-1 : a[i] = s[i]
  <2>1. \A i \in 1..k-1 : s[i] \in Nat
    BY <1>1
  <2>2. /\ a \in Seq(Nat) /\ Len(a) = IF 1 <= k-1 THEN k-1-1+1 ELSE 0
        /\ \A i \in 1..(k-1)-1+1 : a[i] = s[1+i-1]
    BY <1>1, <2>1, SubSeqProperties, k - 1 \in Int, 1 \in Int
  <2> QED BY <1>1, <2>2
<1>3. b \in Seq(Nat) /\ Len(b) = Len(s) - k + 1 /\ \A i \in 1..Len(s)-k+1 : b[i] = s[k+i-1]
  <2>1. \A i \in k..Len(s) : s[i] \in Nat
    BY <1>1
  <2>2. /\ b \in Seq(Nat) /\ Len(b) = IF k <= Len(s) THEN Len(s)-k+1 ELSE 0
        /\ \A i \in 1..Len(s)-k+1 : b[i] = s[k+i-1]
    BY <1>1, <2>1, SubSeqProperties, k \in Int, Len(s) \in Int
  <2> QED BY <1>1, <2>2
<1>4. <<p>> \in Seq(Nat) /\ Len(<<p>>) = 1 /\ <<p>>[1] = p
  OBVIOUS
<1>5. InsertAt(s, k, p) = ap \o b
  BY DEF InsertAt
<1> HIDE DEF a, b
<1>6. /\ ap \in Seq(Nat) /\ Len(ap) = k /\ ap[k] = p /\ \A i \in 1..k-1 : ap[i] = s[i]
  <2>1. /\ ap \in Seq(Nat) /\ Len(ap) = Len(a) + Len(<<p>>)
        /\ \A i \in 1..Len(a) + Len(<<p>>) :
             ap[i] = IF i <= Len(a) THEN a[i] ELSE <<p>>[i - Len(a)]
    BY <1>2, <1>4, ConcatProperties
  <2>2. Len(a) = k - 1 /\ k \in Int /\ Len(a) + Len(<<p>>) = k
    BY <1>1, <1>2, <1>4
  <2> HIDE DEF ap
  <2>3. \A i \in 1..k : ap[i] = IF i <= k - 1 THEN a[i] ELSE <<p>>[i - (k - 1)]
    BY <2>1, <2>2
  <2>4. ap[k] = p
    <3>1. k \in 1..k /\ ~(k <= k - 1) /\ k - (k - 1) = 1
      BY <1>1
    <3> QED BY <1>4, <2>3, <3>1
  <2>5. \A i \in 1..k-1 : ap[i] = s[i]
    <3>1. \A i \in 1..k-1 : i \in 1..k /\ i <= k - 1
      BY <1>1
    <3> QED BY <1>2, <2>3, <3>1
  <2> QED BY <2>1, <2>2, <2>4, <2>5
<1> HIDE DEF ap
<1>7. /\ ap \o b \in Seq(Nat) /\ Len(ap \o b) = Len(s) + 1
      /\ \A j \in 1..Len(s)+1 : (ap \o b)[j] = IF j <= k THEN ap[j] ELSE b[j - k]
  <2>1. /\ ap \o b \in Seq(Nat) /\ Len(ap \o b) = Len(ap) + Len(b)
        /\ \A i \in 1..Len(ap) + Len(b) :
             (ap \o b)[i] = IF i <= Len(ap) THEN ap[i] ELSE b[i - Len(ap)]
    BY <1>3, <1>6, ConcatProperties
  <2>2. Len(ap) = k /\ Len(ap) + Len(b) = Len(s) + 1
    BY <1>1, <1>3, <1>6
  <2> QED BY <2>1, <2>2
<1>8. ASSUME NEW j \in 1..Len(s)+1
      PROVE  (ap \o b)[j] = IF j < k THEN s[j] ELSE IF j = k THEN p ELSE s[j-1]
  <2>1. CASE j < k
    BY <2>1, <1>1, <1>6, <1>7
  <2>2. CASE j = k
    BY <2>2, <1>1, <1>6, <1>7
  <2>3. CASE j > k
    <3>1. j - k \in 1..Len(s)-k+1 /\ k + (j - k) - 1 = j - 1
      BY <2>3, <1>1
    <3>2. b[j - k] = s[j - 1]
      BY <3>1, <1>3
    <3>3. ~(j <= k) /\ ~(j < k) /\ j # k
      BY <2>3, <1>1
    <3>4. (ap \o b)[j] = b[j - k]
      BY <3>3, <1>7
    <3> QED BY <3>2, <3>3, <3>4
  <2>4. j < k \/ j = k \/ j > k
    BY <1>1
  <2> QED BY <2>1, <2>2, <2>3, <2>4
<1> QED BY <1>5, <1>7, <1>8 DEF Inserted

LEMMA TakenOut ==
  ASSUME NEW s \in Seq(Nat), NEW k \in 1..Len(s), Distinct(s)
  PROVE  /\ RemoveFirst(s, s[k]) \in Seq(Nat) /\ Len(RemoveFirst(s, s[k])) = Len(s) - 1
         /\ \A j \in 1..Len(s)-1 :
              RemoveFirst(s, s[k])[j] = IF j < k THEN s[j] ELSE s[j+1]
<1> DEFINE a == SubSeq(s, 1, k-1)
           b == SubSeq(s, k+1, Len(s))
           I == {i \in 1..Len(s) : s[i] = s[k]}
<1>1. Len(s) \in Nat /\ (\A m \in 1..Len(s) : s[m] \in Nat) /\ k \in Nat /\ k >= 1
      /\ k <= Len(s) /\ DOMAIN s = 1..Len(s)
  BY SeqFacts
<1>2. I = {k}
  BY <1>1 DEF Distinct
<1>3. Min(I) = k
  BY <1>1, <1>2 DEF Min
<1>4. RemoveFirst(s, s[k]) = a \o b
  BY <1>2, <1>3 DEF RemoveFirst, SelectInSeq, RemoveAt
<1>5. a \in Seq(Nat) /\ Len(a) = k - 1 /\ \A i \in 1..k-1 : a[i] = s[i]
  <2>1. \A i \in 1..k-1 : s[i] \in Nat
    BY <1>1
  <2>2. /\ a \in Seq(Nat) /\ Len(a) = IF 1 <= k-1 THEN k-1-1+1 ELSE 0
        /\ \A i \in 1..(k-1)-1+1 : a[i] = s[1+i-1]
    BY <1>1, <2>1, SubSeqProperties, k - 1 \in Int, 1 \in Int
  <2> QED BY <1>1, <2>2
<1>6. b \in Seq(Nat) /\ Len(b) = Len(s) - k /\ \A i \in 1..Len(s)-k : b[i] = s[k+i]
  <2>1. \A i \in k+1..Len(s) : s[i] \in Nat
    BY <1>1
  <2>2. /\ b \in Seq(Nat) /\ Len(b) = IF k+1 <= Len(s) THEN Len(s)-(k+1)+1 ELSE 0
        /\ \A i \in 1..Len(s)-(k+1)+1 : b[i] = s[(k+1)+i-1]
    BY <1>1, <2>1, SubSeqProperties, k + 1 \in Int, Len(s) \in Int
  <2> HIDE DEF b
  <2> DEFINE n == Len(s)
  <2>3. n \in Int /\ k \in Int /\ k <= n
    BY <1>1
  <2> HIDE DEF n
  <2>4. n-(k+1)+1 = n-k /\ (k+1 <= n \/ n-k = 0) /\ \A i \in 1..n-k : (k+1)+i-1 = k+i
    BY <2>3
  <2>5. /\ b \in Seq(Nat) /\ Len(b) = IF k+1 <= n THEN n-(k+1)+1 ELSE 0
        /\ \A i \in 1..n-(k+1)+1 : b[i] = s[(k+1)+i-1]
    BY <2>2 DEF n
  <2>6. b \in Seq(Nat) /\ Len(b) = n - k
    BY <2>3, <2>4, <2>5
  <2>7. \A i \in 1..n-k : b[i] = s[k+i]
    BY <2>4, <2>5
  <2> QED BY <2>6, <2>7 DEF n
<1> HIDE DEF a, b
<1>7. /\ a \o b \in Seq(Nat) /\ Len(a \o b) = Len(s) - 1
      /\ \A j \in 1..Len(s)-1 : (a \o b)[j] = IF j <= k - 1 THEN a[j] ELSE b[j - (k - 1)]
  <2>1. /\ a \o b \in Seq(Nat) /\ Len(a \o b) = Len(a) + Len(b)
        /\ \A i \in 1..Len(a) + Len(b) :
             (a \o b)[i] = IF i <= Len(a) THEN a[i] ELSE b[i - Len(a)]
    BY <1>5, <1>6, ConcatProperties
  <2>2. Len(a) = k - 1 /\ Len(a) + Len(b) = Len(s) - 1
    BY <1>1, <1>5, <1>6
  <2> QED BY <2>1, <2>2
<1>8. ASSUME NEW j \in 1..Len(s)-1
      PROVE  (a \o b)[j] = IF j < k THEN s[j] ELSE s[j+1]
  <2>1. CASE j < k
    BY <2>1, <1>1, <1>5, <1>7
  <2>2. CASE j >= k
    <3>1. j - (k - 1) \in 1..Len(s)-k /\ k + (j - (k - 1)) = j + 1 /\ ~(j <= k - 1) /\ ~(j < k)
      BY <2>2, <1>1
    <3>2. b[j - (k - 1)] = s[j + 1]
      BY <3>1, <1>6
    <3> QED BY <3>1, <3>2, <1>7
  <2>3. j < k \/ j >= k
    BY <1>1
  <2> QED BY <2>1, <2>2, <2>3
<1> QED BY <1>4, <1>7, <1>8

LEMMA PushedIs ==
  ASSUME NEW s \in Seq(Nat), NEW p \in Nat
  PROVE  Inserted(s, <<p>> \o s, 1, p)
<1>1. Len(s) \in Nat
  BY SeqFacts
<1>2. <<p>> \in Seq(Nat) /\ Len(<<p>>) = 1 /\ <<p>>[1] = p
  OBVIOUS
<1>3. /\ <<p>> \o s \in Seq(Nat) /\ Len(<<p>> \o s) = 1 + Len(s)
      /\ \A i \in 1..1+Len(s) : (<<p>> \o s)[i] = IF i <= 1 THEN <<p>>[i] ELSE s[i - 1]
  BY <1>2, ConcatProperties
<1>4. \A j \in 1..Len(s)+1 : (<<p>> \o s)[j] = IF j < 1 THEN s[j] ELSE IF j = 1 THEN p ELSE s[j-1]
  BY <1>1, <1>2, <1>3
<1> QED BY <1>1, <1>3, <1>4 DEF Inserted

LEMMA TailIs ==
  ASSUME NEW s \in Seq(Nat), s # <<>>
  PROVE  Inserted(Tail(s), s, 1, s[1])
<1>1. Len(s) \in Nat \ {0} /\ \A m \in 1..Len(s) : s[m] \in Nat
  BY SeqFacts
<1>2. /\ Tail(s) \in Seq(Nat) /\ Len(Tail(s)) = Len(s) - 1
      /\ \A i \in 1..Len(Tail(s)) : Tail(s)[i] = s[i+1]
  BY HeadTailProperties
<1>3. ASSUME NEW j \in 1..Len(s), j # 1 PROVE Tail(s)[j-1] = s[j]
  BY <1>1, <1>2, <1>3
<1> QED BY <1>1, <1>2, <1>3 DEF Inserted

LEMMA RemovedIs ==
  ASSUME NEW s \in Seq(Nat), Distinct(s), NEW p \in ToSet(s)
  PROVE  \E k \in 1..Len(s) : s[k] = p /\ Inserted(RemoveFirst(s, p), s, k, p)
<1>1. PICK k \in 1..Len(s) : s[k] = p
  BY SeqFacts
<1>2. Len(s) \in Nat /\ (\A m \in 1..Len(s) : s[m] \in Nat) /\ DOMAIN s = 1..Len(s)
  BY SeqFacts
<1> DEFINE t == RemoveFirst(s, p)
<1>3. /\ t \in Seq(Nat) /\ Len(t) = Len(s) - 1
      /\ \A j \in 1..Len(s)-1 : t[j] = IF j < k THEN s[j] ELSE s[j+1]
  BY <1>1, TakenOut
<1> HIDE DEF t
<1>4. ASSUME NEW j \in 1..Len(s)
      PROVE  s[j] = IF j < k THEN t[j] ELSE IF j = k THEN p ELSE t[j-1]
  <2>1. CASE j < k
    <3>1. j \in 1..Len(s)-1
      BY <2>1, <1>2
    <3>2. t[j] = s[j]
      BY <3>1, <2>1, <1>3
    <3> QED BY <3>2, <2>1
  <2>2. CASE j = k
    BY <2>2, <1>1
  <2>3. CASE j > k
    <3>1. j - 1 \in 1..Len(s)-1 /\ ~(j - 1 < k) /\ (j - 1) + 1 = j
      BY <2>3, <1>2
    <3>2. t[j-1] = s[j]
      BY <3>1, <1>3
    <3> QED BY <3>2, <2>3
  <2> QED BY <2>1, <2>2, <2>3
<1>5. Len(s) = Len(t) + 1 /\ k \in 1..Len(t)+1 /\ p \in Nat
  BY <1>1, <1>2, <1>3
<1>6. Inserted(t, s, k, p)
  BY <1>3, <1>4, <1>5 DEF Inserted
<1> QED BY <1>1, <1>6 DEF t

LEMMA RemovedNot ==
  ASSUME NEW s \in Seq(Nat), NEW p, p \notin ToSet(s)
  PROVE  RemoveFirst(s, p) = s
BY SeqFacts DEF RemoveFirst

LEMMA InsertedSet ==
  ASSUME NEW s, NEW t, NEW k, NEW p, Inserted(s, t, k, p)
  PROVE  /\ ToSet(t) = ToSet(s) \cup {p}
         /\ Distinct(t) <=> Distinct(s) /\ p \notin ToSet(s)
<1>1. s \in Seq(Nat) /\ t \in Seq(Nat)
  BY DEF Inserted
<1>2. /\ Len(s) \in Nat /\ DOMAIN s = 1..Len(s) /\ DOMAIN t = 1..Len(s)+1
      /\ \A q : q \in ToSet(s) <=> \E m \in 1..Len(s) : s[m] = q
      /\ \A q : q \in ToSet(t) <=> \E m \in 1..Len(s)+1 : t[m] = q
  BY <1>1, SeqFacts DEF Inserted
<1> DEFINE at(m) == IF m < k THEN m ELSE m + 1
<1>3. /\ k \in 1..Len(s)+1 /\ t[k] = p
      /\ \A m \in 1..Len(s) : at(m) \in 1..Len(s)+1 /\ at(m) # k /\ t[at(m)] = s[m]
  <2>1. k \in 1..Len(s)+1 /\ t[k] = p
    BY <1>2 DEF Inserted
  <2>2. ASSUME NEW m \in 1..Len(s)
        PROVE  at(m) \in 1..Len(s)+1 /\ at(m) # k /\ t[at(m)] = s[m]
    <3>1. CASE m < k
      BY <3>1, <1>2, <2>1 DEF Inserted
    <3>2. CASE ~(m < k)
      <4>1. at(m) = m + 1 /\ m + 1 \in 1..Len(s)+1 /\ m + 1 > k /\ (m + 1) - 1 = m
        BY <3>2, <1>2, <2>1
      <4>2. t[m + 1] = s[(m + 1) - 1]
        BY <4>1, <1>2, <2>1 DEF Inserted
      <4> QED BY <4>1, <4>2, <2>1
    <3> QED BY <3>1, <3>2
  <2> QED BY <2>1, <2>2
<1>4. \A m, n \in 1..Len(s) : m # n => at(m) # at(n)
  BY <1>2, <1>3
<1>5. \A j \in 1..Len(s)+1 : j # k => \E m \in 1..Len(s) : at(m) = j
  <2> SUFFICES ASSUME NEW j \in 1..Len(s)+1, j # k PROVE \E m \in 1..Len(s) : at(m) = j
    OBVIOUS
  <2>1. CASE j < k
    BY <2>1, <1>2, <1>3
  <2>2. CASE j > k
    <3>1. j - 1 \in 1..Len(s) /\ ~(j - 1 < k) /\ (j - 1) + 1 = j
      BY <2>2, <1>2, <1>3
    <3> QED BY <3>1
  <2> QED BY <2>1, <2>2, <1>2, <1>3
<1> HIDE DEF at
<1>6. ToSet(t) = ToSet(s) \cup {p}
  <2>1. ASSUME NEW q \in ToSet(t) PROVE q \in ToSet(s) \cup {p}
    BY <1>2, <1>3, <1>5
  <2>2. ASSUME NEW q \in ToSet(s) \cup {p} PROVE q \in ToSet(t)
    BY <1>2, <1>3
  <2> QED BY <2>1, <2>2
<1>7. ASSUME Distinct(t) PROVE Distinct(s) /\ p \notin ToSet(s)
  <2>1. \A m, n \in 1..Len(s)+1 : t[m] = t[n] => m = n
    BY <1>2, <1>7 DEF Distinct
  <2>2. \A m, n \in 1..Len(s) : s[m] = s[n] => m = n
    BY <2>1, <1>3, <1>4
  <2>3. \A m \in 1..Len(s) : s[m] # p
    BY <2>1, <1>3
  <2> QED BY <2>2, <2>3, <1>2 DEF Distinct
<1>8. ASSUME Distinct(s), p \notin ToSet(s) PROVE Distinct(t)
  <2>1. \A m, n \in 1..Len(s) : s[m] = s[n] => m = n
    BY <1>2, <1>8 DEF Distinct
  <2>2. \A m \in 1..Len(s) : s[m] # p
    BY <1>2, <1>8
  <2>3. ASSUME NEW i \in 1..Len(s)+1, NEW j \in 1..Len(s)+1, t[i] = t[j] PROVE i = j
    <3>1. CASE i = k
      BY <3>1, <2>2, <2>3, <1>3, <1>5
    <3>2. CASE j = k
      BY <3>2, <2>2, <2>3, <1>3, <1>5
    <3>3. CASE i # k /\ j # k
      BY <3>3, <2>1, <2>3, <1>3, <1>5
    <3> QED BY <3>1, <3>2, <3>3
  <2> QED BY <2>3, <1>2 DEF Distinct
<1> QED BY <1>6, <1>7, <1>8

\* The chunks of s have their sizes in order, the largest first.
Descending(c, s) == \A m, n \in DOMAIN s : m < n => c[s[n]].size <= c[s[m]].size

LEMMA StillDescending ==
  ASSUME NEW s, NEW t, NEW k, NEW p, Inserted(s, t, k, p), NEW c, Descending(c, t)
  PROVE  Descending(c, s)
<1>1. s \in Seq(Nat) /\ t \in Seq(Nat)
  BY DEF Inserted
<1>2. Len(s) \in Nat /\ DOMAIN s = 1..Len(s) /\ DOMAIN t = 1..Len(s)+1 /\ k \in 1..Len(s)+1
  BY <1>1, SeqFacts DEF Inserted
<1> DEFINE at(m) == IF m < k THEN m ELSE m + 1
<1>3. ASSUME NEW m \in 1..Len(s)
      PROVE  at(m) \in 1..Len(s)+1 /\ t[at(m)] = s[m]
  <2>1. CASE m < k
    <3>1. at(m) = m /\ m \in 1..Len(s)+1
      BY <2>1, <1>2
    <3>2. t[m] = s[m]
      BY <3>1, <2>1 DEF Inserted
    <3> QED BY <3>1, <3>2
  <2>2. CASE ~(m < k)
    <3>1. at(m) = m + 1 /\ m + 1 \in 1..Len(s)+1 /\ m + 1 > k /\ (m + 1) - 1 = m
      BY <2>2, <1>2
    <3>2. t[m + 1] = s[(m + 1) - 1]
      BY <3>1, <1>2 DEF Inserted
    <3> QED BY <3>1, <3>2
  <2> QED BY <2>1, <2>2
<1>4. \A m, n \in 1..Len(s) : m < n => at(m) < at(n)
  BY <1>2
<1> HIDE DEF at
<1>5. \A m, n \in 1..Len(s)+1 : m < n => c[t[n]].size <= c[t[m]].size
  BY <1>2 DEF Descending
<1>6. \A m, n \in 1..Len(s) : m < n => c[s[n]].size <= c[s[m]].size
  BY <1>3, <1>4, <1>5
<1> QED BY <1>2, <1>6 DEF Descending

LEMMA InsertedDescends ==
  ASSUME NEW s, NEW t, NEW k, NEW p, Inserted(s, t, k, p), NEW c, Descending(c, s),
         \A m \in 1..Len(s) : c[s[m]].size \in Nat,
         \A m \in 1..Len(s) : m < k => c[p].size <= c[s[m]].size,
         \A m \in 1..Len(s) : m >= k => c[s[m]].size <= c[p].size
  PROVE  Descending(c, t)
<1>1. s \in Seq(Nat) /\ t \in Seq(Nat)
  BY DEF Inserted
<1>2. Len(s) \in Nat /\ DOMAIN s = 1..Len(s) /\ DOMAIN t = 1..Len(s)+1 /\ k \in 1..Len(s)+1
  BY <1>1, SeqFacts DEF Inserted
<1>3. \A j \in 1..Len(s)+1 : t[j] = IF j < k THEN s[j] ELSE IF j = k THEN p ELSE s[j-1]
  BY DEF Inserted
<1>4. \A m, n \in 1..Len(s) : m < n => c[s[n]].size <= c[s[m]].size
  BY <1>2 DEF Descending
<1>5. ASSUME NEW i \in 1..Len(s)+1, NEW j \in 1..Len(s)+1, i < j
      PROVE  c[t[j]].size <= c[t[i]].size
  <2>1. CASE j < k
    BY <2>1, <1>2, <1>3, <1>4, <1>5
  <2>2. CASE j = k
    BY <2>2, <1>2, <1>3, <1>5
  <2>3. CASE j > k /\ i < k
    <3>1. t[j] = s[j-1] /\ t[i] = s[i] /\ j - 1 \in 1..Len(s) /\ i \in 1..Len(s) /\ i <= j - 1
      BY <2>3, <1>2, <1>3, <1>5
    <3>2. CASE i = j - 1
      BY <3>1, <3>2, <2>3, <1>2
    <3>3. CASE i < j - 1
      BY <3>1, <3>3, <1>4
    <3> QED BY <3>1, <3>2, <3>3
  <2>4. CASE j > k /\ i = k
    <3>1. t[j] = s[j-1] /\ t[i] = p /\ j - 1 \in 1..Len(s) /\ j - 1 >= k
      BY <2>4, <1>2, <1>3, <1>5
    <3> QED BY <3>1
  <2>5. CASE j > k /\ i > k
    <3>1. t[j] = s[j-1] /\ t[i] = s[i-1] /\ j - 1 \in 1..Len(s) /\ i - 1 \in 1..Len(s)
          /\ i - 1 < j - 1
      BY <2>5, <1>2, <1>3, <1>5
    <3> QED BY <3>1, <1>4
  <2> QED BY <2>1, <2>2, <2>3, <2>4, <2>5, <1>2
<1> QED BY <1>2, <1>5 DEF Descending

\* Lists of chunks, no chunk twice in them, and the chunks they hold.
Lists(L, I) == L \in [I -> Seq(Nat)] /\ Once(L)

Held(L) == UNION {ToSet(L[i]) : i \in DOMAIN L}

With(A, B, p) == A = B \cup {p}

Without(A, B, p) == A = B \ {p}

LEMMA ListFacts ==
  ASSUME NEW L, NEW I, Lists(L, I)
  PROVE  /\ DOMAIN L = I
         /\ \A i \in I : L[i] \in Seq(Nat) /\ Distinct(L[i]) /\ ToSet(L[i]) \subseteq Held(L)
         /\ \A p : p \in Held(L) <=> \E i \in I : p \in ToSet(L[i])
         /\ \A i, j \in I : \A p \in ToSet(L[i]) : p \in ToSet(L[j]) => i = j
         /\ Held(L) \subseteq Nat
<1>1. DOMAIN L = I /\ \A i \in I : L[i] \in Seq(Nat)
  BY DEF Lists
<1>2. \A p : p \in Held(L) <=> \E i \in I : p \in ToSet(L[i])
  BY <1>1 DEF Held
<1>3. ASSUME NEW i \in I PROVE Distinct(L[i])
  BY <1>1 DEF Lists, Once, Distinct
<1>4. ASSUME NEW i \in I, NEW j \in I, NEW p \in ToSet(L[i]), p \in ToSet(L[j]) PROVE i = j
  <2>1. PICK m \in DOMAIN L[i] : L[i][m] = p
    BY DEF ToSet
  <2>2. PICK n \in DOMAIN L[j] : L[j][n] = p
    BY <1>4 DEF ToSet
  <2> QED BY <2>1, <2>2, <1>1 DEF Lists, Once
<1>5. \A i \in I : \A p \in ToSet(L[i]) : p \in Nat
  BY <1>1, SeqFacts
<1> QED BY <1>1, <1>2, <1>3, <1>4, <1>5

LEMMA OnceIs ==
  ASSUME NEW L, NEW I, L \in [I -> Seq(Nat)], \A i \in I : Distinct(L[i]),
         \A i, j \in I : \A p \in ToSet(L[i]) : p \in ToSet(L[j]) => i = j
  PROVE  Lists(L, I)
<1> SUFFICES ASSUME NEW i \in I, NEW j \in I, NEW m \in DOMAIN L[i], NEW n \in DOMAIN L[j],
                    L[i][m] = L[j][n]
             PROVE  i = j /\ m = n
  BY DEF Lists, Once
<1>1. L[i][m] \in ToSet(L[i]) /\ L[i][m] \in ToSet(L[j])
  BY DEF ToSet
<1>2. i = j
  BY <1>1
<1> QED BY <1>2 DEF Distinct

\* One of the lists changes.
Replaced(L, i, t) == [L EXCEPT ![i] = t]

LEMMA ListChanged ==
  ASSUME NEW L, NEW I, Lists(L, I), NEW i \in I, NEW t \in Seq(Nat), Distinct(t),
         \A p \in ToSet(t) : p \in ToSet(L[i]) \/ p \notin Held(L)
  PROVE  /\ Lists(Replaced(L, i, t), I)
         /\ Held(Replaced(L, i, t)) = (Held(L) \ ToSet(L[i])) \cup ToSet(t)
<1>1. /\ DOMAIN L = I
      /\ \A j \in I : L[j] \in Seq(Nat) /\ Distinct(L[j]) /\ ToSet(L[j]) \subseteq Held(L)
      /\ \A p : p \in Held(L) <=> \E j \in I : p \in ToSet(L[j])
      /\ \A j, k \in I : \A p \in ToSet(L[j]) : p \in ToSet(L[k]) => j = k
  BY ListFacts, Zenon
<1> DEFINE M == Replaced(L, i, t)
<1>2. M \in [I -> Seq(Nat)] /\ M[i] = t /\ \A j \in I : j # i => M[j] = L[j]
  BY <1>1 DEF Lists, Replaced
<1> HIDE DEF M
<1>3. \A j \in I : Distinct(M[j])
  BY <1>1, <1>2
<1>4. ASSUME NEW j \in I, NEW k \in I, NEW p \in ToSet(M[j]), p \in ToSet(M[k]) PROVE j = k
  <2>1. CASE j = i /\ k = i
    BY <2>1
  <2>2. CASE j # i /\ k # i
    BY <2>2, <1>1, <1>2, <1>4
  <2>3. CASE j = i /\ k # i
    BY <2>3, <1>1, <1>2, <1>4
  <2>4. CASE j # i /\ k = i
    BY <2>4, <1>1, <1>2, <1>4
  <2> QED BY <2>1, <2>2, <2>3, <2>4
<1>5. Lists(M, I)
  BY <1>2, <1>3, <1>4, OnceIs
<1>6. \A p : p \in Held(M) <=> \E j \in I : p \in ToSet(M[j])
  BY <1>5, ListFacts
<1>7. ASSUME NEW p PROVE p \in Held(M) <=> p \in (Held(L) \ ToSet(L[i])) \cup ToSet(t)
  <2>1. p \in Held(M) <=> p \in ToSet(t) \/ \E j \in I \ {i} : p \in ToSet(L[j])
    BY <1>2, <1>6
  <2>2. p \in Held(L) <=> p \in ToSet(L[i]) \/ \E j \in I \ {i} : p \in ToSet(L[j])
    BY <1>1
  <2>3. p \in ToSet(L[i]) => ~\E j \in I \ {i} : p \in ToSet(L[j])
    BY <1>1
  <2> QED BY <2>1, <2>2, <2>3
<1>8. Held(M) = (Held(L) \ ToSet(L[i])) \cup ToSet(t)
  BY <1>7
<1> QED BY <1>5, <1>8 DEF M

\* A chunk comes into a list, or leaves one.
LEMMA ListGains ==
  ASSUME NEW L, NEW I, Lists(L, I), NEW i \in I, NEW t, NEW k, NEW p,
         Inserted(L[i], t, k, p), p \notin Held(L)
  PROVE  /\ Lists(Replaced(L, i, t), I)
         /\ With(Held(Replaced(L, i, t)), Held(L), p) /\ With(ToSet(t), ToSet(L[i]), p)
<1>1. Distinct(L[i]) /\ p \notin ToSet(L[i]) /\ ToSet(L[i]) \subseteq Held(L)
  BY ListFacts
<1>2. Distinct(t) /\ ToSet(t) = ToSet(L[i]) \cup {p}
  BY <1>1, InsertedSet
<1>3. t \in Seq(Nat)
  BY DEF Inserted
<1> DEFINE M == Replaced(L, i, t)
<1>4. Lists(M, I) /\ Held(M) = (Held(L) \ ToSet(L[i])) \cup ToSet(t)
  <2>1. \A q \in ToSet(t) : q \in ToSet(L[i]) \/ q \notin Held(L)
    BY <1>2
  <2> QED BY <2>1, <1>2, <1>3, ListChanged
<1> QED BY <1>1, <1>2, <1>4 DEF With, Without

LEMMA ListLoses ==
  ASSUME NEW L, NEW I, Lists(L, I), NEW i \in I, NEW t, NEW k, NEW p,
         Inserted(t, L[i], k, p)
  PROVE  /\ Lists(Replaced(L, i, t), I)
         /\ Without(Held(Replaced(L, i, t)), Held(L), p) /\ Without(ToSet(t), ToSet(L[i]), p)
         /\ p \in ToSet(L[i])
<1>1. Distinct(L[i]) /\ ToSet(L[i]) \subseteq Held(L)
  BY ListFacts
<1>2. Distinct(t) /\ ToSet(L[i]) = ToSet(t) \cup {p} /\ p \notin ToSet(t)
  BY <1>1, InsertedSet
<1>3. t \in Seq(Nat)
  BY DEF Inserted
<1> DEFINE M == Replaced(L, i, t)
<1>4. Lists(M, I) /\ Held(M) = (Held(L) \ ToSet(L[i])) \cup ToSet(t)
  <2>1. \A q \in ToSet(t) : q \in ToSet(L[i]) \/ q \notin Held(L)
    BY <1>2
  <2> QED BY <2>1, <1>2, <1>3, ListChanged
<1> QED BY <1>1, <1>2, <1>4 DEF With, Without

\* unlink: p leaves the one list it is in.
LEMMA ListUnlinks ==
  ASSUME NEW L, NEW I, Lists(L, I), NEW p \in Held(L)
  PROVE  \E i \in I : \E k \in 1..Len(L[i]) : \E t :
           /\ L[i][k] = p /\ Inserted(t, L[i], k, p)
           /\ [j \in I |-> RemoveFirst(L[j], p)] = Replaced(L, i, t)
           /\ t = RemoveFirst(L[i], p)
<1>1. /\ DOMAIN L = I
      /\ \A j \in I : L[j] \in Seq(Nat) /\ Distinct(L[j])
      /\ \A j, k \in I : \A q \in ToSet(L[j]) : q \in ToSet(L[k]) => j = k
  BY ListFacts
<1>2. PICK i \in I : p \in ToSet(L[i])
  BY ListFacts
<1> DEFINE t == RemoveFirst(L[i], p)
<1>3. PICK k \in 1..Len(L[i]) : L[i][k] = p /\ Inserted(t, L[i], k, p)
  BY <1>1, <1>2, RemovedIs
<1> HIDE DEF t
<1>4. \A j \in I : j # i => RemoveFirst(L[j], p) = L[j]
  BY <1>1, <1>2, RemovedNot
<1>5. [j \in I |-> RemoveFirst(L[j], p)] = Replaced(L, i, t)
  <2>1. L = [j \in I |-> L[j]]
    BY DEF Lists
  <2> QED BY <2>1, <1>4 DEF t, Replaced
<1> QED BY <1>3, <1>5 DEF t

-----------------------------------------------------------------------------
(* Sizes and bins *)

LEMMA Division ==
  ASSUME NEW a \in Int, NEW b \in Nat \ {0}
  PROVE  a \div b \in Int /\ (a % b) \in 0..b-1 /\ a = b * (a \div b) + (a % b)
OBVIOUS

\* The greatest multiple not above.
LEMMA DivisionIs ==
  ASSUME NEW a \in Nat, NEW b \in Nat \ {0}
  PROVE  /\ a \div b \in Nat /\ b * (a \div b) <= a /\ a < b * ((a \div b) + 1)
         /\ \A k \in Int : b * k <= a => k <= a \div b
         /\ \A k \in Int : a < b * k => a \div b < k
<1> DEFINE d == a \div b
<1>1. d \in Int /\ b * d <= a /\ a < b * (d + 1)
  BY Division
<1> HIDE DEF d
<1>2. ASSUME NEW k \in Int, b * k <= a PROVE k <= d
  <2>1. SUFFICES ASSUME k >= d + 1 PROVE FALSE
    BY <1>1
  <2>2. b * k >= b * (d + 1)
    BY <2>1, <1>1
  <2> QED BY <2>2, <1>1, <1>2
<1>3. ASSUME NEW k \in Int, a < b * k PROVE d < k
  <2>1. SUFFICES ASSUME k <= d PROVE FALSE
    BY <1>1
  <2>2. b * k <= b * d
    BY <2>1, <1>1
  <2> QED BY <2>2, <1>1, <1>3
<1>4. d >= 0
  BY <1>2, b * 0 <= a
<1> QED BY <1>1, <1>2, <1>3, <1>4 DEF d

LEMMA DivisionGrows ==
  ASSUME NEW a \in Nat, NEW c \in Nat, a <= c, NEW b \in Nat \ {0}
  PROVE  a \div b <= c \div b
<1>1. a \div b \in Nat /\ b * (a \div b) <= a
  BY DivisionIs
<1>2. b * (a \div b) <= c
  BY <1>1
<1> QED BY <1>1, <1>2, DivisionIs

LEMMA Constants ==
  /\ mem_heap \in Nat /\ mem_heap_end \in Nat /\ ULONG \in Nat /\ pagesize \in Nat \ {0}
  /\ MIN_LARGE_SIZE \in Nat /\ MIN_LARGE_SIZE >= 64 /\ MIN_LARGE_SIZE % 8 = 0
  /\ DEFAULT_MXFAST \in Nat /\ DEFAULT_MXFAST >= 12 /\ DEFAULT_TRIM_THRESHOLD \in Nat
  /\ 32 < mem_heap /\ mem_heap < mem_heap_end /\ mem_heap_end < ULONG
  /\ pagesize % 8 = 0 /\ ULONG % pagesize = 0 /\ pagesize >= 8
  /\ NSMALLBINS \in Nat /\ MIN_LARGE_SIZE = 8 * NSMALLBINS /\ NSMALLBINS >= 8
  /\ MIN_LARGE_SIZE \div 4 = 2 * NSMALLBINS
<1>1. /\ mem_heap \in Nat /\ mem_heap_end \in Nat /\ ULONG \in Nat /\ pagesize \in Nat \ {0}
      /\ MIN_LARGE_SIZE \in Nat /\ MIN_LARGE_SIZE >= 64 /\ MIN_LARGE_SIZE % 8 = 0
      /\ DEFAULT_MXFAST \in Nat /\ DEFAULT_MXFAST >= 12 /\ DEFAULT_TRIM_THRESHOLD \in Nat
      /\ 32 < mem_heap /\ mem_heap < mem_heap_end /\ mem_heap_end < ULONG
      /\ pagesize % 8 = 0 /\ ULONG % pagesize = 0
  BY HeapAssumption DEF MINSIZE
<1>2. NSMALLBINS \in Nat /\ MIN_LARGE_SIZE = 8 * NSMALLBINS
  BY <1>1 DEF NSMALLBINS
<1>3. NSMALLBINS >= 8 /\ MIN_LARGE_SIZE \div 4 = 2 * NSMALLBINS
  BY <1>1, <1>2
<1>4. pagesize >= 8
  BY <1>1
<1> QED BY <1>1, <1>2, <1>3, <1>4

Power(m) == 2^m

LEMMA Powers ==
  ASSUME NEW m \in 0..15
  PROVE  Power(m) \in Nat \ {0} /\ Power(m+1) = 2 * Power(m)
<1>1. m \in {0, 1, 2, 3, 4, 5, 6, 7, 8, 9, 10, 11, 12, 13, 14, 15}
  OBVIOUS
<1>2. CASE m = 0
  BY <1>2 DEF Power
<1>3. CASE m = 1
  BY <1>3 DEF Power
<1>4. CASE m = 2
  BY <1>4 DEF Power
<1>5. CASE m = 3
  BY <1>5 DEF Power
<1>6. CASE m = 4
  BY <1>6 DEF Power
<1>7. CASE m = 5
  BY <1>7 DEF Power
<1>8. CASE m = 6
  BY <1>8 DEF Power
<1>9. CASE m = 7
  BY <1>9 DEF Power
<1>10. CASE m = 8
  BY <1>10 DEF Power
<1>11. CASE m = 9
  BY <1>11 DEF Power
<1>12. CASE m = 10
  BY <1>12 DEF Power
<1>13. CASE m = 11
  BY <1>13 DEF Power
<1>14. CASE m = 12
  BY <1>14 DEF Power
<1>15. CASE m = 13
  BY <1>15 DEF Power
<1>16. CASE m = 14
  BY <1>16 DEF Power
<1>17. CASE m = 15
  BY <1>17 DEF Power
<1> QED BY <1>1, <1>2, <1>3, <1>4, <1>5, <1>6, <1>7, <1>8, <1>9, <1>10, <1>11, <1>12,
           <1>13, <1>14, <1>15, <1>16, <1>17

LEMMA HighestBit ==
  ASSUME NEW x \in Nat, x >= 1, x < 65536
  PROVE  /\ highest_bit(x) \in 0..15
         /\ Power(highest_bit(x)) <= x /\ x < 2 * Power(highest_bit(x))
<1> DEFINE T == {n \in Nat : n <= 15 /\ x < Power(n + 1)}
<1>1. Power(0) = 1 /\ 65536 = Power(16) /\ 15 + 1 = 16
  BY DEF Power
<1>2. \A m \in 0..15 : Power(m) \in Nat /\ Power(m+1) \in Nat
  BY Powers
<1>3. 15 \in T /\ T \in SUBSET Nat
  BY <1>1
<1>4. PICK m \in T : \A n \in T : m <= n
  <2> HIDE DEF T
  <2> QED BY <1>3, LeastOf
<1>5. m \in 0..15 /\ x < Power(m + 1)
  BY <1>4
<1>6. Power(m) <= x
  <2>1. CASE m = 0
    BY <2>1, <1>1
  <2>2. CASE m # 0
    <3>1. m - 1 \in 0..15 /\ (m - 1) + 1 = m
      BY <2>2, <1>5
    <3>2. m - 1 \notin T
      BY <3>1, <1>4
    <3>3. ~(x < Power(m))
      BY <3>1, <3>2
    <3> QED BY <3>3, <1>2, <1>5
  <2> QED BY <2>1, <2>2
<1> HIDE DEF T
<1>7. highest_bit(x) = CHOOSE k \in 0..15 : Power(k) <= x /\ x < Power(k + 1)
  BY DEF highest_bit, Power
<1>8. /\ highest_bit(x) \in 0..15
      /\ Power(highest_bit(x)) <= x /\ x < Power(highest_bit(x) + 1)
  BY <1>5, <1>6, <1>7
<1> QED BY <1>8, Powers

\* The bin of a large size: four to a power of two.
LEMMA LargeIs ==
  ASSUME NEW a \in Nat, a >= MIN_LARGE_SIZE, a \div MIN_LARGE_SIZE < 65536
  PROVE  LET m == highest_bit(a \div MIN_LARGE_SIZE)
             u == Power(m) * (2 * NSMALLBINS) IN
         /\ m \in 0..15 /\ u \in Nat \ {0}
         /\ Power(m) <= a \div MIN_LARGE_SIZE /\ a \div MIN_LARGE_SIZE < 2 * Power(m)
         /\ a \div u \in 4..7
         /\ largebin_index(a) = NSMALLBINS + 4 * m + (a \div u - 4)
<1> DEFINE x == a \div MIN_LARGE_SIZE
           m == highest_bit(x)
           w == Power(m)
           u == w * (2 * NSMALLBINS)
           N == NSMALLBINS
<1>1. N \in Nat /\ MIN_LARGE_SIZE = 8 * N /\ N >= 8 /\ MIN_LARGE_SIZE \div 4 = 2 * N
  BY Constants
<1>2. x \in Nat /\ (8 * N) * x <= a /\ a < (8 * N) * (x + 1) /\ x >= 1
  <2>1. MIN_LARGE_SIZE \in Nat \ {0}
    BY Constants
  <2>2. MIN_LARGE_SIZE * 1 <= a
    BY <2>1
  <2>3. /\ x \in Nat /\ MIN_LARGE_SIZE * x <= a /\ a < MIN_LARGE_SIZE * (x + 1)
        /\ \A k \in Int : MIN_LARGE_SIZE * k <= a => k <= x
    BY <2>1, DivisionIs
  <2>4. x >= 1
    BY <2>2, <2>3
  <2> HIDE DEF x
  <2> QED BY <2>3, <2>4, <1>1
<1>3. m \in 0..15 /\ w <= x /\ x < 2 * w
  BY <1>2, HighestBit
<1>4. w \in Nat \ {0}
  BY <1>3, Powers
<1>5. largebin_index(a) = N + 4 * m + ((a \div u) % 4)
  BY <1>1 DEF largebin_index, Power
<1> HIDE DEF w, m, x, N
<1>6. u \in Nat \ {0} /\ u * 4 <= a /\ a < u * 8
  <2>1. u \in Nat \ {0}
    BY <1>1, <1>4 DEF N
  <2>2. u * 4 = (8 * N) * w /\ u * 8 = (8 * N) * (2 * w)
    BY <1>1, <1>4 DEF N
  <2>3. (8 * N) * w <= (8 * N) * x
    BY <1>1, <1>2, <1>3, <1>4
  <2>4. (8 * N) * (x + 1) <= (8 * N) * (2 * w)
    BY <1>1, <1>2, <1>3, <1>4
  <2>5. (8 * N) * x \in Int /\ (8 * N) * (x + 1) \in Int /\ (8 * N) * (2 * w) \in Int
        /\ (8 * N) * w \in Int
    BY <1>1, <1>2, <1>4
  <2> HIDE DEF u
  <2> QED BY <2>1, <2>2, <2>3, <2>4, <2>5, <1>2
<1> HIDE DEF u
<1>7. a \div u \in 4..7
  BY <1>6, DivisionIs
<1>8. (a \div u) % 4 = a \div u - 4
  BY <1>7
<1> QED BY <1>3, <1>5, <1>6, <1>7, <1>8 DEF w, m, x, N, u

LEMMA LargeRange ==
  ASSUME NEW a \in Nat, a >= MIN_LARGE_SIZE
  PROVE  largebin_index(a) \in NSMALLBINS..NSMALLBINS+63
<1>1. NSMALLBINS \in Nat
  BY Constants
<1>2. CASE a \div MIN_LARGE_SIZE >= 65536
  BY <1>1, <1>2 DEF largebin_index
<1>3. CASE ~(a \div MIN_LARGE_SIZE >= 65536)
  <2> DEFINE m == highest_bit(a \div MIN_LARGE_SIZE)
             e == a \div (Power(m) * (2 * NSMALLBINS))
  <2>1. a \div MIN_LARGE_SIZE < 65536
    <3>1. a \div MIN_LARGE_SIZE \in Nat
      BY Constants, DivisionIs
    <3> QED BY <3>1, <1>3
  <2>2. m \in 0..15 /\ e \in 4..7 /\ largebin_index(a) = NSMALLBINS + 4 * m + (e - 4)
    BY <2>1, LargeIs
  <2> HIDE DEF m, e
  <2> QED BY <1>1, <2>2
<1> QED BY <1>2, <1>3

LEMMA PowersGrow ==
  ASSUME NEW n \in 0..15, NEW m \in 0..15, n < m
  PROVE  2 * Power(n) <= Power(m)
<1> DEFINE T == {k \in Nat : k <= 15 /\ n < k /\ ~(2 * Power(n) <= Power(k))}
<1>1. Power(n) \in Nat
  BY Powers
<1>2. ASSUME T # {} PROVE FALSE
  <2>1. PICK k \in T : \A i \in T : k <= i
    <3>1. T \in SUBSET Nat
      OBVIOUS
    <3> HIDE DEF T
    <3> QED BY <1>2, <3>1, LeastOf
  <2>2. k \in 1..15 /\ n < k /\ ~(2 * Power(n) <= Power(k)) /\ k - 1 \in 0..15
        /\ (k - 1) + 1 = k
    BY <2>1
  <2>3. Power(k - 1) \in Nat /\ Power(k) = 2 * Power(k - 1)
    BY <2>2, Powers
  <2>4. CASE n = k - 1
    BY <2>2, <2>3, <2>4, <1>1
  <2>5. CASE n < k - 1
    <3>1. k - 1 \notin T
      BY <2>1, <2>2
    <3>2. 2 * Power(n) <= Power(k - 1)
      BY <3>1, <2>2, <2>5
    <3> QED BY <3>2, <2>2, <2>3, <1>1
  <2> QED BY <2>2, <2>4, <2>5
<1> QED BY <1>2

LEMMA LargeGrows ==
  ASSUME NEW a \in Nat, NEW b \in Nat, a >= MIN_LARGE_SIZE, a <= b
  PROVE  largebin_index(a) <= largebin_index(b)
<1> DEFINE x == a \div MIN_LARGE_SIZE
           y == b \div MIN_LARGE_SIZE
           m == highest_bit(x)
           n == highest_bit(y)
           e == a \div (Power(m) * (2 * NSMALLBINS))
           f == b \div (Power(n) * (2 * NSMALLBINS))
<1>1. MIN_LARGE_SIZE \in Nat \ {0} /\ b >= MIN_LARGE_SIZE /\ NSMALLBINS \in Nat
  BY Constants
<1>2. x \in Nat /\ y \in Nat /\ x <= y
  BY <1>1, DivisionIs, DivisionGrows
<1>3. CASE y >= 65536
  <2>1. largebin_index(b) = NSMALLBINS + 63
    BY <1>3 DEF largebin_index
  <2> QED BY <2>1, <1>1, LargeRange
<1>4. CASE y < 65536
  <2>1. x < 65536
    BY <1>2, <1>4
  <2>2. /\ m \in 0..15 /\ e \in 4..7 /\ largebin_index(a) = NSMALLBINS + 4 * m + (e - 4)
        /\ Power(m) <= x /\ x < 2 * Power(m)
        /\ Power(m) * (2 * NSMALLBINS) \in Nat \ {0}
    BY <2>1, LargeIs
  <2>3. /\ n \in 0..15 /\ f \in 4..7 /\ largebin_index(b) = NSMALLBINS + 4 * n + (f - 4)
        /\ Power(n) <= y /\ y < 2 * Power(n)
        /\ Power(n) * (2 * NSMALLBINS) \in Nat \ {0}
    <3>1. b >= MIN_LARGE_SIZE /\ y < 65536
      BY <1>1, <1>4
    <3> QED BY <3>1, LargeIs
  <2>4. CASE m < n
    <3> HIDE DEF m, n, e, f
    <3> QED BY <2>2, <2>3, <2>4, <1>1
  <2>5. CASE m = n
    <3>1. e <= f
      BY <2>2, <2>5, DivisionGrows
    <3> HIDE DEF m, n, e, f
    <3> QED BY <3>1, <2>2, <2>3, <2>5, <1>1
  <2>6. CASE m > n
    \* The greater size has the greater highest bit.
    <3>1. Power(n) \in Nat /\ Power(m) \in Nat
      BY <2>2, <2>3, Powers
    <3>2. 2 * Power(n) <= Power(m)
      <4> HIDE DEF m, n
      <4> QED BY <2>2, <2>3, <2>6, PowersGrow
    <3> HIDE DEF m, n, x, y
    <3>3. FALSE
      BY <3>1, <3>2, <2>2, <2>3, <1>2
    <3> QED BY <3>3
  <2> QED BY <2>2, <2>3, <2>4, <2>5, <2>6
<1> QED BY <1>2, <1>3, <1>4

LEMMA SmallIs ==
  ASSUME NEW a \in Nat
  PROVE  /\ in_smallbin_range(a) => bin_index(a) = a \div 8 /\ a \div 8 < NSMALLBINS
         /\ ~in_smallbin_range(a) => bin_index(a) >= NSMALLBINS
         /\ a >= 16 => bin_index(a) >= 2
         /\ bin_index(a) \in Nat
<1>1. /\ NSMALLBINS \in Nat /\ MIN_LARGE_SIZE = 8 * NSMALLBINS /\ NSMALLBINS >= 8
      /\ MIN_LARGE_SIZE \in Nat
  BY Constants
<1>2. CASE in_smallbin_range(a)
  BY <1>1, <1>2 DEF in_smallbin_range, bin_index
<1>3. CASE ~in_smallbin_range(a)
  <2>1. a >= MIN_LARGE_SIZE
    BY <1>1, <1>3 DEF in_smallbin_range
  <2>2. bin_index(a) = largebin_index(a) /\ largebin_index(a) \in NSMALLBINS..NSMALLBINS+63
    BY <1>3, <2>1, LargeRange DEF bin_index
  <2> QED BY <2>2, <1>1, <1>3
<1> QED BY <1>2, <1>3

\* The larger the size, the higher the bin.
LEMMA BinGrows ==
  ASSUME NEW a \in Nat, NEW b \in Nat, a <= b
  PROVE  bin_index(a) <= bin_index(b)
<1>1. /\ NSMALLBINS \in Nat /\ MIN_LARGE_SIZE = 8 * NSMALLBINS /\ NSMALLBINS >= 8
      /\ MIN_LARGE_SIZE \in Nat
  BY Constants
<1>2. CASE in_smallbin_range(b)
  <2>1. in_smallbin_range(a)
    BY <1>1, <1>2 DEF in_smallbin_range
  <2>2. a \div 8 <= b \div 8
    BY DivisionGrows
  <2> QED BY <1>2, <2>1, <2>2, SmallIs
<1>3. CASE in_smallbin_range(a) /\ ~in_smallbin_range(b)
  <2>1. bin_index(a) < NSMALLBINS /\ bin_index(b) >= NSMALLBINS
    BY <1>3, SmallIs
  <2>2. bin_index(a) \in Nat /\ bin_index(b) \in Nat
    BY SmallIs
  <2> QED BY <2>1, <2>2, <1>1
<1>4. CASE ~in_smallbin_range(a) /\ ~in_smallbin_range(b)
  <2>1. a >= MIN_LARGE_SIZE
    BY <1>1, <1>4 DEF in_smallbin_range
  <2> QED BY <2>1, <1>4, LargeGrows DEF bin_index
<1> QED BY <1>2, <1>3, <1>4

\* Chunks of a small size, in its bin, are all of that size.
LEMMA SmallSizes ==
  ASSUME NEW a \in Nat, NEW b \in Nat, in_smallbin_range(b), bin_index(a) = bin_index(b),
         a % 8 = 0, b % 8 = 0
  PROVE  a = b
<1>1. bin_index(b) = b \div 8 /\ b \div 8 < NSMALLBINS
  BY SmallIs
<1>2. NSMALLBINS \in Nat /\ bin_index(b) \in Nat
  BY Constants, SmallIs
<1>3. in_smallbin_range(a)
  <2>1. ~in_smallbin_range(a) => bin_index(a) >= NSMALLBINS
    BY SmallIs
  <2> QED BY <2>1, <1>1, <1>2
<1>4. a \div 8 = b \div 8
  BY <1>1, <1>3, SmallIs
<1> QED BY <1>4

LEMMA BinIsOne ==
  ASSUME NEW a \in Nat, 16 <= a, a <= mem_heap_end
  PROVE  bin_index(a) \in Bins \ {unsorted}
<1>1. a \in MINSIZE..mem_heap_end
  BY Constants DEF MINSIZE
<1>2. bin_index(a) \in Bins
  BY <1>1 DEF Bins
<1>3. bin_index(a) >= 2 /\ bin_index(a) \in Nat
  BY SmallIs
<1> QED BY <1>2, <1>3 DEF unsorted

LEMMA BinsAreNumbers ==
  Bins \subseteq Nat /\ unsorted \in Bins /\ \A i \in Bins \ {unsorted} : i >= 2
<1>1. \A sz \in MINSIZE..mem_heap_end : sz \in Nat /\ sz >= 16
  BY Constants DEF MINSIZE
<1>2. \A sz \in MINSIZE..mem_heap_end : bin_index(sz) \in Nat /\ bin_index(sz) >= 2
  BY <1>1, SmallIs
<1>3. ASSUME NEW i \in Bins \ {unsorted} PROVE i \in Nat /\ i >= 2
  BY <1>2 DEF Bins
<1>4. unsorted \in Bins /\ unsorted \in Nat
  BY DEF Bins, unsorted
<1> QED BY <1>3, <1>4

LEMMA FastIs ==
  /\ request2size(DEFAULT_MXFAST) \in Nat /\ request2size(DEFAULT_MXFAST) >= 16
  /\ Fastbins \subseteq Nat
  /\ \A a \in Nat : a >= 16 /\ a <= request2size(DEFAULT_MXFAST) => fastbin_index(a) \in Fastbins
  /\ \A a, b \in Nat : a % 8 = 0 /\ b % 8 = 0 /\ fastbin_index(a) = fastbin_index(b) => a = b
<1> DEFINE max == request2size(DEFAULT_MXFAST)
<1>1. max \in Nat /\ max >= 16
  <2>1. DEFAULT_MXFAST \in Nat /\ DEFAULT_MXFAST >= 12
    BY Constants
  <2> QED BY <2>1 DEF request2size, SIZE_SZ, MINSIZE, MALLOC_ALIGNMENT, Down
<1>2. Fastbins = 0..(max \div 8 - 2)
  BY DEF Fastbins, fastbin_index
<1> HIDE DEF max
<1>3. Fastbins \subseteq Nat
  BY <1>2
<1>4. ASSUME NEW a \in Nat, a >= 16, a <= max PROVE fastbin_index(a) \in Fastbins
  <2>1. a \div 8 \in Nat /\ 2 <= a \div 8 /\ a \div 8 <= max \div 8
    BY <1>1, <1>4
  <2> QED BY <2>1, <1>1, <1>2 DEF fastbin_index
<1>5. ASSUME NEW a \in Nat, NEW b \in Nat, a % 8 = 0, b % 8 = 0,
             fastbin_index(a) = fastbin_index(b)
      PROVE  a = b
  BY <1>5 DEF fastbin_index
<1> QED BY <1>1, <1>3, <1>4, <1>5 DEF max

-----------------------------------------------------------------------------
(* The heap *)

Fields == {"max_fast", "anychunks", "fastchunks", "fastbins", "bins", "binmap", "top",
           "last_remainder", "chunk", "curptr"}

Shaped(h) ==
  /\ DOMAIN h = Fields
  /\ h.max_fast \in {0, request2size(DEFAULT_MXFAST)}
  /\ h.anychunks \in BOOLEAN /\ h.fastchunks \in BOOLEAN
  /\ h.binmap \subseteq Bins /\ h.curptr \in Nat /\ h.curptr <= mem_heap_end
  /\ Lists(h.bins, Bins) /\ Lists(h.fastbins, Fastbins)

\* Before the first sbrk there is nothing; after it the chunks tile the memory.
Laid(h, U, P) ==
  /\ U \cap FastChunks(h) = {} /\ P \cap Free(h) = {}
  /\ IF DOMAIN h.chunk = {}
     THEN /\ U = {} /\ P = {} /\ Free(h) = {} /\ FastChunks(h) = {}
          /\ h.curptr = mem_heap /\ h.top \in {Null, initial_top}
          /\ h.chunk \in [DOMAIN h.chunk -> Header]
     ELSE /\ Tiled(h.chunk, h.top, h.curptr, Free(h) \cup P, U \cup FastChunks(h))
          /\ h.max_fast # 0

\* Each chunk is in the bin of its size, the largest first, and the bin is marked.
Sorted(h) ==
  \A i \in Bins \ {unsorted} :
    /\ h.bins[i] # <<>> => i \in h.binmap
    /\ \A q \in ToSet(h.bins[i]) : bin_index(h.chunk[q].size) = i
    /\ Descending(h.chunk, h.bins[i])

FastSorted(h) ==
  \A i \in Fastbins : \A q \in ToSet(h.fastbins[i]) :
    fastbin_index(h.chunk[q].size) = i /\ h.chunk[q].size <= h.max_fast

\* The heap, where U are the chunks handed out and P those on their way from or
\* to a bin.
HeapOK(h, U, P) ==
  /\ Shaped(h) /\ Laid(h, U, P) /\ Sorted(h) /\ FastSorted(h)
  /\ Free(h) \cup FastChunks(h) # {} => h.anychunks

LEMMA HeldIs ==
  ASSUME NEW h, Shaped(h)
  PROVE  Free(h) = Held(h.bins) /\ FastChunks(h) = Held(h.fastbins)
BY ListFacts DEF Free, FastChunks, Held, Shaped

LEMMA DescendingKept ==
  ASSUME NEW s \in Seq(Nat), NEW c, NEW d, Descending(c, s),
         \A q \in ToSet(s) : d[q].size = c[q].size
  PROVE  Descending(d, s)
<1>1. \A m \in DOMAIN s : s[m] \in ToSet(s)
  BY DEF ToSet
<1> QED BY <1>1 DEF Descending

\* The bins are as before, or have lost chunks.
LEMMA SortedKept ==
  ASSUME NEW h, NEW g, Shaped(h), Sorted(h), h.binmap \subseteq g.binmap,
         \A q \in Free(h) : g.chunk[q].size = h.chunk[q].size,
         \A i \in Bins \ {unsorted} :
           g.bins[i] = h.bins[i] \/ \E k, p : Inserted(g.bins[i], h.bins[i], k, p)
  PROVE  Sorted(g)
<1> SUFFICES ASSUME NEW i \in Bins \ {unsorted}
             PROVE  /\ g.bins[i] # <<>> => i \in g.binmap
                    /\ \A q \in ToSet(g.bins[i]) : bin_index(g.chunk[q].size) = i
                    /\ Descending(g.chunk, g.bins[i])
  BY DEF Sorted
<1>1. h.bins[i] \in Seq(Nat) /\ ToSet(h.bins[i]) \subseteq Free(h)
  BY HeldIs, ListFacts DEF Shaped
<1>2. /\ h.bins[i] # <<>> => i \in h.binmap
      /\ \A q \in ToSet(h.bins[i]) : bin_index(h.chunk[q].size) = i
      /\ Descending(h.chunk, h.bins[i])
  BY DEF Sorted
<1>3. Descending(g.chunk, h.bins[i])
  BY <1>1, <1>2, DescendingKept
<1>4. CASE g.bins[i] = h.bins[i]
  BY <1>1, <1>2, <1>3, <1>4
<1>5. CASE \E k, p : Inserted(g.bins[i], h.bins[i], k, p)
  <2>1. PICK k, p : Inserted(g.bins[i], h.bins[i], k, p)
    BY <1>5
  <2>2. Descending(g.chunk, g.bins[i])
    BY <2>1, <1>3, StillDescending
  <2>3. ToSet(g.bins[i]) \subseteq ToSet(h.bins[i])
    BY <2>1, InsertedSet
  <2>4. h.bins[i] # <<>>
    <3>1. Len(h.bins[i]) = Len(g.bins[i]) + 1 /\ Len(g.bins[i]) \in Nat
      BY <2>1, SeqFacts DEF Inserted
    <3> QED BY <3>1, <1>1, SeqFacts
  <2> QED BY <1>1, <1>2, <2>2, <2>3, <2>4
<1> QED BY <1>4, <1>5

LEMMA FastSortedKept ==
  ASSUME NEW h, NEW g, Shaped(h), FastSorted(h), g.max_fast = h.max_fast,
         \A q \in FastChunks(h) : g.chunk[q].size = h.chunk[q].size,
         \A i \in Fastbins : ToSet(g.fastbins[i]) \subseteq ToSet(h.fastbins[i])
  PROVE  FastSorted(g)
<1>1. \A i \in Fastbins : ToSet(h.fastbins[i]) \subseteq FastChunks(h)
  BY DEF FastChunks
<1> QED BY <1>1 DEF FastSorted

LEMMA TiledNow ==
  ASSUME NEW h, NEW U, NEW P, HeapOK(h, U, P), U \cup P # {} \/ DOMAIN h.chunk # {}
  PROVE  /\ Tiled(h.chunk, h.top, h.curptr, Free(h) \cup P, U \cup FastChunks(h))
         /\ h.max_fast = request2size(DEFAULT_MXFAST)
         /\ DOMAIN h.chunk # {}
BY DEF HeapOK, Laid, Shaped

LEMMA IsLaid ==
  ASSUME NEW h, NEW U, NEW P, U \cap FastChunks(h) = {}, P \cap Free(h) = {},
         Tiled(h.chunk, h.top, h.curptr, Free(h) \cup P, U \cup FastChunks(h)),
         h.max_fast # 0
  PROVE  Laid(h, U, P)
<1>1. DOMAIN h.chunk # {}
  BY DEF Tiled
<1> QED BY <1>1 DEF Laid

\* g is h but for the fields S.
SameBut(h, g, S) == DOMAIN g = Fields /\ \A f \in Fields \ S : g[f] = h[f]

\* p leaves its bin, and the others are as before.
Loses(L, M, p) ==
  \E i \in DOMAIN L : \E k \in 1..Len(L[i]) :
    /\ L[i][k] = p /\ Inserted(M[i], L[i], k, p)
    /\ \A j \in DOMAIN L \ {i} : M[j] = L[j]

LEMMA BinsLose ==
  ASSUME NEW L, NEW I, Lists(L, I), NEW p \in Held(L),
         NEW M, M = [j \in I |-> RemoveFirst(L[j], p)]
  PROVE  /\ Lists(M, I) /\ Without(Held(M), Held(L), p) /\ Loses(L, M, p)
         /\ \A j \in I : M[j] = L[j] \/ \E k : Inserted(M[j], L[j], k, p)
<1>1. \E i \in I : \E k \in 1..Len(L[i]) : \E t :
        /\ L[i][k] = p /\ Inserted(t, L[i], k, p) /\ M = Replaced(L, i, t)
  BY ListUnlinks
<1>2. PICK i \in I : \E k \in 1..Len(L[i]) : \E t :
        /\ L[i][k] = p /\ Inserted(t, L[i], k, p) /\ M = Replaced(L, i, t)
  BY <1>1
<1>3. PICK k \in 1..Len(L[i]) : \E t :
        /\ L[i][k] = p /\ Inserted(t, L[i], k, p) /\ M = Replaced(L, i, t)
  BY <1>2
<1>4. PICK t : L[i][k] = p /\ Inserted(t, L[i], k, p) /\ M = Replaced(L, i, t)
  BY <1>3
<1>5. /\ Lists(Replaced(L, i, t), I) /\ Without(Held(Replaced(L, i, t)), Held(L), p)
      /\ p \in ToSet(L[i])
  BY <1>4, ListLoses
<1>6. M[i] = t /\ \A j \in I \ {i} : M[j] = L[j]
  BY <1>4, ListFacts DEF Replaced
<1>8. DOMAIN L = I
  BY ListFacts
<1> QED BY <1>4, <1>5, <1>6, <1>8 DEF Loses

\* A chunk is taken off its bin.
LEMMA UnlinkedIsOK ==
  ASSUME NEW h, NEW U, HeapOK(h, U, {}), NEW p \in Free(h), NEW g, g = unlink(h, p)
  PROVE  /\ HeapOK(g, U, {p}) /\ Without(Free(g), Free(h), p)
         /\ SameBut(h, g, {"bins"}) /\ Loses(h.bins, g.bins, p)
<1>1. Shaped(h) /\ Laid(h, U, {}) /\ Sorted(h) /\ FastSorted(h) /\ h.anychunks
      /\ Lists(h.bins, Bins) /\ Free(h) = Held(h.bins)
  BY HeldIs DEF HeapOK, Shaped
<1>2. SameBut(h, g, {"bins"}) /\ g.bins = [j \in Bins |-> RemoveFirst(h.bins[j], p)]
  BY <1>1 DEF unlink, Shaped, Fields, SameBut
<1>3. /\ Lists(g.bins, Bins) /\ Without(Held(g.bins), Held(h.bins), p) /\ Loses(h.bins, g.bins, p)
      /\ \A j \in Bins : g.bins[j] = h.bins[j] \/ \E k : Inserted(g.bins[j], h.bins[j], k, p)
  BY <1>1, <1>2, BinsLose
<1>5. /\ g.max_fast = h.max_fast /\ g.anychunks = h.anychunks /\ g.fastchunks = h.fastchunks
      /\ g.fastbins = h.fastbins /\ g.binmap = h.binmap /\ g.top = h.top
      /\ g.chunk = h.chunk /\ g.curptr = h.curptr
  BY <1>2 DEF Fields, SameBut
<1>6. Shaped(g)
  BY <1>1, <1>2, <1>3, <1>5 DEF Shaped, SameBut
<1>7. Free(g) = Free(h) \ {p} /\ FastChunks(g) = FastChunks(h)
  BY <1>1, <1>3, <1>5, <1>6, HeldIs DEF Without
<1>8. Laid(g, U, {p})
  <2>1. DOMAIN h.chunk # {}
    BY <1>1 DEF Laid
  <2>2. /\ Tiled(h.chunk, h.top, h.curptr, Free(h) \cup {}, U \cup FastChunks(h))
        /\ h.max_fast # 0 /\ U \cap FastChunks(h) = {}
    BY <1>1, <2>1 DEF Laid
  <2>3. Free(h) \cup {} = Free(g) \cup {p} /\ {p} \cap Free(g) = {}
    BY <1>7
  <2> QED BY <2>2, <2>3, <1>5, <1>7, IsLaid
<1>9. Sorted(g)
  BY <1>1, <1>3, <1>5, SortedKept
<1>10. FastSorted(g)
  BY <1>1, <1>5 DEF FastSorted
<1>11. HeapOK(g, U, {p})
  BY <1>1, <1>5, <1>6, <1>8, <1>9, <1>10 DEF HeapOK
<1> QED BY <1>2, <1>3, <1>7, <1>11 DEF Without

-----------------------------------------------------------------------------
(* What the steps of malloc and free leave *)

\* Other headers, another top or end of the memory, the same lists.
LEMMA Rechunked ==
  ASSUME NEW h, NEW U, NEW P, HeapOK(h, U, P), h.max_fast # 0,
         NEW g, SameBut(h, g, {"chunk", "top", "curptr", "last_remainder"}),
         g.curptr \in Nat, g.curptr <= mem_heap_end,
         NEW V, NEW Q, V \cap FastChunks(h) = {}, Q \cap Free(h) = {},
         Tiled(g.chunk, g.top, g.curptr, Free(h) \cup Q, V \cup FastChunks(h)),
         \A q \in Free(h) \cup FastChunks(h) : g.chunk[q].size = h.chunk[q].size
  PROVE  HeapOK(g, V, Q)
<1>1. Shaped(h) /\ Sorted(h) /\ FastSorted(h)
      /\ (Free(h) \cup FastChunks(h) # {} => h.anychunks)
  BY DEF HeapOK
<1>2. /\ DOMAIN g = Fields
      /\ g.max_fast = h.max_fast /\ g.anychunks = h.anychunks /\ g.fastchunks = h.fastchunks
      /\ g.fastbins = h.fastbins /\ g.bins = h.bins /\ g.binmap = h.binmap
  BY DEF Fields, SameBut
<1>3. Free(g) = Free(h) /\ FastChunks(g) = FastChunks(h)
  BY <1>2 DEF Free, FastChunks
<1>4. Shaped(g)
  BY <1>1, <1>2 DEF Shaped
<1>5. Laid(g, V, Q)
  BY <1>2, <1>3, IsLaid
<1>6. Sorted(g)
  BY <1>1, <1>2, SortedKept
<1>7. FastSorted(g)
  BY <1>1, <1>2, FastSortedKept
<1> QED BY <1>1, <1>2, <1>3, <1>4, <1>5, <1>6, <1>7 DEF HeapOK

\* p is put in a bin: the first of the unsorted chunks, or in its place.
LEMMA Binning ==
  ASSUME NEW h, NEW U, NEW p, HeapOK(h, U, {p}), h.anychunks,
         NEW i \in Bins, NEW t, NEW k, Inserted(h.bins[i], t, k, p),
         NEW g, SameBut(h, g, {"bins", "binmap", "last_remainder"}),
         g.bins = Replaced(h.bins, i, t),
         h.binmap \subseteq g.binmap, g.binmap \subseteq Bins,
         i # unsorted => /\ i \in g.binmap /\ bin_index(h.chunk[p].size) = i
                         /\ Descending(h.chunk, t)
  PROVE  HeapOK(g, U, {}) /\ With(Free(g), Free(h), p)
<1>1. Shaped(h) /\ Laid(h, U, {p}) /\ Sorted(h) /\ FastSorted(h)
      /\ Lists(h.bins, Bins) /\ Free(h) = Held(h.bins)
  BY HeldIs DEF HeapOK, Shaped
<1>2. /\ DOMAIN g = Fields /\ g.curptr = h.curptr /\ g.top = h.top /\ g.chunk = h.chunk
      /\ g.max_fast = h.max_fast /\ g.anychunks = h.anychunks /\ g.fastchunks = h.fastchunks
      /\ g.fastbins = h.fastbins
  BY DEF Fields, SameBut
<1>3. /\ DOMAIN h.chunk # {} /\ p \notin Free(h)
      /\ Tiled(h.chunk, h.top, h.curptr, Free(h) \cup {p}, U \cup FastChunks(h))
      /\ h.max_fast # 0 /\ U \cap FastChunks(h) = {}
  BY <1>1 DEF Laid
<1>4. /\ Lists(g.bins, Bins) /\ Held(g.bins) = Held(h.bins) \cup {p}
      /\ ToSet(t) = ToSet(h.bins[i]) \cup {p}
  <2>1. /\ Lists(Replaced(h.bins, i, t), Bins)
        /\ Held(Replaced(h.bins, i, t)) = Held(h.bins) \cup {p}
        /\ ToSet(t) = ToSet(h.bins[i]) \cup {p}
    <3>1. Lists(h.bins, Bins) /\ p \notin Held(h.bins)
      BY <1>1, <1>3
    <3>2. /\ Lists(Replaced(h.bins, i, t), Bins)
          /\ With(Held(Replaced(h.bins, i, t)), Held(h.bins), p)
          /\ With(ToSet(t), ToSet(h.bins[i]), p)
      BY <3>1, ListGains
    <3> QED BY <3>2 DEF With
  <2> QED BY <2>1
<1>5. Shaped(g)
  BY <1>1, <1>2, <1>4 DEF Shaped
<1>6. Free(g) = Free(h) \cup {p} /\ FastChunks(g) = FastChunks(h)
  BY <1>1, <1>2, <1>4, <1>5, HeldIs
<1>7. Laid(g, U, {})
  <2>1. Free(h) \cup {p} = Free(g) \cup {}
    BY <1>6
  <2> QED BY <2>1, <1>2, <1>3, <1>6, IsLaid
<1>8. Sorted(g)
  <2> SUFFICES ASSUME NEW j \in Bins \ {unsorted}
               PROVE  /\ g.bins[j] # <<>> => j \in g.binmap
                      /\ \A q \in ToSet(g.bins[j]) : bin_index(h.chunk[q].size) = j
                      /\ Descending(h.chunk, g.bins[j])
    BY <1>2 DEF Sorted
  <2>1. /\ h.bins[j] # <<>> => j \in h.binmap
        /\ \A q \in ToSet(h.bins[j]) : bin_index(h.chunk[q].size) = j
        /\ Descending(h.chunk, h.bins[j])
    BY <1>1 DEF Sorted
  <2>2. CASE j # i
    <3>1. g.bins[j] = h.bins[j]
      BY <2>2, <1>1, ListFacts DEF Replaced
    <3> QED BY <3>1, <2>1
  <2>3. CASE j = i
    <3>1. g.bins[j] = t
      BY <2>3, <1>1, ListFacts DEF Replaced
    <3> QED BY <3>1, <2>1, <2>3, <1>4
  <2> QED BY <2>2, <2>3
<1>9. FastSorted(g)
  BY <1>1, <1>2 DEF FastSorted
<1>10. HeapOK(g, U, {})
  BY <1>1, <1>2, <1>5, <1>6, <1>7, <1>8, <1>9 DEF HeapOK
<1> QED BY <1>6, <1>10 DEF With

\* p is put in front of the unsorted chunks.
LEMMA Unsorting ==
  ASSUME NEW h, NEW U, NEW p, HeapOK(h, U, {p}), h.anychunks,
         NEW g, SameBut(h, g, {"bins", "last_remainder"}),
         g.bins = Replaced(h.bins, unsorted, <<p>> \o h.bins[unsorted])
  PROVE  HeapOK(g, U, {}) /\ With(Free(g), Free(h), p)
<1>1. Shaped(h) /\ Laid(h, U, {p})
  BY DEF HeapOK
<1>2. p \in Nat
  <2>1. Tiled(h.chunk, h.top, h.curptr, Free(h) \cup {p}, U \cup FastChunks(h))
    BY <1>1 DEF Laid
  <2> QED BY <2>1 DEF Tiled
<1>3. unsorted \in Bins /\ h.bins[unsorted] \in Seq(Nat)
  BY <1>1, BinsAreNumbers, ListFacts DEF Shaped
<1>4. Inserted(h.bins[unsorted], <<p>> \o h.bins[unsorted], 1, p)
  BY <1>2, <1>3, PushedIs
<1>5. SameBut(h, g, {"bins", "binmap", "last_remainder"}) /\ g.binmap = h.binmap
  BY DEF SameBut, Fields
<1>6. h.binmap \subseteq Bins
  BY <1>1 DEF Shaped
<1> DEFINE t == <<p>> \o h.bins[unsorted]
<1> HIDE DEF t
<1>7. Inserted(h.bins[unsorted], t, 1, p) /\ g.bins = Replaced(h.bins, unsorted, t)
  BY <1>4 DEF t
<1>8. HeapOK(g, U, {})
  BY <1>3, <1>5, <1>6, <1>7, Binning
<1>9. With(Free(g), Free(h), p)
  BY <1>3, <1>5, <1>6, <1>7, Binning
<1> QED BY <1>8, <1>9

LEMMA SameTwice ==
  ASSUME NEW h, NEW g, NEW k, NEW S, NEW T, SameBut(h, g, S), SameBut(g, k, T)
  PROVE  SameBut(h, k, S \cup T)
BY DEF SameBut

-----------------------------------------------------------------------------
(* free *)

FreeFields == {"bins", "chunk", "top"}

\* The chunks V are as long as they were.
Keeps(h, g, V) == \A q \in V : g.chunk[q].size = h.chunk[q].size

\* The chunks handed out, all freed chunks being in the bins: p is one of them.
\* It takes in the free chunk before it, and is then that chunk.
LEMMA BackwardIsOK ==
  ASSUME NEW h, NEW U, HeapOK(h, U, {}), NEW p \in U, NEW r, r = Backward(h, p)
  PROVE  /\ HeapOK(r.h, (U \ {p}) \cup {r.p}, {})
         /\ r.p \notin U \ {p} /\ r.h.chunk[r.p].prev_inuse
         /\ SameBut(h, r.h, FreeFields) /\ Keeps(h, r.h, U \ {p})
<1>1. /\ Shaped(h) /\ DOMAIN h = Fields
      /\ U \cap FastChunks(h) = {}
      /\ Tiled(h.chunk, h.top, h.curptr, Free(h), U \cup FastChunks(h))
      /\ h.max_fast # 0 /\ h.curptr \in Nat /\ h.curptr <= mem_heap_end
  <2>1. Free(h) \cup {} = Free(h)
    OBVIOUS
  <2> QED BY <2>1 DEF HeapOK, Laid, Shaped
<1>2. CASE h.chunk[p].prev_inuse
  <2>1. r = [h |-> h, p |-> p]
    BY <1>2 DEF Backward
  <2>2. (U \ {p}) \cup {p} = U
    OBVIOUS
  <2>3. SameBut(h, h, FreeFields) /\ Keeps(h, h, U \ {p})
    BY <1>1 DEF SameBut, Keeps
  <2> QED BY <1>2, <2>1, <2>2, <2>3
<1>3. CASE ~h.chunk[p].prev_inuse
  <2> DEFINE b == p - h.chunk[p].prev_size
             u == unlink(h, b)
             g == Joined(u, b, p)
  <2>1. b \in Free(h) /\ b + h.chunk[b].size = p /\ h.chunk[b].prev_inuse
    BY <1>1, <1>3, BeforeIsFree
  <2>2. r.h = g /\ r.p = b
    BY <1>3 DEF Backward
  <2> HIDE DEF b
  <2>3. HeapOK(u, U, {b}) /\ Without(Free(u), Free(h), b) /\ SameBut(h, u, {"bins"})
    BY <2>1, UnlinkedIsOK
  <2> HIDE DEF u
  <2>4. u.chunk = h.chunk /\ u.top = h.top /\ u.curptr = h.curptr /\ u.max_fast = h.max_fast
        /\ FastChunks(u) = FastChunks(h) /\ DOMAIN u = Fields
    BY <2>3 DEF SameBut, Fields, FastChunks
  <2>5. SameBut(u, g, {"chunk"}) /\ g.chunk = Merged(h.chunk, b, p)
    BY <2>4 DEF SameBut, Joined, Fields
  <2> HIDE DEF g
  <2> DEFINE V == (U \ {p}) \cup {b}
  <2>6. /\ Tiled(Merged(h.chunk, b, p), h.top, h.curptr, Free(h) \ {b},
                 ((U \cup FastChunks(h)) \ {p}) \cup {b})
        /\ Merged(h.chunk, b, p)[b].prev_inuse
    BY <1>1, <2>1, BackwardIsTiled
  <2>7. /\ b \notin U \cup FastChunks(h) /\ p \notin FastChunks(h)
        /\ Free(h) \cap (U \cup FastChunks(h)) = {}
    BY <1>1, <2>1 DEF Tiled
  <2>8. /\ Free(h) \ {b} = Free(u) \cup {}
        /\ ((U \cup FastChunks(h)) \ {p}) \cup {b} = V \cup FastChunks(u)
        /\ V \cap FastChunks(u) = {} /\ {} \cap Free(u) = {}
    BY <1>1, <2>3, <2>4, <2>7 DEF Without
  <2>9. \A q \in Free(u) \cup FastChunks(u) \cup (U \ {p}) : g.chunk[q].size = u.chunk[q].size
    <3>1. \A q \in DOMAIN Merged(h.chunk, b, p) \ {b} : Merged(h.chunk, b, p)[q] = h.chunk[q]
      BY DEF Merged
    <3>2. \A q \in Free(u) \cup FastChunks(u) \cup (U \ {p}) :
            q \in DOMAIN Merged(h.chunk, b, p) \ {b}
      <4>1. DOMAIN Merged(h.chunk, b, p) = (DOMAIN h.chunk) \ {p}
        BY DEF Merged
      <4>2. Free(h) \cup U \cup FastChunks(h) \subseteq DOMAIN h.chunk
        BY <1>1 DEF Tiled
      <4>3. Free(u) = Free(h) \ {b} /\ FastChunks(u) = FastChunks(h) /\ p \notin Free(h)
        BY <2>3, <2>4, <2>7 DEF Without
      <4> QED BY <2>7, <4>1, <4>2, <4>3
    <3> QED BY <3>1, <3>2, <2>4, <2>5
  <2>10. SameBut(u, g, {"chunk", "top", "curptr", "last_remainder"})
         /\ g.top = h.top /\ g.curptr = h.curptr
    BY <2>4, <2>5 DEF SameBut, Fields
  <2> HIDE DEF V
  <2>11. HeapOK(g, V, {})
    BY <1>1, <2>3, <2>4, <2>5, <2>6, <2>8, <2>9, <2>10, Rechunked
  <2>12. SameBut(h, g, FreeFields)
    BY <2>3, <2>5 DEF SameBut, FreeFields
  <2>13. Keeps(h, g, U \ {p})
    BY <2>4, <2>9 DEF Keeps
  <2> QED BY <2>2, <2>5, <2>6, <2>7, <2>11, <2>12, <2>13 DEF V
<1> QED BY <1>2, <1>3

LEMMA UnsortIs ==
  ASSUME NEW h, DOMAIN h = Fields, NEW p, NEW k, SameBut(h, k, {"chunk"}),
         k.chunk = set_foot(h.chunk, p),
         NEW g, g = Unsort(h, p)
  PROVE  /\ SameBut(k, g, {"bins", "last_remainder"})
         /\ g.bins = Replaced(k.bins, unsorted, <<p>> \o k.bins[unsorted])
BY DEF Unsort, SameBut, Fields, Replaced

\* A freed chunk whose predecessor is in use takes in what is free behind it.
LEMMA ForwardIsOK ==
  ASSUME NEW h, NEW U, HeapOK(h, U, {}), h.anychunks, NEW p \in U, h.chunk[p].prev_inuse,
         NEW g, g = Forward(h, p)
  PROVE  HeapOK(g, U \ {p}, {}) /\ SameBut(h, g, FreeFields) /\ Keeps(h, g, U \ {p})
<1> DEFINE n == p + h.chunk[p].size
           c == h.chunk
           W == U \cup FastChunks(h)
           V == U \ {p}
<1>1. /\ Shaped(h) /\ DOMAIN h = Fields
      /\ U \cap FastChunks(h) = {}
      /\ Tiled(c, h.top, h.curptr, Free(h), W)
      /\ h.max_fast # 0 /\ h.curptr \in Nat /\ h.curptr <= mem_heap_end
  <2>1. Free(h) \cup {} = Free(h)
    OBVIOUS
  <2> QED BY <2>1 DEF HeapOK, Laid, Shaped
<1>2. p \in W /\ W \ {p} = V \cup FastChunks(h) /\ V \cap FastChunks(h) = {}
      /\ p \notin Free(h)
  BY <1>1 DEF Tiled
<1>3. next_chunk(h, p) = n /\ n \in DOMAIN c /\ c[p].prev_inuse
  BY <1>1 DEF next_chunk, Tiled
<1> HIDE DEF n, V
<1>4. CASE n = h.top
  <2>1. g = [Joined(h, p, n) EXCEPT !.top = p]
    BY <1>3, <1>4 DEF Forward
  <2>2. SameBut(h, g, {"chunk", "top"}) /\ g.chunk = Merged(c, p, n) /\ g.top = p
        /\ g.curptr = h.curptr
    BY <1>1, <2>1 DEF SameBut, Joined, Fields
  <2>3. Tiled(Merged(c, p, h.top), p, h.curptr, Free(h), W \ {p})
    <3>1. p + c[p].size = h.top
      BY <1>4 DEF n
    <3> QED BY <3>1, <1>1, <1>2, <1>3, TopIsTiled
  <2>4. \A q \in Free(h) \cup FastChunks(h) \cup V : g.chunk[q].size = h.chunk[q].size
    <3>1. \A q \in Free(h) \cup FastChunks(h) \cup V : q \in DOMAIN c /\ q # p /\ q # n
      BY <1>1, <1>2, <1>4 DEF Tiled, V
    <3> QED BY <3>1, <2>2 DEF Merged
  <2>5. Tiled(g.chunk, g.top, g.curptr, Free(h) \cup {}, V \cup FastChunks(h))
    <3>1. Free(h) \cup {} = Free(h)
      OBVIOUS
    <3> QED BY <3>1, <2>2, <2>3, <1>2, <1>4
  <2>6. SameBut(h, g, {"chunk", "top", "curptr", "last_remainder"}) /\ SameBut(h, g, FreeFields)
    BY <2>2 DEF SameBut, FreeFields
  <2>7. {} \cap Free(h) = {}
    OBVIOUS
  <2>8. HeapOK(g, V, {})
    BY <1>1, <1>2, <2>2, <2>4, <2>5, <2>6, <2>7, Rechunked
  <2> QED BY <2>4, <2>6, <2>8 DEF V, Keeps
<1>5. CASE n # h.top /\ inuse(h, n)
  <2> DEFINE e == [h EXCEPT !.chunk = Freed(@, p)]
             k == [e EXCEPT !.chunk = set_foot(@, p)]
  <2>1. g = Unsort(e, p)
    BY <1>3, <1>5 DEF Forward, Freed
  <2>2. DOMAIN e = Fields /\ SameBut(h, k, {"chunk"}) /\ k.chunk = set_foot(Freed(c, p), p)
    BY <1>1 DEF SameBut, Fields
  <2>11. SameBut(e, k, {"chunk"}) /\ k.chunk = set_foot(e.chunk, p)
    BY <1>1 DEF SameBut, Fields
  <2> HIDE DEF e, k
  <2>3. SameBut(k, g, {"bins", "last_remainder"})
        /\ g.bins = Replaced(k.bins, unsorted, <<p>> \o k.bins[unsorted])
    BY <2>1, <2>2, <2>11, UnsortIs
  <2>4. n \in W
    BY <1>1, <1>3, <1>5 DEF Tiled, inuse, next_chunk
  <2>5. Tiled(set_foot(Freed(c, p), p), h.top, h.curptr, Free(h) \cup {p}, W \ {p})
    <3>1. p + c[p].size \in W
      BY <2>4 DEF n
    <3> QED BY <3>1, <1>1, <1>2, <1>3, FreedIsTiled
  <2>6. \A q \in Free(h) \cup FastChunks(h) \cup V : k.chunk[q].size = h.chunk[q].size
    <3>1. /\ DOMAIN Freed(c, p) = DOMAIN c /\ Freed(c, p) \in [DOMAIN c -> Header]
          /\ \A q \in DOMAIN c : Freed(c, p)[q].size = c[q].size
      <4>1. c \in [DOMAIN c -> Header] /\ p \in DOMAIN c /\ p + c[p].size \in DOMAIN c
        BY <1>1, <1>2, <1>3 DEF Tiled, n
      <4> QED BY <4>1, FreedIs
    <3>2. \A q \in DOMAIN c : k.chunk[q].size = c[q].size
      <4> DEFINE f == Freed(c, p)
      <4> HIDE DEF f
      <4>1. f \in [DOMAIN f -> Header] /\ p \in DOMAIN f /\ p + f[p].size \in DOMAIN f
            /\ DOMAIN f = DOMAIN c /\ \A q \in DOMAIN c : f[q].size = c[q].size
        BY <1>1, <1>2, <1>3, <3>1 DEF Tiled, n, f
      <4>2. \A q \in DOMAIN f : set_foot(f, p)[q].size = f[q].size
        BY <4>1, FootIs
      <4> QED BY <4>1, <4>2, <2>2 DEF f
    <3>3. Free(h) \cup FastChunks(h) \cup V \subseteq DOMAIN c
      BY <1>1 DEF Tiled, V
    <3> QED BY <3>2, <3>3
  <2>7. HeapOK(k, V, {p})
    <3>1. SameBut(h, k, {"chunk", "top", "curptr", "last_remainder"})
          /\ k.top = h.top /\ k.curptr = h.curptr
      BY <2>2 DEF SameBut, Fields
    <3>2. Tiled(k.chunk, k.top, k.curptr, Free(h) \cup {p}, V \cup FastChunks(h))
      BY <3>1, <2>2, <2>5, <1>2
    <3>3. {p} \cap Free(h) = {}
      BY <1>2
    <3> QED BY <3>1, <3>2, <3>3, <1>1, <1>2, <2>6, Rechunked
  <2>8. k.anychunks
    BY <2>2 DEF SameBut, Fields
  <2>9. HeapOK(g, V, {})
    BY <2>3, <2>7, <2>8, Unsorting
  <2>10. SameBut(h, g, FreeFields)
    <3>1. h.last_remainder = k.last_remainder /\ k.last_remainder = g.last_remainder
      BY <2>1, <2>2, <1>1 DEF SameBut, Fields, Unsort, k, e
    <3> QED BY <3>1, <2>2, <2>3 DEF SameBut, FreeFields
  <2>12. Keeps(h, g, V)
    <3>1. g.chunk = k.chunk
      BY <2>3 DEF SameBut, Fields
    <3> QED BY <3>1, <2>6 DEF Keeps
  <2> QED BY <2>9, <2>10, <2>12 DEF V
<1>6. CASE n # h.top /\ ~inuse(h, n)
  <2> DEFINE u == unlink(h, n)
             e == Joined(u, p, n)
             k == [e EXCEPT !.chunk = set_foot(@, p)]
  <2>1. g = Unsort(e, p)
    BY <1>3, <1>6 DEF Forward
  <2>2. n \in Free(h)
    BY <1>1, <1>3, <1>6 DEF Tiled, inuse, next_chunk
  <2>3. HeapOK(u, U, {n}) /\ Without(Free(u), Free(h), n) /\ SameBut(h, u, {"bins"})
    BY <2>2, UnlinkedIsOK
  <2>4. DOMAIN u = Fields /\ u.chunk = c /\ u.top = h.top /\ u.curptr = h.curptr
        /\ u.max_fast = h.max_fast /\ u.anychunks = h.anychunks
        /\ FastChunks(u) = FastChunks(h)
    BY <2>3 DEF SameBut, Fields, FastChunks
  <2>5. DOMAIN e = Fields /\ SameBut(u, k, {"chunk"}) /\ k.chunk = set_foot(Merged(c, p, n), p)
    BY <2>4 DEF SameBut, Fields, Joined
  <2>13. SameBut(e, k, {"chunk"}) /\ k.chunk = set_foot(e.chunk, p)
    BY <2>5 DEF SameBut, Fields
  <2>14. g.last_remainder = k.last_remainder
    BY <2>1, <2>5 DEF Unsort, SameBut, Fields
  <2> HIDE DEF u, e, k
  <2>6. SameBut(k, g, {"bins", "last_remainder"})
        /\ g.bins = Replaced(k.bins, unsorted, <<p>> \o k.bins[unsorted])
    BY <2>1, <2>5, <2>13, UnsortIs
  <2>7. Tiled(set_foot(Merged(c, p, n), p), h.top, h.curptr, (Free(h) \ {n}) \cup {p}, W \ {p})
    <3>1. p + c[p].size = n
      BY DEF n
    <3> QED BY <3>1, <1>1, <1>2, <1>3, <2>2, ForwardIsTiled
  <2>8. \A q \in Free(u) \cup FastChunks(u) \cup V : k.chunk[q].size = u.chunk[q].size
    <3> DEFINE d == Merged(c, p, n)
    <3>1. \A q \in DOMAIN d : set_foot(d, p)[q].size = d[q].size
      <4>0. p + c[p].size = n
        BY DEF n
      <4>1. d \in [DOMAIN d -> Header] /\ p \in DOMAIN d /\ p + d[p].size \in DOMAIN d
        <5>1. d \in [DOMAIN d -> Header] /\ p \in DOMAIN d
          <6>1. p \in Free(h) \cup W
            BY <1>2
          <6> HIDE DEF W, c
          <6> QED BY <6>1, <1>1, <1>3, <4>0, MergedHeaders
        <5>2. Spans(c, d, p, n, Free(h) \cup W)
          BY <1>1, <1>2, <2>2, <4>0, MergedNext
        <5>3. p # n
          BY <1>2, <2>2
        <5> QED BY <5>1, <5>2, <5>3, <1>2 DEF Spans
      <4> HIDE DEF d
      <4> QED BY <4>1, FootIs
    <3>2. \A q \in Free(u) \cup FastChunks(u) \cup V : q \in DOMAIN c /\ q # p /\ q # n
      BY <1>1, <1>2, <2>2, <2>3, <2>4 DEF Tiled, Without, V
    <3>3. \A q \in Free(u) \cup FastChunks(u) \cup V : q \in DOMAIN d /\ d[q] = c[q]
      BY <3>2 DEF Merged
    <3> QED BY <3>1, <3>3, <2>4, <2>5
  <2>9. HeapOK(k, V, {p})
    <3>1. SameBut(u, k, {"chunk", "top", "curptr", "last_remainder"})
          /\ k.top = h.top /\ k.curptr = h.curptr
      BY <2>4, <2>5 DEF SameBut, Fields
    <3>2. (Free(h) \ {n}) \cup {p} = Free(u) \cup {p}
      BY <2>3 DEF Without
    <3>3. Tiled(k.chunk, k.top, k.curptr, Free(u) \cup {p}, V \cup FastChunks(u))
      BY <3>1, <3>2, <2>4, <2>5, <2>7, <1>2
    <3>4. {p} \cap Free(u) = {} /\ V \cap FastChunks(u) = {}
      BY <1>2, <2>3, <2>4 DEF Without
    <3> QED BY <3>1, <3>3, <3>4, <1>1, <2>3, <2>4, <2>8, Rechunked
  <2>10. k.anychunks
    BY <2>4, <2>5 DEF SameBut, Fields
  <2>11. HeapOK(g, V, {})
    BY <2>6, <2>9, <2>10, Unsorting
  <2>12. SameBut(h, g, FreeFields)
    <3>1. h.last_remainder = u.last_remainder /\ u.last_remainder = k.last_remainder
      BY <2>3, <2>5 DEF SameBut, Fields
    <3> QED BY <3>1, <2>3, <2>5, <2>6, <2>14 DEF SameBut, FreeFields
  <2>15. Keeps(h, g, V)
    <3>1. g.chunk = k.chunk
      BY <2>6 DEF SameBut, Fields
    <3> QED BY <3>1, <2>4, <2>8 DEF Keeps
  <2> QED BY <2>11, <2>12, <2>15 DEF V
<1> QED BY <1>4, <1>5, <1>6

LEMMA ConsolidatedIsOK ==
  ASSUME NEW h, NEW U, HeapOK(h, U, {}), h.anychunks, NEW p \in U, NEW r, r = Consolidated(h, p)
  PROVE  HeapOK(r.h, U \ {p}, {}) /\ SameBut(h, r.h, FreeFields) /\ Keeps(h, r.h, U \ {p})
<1> DEFINE b == Backward(h, p)
           V == (U \ {p}) \cup {b.p}
<1>1. r.h = Forward(b.h, b.p)
  BY DEF Consolidated
<1> HIDE DEF b
<1>2. /\ HeapOK(b.h, V, {}) /\ b.p \notin U \ {p} /\ b.h.chunk[b.p].prev_inuse
      /\ SameBut(h, b.h, FreeFields) /\ Keeps(h, b.h, U \ {p})
  BY BackwardIsOK DEF b
<1>3. b.h.anychunks
  BY <1>2 DEF SameBut, Fields, FreeFields
<1>4. b.p \in V /\ V \ {b.p} = U \ {p}
  BY <1>2
<1> HIDE DEF V
<1>5. HeapOK(r.h, V \ {b.p}, {}) /\ SameBut(b.h, r.h, FreeFields) /\ Keeps(b.h, r.h, V \ {b.p})
  BY <1>1, <1>2, <1>3, <1>4, ForwardIsOK
<1>6. SameBut(h, r.h, FreeFields)
  BY <1>2, <1>5 DEF SameBut
<1>7. Keeps(h, r.h, U \ {p})
  BY <1>2, <1>4, <1>5 DEF Keeps
<1> QED BY <1>4, <1>5, <1>6, <1>7

LEMMA Reflagged ==
  ASSUME NEW h, NEW U, NEW P, HeapOK(h, U, P),
         NEW g, SameBut(h, g, {"anychunks", "fastchunks", "last_remainder"}),
         g.anychunks \in BOOLEAN, g.fastchunks \in BOOLEAN, h.anychunks => g.anychunks
  PROVE  HeapOK(g, U, P)
<1>1. /\ DOMAIN g = Fields /\ g.curptr = h.curptr /\ g.top = h.top /\ g.chunk = h.chunk
      /\ g.max_fast = h.max_fast /\ g.fastbins = h.fastbins /\ g.bins = h.bins
      /\ g.binmap = h.binmap
  BY DEF Fields, SameBut
<1>2. Free(g) = Free(h) /\ FastChunks(g) = FastChunks(h)
  BY <1>1 DEF Free, FastChunks
<1>3. Shaped(h) /\ Laid(h, U, P) /\ Sorted(h) /\ FastSorted(h)
      /\ (Free(h) \cup FastChunks(h) # {} => h.anychunks)
  BY DEF HeapOK
<1>4. Shaped(g)
  BY <1>1, <1>3 DEF Shaped
<1>5. Laid(g, U, P)
  BY <1>1, <1>2, <1>3 DEF Laid
<1>6. Sorted(g) /\ FastSorted(g)
  BY <1>1, <1>3 DEF Sorted, FastSorted
<1> QED BY <1>2, <1>3, <1>4, <1>5, <1>6 DEF HeapOK

\* A chunk that was handed out is put in a fastbin.
LEMMA FastGains ==
  ASSUME NEW h, NEW U, HeapOK(h, U, {}), NEW p \in U, h.chunk[p].size <= h.max_fast,
         NEW i, i = fastbin_index(h.chunk[p].size), NEW t, NEW k,
         Inserted(h.fastbins[i], t, k, p),
         NEW g, SameBut(h, g, {"anychunks", "fastchunks", "fastbins"}),
         g.anychunks, g.anychunks \in BOOLEAN, g.fastchunks \in BOOLEAN,
         g.fastbins = Replaced(h.fastbins, i, t)
  PROVE  HeapOK(g, U \ {p}, {}) /\ With(FastChunks(g), FastChunks(h), p) /\ i \in Fastbins
<1>1. /\ DOMAIN g = Fields /\ g.curptr = h.curptr /\ g.top = h.top /\ g.chunk = h.chunk
      /\ g.max_fast = h.max_fast /\ g.bins = h.bins /\ g.binmap = h.binmap
  BY DEF Fields, SameBut
<1>2. /\ Shaped(h) /\ Sorted(h) /\ FastSorted(h) /\ h.max_fast # 0
      /\ U \cap FastChunks(h) = {}
      /\ Tiled(h.chunk, h.top, h.curptr, Free(h) \cup {}, U \cup FastChunks(h))
  BY DEF HeapOK, Laid
<1>3. i \in Fastbins
  <2>1. h.chunk[p].size \in Nat /\ h.chunk[p].size >= 16
    BY <1>2 DEF Tiled, Header
  <2>2. h.max_fast = request2size(DEFAULT_MXFAST)
    BY <1>2 DEF Shaped
  <2> QED BY <2>1, <2>2, FastIs
<1>4. /\ Lists(h.fastbins, Fastbins) /\ FastChunks(h) = Held(h.fastbins)
      /\ p \notin Held(h.fastbins)
  BY <1>2, HeldIs DEF Shaped
<1>5. /\ Lists(g.fastbins, Fastbins) /\ Held(g.fastbins) = Held(h.fastbins) \cup {p}
      /\ ToSet(t) = ToSet(h.fastbins[i]) \cup {p}
  <2>1. /\ Lists(Replaced(h.fastbins, i, t), Fastbins)
        /\ With(Held(Replaced(h.fastbins, i, t)), Held(h.fastbins), p)
        /\ With(ToSet(t), ToSet(h.fastbins[i]), p)
    BY <1>3, <1>4, ListGains
  <2> QED BY <2>1 DEF With
<1>6. Shaped(g)
  BY <1>1, <1>2, <1>5 DEF Shaped
<1>7. Free(g) = Free(h) /\ FastChunks(g) = FastChunks(h) \cup {p}
  BY <1>1, <1>4, <1>5, <1>6, HeldIs DEF Free
<1>8. Laid(g, U \ {p}, {})
  <2>1. U \cup FastChunks(h) = (U \ {p}) \cup FastChunks(g)
        /\ (U \ {p}) \cap FastChunks(g) = {} /\ {} \cap Free(g) = {}
    BY <1>2, <1>7
  <2> QED BY <2>1, <1>1, <1>2, <1>7, IsLaid
<1>9. Sorted(g)
  BY <1>1, <1>2 DEF Sorted
<1>10. FastSorted(g)
  <2> SUFFICES ASSUME NEW j \in Fastbins, NEW q \in ToSet(g.fastbins[j])
               PROVE  fastbin_index(h.chunk[q].size) = j /\ h.chunk[q].size <= h.max_fast
    BY <1>1 DEF FastSorted
  <2>1. CASE j # i
    <3>1. g.fastbins[j] = h.fastbins[j]
      BY <2>1, <1>4, ListFacts DEF Replaced
    <3> QED BY <3>1, <1>2 DEF FastSorted
  <2>2. CASE j = i
    <3>1. g.fastbins[j] = t
      BY <2>2, <1>4, ListFacts DEF Replaced
    <3> QED BY <3>1, <2>2, <1>2, <1>5 DEF FastSorted
  <2> QED BY <2>1, <2>2
<1>11. HeapOK(g, U \ {p}, {})
  BY <1>1, <1>6, <1>8, <1>9, <1>10 DEF HeapOK
<1> QED BY <1>3, <1>7, <1>11 DEF With

\* A chunk of a fastbin is handed out.
LEMMA FastLoses ==
  ASSUME NEW h, NEW U, HeapOK(h, U, {}), NEW i \in Fastbins, NEW t, NEW k, NEW p,
         Inserted(t, h.fastbins[i], k, p),
         NEW g, SameBut(h, g, {"fastbins"}), g.fastbins = Replaced(h.fastbins, i, t)
  PROVE  /\ HeapOK(g, U \cup {p}, {}) /\ Without(FastChunks(g), FastChunks(h), p)
         /\ p \notin U /\ p \in FastChunks(h)
         /\ fastbin_index(h.chunk[p].size) = i /\ h.chunk[p].size <= h.max_fast
<1>1. /\ DOMAIN g = Fields /\ g.curptr = h.curptr /\ g.top = h.top /\ g.chunk = h.chunk
      /\ g.max_fast = h.max_fast /\ g.bins = h.bins /\ g.binmap = h.binmap
      /\ g.anychunks = h.anychunks /\ g.fastchunks = h.fastchunks
  BY DEF Fields, SameBut
<1>2. /\ Shaped(h) /\ Sorted(h) /\ FastSorted(h) /\ Laid(h, U, {})
      /\ U \cap FastChunks(h) = {}
      /\ (Free(h) \cup FastChunks(h) # {} => h.anychunks)
  BY DEF HeapOK, Laid
<1>4. Lists(h.fastbins, Fastbins) /\ FastChunks(h) = Held(h.fastbins)
  BY <1>2, HeldIs DEF Shaped
<1>5. /\ Lists(g.fastbins, Fastbins) /\ Held(g.fastbins) = Held(h.fastbins) \ {p}
      /\ ToSet(t) = ToSet(h.fastbins[i]) \ {p} /\ p \in ToSet(h.fastbins[i])
  <2>1. /\ Lists(Replaced(h.fastbins, i, t), Fastbins)
        /\ Without(Held(Replaced(h.fastbins, i, t)), Held(h.fastbins), p)
        /\ Without(ToSet(t), ToSet(h.fastbins[i]), p) /\ p \in ToSet(h.fastbins[i])
    BY <1>4, ListLoses
  <2> QED BY <2>1 DEF Without
<1>6. Shaped(g)
  BY <1>1, <1>2, <1>5 DEF Shaped
<1>7. Free(g) = Free(h) /\ FastChunks(g) = FastChunks(h) \ {p}
  BY <1>1, <1>4, <1>5, <1>6, HeldIs DEF Free
<1>3. p \in FastChunks(h) /\ p \notin U
  BY <1>2, <1>4, <1>5, ListFacts
<1>8. Laid(g, U \cup {p}, {})
  <2>1. U \cup FastChunks(h) = (U \cup {p}) \cup FastChunks(g)
        /\ (U \cup {p}) \cap FastChunks(g) = {} /\ {} \cap Free(g) = {}
    BY <1>2, <1>3, <1>7
  <2>2. Tiled(h.chunk, h.top, h.curptr, Free(h) \cup {}, U \cup FastChunks(h))
        /\ h.max_fast # 0
    BY <1>2, <1>3 DEF Laid
  <2> QED BY <2>1, <2>2, <1>1, <1>2, <1>7, IsLaid
<1>9. Sorted(g)
  BY <1>1, <1>2 DEF Sorted
<1>10. FastSorted(g)
  <2> SUFFICES ASSUME NEW j \in Fastbins PROVE ToSet(g.fastbins[j]) \subseteq ToSet(h.fastbins[j])
    BY <1>1, <1>2 DEF FastSorted
  <2>1. CASE j # i
    BY <2>1, <1>4, ListFacts DEF Replaced
  <2>2. CASE j = i
    <3>1. g.fastbins[j] = t
      BY <2>2, <1>4, ListFacts DEF Replaced
    <3> QED BY <3>1, <2>2, <1>5
  <2> QED BY <2>1, <2>2
<1>11. HeapOK(g, U \cup {p}, {})
  <2>1. Free(g) \cup FastChunks(g) # {} => g.anychunks
    BY <1>1, <1>2, <1>7
  <2> QED BY <2>1, <1>1, <1>6, <1>8, <1>9, <1>10 DEF HeapOK
<1>12. fastbin_index(h.chunk[p].size) = i /\ h.chunk[p].size <= h.max_fast
  BY <1>2, <1>5 DEF FastSorted
<1> QED BY <1>3, <1>7, <1>11, <1>12 DEF Without

-----------------------------------------------------------------------------
(* The two loops *)

\* One turn: of malloc_consolidate, or of the search for nb bytes.
Turn(x, nb) == IF nb = 0 THEN ConsolidateNext(x) ELSE ConsiderNext(x, nb)

Turns(f, x, nb, n) == f = [i \in 0..n |-> IF i = 0 THEN x ELSE Turn(f[i-1], nb)]

LEMMA TurnsExist ==
  ASSUME NEW x, NEW nb, NEW N \in Nat
  PROVE  \E f : Turns(f, x, nb, N)
<1> DEFINE Stuck == {n \in Nat : ~ \E f : Turns(f, x, nb, n)}
<1>1. Turns([i \in 0..0 |-> x], x, nb, 0)
  BY DEF Turns
<1>2. ASSUME NEW n \in Nat \ {0}, NEW f, Turns(f, x, nb, n - 1)
      PROVE  \E g : Turns(g, x, nb, n)
  <2> DEFINE g == [i \in 0..n |-> IF i = n THEN Turn(f[n-1], nb) ELSE f[i]]
  <2>1. \A i \in 0..n-1 : f[i] = IF i = 0 THEN x ELSE Turn(f[i-1], nb)
    <3>1. f = [i \in 0..n-1 |-> IF i = 0 THEN x ELSE Turn(f[i-1], nb)]
      BY <1>2 DEF Turns
    <3> QED BY <3>1
  <2>2. \A i \in 0..n-1 : g[i] = f[i]
    OBVIOUS
  <2>3. g[n] = Turn(f[n-1], nb)
    OBVIOUS
  <2>4. \A i \in 0..n : g[i] = IF i = 0 THEN x ELSE Turn(g[i-1], nb)
    <3> HIDE DEF g
    <3>1. ASSUME NEW i \in 0..n-1
          PROVE  g[i] = IF i = 0 THEN x ELSE Turn(g[i-1], nb)
      BY <2>1, <2>2
    <3>2. n # 0 /\ g[n] = Turn(g[n-1], nb)
      BY <2>2, <2>3, n - 1 \in 0..n-1
    <3> QED BY <3>1, <3>2
  <2>5. g = [i \in 0..n |-> g[i]]
    OBVIOUS
  <2>6. Turns(g, x, nb, n)
    <3> HIDE DEF g
    <3>1. g = [i \in 0..n |-> IF i = 0 THEN x ELSE Turn(g[i-1], nb)]
      BY <2>4, <2>5
    <3> QED BY <3>1 DEF Turns
  <2> QED BY <2>6, Zenon
<1>3. \A n \in Nat : n \in Stuck <=> ~ \E f : Turns(f, x, nb, n)
  OBVIOUS
<1>4. Stuck \in SUBSET Nat
  OBVIOUS
<1> HIDE DEF Stuck
<1>5. ASSUME Stuck # {} PROVE FALSE
  <2>1. PICK n \in Stuck : \A i \in Stuck : n <= i
    BY <1>4, <1>5, LeastOf
  <2>2. n \in Nat \ {0}
    BY <1>1, <1>3, <1>4, <2>1
  <2>3. n - 1 \in Nat /\ n - 1 \notin Stuck
    BY <2>1, <2>2
  <2>4. PICK f : Turns(f, x, nb, n - 1)
    BY <1>3, <2>3
  <2> QED BY <1>2, <1>3, <2>1, <2>2, <2>4
<1> QED BY <1>3, <1>5

-----------------------------------------------------------------------------
(* malloc_consolidate *)

DrainFields == FreeFields \cup {"fastbins", "fastchunks"}

LEMMA LeastIs ==
  ASSUME NEW T \in SUBSET Nat, T # {}
  PROVE  Min(T) \in T /\ \A i \in T : Min(T) <= i
<1>1. \E k \in T : \A i \in T : k <= i
  BY LeastOf
<1> QED BY <1>1 DEF Min

LEMMA FastFinite ==
  ASSUME NEW h, NEW U, NEW P, HeapOK(h, U, P)
  PROVE  IsFiniteSet(FastChunks(h)) /\ Cardinality(FastChunks(h)) \in Nat
<1>1. CASE DOMAIN h.chunk = {}
  BY <1>1, FS_EmptySet DEF HeapOK, Laid
<1>2. CASE DOMAIN h.chunk # {}
  <2>1. Tiled(h.chunk, h.top, h.curptr, Free(h) \cup P, U \cup FastChunks(h))
    BY <1>2 DEF HeapOK, Laid
  <2>2. IsFiniteSet(DOMAIN h.chunk) /\ FastChunks(h) \subseteq DOMAIN h.chunk
    BY <2>1 DEF Tiled
  <2> QED BY <2>2, FS_Subset, FS_CardinalityType
<1> QED BY <1>1, <1>2

LEMMA ConsolidateNextIsOK ==
  ASSUME NEW h, NEW U, HeapOK(h, U, {}), FastChunks(h) # {}, NEW g, g = ConsolidateNext(h)
  PROVE  /\ HeapOK(g, U, {}) /\ SameBut(h, g, FreeFields \cup {"fastbins"}) /\ Keeps(h, g, U)
         /\ \E p \in FastChunks(h) : Without(FastChunks(g), FastChunks(h), p)
<1> DEFINE T == {j \in Fastbins : h.fastbins[j] # <<>>}
           i == Min(T)
           p == h.fastbins[i][1]
           k == [h EXCEPT !.fastbins[i] = Tail(@)]
<1>1. /\ Shaped(h) /\ DOMAIN h = Fields /\ Lists(h.fastbins, Fastbins) /\ h.anychunks
      /\ FastChunks(h) = Held(h.fastbins)
  BY HeldIs DEF HeapOK, Shaped
<1>2. i \in T
  <2>1. PICK q : q \in FastChunks(h)
    OBVIOUS
  <2>2. PICK j \in Fastbins : q \in ToSet(h.fastbins[j])
    BY <1>1, <2>1, ListFacts
  <2>3. h.fastbins[j] \in Seq(Nat)
    BY <1>1, ListFacts
  <2>4. h.fastbins[j] # <<>>
    BY <2>2, <2>3, SeqFacts
  <2>5. T # {} /\ T \in SUBSET Nat
    BY <2>4, FastIs
  <2> HIDE DEF T
  <2> QED BY <2>5, LeastIs
<1>3. g = Consolidated(k, p).h
  BY DEF ConsolidateNext
<1>4. i \in Fastbins /\ h.fastbins[i] # <<>>
  BY <1>2
<1> HIDE DEF i, T
<1>5. h.fastbins[i] \in Seq(Nat)
  BY <1>1, <1>4, ListFacts
<1>6. Inserted(Tail(h.fastbins[i]), h.fastbins[i], 1, p)
  BY <1>4, <1>5, TailIs
<1>7. SameBut(h, k, {"fastbins"}) /\ k.fastbins = Replaced(h.fastbins, i, Tail(h.fastbins[i]))
  BY <1>1 DEF SameBut, Fields, Replaced
<1> DEFINE t == Tail(h.fastbins[i])
<1> HIDE DEF k, p, t
<1>13. Inserted(t, h.fastbins[i], 1, p) /\ k.fastbins = Replaced(h.fastbins, i, t)
  BY <1>6, <1>7 DEF t
<1>8. /\ HeapOK(k, U \cup {p}, {}) /\ Without(FastChunks(k), FastChunks(h), p)
      /\ p \notin U /\ p \in FastChunks(h)
  BY <1>4, <1>13, <1>7, FastLoses
<1>9. k.anychunks /\ p \in U \cup {p} /\ (U \cup {p}) \ {p} = U
  BY <1>1, <1>7, <1>8 DEF SameBut, Fields
<1>10. HeapOK(g, (U \cup {p}) \ {p}, {}) /\ SameBut(k, g, FreeFields)
       /\ Keeps(k, g, (U \cup {p}) \ {p})
  BY <1>3, <1>8, <1>9, ConsolidatedIsOK
<1>11. SameBut(h, g, FreeFields \cup {"fastbins"})
  BY <1>7, <1>10 DEF SameBut
<1>12. FastChunks(g) = FastChunks(k)
  BY <1>10 DEF FastChunks, SameBut, Fields, FreeFields
<1>14. Keeps(h, g, U)
  <2>1. k.chunk = h.chunk
    BY <1>7 DEF SameBut, Fields
  <2> QED BY <2>1, <1>9, <1>10 DEF Keeps
<1> QED BY <1>8, <1>9, <1>10, <1>11, <1>12, <1>14

\* What n turns have left of h
Draining(h, g, U, n) ==
  /\ HeapOK(g, U, {}) /\ SameBut(h, g, DrainFields) /\ ~g.fastchunks /\ Keeps(h, g, U)
  /\ Cardinality(FastChunks(g)) = Cardinality(FastChunks(h)) - n

\* Every chunk of the fastbins is freed.
LEMMA ConsolidateIsOK ==
  ASSUME NEW h, NEW U, HeapOK(h, U, {})
  PROVE  /\ HeapOK(malloc_consolidate(h), U, {})
         /\ FastChunks(malloc_consolidate(h)) = {} /\ ~malloc_consolidate(h).fastchunks
         /\ SameBut(h, malloc_consolidate(h), DrainFields)
         /\ Keeps(h, malloc_consolidate(h), U)
<1> DEFINE N == Cardinality(FastChunks(h))
           m == [h EXCEPT !.fastchunks = FALSE]
           f == CHOOSE g : g = [n \in 0..N |-> IF n = 0 THEN m ELSE ConsolidateNext(g[n-1])]
           Ok(n) == Draining(h, f[n], U, n)
           Bad == {n \in Nat : n <= N /\ ~Ok(n)}
<1>1. N \in Nat
  BY FastFinite
<1>2. malloc_consolidate(h) = f[N]
  BY DEF malloc_consolidate
<1>3. /\ DOMAIN h = Fields /\ h.anychunks \in BOOLEAN /\ SameBut(h, m, {"fastchunks"})
      /\ ~m.fastchunks /\ m.fastchunks \in BOOLEAN /\ m.anychunks = h.anychunks
  BY DEF HeapOK, Shaped, SameBut, Fields
<1> HIDE DEF m, N
<1>4. f = [n \in 0..N |-> IF n = 0 THEN m ELSE ConsolidateNext(f[n-1])]
  <2>1. PICK g : Turns(g, m, 0, N)
    BY <1>1, TurnsExist
  <2>2. \A x : Turn(x, 0) = ConsolidateNext(x)
    BY DEF Turn
  <2>3. g = [n \in 0..N |-> IF n = 0 THEN m ELSE ConsolidateNext(g[n-1])]
    BY <2>1, <2>2 DEF Turns
  <2> QED BY <2>3, Zenon
<1> HIDE DEF f
<1>5. f[0] = m /\ \A n \in 1..N : f[n] = ConsolidateNext(f[n-1])
  BY <1>1, <1>4
<1>6. Ok(0)
  <2>1. HeapOK(m, U, {})
    <3>1. SameBut(h, m, {"anychunks", "fastchunks", "last_remainder"})
      BY <1>3 DEF SameBut
    <3> QED BY <3>1, <1>3, Reflagged
  <2>2. FastChunks(m) = FastChunks(h)
    BY <1>3 DEF SameBut, Fields, FastChunks
  <2>3. SameBut(h, m, DrainFields)
    BY <1>3 DEF SameBut, DrainFields
  <2>4. Keeps(h, m, U)
    BY <1>3 DEF SameBut, Fields, Keeps
  <2> QED BY <1>1, <1>3, <1>5, <2>1, <2>2, <2>3, <2>4 DEF Draining, N
<1>7. ASSUME NEW n \in 1..N, Ok(n-1) PROVE Ok(n)
  <2> DEFINE a == f[n-1]
             b == f[n]
  <2>1. /\ HeapOK(a, U, {}) /\ SameBut(h, a, DrainFields) /\ ~a.fastchunks /\ Keeps(h, a, U)
        /\ Cardinality(FastChunks(a)) = N - (n - 1)
    BY <1>7 DEF Draining, N
  <2>2. b = ConsolidateNext(a)
    BY <1>5
  <2> HIDE DEF a, b
  <2>3. FastChunks(a) # {}
    BY <1>1, <2>1, FS_EmptySet
  <2>4. /\ HeapOK(b, U, {}) /\ SameBut(a, b, FreeFields \cup {"fastbins"}) /\ Keeps(a, b, U)
        /\ \E p \in FastChunks(a) : Without(FastChunks(b), FastChunks(a), p)
    BY <2>1, <2>2, <2>3, ConsolidateNextIsOK
  <2>5. PICK p \in FastChunks(a) : FastChunks(b) = FastChunks(a) \ {p}
    BY <2>4 DEF Without
  <2>6. Cardinality(FastChunks(b)) = N - n
    <3>1. IsFiniteSet(FastChunks(a))
      BY <2>1, FastFinite
    <3>2. Cardinality(FastChunks(a) \ {p}) = Cardinality(FastChunks(a)) - 1
      BY <3>1, FS_RemoveElement
    <3> QED BY <3>2, <2>1, <2>5, <1>1
  <2>7. SameBut(h, b, DrainFields)
    BY <2>1, <2>4 DEF SameBut, DrainFields
  <2>8. ~b.fastchunks
    BY <2>1, <2>4 DEF SameBut, FreeFields, Fields
  <2>9. Keeps(h, b, U)
    BY <2>1, <2>4 DEF Keeps
  <2> QED BY <2>4, <2>6, <2>7, <2>8, <2>9 DEF Draining, b, N
<1>8. Bad \in SUBSET Nat /\ \A n \in Nat : n \in Bad <=> n <= N /\ ~Ok(n)
  OBVIOUS
<1> HIDE DEF Bad, Ok
<1>9. ASSUME Bad # {} PROVE FALSE
  <2>1. PICK n \in Bad : \A i \in Bad : n <= i
    BY <1>8, <1>9, LeastOf
  <2>2. n \in 1..N /\ n - 1 \in Nat /\ n - 1 <= N /\ n - 1 \notin Bad
    BY <1>1, <1>6, <1>8, <2>1
  <2> QED BY <1>7, <1>8, <2>1, <2>2
<1>10. Draining(h, malloc_consolidate(h), U, N)
  BY <1>1, <1>2, <1>8, <1>9 DEF Ok
<1> DEFINE g == malloc_consolidate(h)
<1> HIDE DEF g
<1>11. HeapOK(g, U, {}) /\ SameBut(h, g, DrainFields) /\ ~g.fastchunks /\ Keeps(h, g, U)
       /\ Cardinality(FastChunks(g)) = 0
  BY <1>1, <1>10 DEF Draining, N, g
<1>12. FastChunks(g) = {}
  BY <1>11, FastFinite, FS_EmptySet
<1> QED BY <1>11, <1>12 DEF g

-----------------------------------------------------------------------------
(* free *)

LEMMA TopIs ==
  ASSUME NEW h, NEW U, NEW P, HeapOK(h, U, P)
  PROVE  /\ topsize(h) \in Nat /\ h.top \in Nat
         /\ DOMAIN h.chunk = {} => topsize(h) = 0
         /\ DOMAIN h.chunk # {} => /\ topsize(h) = h.chunk[h.top].size /\ topsize(h) >= 16
                                   /\ h.top + topsize(h) = h.curptr
                                   /\ h.top \in DOMAIN h.chunk
<1>1. CASE DOMAIN h.chunk = {}
  BY <1>1 DEF HeapOK, Laid, topsize, Null, initial_top
<1>2. CASE DOMAIN h.chunk # {}
  <2>1. Tiled(h.chunk, h.top, h.curptr, Free(h) \cup P, U \cup FastChunks(h))
    BY <1>2 DEF HeapOK, Laid
  <2>2. h.top \in DOMAIN h.chunk /\ h.top \in Nat /\ h.chunk[h.top].size \in Nat
        /\ h.chunk[h.top].size >= 16 /\ h.top + h.chunk[h.top].size = h.curptr
        /\ h.top >= Base
    BY <2>1 DEF Tiled, Header
  <2>3. Base > 32
    BY Constants DEF Base
  <2>4. h.top \notin {Null, initial_top}
    BY <2>1, <2>2, <2>3 DEF Null, initial_top, Tiled
  <2> QED BY <1>2, <2>2, <2>4 DEF topsize
<1> QED BY <1>1, <1>2

\* sbrk takes no memory back: sYSTRIm leaves the heap as it is.
LEMMA TrimmedIs ==
  ASSUME NEW h, NEW U, NEW P, HeapOK(h, U, P)
  PROVE  Trimmed(h) = h
<1> DEFINE w == topsize(h)
           extra == ((w - MINSIZE + pagesize - 1) \div pagesize - 1) * pagesize
<1>1. w \in Nat /\ h.top \in Nat /\ pagesize \in Nat \ {0} /\ ULONG \in Nat
      /\ mem_heap_end < ULONG /\ h.curptr \in Nat /\ h.curptr <= mem_heap_end
      /\ mem_heap_end \in Nat
  BY TopIs, Constants DEF HeapOK, Shaped
<1> HIDE DEF w
<1>2. ASSUME extra > 0, h.curptr = h.top + w
      PROVE  sbrk(h, -extra).h = h
  <2> DEFINE a == w - MINSIZE + pagesize - 1
             e == a \div pagesize
  <2>1. a \in Int /\ e \in Int /\ pagesize * e <= a
    BY <1>1, Division DEF MINSIZE
  <2>2. extra = e * pagesize - pagesize
    <3>1. extra = (e - 1) * pagesize
      OBVIOUS
    <3> HIDE DEF e, extra
    <3> QED BY <3>1, <2>1, <1>1
  <2>3. extra \in Int /\ extra <= a - pagesize
    BY <2>1, <2>2, <1>1
  <2> HIDE DEF extra, e
  <2>4. extra < w
    BY <2>3, <1>1 DEF MINSIZE
  <2>5. h.curptr + (-extra) \in 0..ULONG-1 /\ h.curptr + (-extra) < h.curptr
    BY <2>3, <2>4, <1>1, <1>2
  <2>6. (h.curptr + (-extra)) % ULONG = h.curptr + (-extra)
    BY <2>5, <1>1
  <2> QED BY <2>5, <2>6 DEF sbrk
<1>3. sYSTRIm(h) = h
  <2>1. CASE extra > 0 /\ h.curptr = h.top + w
    <3>1. h.curptr - sbrk(h, -extra).h.curptr = 0
      BY <1>1, <1>2, <2>1
    <3> QED BY <3>1 DEF sYSTRIm, w
  <2>2. CASE ~(extra > 0 /\ h.curptr = h.top + w)
    BY <2>2 DEF sYSTRIm, w
  <2> QED BY <2>1, <2>2
<1> QED BY <1>3 DEF Trimmed

\* A free chunk in a fastbin is known to be there, and a chunk that was freed had
\* been handed out.
Known(h) ==
  (FastChunks(h) # {} => h.fastchunks) /\ (h.anychunks => h.max_fast # 0)

LEMMA BaseIs == Base \in Nat /\ Base > 32
BY Constants DEF Base

LEMMA fREeIsOK ==
  ASSUME NEW h, NEW U, HeapOK(h, U, {}), Known(h), NEW p \in U, NEW g, g = fREe(h, p)
  PROVE  /\ HeapOK(g, U \ {p}, {}) /\ Known(g) /\ Keeps(h, g, U \ {p})
         /\ g.curptr = h.curptr /\ g.max_fast = h.max_fast
<1>1. DOMAIN h = Fields /\ h.fastchunks \in BOOLEAN /\ h.max_fast # 0
  BY DEF HeapOK, Shaped, Laid
<1>2. CASE h.chunk[p].size <= h.max_fast
  <2> DEFINE i == fastbin_index(h.chunk[p].size)
             t == <<p>> \o h.fastbins[i]
  <2>1. g = [h EXCEPT !.anychunks = TRUE, !.fastchunks = TRUE, !.fastbins[i] = t]
    BY <1>2 DEF fREe
  <2>2. SameBut(h, g, {"anychunks", "fastchunks", "fastbins"})
        /\ g.anychunks /\ g.anychunks \in BOOLEAN /\ g.fastchunks /\ g.fastchunks \in BOOLEAN
        /\ g.fastbins = Replaced(h.fastbins, i, t)
    BY <1>1, <2>1 DEF SameBut, Fields, Replaced
  <2>3. i \in Fastbins /\ p \in Nat /\ h.fastbins[i] \in Seq(Nat)
    <3>1. Tiled(h.chunk, h.top, h.curptr, Free(h) \cup {}, U \cup FastChunks(h))
          /\ h.max_fast = request2size(DEFAULT_MXFAST)
      BY DEF HeapOK, Laid, Shaped
    <3>2. h.chunk[p].size \in Nat /\ h.chunk[p].size >= 16 /\ p \in Nat
      BY <3>1 DEF Tiled, Header
    <3>3. i \in Fastbins
      BY <3>1, <3>2, <1>2, FastIs
    <3>4. h.fastbins[i] \in Seq(Nat)
      BY <3>3, ListFacts DEF HeapOK, Shaped
    <3> QED BY <3>2, <3>3, <3>4
  <2>4. Inserted(h.fastbins[i], t, 1, p)
    BY <2>3, PushedIs
  <2> HIDE DEF t, i
  <2>5. i = fastbin_index(h.chunk[p].size)
    BY DEF i
  <2>6. HeapOK(g, U \ {p}, {})
    BY <1>2, <2>2, <2>4, <2>5, FastGains
  <2>7. Known(g) /\ Keeps(h, g, U \ {p}) /\ g.curptr = h.curptr /\ g.max_fast = h.max_fast
    BY <1>1, <2>2 DEF Known, Keeps, SameBut, Fields
  <2> QED BY <2>6, <2>7
<1>3. CASE ~(h.chunk[p].size <= h.max_fast)
  <2> DEFINE k == [h EXCEPT !.anychunks = TRUE]
             r == Consolidated(k, p)
             V == U \ {p}
  <2>1. g \in {r.h, AfterLargeFree(r.h)}
    BY <1>3 DEF fREe
  <2>2. SameBut(h, k, {"anychunks"}) /\ k.anychunks /\ k.anychunks \in BOOLEAN
    BY <1>1 DEF SameBut, Fields
  <2> HIDE DEF k
  <2>3. k.fastchunks = h.fastchunks
    BY <2>2 DEF SameBut, Fields
  <2>4. HeapOK(k, U, {})
    <3>1. SameBut(h, k, {"anychunks", "fastchunks", "last_remainder"})
      BY <2>2 DEF SameBut
    <3> QED BY <3>1, <2>2, <2>3, <1>1, Reflagged
  <2>5. HeapOK(r.h, V, {}) /\ SameBut(k, r.h, FreeFields) /\ Keeps(k, r.h, V)
    BY <2>2, <2>4, ConsolidatedIsOK
  <2> DEFINE a == r.h
  <2> HIDE DEF r
  <2>6. /\ FastChunks(a) = FastChunks(h) /\ a.fastchunks = h.fastchunks
        /\ a.curptr = h.curptr /\ a.max_fast = h.max_fast /\ k.chunk = h.chunk
    BY <2>2, <2>5 DEF SameBut, Fields, FastChunks, FreeFields
  <2>7. HeapOK(a, V, {}) /\ Known(a) /\ Keeps(h, a, V)
    BY <1>1, <2>5, <2>6 DEF Known, Keeps
  <2> HIDE DEF a, V
  <2>8. CASE g = a
    BY <2>6, <2>7, <2>8 DEF V
  <2>9. CASE g = AfterLargeFree(a)
    <3>1. CASE ~a.fastchunks
      BY <3>1, <2>6, <2>7, <2>9, TrimmedIs DEF AfterLargeFree, V
    <3>2. CASE a.fastchunks
      <4> DEFINE m == malloc_consolidate(a)
      <4>1. HeapOK(m, V, {}) /\ FastChunks(m) = {} /\ SameBut(a, m, DrainFields)
            /\ Keeps(a, m, V)
        BY <2>7, ConsolidateIsOK
      <4>2. g = Trimmed(m)
        BY <3>2, <2>9 DEF AfterLargeFree
      <4> HIDE DEF m
      <4>3. g = m
        BY <4>1, <4>2, TrimmedIs
      <4>4. m.curptr = a.curptr /\ m.max_fast = a.max_fast
        BY <4>1 DEF SameBut, Fields, DrainFields, FreeFields
      <4>5. Keeps(h, m, V)
        BY <4>1, <2>7 DEF Keeps
      <4> QED BY <1>1, <4>1, <4>3, <4>4, <4>5, <2>6 DEF Known, V
    <3> QED BY <3>1, <3>2
  <2> QED BY <2>1, <2>8, <2>9 DEF a
<1> QED BY <1>2, <1>3

-----------------------------------------------------------------------------
(* malloc: taking a chunk off a bin *)

\* The chunk p, which is in no list, in a heap that has been set up.
LEMMA TransitIs ==
  ASSUME NEW h, NEW U, NEW p, HeapOK(h, U, {p})
  PROVE  /\ Shaped(h) /\ DOMAIN h = Fields /\ h.max_fast # 0
         /\ U \cap FastChunks(h) = {} /\ p \notin Free(h) /\ p \notin U \cup FastChunks(h)
         /\ p \in DOMAIN h.chunk /\ p \in Nat /\ p > 32
         /\ h.chunk[p].size \in Nat /\ h.chunk[p].size >= 16 /\ h.chunk[p].size % 8 = 0
         /\ p + h.chunk[p].size \in DOMAIN h.chunk
         /\ h.curptr \in Nat /\ h.curptr <= mem_heap_end
         /\ Tiled(h.chunk, h.top, h.curptr, Free(h) \cup {p}, U \cup FastChunks(h))
<1>1. /\ Tiled(h.chunk, h.top, h.curptr, Free(h) \cup {p}, U \cup FastChunks(h))
      /\ Shaped(h) /\ h.max_fast # 0 /\ p \notin Free(h) /\ U \cap FastChunks(h) = {}
  BY DEF HeapOK, Laid
<1>2. Base > 32 /\ Base \in Nat
  BY Constants DEF Base
<1>3. h.curptr \in Nat /\ h.curptr <= mem_heap_end /\ DOMAIN h = Fields
  BY <1>1 DEF Shaped
<1>4. /\ p \in DOMAIN h.chunk /\ p \in Nat /\ p >= Base /\ p \notin U \cup FastChunks(h)
      /\ h.chunk[p].size >= 16 /\ h.chunk[p].size % 8 = 0
      /\ p + h.chunk[p].size \in DOMAIN h.chunk
  BY <1>1 DEF Tiled
<1>5. h.chunk[p].size \in Nat
  BY <1>1, <1>4 DEF Tiled, Header
<1> QED BY <1>1, <1>2, <1>3, <1>4, <1>5

LEMMA ExhaustIsOK ==
  ASSUME NEW h, NEW U, NEW p, HeapOK(h, U, {p}), NEW r, r = Exhaust(h, p)
  PROVE  /\ r.p = p /\ HeapOK(r.h, U \cup {p}, {})
         /\ Keeps(h, r.h, DOMAIN h.chunk) /\ SameBut(h, r.h, {"chunk"})
<1> DEFINE g == r.h
           F == Free(h) \cup {p}
           W == U \cup FastChunks(h)
<1>1. /\ Shaped(h) /\ DOMAIN h = Fields /\ h.max_fast # 0
      /\ U \cap FastChunks(h) = {} /\ p \notin Free(h) /\ p \notin W
      /\ p \in DOMAIN h.chunk /\ p + h.chunk[p].size \in DOMAIN h.chunk
      /\ h.curptr \in Nat /\ h.curptr <= mem_heap_end
      /\ Tiled(h.chunk, h.top, h.curptr, F, W)
  BY TransitIs
<1>2. r.p = p /\ g = [h EXCEPT !.chunk = Taken(@, p)]
  BY DEF Exhaust, Found, Taken
<1>3. SameBut(h, g, {"chunk"}) /\ g.chunk = Taken(h.chunk, p)
  BY <1>1, <1>2 DEF SameBut, Fields
<1> HIDE DEF g
<1>4. Tiled(Taken(h.chunk, p), h.top, h.curptr, F \ {p}, W \cup {p})
  BY <1>1, TakenIsTiled
<1>5. F \ {p} = Free(h) \cup {} /\ W \cup {p} = (U \cup {p}) \cup FastChunks(h)
      /\ (U \cup {p}) \cap FastChunks(h) = {} /\ {} \cap Free(h) = {}
  BY <1>1
<1>6. Keeps(h, g, DOMAIN h.chunk)
  <2>1. h.chunk \in [DOMAIN h.chunk -> Header]
    BY <1>1 DEF Tiled
  <2>2. \A q \in DOMAIN h.chunk : Taken(h.chunk, p)[q].size = h.chunk[q].size
    BY <1>1, <2>1, TakenIs
  <2> QED BY <2>2, <1>3 DEF Keeps
<1>7. SameBut(h, g, {"chunk", "top", "curptr", "last_remainder"})
      /\ g.top = h.top /\ g.curptr = h.curptr
  BY <1>3 DEF SameBut, Fields
<1>8. \A q \in Free(h) \cup FastChunks(h) : g.chunk[q].size = h.chunk[q].size
  BY <1>1, <1>6 DEF Keeps, Tiled
<1> DEFINE V == U \cup {p}
<1> HIDE DEF V
<1>9. /\ Tiled(g.chunk, g.top, g.curptr, Free(h) \cup {}, V \cup FastChunks(h))
      /\ V \cap FastChunks(h) = {} /\ {} \cap Free(h) = {}
  BY <1>3, <1>4, <1>5, <1>7 DEF V
<1>10. HeapOK(g, V, {})
  BY <1>1, <1>7, <1>8, <1>9, Rechunked
<1> QED BY <1>2, <1>3, <1>6, <1>10 DEF g, V

\* The size of a chunk
IsSize(nb) == nb \in Nat /\ nb >= 16 /\ nb % 8 = 0

\* p is long enough for nb bytes and another chunk.
Spare(h, p, nb) ==
  h.anychunks /\ h.bins[unsorted] = <<>> /\ IsSize(nb) /\ h.chunk[p].size - nb >= 16

\* p is handed out with nb bytes, and the other chunks have what they had.
Shortened(h, r, U, p, nb) ==
  /\ r.p = p /\ HeapOK(r.h, U \cup {p}, {})
  /\ r.h.chunk[p].size = nb /\ Keeps(h, r.h, DOMAIN h.chunk \ {p})
  /\ SameBut(h, r.h, {"chunk", "bins", "last_remainder"})

\* The front of the chunk is handed out, and the rest is free.
LEMMA SplitIsOK ==
  ASSUME NEW h, NEW U, NEW p, HeapOK(h, U, {p}), NEW nb, Spare(h, p, nb),
         NEW r, r = SplitChunk(h, p, nb)
  PROVE  Shortened(h, r, U, p, nb)
<1> DEFINE g == r.h
           c == h.chunk
           F == Free(h) \cup {p}
           W == U \cup FastChunks(h)
           q == p + nb
           d == Halved(c, p, nb, q)
           k == [h EXCEPT !.chunk = d]
           V == U \cup {p}
<1>0. /\ h.anychunks /\ h.bins[unsorted] = <<>>
      /\ nb \in Nat /\ nb >= 16 /\ nb % 8 = 0 /\ c[p].size - nb >= 16
  BY DEF Spare, IsSize
<1>1. /\ Shaped(h) /\ DOMAIN h = Fields /\ h.max_fast # 0
      /\ U \cap FastChunks(h) = {} /\ p \notin Free(h) /\ p \notin W
      /\ p \in DOMAIN c /\ p \in Nat /\ h.curptr \in Nat /\ h.curptr <= mem_heap_end
      /\ Tiled(c, h.top, h.curptr, F, W)
  BY TransitIs
<1>2. unsorted \in Bins /\ DOMAIN h.bins = Bins
  BY <1>1, BinsAreNumbers, ListFacts DEF Shaped
<1>3. r.p = p /\ SameBut(h, k, {"chunk"}) /\ k.chunk = d /\ k.anychunks = h.anychunks
  BY <1>1 DEF SplitChunk, Found, SameBut, Fields, Halved, Cut
<1>4. <<q>> = <<q>> \o h.bins[unsorted]
  BY <1>0
<1>5. /\ SameBut(k, g, {"bins", "last_remainder"})
      /\ g.bins = Replaced(k.bins, unsorted, <<q>> \o k.bins[unsorted])
  <2>1. g.bins = [h.bins EXCEPT ![unsorted] = <<q>>] /\ g.chunk = d
        /\ DOMAIN g = Fields
        /\ \A f \in Fields \ {"bins", "last_remainder", "chunk"} : g[f] = h[f]
    BY <1>1 DEF SplitChunk, Found, Fields, Halved, Cut
  <2>2. k.bins = h.bins
    BY <1>3 DEF SameBut, Fields
  <2>3. SameBut(k, g, {"bins", "last_remainder"})
    BY <1>3, <2>1 DEF SameBut
  <2> HIDE DEF k, g, q
  <2> QED BY <1>4, <2>1, <2>2, <2>3 DEF Replaced
<1> HIDE DEF g, k, d, q
<1>6. /\ Tiled(d, h.top, h.curptr, (F \ {p}) \cup {q}, W \cup {p}) /\ q \notin DOMAIN c
      /\ d[p].size = nb /\ \A s \in DOMAIN c \ {p} : d[s].size = c[s].size
  <2>1. p \in F
    OBVIOUS
  <2>2. q = p + nb /\ d = Halved(c, p, nb, q)
        /\ c[p].size - nb >= 16
    BY <1>0 DEF q, d
  <2> HIDE DEF F, W, c
  <2>3. Tiled(d, h.top, h.curptr, (F \ {p}) \cup {q}, W \cup {p})
    BY <1>0, <1>1, <2>1, <2>2, SplitIsTiled
  <2>4. CutAt(c, d, p, nb, q)
    BY <1>0, <1>1, <2>1, <2>2, SplitIsTiled
  <2> QED BY <2>3, <2>4 DEF CutAt
<1>7. /\ (F \ {p}) \cup {q} = Free(h) \cup {q} /\ W \cup {p} = V \cup FastChunks(h)
      /\ V \cap FastChunks(h) = {} /\ {q} \cap Free(h) = {}
  <2>1. Free(h) \subseteq DOMAIN c
    BY <1>1 DEF Tiled
  <2> QED BY <1>1, <1>6, <2>1
<1>8. SameBut(h, k, {"chunk", "top", "curptr", "last_remainder"})
      /\ k.top = h.top /\ k.curptr = h.curptr
  BY <1>3 DEF SameBut, Fields
<1>9. \A s \in Free(h) \cup FastChunks(h) : k.chunk[s].size = c[s].size
  <2>1. Free(h) \cup FastChunks(h) \subseteq DOMAIN c \ {p}
    BY <1>1 DEF Tiled
  <2> QED BY <1>3, <1>6, <2>1
<1> HIDE DEF V
<1>10. Tiled(k.chunk, k.top, k.curptr, Free(h) \cup {q}, V \cup FastChunks(h))
  BY <1>3, <1>6, <1>7, <1>8
<1>11. HeapOK(k, V, {q})
  BY <1>1, <1>7, <1>8, <1>9, <1>10, Rechunked
<1>12. HeapOK(g, V, {})
  BY <1>0, <1>3, <1>5, <1>11, Unsorting
<1>13. g.chunk = d
  BY <1>3, <1>5 DEF SameBut, Fields
<1>14. g.chunk[p].size = nb /\ Keeps(h, g, DOMAIN h.chunk \ {p})
  BY <1>6, <1>13 DEF Keeps
<1>15. SameBut(h, g, {"chunk", "bins", "last_remainder"})
  BY <1>3, <1>5 DEF SameBut
<1> QED BY <1>3, <1>12, <1>14, <1>15 DEF g, V, Shortened

LEMMA Order ==
  /\ \A a, b \in Nat : ~(a <= b) => b <= a
  /\ \A a, b, c \in Nat : a <= b /\ b <= c => a <= c
OBVIOUS

\* The place of p in the bin of its size
LEMMA PlaceIs ==
  ASSUME NEW h, NEW i, NEW s \in Seq(Nat), s = h.bins[i], NEW size \in Nat, size % 8 = 0,
         \A m \in 1..Len(s) : /\ h.chunk[s[m]].size \in Nat /\ h.chunk[s[m]].size % 8 = 0
                              /\ bin_index(h.chunk[s[m]].size) = bin_index(size),
         Descending(h.chunk, s), NEW k, k = Place(h, i, size)
  PROVE  /\ k \in 1..Len(s)+1
         /\ \A m \in 1..Len(s) : m < k => size <= h.chunk[s[m]].size
         /\ \A m \in 1..Len(s) : m >= k => h.chunk[s[m]].size <= size
<1> DEFINE n == Len(s)
           w(m) == h.chunk[s[m]].size
<1>3. n \in Nat /\ DOMAIN s = 1..n /\ (s = <<>> <=> n = 0)
  BY SeqFacts
<1>5. \A m \in 1..n : w(m) \in Nat /\ w(m) % 8 = 0 /\ bin_index(w(m)) = bin_index(size)
  OBVIOUS
<1>6. \A m, j \in 1..n : m < j => w(j) <= w(m)
  BY <1>3 DEF Descending
<1>10. \A m \in 1..n : w(m) \in Nat
  OBVIOUS
<1>1. k = IF in_smallbin_range(size) \/ s = <<>> THEN 1
          ELSE IF size <= w(n) THEN n + 1
          ELSE LET I == {m \in 1..n : w(m) <= size} IN IF I # {} THEN Min(I) ELSE 0
  BY DEF Place, Last, SelectInSeq
<1> SUFFICES /\ k \in 1..n+1
             /\ \A m \in 1..n : m < k => size <= w(m)
             /\ \A m \in 1..n : m >= k => w(m) <= size
  OBVIOUS
<1> HIDE DEF n, w
<1>7. CASE in_smallbin_range(size) \/ s = <<>>
  <2>1. k = 1
    BY <1>1, <1>7
  <2>2. \A m \in 1..n : w(m) <= size
    <3>1. CASE s = <<>>
      BY <3>1, <1>3
    <3>2. CASE in_smallbin_range(size)
      <4> SUFFICES ASSUME NEW m \in 1..n PROVE w(m) = size
        BY <1>10
      <4>1. w(m) \in Nat /\ w(m) % 8 = 0 /\ bin_index(w(m)) = bin_index(size)
        BY <1>5
      <4> DEFINE x == w(m)
      <4>2. x \in Nat /\ x % 8 = 0 /\ bin_index(x) = bin_index(size)
        BY <4>1
      <4> HIDE DEF x
      <4>3. x = size
        BY <3>2, <4>2, SmallSizes
      <4> QED BY <4>3 DEF x
    <3> QED BY <3>1, <3>2, <1>7
  <2> QED BY <2>1, <2>2, <1>3
<1>8. CASE ~(in_smallbin_range(size) \/ s = <<>>) /\ size <= w(n)
  <2>1. k = n + 1 /\ n \in 1..n /\ size <= w(n)
    BY <1>1, <1>8, <1>3
  <2>2. \A m \in 1..n : w(n) <= w(m)
    <3> SUFFICES ASSUME NEW m \in 1..n PROVE w(n) <= w(m)
      OBVIOUS
    <3>1. CASE m = n
      BY <3>1, <1>10, <2>1
    <3>2. CASE m # n
      BY <3>2, <1>3, <1>6, <2>1
    <3> QED BY <3>1, <3>2
  <2>3. \A m \in 1..n : size <= w(m)
    <3> SUFFICES ASSUME NEW m \in 1..n PROVE size <= w(m)
      OBVIOUS
    <3>1. w(m) \in Nat /\ w(n) \in Nat /\ w(n) <= w(m)
      BY <2>1, <2>2, <1>10
    <3> QED BY <3>1, <2>1, Order, Zenon
  <2> QED BY <2>1, <2>3, <1>3
<1>9. CASE ~(in_smallbin_range(size) \/ s = <<>>) /\ ~(size <= w(n))
  <2> DEFINE I == {m \in 1..n : w(m) <= size}
  <2>1. k = IF I # {} THEN Min(I) ELSE 0
    BY <1>1, <1>9
  <2>2. n \in 1..n /\ ~(size <= w(n))
    BY <1>9, <1>3
  <2>3. n \in I
    <3>1. w(n) \in Nat
      BY <2>2, <1>10
    <3>2. w(n) <= size
      BY <2>2, <3>1, Order, Zenon
    <3> QED BY <2>2, <3>2
  <2>4. I \in SUBSET Nat /\ I # {}
    BY <2>3, <1>3
  <2>5. \A m \in 1..n : m \in I <=> w(m) <= size
    OBVIOUS
  <2>6. I \subseteq 1..n
    OBVIOUS
  <2> HIDE DEF I
  <2>7. k \in I /\ \A m \in I : k <= m
    BY <2>1, <2>4, LeastIs
  <2>8. \A m \in 1..n : m < k => size <= w(m)
    <3> SUFFICES ASSUME NEW m \in 1..n, m < k PROVE size <= w(m)
      OBVIOUS
    <3>1. m \notin I
      <4>1. ~(k <= m)
        BY <2>6, <2>7, <1>3
      <4> QED BY <4>1, <2>7
    <3>2. ~(w(m) <= size) /\ w(m) \in Nat
      BY <3>1, <2>5, <1>10
    <3> QED BY <3>2, Order, Zenon
  <2>9. \A m \in 1..n : m >= k => w(m) <= size
    <3> SUFFICES ASSUME NEW m \in 1..n, m >= k PROVE w(m) <= size
      OBVIOUS
    <3>1. CASE m = k
      BY <3>1, <2>5, <2>7
    <3>2. CASE m # k
      <4>1. k \in 1..n /\ k < m
        <5>1. k \in 1..n
          BY <2>6, <2>7
        <5> QED BY <5>1, <3>2, <1>3
      <4>2. w(m) <= w(k) /\ w(k) <= size
        BY <4>1, <2>5, <2>7, <1>6
      <4>3. w(m) \in Nat /\ w(k) \in Nat
        BY <4>1, <1>10
      <4> QED BY <4>2, <4>3
    <3> QED BY <3>1, <3>2
  <2> QED BY <2>6, <2>7, <2>8, <2>9, <1>3
<1> QED BY <1>7, <1>8, <1>9

LEMMA SizeBound ==
  ASSUME NEW h, NEW U, NEW P, HeapOK(h, U, P), NEW p \in DOMAIN h.chunk
  PROVE  h.chunk[p].size \in Nat /\ h.chunk[p].size >= 16
         /\ h.chunk[p].size + 32 < h.curptr /\ h.curptr <= mem_heap_end
         /\ h.curptr \in Nat
<1>1. /\ Tiled(h.chunk, h.top, h.curptr, Free(h) \cup P, U \cup FastChunks(h))
      /\ h.curptr <= mem_heap_end /\ h.curptr \in Nat
  BY DEF HeapOK, Laid, Shaped
<1>2. Base > 32 /\ Base \in Nat
  BY Constants DEF Base
<1>3. p \in Nat /\ p >= Base /\ h.chunk[p].size \in Nat /\ h.chunk[p].size >= 16
  BY <1>1 DEF Tiled, Header
<1>4. p + h.chunk[p].size <= h.curptr
  <2>1. CASE p = h.top
    BY <2>1, <1>1, <1>3 DEF Tiled
  <2>2. CASE p # h.top
    <3>1. p + h.chunk[p].size \in DOMAIN h.chunk
      BY <2>2, <1>1 DEF Tiled
    <3>2. p + h.chunk[p].size <= h.top
      BY <3>1, <1>1, TopIsLast
    <3>3. h.top \in Nat /\ h.chunk[h.top].size \in Nat /\ h.top + h.chunk[h.top].size = h.curptr
      BY <1>1 DEF Tiled, Header
    <3> QED BY <3>2, <3>3, <1>1, <1>3
  <2> QED BY <2>1, <2>2
<1> QED BY <1>1, <1>2, <1>3, <1>4

\* A chunk is put in the bin of its size.
LEMMA BinnedIsOK ==
  ASSUME NEW h, NEW U, NEW p, HeapOK(h, U, {p}), h.anychunks, NEW g, g = Binned(h, p)
  PROVE  /\ HeapOK(g, U, {}) /\ With(Free(g), Free(h), p)
         /\ SameBut(h, g, {"bins", "binmap"}) /\ g.bins[unsorted] = h.bins[unsorted]
<1> DEFINE size == h.chunk[p].size
           i == bin_index(size)
           k == Place(h, i, size)
           t == InsertAt(h.bins[i], k, p)
<1>1. /\ Shaped(h) /\ DOMAIN h = Fields /\ p \in DOMAIN h.chunk /\ p \in Nat
  BY TransitIs
<1>2. size \in Nat /\ size >= 16 /\ size <= mem_heap_end
  <2>1. size \in Nat /\ size >= 16 /\ size + 32 < h.curptr /\ h.curptr <= mem_heap_end
        /\ h.curptr \in Nat
    BY <1>1, SizeBound
  <2> HIDE DEF size
  <2> QED BY <2>1, Constants
<1>3. i \in Bins \ {unsorted}
  BY <1>2, BinIsOne
<1>4. SameBut(h, g, {"bins", "binmap"}) /\ g.bins = Replaced(h.bins, i, t)
      /\ g.binmap = h.binmap \cup {i}
  <2>1. g = [h EXCEPT !.bins[i] = t, !.binmap = @ \cup {i}]
    BY DEF Binned
  <2> HIDE DEF t, i
  <2> QED BY <1>1, <2>1 DEF SameBut, Fields, Replaced
<1> HIDE DEF t, i, k
<1>6. h.bins[i] \in Seq(Nat) /\ DOMAIN h.bins = Bins
  BY <1>1, <1>3, ListFacts DEF Shaped
<1>12. /\ Descending(h.chunk, h.bins[i])
       /\ \A q \in ToSet(h.bins[i]) : bin_index(h.chunk[q].size) = i
  BY <1>3 DEF HeapOK, Sorted
<1>13. size % 8 = 0
       /\ \A m \in 1..Len(h.bins[i]) :
            /\ h.chunk[h.bins[i][m]].size \in Nat /\ h.chunk[h.bins[i][m]].size % 8 = 0
            /\ bin_index(h.chunk[h.bins[i][m]].size) = bin_index(size)
  <2>1. Tiled(h.chunk, h.top, h.curptr, Free(h) \cup {p}, U \cup FastChunks(h))
    BY TransitIs
  <2>2. ToSet(h.bins[i]) \subseteq Free(h)
    BY <1>3 DEF Free
  <2>3. \A m \in 1..Len(h.bins[i]) : h.bins[i][m] \in ToSet(h.bins[i])
    BY <1>6, SeqFacts
  <2>4. \A q \in Free(h) \cup {p} : h.chunk[q].size \in Nat /\ h.chunk[q].size % 8 = 0
    BY <2>1 DEF Tiled, Header
  <2>5. size % 8 = 0 /\ i = bin_index(size)
    BY <2>4 DEF i
  <2> HIDE DEF size
  <2> SUFFICES ASSUME NEW m \in 1..Len(h.bins[i])
               PROVE  /\ h.chunk[h.bins[i][m]].size \in Nat
                      /\ h.chunk[h.bins[i][m]].size % 8 = 0
                      /\ bin_index(h.chunk[h.bins[i][m]].size) = bin_index(size)
    BY <2>5
  <2>6. h.bins[i][m] \in ToSet(h.bins[i]) /\ h.bins[i][m] \in Free(h)
    BY <2>2, <2>3
  <2> QED BY <2>4, <2>5, <2>6, <1>12
<1> HIDE DEF size
<1>5. /\ k \in 1..Len(h.bins[i])+1
      /\ \A m \in 1..Len(h.bins[i]) : m < k => size <= h.chunk[h.bins[i][m]].size
      /\ \A m \in 1..Len(h.bins[i]) : m >= k => h.chunk[h.bins[i][m]].size <= size
  <2>1. k = Place(h, i, size)
    BY DEF k
  <2> DEFINE s == h.bins[i]
  <2>2. s = h.bins[i] /\ s \in Seq(Nat) /\ Descending(h.chunk, s)
        /\ \A m \in 1..Len(s) :
            /\ h.chunk[s[m]].size \in Nat /\ h.chunk[s[m]].size % 8 = 0
            /\ bin_index(h.chunk[s[m]].size) = bin_index(size)
    BY <1>6, <1>12, <1>13
  <2> HIDE DEF s
  <2>3. /\ k \in 1..Len(s)+1
        /\ \A m \in 1..Len(s) : m < k => size <= h.chunk[s[m]].size
        /\ \A m \in 1..Len(s) : m >= k => h.chunk[s[m]].size <= size
    BY <1>2, <1>13, <2>1, <2>2, PlaceIs
  <2> QED BY <2>3 DEF s
<1>7. Inserted(h.bins[i], t, k, p)
  BY <1>1, <1>5, <1>6, InsertAtIs DEF t
<1>8. Descending(h.chunk, t)
  BY <1>5, <1>7, <1>12, <1>13, InsertedDescends DEF size
<1>9. /\ SameBut(h, g, {"bins", "binmap", "last_remainder"})
      /\ h.binmap \subseteq g.binmap /\ g.binmap \subseteq Bins /\ i \in g.binmap
      /\ i = bin_index(h.chunk[p].size)
  BY <1>1, <1>3, <1>4 DEF SameBut, Shaped, i, size
<1>10. HeapOK(g, U, {}) /\ With(Free(g), Free(h), p)
  BY <1>3, <1>4, <1>7, <1>8, <1>9, Binning
<1>11. g.bins[unsorted] = h.bins[unsorted]
  BY <1>3, <1>4, <1>6, BinsAreNumbers DEF Replaced
<1> QED BY <1>4, <1>10, <1>11

-----------------------------------------------------------------------------
(* malloc: the unsorted chunks *)

\* t is s without its last element.
Shorter(s, t) ==
  /\ s \in Seq(Nat) /\ t \in Seq(Nat) /\ Len(t) = Len(s) - 1
  /\ \A m \in 1..Len(t) : t[m] = s[m]

SearchFields == {"bins", "binmap", "chunk", "last_remainder"}

\* No chunk is handed out, and every free chunk is still in a bin.
Passed(h, g, U) ==
  HeapOK(g, U, {}) /\ Free(g) = Free(h) /\ SameBut(h, g, {"bins", "binmap"})

\* A free chunk is handed out.
Given(h, r, U, nb) ==
  /\ HeapOK(r.h, U \cup {r.p}, {}) /\ r.p \in Free(h) /\ Keeps(h, r.h, U)
  /\ r.h.chunk[r.p].size >= nb /\ SameBut(h, r.h, SearchFields)

LEMMA FreeIs ==
  ASSUME NEW h, NEW U, NEW P, HeapOK(h, U, P), NEW p \in Free(h)
  PROVE  /\ p \in DOMAIN h.chunk /\ p \in Nat /\ p > 32 /\ p \notin U
         /\ h.chunk[p].size \in Nat /\ h.chunk[p].size >= 16 /\ h.chunk[p].size % 8 = 0
         /\ DOMAIN h = Fields /\ h.max_fast # 0 /\ h.anychunks
<1>1. h.anychunks /\ Shaped(h) /\ DOMAIN h = Fields
  BY DEF HeapOK, Shaped
<1>2. h.max_fast # 0 /\ Tiled(h.chunk, h.top, h.curptr, Free(h) \cup P, U \cup FastChunks(h))
  BY DEF HeapOK, Laid
<1>3. Base > 32 /\ Base \in Nat
  BY Constants DEF Base
<1> QED BY <1>1, <1>2, <1>3 DEF Tiled, Header

LEMMA UnlinkLast ==
  ASSUME NEW h, NEW U, HeapOK(h, U, {}), NEW s, s = h.bins[unsorted], s # <<>>,
         NEW p, p = Last(s), NEW g, Loses(h.bins, g.bins, p)
  PROVE  Shorter(s, g.bins[unsorted]) /\ p = s[Len(s)] /\ p \in Free(h)
<1>1. Lists(h.bins, Bins) /\ Free(h) = Held(h.bins) /\ unsorted \in Bins
  BY HeldIs, BinsAreNumbers DEF HeapOK, Shaped
<1>2. /\ DOMAIN h.bins = Bins /\ s \in Seq(Nat) /\ Distinct(s) /\ ToSet(s) \subseteq Free(h)
      /\ \A i, j \in Bins : \A q \in ToSet(h.bins[i]) : q \in ToSet(h.bins[j]) => i = j
      /\ \A i \in Bins : h.bins[i] \in Seq(Nat)
  <2>1. /\ DOMAIN h.bins = Bins
        /\ \A i \in Bins : h.bins[i] \in Seq(Nat) /\ Distinct(h.bins[i])
                           /\ ToSet(h.bins[i]) \subseteq Held(h.bins)
        /\ \A i, j \in Bins : \A q \in ToSet(h.bins[i]) : q \in ToSet(h.bins[j]) => i = j
    BY <1>1, ListFacts
  <2> QED BY <1>1, <2>1
<1>3. Len(s) \in Nat /\ Len(s) # 0 /\ DOMAIN s = 1..Len(s) /\ p = s[Len(s)] /\ p \in ToSet(s)
  BY <1>2, SeqFacts DEF Last
<1>4. PICK i \in Bins : \E k \in 1..Len(h.bins[i]) :
        h.bins[i][k] = p /\ Inserted(g.bins[i], h.bins[i], k, p)
  BY <1>2 DEF Loses
<1>5. PICK k \in 1..Len(h.bins[i]) : h.bins[i][k] = p /\ Inserted(g.bins[i], h.bins[i], k, p)
  BY <1>4
<1>6. p \in ToSet(h.bins[i])
  BY <1>2, <1>5, SeqFacts
<1>7. i = unsorted
  BY <1>1, <1>2, <1>3, <1>6
<1> DEFINE t == g.bins[unsorted]
           n == Len(s)
<1>8. Inserted(t, s, k, p) /\ k \in 1..n /\ s[k] = p
  BY <1>5, <1>7
<1>9. k = n /\ n \in Nat
  <2>1. n \in Nat /\ k \in DOMAIN s /\ n \in DOMAIN s /\ s[k] = s[n]
    BY <1>3, <1>8
  <2> HIDE DEF n
  <2> QED BY <2>1, <1>2, Zenon DEF Distinct
<1> HIDE DEF t, n
<1>10. t \in Seq(Nat) /\ n = Len(t) + 1 /\ \A j \in 1..Len(t)+1 : j < k => s[j] = t[j]
  BY <1>8 DEF Inserted, n
<1>11. Len(t) \in Nat
  BY <1>10
<1>12. Len(t) = n - 1 /\ \A m \in 1..Len(t) : t[m] = s[m]
  BY <1>9, <1>10, <1>11
<1> QED BY <1>2, <1>3, <1>10, <1>12 DEF Shorter, t, n

\* The last unsorted chunk, p, is handed out, if it is just as long or the last
\* remainder and alone, or is put in its bin.
Looked(h, r, U, nb, p) ==
  LET s == h.bins[unsorted] IN
  /\ p = s[Len(s)]
  /\ IF r.p = Null
     THEN Passed(h, r.h, U) /\ h.chunk[p].size # nb /\ Shorter(s, r.h.bins[unsorted])
     ELSE /\ r.p = p /\ Given(h, r, U, nb)
          /\ h.chunk[p].size = nb \/ (Len(s) = 1 /\ p = h.last_remainder)

LEMMA ConsideredIsOK ==
  ASSUME NEW h, NEW U, HeapOK(h, U, {}), NEW s, s = h.bins[unsorted], s # <<>>,
         NEW p, p = Last(s), NEW nb, IsSize(nb), NEW r, r = Considered(h, p, nb)
  PROVE  Looked(h, r, U, nb, p)
<1> DEFINE u == unlink(h, p)
           size == h.chunk[p].size
<1>1. p \in Free(h) /\ p = s[Len(s)]
  <2>1. h.bins[unsorted] \in Seq(Nat) /\ ToSet(h.bins[unsorted]) \subseteq Free(h)
    <3>1. Lists(h.bins, Bins) /\ Free(h) = Held(h.bins) /\ unsorted \in Bins
      BY HeldIs, BinsAreNumbers DEF HeapOK, Shaped
    <3> QED BY <3>1, ListFacts
  <2>2. Len(s) \in Nat /\ Len(s) # 0 /\ \A m \in 1..Len(s) : s[m] \in ToSet(s)
    BY <2>1, SeqFacts
  <2> QED BY <2>1, <2>2 DEF Last
<1>2. /\ HeapOK(u, U, {p}) /\ Without(Free(u), Free(h), p) /\ SameBut(h, u, {"bins"})
      /\ Loses(h.bins, u.bins, p)
  BY <1>1, UnlinkedIsOK
<1>3. Shorter(s, u.bins[unsorted])
  BY <1>2, UnlinkLast
<1>4. /\ size \in Nat /\ size >= 16 /\ size % 8 = 0 /\ h.anychunks
      /\ p \in DOMAIN h.chunk /\ p > 32 /\ p \notin U /\ DOMAIN h = Fields /\ p \in Nat
  BY <1>1, FreeIs
<1>5. u.chunk = h.chunk /\ u.anychunks
  BY <1>2, <1>4 DEF SameBut, Fields
<1>6. U \subseteq DOMAIN h.chunk
  <2>1. Tiled(u.chunk, u.top, u.curptr, Free(u) \cup {p}, U \cup FastChunks(u))
    BY <1>2, TransitIs
  <2> QED BY <2>1, <1>5 DEF Tiled
<1> DEFINE alone == /\ in_smallbin_range(nb) /\ Len(h.bins[unsorted]) = 1
                    /\ p = h.last_remainder /\ size > nb + MINSIZE
<1>7. r = IF alone THEN SplitChunk(u, p, nb)
          ELSE IF size = nb THEN Exhaust(u, p) ELSE Found(Binned(u, p), Null)
  BY DEF Considered
<1> HIDE DEF u, size
<1>8. CASE alone
  <2>1. r = SplitChunk(u, p, nb)
    BY <1>7, <1>8
  <2>2. Len(s) = 1 /\ p = h.last_remainder /\ size > nb + 16
    BY <1>8 DEF MINSIZE
  <2> HIDE DEF alone
  <2>3. u.bins[unsorted] = <<>>
    <3>1. u.bins[unsorted] \in Seq(Nat) /\ Len(u.bins[unsorted]) = 0
      BY <1>3, <2>2 DEF Shorter
    <3> QED BY <3>1, SeqFacts
  <2>4. nb \in Nat /\ nb >= 16 /\ nb % 8 = 0 /\ u.chunk[p].size - nb >= 16
    BY <1>4, <1>5, <2>2 DEF IsSize, size
  <2>5. /\ r.p = p /\ HeapOK(r.h, U \cup {p}, {}) /\ Keeps(u, r.h, DOMAIN u.chunk \ {p})
        /\ r.h.chunk[p].size = nb
        /\ SameBut(u, r.h, {"chunk", "bins", "last_remainder"})
    <3>1. HeapOK(u, U, {p}) /\ u.anychunks /\ Spare(u, p, nb)
      BY <1>2, <1>4, <1>5, <2>3, <2>4 DEF Spare
    <3>2. Shortened(u, r, U, p, nb)
      BY <3>1, <2>1, SplitIsOK
    <3> QED BY <3>2 DEF Shortened
  <2>6. SameBut(h, r.h, SearchFields)
    BY <1>2, <2>5 DEF SameBut, SearchFields
  <2>7. Keeps(h, r.h, U)
    <3>1. \A q \in U : q \in DOMAIN u.chunk \ {p} /\ u.chunk[q].size = h.chunk[q].size
      BY <1>4, <1>5, <1>6
    <3> QED BY <2>5, <3>1 DEF Keeps
  <2>8. Given(h, r, U, nb)
    <3>1. r.h.chunk[r.p].size >= nb
      BY <2>4, <2>5
    <3>2. HeapOK(r.h, U \cup {r.p}, {}) /\ r.p \in Free(h)
      BY <1>1, <2>5, Zenon
    <3> QED BY <2>6, <2>7, <3>1, <3>2 DEF Given
  <2>9. r.p # Null
    BY <1>4, <2>5 DEF Null
  <2> QED BY <1>1, <2>2, <2>5, <2>8, <2>9 DEF Looked
<1>9. CASE ~alone /\ size = nb
  <2>1. r = Exhaust(u, p)
    BY <1>7, <1>9
  <2>2. size = nb
    BY <1>9
  <2> HIDE DEF alone
  <2>5. /\ r.p = p /\ HeapOK(r.h, U \cup {p}, {}) /\ Keeps(u, r.h, DOMAIN u.chunk)
        /\ SameBut(u, r.h, {"chunk"})
    BY <1>2, <2>1, ExhaustIsOK
  <2>6. SameBut(h, r.h, SearchFields)
    BY <1>2, <2>5 DEF SameBut, SearchFields
  <2>7. Keeps(h, r.h, U) /\ r.h.chunk[p].size = size
    <3>1. \A q \in U : q \in DOMAIN u.chunk /\ u.chunk[q].size = h.chunk[q].size
      BY <1>4, <1>5, <1>6
    <3>2. Keeps(h, r.h, U)
      BY <2>5, <3>1 DEF Keeps
    <3>3. r.h.chunk[p].size = u.chunk[p].size
      BY <1>4, <1>5, <2>5 DEF Keeps
    <3> QED BY <1>5, <3>2, <3>3 DEF size
  <2>8. Given(h, r, U, nb)
    <3>1. r.h.chunk[r.p].size >= nb
      BY <1>4, <2>2, <2>5, <2>7
    <3>2. HeapOK(r.h, U \cup {r.p}, {}) /\ r.p \in Free(h)
      BY <1>1, <2>5, Zenon
    <3> QED BY <2>6, <2>7, <3>1, <3>2 DEF Given
  <2>9. r.p # Null
    BY <1>4, <2>5 DEF Null
  <2> QED BY <1>1, <2>2, <2>5, <2>8, <2>9 DEF size, Looked
<1>10. CASE ~alone /\ size # nb
  <2> DEFINE g == Binned(u, p)
  <2>1. r.h = g /\ r.p = Null
    BY <1>7, <1>10 DEF Found
  <2>2. size # nb
    BY <1>10
  <2> HIDE DEF alone
  <2>3. /\ HeapOK(g, U, {}) /\ With(Free(g), Free(u), p)
        /\ SameBut(u, g, {"bins", "binmap"}) /\ g.bins[unsorted] = u.bins[unsorted]
    BY <1>2, <1>5, BinnedIsOK
  <2>4. Free(g) = Free(h)
    BY <1>1, <1>2, <2>3 DEF With, Without
  <2>5. SameBut(h, g, {"bins", "binmap"})
    BY <1>2, <2>3 DEF SameBut
  <2> HIDE DEF g
  <2>6. Passed(h, r.h, U)
    BY <2>1, <2>3, <2>4, <2>5 DEF Passed
  <2> QED BY <1>1, <1>3, <2>1, <2>2, <2>3, <2>6 DEF size, Looked
<1> QED BY <1>8, <1>9, <1>10

-----------------------------------------------------------------------------
(* malloc: the loop over the unsorted chunks *)

\* t is s without its last n elements.
AllBut(s, t, n) ==
  /\ s \in Seq(Nat) /\ t \in Seq(Nat) /\ Len(t) = Len(s) - n
  /\ \A m \in 1..Len(t) : t[m] = s[m]

LEMMA AllButShorter ==
  ASSUME NEW s, NEW t, NEW u, NEW n \in Int, AllBut(s, t, n - 1), Shorter(t, u)
  PROVE  AllBut(s, u, n) /\ \A m \in 1..Len(s) : m > Len(s) - n =>
                             m > Len(s) - (n - 1) \/ s[m] = t[Len(t)]
<1>1. /\ s \in Seq(Nat) /\ t \in Seq(Nat) /\ u \in Seq(Nat)
      /\ Len(t) = Len(s) - (n - 1) /\ Len(u) = Len(t) - 1
      /\ \A m \in 1..Len(t) : t[m] = s[m]
      /\ \A m \in 1..Len(u) : u[m] = t[m]
  BY DEF AllBut, Shorter
<1>2. Len(s) \in Nat /\ Len(t) \in Nat /\ Len(u) \in Nat
  BY <1>1
<1>3. Len(u) = Len(s) - n /\ \A m \in 1..Len(u) : u[m] = s[m]
  BY <1>1, <1>2
<1>4. ASSUME NEW m \in 1..Len(s), m > Len(s) - n, ~(m > Len(s) - (n - 1))
      PROVE  s[m] = t[Len(t)]
  <2>1. \A x, y \in Int : m > x - n /\ ~(m > x - (n - 1)) /\ y = x - (n - 1) => m = y
    BY <1>4
  <2>2. m = Len(t)
    <3> DEFINE x == Len(s)
               y == Len(t)
    <3>1. m \in Int /\ x \in Int /\ y \in Int
      BY <1>2
    <3>2. m > x - n /\ ~(m > x - (n - 1)) /\ y = x - (n - 1)
      BY <1>1, <1>4
    <3> HIDE DEF x, y
    <3>3. m = y
      BY <2>1, <3>1, <3>2
    <3> QED BY <3>3 DEF y
  <2>3. m \in 1..Len(t)
    BY <1>2, <2>2
  <2>4. t[m] = s[m]
    BY <1>1, <2>3
  <2> QED BY <2>2, <2>4
<1> QED BY <1>1, <1>3, <1>4 DEF AllBut

\* The chunk malloc may hand out though another fits better.
Remainder(h, p) ==
  h.bins[unsorted] # <<>> /\ p = h.bins[unsorted][1] /\ p = h.last_remainder

\* What n turns leave of the search for nb bytes in h.
Sorting(h, r, U, nb, n) ==
  LET s == h.bins[unsorted] IN
  IF r.p = Null
  THEN /\ Passed(h, r.h, U) /\ AllBut(s, r.h.bins[unsorted], n)
       /\ \A m \in 1..Len(s) : m > Len(s) - n => h.chunk[s[m]].size # nb
  ELSE Given(h, r, U, nb) /\ (h.chunk[r.p].size = nb \/ Remainder(h, r.p))

LEMMA ConsiderNextIsOK ==
  ASSUME NEW h, NEW U, NEW nb, IsSize(nb), NEW n \in 1..Len(h.bins[unsorted]),
         NEW a, Sorting(h, a, U, nb, n - 1), NEW b, b = ConsiderNext(a, nb)
  PROVE  Sorting(h, b, U, nb, n)
<1>1. CASE a.p # Null
  <2>1. b = a
    BY <1>1 DEF ConsiderNext
  <2> QED BY <1>1, <2>1 DEF Sorting
<1>2. CASE a.p = Null
  <2> DEFINE s == h.bins[unsorted]
             g == a.h
             t == g.bins[unsorted]
             p == Last(t)
  <2>1. /\ Passed(h, g, U) /\ AllBut(s, t, n - 1)
        /\ \A m \in 1..Len(s) : m > Len(s) - (n - 1) => h.chunk[s[m]].size # nb
    BY <1>2 DEF Sorting
  <2>2. b = Considered(g, p, nb)
    BY <1>2 DEF ConsiderNext
  <2>3. HeapOK(g, U, {}) /\ Free(g) = Free(h) /\ SameBut(h, g, {"bins", "binmap"})
    BY <2>1 DEF Passed
  <2>4. g.chunk = h.chunk /\ g.last_remainder = h.last_remainder
    BY <2>3 DEF SameBut, Fields
  <2>5. /\ s \in Seq(Nat) /\ t \in Seq(Nat) /\ Len(t) = Len(s) - (n - 1)
        /\ \A m \in 1..Len(t) : t[m] = s[m]
    BY <2>1 DEF AllBut
  <2>6. Len(s) \in Nat /\ Len(t) \in Nat /\ n \in 1..Len(s) /\ Len(t) >= 1
    <3>1. n \in 1..Len(s)
      OBVIOUS
    <3> HIDE DEF s, t
    <3>2. Len(s) \in Nat /\ Len(t) \in Nat
      BY <2>5, SeqFacts
    <3> QED BY <3>1, <3>2, <2>5
  <2>7. t # <<>> /\ s # <<>>
    <3> HIDE DEF s, t
    <3>1. (s = <<>> <=> Len(s) = 0) /\ (t = <<>> <=> Len(t) = 0)
      BY <2>5, SeqFacts
    <3> QED BY <3>1, <2>6
  <2> HIDE DEF g, p
  <2>8. Looked(g, b, U, nb, p)
    BY <2>2, <2>3, <2>7, ConsideredIsOK DEF p
  <2>9. p = t[Len(t)]
    BY <2>8 DEF Looked
  <2>10. CASE b.p = Null
    <3>1. Passed(g, b.h, U) /\ h.chunk[p].size # nb /\ Shorter(t, b.h.bins[unsorted])
      BY <2>4, <2>8, <2>10 DEF Looked
    <3>2. Passed(h, b.h, U)
      <4>1. SameBut(h, b.h, {"bins", "binmap"})
        BY <2>3, <3>1 DEF Passed, SameBut
      <4> QED BY <2>3, <3>1, <4>1 DEF Passed
    <3> HIDE DEF s, t
    <3>3. /\ AllBut(s, b.h.bins[unsorted], n)
          /\ \A m \in 1..Len(s) : m > Len(s) - n => m > Len(s) - (n - 1) \/ s[m] = t[Len(t)]
      <4>1. n \in Int /\ AllBut(s, t, n - 1) /\ Shorter(t, b.h.bins[unsorted])
        BY <2>1, <2>6, <3>1 DEF t
      <4>2. AllBut(s, b.h.bins[unsorted], n)
        BY <4>1, AllButShorter
      <4>3. \A m \in 1..Len(s) : m > Len(s) - n => m > Len(s) - (n - 1) \/ s[m] = t[Len(t)]
        BY <4>1, AllButShorter
      <4> QED BY <4>2, <4>3
    <3>4. \A m \in 1..Len(s) : m > Len(s) - n => h.chunk[s[m]].size # nb
      BY <2>1, <2>9, <3>1, <3>3
    <3> QED BY <2>10, <3>2, <3>3, <3>4 DEF Sorting, s
  <2>11. CASE b.p # Null
    <3>1. /\ b.p = p /\ Given(g, b, U, nb)
          /\ h.chunk[p].size = nb \/ (Len(t) = 1 /\ p = h.last_remainder)
      BY <2>4, <2>8, <2>11 DEF Looked
    <3>2. Given(h, b, U, nb)
      <4>1. SameBut(h, b.h, SearchFields)
        BY <2>3, <3>1 DEF Given, SameBut, SearchFields
      <4>2. Keeps(h, b.h, U)
        BY <2>4, <3>1 DEF Given, Keeps
      <4> QED BY <2>3, <3>1, <4>1, <4>2 DEF Given
    <3>3. h.chunk[b.p].size = nb \/ Remainder(h, b.p)
      <4>1. CASE Len(t) = 1 /\ p = h.last_remainder
        <5>1. p = s[1]
          <6>1. \A m \in 1..Len(t) : t[m] = s[m]
            BY <2>5
          <6>2. Len(t) = 1 /\ p = t[Len(t)]
            BY <2>9, <4>1
          <6> HIDE DEF s, t
          <6>3. s[1] = t[1] /\ p = t[1]
            BY <6>1, <6>2
          <6> QED BY <6>3
        <5> QED BY <2>7, <3>1, <4>1, <5>1 DEF Remainder
      <4> QED BY <3>1, <4>1
    <3> QED BY <2>11, <3>2, <3>3 DEF Sorting
  <2> QED BY <2>10, <2>11
<1> QED BY <1>1, <1>2

\* The unsorted chunks are all in their bins, or one is handed out.
SortedOut(h, r, U, nb) ==
  IF r.p = Null
  THEN /\ Passed(h, r.h, U) /\ r.h.bins[unsorted] = <<>>
       /\ \A q \in ToSet(h.bins[unsorted]) : h.chunk[q].size # nb
  ELSE Given(h, r, U, nb) /\ (h.chunk[r.p].size = nb \/ Remainder(h, r.p))

LEMMA SortIsOK ==
  ASSUME NEW h, NEW U, HeapOK(h, U, {}), NEW nb, IsSize(nb), NEW r, r = SortUnsorted(h, nb)
  PROVE  SortedOut(h, r, U, nb)
<1> DEFINE s == h.bins[unsorted]
           N == Len(s)
           f == CHOOSE g : g = [n \in 0..N |-> IF n = 0 THEN Found(h, Null)
                                               ELSE ConsiderNext(g[n-1], nb)]
           Ok(n) == Sorting(h, f[n], U, nb, n)
           Bad == {n \in Nat : n <= N /\ ~Ok(n)}
<1>1. s \in Seq(Nat) /\ DOMAIN h = Fields
  <2>1. Lists(h.bins, Bins) /\ unsorted \in Bins /\ DOMAIN h = Fields
    BY BinsAreNumbers DEF HeapOK, Shaped
  <2> QED BY <2>1, ListFacts
<1>2. N \in Nat /\ r = f[N]
  BY <1>1, SeqFacts DEF SortUnsorted
<1>3. nb # 0
  BY DEF IsSize
<1> HIDE DEF N
<1>4. f = [n \in 0..N |-> IF n = 0 THEN Found(h, Null) ELSE ConsiderNext(f[n-1], nb)]
  <2>1. PICK g : Turns(g, Found(h, Null), nb, N)
    BY <1>2, TurnsExist
  <2>2. \A x : Turn(x, nb) = ConsiderNext(x, nb)
    BY <1>3 DEF Turn
  <2>3. g = [n \in 0..N |-> IF n = 0 THEN Found(h, Null) ELSE ConsiderNext(g[n-1], nb)]
    BY <2>1, <2>2 DEF Turns
  <2> QED BY <2>3, Zenon
<1> HIDE DEF f
<1>5. f[0] = Found(h, Null) /\ \A n \in 1..N : f[n] = ConsiderNext(f[n-1], nb)
  BY <1>2, <1>4
<1>6. Ok(0)
  <2>1. f[0].h = h /\ f[0].p = Null
    BY <1>5 DEF Found
  <2>2. Passed(h, h, U)
    BY <1>1 DEF Passed, SameBut
  <2>3. AllBut(s, s, 0)
    BY <1>1 DEF AllBut
  <2>4. \A m \in 1..Len(s) : m > Len(s) - 0 => h.chunk[s[m]].size # nb
    BY <1>2 DEF N
  <2> QED BY <2>1, <2>2, <2>3, <2>4 DEF Sorting
<1>7. ASSUME NEW n \in 1..N, Ok(n-1) PROVE Ok(n)
  <2>1. f[n] = ConsiderNext(f[n-1], nb) /\ Sorting(h, f[n-1], U, nb, n - 1)
    BY <1>5, <1>7
  <2>2. n \in 1..Len(h.bins[unsorted])
    BY DEF N
  <2> QED BY <2>1, <2>2, ConsiderNextIsOK
<1>8. Bad \in SUBSET Nat /\ \A n \in Nat : n \in Bad <=> n <= N /\ ~Ok(n)
  OBVIOUS
<1> HIDE DEF Bad, Ok
<1>9. ASSUME Bad # {} PROVE FALSE
  <2>1. PICK n \in Bad : \A i \in Bad : n <= i
    BY <1>8, <1>9, LeastOf
  <2>2. n \in 1..N /\ n - 1 \in Nat /\ n - 1 <= N /\ n - 1 \notin Bad
    BY <1>2, <1>6, <1>8, <2>1
  <2> QED BY <1>7, <1>8, <2>1, <2>2
<1>10. Sorting(h, r, U, nb, N)
  BY <1>2, <1>8, <1>9 DEF Ok
<1>11. CASE r.p = Null
  <2>1. /\ Passed(h, r.h, U) /\ AllBut(s, r.h.bins[unsorted], N)
        /\ \A m \in 1..Len(s) : m > Len(s) - N => h.chunk[s[m]].size # nb
    BY <1>10, <1>11 DEF Sorting
  <2>2. r.h.bins[unsorted] = <<>>
    <3>1. r.h.bins[unsorted] \in Seq(Nat) /\ Len(r.h.bins[unsorted]) = 0
      BY <1>2, <2>1 DEF AllBut, N
    <3> QED BY <3>1, SeqFacts
  <2>3. \A q \in ToSet(s) : \E m \in 1..Len(s) : s[m] = q
    BY <1>1, SeqFacts
  <2>4. \A q \in ToSet(s) : h.chunk[q].size # nb
    <3>1. \A m \in 1..Len(s) : m > Len(s) - N
      BY <1>2 DEF N
    <3>2. \A m \in 1..Len(s) : h.chunk[s[m]].size # nb
      BY <2>1, <3>1
    <3> QED BY <2>3, <3>2
  <2> QED BY <1>11, <2>1, <2>2, <2>4 DEF SortedOut
<1>12. CASE r.p # Null
  BY <1>10, <1>12 DEF Sorting, SortedOut
<1> QED BY <1>11, <1>12

-----------------------------------------------------------------------------
(* malloc: the bins *)

\* p is handed out, or its front.
LEMMA CarveIsOK ==
  ASSUME NEW h, NEW U, HeapOK(h, U, {}), h.bins[unsorted] = <<>>, NEW p \in Free(h),
         NEW nb, IsSize(nb), h.chunk[p].size >= nb, NEW r, r = Carve(h, p, nb)
  PROVE  Given(h, r, U, nb) /\ r.p = p
<1> DEFINE u == unlink(h, p)
           size == h.chunk[p].size
<1>1. /\ HeapOK(u, U, {p}) /\ SameBut(h, u, {"bins"}) /\ Loses(h.bins, u.bins, p)
  BY UnlinkedIsOK
<1>2. r = IF size - nb < 16 THEN Exhaust(u, p) ELSE SplitChunk(u, p, nb)
  BY DEF Carve, MINSIZE
<1>3. /\ size \in Nat /\ size >= nb /\ nb \in Nat /\ h.anychunks
      /\ p \in DOMAIN h.chunk /\ p \notin U /\ DOMAIN h = Fields
  BY FreeIs DEF IsSize
<1> HIDE DEF u
<1>4. u.chunk = h.chunk /\ u.anychunks
  BY <1>1, <1>3 DEF SameBut, Fields
<1>5. U \subseteq DOMAIN h.chunk
  <2>1. Tiled(u.chunk, u.top, u.curptr, Free(u) \cup {p}, U \cup FastChunks(u))
    BY <1>1, TransitIs
  <2> QED BY <2>1, <1>4 DEF Tiled
<1>6. u.bins[unsorted] = <<>>
  <2>1. Lists(h.bins, Bins) /\ unsorted \in Bins
    BY BinsAreNumbers DEF HeapOK, Shaped
  <2>2. DOMAIN h.bins = Bins
    BY <2>1, ListFacts
  <2>3. PICK i \in Bins : \E k \in 1..Len(h.bins[i]) :
          \A j \in Bins \ {i} : u.bins[j] = h.bins[j]
    BY <1>1, <2>2 DEF Loses
  <2>4. PICK k \in 1..Len(h.bins[i]) : \A j \in Bins \ {i} : u.bins[j] = h.bins[j]
    BY <2>3
  <2>5. i # unsorted
    BY <2>4
  <2> QED BY <2>1, <2>4, <2>5
<1>7. CASE size - nb < 16
  <2>1. r = Exhaust(u, p)
    BY <1>2, <1>7
  <2>2. r.p = p /\ HeapOK(r.h, U \cup {p}, {}) /\ Keeps(u, r.h, DOMAIN u.chunk)
        /\ SameBut(u, r.h, {"chunk"})
    BY <1>1, <2>1, ExhaustIsOK
  <2>3. SameBut(h, r.h, SearchFields)
    BY <1>1, <2>2 DEF SameBut, SearchFields
  <2>4. Keeps(h, r.h, U) /\ r.h.chunk[p].size = size
    BY <1>3, <1>4, <1>5, <2>2 DEF Keeps
  <2>5. r.h.chunk[r.p].size >= nb
    BY <1>3, <2>2, <2>4
  <2>6. HeapOK(r.h, U \cup {r.p}, {}) /\ r.p \in Free(h)
    BY <2>2, Zenon
  <2> QED BY <2>2, <2>3, <2>4, <2>5, <2>6 DEF Given
<1>8. CASE ~(size - nb < 16)
  <2>1. r = SplitChunk(u, p, nb) /\ u.chunk[p].size - nb >= 16
    BY <1>2, <1>3, <1>4, <1>8
  <2>2. Spare(u, p, nb)
    BY <1>4, <1>6, <2>1 DEF Spare
  <2>3. Shortened(u, r, U, p, nb)
    BY <1>1, <2>1, <2>2, SplitIsOK
  <2>4. /\ r.p = p /\ HeapOK(r.h, U \cup {p}, {}) /\ Keeps(u, r.h, DOMAIN u.chunk \ {p})
        /\ r.h.chunk[p].size = nb /\ SameBut(u, r.h, {"chunk", "bins", "last_remainder"})
    BY <2>3 DEF Shortened
  <2>5. SameBut(h, r.h, SearchFields)
    BY <1>1, <2>4 DEF SameBut, SearchFields
  <2>6. Keeps(h, r.h, U)
    BY <1>3, <1>4, <1>5, <2>4 DEF Keeps
  <2>7. r.h.chunk[r.p].size >= nb
    BY <1>3, <2>4
  <2>8. HeapOK(r.h, U \cup {r.p}, {}) /\ r.p \in Free(h)
    BY <2>4, Zenon
  <2> QED BY <2>4, <2>5, <2>6, <2>7, <2>8 DEF Given
<1> QED BY <1>7, <1>8

\* q is in the bin of its size.
InPlace(h, q) ==
  LET i == bin_index(h.chunk[q].size) IN i \in Bins \ {unsorted} /\ q \in ToSet(h.bins[i])

LEMMA AllInPlace ==
  ASSUME NEW h, NEW U, HeapOK(h, U, {}), NEW q \in Free(h), q \notin ToSet(h.bins[unsorted])
  PROVE  InPlace(h, q)
<1>1. Lists(h.bins, Bins) /\ Free(h) = Held(h.bins) /\ Sorted(h)
  BY HeldIs DEF HeapOK, Shaped
<1>2. PICK i \in Bins : q \in ToSet(h.bins[i])
  BY <1>1, ListFacts
<1> QED BY <1>1, <1>2 DEF Sorted, InPlace

LEMMA NoneUnsorted ==
  ASSUME NEW h, h.bins[unsorted] = <<>>, NEW q
  PROVE  q \notin ToSet(h.bins[unsorted])
BY DEF ToSet

\* A chunk in a higher bin is larger.
LEMMA HigherIsLarger ==
  ASSUME NEW a \in Nat, NEW b \in Nat, bin_index(a) < bin_index(b)
  PROVE  a < b
<1>1. bin_index(a) \in Nat /\ bin_index(b) \in Nat
  BY SmallIs
<1>2. b <= a => bin_index(b) <= bin_index(a)
  BY BinGrows
<1> QED BY <1>1, <1>2

\* The smallest free chunk that is long enough
Fits(h, p, nb) ==
  /\ p \in Free(h) /\ h.chunk[p].size >= nb
  /\ \A q \in Free(h) : h.chunk[q].size >= nb => h.chunk[p].size <= h.chunk[q].size

\* No chunk of the bin of nb is long enough.
NoneHere(h, nb) == \A q \in ToSet(binof(h, nb)) : h.chunk[q].size < nb

LEMMA LastOf ==
  ASSUME NEW n \in Nat, NEW T \in SUBSET (1..n), T # {}
  PROVE  Max(T) \in T /\ \A m \in T : m <= Max(T)
<1>1. IsFiniteSet(T) /\ T \in SUBSET Int
  <2>1. IsFiniteSet(1..n) /\ 1..n \subseteq Int
    BY FS_Interval
  <2> DEFINE S == 1..n
  <2>2. IsFiniteSet(S) /\ T \in SUBSET S /\ S \subseteq Int
    BY <2>1
  <2> HIDE DEF S
  <2>3. IsFiniteSet(T)
    BY <2>2, FS_Subset
  <2> QED BY <2>2, <2>3
<1>2. \E x \in T : \A y \in T : x >= y
  BY <1>1, FiniteHasMax
<1>3. Max(T) \in T /\ \A m \in T : Max(T) >= m
  BY <1>2 DEF Max
<1> QED BY <1>1, <1>3

\* The scan of a large bin finds the smallest chunk that fits.
LEMMA ScanLargeIs ==
  ASSUME NEW h, NEW U, HeapOK(h, U, {}), h.bins[unsorted] = <<>>,
         NEW nb, IsSize(nb), ~in_smallbin_range(nb), NEW x, x = ScanLarge(h, nb)
  PROVE  IF x = Null THEN NoneHere(h, nb) ELSE Fits(h, x, nb)
<1> DEFINE s == binof(h, nb)
           j == bin_index(nb)
           w(q) == h.chunk[q].size
           I == {m \in 1..Len(s) : w(s[m]) >= nb}
           n == Len(s)
           at == Max(I)
<1>1. nb \in Nat /\ nb >= 16
  BY DEF IsSize
<1>2. x = IF I = {} \/ at = 0 THEN Null ELSE s[at]
  BY DEF ScanLarge, SelectLastInSeq, Null
<1>3. Lists(h.bins, Bins) /\ Sorted(h) /\ Free(h) = Held(h.bins) /\ j \in Nat /\ j >= 2
  BY <1>1, HeldIs, SmallIs DEF HeapOK, Shaped
<1>4. /\ s \in Seq(Nat) /\ ToSet(s) \subseteq Free(h) /\ Descending(h.chunk, s)
      /\ \A q \in ToSet(s) : bin_index(w(q)) = j
  <2>1. CASE j \in Bins
    <3>1. s = h.bins[j] /\ j \in Bins \ {unsorted}
      BY <2>1, <1>3 DEF binof, unsorted
    <3>2. h.bins[j] \in Seq(Nat) /\ ToSet(h.bins[j]) \subseteq Free(h)
      BY <1>3, <2>1, ListFacts
    <3>3. Descending(h.chunk, h.bins[j]) /\ \A q \in ToSet(h.bins[j]) : bin_index(w(q)) = j
      BY <1>3, <3>1 DEF Sorted
    <3> QED BY <3>1, <3>2, <3>3
  <2>2. CASE j \notin Bins
    <3>1. s = <<>> /\ s \in Seq(Nat)
      BY <2>2 DEF binof
    <3>2. ToSet(s) = {} /\ DOMAIN s = {}
      BY <3>1 DEF ToSet
    <3> QED BY <3>1, <3>2 DEF Descending
  <2> QED BY <2>1, <2>2
<1>5. /\ n \in Nat /\ DOMAIN s = 1..n
      /\ \A q : q \in ToSet(s) <=> \E m \in 1..n : s[m] = q
  BY <1>4, SeqFacts
<1>6. \A q \in Free(h) : w(q) \in Nat /\ q \in Nat /\ q > 32
  BY FreeIs
<1>7. \A m \in 1..n : s[m] \in Free(h) /\ w(s[m]) \in Nat
  BY <1>4, <1>5, <1>6
<1>8. \A m \in 1..n : m \in I <=> w(s[m]) >= nb
  OBVIOUS
<1>9. \A k, m \in 1..n : k < m => w(s[m]) <= w(s[k])
  BY <1>4, <1>5 DEF Descending
<1>10. I \in SUBSET (1..n)
  OBVIOUS
<1>11. \A q \in Free(h) : InPlace(h, q)
  BY AllInPlace, NoneUnsorted
<1> HIDE DEF I, n, s, at
<1>12. CASE I = {}
  <2>1. \A q \in ToSet(s) : w(q) < nb
    BY <1>1, <1>5, <1>7, <1>8, <1>12
  <2> QED BY <1>2, <1>12, <2>1 DEF NoneHere, s
<1>13. CASE I # {}
  <2>1. x = s[at] /\ at \in I /\ \A m \in I : m <= at
    <3>1. at \in I /\ \A m \in I : m <= at
      BY <1>5, <1>10, <1>13, LastOf DEF at
    <3>2. at # 0
      BY <1>5, <1>10, <3>1
    <3> QED BY <1>2, <1>13, <3>1, <3>2
  <2>2. at \in 1..n /\ w(x) >= nb /\ x \in Free(h) /\ w(x) \in Nat /\ x \in ToSet(s)
    BY <1>5, <1>7, <1>8, <1>10, <2>1
  <2>3. bin_index(w(x)) = j
    BY <1>4, <2>2
  <2>4. ASSUME NEW q \in Free(h), w(q) >= nb PROVE w(x) <= w(q)
    <3> DEFINE i == bin_index(w(q))
    <3>1. w(q) \in Nat /\ i \in Nat /\ j <= i /\ i \in Bins /\ q \in ToSet(h.bins[i])
      BY <1>1, <1>6, <1>11, <2>4, BinGrows, SmallIs DEF InPlace
    <3>2. CASE i = j
      <4>1. q \in ToSet(s)
        BY <3>1, <3>2 DEF s, binof
      <4>2. PICK m \in 1..n : s[m] = q
        BY <1>5, <4>1
      <4>3. m <= at
        BY <1>8, <2>1, <2>4, <4>2
      <4>4. m = at \/ w(s[at]) <= w(s[m])
        BY <1>9, <2>2, <4>3
      <4> HIDE DEF w
      <4> QED BY <2>1, <2>2, <4>2, <4>4
    <3>3. CASE i # j
      <4>1. bin_index(w(x)) < bin_index(w(q))
        BY <1>3, <2>3, <3>1, <3>3
      <4>2. w(x) < w(q)
        BY <2>2, <3>1, <4>1, HigherIsLarger
      <4> QED BY <2>2, <3>1, <4>2
    <3> QED BY <3>2, <3>3
  <2>5. x # Null
    BY <1>6, <2>2 DEF Null
  <2> QED BY <2>2, <2>4, <2>5 DEF Fits
<1> QED BY <1>12, <1>13

-----------------------------------------------------------------------------
(* malloc: the best chunk *)

NoFit(h, nb) == \A q \in Free(h) : h.chunk[q].size < nb

\* Marks of empty bins are dropped.
LEMMA Unmarked ==
  ASSUME NEW h, NEW U, HeapOK(h, U, {}), NEW g, SameBut(h, g, {"binmap"}),
         g.binmap \subseteq h.binmap,
         \A i \in Bins : h.bins[i] # <<>> /\ i \in h.binmap => i \in g.binmap
  PROVE  Passed(h, g, U)
<1>1. Shaped(h) /\ Laid(h, U, {}) /\ Sorted(h) /\ FastSorted(h)
      /\ (Free(h) \cup FastChunks(h) # {} => h.anychunks)
  BY DEF HeapOK
<1>2. /\ g.max_fast = h.max_fast /\ g.anychunks = h.anychunks /\ g.fastchunks = h.fastchunks
      /\ g.fastbins = h.fastbins /\ g.bins = h.bins /\ g.top = h.top
      /\ g.chunk = h.chunk /\ g.curptr = h.curptr /\ DOMAIN g = Fields
  BY DEF SameBut, Fields
<1>3. Shaped(g)
  BY <1>1, <1>2 DEF Shaped
<1>4. Free(g) = Free(h) /\ FastChunks(g) = FastChunks(h)
  BY <1>2 DEF Free, FastChunks
<1>5. Laid(g, U, {})
  BY <1>1, <1>2, <1>4 DEF Laid
<1>6. Sorted(g)
  BY <1>1, <1>2 DEF Sorted
<1>7. FastSorted(g)
  BY <1>1, <1>2 DEF FastSorted
<1>8. HeapOK(g, U, {})
  BY <1>1, <1>2, <1>3, <1>4, <1>5, <1>6, <1>7 DEF HeapOK
<1>9. SameBut(h, g, {"bins", "binmap"})
  BY DEF SameBut
<1> QED BY <1>4, <1>8, <1>9 DEF Passed

\* The scan of the map of bins finds the smallest chunk that fits.
Mapped(h, m, U, nb) ==
  /\ Passed(h, m.h, U) /\ SameBut(h, m.h, {"binmap"})
  /\ IF m.p = Null THEN NoFit(h, nb) ELSE Fits(h, m.p, nb)

LEMMA ScanMapIs ==
  ASSUME NEW h, NEW U, HeapOK(h, U, {}), h.bins[unsorted] = <<>>,
         NEW nb, IsSize(nb), NoneHere(h, nb), NEW x, x = ScanMap(h, nb)
  PROVE  Mapped(h, x, U, nb)
<1> DEFINE j == bin_index(nb)
           marked == {i \in h.binmap : i > j}
           full == {i \in marked : h.bins[i] # <<>>}
           passed == {i \in marked : \A k \in full : i < k}
           g == [h EXCEPT !.binmap = @ \ passed]
           l == Min(full)
           s == h.bins[l]
           w(q) == h.chunk[q].size
<1>1. /\ x.h = g /\ x.p = IF full = {} THEN Null ELSE Last(s)
  BY DEF ScanMap
<1>2. /\ Lists(h.bins, Bins) /\ Sorted(h) /\ Free(h) = Held(h.bins) /\ j \in Nat
      /\ DOMAIN h = Fields /\ h.binmap \subseteq Bins /\ nb \in Nat
  BY HeldIs, SmallIs DEF HeapOK, Shaped, IsSize
<1>3. h.binmap \subseteq Nat
  BY <1>2, BinsAreNumbers
<1>4. Passed(h, g, U) /\ SameBut(h, g, {"binmap"})
  <2>1. SameBut(h, g, {"binmap"}) /\ g.binmap = h.binmap \ passed
    BY <1>2 DEF SameBut, Fields
  <2>2. \A i \in Bins : h.bins[i] # <<>> /\ i \in h.binmap => i \notin passed
    <3> SUFFICES ASSUME NEW i \in Bins, h.bins[i] # <<>>, i \in h.binmap, i \in passed PROVE FALSE
      OBVIOUS
    <3>1. i \in marked /\ \A k \in full : i < k
      OBVIOUS
    <3>2. i \in full
      BY <3>1
    <3>3. i \in Nat /\ i < i
      BY <1>3, <3>1, <3>2
    <3> QED BY <3>3
  <2> HIDE DEF g, passed
  <2>3. g.binmap \subseteq h.binmap
        /\ \A i \in Bins : h.bins[i] # <<>> /\ i \in h.binmap => i \in g.binmap
    BY <2>1, <2>2
  <2> QED BY <2>1, <2>3, Unmarked
<1>5. \A q \in Free(h) : /\ w(q) \in Nat /\ w(q) >= 16 /\ q \in Nat /\ q > 32
  BY FreeIs
<1>6. \A q \in Free(h) : InPlace(h, q)
  BY AllInPlace, NoneUnsorted
<1>7. ASSUME NEW q \in Free(h), w(q) >= nb
      PROVE  bin_index(w(q)) \in full /\ q \in ToSet(h.bins[bin_index(w(q))])
  <2> DEFINE i == bin_index(w(q))
  <2>1. /\ i \in Bins \ {unsorted} /\ q \in ToSet(h.bins[i]) /\ i \in Nat /\ j <= i
    BY <1>2, <1>5, <1>6, <1>7, BinGrows, SmallIs DEF InPlace
  <2>2. h.bins[i] # <<>>
    BY <2>1 DEF ToSet
  <2>3. i \in h.binmap
    BY <1>2, <2>1, <2>2 DEF Sorted
  <2>4. i # j
    <3>1. ASSUME i = j PROVE FALSE
      <4>1. q \in ToSet(binof(h, nb))
        BY <2>1, <3>1 DEF binof
      <4>2. w(q) < nb
        BY <4>1 DEF NoneHere
      <4> QED BY <1>2, <1>5, <1>7, <4>2
    <3> QED BY <3>1
  <2>5. i \in full
    <3> HIDE DEF i
    <3> QED BY <2>1, <2>2, <2>3, <2>4, <1>2
  <2> QED BY <2>1, <2>5
<1>8. full \in SUBSET Nat /\ \A i \in full : i \in Bins /\ i > j /\ h.bins[i] # <<>>
  BY <1>2, <1>3
<1> HIDE DEF full, g, s, l, w
<1>9. CASE full = {}
  <2>1. NoFit(h, nb)
    BY <1>2, <1>5, <1>7, <1>9 DEF NoFit, w
  <2> QED BY <1>1, <1>4, <1>9, <2>1 DEF Mapped
<1>10. CASE full # {}
  <2>1. l \in full /\ \A i \in full : l <= i
    BY <1>8, <1>10, LeastIs DEF l
  <2>2. l \in Nat /\ l \in Bins /\ l > j /\ s # <<>> /\ l # unsorted
    <3>1. h.bins[unsorted] = <<>>
      OBVIOUS
    <3> QED BY <1>8, <2>1, <3>1 DEF s
  <2>3. s \in Seq(Nat) /\ ToSet(s) \subseteq Free(h)
    BY <1>2, <2>2, ListFacts DEF s
  <2>4. Descending(h.chunk, s) /\ \A q \in ToSet(s) : bin_index(w(q)) = l
    BY <1>2, <2>2 DEF Sorted, s, w
  <2> DEFINE n == Len(s)
             p == s[n]
  <2>5. /\ n \in Nat /\ n # 0 /\ DOMAIN s = 1..n
        /\ \A q : q \in ToSet(s) <=> \E m \in 1..n : s[m] = q
    BY <2>2, <2>3, SeqFacts
  <2>6. x.p = p
    BY <1>1, <1>10 DEF Last
  <2> HIDE DEF n
  <2>7. n \in 1..n /\ p \in ToSet(s) /\ p \in Free(h) /\ w(p) \in Nat /\ bin_index(w(p)) = l
    BY <1>5, <2>3, <2>4, <2>5
  <2>8. w(p) >= nb /\ p # Null
    <3>1. nb < w(p)
      BY <1>2, <2>2, <2>7, HigherIsLarger
    <3> QED BY <1>2, <1>5, <2>7, <3>1 DEF Null
  <2>9. ASSUME NEW q \in Free(h), w(q) >= nb PROVE w(p) <= w(q)
    <3> DEFINE i == bin_index(w(q))
    <3>1. i \in full /\ q \in ToSet(h.bins[i]) /\ w(q) \in Nat /\ l <= i /\ i \in Nat
      BY <1>5, <1>7, <1>8, <2>1, <2>9
    <3>2. CASE i = l
      <4>1. q \in ToSet(s)
        BY <3>1, <3>2 DEF s
      <4>2. PICK m \in 1..n : s[m] = q
        BY <2>5, <4>1
      <4>3. m < n => w(s[n]) <= w(s[m])
        BY <2>4, <2>5, <2>7 DEF Descending, w
      <4>4. m = n \/ m < n
        BY <2>5
      <4> QED BY <2>7, <4>2, <4>3, <4>4
    <3>3. CASE i # l
      <4>1. bin_index(w(p)) < bin_index(w(q))
        BY <2>2, <2>7, <3>1, <3>3
      <4>2. w(p) < w(q)
        BY <2>7, <3>1, <4>1, HigherIsLarger
      <4> QED BY <2>7, <3>1, <4>2
    <3> QED BY <3>2, <3>3
  <2>10. Fits(h, p, nb)
    BY <2>7, <2>8, <2>9 DEF Fits, w
  <2> HIDE DEF p
  <2> QED BY <1>1, <1>4, <2>6, <2>8, <2>10 DEF Mapped
<1> QED BY <1>9, <1>10

\* The search of the bins
Searched(h, r, U, nb) ==
  IF r.p = Null THEN Passed(h, r.h, U) /\ NoFit(h, nb)
  ELSE Given(h, r, U, nb) /\ (Fits(h, r.p, nb) \/ Remainder(h, r.p))

LEMMA GivenAfter ==
  ASSUME NEW h, NEW g, NEW r, NEW U, NEW nb, Passed(h, g, U), Given(g, r, U, nb)
  PROVE  Given(h, r, U, nb)
<1>1. /\ HeapOK(r.h, U \cup {r.p}, {}) /\ r.p \in Free(g) /\ Keeps(g, r.h, U)
      /\ r.h.chunk[r.p].size >= nb /\ SameBut(g, r.h, SearchFields)
  BY DEF Given
<1>2. Free(g) = Free(h) /\ SameBut(h, g, {"bins", "binmap"})
  BY DEF Passed
<1>3. g.chunk = h.chunk
  BY <1>2 DEF SameBut, Fields
<1>4. SameBut(h, r.h, SearchFields)
  BY <1>1, <1>2 DEF SameBut, SearchFields
<1>5. Keeps(h, r.h, U)
  BY <1>1, <1>3 DEF Keeps
<1> QED BY <1>1, <1>2, <1>4, <1>5 DEF Given

LEMMA PassedTwice ==
  ASSUME NEW h, NEW g, NEW k, NEW U, Passed(h, g, U), Passed(g, k, U)
  PROVE  Passed(h, k, U)
<1>1. SameBut(h, k, {"bins", "binmap"})
  BY DEF Passed, SameBut
<1> QED BY <1>1 DEF Passed

\* Nothing of a small size is in its bin.
Ready(h, nb) == in_smallbin_range(nb) => binof(h, nb) = <<>>

LEMMA BestChunkIsOK ==
  ASSUME NEW h, NEW U, HeapOK(h, U, {}), NEW nb, IsSize(nb), Ready(h, nb),
         NEW r, r = BestChunk(h, nb)
  PROVE  Searched(h, r, U, nb)
<1> DEFINE a == SortUnsorted(h, nb)
           g == a.h
           large == ScanLarge(g, nb)
           map == ScanMap(g, nb)
<1>1. SortedOut(h, a, U, nb)
  BY SortIsOK
<1>2. r = IF a.p # Null THEN a
          ELSE IF large # Null THEN Carve(g, large, nb)
          ELSE IF map.p # Null THEN Carve(map.h, map.p, nb)
          ELSE Found(map.h, Null)
  BY DEF BestChunk
<1>3. nb \in Nat /\ nb >= 16 /\ nb % 8 = 0
  BY DEF IsSize
<1> HIDE DEF a
<1>4. CASE a.p # Null
  <2>1. r = a /\ Given(h, a, U, nb) /\ (h.chunk[a.p].size = nb \/ Remainder(h, a.p))
    BY <1>1, <1>2, <1>4 DEF SortedOut
  <2>2. h.chunk[a.p].size = nb => Fits(h, a.p, nb)
    BY <1>3, <2>1 DEF Given, Fits
  <2> QED BY <1>4, <2>1, <2>2 DEF Searched
<1>5. CASE a.p = Null
  <2>1. /\ Passed(h, g, U) /\ g.bins[unsorted] = <<>>
        /\ \A q \in ToSet(h.bins[unsorted]) : h.chunk[q].size # nb
    BY <1>1, <1>5 DEF SortedOut
  <2>2. HeapOK(g, U, {}) /\ Free(g) = Free(h) /\ SameBut(h, g, {"bins", "binmap"})
    BY <2>1 DEF Passed
  <2>3. g.chunk = h.chunk
    BY <2>2 DEF SameBut, Fields
  <2> HIDE DEF g
  <2>4. \A p : (Fits(g, p, nb) <=> Fits(h, p, nb)) /\ (NoFit(g, nb) <=> NoFit(h, nb))
    BY <2>2, <2>3 DEF Fits, NoFit
  <2>5. in_smallbin_range(nb) => NoneHere(g, nb)
    <3> SUFFICES ASSUME in_smallbin_range(nb), NEW q \in ToSet(binof(g, nb)) PROVE FALSE
      BY DEF NoneHere
    <3> DEFINE j == bin_index(nb)
               size == h.chunk[q].size
    <3>1. Lists(g.bins, Bins) /\ Sorted(g) /\ Free(g) = Held(g.bins) /\ j \in Nat /\ j >= 2
      BY <1>3, <2>2, HeldIs, SmallIs DEF HeapOK, Shaped
    <3>2. j \in Bins /\ q \in ToSet(g.bins[j]) /\ j # unsorted
      BY <3>1 DEF binof, ToSet, unsorted
    <3>3. q \in Free(h) /\ bin_index(size) = j
      <4>1. q \in Free(g)
        BY <3>1, <3>2, ListFacts
      <4> QED BY <2>2, <2>3, <3>1, <3>2, <4>1 DEF Sorted
    <3>4. size \in Nat /\ size >= 16 /\ size % 8 = 0
      BY <3>3, FreeIs
    <3>5. size = nb
      <4> HIDE DEF size
      <4> QED BY <1>3, <3>3, <3>4, SmallSizes
    <3>6. q \notin ToSet(h.bins[unsorted])
      BY <2>1, <3>5
    <3>7. InPlace(h, q)
      BY <3>3, <3>6, AllInPlace
    <3>8. q \in ToSet(binof(h, nb))
      BY <3>2, <3>5, <3>7 DEF InPlace, binof
    <3>9. binof(h, nb) = <<>>
      BY DEF Ready
    <3> QED BY <3>8, <3>9 DEF ToSet
  <2>6. IF large = Null THEN NoneHere(g, nb) ELSE Fits(g, large, nb)
    <3>1. CASE in_smallbin_range(nb)
      <4>1. large = Null
        BY <3>1 DEF ScanLarge
      <4> QED BY <2>5, <3>1, <4>1
    <3>2. CASE ~in_smallbin_range(nb)
      BY <2>1, <2>2, <3>2, ScanLargeIs
    <3> QED BY <3>1, <3>2
  <2> HIDE DEF large, map
  <2>7. CASE large # Null
    <3>1. large \in Free(g) /\ g.chunk[large].size >= nb /\ Fits(h, large, nb)
      BY <2>4, <2>6, <2>7 DEF Fits
    <3>2. r = Carve(g, large, nb)
      BY <1>2, <1>5, <2>7
    <3>3. Given(g, r, U, nb) /\ r.p = large
      BY <2>1, <2>2, <3>1, <3>2, CarveIsOK
    <3>4. Given(h, r, U, nb)
      BY <2>1, <3>3, GivenAfter
    <3> QED BY <2>7, <3>1, <3>3, <3>4 DEF Searched
  <2>8. CASE large = Null
    <3>1. NoneHere(g, nb)
      BY <2>6, <2>8
    <3>2. Mapped(g, map, U, nb)
      BY <2>1, <2>2, <3>1, ScanMapIs DEF map
    <3>3. /\ Passed(g, map.h, U) /\ SameBut(g, map.h, {"binmap"})
          /\ IF map.p = Null THEN NoFit(g, nb) ELSE Fits(g, map.p, nb)
      BY <3>2 DEF Mapped
    <3>4. Passed(h, map.h, U)
      BY <2>1, <3>3, PassedTwice
    <3>5. CASE map.p = Null
      <4>1. r.h = map.h /\ r.p = Null
        BY <1>2, <1>5, <2>8, <3>5 DEF Found
      <4> QED BY <2>4, <3>3, <3>4, <3>5, <4>1 DEF Searched
    <3>6. CASE map.p # Null
      <4> DEFINE k == map.h
                 p == map.p
      <4>1. r = Carve(k, p, nb)
        BY <1>2, <1>5, <2>8, <3>6
      <4>2. Fits(g, p, nb) /\ Fits(h, p, nb)
        BY <2>4, <3>3, <3>6
      <4>3. HeapOK(k, U, {}) /\ Free(k) = Free(g) /\ k.chunk = g.chunk /\ k.bins = g.bins
        BY <3>3 DEF Passed, SameBut, Fields
      <4> HIDE DEF k, p
      <4>4. p \in Free(k) /\ k.chunk[p].size >= nb /\ k.bins[unsorted] = <<>>
        BY <2>1, <4>2, <4>3 DEF Fits
      <4>5. Given(k, r, U, nb) /\ r.p = p
        BY <4>1, <4>3, <4>4, CarveIsOK
      <4>6. Given(h, r, U, nb)
        BY <3>4, <4>5, GivenAfter DEF k
      <4> QED BY <3>6, <4>2, <4>5, <4>6 DEF Searched, p
    <3> QED BY <3>5, <3>6
  <2> QED BY <2>7, <2>8
<1> QED BY <1>4, <1>5

-----------------------------------------------------------------------------
(* malloc: the lists *)

\* A chunk of nb bytes is handed out.
Gave(h, r, U, nb) ==
  /\ HeapOK(r.h, U \cup {r.p}, {}) /\ Known(r.h) /\ Keeps(h, r.h, U)
  /\ r.p \notin U /\ r.h.chunk[r.p].size >= nb

\* No free chunk is long enough.
Refused(h, r, U, nb) ==
  /\ HeapOK(r.h, U, {}) /\ Known(r.h) /\ Keeps(h, r.h, U)
  /\ NoFit(r.h, nb) /\ r.h.max_fast # 0

LEMMA GivenIsGave ==
  ASSUME NEW h, NEW g, NEW r, NEW U, NEW nb, HeapOK(g, U, {}), Known(g), Keeps(h, g, U),
         Given(g, r, U, nb)
  PROVE  Gave(h, r, U, nb) /\ r.p # Null
<1>1. /\ HeapOK(r.h, U \cup {r.p}, {}) /\ r.p \in Free(g) /\ Keeps(g, r.h, U)
      /\ r.h.chunk[r.p].size >= nb /\ SameBut(g, r.h, SearchFields)
  BY DEF Given
<1>2. r.p \notin U /\ r.p # Null
  BY <1>1, FreeIs DEF Null
<1>3. Known(r.h)
  BY <1>1 DEF Known, FastChunks, SameBut, SearchFields, Fields
<1>4. Keeps(h, r.h, U)
  BY <1>1 DEF Keeps
<1> QED BY <1>1, <1>2, <1>3, <1>4 DEF Gave

LEMMA PassedIsRefused ==
  ASSUME NEW h, NEW g, NEW r, NEW U, NEW nb, g.max_fast # 0, Known(g), Keeps(h, g, U),
         Passed(g, r.h, U), NoFit(g, nb)
  PROVE  Refused(h, r, U, nb) /\ r.h.fastchunks = g.fastchunks
<1> DEFINE k == r.h
<1>1. HeapOK(k, U, {}) /\ Free(k) = Free(g) /\ SameBut(g, k, {"bins", "binmap"})
  BY DEF Passed
<1> HIDE DEF k
<1>2. /\ k.max_fast = g.max_fast /\ k.fastchunks = g.fastchunks /\ k.fastbins = g.fastbins
      /\ k.chunk = g.chunk
  BY <1>1 DEF SameBut, Fields
<1>3. Known(k) /\ Keeps(h, k, U) /\ NoFit(k, nb)
  BY <1>1, <1>2 DEF Known, FastChunks, Keeps, NoFit
<1> QED BY <1>1, <1>2, <1>3 DEF Refused, k

\* What is found in the lists
Listed(h, r, U, nb) ==
  IF r.p = Null
  THEN Refused(h, r, U, nb) /\ (~h.fastchunks => ~r.h.fastchunks /\ NoFit(h, nb))
  ELSE Gave(h, r, U, nb) /\ (~h.fastchunks => Fits(h, r.p, nb) \/ Remainder(h, r.p))

\* The heap is set up, if it is not yet.
LEMMA SetUpIsOK ==
  ASSUME NEW h, NEW U, HeapOK(h, U, {}), Known(h), ~h.anychunks, NEW nb,
         NEW r, r = Found(IF h.max_fast = 0 THEN malloc_init_state(h) ELSE h, Null)
  PROVE  Listed(h, r, U, nb)
<1> DEFINE g == malloc_init_state(h)
<1>1. /\ Shaped(h) /\ Laid(h, U, {}) /\ Sorted(h) /\ FastSorted(h) /\ DOMAIN h = Fields
      /\ Free(h) = {} /\ FastChunks(h) = {}
  BY DEF HeapOK, Shaped
<1>2. r.p = Null /\ r.h = IF h.max_fast = 0 THEN g ELSE h
  BY DEF Found
<1>3. SameBut(h, g, {"max_fast", "top"}) /\ g.top = initial_top
      /\ g.max_fast = request2size(DEFAULT_MXFAST) /\ g.max_fast # 0
  <2>1. SameBut(h, g, {"max_fast", "top"}) /\ g.top = initial_top
        /\ g.max_fast = request2size(DEFAULT_MXFAST)
    BY <1>1 DEF malloc_init_state, SameBut, Fields
  <2>2. request2size(DEFAULT_MXFAST) # 0
    BY FastIs
  <2> QED BY <2>1, <2>2
<1> HIDE DEF g
<1>4. /\ g.fastbins = h.fastbins /\ g.bins = h.bins /\ g.chunk = h.chunk /\ DOMAIN g = Fields
      /\ g.curptr = h.curptr /\ g.binmap = h.binmap /\ g.anychunks = h.anychunks
      /\ g.fastchunks = h.fastchunks
  BY <1>3 DEF SameBut, Fields
<1>5. Free(g) = {} /\ FastChunks(g) = {}
  BY <1>1, <1>4 DEF Free, FastChunks
<1>6. CASE h.max_fast = 0
  <2>1. r.h = g
    BY <1>2, <1>6
  <2>2. Laid(g, U, {})
    <3>1. DOMAIN h.chunk = {} /\ U = {} /\ h.curptr = mem_heap
          /\ h.chunk \in [DOMAIN h.chunk -> Header]
      BY <1>1, <1>6 DEF Laid
    <3> QED BY <1>3, <1>4, <1>5, <3>1 DEF Laid
  <2>3. Shaped(g)
    BY <1>1, <1>3, <1>4 DEF Shaped
  <2>4. Sorted(g)
    BY <1>1, <1>4 DEF Sorted
  <2>5. FastSorted(g)
    <3>1. \A i \in Fastbins : ToSet(g.fastbins[i]) = {}
      BY <1>5 DEF FastChunks
    <3> QED BY <3>1 DEF FastSorted
  <2>6. HeapOK(g, U, {})
    BY <1>5, <2>2, <2>3, <2>4, <2>5 DEF HeapOK
  <2>7. Known(g) /\ Keeps(h, g, U) /\ NoFit(g, nb) /\ NoFit(h, nb)
    BY <1>1, <1>4, <1>5 DEF Known, Keeps, NoFit
  <2> QED BY <1>2, <1>3, <1>4, <2>1, <2>6, <2>7 DEF Listed, Refused
<1>7. CASE h.max_fast # 0
  <2>1. r.h = h
    BY <1>2, <1>7
  <2>2. NoFit(h, nb) /\ Keeps(h, h, U)
    BY <1>1 DEF NoFit, Keeps
  <2> QED BY <1>2, <1>7, <2>1, <2>2 DEF Listed, Refused
<1> QED BY <1>6, <1>7

\* The first chunk of the fastbin of nb is handed out.
LEMMA FromFastbinIsOK ==
  ASSUME NEW h, NEW U, HeapOK(h, U, {}), Known(h), NEW nb, IsSize(nb), nb <= h.max_fast,
         h.fastbins[fastbin_index(nb)] # <<>>, NEW r, r = FromFastbin(h, nb)
  PROVE  Gave(h, r, U, nb) /\ r.p # Null /\ h.fastchunks
<1> DEFINE i == fastbin_index(nb)
           p == h.fastbins[i][1]
           t == Tail(h.fastbins[i])
           g == r.h
<1>1. /\ Shaped(h) /\ DOMAIN h = Fields /\ Lists(h.fastbins, Fastbins)
      /\ nb \in Nat /\ nb >= 16 /\ nb % 8 = 0
  BY DEF HeapOK, Shaped, IsSize
<1>2. i \in Fastbins
  BY <1>1, FastIs DEF Shaped
<1>3. Inserted(t, h.fastbins[i], 1, p)
  <2>1. h.fastbins[i] \in Seq(Nat)
    BY <1>1, <1>2, ListFacts
  <2> HIDE DEF i
  <2> QED BY <2>1, TailIs DEF i
<1>4. g = [h EXCEPT !.fastbins[i] = t] /\ r.p = p
  BY DEF FromFastbin, Found
<1> HIDE DEF g, p, t
<1>5. SameBut(h, g, {"fastbins"}) /\ g.fastbins = Replaced(h.fastbins, i, t)
  BY <1>1, <1>4 DEF SameBut, Fields, Replaced
<1> HIDE DEF i
<1>6. /\ HeapOK(g, U \cup {p}, {}) /\ Without(FastChunks(g), FastChunks(h), p)
      /\ p \notin U /\ p \in FastChunks(h)
      /\ fastbin_index(h.chunk[p].size) = i /\ h.chunk[p].size <= h.max_fast
  BY <1>2, <1>3, <1>5, FastLoses
<1>7. /\ g.chunk = h.chunk /\ g.fastchunks = h.fastchunks /\ g.anychunks = h.anychunks
      /\ g.max_fast = h.max_fast
  BY <1>5 DEF SameBut, Fields
<1>8. h.fastchunks
  BY <1>6 DEF Known
<1>9. p \in Nat /\ p > 32 /\ h.chunk[p].size \in Nat /\ h.chunk[p].size % 8 = 0
  <2>1. Tiled(h.chunk, h.top, h.curptr, Free(h) \cup {}, U \cup FastChunks(h))
    BY <1>6 DEF HeapOK, Laid
  <2>2. Base > 32 /\ Base \in Nat
    BY BaseIs
  <2> QED BY <1>6, <2>1, <2>2 DEF Tiled, Header
<1>10. h.chunk[p].size = nb
  <2> DEFINE a == h.chunk[p].size
  <2>1. a \in Nat /\ a % 8 = 0 /\ fastbin_index(a) = fastbin_index(nb)
    BY <1>6, <1>9 DEF i
  <2> HIDE DEF a
  <2>2. a = nb
    BY <1>1, <2>1, FastIs
  <2> QED BY <2>2 DEF a
<1>11. Keeps(h, g, U) /\ Known(g) /\ g.chunk[p].size >= nb
  BY <1>1, <1>7, <1>8, <1>10 DEF Keeps, Known
<1> QED BY <1>4, <1>6, <1>8, <1>9, <1>11 DEF Gave, Null, g

\* The last chunk of the bin of nb, a small size, is handed out.
LEMMA SmallIsOK ==
  ASSUME NEW h, NEW U, HeapOK(h, U, {}), NEW nb, IsSize(nb), in_smallbin_range(nb),
         NEW s, s = binof(h, nb), s # <<>>, NEW p, p = Last(s),
         NEW r, r = Exhaust(unlink(h, p), p)
  PROVE  Given(h, r, U, nb) /\ Fits(h, p, nb) /\ r.p = p
<1> DEFINE u == unlink(h, p)
           j == bin_index(nb)
           size == h.chunk[p].size
<1>1. nb \in Nat /\ nb >= 16 /\ nb % 8 = 0
  BY DEF IsSize
<1>2. Lists(h.bins, Bins) /\ Sorted(h) /\ Free(h) = Held(h.bins) /\ j \in Nat /\ j >= 2
  BY <1>1, HeldIs, SmallIs DEF HeapOK, Shaped
<1>3. j \in Bins \ {unsorted} /\ s = h.bins[j]
  BY <1>2 DEF binof, unsorted
<1>4. s \in Seq(Nat) /\ ToSet(s) \subseteq Free(h)
  BY <1>2, <1>3, ListFacts
<1>5. p \in ToSet(s)
  BY <1>4, SeqFacts DEF Last
<1>6. p \in Free(h) /\ bin_index(size) = j
  BY <1>2, <1>3, <1>4, <1>5 DEF Sorted
<1>7. /\ size \in Nat /\ size >= 16 /\ size % 8 = 0 /\ p \in DOMAIN h.chunk /\ p \notin U
      /\ DOMAIN h = Fields
  BY <1>6, FreeIs
<1>8. size = nb
  <2> HIDE DEF size
  <2> QED BY <1>1, <1>6, <1>7, SmallSizes
<1>9. /\ HeapOK(u, U, {p}) /\ SameBut(h, u, {"bins"})
  BY <1>6, UnlinkedIsOK
<1>10. r = Exhaust(u, p)
  OBVIOUS
<1> HIDE DEF u
<1>11. u.chunk = h.chunk
  BY <1>9 DEF SameBut, Fields
<1>12. U \subseteq DOMAIN h.chunk
  <2>1. Tiled(u.chunk, u.top, u.curptr, Free(u) \cup {p}, U \cup FastChunks(u))
    BY <1>9, TransitIs
  <2> QED BY <2>1, <1>11 DEF Tiled
<1>13. r.p = p /\ HeapOK(r.h, U \cup {p}, {}) /\ Keeps(u, r.h, DOMAIN u.chunk)
       /\ SameBut(u, r.h, {"chunk"})
  BY <1>9, <1>10, ExhaustIsOK
<1>14. SameBut(h, r.h, SearchFields)
  BY <1>9, <1>13 DEF SameBut, SearchFields
<1>15. Keeps(h, r.h, U) /\ r.h.chunk[r.p].size >= nb
  BY <1>1, <1>7, <1>8, <1>11, <1>12, <1>13 DEF Keeps
<1>16. HeapOK(r.h, U \cup {r.p}, {}) /\ r.p \in Free(h)
  BY <1>6, <1>13, Zenon
<1>17. Fits(h, p, nb)
  BY <1>1, <1>6, <1>8 DEF Fits
<1> QED BY <1>13, <1>14, <1>15, <1>16, <1>17 DEF Given

LEMMA FromListsIsOK ==
  ASSUME NEW h, NEW U, HeapOK(h, U, {}), Known(h), NEW nb, IsSize(nb),
         NEW r, r = FromLists(h, nb)
  PROVE  Listed(h, r, U, nb)
<1>1. Keeps(h, h, U) /\ (Free(h) \cup FastChunks(h) # {} => h.anychunks)
  BY DEF Keeps, HeapOK
<1>2. CASE ~h.anychunks
  BY <1>2, SetUpIsOK DEF FromLists
<1>3. CASE h.anychunks /\ nb <= h.max_fast /\ h.fastbins[fastbin_index(nb)] # <<>>
  <2>1. r = FromFastbin(h, nb)
    BY <1>3 DEF FromLists
  <2>2. Gave(h, r, U, nb) /\ r.p # Null /\ h.fastchunks
    BY <1>3, <2>1, FromFastbinIsOK
  <2> QED BY <2>2 DEF Listed
<1> DEFINE others == ~(nb <= h.max_fast /\ h.fastbins[fastbin_index(nb)] # <<>>)
<1>4. CASE h.anychunks /\ others /\ in_smallbin_range(nb) /\ binof(h, nb) # <<>>
  <2> DEFINE p == Last(binof(h, nb))
  <2>1. r = Exhaust(unlink(h, p), p)
    BY <1>4 DEF FromLists
  <2>2. Given(h, r, U, nb) /\ Fits(h, p, nb) /\ r.p = p
    BY <1>4, <2>1, SmallIsOK
  <2>3. Gave(h, r, U, nb) /\ r.p # Null
    BY <1>1, <2>2, GivenIsGave
  <2> HIDE DEF p
  <2> QED BY <2>2, <2>3 DEF Listed
<1>5. ASSUME NEW g, HeapOK(g, U, {}), Known(g), Keeps(h, g, U), g.max_fast # 0, Ready(g, nb),
             r = BestChunk(g, nb), ~h.fastchunks => g = h, ~h.fastchunks => ~g.fastchunks
      PROVE  Listed(h, r, U, nb)
  <2>1. Searched(g, r, U, nb)
    BY <1>5, BestChunkIsOK
  <2>2. CASE r.p = Null
    <3>1. Passed(g, r.h, U) /\ NoFit(g, nb)
      BY <2>1, <2>2 DEF Searched
    <3>2. Refused(h, r, U, nb) /\ r.h.fastchunks = g.fastchunks
      BY <1>5, <3>1, PassedIsRefused
    <3> QED BY <1>5, <2>2, <3>1, <3>2 DEF Listed
  <2>3. CASE r.p # Null
    <3>1. Given(g, r, U, nb) /\ (Fits(g, r.p, nb) \/ Remainder(g, r.p))
      BY <2>1, <2>3 DEF Searched
    <3>2. Gave(h, r, U, nb)
      BY <1>5, <3>1, GivenIsGave
    <3> QED BY <1>5, <2>3, <3>1, <3>2 DEF Listed
  <2> QED BY <2>2, <2>3
<1>6. h.anychunks => h.max_fast # 0
  BY DEF Known
<1>7. CASE h.anychunks /\ others /\ ~in_smallbin_range(nb)
  <2> DEFINE m == malloc_consolidate(h)
  <2>1. r = BestChunk(IF h.fastchunks THEN m ELSE h, nb)
    BY <1>7 DEF FromLists
  <2>2. Ready(h, nb) /\ Ready(m, nb)
    BY <1>7 DEF Ready
  <2>3. CASE h.fastchunks
    <3>1. HeapOK(m, U, {}) /\ FastChunks(m) = {} /\ SameBut(h, m, DrainFields) /\ Keeps(h, m, U)
      BY ConsolidateIsOK
    <3> HIDE DEF m
    <3>2. m.max_fast = h.max_fast
      BY <3>1 DEF SameBut, DrainFields, FreeFields, Fields
    <3>3. Known(m) /\ r = BestChunk(m, nb)
      BY <1>6, <1>7, <2>1, <2>3, <3>1, <3>2 DEF Known
    <3> QED BY <1>5, <1>6, <1>7, <2>2, <2>3, <3>1, <3>2, <3>3
  <2>4. CASE ~h.fastchunks
    BY <1>1, <1>5, <1>6, <1>7, <2>1, <2>2, <2>4
  <2> QED BY <2>3, <2>4
<1>8. CASE h.anychunks /\ others /\ in_smallbin_range(nb) /\ binof(h, nb) = <<>>
  <2>1. r = BestChunk(h, nb) /\ Ready(h, nb)
    BY <1>8 DEF FromLists, Ready
  <2> QED BY <1>1, <1>5, <1>6, <1>8, <2>1
<1> QED BY <1>2, <1>3, <1>4, <1>7, <1>8

-----------------------------------------------------------------------------
(* Pages, and sbrk *)

LEMMA ModIs ==
  ASSUME NEW b \in Nat \ {0}, NEW x \in Nat
  PROVE  /\ x < b => x % b = x
         /\ x = b => x % b = 0
         /\ b <= x /\ x < 2 * b => x % b = x - b
<1> DEFINE d == x \div b
           m == x % b
<1>1. d \in Int /\ m \in 0..b-1 /\ x = b * d + m /\ d \in Nat
  <2>1. d \in Int /\ m \in 0..b-1 /\ x = b * d + m
    BY Division
  <2>2. d \in Nat
    BY DivisionIs
  <2> QED BY <2>1, <2>2
<1> HIDE DEF d, m
<1>2. ASSUME x < b PROVE m = x
  <2>1. ~(d >= 1)
    <3> SUFFICES ASSUME d >= 1 PROVE FALSE
      OBVIOUS
    <3>1. b * d >= b
      BY <1>1
    <3> QED BY <1>1, <1>2, <3>1
  <2>2. d = 0
    BY <1>1, <2>1
  <2> QED BY <1>1, <2>2
<1>3. ASSUME b <= x, x < 2 * b PROVE m = x - b
  <2>1. ~(d >= 2)
    <3> SUFFICES ASSUME d >= 2 PROVE FALSE
      OBVIOUS
    <3>1. b * d >= 2 * b
      BY <1>1
    <3> QED BY <1>1, <1>3, <3>1
  <2>2. d # 0
    <3> SUFFICES ASSUME d = 0 PROVE FALSE
      OBVIOUS
    <3>1. b * d = 0
      BY <1>1
    <3> QED BY <1>1, <1>3, <3>1
  <2>3. d = 1
    BY <1>1, <2>1, <2>2
  <2> QED BY <1>1, <2>3
<1>4. x = b => m = 0
  BY <1>3
<1> QED BY <1>2, <1>3, <1>4 DEF m

LEMMA Eights ==
  ASSUME NEW a \in Int, a % 8 = 0, NEW k \in Int
  PROVE  (a * k) % 8 = 0
<1> DEFINE b == a \div 8
           c == b * k
<1>1. b \in Int /\ a = 8 * b
  OBVIOUS
<1>2. c \in Int /\ a * k = 8 * c
  BY <1>1
<1> HIDE DEF c
<1> QED BY <1>2

\* The next whole number of pages
LEMMA UpIs ==
  ASSUME NEW x \in Nat
  PROVE  /\ Up(x, pagesize) \in Nat /\ Up(x, pagesize) >= x /\ Up(x, pagesize) < x + pagesize
         /\ Up(x, pagesize) % 8 = 0
         /\ x <= ULONG => Up(x, pagesize) <= ULONG
         /\ x > 0 => Up(x, pagesize) >= pagesize
<1> DEFINE ps == pagesize
           y == x + ps - 1
           k == y \div ps
           q == ULONG \div ps
<1>1. ps \in Nat \ {0} /\ ps % 8 = 0 /\ ULONG \in Nat /\ ULONG % ps = 0
  BY Constants
<1>2. y \in Int /\ Up(x, ps) = y - (y % ps)
  BY <1>1 DEF Up, Down
<1>3. k \in Int /\ y % ps \in 0..ps-1 /\ y = ps * k + (y % ps)
  BY <1>1, <1>2, Division
<1>4. q \in Int /\ ULONG = ps * q + (ULONG % ps)
  BY <1>1, Division
<1> DEFINE u == Up(x, ps)
           r == y % ps
<1>5. r \in 0..ps-1 /\ y = ps * k + r /\ u = y - r
  BY <1>2, <1>3
<1> HIDE DEF k, q, u, r, ps
<1>6. ps * k \in Int
  BY <1>1, <1>3
<1>7. u = ps * k
  BY <1>1, <1>5, <1>6
<1>8. u \in Int /\ u >= x /\ u < x + ps
  BY <1>1, <1>5
<1>9. u % 8 = 0
  <2>1. ps \in Int /\ k \in Int /\ ps % 8 = 0
    BY <1>1, <1>3
  <2>2. (ps * k) % 8 = 0
    BY <2>1, Eights
  <2> QED BY <1>7, <2>2
<1>10. ASSUME x <= ULONG PROVE u <= ULONG
  <2>1. ULONG = ps * q
    BY <1>1, <1>4
  <2>2. ~(k >= q + 1)
    <3> SUFFICES ASSUME k >= q + 1 PROVE FALSE
      OBVIOUS
    <3>1. ps * k >= ps * q + ps
      BY <1>1, <1>3, <1>4
    <3>2. u >= ULONG + ps
      BY <1>7, <2>1, <3>1
    <3> QED BY <1>1, <1>8, <1>10, <3>2
  <2>3. k <= q
    BY <1>3, <1>4, <2>2
  <2>4. ps * k <= ps * q
    BY <1>1, <1>3, <1>4, <2>3
  <2> QED BY <1>7, <2>1, <2>4
<1>11. ASSUME x > 0 PROVE u >= ps
  <2>1. ~(k <= 0)
    <3> SUFFICES ASSUME k <= 0 PROVE FALSE
      OBVIOUS
    <3>1. ps * k <= 0
      BY <1>1, <1>3
    <3> QED BY <1>7, <1>8, <1>11, <3>1
  <2>2. k >= 1
    BY <1>3, <2>1
  <2>3. ps * k >= ps
    BY <1>1, <1>3, <2>2
  <2> QED BY <1>7, <2>3
<1> QED BY <1>8, <1>9, <1>10, <1>11 DEF u, ps

\* The memory below 2^31 is a part of that of the unsigned longs.
LEMMA Memory ==
  /\ mem_heap \in Nat /\ mem_heap_end \in Nat /\ mem_heap > 32 /\ mem_heap < mem_heap_end
  /\ ULONG \in Nat \ {0} /\ 2 * mem_heap_end <= ULONG
  /\ ULONG \div 2 \in Nat /\ mem_heap_end <= ULONG \div 2 /\ 2 * (ULONG \div 2) <= ULONG
<1>1. /\ mem_heap \in Nat /\ mem_heap_end \in Nat /\ mem_heap > 32 /\ mem_heap < mem_heap_end
      /\ ULONG \in Nat \ {0} /\ 2 * mem_heap_end <= ULONG
  BY HeapAssumption DEF MINSIZE
<1>2. ULONG \div 2 \in Nat /\ mem_heap_end <= ULONG \div 2 /\ 2 * (ULONG \div 2) <= ULONG
  BY <1>1
<1> QED BY <1>1, <1>2

\* sbrk(h, diff) gives diff bytes more, or none.
LEMMA SbrkIs ==
  ASSUME NEW h, h.curptr \in Nat, h.curptr <= mem_heap_end, h.curptr > 0,
         NEW diff \in Nat, h.curptr + diff <= ULONG
  PROVE  sbrk(h, diff) = IF h.curptr + diff > mem_heap_end THEN [h |-> h, brk |-> Null]
                         ELSE [h |-> [h EXCEPT !.curptr = h.curptr + diff], brk |-> h.curptr]
<1> DEFINE x == h.curptr + diff
           c == x % ULONG
<1>1. x \in Nat /\ x <= ULONG /\ ULONG \in Nat \ {0} /\ mem_heap_end < ULONG /\ mem_heap_end \in Nat
  BY Memory
<1>2. CASE x < ULONG
  <2>1. c = x
    BY <1>1, <1>2, ModIs
  <2> QED BY <1>1, <2>1 DEF sbrk
<1>3. CASE x = ULONG
  <2>1. c = 0
    BY <1>1, <1>3, ModIs
  <2> QED BY <1>1, <1>3, <2>1 DEF sbrk
<1> QED BY <1>1, <1>2, <1>3

\* The size of the pages asked of sbrk, or none where they are too many.
LEMMA LongIs ==
  ASSUME NEW x \in Nat, x <= ULONG
  PROVE  IF x < ULONG \div 2 THEN AsLong(x) = x ELSE AsLong(x) <= 0
<1> DEFINE y == x % ULONG
           half == ULONG \div 2
<1>1. ULONG \in Nat \ {0} /\ half \in Nat /\ 2 * half <= ULONG /\ half > 0
  BY Memory
<1>2. AsLong(x) = IF y < half THEN y ELSE y - ULONG
  BY DEF AsLong
<1>3. (x < ULONG => y = x) /\ (x = ULONG => y = 0)
  BY <1>1, ModIs
<1> HIDE DEF y, half
<1>4. CASE x < half
  BY <1>1, <1>2, <1>3, <1>4 DEF half
<1>5. CASE ~(x < half) /\ x < ULONG
  BY <1>1, <1>2, <1>3, <1>5 DEF half
<1>6. CASE ~(x < half) /\ x = ULONG
  BY <1>1, <1>2, <1>3, <1>6 DEF half
<1> QED BY <1>1, <1>4, <1>5, <1>6

-----------------------------------------------------------------------------
(* malloc: top *)

\* The front of top is handed out.
LEMMA UseTopIsOK ==
  ASSUME NEW h, NEW U, HeapOK(h, U, {}), Known(h), NEW nb, IsSize(nb),
         topsize(h) >= nb + 16, NEW r, r = use_top(h, nb)
  PROVE  Gave(h, r, U, nb) /\ r.p # Null
<1> DEFINE g == r.h
           c == h.chunk
           t == h.top
           n == t + nb
           d == Cut(c, t, nb, n)
           W == U \cup FastChunks(h)
           V == U \cup {t}
<1>1. nb \in Nat /\ nb >= 16 /\ nb % 8 = 0
  BY DEF IsSize
<1>2. topsize(h) = c[t].size /\ t + c[t].size = h.curptr /\ t \in DOMAIN c /\ topsize(h) \in Nat
      /\ DOMAIN c # {}
  BY <1>1, TopIs
<1>3. Tiled(c, t, h.curptr, Free(h) \cup {}, W) /\ h.max_fast # 0 /\ U \cap FastChunks(h) = {}
  BY <1>2 DEF HeapOK, Laid
<1>4. /\ DOMAIN h = Fields /\ h.curptr \in Nat /\ h.curptr <= mem_heap_end
  BY DEF HeapOK, Shaped
<1>5. t \notin W /\ t \in Nat /\ t > 32 /\ t \notin Free(h) /\ W \subseteq DOMAIN c
      /\ Free(h) \subseteq DOMAIN c
  BY <1>2, <1>3, BaseIs DEF Tiled
<1>6. r.p = t /\ g = [h EXCEPT !.top = n, !.chunk = d]
  BY <1>2 DEF use_top, Found, Cut
<1>7. SameBut(h, g, {"chunk", "top", "curptr", "last_remainder"})
      /\ g.chunk = d /\ g.top = n /\ g.curptr = h.curptr
      /\ g.fastbins = h.fastbins /\ g.fastchunks = h.fastchunks /\ g.anychunks = h.anychunks
      /\ g.max_fast = h.max_fast
  BY <1>4, <1>6 DEF SameBut, Fields
<1>8. Tiled(d, n, h.curptr, Free(h) \cup {}, W \cup {t}) /\ CutAt(c, d, t, nb, n)
  <2>1. n = t + nb /\ d = Cut(c, t, nb, n) /\ c[t].size >= nb + 16
    BY <1>2
  <2> DEFINE F == Free(h) \cup {}
  <2> HIDE DEF d, n, W, c, F, t
  <2>2. Tiled(c, t, h.curptr, F, W)
    BY <1>3 DEF F
  <2>3. Tiled(d, n, h.curptr, F, W \cup {t})
    BY <1>1, <2>1, <2>2, UsedTopIsTiled
  <2>4. CutAt(c, d, t, nb, n)
    BY <1>1, <2>1, <2>2, UsedTopIsTiled
  <2> QED BY <2>3, <2>4 DEF F
<1> HIDE DEF g, d, n
<1>9. d[t].size = nb /\ \A q \in DOMAIN c \ {t} : d[q].size = c[q].size
  BY <1>8 DEF CutAt
<1>10. W \cup {t} = V \cup FastChunks(h) /\ V \cap FastChunks(h) = {} /\ {} \cap Free(h) = {}
  BY <1>3, <1>5
<1>11. \A q \in Free(h) \cup FastChunks(h) : g.chunk[q].size = h.chunk[q].size
  BY <1>5, <1>7, <1>9
<1>12. Tiled(g.chunk, g.top, g.curptr, Free(h) \cup {}, V \cup FastChunks(h))
  BY <1>7, <1>8, <1>10
<1>13. g.curptr \in Nat /\ g.curptr <= mem_heap_end
  BY <1>4, <1>7
<1> HIDE DEF V
<1>14. HeapOK(g, V, {})
  BY <1>3, <1>7, <1>10, <1>11, <1>12, <1>13, Rechunked
<1>15. HeapOK(g, U \cup {r.p}, {}) /\ r.p \notin U /\ r.p # Null
  BY <1>5, <1>6, <1>14 DEF V, Null
<1>16. Known(g)
  BY <1>7 DEF Known, FastChunks
<1>17. Keeps(h, g, U) /\ g.chunk[r.p].size >= nb
  BY <1>1, <1>5, <1>6, <1>7, <1>9 DEF Keeps
<1> QED BY <1>15, <1>16, <1>17 DEF Gave, g

\* There is more memory: top is longer, or there is a first top.
Extended(h, g, U) ==
  /\ HeapOK(g, U, {}) /\ Keeps(h, g, U) /\ Keeps(h, g, Free(h))
  /\ SameBut(h, g, {"chunk", "top", "curptr"})

LEMMA ExtendedIs ==
  ASSUME NEW h, NEW g, NEW U, Extended(h, g, U)
  PROVE  /\ Free(g) = Free(h) /\ FastChunks(g) = FastChunks(h) /\ g.max_fast = h.max_fast
         /\ g.fastchunks = h.fastchunks /\ g.anychunks = h.anychunks
         /\ Known(h) => Known(g)
         /\ \A nb : NoFit(h, nb) => NoFit(g, nb)
<1>1. /\ g.bins = h.bins /\ g.fastbins = h.fastbins /\ g.max_fast = h.max_fast
      /\ g.fastchunks = h.fastchunks /\ g.anychunks = h.anychunks
  BY DEF Extended, SameBut, Fields
<1>2. Free(g) = Free(h) /\ FastChunks(g) = FastChunks(h)
  BY <1>1 DEF Free, FastChunks
<1>3. \A nb : NoFit(h, nb) => NoFit(g, nb)
  BY <1>2 DEF NoFit, Extended, Keeps
<1> QED BY <1>1, <1>2, <1>3 DEF Known

\* sbrk's memory follows top.
Lengthened(h, k) == [h EXCEPT !.curptr = h.curptr + k,
                              !.chunk = set_head(@, h.top, topsize(h) + k)]

Grown(h, g, U, k) == Extended(h, g, U) /\ topsize(g) = topsize(h) + k

LEMMA GrownIsOK ==
  ASSUME NEW h, NEW U, HeapOK(h, U, {}), DOMAIN h.chunk # {},
         NEW k \in Nat, h.curptr + k <= mem_heap_end,
         NEW g, g = Lengthened(h, k)
  PROVE  Grown(h, g, U, k)
<1> DEFINE c == h.chunk
           t == h.top
           W == U \cup FastChunks(h)
           d == set_head(c, t, c[t].size + k)
<1>1. topsize(h) = c[t].size /\ t + c[t].size = h.curptr /\ t \in DOMAIN c /\ topsize(h) \in Nat
  BY TopIs
<1>2. Tiled(c, t, h.curptr, Free(h) \cup {}, W) /\ h.max_fast # 0 /\ U \cap FastChunks(h) = {}
  BY DEF HeapOK, Laid
<1>3. DOMAIN h = Fields /\ h.curptr \in Nat
  BY DEF HeapOK, Shaped
<1>4. SameBut(h, g, {"chunk", "top", "curptr"}) /\ g.chunk = d /\ g.top = t
      /\ g.curptr = h.curptr + k
  BY <1>1, <1>3 DEF SameBut, Fields, Lengthened
<1>5. t \notin W /\ t \notin Free(h) /\ W \subseteq DOMAIN c /\ Free(h) \subseteq DOMAIN c
  BY <1>2 DEF Tiled
<1>6. /\ Tiled(d, t, h.curptr + k, Free(h) \cup {}, W) /\ d[t].size = c[t].size + k
      /\ \A q \in DOMAIN c \ {t} : d[q].size = c[q].size
  BY <1>2, GrownIsTiled
<1> HIDE DEF d
<1>7. SameBut(h, g, {"chunk", "top", "curptr", "last_remainder"})
  BY <1>4 DEF SameBut
<1>8. \A q \in Free(h) \cup FastChunks(h) : g.chunk[q].size = h.chunk[q].size
  BY <1>4, <1>5, <1>6
<1>9. g.curptr \in Nat /\ g.curptr <= mem_heap_end /\ {} \cap Free(h) = {}
  BY <1>3, <1>4
<1>10. Tiled(g.chunk, g.top, g.curptr, Free(h) \cup {}, U \cup FastChunks(h))
  BY <1>4, <1>6
<1>11. HeapOK(g, U, {})
  BY <1>2, <1>7, <1>8, <1>9, <1>10, Rechunked
<1>12. Keeps(h, g, U) /\ Keeps(h, g, Free(h))
  BY <1>4, <1>5, <1>6 DEF Keeps
<1>13. topsize(g) = topsize(h) + k
  <2>1. h.top \notin {Null, initial_top}
    BY <1>1, <1>2, BaseIs DEF Tiled, Null, initial_top
  <2> QED BY <1>1, <1>4, <1>6, <2>1 DEF topsize
<1> QED BY <1>4, <1>11, <1>12, <1>13 DEF Extended, Grown

\* The first memory: top starts at Base, and ends with a page if there is so much.
LEMMA FirstTopIsOK ==
  ASSUME NEW h, NEW U, HeapOK(h, U, {}), DOMAIN h.chunk = {}, h.max_fast # 0,
         NEW size \in Nat, size >= 32, size % 8 = 0, mem_heap + size <= mem_heap_end,
         NEW k, k = [h EXCEPT !.curptr = mem_heap + size],
         NEW g, g = FirstTop(k, mem_heap, size)
  PROVE  /\ Extended(h, g, U) /\ topsize(g) \in Nat
         /\ topsize(g) >= size \/ mem_heap_end - g.curptr < pagesize
<1> DEFINE misalign == (mem_heap + 8) % 8
           front == IF misalign = 0 THEN 0 ELSE 8 - misalign
           end == mem_heap + size + front
           diff == front + Up(end, pagesize) - end
           more == sbrk(k, diff).h
           d == set_head(h.chunk, Base, more.curptr - Base)
<1>1. /\ Shaped(h) /\ Laid(h, U, {}) /\ DOMAIN h = Fields
  BY DEF HeapOK, Shaped
<1>2. /\ U = {} /\ Free(h) = {} /\ FastChunks(h) = {} /\ h.curptr = mem_heap
      /\ h.chunk \in [DOMAIN h.chunk -> Header]
  BY <1>1 DEF Laid
<1>3. /\ mem_heap \in Nat /\ mem_heap_end \in Nat /\ mem_heap > 32 /\ ULONG \in Nat
      /\ 2 * mem_heap_end <= ULONG
  BY Memory
<1>4. /\ misalign = mem_heap % 8 /\ misalign \in 0..7
      /\ front \in 0..7 /\ mem_heap + front = Base /\ Base \in Nat /\ Base % 8 = 0
  <2>1. misalign = mem_heap % 8 /\ misalign \in 0..7
    BY <1>3
  <2> HIDE DEF misalign
  <2>2. front \in 0..7 /\ front = (IF mem_heap % 8 = 0 THEN 0 ELSE 8 - (mem_heap % 8))
    BY <2>1
  <2>3. mem_heap + front = Base
    BY <2>2 DEF Base
  <2> HIDE DEF front
  <2>4. Base \in Nat
    BY BaseIs
  <2>5. Base % 8 = 0
    <3> DEFINE q == mem_heap \div 8
               r == mem_heap % 8
    <3>1. q \in Int /\ r \in 0..7 /\ mem_heap = 8 * q + r
      BY <1>3
    <3>2. Base = mem_heap + (IF r = 0 THEN 0 ELSE 8 - r)
      BY DEF Base
    <3> HIDE DEF q, r
    <3>3. Base = 8 * q \/ Base = 8 * (q + 1)
      BY <3>1, <3>2
    <3> QED BY <3>1, <3>3
  <2> QED BY <2>1, <2>2, <2>3, <2>4, <2>5
<1>5. g = [more EXCEPT !.top = mem_heap + front,
                       !.chunk = set_head(@, mem_heap + front, more.curptr - (mem_heap + front))]
  BY DEF FirstTop, SIZE_SZ, MALLOC_ALIGNMENT
<1>6. end = Base + size /\ end \in Nat /\ end % 8 = 0 /\ end <= mem_heap_end + 7
  <2> HIDE DEF front
  <2>1. end = Base + size
    BY <1>3, <1>4
  <2>2. Base + size \in Nat /\ (Base + size) % 8 = 0
    BY <1>4
  <2>3. Base + size <= mem_heap_end + 7
    BY <1>3, <1>4
  <2> QED BY <2>1, <2>2, <2>3
<1> DEFINE u == Up(end, pagesize)
<1>7. u \in Nat /\ u >= end /\ u < end + pagesize /\ u % 8 = 0 /\ pagesize \in Nat
      /\ pagesize % 8 = 0
  BY <1>6, UpIs, Constants
<1>8. u <= ULONG
  <2>1. end <= ULONG
    BY <1>3, <1>6
  <2> QED BY <1>6, <2>1, UpIs
<1> HIDE DEF misalign, front, u
<1>9. diff \in Nat /\ k.curptr + diff = u /\ k.curptr = mem_heap + size /\ diff = front + u - end
  <2>1. k.curptr = mem_heap + size
    BY <1>1 DEF Fields
  <2>2. diff = front + u - end
    BY DEF u
  <2> HIDE DEF diff
  <2>3. end = mem_heap + size + front
    OBVIOUS
  <2> HIDE DEF end
  <2>4. front \in Nat /\ u \in Nat /\ end \in Nat /\ u >= end /\ mem_heap \in Nat
    <3>1. front \in Nat
      BY <1>4
    <3>2. u \in Nat /\ u >= end
      BY <1>7
    <3>3. end \in Nat
      BY <1>6
    <3> QED BY <1>3, <3>1, <3>2, <3>3
  <2>5. diff \in Nat /\ (mem_heap + size) + diff = u
    BY <2>2, <2>3, <2>4
  <2> QED BY <2>1, <2>2, <2>5
<1>10. sbrk(k, diff) = IF u > mem_heap_end THEN [h |-> k, brk |-> Null]
                       ELSE [h |-> [k EXCEPT !.curptr = u], brk |-> k.curptr]
  <2>1. k.curptr \in Nat /\ k.curptr <= mem_heap_end /\ k.curptr > 0 /\ k.curptr + diff <= ULONG
    BY <1>3, <1>8, <1>9
  <2> HIDE DEF diff, end
  <2>2. sbrk(k, diff) = IF k.curptr + diff > mem_heap_end THEN [h |-> k, brk |-> Null]
                        ELSE [h |-> [k EXCEPT !.curptr = k.curptr + diff], brk |-> k.curptr]
    BY <1>9, <2>1, SbrkIs
  <2> QED BY <1>9, <2>2
<1>11. /\ SameBut(h, more, {"curptr"})
       /\ more.curptr = IF u > mem_heap_end THEN mem_heap + size ELSE u
  <2>1. more = IF u > mem_heap_end THEN k ELSE [k EXCEPT !.curptr = u]
    BY <1>10
  <2>2. DOMAIN k = Fields /\ SameBut(h, k, {"curptr"})
    BY <1>1 DEF SameBut, Fields
  <2> HIDE DEF more, diff, end
  <2> QED BY <1>9, <2>1, <2>2 DEF SameBut, Fields
<1> HIDE DEF more, diff
<1>12. more.curptr \in Nat /\ more.curptr <= mem_heap_end /\ more.curptr - Base >= 16
       /\ more.curptr - Base \in Nat
  <2> DEFINE e == more.curptr
  <2>1. e = IF u > mem_heap_end THEN mem_heap + size ELSE u
    BY <1>11
  <2> HIDE DEF end, e
  <2>2. Base <= mem_heap + 7 /\ u >= Base + size
    BY <1>3, <1>4, <1>6, <1>7
  <2>4. Base \in Nat /\ u \in Nat /\ mem_heap \in Nat /\ mem_heap_end \in Nat
    BY <1>3, <1>4, <1>7
  <2>3. e \in Nat /\ e <= mem_heap_end /\ e - Base >= 16 /\ e - Base \in Nat
    BY <2>1, <2>2, <2>4
  <2> QED BY <2>3 DEF e
<1>13. /\ SameBut(h, g, {"chunk", "top", "curptr"}) /\ g.chunk = d /\ g.top = Base
       /\ g.curptr = more.curptr
  <2>1. more.chunk = h.chunk /\ DOMAIN more = Fields
    BY <1>11 DEF SameBut, Fields
  <2>2. g = [more EXCEPT !.top = Base, !.chunk = d]
    BY <1>4, <1>5, <2>1
  <2> HIDE DEF d
  <2> QED BY <1>11, <2>1, <2>2 DEF SameBut, Fields
<1> DEFINE s == more.curptr - Base
<1>14. Tiled(d, Base, Base + s, {}, {}) /\ d[Base].size = s
  <2>1. s \in Nat /\ s >= 16 /\ DOMAIN h.chunk = {} /\ h.chunk \in [DOMAIN h.chunk -> Header]
        /\ d = set_head(h.chunk, Base, s)
    BY <1>2, <1>12
  <2> HIDE DEF s, d
  <2>2. LET e == set_head(h.chunk, Base, s) IN
        Tiled(e, Base, Base + s, {}, {}) /\ e[Base].size = s
    BY <1>4, <2>1, FirstIsTiled
  <2> QED BY <2>1, <2>2
<1> HIDE DEF d
<1>15. Base + s = g.curptr
  BY <1>4, <1>12, <1>13
<1>16. HeapOK(g, U, {})
  <2>1. SameBut(h, g, {"chunk", "top", "curptr", "last_remainder"})
    BY <1>13 DEF SameBut
  <2>2. g.curptr \in Nat /\ g.curptr <= mem_heap_end /\ {} \cap Free(h) = {}
        /\ U \cap FastChunks(h) = {}
    BY <1>2, <1>12, <1>13
  <2>3. Free(h) \cup {} = {} /\ U \cup FastChunks(h) = {}
    BY <1>2
  <2>4. Tiled(g.chunk, g.top, g.curptr, Free(h) \cup {}, U \cup FastChunks(h))
    BY <1>13, <1>14, <1>15, <2>3
  <2>5. \A q \in Free(h) \cup FastChunks(h) : g.chunk[q].size = h.chunk[q].size
    BY <1>2
  <2> QED BY <2>1, <2>2, <2>4, <2>5, Rechunked
<1>17. Extended(h, g, U)
  BY <1>2, <1>13, <1>16 DEF Extended, Keeps
<1>18. topsize(g) = s
  <2>1. g.top \notin {Null, initial_top}
    BY <1>13, BaseIs DEF Null, initial_top
  <2> QED BY <1>13, <1>14, <2>1 DEF topsize
<1>19. s >= size \/ mem_heap_end - g.curptr < pagesize
  <2>1. CASE u > mem_heap_end
    <3>1. g.curptr = mem_heap + size
      BY <1>11, <1>13, <2>1
    <3>2. mem_heap_end - g.curptr < front + (u - end)
      BY <1>3, <1>4, <1>6, <1>7, <2>1, <3>1
    <3>3. u - end <= pagesize - 8
      <4> HIDE DEF end
      <4> QED BY <1>6, <1>7
    <3> HIDE DEF end
    <3> QED BY <1>3, <1>4, <1>6, <1>7, <3>1, <3>2, <3>3
  <2>2. CASE ~(u > mem_heap_end)
    <3>1. more.curptr = u
      BY <1>11, <2>2
    <3> HIDE DEF end
    <3> QED BY <1>4, <1>6, <1>7, <3>1
  <2> QED BY <2>1, <2>2
<1> QED BY <1>12, <1>17, <1>18, <1>19

-----------------------------------------------------------------------------
(* malloc: more memory *)

\* No free chunk is long enough, and no page that is left makes top so.
Full(h, nb) ==
  /\ FastChunks(h) = {} /\ NoFit(h, nb)
  /\ mem_heap_end - h.curptr < Up(nb + 16 - topsize(h), pagesize)

\* A chunk is handed out, or there is no room for it.
Answered(h, r, U, nb) ==
  IF r.p = Null THEN HeapOK(r.h, U, {}) /\ Known(r.h) /\ Keeps(h, r.h, U) /\ Full(r.h, nb)
  ELSE Gave(h, r, U, nb)

\* The size of a request that is not out of range
Moderate(nb) == IsSize(nb) /\ nb <= ULONG - 22

\* The searches have found nothing in h.
Searching(h, U, nb) ==
  HeapOK(h, U, {}) /\ Known(h) /\ h.max_fast # 0 /\ NoFit(h, nb) /\ Moderate(nb)

LEMMA EndIs ==
  ASSUME NEW h, NEW U, HeapOK(h, U, {})
  PROVE  h.curptr \in Nat /\ h.curptr > 0 /\ h.curptr <= mem_heap_end
         /\ topsize(h) \in Nat /\ topsize(h) < h.curptr
<1>1. h.curptr \in Nat /\ h.curptr <= mem_heap_end
  BY DEF HeapOK, Shaped
<1>2. CASE DOMAIN h.chunk = {}
  <2>1. h.curptr = mem_heap /\ topsize(h) = 0
    BY <1>2, TopIs DEF HeapOK, Laid
  <2> QED BY <1>1, <2>1, Memory
<1>3. CASE DOMAIN h.chunk # {}
  <2>1. topsize(h) \in Nat /\ topsize(h) = h.chunk[h.top].size /\ h.top \in DOMAIN h.chunk
    BY <1>3, TopIs
  <2>2. h.chunk[h.top].size + 32 < h.curptr
    BY <2>1, SizeBound
  <2> QED BY <1>1, <2>1, <2>2
<1> QED BY <1>2, <1>3

LEMMA ExtendedGives ==
  ASSUME NEW h, NEW U, Known(h), NEW g, Extended(h, g, U), NEW nb, IsSize(nb),
         topsize(g) >= nb + 16, NEW r, r = use_top(g, nb)
  PROVE  Gave(h, r, U, nb) /\ r.p # Null
<1>1. HeapOK(g, U, {}) /\ Known(g) /\ Keeps(h, g, U)
  BY ExtendedIs DEF Extended
<1>2. Gave(g, r, U, nb) /\ r.p # Null
  BY <1>1, UseTopIsOK
<1>3. Keeps(h, r.h, U)
  BY <1>1, <1>2 DEF Gave, Keeps
<1> QED BY <1>2, <1>3 DEF Gave

\* The least number of pages asked for
LEMMA PagesAre ==
  ASSUME NEW nb, Moderate(nb), NEW t \in Nat, t < nb + 16
  PROVE  LET P == Up(nb + 16 - t, pagesize) IN
         /\ P \in Nat /\ P >= nb + 16 - t /\ P <= ULONG /\ P % 8 = 0 /\ P >= pagesize
<1> DEFINE x == nb + 16 - t
<1>1. nb \in Nat /\ ULONG \in Nat /\ x \in Nat /\ x > 0 /\ x <= ULONG
  BY Memory DEF Moderate, IsSize
<1> HIDE DEF x
<1>2. /\ Up(x, pagesize) \in Nat /\ Up(x, pagesize) >= x /\ Up(x, pagesize) % 8 = 0
      /\ Up(x, pagesize) <= ULONG /\ Up(x, pagesize) >= pagesize
  BY <1>1, UpIs
<1> QED BY <1>2 DEF x

LEMMA MoreCoreIsOK ==
  ASSUME NEW h, NEW U, NEW nb, Searching(h, U, nb), FastChunks(h) = {},
         topsize(h) < nb + 16, NEW r, r = MoreCore(h, nb)
  PROVE  Answered(h, r, U, nb)
<1> DEFINE t == topsize(h)
           P == Up(nb + 16 - t, pagesize)
           size == AsLong(P)
           got == sbrk(h, size)
           g == IF got.brk = h.top + t
                THEN [got.h EXCEPT !.chunk = set_head(@, h.top, t + size)]
                ELSE FirstTop(got.h, got.brk, size)
<1>1. HeapOK(h, U, {}) /\ Known(h) /\ h.max_fast # 0 /\ NoFit(h, nb) /\ Moderate(nb)
  BY DEF Searching
<1>2. nb \in Nat /\ nb >= 16 /\ nb % 8 = 0 /\ IsSize(nb)
  BY <1>1 DEF Moderate, IsSize
<1>3. /\ h.curptr \in Nat /\ h.curptr > 0 /\ h.curptr <= mem_heap_end
      /\ t \in Nat /\ t < h.curptr
  BY <1>1, EndIs
<1>4. P \in Nat /\ P >= nb + 16 - t /\ P <= ULONG /\ P % 8 = 0 /\ P >= pagesize
  BY <1>1, <1>3, PagesAre
<1>5. r = IF size <= 0 \/ got.brk = Null THEN Found(h, Null)
          ELSE IF topsize(g) >= nb + 16 THEN use_top(g, nb)
          ELSE Found(g, Null)
  BY DEF MoreCore, MINSIZE
<1>6. Keeps(h, h, U) /\ DOMAIN h = Fields
  BY <1>1 DEF Keeps, HeapOK, Shaped
<1>7. IF P < ULONG \div 2 THEN size = P ELSE size <= 0
  BY <1>4, LongIs
<1>8. /\ mem_heap_end \in Nat /\ mem_heap_end <= ULONG \div 2 /\ ULONG \div 2 \in Nat
      /\ 2 * (ULONG \div 2) <= ULONG /\ mem_heap > 32 /\ mem_heap \in Nat /\ ULONG \in Nat
  BY Memory
<1>9. ASSUME r = Found(h, Null), mem_heap_end - h.curptr < P
      PROVE  Answered(h, r, U, nb)
  <2>1. r.h = h /\ r.p = Null
    BY <1>9 DEF Found
  <2>2. Full(h, nb)
    BY <1>1, <1>9 DEF Full
  <2> QED BY <1>1, <1>6, <2>1, <2>2 DEF Answered
<1>10. CASE ~(P < ULONG \div 2)
  <2>1. r = Found(h, Null)
    BY <1>5, <1>7, <1>10
  <2>2. mem_heap_end - h.curptr < P
    <3> HIDE DEF P
    <3> QED BY <1>3, <1>4, <1>8, <1>10
  <2> QED BY <1>9, <2>1, <2>2
<1>11. CASE P < ULONG \div 2
  <2> DEFINE k == [h EXCEPT !.curptr = h.curptr + P]
  <2>1. size = P
    BY <1>7, <1>11
  <2>2. P > 0 /\ h.curptr + P <= ULONG /\ P >= 32 - t
    <3> HIDE DEF P, t
    <3>1. P \in Nat /\ P >= nb + 16 - t /\ t \in Nat /\ nb \in Nat /\ nb >= 16
          /\ P >= pagesize /\ pagesize \in Nat \ {0}
      BY <1>2, <1>3, <1>4, Constants
    <3>2. P > 0 /\ P >= 32 - t
      BY <3>1
    <3>3. h.curptr + P <= ULONG
      BY <1>3, <1>8, <1>11, <3>1
    <3> QED BY <3>2, <3>3
  <2>3. got = IF h.curptr + P > mem_heap_end THEN [h |-> h, brk |-> Null]
              ELSE [h |-> k, brk |-> h.curptr]
    <3> HIDE DEF P, size
    <3> QED BY <1>3, <1>4, <2>1, <2>2, SbrkIs
  <2> HIDE DEF got, k
  <2>4. CASE h.curptr + P > mem_heap_end
    <3>1. got.brk = Null
      BY <2>3, <2>4
    <3>2. r = Found(h, Null)
      BY <1>5, <3>1
    <3>3. mem_heap_end - h.curptr < P
      <4> HIDE DEF P
      <4> QED BY <1>3, <1>4, <1>8, <2>4
    <3> QED BY <1>9, <3>2, <3>3
  <2>5. CASE ~(h.curptr + P > mem_heap_end)
    <3>1. got.h = k /\ got.brk = h.curptr
      BY <2>3, <2>5
    <3>2. r = IF topsize(g) >= nb + 16 THEN use_top(g, nb) ELSE Found(g, Null)
      <4>1. got.brk # Null /\ ~(size <= 0)
        <5> HIDE DEF P, size
        <5> QED BY <1>3, <1>4, <2>1, <2>2, <3>1 DEF Null
      <4> QED BY <1>5, <4>1
    <3>3. h.curptr + P <= mem_heap_end
      <4> HIDE DEF P
      <4> QED BY <1>3, <1>4, <1>8, <2>5
    <3>4. CASE DOMAIN h.chunk # {}
      <4>1. h.top + t = h.curptr
        BY <1>1, <3>4, TopIs
      <4>2. g = [k EXCEPT !.chunk = set_head(@, h.top, t + P)]
        BY <2>1, <3>1, <4>1
      <4>3. g = Lengthened(h, P)
        <5>1. g = [h EXCEPT !.curptr = h.curptr + P, !.chunk = set_head(@, h.top, t + P)]
          BY <1>6, <4>2 DEF k, Fields
        <5> HIDE DEF g, P
        <5> QED BY <5>1 DEF Lengthened
      <4> HIDE DEF g, P, t
      <4>4. Extended(h, g, U) /\ topsize(g) = t + P
        <5>1. Grown(h, g, U, P)
          BY <1>1, <1>4, <3>3, <3>4, <4>3, GrownIsOK
        <5> QED BY <5>1 DEF Grown, t
      <4>5. topsize(g) >= nb + 16
        BY <1>2, <1>3, <1>4, <4>4
      <4>6. Gave(h, r, U, nb) /\ r.p # Null
        BY <1>1, <1>2, <3>2, <4>4, <4>5, ExtendedGives
      <4> QED BY <4>6 DEF Answered
    <3>5. CASE DOMAIN h.chunk = {}
      <4>1. h.curptr = mem_heap /\ t = 0 /\ h.top \in {0, 8}
        BY <1>1, <3>5, TopIs DEF HeapOK, Laid, Null, initial_top
      <4>2. g = FirstTop(k, mem_heap, P)
        <5>1. got.brk # h.top + t
          BY <1>8, <3>1, <4>1
        <5> QED BY <2>1, <3>1, <4>1, <5>1
      <4>3. k = [h EXCEPT !.curptr = mem_heap + P]
        BY <4>1 DEF k
      <4>4. P >= 32 /\ P >= nb + 16 /\ mem_heap + P <= mem_heap_end
        BY <1>2, <1>4, <2>2, <3>3, <4>1
      <4> HIDE DEF g, P, t
      <4>5. /\ Extended(h, g, U) /\ topsize(g) \in Nat
            /\ topsize(g) >= P \/ mem_heap_end - g.curptr < pagesize
        BY <1>1, <1>4, <3>5, <4>2, <4>3, <4>4, FirstTopIsOK
      <4>6. CASE topsize(g) >= nb + 16
        <5>1. r = use_top(g, nb)
          BY <3>2, <4>6
        <5>2. Gave(h, r, U, nb) /\ r.p # Null
          BY <1>1, <1>2, <4>5, <4>6, <5>1, ExtendedGives
        <5> QED BY <5>2 DEF Answered
      <4>7. CASE ~(topsize(g) >= nb + 16)
        <5>1. r.h = g /\ r.p = Null
          BY <3>2, <4>7 DEF Found
        <5>2. HeapOK(g, U, {}) /\ Known(g) /\ Keeps(h, g, U) /\ FastChunks(g) = {} /\ NoFit(g, nb)
          BY <1>1, <4>5, ExtendedIs DEF Extended
        <5> DEFINE s == topsize(g)
                   e == g.curptr
        <5>3. s \in Nat /\ s < nb + 16 /\ mem_heap_end - e < pagesize
          BY <1>2, <1>4, <4>4, <4>5, <4>7
        <5>4. Up(nb + 16 - s, pagesize) >= pagesize /\ Up(nb + 16 - s, pagesize) \in Nat
          BY <1>1, <5>3, PagesAre
        <5>5. e \in Nat /\ pagesize \in Nat
          BY <5>2, EndIs, Constants
        <5>6. mem_heap_end - e < Up(nb + 16 - s, pagesize)
          <6> HIDE DEF e, s
          <6> DEFINE u == Up(nb + 16 - s, pagesize)
          <6>1. u >= pagesize /\ u \in Nat
            BY <5>4
          <6> HIDE DEF u
          <6>2. mem_heap_end - e < u
            BY <1>8, <5>3, <5>5, <6>1
          <6> QED BY <6>2 DEF u
        <5> QED BY <5>1, <5>2, <5>6 DEF Answered, Full
      <4> QED BY <4>6, <4>7
    <3> QED BY <3>4, <3>5
  <2> QED BY <2>4, <2>5
<1> QED BY <1>10, <1>11

-----------------------------------------------------------------------------
(* malloc *)

\* What the words of a request come to: a multiple of eight, with a header.
LEMMA RequestIs ==
  ASSUME NEW bytes \in Nat, bytes < ULONG - 32
  PROVE  Moderate(request2size(bytes)) /\ request2size(bytes) >= bytes + 4
<1> DEFINE nb == request2size(bytes)
           y == bytes + 11
<1>1. nb = IF y < 16 THEN 16 ELSE y - (y % 8)
  BY DEF request2size, SIZE_SZ, MINSIZE, Down, MALLOC_ALIGNMENT
<1>2. y % 8 \in 0..7 /\ y \in Nat /\ (y - (y % 8)) % 8 = 0 /\ ULONG \in Nat
  BY Memory
<1>3. CASE y < 16
  <2>1. nb = 16 /\ ULONG >= 64
    BY <1>1, <1>3, Memory
  <2> QED BY <1>2, <1>3, <2>1 DEF Moderate, IsSize
<1>4. CASE ~(y < 16)
  <2>1. nb = y - (y % 8)
    BY <1>1, <1>4
  <2>2. nb % 8 = 0
    BY <1>2, <2>1
  <2>3. nb \in Nat /\ nb >= 9 /\ nb <= ULONG - 22 /\ nb >= bytes + 4
    <3> DEFINE m == y % 8
    <3>1. m \in 0..7 /\ nb = y - m
      BY <1>2, <2>1
    <3> HIDE DEF m
    <3> QED BY <1>2, <1>4, <3>1
  <2>4. nb >= 16
    <3> HIDE DEF nb
    <3> QED BY <2>2, <2>3
  <2> QED BY <2>2, <2>3, <2>4 DEF Moderate, IsSize
<1> QED BY <1>3, <1>4

LEMMA TopOrMoreIsOK ==
  ASSUME NEW h, NEW U, NEW nb, Searching(h, U, nb), topsize(h) >= nb + 16 \/ ~h.fastchunks,
         NEW r, r = TopOrMore(h, nb)
  PROVE  Answered(h, r, U, nb)
<1>1. HeapOK(h, U, {}) /\ Known(h) /\ IsSize(nb)
  BY DEF Searching, Moderate
<1>2. r = IF topsize(h) >= nb + 16 THEN use_top(h, nb) ELSE MoreCore(h, nb)
  BY DEF TopOrMore, MINSIZE
<1>3. CASE topsize(h) >= nb + 16
  <2>1. Gave(h, r, U, nb) /\ r.p # Null
    BY <1>1, <1>2, <1>3, UseTopIsOK
  <2> QED BY <2>1 DEF Answered
<1>4. CASE ~(topsize(h) >= nb + 16)
  <2>1. FastChunks(h) = {}
    BY <1>1, <1>4 DEF Known
  <2>2. topsize(h) < nb + 16
    <3>1. topsize(h) \in Nat /\ nb \in Nat
      BY <1>1, EndIs DEF IsSize
    <3> QED BY <1>4, <3>1
  <2>3. r = MoreCore(h, nb)
    BY <1>2, <1>4
  <2> QED BY <2>1, <2>2, <2>3, MoreCoreIsOK
<1> QED BY <1>3, <1>4

LEMMA GaveAfter ==
  ASSUME NEW h, NEW g, NEW r, NEW U, NEW nb, Keeps(h, g, U), Answered(g, r, U, nb)
  PROVE  Answered(h, r, U, nb)
<1>1. Keeps(g, r.h, U)
  BY DEF Answered, Gave
<1>2. Keeps(h, r.h, U)
  BY <1>1 DEF Keeps
<1> QED BY <1>2 DEF Answered, Gave

LEMMA RefusedIs ==
  ASSUME NEW h, NEW r, NEW U, NEW nb, Refused(h, r, U, nb), Moderate(nb)
  PROVE  Searching(r.h, U, nb) /\ Keeps(h, r.h, U)
BY DEF Refused, Searching

\* The request of malloc's call of itself is for the same size, and when it is out of
\* range there is no room for it anyway.
LEMMA AgainIsOK ==
  ASSUME NEW h, NEW U, HeapOK(h, U, {}), h.max_fast # 0, ~h.fastchunks, FastChunks(h) = {},
         NEW nb, Moderate(nb), NEW r, r = mALLOcAgain(h, nb - 7)
  PROVE  Answered(h, r, U, nb)
<1> DEFINE bytes == nb - 7
           l == FromLists(h, nb)
<1>1. nb \in Nat /\ nb >= 16 /\ nb % 8 = 0 /\ nb <= ULONG - 22 /\ IsSize(nb) /\ ULONG \in Nat
  BY Memory DEF Moderate, IsSize
<1>2. Known(h) /\ Keeps(h, h, U)
  BY DEF Known, Keeps
<1>3. request2size(bytes) = nb
  <2>1. bytes + 11 = nb + 4 /\ ~(nb + 4 < 16) /\ (nb + 4) % 8 = 4
    BY <1>1
  <2> QED BY <1>1, <2>1 DEF request2size, SIZE_SZ, MINSIZE, Down, MALLOC_ALIGNMENT
<1>4. r = IF bytes >= ULONG - 32 THEN Found(h, Null)
          ELSE IF l.p # Null THEN l ELSE TopOrMore(l.h, nb)
  BY <1>3 DEF mALLOcAgain, REQUEST_OUT_OF_RANGE, MINSIZE
<1> HIDE DEF bytes
<1>5. CASE bytes >= ULONG - 32
  <2>1. r.h = h /\ r.p = Null
    BY <1>4, <1>5 DEF Found
  <2>2. nb >= ULONG - 25
    BY <1>1, <1>5 DEF bytes
  <2>3. /\ h.curptr \in Nat /\ h.curptr > 0 /\ h.curptr <= mem_heap_end
        /\ topsize(h) \in Nat /\ topsize(h) < h.curptr
    BY EndIs
  <2>4. mem_heap_end \in Nat /\ 2 * mem_heap_end <= ULONG /\ mem_heap_end > 32
    BY Memory
  <2>5. NoFit(h, nb)
    <3> SUFFICES ASSUME NEW q \in Free(h) PROVE h.chunk[q].size < nb
      BY DEF NoFit
    <3>1. q \in DOMAIN h.chunk
      BY FreeIs
    <3>2. h.chunk[q].size \in Nat /\ h.chunk[q].size + 32 < h.curptr
      BY <3>1, SizeBound
    <3> QED BY <1>1, <2>2, <2>3, <2>4, <3>2
  <2>6. mem_heap_end - h.curptr < Up(nb + 16 - topsize(h), pagesize)
    <3> DEFINE t == topsize(h)
               P == Up(nb + 16 - t, pagesize)
               e == h.curptr
    <3>1. t < nb + 16 /\ e \in Nat /\ e > 0 /\ e <= mem_heap_end /\ t \in Nat /\ t < e
      BY <1>1, <2>2, <2>3, <2>4
    <3>2. P \in Nat /\ P >= nb + 16 - t
      BY <3>1, PagesAre
    <3> HIDE DEF P, t, e
    <3>3. mem_heap_end - e < P
      BY <1>1, <2>2, <2>4, <3>1, <3>2
    <3> QED BY <3>3 DEF P, t, e
  <2> QED BY <1>2, <2>1, <2>5, <2>6 DEF Answered, Full
<1>6. CASE ~(bytes >= ULONG - 32)
  <2>1. Listed(h, l, U, nb)
    BY <1>1, <1>2, FromListsIsOK
  <2> HIDE DEF l
  <2>2. CASE l.p # Null
    <3>1. r = l
      BY <1>4, <1>6, <2>2
    <3> QED BY <2>1, <2>2, <3>1 DEF Listed, Answered
  <2>3. CASE l.p = Null
    <3>1. Refused(h, l, U, nb) /\ ~l.h.fastchunks
      BY <2>1, <2>3 DEF Listed
    <3>2. r = TopOrMore(l.h, nb)
      BY <1>4, <1>6, <2>3
    <3>3. Searching(l.h, U, nb) /\ Keeps(h, l.h, U)
      BY <3>1, RefusedIs
    <3>4. Answered(l.h, r, U, nb)
      BY <3>1, <3>2, <3>3, TopOrMoreIsOK
    <3> QED BY <3>3, <3>4, GaveAfter
  <2> QED BY <2>2, <2>3
<1> QED BY <1>5, <1>6

LEMMA FromTopIsOK ==
  ASSUME NEW h, NEW U, NEW nb, Searching(h, U, nb), NEW r, r = FromTop(h, nb)
  PROVE  Answered(h, r, U, nb)
<1> DEFINE m == malloc_consolidate(h)
<1>1. HeapOK(h, U, {}) /\ h.max_fast # 0 /\ Moderate(nb) /\ nb \in Nat
  BY DEF Searching, Moderate, IsSize
<1>2. topsize(h) \in Nat
  BY <1>1, EndIs
<1>3. CASE topsize(h) < nb + 16 /\ h.fastchunks
  <2>1. r = mALLOcAgain(m, nb - 7)
    BY <1>3 DEF FromTop, MINSIZE
  <2>2. /\ HeapOK(m, U, {}) /\ FastChunks(m) = {} /\ ~m.fastchunks
        /\ SameBut(h, m, DrainFields) /\ Keeps(h, m, U)
    BY <1>1, ConsolidateIsOK
  <2> HIDE DEF m
  <2>3. m.max_fast # 0
    BY <1>1, <2>2 DEF SameBut, DrainFields, FreeFields, Fields
  <2>4. Answered(m, r, U, nb)
    BY <1>1, <2>1, <2>2, <2>3, AgainIsOK
  <2> QED BY <2>2, <2>4, GaveAfter
<1>4. CASE ~(topsize(h) < nb + 16 /\ h.fastchunks)
  <2>1. r = TopOrMore(h, nb)
    BY <1>4 DEF FromTop, MINSIZE
  <2>2. topsize(h) >= nb + 16 \/ ~h.fastchunks
    BY <1>1, <1>2, <1>4
  <2> QED BY <2>1, <2>2, TopOrMoreIsOK
<1> QED BY <1>3, <1>4

\* The chunk is the best there is.
Best(h, p, nb) == Fits(h, p, nb) \/ Remainder(h, p) \/ NoFit(h, nb)

\* What malloc answers
Malloced(h, r, U, bytes) ==
  LET nb == request2size(bytes) IN
  IF r.p = Null
  THEN /\ HeapOK(r.h, U, {}) /\ Known(r.h) /\ Keeps(h, r.h, U)
       /\ bytes >= ULONG - 32 \/ Full(r.h, nb)
  ELSE Gave(h, r, U, nb) /\ nb >= bytes + 4 /\ (~h.fastchunks => Best(h, r.p, nb))

LEMMA mALLOcIsOK ==
  ASSUME NEW h, NEW U, HeapOK(h, U, {}), Known(h), NEW bytes \in Nat,
         NEW r, r = mALLOc(h, bytes)
  PROVE  Malloced(h, r, U, bytes)
<1> DEFINE nb == request2size(bytes)
           l == FromLists(h, nb)
<1>1. r = IF bytes >= ULONG - 32 THEN Found(h, Null)
          ELSE IF l.p # Null THEN l ELSE FromTop(l.h, nb)
  BY DEF mALLOc, REQUEST_OUT_OF_RANGE, MINSIZE
<1>2. CASE bytes >= ULONG - 32
  <2>1. r.h = h /\ r.p = Null /\ Keeps(h, h, U)
    BY <1>1, <1>2 DEF Found, Keeps
  <2> QED BY <1>2, <2>1 DEF Malloced
<1>3. CASE ~(bytes >= ULONG - 32)
  <2>1. Moderate(nb) /\ nb >= bytes + 4 /\ IsSize(nb)
    <3>1. bytes < ULONG - 32
      BY <1>3, Memory
    <3> QED BY <3>1, RequestIs DEF Moderate
  <2> HIDE DEF nb
  <2>2. Listed(h, l, U, nb)
    BY <2>1, FromListsIsOK
  <2> HIDE DEF l
  <2>3. CASE l.p # Null
    <3>1. r = l
      BY <1>1, <1>3, <2>3
    <3> QED BY <2>1, <2>2, <2>3, <3>1 DEF Listed, Malloced, Best, nb
  <2>4. CASE l.p = Null
    <3>1. Refused(h, l, U, nb) /\ (~h.fastchunks => NoFit(h, nb))
      BY <2>2, <2>4 DEF Listed
    <3>2. r = FromTop(l.h, nb)
      BY <1>1, <1>3, <2>4
    <3>3. Searching(l.h, U, nb) /\ Keeps(h, l.h, U)
      BY <2>1, <3>1, RefusedIs
    <3>4. Answered(h, r, U, nb)
      BY <3>2, <3>3, FromTopIsOK, GaveAfter
    <3> QED BY <2>1, <3>1, <3>4 DEF Answered, Malloced, Best, nb
  <2> QED BY <2>3, <2>4
<1> QED BY <1>2, <1>3

-----------------------------------------------------------------------------
(* mem_alloc and mem_free *)

LEMMA LentIsOK ==
  ASSUME NEW h, NEW U, HeapOK(h, U, {}), Known(h), NEW p \in U, NEW g, g = Lent(h, p)
  PROVE  /\ HeapOK(g, U, {}) /\ Known(g)
         /\ \A q \in DOMAIN h.chunk : g.chunk[q].size = h.chunk[q].size
<1>1. /\ Tiled(h.chunk, h.top, h.curptr, Free(h) \cup {}, U \cup FastChunks(h))
      /\ h.max_fast # 0 /\ DOMAIN h = Fields /\ h.curptr \in Nat /\ h.curptr <= mem_heap_end
      /\ U \cap FastChunks(h) = {} /\ {} \cap Free(h) = {}
  BY DEF HeapOK, Laid, Shaped
<1> DEFINE n == p + h.chunk[p].size
           d == [h.chunk EXCEPT ![n].prev_size = 0]
<1>2. g = [h EXCEPT !.chunk = d]
  BY <1>1 DEF Lent, next_chunk
<1>3. p \in U \cup FastChunks(h)
  OBVIOUS
<1>4. Tiled(d, h.top, h.curptr, Free(h) \cup {}, U \cup FastChunks(h))
  BY <1>1, <1>3, LentIsTiled
<1>5. \A q \in DOMAIN h.chunk : d[q].size = h.chunk[q].size
  <2>1. h.chunk \in [DOMAIN h.chunk -> Header]
    BY <1>1 DEF Tiled
  <2> QED BY <2>1 DEF Header
<1>6. \A q \in Free(h) \cup FastChunks(h) : d[q].size = h.chunk[q].size
  BY <1>1, <1>5 DEF Tiled
<1> HIDE DEF d, n
<1>7. /\ SameBut(h, g, {"chunk"}) /\ SameBut(h, g, {"chunk", "top", "curptr", "last_remainder"})
      /\ g.chunk = d /\ g.top = h.top /\ g.curptr = h.curptr
  BY <1>1, <1>2 DEF SameBut, Fields
<1>8. HeapOK(g, U, {})
  BY <1>1, <1>4, <1>6, <1>7, Rechunked
<1>9. Known(g)
  BY <1>7 DEF Known, SameBut, Fields, FastChunks
<1> QED BY <1>5, <1>7, <1>8, <1>9

\* A length whose words do not go over the last unsigned long is asked in full.
LEMMA WordsAre ==
  ASSUME NEW length \in Nat, length < ULONG
  PROVE  LET w == words(length) * LONG IN
         /\ w \in Nat
         /\ w % ULONG > length => w % ULONG = w
         /\ w % ULONG <= length => w <= length \/ w >= ULONG - 32
<1> DEFINE y == length + 3
           m == y % ULONG
           k == m \div 4
           w == words(length) * LONG
<1>1. ULONG \in Nat /\ ULONG >= 64
  BY Memory
<1>2. m = (IF y < ULONG THEN y ELSE y - ULONG)
  BY <1>1
<1>3. m \in Nat /\ k \in Nat /\ 4 * k <= m /\ m < 4 * k + 4
  BY <1>1, <1>2
<1>4. words(length) = k + 4
  <2>1. length + 4 - 1 = y
    OBVIOUS
  <2> QED BY <2>1 DEF words, LONG
<1> HIDE DEF k, m
<1>5. w = 4 * k + 16
  BY <1>3, <1>4 DEF LONG
<1> HIDE DEF w
<1>6. w \in Nat /\ w <= m + 16 /\ w >= 16
  BY <1>3, <1>5
<1>7. CASE w < ULONG
  <2>1. w % ULONG = w
    BY <1>1, <1>6, <1>7
  <2> QED BY <1>6, <2>1 DEF w
<1>8. CASE ~(w < ULONG)
  <2>1. y < ULONG /\ m = y
    BY <1>1, <1>2, <1>6, <1>8
  <2>2. w - ULONG \in 0..15 /\ length >= ULONG - 19
    BY <1>1, <1>6, <1>8, <2>1
  <2>3. w % ULONG = w - ULONG
    <3> DEFINE z == w - ULONG
    <3>1. z \in 0..ULONG-1 /\ w = z + ULONG
      BY <1>1, <1>6, <2>2
    <3> HIDE DEF z
    <3>2. (z + ULONG) % ULONG = z
      BY <1>1, <3>1
    <3> QED BY <3>1, <3>2 DEF z
  <2>4. ~(w % ULONG > length)
    BY <1>1, <2>2, <2>3
  <2> QED BY <1>1, <1>6, <1>8, <2>4 DEF w
<1> QED BY <1>7, <1>8

\* What mem_alloc answers
MemGave(h, r, U, length) ==
  LET w == words(length) * LONG IN
  /\ Known(r.h) /\ Keeps(h, r.h, U)
  /\ IF r.p = Null
     THEN /\ HeapOK(r.h, U, {})
          /\ \/ length = 0 \/ w <= length \/ w >= ULONG - 32
             \/ Full(r.h, request2size(w))
     ELSE /\ HeapOK(r.h, U \cup {r.p}, {}) /\ r.p \notin U /\ length # 0
          /\ r.h.chunk[r.p].size >= w + 4
          /\ ~h.fastchunks => Best(h, r.p, request2size(w))

LEMMA mem_allocIsOK ==
  ASSUME NEW h, NEW U, HeapOK(h, U, {}), Known(h), NEW length \in Nat, length < ULONG,
         NEW r, r = mem_alloc(h, length)
  PROVE  MemGave(h, r, U, length)
<1> DEFINE w == words(length) * LONG
           l2 == w % ULONG
           a == mALLOc(h, l2)
<1>1. w \in Nat /\ (l2 > length => l2 = w) /\ (l2 <= length => w <= length \/ w >= ULONG - 32)
  BY WordsAre
<1>2. l2 \in Nat
  BY <1>1, Memory
<1>3. r = IF length = 0 \/ l2 <= length THEN Found(h, Null) ELSE Guarded(a)
  BY DEF mem_alloc
<1> HIDE DEF l2, a
<1>4. CASE length = 0 \/ l2 <= length
  <2>1. r.h = h /\ r.p = Null /\ Keeps(h, h, U)
    BY <1>3, <1>4 DEF Found, Keeps
  <2> QED BY <1>1, <1>4, <2>1 DEF MemGave
<1>5. CASE ~(length = 0 \/ l2 <= length)
  <2>1. l2 = w /\ length # 0
    BY <1>1, <1>2, <1>5
  <2>2. Malloced(h, a, U, w)
    <3>1. Malloced(h, a, U, l2)
      BY <1>2, mALLOcIsOK DEF a
    <3> QED BY <2>1, <3>1
  <2>3. r = Guarded(a)
    BY <1>3, <1>5
  <2> DEFINE nb == request2size(w)
  <2> HIDE DEF w
  <2>4. CASE a.p = Null
    <3>1. r = a
      BY <2>3, <2>4 DEF Guarded
    <3>2. HeapOK(a.h, U, {}) /\ Known(a.h) /\ Keeps(h, a.h, U)
          /\ (w >= ULONG - 32 \/ Full(a.h, nb))
      BY <2>2, <2>4 DEF Malloced
    <3> QED BY <2>4, <3>1, <3>2 DEF MemGave, w
  <2>5. CASE a.p # Null
    <3> DEFINE g == Lent(a.h, a.p)
               V == U \cup {a.p}
    <3>1. r.h = g /\ r.p = a.p
      BY <2>3, <2>5 DEF Guarded, Found
    <3>2. /\ HeapOK(a.h, V, {}) /\ Known(a.h) /\ Keeps(h, a.h, U) /\ a.p \notin U
          /\ a.h.chunk[a.p].size >= nb /\ nb >= w + 4
          /\ (~h.fastchunks => Best(h, a.p, nb))
      BY <2>2, <2>5 DEF Malloced, Gave
    <3>3. a.p \in V /\ U \subseteq V
      OBVIOUS
    <3> HIDE DEF V, g
    <3>4. HeapOK(g, V, {}) /\ Known(g)
          /\ \A q \in DOMAIN a.h.chunk : g.chunk[q].size = a.h.chunk[q].size
      BY <3>2, <3>3, LentIsOK DEF g
    <3>5. V \subseteq DOMAIN a.h.chunk
      <4>1. Tiled(a.h.chunk, a.h.top, a.h.curptr, Free(a.h) \cup {}, V \cup FastChunks(a.h))
        BY <3>2, <3>3 DEF HeapOK, Laid
      <4> QED BY <4>1 DEF Tiled
    <3>6. g.chunk[a.p].size >= w + 4 /\ Keeps(h, g, U)
      <4>1. g.chunk[a.p].size = a.h.chunk[a.p].size /\ a.h.chunk[a.p].size \in Nat
        BY <3>2, <3>3, <3>4, <3>5, SizeBound
      <4>2. nb \in Int
        <5>1. Moderate(nb) \/ w >= ULONG - 32
          BY <1>1, Memory, RequestIs
        <5>2. CASE w >= ULONG - 32
          BY <1>1 DEF request2size, Down, SIZE_SZ, MINSIZE, MALLOC_ALIGNMENT
        <5> QED BY <5>1, <5>2 DEF Moderate, IsSize
      <4>3. a.h.chunk[a.p].size >= w + 4
        <5> HIDE DEF nb
        <5> QED BY <1>1, <3>2, <4>1, <4>2
      <4> QED BY <4>1, <4>3, <3>2, <3>3, <3>4, <3>5 DEF Keeps
    <3>7. V = U \cup {r.p}
      BY <3>1 DEF V
    <3>8. HeapOK(r.h, U \cup {r.p}, {})
      BY <3>1, <3>4, <3>7, Zenon
    <3>9. r.p # Null /\ r.p \notin U /\ r.h.chunk[r.p].size >= w + 4
          /\ Known(r.h) /\ Keeps(h, r.h, U)
          /\ (~h.fastchunks => Best(h, r.p, nb))
      BY <2>5, <3>1, <3>2, <3>4, <3>6
    <3> QED BY <2>1, <3>8, <3>9 DEF MemGave, w
  <2> QED BY <2>4, <2>5
<1> QED BY <1>4, <1>5

-----------------------------------------------------------------------------
(* The heap and its blocks *)

\* The heap is in order, and each block lies in a chunk of its own.
HeapInv ==
  /\ HeapOK(heap, HandedOut, {}) /\ Known(heap)
  /\ \A a, b \in blocks : chunk_of(a) = chunk_of(b) => a = b
  /\ \A b \in blocks : b.bytes \in Nat /\ b.bytes + 4 <= SizeOf(chunk_of(b))

LEMMA StartIsOK == HeapOK(malloc_state, {}, {}) /\ Known(malloc_state)
<1> DEFINE h == malloc_state
<1>1. /\ DOMAIN h = Fields /\ h.max_fast = 0 /\ h.anychunks \in BOOLEAN /\ h.fastchunks \in BOOLEAN
      /\ ~h.anychunks
      /\ h.binmap = {} /\ h.top = Null /\ h.curptr = mem_heap /\ h.chunk = <<>>
      /\ h.bins = [i \in Bins |-> <<>>] /\ h.fastbins = [i \in Fastbins |-> <<>>]
  BY DEF malloc_state, Fields
<1> HIDE DEF h
<1>2. Lists(h.bins, Bins) /\ Lists(h.fastbins, Fastbins)
  BY <1>1 DEF Lists, Once
<1>3. \A i \in Bins : h.bins[i] = <<>> /\ ToSet(h.bins[i]) = {}
  BY <1>1 DEF ToSet
<1>4. \A i \in Fastbins : h.fastbins[i] = <<>> /\ ToSet(h.fastbins[i]) = {}
  BY <1>1 DEF ToSet
<1>5. Free(h) = {} /\ FastChunks(h) = {}
  BY <1>3, <1>4 DEF Free, FastChunks
<1>6. Shaped(h)
  BY <1>1, <1>2, Memory DEF Shaped
<1>7. DOMAIN h.chunk = {} /\ h.chunk \in [DOMAIN h.chunk -> Header]
  BY <1>1
<1>8. Laid(h, {}, {})
  BY <1>1, <1>5, <1>7 DEF Laid
<1>9. Sorted(h) /\ FastSorted(h)
  <2>1. Descending(h.chunk, <<>>)
    BY DEF Descending
  <2>2. Sorted(h)
    BY <1>3, <2>1 DEF Sorted
  <2>3. FastSorted(h)
    BY <1>4 DEF FastSorted
  <2> QED BY <2>2, <2>3
<1> QED BY <1>1, <1>5, <1>6, <1>8, <1>9 DEF HeapOK, Known, h

LEMMA BlockIs ==
  ASSUME NEW p \in Int, NEW length
  PROVE  chunk_of(Block(p, length)) = p /\ Block(p, length).bytes = words(length) * LONG
<1>1. Block(p, length).zone = p + 2 * SIZE_SZ + 2 * LONG
      /\ Block(p, length).bytes = words(length) * LONG
  BY DEF Block, chunk2mem
<1> QED BY <1>1 DEF chunk_of, mem2chunk, LONG, SIZE_SZ

LEMMA HandedAre ==
  ASSUME HeapInv, NEW p \in HandedOut
  PROVE  p \in DOMAIN heap.chunk /\ p \in Int /\ heap.chunk[p].size \in Int
<1>1. HeapOK(heap, HandedOut, {})
  BY DEF HeapInv
<1>2. Tiled(heap.chunk, heap.top, heap.curptr, Free(heap) \cup {}, HandedOut \cup FastChunks(heap))
  BY <1>1 DEF HeapOK, Laid
<1>3. p \in DOMAIN heap.chunk /\ p \in Int
  BY <1>2 DEF Tiled
<1> QED BY <1>1, <1>3, SizeBound

\* A block is added, or taken away, and the chunks of the others keep their sizes.
LEMMA MemAllocInv ==
  ASSUME HeapInv, NEW length \in Lengths, MemAlloc(length)
  PROVE  HeapInv'
<1> DEFINE U == HandedOut
           r == mem_alloc(heap, length)
<1>1. /\ HeapOK(heap, U, {}) /\ Known(heap)
      /\ \A a, b \in blocks : chunk_of(a) = chunk_of(b) => a = b
      /\ \A b \in blocks : b.bytes \in Nat /\ b.bytes + 4 <= heap.chunk[chunk_of(b)].size
      /\ \A b \in blocks : chunk_of(b) \in U
  BY DEF HeapInv, HandedOut, SizeOf
<1>2. length \in Nat /\ length < ULONG
  BY LengthsAssumption, Memory
<1>3. MemGave(heap, r, U, length)
  BY <1>1, <1>2, mem_allocIsOK
<1>4. heap' = r.h /\ blocks' = blocks \union (IF r.p = Null THEN {} ELSE {Block(r.p, length)})
  BY DEF MemAlloc
<1>5. HandedOut' = {chunk_of(b) : b \in blocks'}
  BY DEF HandedOut
<1> HIDE DEF r, U
<1>6. /\ Known(heap')
      /\ \A b \in blocks : b.bytes \in Nat /\ b.bytes + 4 <= heap'.chunk[chunk_of(b)].size
  BY <1>1, <1>3, <1>4 DEF MemGave, Keeps
<1>7. CASE r.p = Null
  <2>1. blocks' = blocks
    BY <1>4, <1>7
  <2>2. HandedOut' = U
    BY <2>1, <1>5 DEF U, HandedOut
  <2>3. HeapOK(heap', HandedOut', {})
    BY <2>2, <1>3, <1>4, <1>7 DEF MemGave
  <2> QED BY <1>1, <1>6, <2>1, <2>3 DEF HeapInv, SizeOf
<1>8. CASE r.p # Null
  <2> DEFINE new == Block(r.p, length)
             p == r.p
             w == words(length) * LONG
             V == U \cup {p}
  <2>1. /\ HeapOK(heap', V, {}) /\ p \notin U
        /\ heap'.chunk[p].size >= w + 4 /\ blocks' = blocks \cup {new}
    BY <1>3, <1>4, <1>8 DEF MemGave
  <2>2. p \in V
    OBVIOUS
  <2>3. w \in Nat
    BY <1>2, WordsAre
  <2> HIDE DEF V, p, w
  <2>4. p \in DOMAIN heap'.chunk /\ p \in Nat
    BY <2>1, <2>2 DEF HeapOK, Laid, Tiled
  <2>5. chunk_of(new) = p /\ new.bytes = w
    BY <2>4, BlockIs DEF p, w
  <2>6. heap'.chunk[p].size \in Nat
    BY <2>1, <2>4, SizeBound
  <2> HIDE DEF new
  <2>7. HandedOut' = V
    BY <1>5, <2>1, <2>5 DEF U, HandedOut, V
  <2>8. \A a, b \in blocks' : chunk_of(a) = chunk_of(b) => a = b
    BY <1>1, <2>1, <2>5
  <2>9. \A b \in blocks' : b.bytes \in Nat /\ b.bytes + 4 <= heap'.chunk[chunk_of(b)].size
    <3>1. new.bytes \in Nat /\ new.bytes + 4 <= heap'.chunk[chunk_of(new)].size
      BY <2>1, <2>3, <2>5, <2>6
    <3> QED BY <1>6, <2>1, <3>1
  <2>10. HeapOK(heap', HandedOut', {})
    BY <2>1, <2>7, Zenon
  <2> QED BY <1>6, <2>8, <2>9, <2>10 DEF HeapInv, SizeOf
<1> QED BY <1>7, <1>8

LEMMA MemFreeInv ==
  ASSUME HeapInv, NEW b \in blocks, NEW length, MemFree(b, length)
  PROVE  HeapInv'
<1> DEFINE U == HandedOut
           p == chunk_of(b)
           V == U \ {p}
<1>1. /\ HeapOK(heap, U, {}) /\ Known(heap) /\ p \in U
      /\ \A a, c \in blocks : chunk_of(a) = chunk_of(c) => a = c
      /\ \A a \in blocks : a.bytes \in Nat /\ a.bytes + 4 <= heap.chunk[chunk_of(a)].size
      /\ \A a \in blocks : chunk_of(a) \in U
  BY DEF HeapInv, HandedOut, SizeOf
<1>2. heap' = fREe(heap, p) /\ blocks' = blocks \ {b}
  BY DEF MemFree
<1>3. HandedOut' = {chunk_of(a) : a \in blocks'} /\ U = {chunk_of(a) : a \in blocks}
  BY DEF HandedOut
<1> HIDE DEF U
<1>4. HeapOK(heap', V, {}) /\ Known(heap') /\ Keeps(heap, heap', V)
  BY <1>1, <1>2, fREeIsOK
<1>5. HandedOut' = V
  BY <1>1, <1>2, <1>3
<1>6. \A a \in blocks' : chunk_of(a) \in V /\ a \in blocks
  BY <1>1, <1>2
<1>7. \A a \in blocks' : a.bytes \in Nat /\ a.bytes + 4 <= heap'.chunk[chunk_of(a)].size
  BY <1>1, <1>4, <1>6 DEF Keeps
<1>8. HeapOK(heap', HandedOut', {})
  BY <1>4, <1>5, Zenon
<1> QED BY <1>1, <1>4, <1>6, <1>7, <1>8 DEF HeapInv, SizeOf

LEMMA HeapInvInit == HeapInit => HeapInv
<1> SUFFICES ASSUME HeapInit PROVE HeapInv
  OBVIOUS
<1>1. heap = malloc_state /\ blocks = {}
  BY DEF HeapInit
<1>2. HandedOut = {}
  BY <1>1 DEF HandedOut
<1> QED BY <1>1, <1>2, StartIsOK DEF HeapInv

LEMMA HeapInvStep == HeapInv /\ [HeapNext]_heapvars => HeapInv'
<1> SUFFICES ASSUME HeapInv, [HeapNext]_heapvars PROVE HeapInv'
  OBVIOUS
<1>1. CASE HeapNext
  <2>1. PICK length \in Lengths :
          MemAlloc(length) \/ \E b \in blocks : MemFree(b, length) \/ MemFreeWrongly(b, length)
    BY <1>1 DEF HeapNext
  <2>2. CASE MemAlloc(length)
    BY <2>2, MemAllocInv
  <2>3. ASSUME NEW b \in blocks, MemFree(b, length) PROVE HeapInv'
    BY <2>3, MemFreeInv
  <2>4. ASSUME NEW b \in blocks, MemFreeWrongly(b, length) PROVE HeapInv'
    BY <2>4 DEF MemFreeWrongly, HeapInv, HandedOut, SizeOf
  <2> QED BY <2>1, <2>2, <2>3, <2>4
<1>2. CASE UNCHANGED heapvars
  BY <1>2 DEF heapvars, HeapInv, HandedOut, SizeOf
<1> QED BY <1>1, <1>2

LEMMA HeapInvAlways == HeapSpec => []HeapInv
BY HeapInvInit, HeapInvStep, PTL DEF HeapSpec

-----------------------------------------------------------------------------
(* What the invariant says between two calls *)

LEMMA HeapIsTiled ==
  ASSUME HeapInv, Chunks # {}
  PROVE  Tiled(heap.chunk, heap.top, heap.curptr, InBins, HandedOut \cup InFastbins)
<1>1. Tiled(heap.chunk, heap.top, heap.curptr, InBins \cup {}, HandedOut \cup InFastbins)
  BY DEF HeapInv, HeapOK, Laid, Chunks, InBins, InFastbins
<1>2. InBins \cup {} = InBins
  OBVIOUS
<1> QED BY <1>1, <1>2

\* The chunk behind a free one is in use, and so is the one before it, or before top.
LEMMA PreviousInUse ==
  ASSUME NEW c, NEW top, NEW cur, NEW F, NEW U, Tiled(c, top, cur, F, U),
         NEW q \in F \cup {top}
  PROVE  c[q].prev_inuse
<1>1. CASE q = Base
  BY <1>1 DEF Tiled
<1>2. CASE q # Base
  <2>1. PICK p \in F \cup U : p + c[p].size = q
    BY <1>2 DEF Tiled
  <2>2. p \notin F
    BY <2>1 DEF Tiled
  <2> QED BY <2>1, <2>2 DEF Tiled
<1> QED BY <1>1, <1>2

LEMMA LowestIsBase ==
  ASSUME NEW c, NEW top, NEW cur, NEW F, NEW U, Tiled(c, top, cur, F, U)
  PROVE  Min(DOMAIN c) = Base
<1> DEFINE T == DOMAIN c
<1>1. Base \in T /\ Base \in Nat /\ \A p \in T : p \in Nat /\ p >= Base
  BY DEF Tiled
<1> HIDE DEF T
<1>2. \E x \in T : \A y \in T : x <= y
  BY <1>1
<1>3. Min(T) \in T /\ \A y \in T : Min(T) <= y
  BY <1>2 DEF Min
<1>4. Min(T) \in Nat /\ Min(T) <= Base /\ Min(T) >= Base
  BY <1>1, <1>3
<1> QED BY <1>1, <1>4 DEF T

LEMMA TagsHold ==
  ASSUME HeapInv
  PROVE  TagsAreRight
<1> SUFFICES ASSUME Chunks # {} PROVE TagsAreRight
  BY DEF TagsAreRight
<1> DEFINE c == heap.chunk
           U == HandedOut \cup InFastbins
<1>1. Tiled(c, heap.top, heap.curptr, InBins, U) /\ Chunks = DOMAIN c
  BY HeapIsTiled DEF Chunks
<1>2. /\ heap.top \in Chunks /\ heap.top + topsize(heap) = heap.curptr
      /\ topsize(heap) >= MINSIZE
  BY TopIs DEF HeapInv, Chunks, MINSIZE
<1> HIDE DEF c, U
<1>3. c[heap.top].prev_inuse /\ c[Min(Chunks)].prev_inuse
  BY <1>1, PreviousInUse, LowestIsBase DEF Tiled
<1>4. \A p, q \in Chunks : p < q => next_chunk(heap, p) <= q
  BY <1>1 DEF Tiled, next_chunk, c
<1>5. ASSUME NEW p \in Inside
      PROVE  /\ SizeOf(p) >= MINSIZE /\ SizeOf(p) % 8 = 0 /\ chunk2mem(p) % 8 = 0
             /\ next_chunk(heap, p) \in Chunks
             /\ inuse(heap, p) <=> p \notin InBins
             /\ p \in InBins => heap.chunk[next_chunk(heap, p)].prev_size = SizeOf(p)
  <2>1. p \in InBins \cup U /\ p \in Nat /\ p % 8 = 0
    BY <1>1 DEF Tiled, Inside
  <2>2. next_chunk(heap, p) = p + c[p].size /\ SizeOf(p) = c[p].size
    BY DEF next_chunk, SizeOf, c
  <2>3. chunk2mem(p) % 8 = 0
    <3>1. chunk2mem(p) = p + 8
      BY <2>1 DEF chunk2mem, SIZE_SZ
    <3> QED BY <2>1, <3>1
  <2>4. c[p].size >= MINSIZE /\ c[p].size % 8 = 0 /\ p + c[p].size \in Chunks
    BY <1>1, <2>1 DEF Tiled, MINSIZE
  <2>5. c[p + c[p].size].prev_inuse <=> p \notin InBins
    BY <1>1, <2>1 DEF Tiled
  <2>6. p \in InBins => c[p + c[p].size].prev_size = c[p].size
    BY <1>1 DEF Tiled
  <2>7. inuse(heap, p) <=> p \notin InBins
    BY <2>2, <2>5 DEF inuse, c
  <2> QED BY <2>2, <2>3, <2>4, <2>6, <2>7 DEF c
<1> QED BY <1>2, <1>3, <1>4, <1>5 DEF TagsAreRight, c

LEMMA NothingLost ==
  ASSUME HeapInv
  PROVE  NothingIsLost
<1>1. Once(heap.bins) /\ Once(heap.fastbins)
  BY DEF HeapInv, HeapOK, Shaped, Lists
<1>2. CASE Chunks = {}
  <2>1. HandedOut = {} /\ InBins = {} /\ InFastbins = {}
    BY <1>2 DEF HeapInv, HeapOK, Laid, Chunks, InBins, InFastbins
  <2> QED BY <1>1, <1>2, <2>1 DEF NothingIsLost, Inside
<1>3. CASE Chunks # {}
  <2>1. Tiled(heap.chunk, heap.top, heap.curptr, InBins, HandedOut \cup InFastbins)
    BY <1>3, HeapIsTiled
  <2>2. Chunks \ {heap.top} = InBins \cup (HandedOut \cup InFastbins)
        /\ InBins \cap InFastbins = {}
    BY <2>1 DEF Tiled, Chunks
  <2> QED BY <1>1, <2>2 DEF NothingIsLost, Inside
<1> QED BY <1>2, <1>3

LEMMA FreeApart ==
  ASSUME HeapInv
  PROVE  FreeChunksAreApart
<1> SUFFICES ASSUME NEW p \in InBins
             PROVE  /\ heap.chunk[p].prev_inuse
                    /\ next_chunk(heap, p) \notin InBins \union {heap.top}
  BY DEF FreeChunksAreApart
<1>1. Chunks # {}
  BY DEF HeapInv, HeapOK, Laid, Chunks, InBins
<1>2. Tiled(heap.chunk, heap.top, heap.curptr, InBins, HandedOut \cup InFastbins)
  BY <1>1, HeapIsTiled
<1>3. heap.chunk[p].prev_inuse
  BY <1>2, PreviousInUse
<1>4. p + heap.chunk[p].size \in HandedOut \cup InFastbins
  BY <1>2 DEF Tiled
<1>5. p + heap.chunk[p].size \notin InBins \union {heap.top}
  BY <1>2, <1>4 DEF Tiled
<1> QED BY <1>3, <1>5 DEF next_chunk

LEMMA BinsHold ==
  ASSUME HeapInv
  PROVE  BinsAreRight
<1>1. /\ Shaped(heap) /\ Sorted(heap) /\ FastSorted(heap) /\ Known(heap)
      /\ InBins # {} => heap.anychunks
  BY DEF HeapInv, HeapOK, InBins
<1>2. ASSUME NEW i \in Bins \ {unsorted}, NEW n \in 1..Len(heap.bins[i])
      PROVE  /\ i \in heap.binmap /\ bin_index(SizeOf(heap.bins[i][n])) = i
             /\ n > 1 => SizeOf(heap.bins[i][n]) <= SizeOf(heap.bins[i][n - 1])
  <2> DEFINE s == heap.bins[i]
  <2>1. s \in Seq(Nat)
    BY <1>1, ListFacts DEF Shaped
  <2>2. /\ s # <<>> => i \in heap.binmap
        /\ \A q \in ToSet(s) : bin_index(heap.chunk[q].size) = i
        /\ Descending(heap.chunk, s)
    BY <1>1 DEF Sorted
  <2> HIDE DEF s
  <2>3. n \in 1..Len(s) /\ DOMAIN s = 1..Len(s)
    BY <2>1 DEF s
  <2>4. s # <<>> /\ s[n] \in ToSet(s)
    BY <2>1, <2>3 DEF ToSet
  <2>5. n > 1 => n - 1 \in DOMAIN s /\ n \in DOMAIN s /\ n - 1 < n
    BY <2>1, <2>3
  <2>6. n > 1 => heap.chunk[s[n]].size <= heap.chunk[s[n - 1]].size
    BY <2>2, <2>5 DEF Descending
  <2> QED BY <2>2, <2>4, <2>6 DEF SizeOf, s
<1>3. ASSUME NEW i \in Fastbins, NEW p \in ToSet(heap.fastbins[i])
      PROVE  heap.fastchunks /\ fastbin_index(SizeOf(p)) = i /\ SizeOf(p) <= heap.max_fast
  <2>1. p \in FastChunks(heap)
    BY DEF FastChunks
  <2>2. heap.fastchunks
    BY <1>1, <2>1 DEF Known
  <2> QED BY <1>1, <2>2 DEF FastSorted, SizeOf
<1> QED BY <1>1, <1>2, <1>3 DEF BinsAreRight

\* A block lies in a chunk that is neither top nor in a list of free chunks.
LEMMA BlocksWhole ==
  ASSUME HeapInv
  PROVE  BlocksAreWhole
<1> SUFFICES ASSUME NEW b \in blocks
             PROVE  /\ chunk_of(b) \in Inside \ (InBins \union InFastbins)
                    /\ b.bytes <= SizeOf(chunk_of(b)) - SIZE_SZ
  BY DEF BlocksAreWhole, HeapInv
<1> DEFINE p == chunk_of(b)
<1>1. p \in HandedOut
  BY DEF HandedOut
<1>2. p \in Chunks /\ SizeOf(p) \in Int
  BY <1>1, HandedAre DEF Chunks, SizeOf
<1>3. Tiled(heap.chunk, heap.top, heap.curptr, InBins, HandedOut \cup InFastbins)
  BY <1>2, HeapIsTiled
<1>4. HandedOut \cap InFastbins = {}
  BY DEF HeapInv, HeapOK, Laid, InFastbins
<1>5. p \in Inside \ (InBins \union InFastbins)
  BY <1>1, <1>2, <1>3, <1>4 DEF Tiled, Inside, Chunks
<1>6. b.bytes \in Nat /\ b.bytes + 4 <= SizeOf(p)
  BY DEF HeapInv
<1>7. b.bytes <= SizeOf(p) - SIZE_SZ
  BY <1>2, <1>6 DEF SIZE_SZ
<1> QED BY <1>5, <1>7

\* A call that gives nothing leaves a heap with no room for what was asked.
LEMMA RefusalIsRight ==
  ASSUME HeapInv
  PROVE  RefusesOnlyWhenFull
<1> SUFFICES ASSUME NEW length \in Lengths \ {0}, NEW r, r = mem_alloc(heap, length), r.p = Null
             PROVE  \/ words(length) * LONG >= ULONG - 2 * MINSIZE
                    \/ words(length) * LONG <= length
                    \/ NoRoom(r.h, length)
  BY DEF RefusesOnlyWhenFull
<1> DEFINE w == words(length) * LONG
           U == HandedOut
<1>1. length \in Nat /\ length < ULONG /\ length # 0
  BY LengthsAssumption, Memory
<1>2. HeapOK(heap, U, {}) /\ Known(heap)
  BY DEF HeapInv
<1> HIDE DEF U
<1>3. MemGave(heap, r, U, length)
  BY <1>1, <1>2, mem_allocIsOK
<1>4. HeapOK(r.h, U, {}) /\ (w <= length \/ w >= ULONG - 32 \/ Full(r.h, request2size(w)))
  BY <1>1, <1>3 DEF MemGave
<1> HIDE DEF w
<1>5. ASSUME Full(r.h, request2size(w)) PROVE NoRoom(r.h, length)
  <2>1. FastChunks(r.h) = {}
    BY <1>5 DEF Full
  <2>2. \A i \in Fastbins : r.h.fastbins[i] \in Seq(Nat) /\ ToSet(r.h.fastbins[i]) = {}
    <3>1. Lists(r.h.fastbins, Fastbins)
      BY <1>4 DEF HeapOK, Shaped
    <3>2. \A i \in Fastbins : r.h.fastbins[i] \in Seq(Nat)
      BY <3>1, ListFacts
    <3>3. \A i \in Fastbins : ToSet(r.h.fastbins[i]) \subseteq FastChunks(r.h)
      BY DEF FastChunks
    <3> QED BY <2>1, <3>2, <3>3
  <2>3. \A i \in Fastbins : r.h.fastbins[i] = <<>>
    <3> SUFFICES ASSUME NEW i \in Fastbins PROVE r.h.fastbins[i] = <<>>
      OBVIOUS
    <3> DEFINE s == r.h.fastbins[i]
    <3>1. s \in Seq(Nat) /\ ToSet(s) = {}
      BY <2>2
    <3> HIDE DEF s
    <3>2. Len(s) = 0
      <4>1. 1 \notin 1..Len(s)
        BY <3>1, SeqFacts
      <4> QED BY <3>1, <4>1, SeqFacts
    <3> QED BY <3>1, <3>2, SeqFacts DEF s
  <2>4. Asked(length) = request2size(w)
    BY DEF Asked, w
  <2>5. /\ \A p \in Free(r.h) : r.h.chunk[p].size < Asked(length)
        /\ mem_heap_end - r.h.curptr < Up(Asked(length) + MINSIZE - topsize(r.h), pagesize)
    BY <1>5, <2>4 DEF Full, NoFit, MINSIZE
  <2> QED BY <2>3, <2>5 DEF NoRoom
<1> QED BY <1>4, <1>5 DEF w, MINSIZE

LEMMA FitIsBest ==
  ASSUME HeapInv
  PROVE  BestFit
<1> SUFFICES ASSUME ~heap.fastchunks, ~RemainderIsLast, NEW length \in Lengths \ {0},
                    NEW r, r = mem_alloc(heap, length), r.p # Null,
                    NEW p \in Free(heap), SizeOf(p) >= Asked(length)
             PROVE  r.p \in InBins /\ SizeOf(r.p) <= SizeOf(p)
  BY DEF BestFit
<1> DEFINE nb == Asked(length)
           U == HandedOut
<1>1. length \in Nat /\ length < ULONG
  BY LengthsAssumption, Memory
<1>2. HeapOK(heap, U, {}) /\ Known(heap)
  BY DEF HeapInv
<1> HIDE DEF U
<1>3. MemGave(heap, r, U, length)
  BY <1>1, <1>2, mem_allocIsOK
<1>4. Best(heap, r.p, nb) /\ nb \in Int
  <2>1. Best(heap, r.p, nb) /\ words(length) * LONG \in Nat
    BY <1>1, <1>3, WordsAre DEF MemGave, Asked
  <2>2. nb \in Int
    BY <2>1 DEF Asked, request2size, Down, SIZE_SZ, MINSIZE, MALLOC_ALIGNMENT
  <2> QED BY <2>1, <2>2
<1> HIDE DEF nb
<1>5. heap.chunk[p].size >= nb /\ heap.chunk[p].size \in Int
  BY <1>2, FreeIs DEF SizeOf, nb
<1>6. ~NoFit(heap, nb)
  BY <1>4, <1>5 DEF NoFit
<1>7. ~Remainder(heap, r.p)
  BY DEF Remainder, RemainderIsLast
<1>8. Fits(heap, r.p, nb)
  BY <1>4, <1>6, <1>7 DEF Best
<1> QED BY <1>5, <1>8 DEF Fits, InBins, SizeOf

-----------------------------------------------------------------------------
(* The theorems *)

\* After any calls of malloc and free, for any memory and any lengths, a block, its
\* guard words included, lies in one chunk that is its own and in no list of free
\* chunks.
THEOREM BlocksStayWhole == HeapSpec => []BlocksAreWhole
<1>1. HeapInv => BlocksAreWhole
  BY BlocksWhole
<1> QED BY <1>1, HeapInvAlways, PTL

\* The chunks tile the memory and their tags say so, no chunk is lost or twice in a
\* list, no two free chunks touch, and each bin holds its own sizes in order: what
\* do_check_malloc_state of malloc.c demands holds after every call.
THEOREM HeapStaysConsistent == HeapSpec => []HeapIsConsistent
<1>1. HeapInv => HeapIsConsistent
  BY TagsHold, NothingLost, FreeApart, BinsHold DEF HeapIsConsistent
<1> QED BY <1>1, HeapInvAlways, PTL

\* mem_alloc gives nothing only for a length no memory can hold, or once every free
\* chunk is merged with its neighbours, none is large enough, and neither is top with
\* the pages that are left.
THEOREM RefusalsAreRight == HeapSpec => []RefusesOnlyWhenFull
<1>1. HeapInv => RefusesOnlyWhenFull
  BY RefusalIsRight
<1> QED BY <1>1, HeapInvAlways, PTL

\* With no fastbin to merge and no last remainder to split, malloc takes the smallest
\* free chunk that is large enough whenever there is one.
THEOREM MallocFitsBest == HeapSpec => []BestFit
<1>1. HeapInv => BestFit
  BY FitIsBest
<1> QED BY <1>1, HeapInvAlways, PTL
=============================================================================
