-------------------------- MODULE PrioQueueProofs --------------------------
(***************************************************************************)
(* What the operators of PrioQueue do to the length, the elements, the     *)
(* absence of repetitions and the order of a queue.                        *)
(***************************************************************************)
EXTENDS PrioQueue, WellFoundedInduction, TLAPS

\* A set of natural numbers that is not empty has a least element.
LEMMA LeastOf ==
  ASSUME NEW T \in SUBSET Nat, T # {}
  PROVE  \E k \in T : \A i \in T : k <= i
<1> DEFINE Below == {ss \in Nat \X Nat : ss[1] < ss[2]}
<1>1. \A i, j \in Nat : i < j => <<i, j>> \in Below
  BY Zenon
<1>2. IsWellFoundedOn(Below, Nat)
  BY NatLessThanWellFounded, Zenon DEF OpToRel
<1> HIDE DEF Below
<1>3. PICK k \in T : \A i \in T : ~ (<<i, k>> \in Below)
  BY <1>2, WFMin, Zenon
<1>4. \A i \in T : ~ (i < k)
  BY <1>1, <1>3, Zenon
<1> QED BY <1>4

\* A set of numbers up to n that is not empty has a greatest element.
LEMMA GreatestOf ==
  ASSUME NEW n \in Nat, NEW T \in SUBSET (0..n), T # {}
  PROVE  \E k \in T : \A i \in T : i <= k
<1> DEFINE U == {n - i : i \in T}
<1>1. U \in SUBSET Nat /\ U # {}
  <2>1. PICK t \in T : TRUE
    OBVIOUS
  <2>2. n - t \in U
    OBVIOUS
  <2>3. \A i \in T : i \in 0..n
    OBVIOUS
  <2>4. \A i \in T : n - i \in Nat
    BY <2>3
  <2> QED BY <2>2, <2>4
<1>2. PICK u \in U : \A w \in U : u <= w
  <2> HIDE DEF U
  <2> QED BY <1>1, LeastOf
<1>3. n - u \in T /\ \A i \in T : i <= n - u
  BY <1>2
<1> QED BY <1>3

-----------------------------------------------------------------------------
\* The scan of queue_add stops somewhere: at the least position that has a
\* priority not below the new one, the end of the queue being one.
LEMMA ScanStops ==
  ASSUME NEW S, NEW e \in S, NEW q \in Seq(S), NEW prio \in [S -> Nat]
  PROVE  LET k == ScanStop(e, q, prio)
         IN  /\ k \in 1..Len(q)+1
             /\ k = Len(q) + 1 \/ prio[q[k]] >= prio[e]
             /\ \A i \in 1..k-1 : prio[q[i]] < prio[e]
<1> DEFINE Stops(k) == k = Len(q) + 1 \/ prio[q[k]] >= prio[e]
           T == {k \in 1..Len(q)+1 : Stops(k)}
<1>1. Len(q) \in Nat /\ \A i \in 1..Len(q) : q[i] \in S
  OBVIOUS
<1>2. T \in SUBSET Nat /\ T # {}
  <2>1. Len(q) + 1 \in T
    BY <1>1
  <2> QED BY <2>1, <1>1
<1>3. PICK k \in T : \A i \in T : k <= i
  <2> HIDE DEF T
  <2> QED BY <1>2, LeastOf
<1>4. \A i \in 1..k-1 : i \notin T
  BY <1>1, <1>3
<1>5. \A i \in 1..k-1 : prio[q[i]] < prio[e]
  BY <1>1, <1>4
<1>6. \E j \in 1..Len(q)+1 :
        /\ j = Len(q) + 1 \/ prio[q[j]] >= prio[e]
        /\ \A i \in 1..j-1 : prio[q[i]] < prio[e]
  BY <1>3, <1>5
<1> QED BY <1>6, Zenon DEF ScanStop

-----------------------------------------------------------------------------
(* queue_add *)

\* queue_add puts e somewhere among the elements, which keep their order.
LEMMA AddPlaces ==
  ASSUME NEW S, NEW e \in S, NEW q \in Seq(S), NEW prio \in [S -> Nat]
  PROVE  /\ queue_add(e, q, prio) \in Seq(S)
         /\ Len(queue_add(e, q, prio)) = Len(q) + 1
         /\ \E k \in 1..Len(q)+1 :
              /\ queue_add(e, q, prio)[k] = e
              /\ \A i \in 1..k-1 : queue_add(e, q, prio)[i] = q[i]
              /\ \A i \in k..Len(q) : queue_add(e, q, prio)[i+1] = q[i]
              /\ k = Len(q) + 1 \/ prio[q[k]] >= prio[e]
              /\ \A i \in 1..k-1 : prio[q[i]] < prio[e]
<1> DEFINE k == ScanStop(e, q, prio)
           r == [i \in 1..Len(q)+1 |->
                   IF i < k THEN q[i] ELSE IF i = k THEN e ELSE q[i-1]]
<1>1. /\ k \in 1..Len(q)+1
      /\ k = Len(q) + 1 \/ prio[q[k]] >= prio[e]
      /\ \A i \in 1..k-1 : prio[q[i]] < prio[e]
  BY ScanStops, Zenon
<1>2. queue_add(e, q, prio) = r
  BY Zenon DEF queue_add
<1> HIDE DEF k
<1>3. \A i \in 1..Len(q)+1 : r[i] \in S
  BY <1>1
<1>4. r \in Seq(S) /\ Len(r) = Len(q) + 1
  BY <1>3
<1>5. /\ r[k] = e
      /\ \A i \in 1..k-1 : r[i] = q[i]
      /\ \A i \in k..Len(q) : r[i+1] = q[i]
  BY <1>1
<1>6. /\ r \in Seq(S) /\ Len(r) = Len(q) + 1
      /\ \E j \in 1..Len(q)+1 :
           /\ r[j] = e
           /\ \A i \in 1..j-1 : r[i] = q[i]
           /\ \A i \in j..Len(q) : r[i+1] = q[i]
           /\ j = Len(q) + 1 \/ prio[q[j]] >= prio[e]
           /\ \A i \in 1..j-1 : prio[q[i]] < prio[e]
  BY <1>1, <1>4, <1>5, Zenon
<1> HIDE DEF r
<1> QED BY <1>2, <1>6, Zenon

\* The elements after queue_add are the elements before and the new one.
LEMMA AddRange ==
  ASSUME NEW S, NEW e \in S, NEW q \in Seq(S), NEW prio \in [S -> Nat]
  PROVE  Range(queue_add(e, q, prio)) = Range(q) \cup {e}
<1> DEFINE r == queue_add(e, q, prio)
<1>1. PICK k \in 1..Len(q)+1 :
        /\ r[k] = e
        /\ \A i \in 1..k-1 : r[i] = q[i]
        /\ \A i \in k..Len(q) : r[i+1] = q[i]
        /\ k = Len(q) + 1 \/ prio[q[k]] >= prio[e]
        /\ \A i \in 1..k-1 : prio[q[i]] < prio[e]
  BY AddPlaces, Zenon
<1>2. r \in Seq(S) /\ Len(r) = Len(q) + 1
  BY AddPlaces
<1> HIDE DEF r
<1>3. \A i \in 1..Len(q)+1 : r[i] \in Range(q) \cup {e}
  <2>1. \A j \in 1..Len(q) : q[j] \in Range(q)
    BY DEF Range
  <2> TAKE i \in 1..Len(q)+1
  <2>2. CASE i < k
    <3>1. i \in 1..k-1 /\ i \in 1..Len(q)
      BY <2>2
    <3> QED BY <3>1, <2>1, <1>1
  <2>3. CASE i = k
    BY <2>3, <1>1
  <2>4. CASE i > k
    <3>1. i - 1 \in k..Len(q) /\ i - 1 \in 1..Len(q) /\ i = (i - 1) + 1
      BY <2>4
    <3>2. r[i] = q[i-1]
      BY <3>1, <1>1
    <3> QED BY <3>1, <3>2, <2>1
  <2> QED BY <2>2, <2>3, <2>4
<1>4. \A i \in 1..Len(q) : q[i] \in Range(r)
  <2>1. \A j \in 1..Len(q)+1 : r[j] \in Range(r)
    <3>1. DOMAIN r = 1..Len(q)+1
      BY <1>2
    <3> QED BY <3>1, Zenon DEF Range
  <2> TAKE i \in 1..Len(q)
  <2>2. CASE i < k
    <3>1. i \in 1..k-1 /\ i \in 1..Len(q)+1
      BY <2>2
    <3> QED BY <3>1, <2>1, <1>1
  <2>3. CASE i >= k
    <3>1. i \in k..Len(q) /\ i + 1 \in 1..Len(q)+1
      BY <2>3
    <3> QED BY <3>1, <2>1, <1>1
  <2> QED BY <2>2, <2>3
<1>5. e \in Range(r)
  <2>1. k \in DOMAIN r /\ r[k] = e
    BY <1>1, <1>2
  <2> QED BY <2>1, Zenon DEF Range
<1>6. Range(r) \subseteq Range(q) \cup {e}
  <2>1. DOMAIN r = 1..Len(q)+1
    BY <1>2
  <2> QED BY <2>1, <1>3 DEF Range
<1>7. Range(q) \subseteq Range(r)
  <2>1. DOMAIN q = 1..Len(q)
    OBVIOUS
  <2> QED BY <2>1, <1>4, Zenon DEF Range
<1> QED BY <1>5, <1>6, <1>7 DEF r

\* queue_add of an element that is not there repeats nothing.
LEMMA AddInjective ==
  ASSUME NEW S, NEW e \in S, NEW q \in Seq(S), NEW prio \in [S -> Nat],
         IsInjective(q), e \notin Range(q)
  PROVE  IsInjective(queue_add(e, q, prio))
<1> DEFINE r == queue_add(e, q, prio)
<1>1. PICK k \in 1..Len(q)+1 :
        /\ r[k] = e
        /\ \A i \in 1..k-1 : r[i] = q[i]
        /\ \A i \in k..Len(q) : r[i+1] = q[i]
        /\ k = Len(q) + 1 \/ prio[q[k]] >= prio[e]
        /\ \A i \in 1..k-1 : prio[q[i]] < prio[e]
  BY AddPlaces, Zenon
<1>2. r \in Seq(S) /\ Len(r) = Len(q) + 1
  BY AddPlaces
<1> HIDE DEF r
<1> DEFINE at(i) == IF i < k THEN i ELSE i - 1
<1>3. \A i \in 1..Len(q)+1 : i # k => at(i) \in 1..Len(q) /\ r[i] = q[at(i)]
  <2> TAKE i \in 1..Len(q)+1
  <2>1. CASE i < k
    BY <2>1, <1>1
  <2>2. CASE i > k
    <3>1. i - 1 \in k..Len(q) /\ i = (i - 1) + 1
      BY <2>2
    <3> QED BY <2>2, <3>1, <1>1
  <2> QED BY <2>1, <2>2
<1>4. \A i \in 1..Len(q)+1 : i # k => r[i] # e
  BY <1>3 DEF Range
<1>5. \A i, j \in 1..Len(q)+1 : r[i] = r[j] => i = j
  <2> SUFFICES ASSUME NEW i \in 1..Len(q)+1, NEW j \in 1..Len(q)+1, r[i] = r[j]
               PROVE  i = j
    OBVIOUS
  <2>1. CASE i = k \/ j = k
    BY <2>1, <1>1, <1>4
  <2>2. CASE i # k /\ j # k
    <3>1. q[at(i)] = q[at(j)] /\ at(i) \in 1..Len(q) /\ at(j) \in 1..Len(q)
      BY <2>2, <1>3
    <3>2. at(i) = at(j)
      BY <3>1 DEF IsInjective
    <3> QED BY <2>2, <3>2
  <2> QED BY <2>1, <2>2
<1> QED BY <1>2, <1>5 DEF IsInjective, r

\* queue_add keeps a queue in the order of its priorities.
LEMMA AddSorted ==
  ASSUME NEW S, NEW e \in S, NEW q \in Seq(S), NEW prio \in [S -> Nat],
         Sorted(q, prio)
  PROVE  Sorted(queue_add(e, q, prio), prio)
<1> DEFINE r == queue_add(e, q, prio)
<1>0. \A i, j \in 1..Len(q) : i < j => prio[q[i]] <= prio[q[j]]
  BY DEF Sorted
<1>1. PICK k \in 1..Len(q)+1 :
        /\ r[k] = e
        /\ \A i \in 1..k-1 : r[i] = q[i]
        /\ \A i \in k..Len(q) : r[i+1] = q[i]
        /\ k = Len(q) + 1 \/ prio[q[k]] >= prio[e]
        /\ \A i \in 1..k-1 : prio[q[i]] < prio[e]
  BY AddPlaces, Zenon
<1>2. r \in Seq(S) /\ Len(r) = Len(q) + 1
  BY AddPlaces
<1> HIDE DEF r
<1>3. \A i \in 1..Len(q) : q[i] \in S /\ prio[q[i]] \in Nat
  OBVIOUS
<1>4. \A i \in k+1..Len(q)+1 : i - 1 \in k..Len(q) /\ r[i] = q[i-1]
  <2> TAKE i \in k+1..Len(q)+1
  <2>1. i - 1 \in k..Len(q) /\ i = (i - 1) + 1
    BY <1>1
  <2> QED BY <2>1, <1>1
<1>5. \A i \in k..Len(q) : prio[e] <= prio[q[i]]
  <2> TAKE i \in k..Len(q)
  <2>1. prio[q[k]] >= prio[e] /\ prio[q[k]] \in Nat /\ prio[q[i]] \in Nat
    BY <1>1, <1>3
  <2>2. k # i => prio[q[k]] <= prio[q[i]]
    <3>1. i \in 1..Len(q) /\ k \in 1..Len(q) /\ (k # i => k < i)
      OBVIOUS
    <3> QED BY <3>1, <1>0, Zenon
  <2> QED BY <2>1, <2>2
<1>6. \A i, j \in 1..Len(q)+1 : i < j => prio[r[i]] <= prio[r[j]]
  <2> SUFFICES ASSUME NEW i \in 1..Len(q)+1, NEW j \in 1..Len(q)+1, i < j
               PROVE  prio[r[i]] <= prio[r[j]]
    OBVIOUS
  <2>1. CASE j < k
    <3>1. i \in 1..Len(q) /\ j \in 1..Len(q) /\ r[i] = q[i] /\ r[j] = q[j]
      BY <2>1, <1>1
    <3> QED BY <3>1, <1>0, Zenon
  <2>2. CASE j = k
    BY <2>2, <1>1, <1>3
  <2>3. CASE j > k /\ i < k
    <3>1. i \in 1..Len(q) /\ j - 1 \in 1..Len(q) /\ i < j - 1 /\ r[j] = q[j-1] /\ r[i] = q[i]
      BY <2>3, <1>1, <1>4
    <3> QED BY <3>1, <1>0, Zenon
  <2>4. CASE j > k /\ i = k
    <3>1. j - 1 \in k..Len(q) /\ r[j] = q[j-1] /\ r[i] = e
      BY <2>4, <1>1, <1>4
    <3> QED BY <3>1, <1>5
  <2>5. CASE j > k /\ i > k
    <3>1. i \in k+1..Len(q)+1 /\ j \in k+1..Len(q)+1
      BY <2>5
    <3>2. r[j] = q[j-1] /\ r[i] = q[i-1]
      BY <3>1, <1>4, Zenon
    <3>3. i - 1 \in 1..Len(q) /\ j - 1 \in 1..Len(q) /\ i - 1 < j - 1
      BY <3>1
    <3> QED BY <3>2, <3>3, <1>0, Zenon
  <2> QED BY <2>1, <2>2, <2>3, <2>4, <2>5
<1> QED BY <1>2, <1>6 DEF Sorted, r

-----------------------------------------------------------------------------
(* queue_del *)

\* queue_del closes the gap at the place of e.
LEMMA DelPlaces ==
  ASSUME NEW S, NEW q \in Seq(S), NEW e \in Range(q)
  PROVE  /\ queue_del(e, q) \in Seq(S)
         /\ Len(queue_del(e, q)) = Len(q) - 1
         /\ \E k \in 1..Len(q) :
              /\ q[k] = e
              /\ \A i \in 1..k-1 : queue_del(e, q)[i] = q[i]
              /\ \A i \in k+1..Len(q) : queue_del(e, q)[i-1] = q[i]
<1> DEFINE k == CHOOSE k \in DOMAIN q : q[k] = e
           r == [i \in 1..Len(q)-1 |-> IF i < k THEN q[i] ELSE q[i+1]]
<1>1. k \in 1..Len(q) /\ q[k] = e
  <2>1. \E i \in DOMAIN q : q[i] = e
    BY Zenon DEF Range
  <2>2. k \in DOMAIN q /\ q[k] = e
    BY <2>1, Zenon
  <2> QED BY <2>2
<1>2. queue_del(e, q) = r
  BY Zenon DEF queue_del
<1> HIDE DEF k
<1>3. \A i \in 1..Len(q)-1 : r[i] \in S
  BY <1>1
<1>4. r \in Seq(S) /\ Len(r) = Len(q) - 1
  BY <1>1, <1>3
<1>5. /\ \A i \in 1..k-1 : r[i] = q[i]
      /\ \A i \in k+1..Len(q) : r[i-1] = q[i]
  BY <1>1
<1> QED BY <1>1, <1>2, <1>4, <1>5

\* Where queue_del finds the elements of its result in the queue.
LEMMA DelFrom ==
  ASSUME NEW S, NEW q \in Seq(S), NEW e \in Range(q)
  PROVE  \E k \in 1..Len(q) :
           /\ q[k] = e
           /\ \A i \in 1..Len(q) : i # k =>
                q[i] \in Range(queue_del(e, q))
           /\ \A i \in 1..Len(q)-1 :
                queue_del(e, q)[i] = q[IF i < k THEN i ELSE i + 1]
<1> DEFINE r == queue_del(e, q)
<1>1. PICK k \in 1..Len(q) :
        /\ q[k] = e
        /\ \A i \in 1..k-1 : r[i] = q[i]
        /\ \A i \in k+1..Len(q) : r[i-1] = q[i]
  BY DelPlaces, Zenon
<1>2. r \in Seq(S) /\ Len(r) = Len(q) - 1
  BY DelPlaces
<1> HIDE DEF r
<1>3. \A i \in 1..Len(q) : i # k => q[i] \in Range(r)
  <2> SUFFICES ASSUME NEW i \in 1..Len(q), i # k PROVE q[i] \in Range(r)
    OBVIOUS
  <2>1. CASE i < k
    <3>1. i \in DOMAIN r /\ r[i] = q[i]
      BY <2>1, <1>1, <1>2
    <3> QED BY <3>1 DEF Range
  <2>2. CASE i > k
    <3>1. i - 1 \in DOMAIN r /\ r[i-1] = q[i]
      BY <2>2, <1>1, <1>2
    <3> QED BY <3>1, Zenon DEF Range
  <2> QED BY <2>1, <2>2
<1>4. \A i \in 1..Len(q)-1 : r[i] = q[IF i < k THEN i ELSE i + 1]
  <2> TAKE i \in 1..Len(q)-1
  <2>1. CASE i < k
    BY <2>1, <1>1
  <2>2. CASE i >= k
    <3>1. i + 1 \in k+1..Len(q) /\ (i + 1) - 1 = i
      BY <2>2
    <3> QED BY <2>2, <3>1, <1>1
  <2> QED BY <2>1, <2>2
<1> QED BY <1>1, <1>3, <1>4 DEF r

\* queue_del removes e, repeats nothing and keeps the order.
LEMMA DelRange ==
  ASSUME NEW S, NEW q \in Seq(S), NEW e \in Range(q), IsInjective(q)
  PROVE  /\ Range(queue_del(e, q)) = Range(q) \ {e}
         /\ IsInjective(queue_del(e, q))
<1> DEFINE r == queue_del(e, q)
           from(i, k) == IF i < k THEN i ELSE i + 1
<1>1. PICK k \in 1..Len(q) :
        /\ q[k] = e
        /\ \A i \in 1..Len(q) : i # k => q[i] \in Range(r)
        /\ \A i \in 1..Len(q)-1 : r[i] = q[from(i, k)]
  BY DelFrom, Zenon
<1>2. DOMAIN r = 1..Len(q)-1
  BY DelPlaces
<1> HIDE DEF r
<1>3. \A i \in 1..Len(q)-1 : from(i, k) \in 1..Len(q) /\ from(i, k) # k
  OBVIOUS
<1>4. \A i \in 1..Len(q)-1 : r[i] \in Range(q) /\ r[i] # e
  <2> TAKE i \in 1..Len(q)-1
  <2>1. r[i] = q[from(i, k)] /\ from(i, k) \in DOMAIN q /\ from(i, k) # k
    BY <1>1, <1>3
  <2> HIDE DEF from
  <2>2. k \in DOMAIN q
    OBVIOUS
  <2> QED BY <2>1, <2>2, <1>1, Zenon DEF Range, IsInjective
<1>5. Range(r) = Range(q) \ {e}
  <2>1. Range(r) \subseteq Range(q) \ {e}
    BY <1>2, <1>4 DEF Range
  <2>2. Range(q) \ {e} \subseteq Range(r)
    BY <1>1 DEF Range
  <2> QED BY <2>1, <2>2
<1>6. \A i, j \in 1..Len(q)-1 : r[i] = r[j] => i = j
  <2> SUFFICES ASSUME NEW i \in 1..Len(q)-1, NEW j \in 1..Len(q)-1, r[i] = r[j]
               PROVE  i = j
    OBVIOUS
  <2>1. from(i, k) = from(j, k)
    BY <1>1, <1>3 DEF IsInjective
  <2> QED BY <2>1
<1> QED BY <1>2, <1>5, <1>6 DEF IsInjective, r

LEMMA DelSorted ==
  ASSUME NEW S, NEW q \in Seq(S), NEW e \in Range(q), NEW prio \in [S -> Nat],
         Sorted(q, prio)
  PROVE  Sorted(queue_del(e, q), prio)
<1> DEFINE r == queue_del(e, q)
           from(i, k) == IF i < k THEN i ELSE i + 1
<1>0. \A i, j \in 1..Len(q) : i < j => prio[q[i]] <= prio[q[j]]
  BY DEF Sorted
<1>1. PICK k \in 1..Len(q) :
        /\ q[k] = e
        /\ \A i \in 1..Len(q) : i # k => q[i] \in Range(r)
        /\ \A i \in 1..Len(q)-1 : r[i] = q[from(i, k)]
  BY DelFrom, Zenon
<1>2. DOMAIN r = 1..Len(q)-1
  BY DelPlaces
<1> HIDE DEF r
<1>3. \A i, j \in 1..Len(q)-1 : i < j =>
        /\ from(i, k) \in 1..Len(q) /\ from(j, k) \in 1..Len(q)
        /\ from(i, k) < from(j, k)
  OBVIOUS
<1>4. \A i, j \in 1..Len(q)-1 : i < j => prio[r[i]] <= prio[r[j]]
  <2> SUFFICES ASSUME NEW i \in 1..Len(q)-1, NEW j \in 1..Len(q)-1, i < j
               PROVE  prio[r[i]] <= prio[r[j]]
    OBVIOUS
  <2> HIDE DEF from
  <2>1. r[i] = q[from(i, k)] /\ r[j] = q[from(j, k)]
    BY <1>1
  <2>2. /\ from(i, k) \in 1..Len(q) /\ from(j, k) \in 1..Len(q)
        /\ from(i, k) < from(j, k)
    BY <1>3
  <2> QED BY <2>1, <2>2, <1>0, Zenon
<1> QED BY <1>2, <1>4 DEF Sorted, r

-----------------------------------------------------------------------------
(* Prefixes, which are what is left once the elements on top are out *)

LEMMA PrefixPlaces ==
  ASSUME NEW S, NEW q \in Seq(S), NEW n \in 0..Len(q)
  PROVE  /\ SubSeq(q, 1, n) \in Seq(S)
         /\ DOMAIN SubSeq(q, 1, n) = 1..n
         /\ \A i \in 1..n : SubSeq(q, 1, n)[i] = q[i]
         /\ Range(SubSeq(q, 1, n)) = {q[i] : i \in 1..n}
<1>1. /\ SubSeq(q, 1, n) \in Seq(S)
      /\ DOMAIN SubSeq(q, 1, n) = 1..n
      /\ \A i \in 1..n : SubSeq(q, 1, n)[i] = q[i]
  OBVIOUS
<1> QED BY <1>1 DEF Range

LEMMA PrefixKeeps ==
  ASSUME NEW S, NEW q \in Seq(S), NEW n \in 0..Len(q), NEW prio \in [S -> Nat]
  PROVE  /\ IsInjective(q) => IsInjective(SubSeq(q, 1, n))
         /\ Sorted(q, prio) => Sorted(SubSeq(q, 1, n), prio)
<1> DEFINE r == SubSeq(q, 1, n)
<1>1. \A i \in 1..n : i \in DOMAIN q
  OBVIOUS
<1>2. DOMAIN r = 1..n /\ \A i \in 1..n : r[i] = q[i]
  OBVIOUS
<1> HIDE DEF r
<1>3. IsInjective(q) => IsInjective(r)
  BY <1>1, <1>2 DEF IsInjective
<1>4. Sorted(q, prio) => Sorted(r, prio)
  BY <1>1, <1>2 DEF Sorted
<1> QED BY <1>3, <1>4 DEF r

\* The elements before, at and after a position, when nothing is repeated.
LEMMA SplitAt ==
  ASSUME NEW S, NEW q \in Seq(S), IsInjective(q), NEW n \in 1..Len(q)
  PROVE  LET pre   == SubSeq(q, 1, n-1)
             after == {q[i] : i \in n+1..Len(q)}
         IN  /\ Range(q) = Range(pre) \cup {q[n]} \cup after
             /\ q[n] \notin Range(pre) /\ q[n] \notin after
             /\ \A x \in after : x \notin Range(pre)
<1> DEFINE pre   == SubSeq(q, 1, n-1)
           after == {q[i] : i \in n+1..Len(q)}
<1>1. Range(pre) = {q[i] : i \in 1..n-1}
  <2>1. n - 1 \in 0..Len(q)
    OBVIOUS
  <2> QED BY <2>1, PrefixPlaces, Zenon
<1>2. \A i, j \in 1..Len(q) : q[i] = q[j] => i = j
  BY DEF IsInjective
<1> HIDE DEF pre
<1>3. Range(q) = Range(pre) \cup {q[n]} \cup after
  <2>1. \A i \in 1..Len(q) : i \in 1..n-1 \/ i = n \/ i \in n+1..Len(q)
    OBVIOUS
  <2>2. \A i \in 1..Len(q) : q[i] \in Range(pre) \cup {q[n]} \cup after
    BY <2>1, <1>1
  <2>3. Range(q) = {q[i] : i \in 1..Len(q)}
    BY DEF Range
  <2> QED BY <2>2, <2>3, <1>1
<1>4. q[n] \notin Range(pre) /\ q[n] \notin after
  BY <1>1, <1>2
<1>5. \A x \in after : x \notin Range(pre)
  BY <1>1, <1>2
<1> QED BY <1>3, <1>4, <1>5 DEF pre
=============================================================================
