--------------------------- MODULE LinkQueueProofs ---------------------------
(***************************************************************************)
(* The pointers of queue.h implement the sequences of PrioQueue, for any   *)
(* number of elements, heads and priorities.  The invariant says which     *)
(* sequence each circle is (Laid), and what follows the pointers from a    *)
(* head finds that sequence.  The second part is about the order in which  *)
(* elements leave (FifoInv).                                               *)
(***************************************************************************)
EXTENDS LinkQueue, PrioQueueProofs, FiniteSetTheorems, SequenceTheorems

\* The circle of h: its elements, with the head before the first and behind the last.
Ring(h, q, i) == IF i \in 1..Len(q) THEN q[i] ELSE h

\* The pointers nx and pv make the circle of each head h the sequence Q[h].
Laid(Q, nx, pv) ==
  /\ Q \in [Heads -> Seq(Elems)]
  /\ nx \in [Link -> Link \cup {NULL}] /\ pv \in [Link -> Link \cup {NULL}]
  /\ \A h \in Heads : \A i, j \in 1..Len(Q[h]) : Q[h][i] = Q[h][j] => i = j
  /\ \A g, h \in Heads : g # h =>
       \A i \in 1..Len(Q[g]), j \in 1..Len(Q[h]) : Q[g][i] # Q[h][j]
  /\ \A h \in Heads : \A i \in 0..Len(Q[h]) :
       /\ nx[Ring(h, Q[h], i)] = Ring(h, Q[h], i + 1)
       /\ pv[Ring(h, Q[h], i + 1)] = Ring(h, Q[h], i)
  /\ \A e \in Elems :
       \/ nx[e] = NULL /\ pv[e] = NULL
       \/ \E h \in Heads : \E i \in 1..Len(Q[h]) : Q[h][i] = e

-----------------------------------------------------------------------------
(* Following the pointers *)

\* At, for any pointers.
Followed(nx, h) ==
  LET at[i \in 0..Cardinality(Elems)+1] == IF i = 0 THEN h ELSE nx[at[i-1]]
  IN  at

LEMMA AtFollows == \A h : At(h) = Followed(next, h)
  BY DEF At, Followed

\* f is the walk of n steps from h along nx.
Walk(f, nx, h, n) == f = [i \in 0..n |-> IF i = 0 THEN h ELSE nx[f[i-1]]]

\* Pointers can be followed any number of times.
LEMMA WalksExist ==
  ASSUME NEW nx, NEW h, NEW N \in Nat
  PROVE  \E f : Walk(f, nx, h, N)
<1> DEFINE Goes(f, n) == f = [i \in 0..n |-> IF i = 0 THEN h ELSE nx[f[i-1]]]
           Stuck == {n \in Nat : ~ \E f : Goes(f, n)}
<1>1. Goes([i \in 0..0 |-> h], 0)
  OBVIOUS
<1>2. ASSUME NEW n \in Nat \ {0}, NEW f, Goes(f, n - 1)
      PROVE  \E g : Goes(g, n)
  <2> DEFINE g == [i \in 0..n |-> IF i = n THEN nx[f[n-1]] ELSE f[i]]
  <2>1. \A i \in 0..n-1 : f[i] = IF i = 0 THEN h ELSE nx[f[i-1]]
    <3>1. f = [i \in 0..n-1 |-> IF i = 0 THEN h ELSE nx[f[i-1]]]
      BY <1>2
    <3> QED
      BY <3>1
  <2>2. \A i \in 0..n-1 : g[i] = f[i]
    OBVIOUS
  <2>3. g[n] = nx[f[n-1]]
    OBVIOUS
  <2>4. \A i \in 0..n : g[i] = IF i = 0 THEN h ELSE nx[g[i-1]]
    <3> HIDE DEF g
    <3> QED
      BY <2>1, <2>2, <2>3
  <2>5. g = [i \in 0..n |-> g[i]]
    OBVIOUS
  <2>6. Goes(g, n)
    <3> HIDE DEF g
    <3> QED
      BY <2>4, <2>5
  <2> QED
    BY <2>6, Zenon
<1>3. \A n \in Nat : n \in Stuck <=> ~ \E f : Goes(f, n)
  OBVIOUS
<1>4. Stuck \in SUBSET Nat
  OBVIOUS
<1> HIDE DEF Goes, Stuck
<1>5. ASSUME Stuck # {} PROVE FALSE
  <2>1. PICK n \in Stuck : \A i \in Stuck : n <= i
    BY <1>4, <1>5, LeastOf
  <2>2. n \in Nat \ {0}
    BY <1>1, <1>3, <1>4, <2>1
  <2>3. n - 1 \in Nat /\ n - 1 \notin Stuck
    BY <2>1, <2>2
  <2>4. PICK f : Goes(f, n - 1)
    BY <1>3, <2>3
  <2> QED
    BY <1>2, <1>3, <2>1, <2>2, <2>4
<1>6. PICK f : Goes(f, N)
  BY <1>3, <1>5
<1>7. Walk(f, nx, h, N)
  BY <1>6 DEF Goes, Walk
<1> QED
  BY <1>7

LEMMA FollowedSteps ==
  ASSUME NEW nx, NEW h, Cardinality(Elems) \in Nat
  PROVE  /\ Followed(nx, h)[0] = h
         /\ \A i \in 1..Cardinality(Elems)+1 :
              Followed(nx, h)[i] = nx[Followed(nx, h)[i-1]]
<1> DEFINE N == Cardinality(Elems) + 1
           at == Followed(nx, h)
<1>1. N \in Nat
  OBVIOUS
<1>2. at = CHOOSE f : Walk(f, nx, h, N)
  BY DEF Followed, Walk
<1>3. \E f : Walk(f, nx, h, N)
  <2> HIDE DEF N
  <2> QED
    BY <1>1, WalksExist
<1> HIDE DEF at
<1>4. at = [i \in 0..N |-> IF i = 0 THEN h ELSE nx[at[i-1]]]
  <2>1. Walk(at, nx, h, N)
    BY <1>2, <1>3, Zenon
  <2> QED
    BY <2>1 DEF Walk
<1>5. at[0] = h /\ \A i \in 1..N : at[i] = nx[at[i-1]]
  BY <1>1, <1>4
<1> QED
  BY <1>5 DEF at

-----------------------------------------------------------------------------
(* What following the pointers finds *)

LEMMA QueueIs ==
  ASSUME LinkConstants, NEW Q, NEW nx, NEW pv, Laid(Q, nx, pv), NEW h \in Heads
  PROVE  /\ Q[h] \in Seq(Elems) /\ Len(Q[h]) \in Nat /\ DOMAIN Q[h] = 1..Len(Q[h])
         /\ Q[h] \in [1..Len(Q[h]) -> Elems]
         /\ \A i \in 1..Len(Q[h]) : Q[h][i] \in Elems /\ Q[h][i] # h /\ Q[h][i] # NULL
         /\ h \in Link /\ h \notin Elems /\ h # NULL /\ NULL \notin Link
  BY DEF Laid, LinkConstants, Link

\* A queue has at most as many elements as there are.
LEMMA QueueFits ==
  ASSUME LinkConstants, NEW Q, NEW nx, NEW pv, Laid(Q, nx, pv), NEW h \in Heads
  PROVE  Cardinality(Elems) \in Nat /\ Len(Q[h]) <= Cardinality(Elems)
<1>1. Q[h] \in [1..Len(Q[h]) -> Elems] /\ Len(Q[h]) \in Nat
  BY QueueIs
<1>2. IsInjective(Q[h])
  <2>1. DOMAIN Q[h] = 1..Len(Q[h])
    BY QueueIs
  <2>2. \A i, j \in 1..Len(Q[h]) : Q[h][i] = Q[h][j] => i = j
    BY DEF Laid
  <2> QED
    BY <2>1, <2>2, Zenon DEF IsInjective
<1>3. Q[h] \in Injection(1..Len(Q[h]), Elems)
  BY <1>1, <1>2 DEF Injection
<1>4. IsFiniteSet(Elems)
  BY DEF LinkConstants
<1>5. Cardinality(1..Len(Q[h])) <= Cardinality(Elems) /\ Cardinality(Elems) \in Nat
  BY <1>3, <1>4, FS_Injection, FS_CardinalityType
<1>6. Cardinality(1..Len(Q[h])) = Len(Q[h])
  BY <1>1, FS_Interval
<1> QED
  BY <1>5, <1>6

LEMMA RingAt ==
  ASSUME LinkConstants, NEW Q, NEW nx, NEW pv, Laid(Q, nx, pv), NEW h \in Heads
  PROVE  \A i \in 0..Len(Q[h])+1 : Followed(nx, h)[i] = Ring(h, Q[h], i)
<1> DEFINE n == Len(Q[h])
           at == Followed(nx, h)
           Wrong == {i \in 0..n+1 : at[i] # Ring(h, Q[h], i)}
<1>1. n \in Nat /\ Cardinality(Elems) \in Nat /\ n <= Cardinality(Elems)
  BY QueueFits, QueueIs
<1>2. at[0] = h /\ \A i \in 1..n+1 : at[i] = nx[at[i-1]]
  BY <1>1, FollowedSteps
<1>3. Ring(h, Q[h], 0) = h
  BY DEF Ring
<1>4. \A i \in 0..n : nx[Ring(h, Q[h], i)] = Ring(h, Q[h], i + 1)
  BY DEF Laid
<1> HIDE DEF n, at
<1>5. ASSUME Wrong # {} PROVE FALSE
  <2>0. Wrong \in SUBSET Nat
    BY <1>1
  <2>1. PICK k \in Wrong : \A i \in Wrong : k <= i
    <3> HIDE DEF Wrong
    <3> QED
      BY <1>5, <2>0, LeastOf
  <2>2. k \in 1..n+1
    BY <1>1, <1>2, <1>3, <2>1
  <2>3. k - 1 \in 0..n /\ k - 1 \notin Wrong /\ (k - 1) + 1 = k
    BY <1>1, <2>1, <2>2
  <2>4. at[k-1] = Ring(h, Q[h], k-1)
    BY <1>1, <2>3
  <2>5. at[k] = Ring(h, Q[h], k)
    BY <1>2, <1>4, <2>2, <2>3, <2>4
  <2> QED
    BY <2>1, <2>5
<1> QED
  BY <1>1, <1>5 DEF n, at

\* The contents found by following the pointers of nx.
FoundIn(nx, h) ==
  LET at == Followed(nx, h)
      n == CHOOSE n \in 0..Cardinality(Elems) :
             at[n+1] = h /\ \A i \in 1..n : at[i] # h
  IN  [i \in 1..n |-> at[i]]

LEMMA ContentsFound == \A h : Contents(h) = FoundIn(next, h)
  BY AtFollows DEF Contents, FoundIn

LEMMA FindsQueue ==
  ASSUME LinkConstants, NEW Q, NEW nx, NEW pv, Laid(Q, nx, pv), NEW h \in Heads
  PROVE  FoundIn(nx, h) = Q[h]
<1> DEFINE at == Followed(nx, h)
           C == Cardinality(Elems)
           Ends(n) == at[n+1] = h /\ \A i \in 1..n : at[i] # h
           n == CHOOSE m \in 0..C : Ends(m)
           l == Len(Q[h])
<1>1. l \in Nat /\ C \in Nat /\ l <= C
  BY QueueFits, QueueIs
<1>2. at[l+1] = h /\ \A i \in 1..l : at[i] = Q[h][i] /\ at[i] # h
  BY <1>1, RingAt, QueueIs DEF Ring
<1> HIDE DEF at, C, l
<1>3. l \in 0..C /\ Ends(l)
  BY <1>1, <1>2
<1>4. \A m \in 0..C : Ends(m) => m = l
  BY <1>1, <1>2
<1> HIDE DEF Ends
<1>5. n = l
  BY <1>3, <1>4
<1>6. FoundIn(nx, h) = [i \in 1..n |-> at[i]]
  BY DEF FoundIn, Ends, at, C
<1>7. Q[h] = [i \in 1..l |-> Q[h][i]]
  BY QueueIs DEF l
<1>8. [i \in 1..l |-> at[i]] = [i \in 1..l |-> Q[h][i]]
  BY <1>2
<1> HIDE DEF n
<1> QED
  BY <1>5, <1>6, <1>7, <1>8

\* queue_add inserts before the element on which the scan of PrioQueue stops.
LEMMA InsertsWhere ==
  ASSUME LinkConstants, prio \in [Elems -> Prio],
         NEW Q, Laid(Q, next, prev), NEW h \in Heads, NEW e \in Elems
  PROVE  /\ ScanStop(e, Q[h], prio) \in 1..Len(Q[h])+1
         /\ InsertionPoint(e, h) = Ring(h, Q[h], ScanStop(e, Q[h], prio))
<1> DEFINE q == Q[h]
           l == Len(q)
           k == ScanStop(e, q, prio)
           C == Cardinality(Elems)
           at == At(h)
           First(i) == StopsAt(e, h, at[i]) /\ \A j \in 1..i-1 : ~StopsAt(e, h, at[j])
           c == CHOOSE i \in 1..C+1 : First(i)
<1>1. l \in Nat /\ C \in Nat /\ l <= C
  BY QueueFits, QueueIs
<1>2. prio \in [Elems -> Nat] /\ q \in Seq(Elems)
  BY QueueIs DEF LinkConstants
<1>3. /\ k \in 1..l+1
      /\ k = l + 1 \/ prio[q[k]] >= prio[e]
      /\ \A i \in 1..k-1 : prio[q[i]] < prio[e]
  BY <1>2, ScanStops
<1>4. \A i \in 1..l+1 : at[i] = Ring(h, q, i)
  BY <1>1, AtFollows, RingAt
<1>5. \A i \in 1..l : q[i] \in Elems /\ q[i] # h
  BY QueueIs
<1>6. StopsAt(e, h, at[k])
  <2>1. CASE k = l + 1
    BY <1>1, <1>4, <2>1 DEF StopsAt, Ring
  <2>2. CASE k # l + 1
    <3>1. k \in 1..l /\ at[k] = q[k]
      BY <1>1, <1>3, <1>4, <2>2 DEF Ring
    <3>2. prio[q[k]] \in Nat /\ prio[e] \in Nat
      BY <1>2, <1>5, <3>1
    <3> QED
      BY <1>3, <2>2, <3>1, <3>2 DEF StopsAt
  <2> QED
    BY <2>1, <2>2
<1>7. \A j \in 1..k-1 : ~StopsAt(e, h, at[j])
  <2> SUFFICES ASSUME NEW j \in 1..k-1 PROVE ~StopsAt(e, h, at[j])
    OBVIOUS
  <2>1. j \in 1..l
    BY <1>1, <1>3
  <2>2. at[j] = q[j]
    BY <1>1, <1>4, <2>1 DEF Ring
  <2> QED
    BY <1>3, <1>5, <2>1, <2>2 DEF StopsAt
<1> HIDE DEF q, l, k, C, at
<1>8. k \in 1..C+1 /\ First(k)
  BY <1>1, <1>3, <1>6, <1>7
<1>9. \A i \in 1..C+1 : First(i) => i = k
  BY <1>1, <1>3, <1>6, <1>7
<1> HIDE DEF First
<1>10. c = k
  BY <1>8, <1>9
<1>11. InsertionPoint(e, h) = at[c]
  BY DEF InsertionPoint, First, at, C
<1>12. at[k] = Ring(h, q, k)
  BY <1>3, <1>4
<1> HIDE DEF c
<1> QED
  BY <1>3, <1>10, <1>11, <1>12 DEF q, k, l

-----------------------------------------------------------------------------
(* Linking and unlinking *)

\* The places of the circles are all different, and no unlinked element is on one.
LEMMA Apart ==
  ASSUME LinkConstants, NEW Q, NEW nx, NEW pv, Laid(Q, nx, pv), NEW h \in Heads
  PROVE  /\ \A i \in 0..Len(Q[h])+1 : Ring(h, Q[h], i) \in Link /\ Ring(h, Q[h], i) # NULL
         /\ \A i, j \in 0..Len(Q[h]) : Ring(h, Q[h], i) = Ring(h, Q[h], j) => i = j
         /\ \A i, j \in 1..Len(Q[h])+1 : Ring(h, Q[h], i) = Ring(h, Q[h], j) => i = j
         /\ \A g \in Heads \ {h} : \A i \in 0..Len(Q[h])+1, j \in 0..Len(Q[g])+1 :
              Ring(h, Q[h], i) # Ring(g, Q[g], j)
         /\ \A e \in Elems : nx[e] = NULL => \A i \in 0..Len(Q[h])+1 : Ring(h, Q[h], i) # e
<1> DEFINE l == Len(Q[h])
<1>1. /\ l \in Nat
      /\ \A i \in 1..l : Q[h][i] \in Elems /\ Q[h][i] # h /\ Q[h][i] # NULL
      /\ h \in Link /\ h \notin Elems /\ h # NULL
  BY QueueIs
<1>2. \A i \in 0..l+1 : Ring(h, Q[h], i) \in Link /\ Ring(h, Q[h], i) # NULL
  BY <1>1 DEF Ring, Link
<1>3. \A i, j \in 1..l : Q[h][i] = Q[h][j] => i = j
  BY DEF Laid
<1>4. \A i, j \in 0..l : Ring(h, Q[h], i) = Ring(h, Q[h], j) => i = j
  BY <1>1, <1>3 DEF Ring
<1>5. \A i, j \in 1..l+1 : Ring(h, Q[h], i) = Ring(h, Q[h], j) => i = j
  BY <1>1, <1>3 DEF Ring
<1>6. ASSUME NEW g \in Heads \ {h}, NEW i \in 0..l+1, NEW j \in 0..Len(Q[g])+1
      PROVE  Ring(h, Q[h], i) # Ring(g, Q[g], j)
  <2>1. \A a \in 1..Len(Q[g]) : Q[g][a] \in Elems /\ g \notin Elems
    BY QueueIs
  <2>2. \A a \in 1..l, b \in 1..Len(Q[g]) : Q[h][a] # Q[g][b]
    BY DEF Laid
  <2>3. CASE i \in 1..l /\ j \in 1..Len(Q[g])
    BY <2>2, <2>3 DEF Ring
  <2>4. CASE i \in 1..l /\ j \notin 1..Len(Q[g])
    BY <1>1, <2>4, QueueIs DEF Ring
  <2>5. CASE i \notin 1..l
    BY <1>1, <2>1, <2>5 DEF Ring
  <2> QED
    BY <2>3, <2>4, <2>5
<1>7. ASSUME NEW e \in Elems, nx[e] = NULL, NEW i \in 0..l+1
      PROVE  Ring(h, Q[h], i) # e
  <2>1. CASE i \in 0..l
    <3>1. nx[Ring(h, Q[h], i)] = Ring(h, Q[h], i + 1)
      BY <2>1 DEF Laid
    <3>2. i + 1 \in 0..l+1
      BY <1>1, <2>1
    <3> QED
      BY <1>2, <1>7, <3>1, <3>2
  <2>2. CASE i = l + 1
    BY <1>1, <2>2 DEF Ring
  <2> QED
    BY <1>1, <2>1, <2>2
<1> QED
  BY <1>2, <1>4, <1>5, <1>6, <1>7

\* Linking e before place k of the queue of h.
LEMMA InsertLays ==
  ASSUME LinkConstants, NEW Q, NEW nx, NEW pv, Laid(Q, nx, pv),
         NEW h \in Heads, NEW e \in Elems, nx[e] = NULL,
         NEW k \in 1..Len(Q[h])+1,
         NEW r \in Seq(Elems), Len(r) = Len(Q[h]) + 1, r[k] = e,
         \A i \in 1..k-1 : r[i] = Q[h][i],
         \A i \in k+1..Len(Q[h])+1 : r[i] = Q[h][i-1],
         NEW cur, cur = Ring(h, Q[h], k)
  PROVE  Laid([Q EXCEPT ![h] = r],
              [nx EXCEPT ![e] = cur, ![pv[cur]] = e],
              [pv EXCEPT ![e] = pv[cur], ![cur] = e])
<1> DEFINE q == Q[h]
           l == Len(q)
           R == [Q EXCEPT ![h] = r]
           behind == Ring(h, q, k - 1)
           nx2 == [nx EXCEPT ![e] = cur, ![behind] = e]
           pv2 == [pv EXCEPT ![e] = behind, ![cur] = e]
<1>1. l \in Nat /\ k \in 1..l+1 /\ k - 1 \in 0..l /\ (k - 1) + 1 = k
  BY QueueIs
<1>2. /\ \A i \in 0..l+1 : Ring(h, q, i) \in Link /\ Ring(h, q, i) # NULL
      /\ \A i, j \in 0..l : Ring(h, q, i) = Ring(h, q, j) => i = j
      /\ \A i, j \in 1..l+1 : Ring(h, q, i) = Ring(h, q, j) => i = j
      /\ \A g \in Heads \ {h} : \A i \in 0..l+1, j \in 0..Len(Q[g])+1 :
           Ring(h, q, i) # Ring(g, Q[g], j)
      /\ \A i \in 0..l+1 : Ring(h, q, i) # e
  BY Apart
<1>3. pv[cur] = behind
  <2>1. pv[Ring(h, Q[h], (k - 1) + 1)] = Ring(h, Q[h], k - 1)
    BY <1>1 DEF Laid
  <2> QED
    BY <1>1, <2>1
<1>4. behind \in Link /\ cur \in Link /\ e \in Link /\ behind # e /\ cur # e
  BY <1>1, <1>2 DEF Link
<1>5. nx \in [Link -> Link \cup {NULL}] /\ pv \in [Link -> Link \cup {NULL}]
      /\ Q \in [Heads -> Seq(Elems)]
  BY DEF Laid
<1>6. /\ \A i \in 0..k-1 : Ring(h, r, i) = Ring(h, q, i)
      /\ Ring(h, r, k) = e
      /\ \A i \in k+1..l+2 : Ring(h, r, i) = Ring(h, q, i - 1)
  <2>1. Len(r) = l + 1 /\ r[k] = e /\ (\A i \in 1..k-1 : r[i] = q[i])
        /\ \A i \in k+1..l+1 : r[i] = q[i-1]
    OBVIOUS
  <2> HIDE DEF q, l
  <2>2. ASSUME NEW i \in 0..k-1 PROVE Ring(h, r, i) = Ring(h, q, i)
    <3>1. CASE i = 0
      BY <3>1 DEF Ring
    <3>2. CASE i # 0
      <4>1. i \in 1..k-1 /\ i \in 1..l /\ i \in 1..l+1
        BY <1>1, <3>2
      <4> QED
        BY <2>1, <4>1 DEF Ring, l
    <3> QED
      BY <3>1, <3>2
  <2>3. Ring(h, r, k) = e
    BY <1>1, <2>1 DEF Ring
  <2>4. ASSUME NEW i \in k+1..l+2 PROVE Ring(h, r, i) = Ring(h, q, i - 1)
    <3>1. CASE i = l + 2
      <4>1. i \notin 1..l+1 /\ i - 1 \notin 1..l
        BY <1>1, <3>1
      <4> QED
        BY <2>1, <4>1 DEF Ring, l
    <3>2. CASE i # l + 2
      <4>1. i \in k+1..l+1 /\ i \in 1..l+1 /\ i - 1 \in 1..l
        BY <1>1, <3>2
      <4> QED
        BY <2>1, <4>1 DEF Ring, l
    <3> QED
      BY <3>1, <3>2
  <2> QED
    BY <2>2, <2>3, <2>4
<1>7. /\ nx2[e] = cur /\ nx2[behind] = e /\ pv2[e] = behind /\ pv2[cur] = e
      /\ \A n \in Link : n # e /\ n # behind => nx2[n] = nx[n]
      /\ \A n \in Link : n # e /\ n # cur => pv2[n] = pv[n]
      /\ nx2 \in [Link -> Link \cup {NULL}] /\ pv2 \in [Link -> Link \cup {NULL}]
  BY <1>4, <1>5
<1>8. R \in [Heads -> Seq(Elems)] /\ R[h] = r /\ \A g \in Heads \ {h} : R[g] = Q[g]
  BY <1>5
<1>9. \A i \in 1..l+1 : r[i] = e \/ \E j \in 1..l : r[i] = q[j]
  BY <1>1
<1>10. \A i \in 1..l : q[i] # e
  BY <1>2 DEF Ring
<1> HIDE DEF R, nx2, pv2, behind
<1>11. \A g \in Heads : \A i, j \in 1..Len(R[g]) : R[g][i] = R[g][j] => i = j
  <2>1. \A i, j \in 1..l : q[i] = q[j] => i = j
    BY DEF Laid
  <2>2. ASSUME NEW i \in 1..l+1, NEW j \in 1..l+1, r[i] = r[j]
        PROVE  i = j
    <3> DEFINE from(a) == IF a < k THEN a ELSE a - 1
    <3>0. \A a, b \in 1..l+1 : a # k /\ b # k /\ from(a) = from(b) => a = b
      BY <1>1
    <3>1. ASSUME NEW a \in 1..l+1, a # k PROVE from(a) \in 1..l /\ r[a] = q[from(a)]
      <4>1. CASE a < k
        <5>1. a \in 1..k-1 /\ a \in 1..l
          BY <1>1, <4>1
        <5> QED
          BY <4>1, <5>1
      <4>2. CASE ~(a < k)
        <5>1. a \in k+1..l+1 /\ a - 1 \in 1..l
          BY <1>1, <3>1, <4>2
        <5> QED
          BY <4>2, <5>1
      <4> QED
        BY <4>1, <4>2
    <3> HIDE DEF from
    <3>2. CASE i # k /\ j # k
      <4>1. /\ from(i) \in 1..l /\ from(j) \in 1..l
            /\ r[i] = q[from(i)] /\ r[j] = q[from(j)]
        BY <3>1, <3>2
      <4>2. from(i) = from(j)
        BY <2>1, <2>2, <4>1
      <4> QED
        BY <3>0, <3>2, <4>2
    <3>3. CASE i = k /\ j # k
      <4>1. r[j] # e
        <5>1. from(j) \in 1..l /\ r[j] = q[from(j)]
          BY <3>1, <3>3
        <5> QED
          BY <1>10, <5>1
      <4> QED
        BY <2>2, <3>3, <4>1
    <3>4. CASE i # k /\ j = k
      <4>1. r[i] # e
        <5>1. from(i) \in 1..l /\ r[i] = q[from(i)]
          BY <3>1, <3>4
        <5> QED
          BY <1>10, <5>1
      <4> QED
        BY <2>2, <3>4, <4>1
    <3> QED
      BY <3>2, <3>3, <3>4
  <2>3. \A g \in Heads \ {h} : \A i, j \in 1..Len(R[g]) : R[g][i] = R[g][j] => i = j
    BY <1>8 DEF Laid
  <2> QED
    BY <1>8, <2>2, <2>3
<1>12. \A f, g \in Heads : f # g =>
         \A i \in 1..Len(R[f]), j \in 1..Len(R[g]) : R[f][i] # R[g][j]
  <2>1. ASSUME NEW g \in Heads \ {h}, NEW i \in 1..l+1, NEW j \in 1..Len(Q[g])
        PROVE  r[i] # Q[g][j]
    <3>1. Q[g][j] # e
      <4>1. \A a \in 0..Len(Q[g])+1 : Ring(g, Q[g], a) # e
        BY Apart
      <4> QED
        BY <4>1, QueueIs DEF Ring
    <3>2. \A a \in 1..l : q[a] # Q[g][j]
      BY DEF Laid
    <3> QED
      BY <1>9, <3>1, <3>2
  <2>2. \A f, g \in Heads \ {h} : f # g =>
          \A i \in 1..Len(R[f]), j \in 1..Len(R[g]) : R[f][i] # R[g][j]
    BY <1>8 DEF Laid
  <2> SUFFICES ASSUME NEW f \in Heads, NEW g \in Heads, f # g,
                      NEW i \in 1..Len(R[f]), NEW j \in 1..Len(R[g])
               PROVE  R[f][i] # R[g][j]
    OBVIOUS
  <2>3. CASE f = h
    <3>1. g \in Heads \ {h} /\ R[f] = r /\ R[g] = Q[g]
      BY <1>8, <2>3
    <3> QED
      BY <2>1, <3>1
  <2>4. CASE g = h
    <3>1. f \in Heads \ {h} /\ R[g] = r /\ R[f] = Q[f]
      BY <1>8, <2>4
    <3>2. r[j] # Q[f][i]
      BY <2>1, <3>1
    <3> QED
      BY <3>1, <3>2
  <2> QED
    BY <2>2, <2>3, <2>4
<1>13. ASSUME NEW g \in Heads, NEW i \in 0..Len(R[g])
       PROVE  /\ nx2[Ring(g, R[g], i)] = Ring(g, R[g], i + 1)
              /\ pv2[Ring(g, R[g], i + 1)] = Ring(g, R[g], i)
  <2>1. CASE g # h
    <3>1. R[g] = Q[g] /\ Len(Q[g]) \in Nat
      BY <1>8, <2>1, QueueIs
    <3>2. /\ nx[Ring(g, Q[g], i)] = Ring(g, Q[g], i + 1)
          /\ pv[Ring(g, Q[g], i + 1)] = Ring(g, Q[g], i)
      BY <3>1 DEF Laid
    <3>3. \A j \in 0..Len(Q[g])+1 : /\ Ring(g, Q[g], j) \in Link /\ Ring(g, Q[g], j) # e
                                    /\ Ring(g, Q[g], j) # behind /\ Ring(g, Q[g], j) # cur
      BY <1>1, <1>2, <2>1, Apart DEF behind
    <3>4. i \in 0..Len(Q[g])+1 /\ i + 1 \in 0..Len(Q[g])+1
      BY <3>1
    <3> QED
      BY <1>7, <3>1, <3>2, <3>3, <3>4
  <2>2. CASE g = h
    <3>1. i \in 0..l+1 /\ R[g] = r
      BY <1>8, <2>2
    <3>2. \A j \in 0..l : /\ nx[Ring(h, q, j)] = Ring(h, q, j + 1)
                          /\ pv[Ring(h, q, j + 1)] = Ring(h, q, j)
      BY DEF Laid
    <3>3. CASE i < k - 1
      <4>1. /\ i \in 0..l /\ i + 1 \in 1..l+1 /\ i + 1 \in 0..l+1 /\ i # k - 1 /\ i + 1 # k
            /\ i \in 0..k-1 /\ i + 1 \in 0..k-1
        BY <1>1, <3>1, <3>3
      <4>2. Ring(h, r, i) = Ring(h, q, i) /\ Ring(h, r, i + 1) = Ring(h, q, i + 1)
        BY <1>6, <4>1
      <4>3. Ring(h, q, i) # behind /\ Ring(h, q, i + 1) # cur
        BY <1>1, <1>2, <4>1 DEF behind
      <4>4. nx[Ring(h, q, i)] = Ring(h, q, i + 1) /\ pv[Ring(h, q, i + 1)] = Ring(h, q, i)
        BY <3>2, <4>1
      <4>5. /\ Ring(h, q, i) \in Link /\ Ring(h, q, i) # e
            /\ Ring(h, q, i + 1) \in Link /\ Ring(h, q, i + 1) # e
        BY <1>2, <4>1
      <4>6. nx2[Ring(h, q, i)] = Ring(h, q, i + 1) /\ pv2[Ring(h, q, i + 1)] = Ring(h, q, i)
        BY <1>7, <4>3, <4>4, <4>5
      <4> QED
        BY <2>2, <3>1, <4>2, <4>6
    <3>4. CASE i = k - 1
      <4>1. Ring(h, r, i) = behind /\ Ring(h, r, i + 1) = e
        BY <1>1, <1>6, <3>4 DEF behind
      <4> QED
        BY <1>7, <2>2, <3>1, <4>1
    <3>5. CASE i = k
      <4>1. k + 1 \in k+1..l+2 /\ (k + 1) - 1 = k
        BY <1>1
      <4>2. Ring(h, r, i) = e /\ Ring(h, r, i + 1) = cur
        BY <1>6, <3>5, <4>1
      <4> QED
        BY <1>7, <2>2, <3>1, <4>2
    <3>6. CASE i > k
      <4>1. /\ i - 1 \in 0..l /\ i \in 1..l+1 /\ i \in 0..l+1 /\ i - 1 \in 0..l+1
            /\ i - 1 # k - 1 /\ i # k /\ (i - 1) + 1 = i /\ (i + 1) - 1 = i
            /\ i \in k+1..l+2 /\ i + 1 \in k+1..l+2
        BY <1>1, <3>1, <3>6
      <4>2. Ring(h, r, i) = Ring(h, q, i - 1) /\ Ring(h, r, i + 1) = Ring(h, q, i)
        BY <1>6, <4>1
      <4>3. Ring(h, q, i - 1) # behind /\ Ring(h, q, i) # cur
        BY <1>1, <1>2, <4>1 DEF behind
      <4>4. nx[Ring(h, q, i - 1)] = Ring(h, q, i) /\ pv[Ring(h, q, i)] = Ring(h, q, i - 1)
        BY <3>2, <4>1
      <4> QED
        BY <1>2, <1>7, <2>2, <3>1, <4>1, <4>2, <4>3, <4>4
    <3> QED
      BY <1>1, <3>1, <3>3, <3>4, <3>5, <3>6
  <2> QED
    BY <2>1, <2>2
<1>14. ASSUME NEW x \in Elems
       PROVE  \/ nx2[x] = NULL /\ pv2[x] = NULL
              \/ \E g \in Heads : \E i \in 1..Len(R[g]) : R[g][i] = x
  <2>1. CASE x = e
    BY <1>1, <1>8, <2>1
  <2>2. CASE x # e /\ nx[x] = NULL /\ pv[x] = NULL
    <3>1. x # behind /\ x # cur /\ x \in Link
      BY <1>1, <2>2, Apart DEF behind, Link
    <3> QED
      BY <1>7, <2>2, <3>1
  <2>3. ASSUME NEW g \in Heads, NEW i \in 1..Len(Q[g]), Q[g][i] = x
        PROVE  \E f \in Heads : \E j \in 1..Len(R[f]) : R[f][j] = x
    <3>1. CASE g # h
      BY <1>8, <2>3, <3>1
    <3>2. CASE g = h /\ i < k
      <4>1. i \in 1..k-1 /\ i \in 1..l+1
        BY <1>1, <3>2
      <4>2. r[i] = x
        BY <2>3, <3>2, <4>1
      <4> QED
        BY <1>8, <4>1, <4>2
    <3>3. CASE g = h /\ ~(i < k)
      <4>1. i + 1 \in k+1..l+1 /\ i + 1 \in 1..l+1 /\ (i + 1) - 1 = i
        BY <1>1, <3>3
      <4>2. r[i + 1] = x
        BY <2>3, <3>3, <4>1
      <4> QED
        BY <1>8, <4>1, <4>2
    <3> QED
      BY <3>1, <3>2, <3>3
  <2>4. \/ nx[x] = NULL /\ pv[x] = NULL
        \/ \E g \in Heads : \E i \in 1..Len(Q[g]) : Q[g][i] = x
    BY DEF Laid
  <2> QED
    BY <2>1, <2>2, <2>3, <2>4
<1>15. Laid(R, nx2, pv2)
  BY <1>7, <1>8, <1>11, <1>12, <1>13, <1>14 DEF Laid
<1> QED
  BY <1>3, <1>15 DEF R, nx2, pv2

\* The pointers of a queued element lead to its neighbours.
LEMMA Neighbours ==
  ASSUME LinkConstants, NEW Q, NEW nx, NEW pv, Laid(Q, nx, pv),
         NEW h \in Heads, NEW k \in 1..Len(Q[h])
  PROVE  /\ Q[h][k] \in Elems
         /\ nx[Q[h][k]] = Ring(h, Q[h], k + 1) /\ pv[Q[h][k]] = Ring(h, Q[h], k - 1)
<1>1. k \in 0..Len(Q[h]) /\ k - 1 \in 0..Len(Q[h]) /\ (k - 1) + 1 = k
  BY QueueIs
<1>2. /\ nx[Ring(h, Q[h], k)] = Ring(h, Q[h], k + 1)
      /\ pv[Ring(h, Q[h], (k - 1) + 1)] = Ring(h, Q[h], k - 1)
  BY <1>1 DEF Laid
<1>3. Ring(h, Q[h], k) = Q[h][k] /\ Q[h][k] \in Elems
  BY QueueIs DEF Ring
<1> QED
  BY <1>1, <1>2, <1>3

\* r is q without its place k.
Without(q, k, r) ==
  /\ r \in Seq(Elems) /\ Len(r) = Len(q) - 1
  /\ \A i \in 1..k-1 : r[i] = q[i]
  /\ \A i \in k..Len(q)-1 : r[i] = q[i+1]

\* Unlinking the element at place k of the queue of h.
LEMMA RemoveLays ==
  ASSUME LinkConstants, NEW Q, NEW nx, NEW pv, Laid(Q, nx, pv),
         NEW h \in Heads, NEW k \in 1..Len(Q[h]), NEW e, e = Q[h][k],
         NEW r, Without(Q[h], k, r)
  PROVE  /\ e \in Elems /\ nx[e] # NULL /\ pv[e] # NULL
         /\ Laid([Q EXCEPT ![h] = r],
                 [nx EXCEPT ![pv[e]] = nx[e], ![e] = NULL],
                 [pv EXCEPT ![nx[e]] = pv[e], ![e] = NULL])
<1> DEFINE q == Q[h]
           l == Len(q)
           R == [Q EXCEPT ![h] = r]
           behind == Ring(h, q, k - 1)
           ahead == Ring(h, q, k + 1)
           nx2 == [nx EXCEPT ![behind] = ahead, ![e] = NULL]
           pv2 == [pv EXCEPT ![ahead] = behind, ![e] = NULL]
<1>0. /\ r \in Seq(Elems) /\ Len(r) = l - 1
      /\ \A i \in 1..k-1 : r[i] = q[i]
      /\ \A i \in k..l-1 : r[i] = q[i+1]
  BY DEF Without
<1>1. /\ l \in Nat /\ k \in 1..l /\ k - 1 \in 0..l /\ k \in 0..l /\ (k - 1) + 1 = k
      /\ k + 1 \in 1..l+1 /\ k \in 1..l+1 /\ k + 1 \in 0..l+1 /\ k - 1 \in 0..l+1
  BY QueueIs
<1>2. /\ \A i \in 0..l+1 : Ring(h, q, i) \in Link /\ Ring(h, q, i) # NULL
      /\ \A i, j \in 0..l : Ring(h, q, i) = Ring(h, q, j) => i = j
      /\ \A i, j \in 1..l+1 : Ring(h, q, i) = Ring(h, q, j) => i = j
      /\ \A g \in Heads \ {h} : \A i \in 0..l+1, j \in 0..Len(Q[g])+1 :
           Ring(h, q, i) # Ring(g, Q[g], j)
  BY Apart
<1>3. \A j \in 0..l : /\ nx[Ring(h, q, j)] = Ring(h, q, j + 1)
                      /\ pv[Ring(h, q, j + 1)] = Ring(h, q, j)
  BY DEF Laid
<1>4. Ring(h, q, k) = e /\ e \in Elems
  BY <1>1, QueueIs DEF Ring
<1>5. nx[e] = ahead /\ pv[e] = behind
  BY Neighbours
<1>6. /\ behind \in Link /\ ahead \in Link /\ e \in Link /\ behind # e /\ ahead # e
      /\ behind # NULL /\ ahead # NULL
  <2>1. behind # e
    BY <1>1, <1>2, <1>4
  <2>2. ahead # e
    BY <1>1, <1>2, <1>4
  <2> QED
    BY <1>1, <1>2, <1>4, <2>1, <2>2 DEF Link
<1>7. nx \in [Link -> Link \cup {NULL}] /\ pv \in [Link -> Link \cup {NULL}]
      /\ Q \in [Heads -> Seq(Elems)]
  BY DEF Laid
<1>8. /\ \A i \in 0..k-1 : Ring(h, r, i) = Ring(h, q, i)
      /\ \A i \in k..l : Ring(h, r, i) = Ring(h, q, i + 1)
  <2>1. Len(r) = l - 1 /\ (\A i \in 1..k-1 : r[i] = q[i])
        /\ \A i \in k..l-1 : r[i] = q[i+1]
    BY <1>0
  <2> HIDE DEF q, l
  <2>2. ASSUME NEW i \in 0..k-1 PROVE Ring(h, r, i) = Ring(h, q, i)
    <3>1. CASE i = 0
      BY <3>1 DEF Ring
    <3>2. CASE i # 0
      <4>1. i \in 1..k-1 /\ i \in 1..l-1 /\ i \in 1..l
        BY <1>1, <3>2
      <4> QED
        BY <2>1, <4>1 DEF Ring, l
    <3> QED
      BY <3>1, <3>2
  <2>3. ASSUME NEW i \in k..l PROVE Ring(h, r, i) = Ring(h, q, i + 1)
    <3>1. CASE i = l
      <4>1. i \notin 1..l-1 /\ i + 1 \notin 1..l
        BY <1>1, <3>1
      <4> QED
        BY <2>1, <4>1 DEF Ring, l
    <3>2. CASE i # l
      <4>1. i \in k..l-1 /\ i \in 1..l-1 /\ i + 1 \in 1..l
        BY <1>1, <3>2
      <4> QED
        BY <2>1, <4>1 DEF Ring, l
    <3> QED
      BY <3>1, <3>2
  <2> QED
    BY <2>2, <2>3
<1>9. /\ nx2[e] = NULL /\ nx2[behind] = ahead /\ pv2[e] = NULL /\ pv2[ahead] = behind
      /\ \A n \in Link : n # e /\ n # behind => nx2[n] = nx[n]
      /\ \A n \in Link : n # e /\ n # ahead => pv2[n] = pv[n]
      /\ nx2 \in [Link -> Link \cup {NULL}] /\ pv2 \in [Link -> Link \cup {NULL}]
  BY <1>6, <1>7
<1>10. R \in [Heads -> Seq(Elems)] /\ R[h] = r /\ \A g \in Heads \ {h} : R[g] = Q[g]
  BY <1>0, <1>7
<1> DEFINE from(i) == IF i < k THEN i ELSE i + 1
<1>11. /\ \A i \in 1..l-1 : from(i) \in 1..l /\ r[i] = q[from(i)]
       /\ \A i, j \in 1..l-1 : from(i) = from(j) => i = j
       /\ \A j \in 1..l : j # k => \E i \in 1..l-1 : r[i] = q[j]
  <2>1. ASSUME NEW i \in 1..l-1 PROVE from(i) \in 1..l /\ r[i] = q[from(i)]
    <3>1. CASE i < k
      <4>1. i \in 1..k-1 /\ i \in 1..l
        BY <1>1, <3>1
      <4> QED
        BY <1>0, <3>1, <4>1
    <3>2. CASE ~(i < k)
      <4>1. i \in k..l-1 /\ i + 1 \in 1..l
        BY <1>1, <3>2
      <4> QED
        BY <1>0, <3>2, <4>1
    <3> QED
      BY <3>1, <3>2
  <2>2. \A i, j \in 1..l-1 : from(i) = from(j) => i = j
    BY <1>1
  <2>3. ASSUME NEW j \in 1..l, j # k PROVE \E i \in 1..l-1 : r[i] = q[j]
    <3>1. CASE j < k
      <4>1. j \in 1..k-1 /\ j \in 1..l-1 /\ r[j] = q[j]
        BY <1>0, <1>1, <3>1
      <4> QED
        BY <4>1
    <3>2. CASE ~(j < k)
      <4>1. j - 1 \in k..l-1 /\ j - 1 \in 1..l-1 /\ (j - 1) + 1 = j
        BY <1>1, <2>3, <3>2
      <4>2. r[j - 1] = q[j]
        BY <1>0, <4>1
      <4> QED
        BY <4>1, <4>2
    <3> QED
      BY <3>1, <3>2
  <2> QED
    BY <2>1, <2>2, <2>3
<1> HIDE DEF R, nx2, pv2, behind, ahead, from
<1>12. \A g \in Heads : \A i, j \in 1..Len(R[g]) : R[g][i] = R[g][j] => i = j
  <2>1. \A i, j \in 1..l : q[i] = q[j] => i = j
    BY DEF Laid
  <2>2. ASSUME NEW i \in 1..l-1, NEW j \in 1..l-1, r[i] = r[j] PROVE i = j
    <3>1. q[from(i)] = q[from(j)] /\ from(i) \in 1..l /\ from(j) \in 1..l
      BY <1>11, <2>2
    <3>2. from(i) = from(j)
      BY <2>1, <3>1
    <3> QED
      BY <1>11, <3>2
  <2>3. \A g \in Heads \ {h} : \A i, j \in 1..Len(R[g]) : R[g][i] = R[g][j] => i = j
    BY <1>10 DEF Laid
  <2> QED
    BY <1>0, <1>10, <2>2, <2>3
<1>13. \A f, g \in Heads : f # g =>
         \A i \in 1..Len(R[f]), j \in 1..Len(R[g]) : R[f][i] # R[g][j]
  <2>1. ASSUME NEW g \in Heads \ {h}, NEW i \in 1..l-1, NEW j \in 1..Len(Q[g])
        PROVE  r[i] # Q[g][j]
    <3>1. \A a \in 1..l : q[a] # Q[g][j]
      BY DEF Laid
    <3> QED
      BY <1>11, <3>1
  <2>2. \A f, g \in Heads \ {h} : f # g =>
          \A i \in 1..Len(R[f]), j \in 1..Len(R[g]) : R[f][i] # R[g][j]
    BY <1>10 DEF Laid
  <2> SUFFICES ASSUME NEW f \in Heads, NEW g \in Heads, f # g,
                      NEW i \in 1..Len(R[f]), NEW j \in 1..Len(R[g])
               PROVE  R[f][i] # R[g][j]
    OBVIOUS
  <2>3. CASE f = h
    <3>1. g \in Heads \ {h} /\ R[f] = r /\ R[g] = Q[g]
      BY <1>10, <2>3
    <3> QED
      BY <1>0, <2>1, <3>1
  <2>4. CASE g = h
    <3>1. f \in Heads \ {h} /\ R[g] = r /\ R[f] = Q[f]
      BY <1>10, <2>4
    <3>2. r[j] # Q[f][i]
      BY <1>0, <2>1, <3>1
    <3> QED
      BY <3>1, <3>2
  <2> QED
    BY <2>2, <2>3, <2>4
<1>14. ASSUME NEW g \in Heads, NEW i \in 0..Len(R[g])
       PROVE  /\ nx2[Ring(g, R[g], i)] = Ring(g, R[g], i + 1)
              /\ pv2[Ring(g, R[g], i + 1)] = Ring(g, R[g], i)
  <2>1. CASE g # h
    <3>1. R[g] = Q[g] /\ Len(Q[g]) \in Nat
      BY <1>10, <2>1, QueueIs
    <3>2. /\ nx[Ring(g, Q[g], i)] = Ring(g, Q[g], i + 1)
          /\ pv[Ring(g, Q[g], i + 1)] = Ring(g, Q[g], i)
      BY <3>1 DEF Laid
    <3>3. \A j \in 0..Len(Q[g])+1 : /\ Ring(g, Q[g], j) \in Link /\ Ring(g, Q[g], j) # e
                                    /\ Ring(g, Q[g], j) # behind /\ Ring(g, Q[g], j) # ahead
      <4>1. g \in Heads \ {h} /\ \A j \in 0..Len(Q[g])+1 : Ring(g, Q[g], j) \in Link
        BY <2>1, Apart
      <4>2. k \in 0..l+1 /\ k - 1 \in 0..l+1 /\ k + 1 \in 0..l+1
        BY <1>1
      <4>3. \A a \in 0..l+1, j \in 0..Len(Q[g])+1 : Ring(h, q, a) # Ring(g, Q[g], j)
        BY <1>2, <4>1
      <4> QED
        BY <1>4, <4>1, <4>2, <4>3, Zenon DEF behind, ahead
    <3>4. i \in 0..Len(Q[g])+1 /\ i + 1 \in 0..Len(Q[g])+1
      BY <3>1
    <3> QED
      BY <1>9, <3>1, <3>2, <3>3, <3>4
  <2>2. CASE g = h
    <3>1. i \in 0..l-1 /\ R[g] = r
      BY <1>0, <1>10, <2>2
    <3>2. CASE i < k - 1
      <4>1. /\ i \in 0..l /\ i + 1 \in 0..l /\ i + 1 \in 1..l+1 /\ i \in 0..l+1 /\ i + 1 \in 0..l+1
            /\ i # k - 1 /\ i # k /\ i + 1 # k + 1 /\ i + 1 # k
            /\ i \in 0..k-1 /\ i + 1 \in 0..k-1
        BY <1>1, <3>1, <3>2
      <4>2. Ring(h, r, i) = Ring(h, q, i) /\ Ring(h, r, i + 1) = Ring(h, q, i + 1)
        BY <1>8, <4>1
      <4>3. /\ Ring(h, q, i) # behind /\ Ring(h, q, i) # e
            /\ Ring(h, q, i + 1) # ahead /\ Ring(h, q, i + 1) # e
        BY <1>1, <1>2, <1>4, <4>1 DEF behind, ahead
      <4>4. nx[Ring(h, q, i)] = Ring(h, q, i + 1) /\ pv[Ring(h, q, i + 1)] = Ring(h, q, i)
        BY <1>3, <4>1
      <4>5. Ring(h, q, i) \in Link /\ Ring(h, q, i + 1) \in Link
        BY <1>2, <4>1
      <4>6. nx2[Ring(h, q, i)] = Ring(h, q, i + 1) /\ pv2[Ring(h, q, i + 1)] = Ring(h, q, i)
        BY <1>9, <4>3, <4>4, <4>5
      <4> QED
        BY <2>2, <3>1, <4>2, <4>6
    <3>3. CASE i = k - 1
      <4>1. k - 1 \in 0..k-1 /\ k \in k..l /\ i + 1 = k
        BY <1>1, <3>3
      <4>2. Ring(h, r, i) = behind /\ Ring(h, r, i + 1) = ahead
        BY <1>8, <3>3, <4>1 DEF behind, ahead
      <4> QED
        BY <1>9, <2>2, <3>1, <4>2
    <3>4. CASE i >= k
      <4>1. /\ i + 1 \in 0..l /\ i + 1 \in 1..l+1 /\ i + 2 \in 1..l+1 /\ (i + 1) + 1 = i + 2
            /\ i + 1 # k - 1 /\ i + 1 # k /\ i + 2 # k + 1 /\ i + 2 # k
            /\ i + 1 \in 0..l+1 /\ i + 2 \in 0..l+1
            /\ i \in k..l /\ i + 1 \in k..l
        <5>1. i \in Int /\ k \in Int /\ l \in Int /\ 1 <= k /\ k <= i /\ i <= l - 1
          BY <1>1, <3>1, <3>4
        <5> HIDE DEF l
        <5> QED
          BY <5>1
      <4>2. Ring(h, r, i) = Ring(h, q, i + 1) /\ Ring(h, r, i + 1) = Ring(h, q, i + 2)
        BY <1>8, <4>1
      <4>3. /\ Ring(h, q, i + 1) # behind /\ Ring(h, q, i + 1) # e
            /\ Ring(h, q, i + 2) # ahead /\ Ring(h, q, i + 2) # e
        BY <1>1, <1>2, <1>4, <4>1 DEF behind, ahead
      <4>4. /\ nx[Ring(h, q, i + 1)] = Ring(h, q, i + 2)
            /\ pv[Ring(h, q, i + 2)] = Ring(h, q, i + 1)
        BY <1>3, <4>1
      <4>5. Ring(h, q, i + 1) \in Link /\ Ring(h, q, i + 2) \in Link
        BY <1>2, <4>1
      <4>6. /\ nx2[Ring(h, q, i + 1)] = Ring(h, q, i + 2)
            /\ pv2[Ring(h, q, i + 2)] = Ring(h, q, i + 1)
        BY <1>9, <4>3, <4>4, <4>5
      <4> QED
        BY <2>2, <3>1, <4>2, <4>6
    <3> QED
      BY <1>1, <3>1, <3>2, <3>3, <3>4
  <2> QED
    BY <2>1, <2>2
<1>15. ASSUME NEW x \in Elems
       PROVE  \/ nx2[x] = NULL /\ pv2[x] = NULL
              \/ \E g \in Heads : \E i \in 1..Len(R[g]) : R[g][i] = x
  <2>1. CASE x = e
    BY <1>9, <2>1
  <2>2. CASE x # e /\ nx[x] = NULL /\ pv[x] = NULL
    <3>1. x # behind /\ x # ahead /\ x \in Link
      BY <1>1, <2>2, Apart DEF behind, ahead, Link
    <3> QED
      BY <1>9, <2>2, <3>1
  <2>3. ASSUME NEW g \in Heads, NEW i \in 1..Len(Q[g]), Q[g][i] = x, x # e
        PROVE  \E f \in Heads : \E j \in 1..Len(R[f]) : R[f][j] = x
    <3>1. CASE g # h
      BY <1>10, <2>3, <3>1
    <3>2. CASE g = h
      <4>1. i \in 1..l /\ i # k /\ q[i] = x
        BY <2>3, <3>2
      <4> QED
        BY <1>0, <1>10, <1>11, <4>1
    <3> QED
      BY <3>1, <3>2
  <2>4. \/ nx[x] = NULL /\ pv[x] = NULL
        \/ \E g \in Heads : \E i \in 1..Len(Q[g]) : Q[g][i] = x
    BY DEF Laid
  <2> QED
    BY <2>1, <2>2, <2>3, <2>4
<1>16. Laid(R, nx2, pv2)
  BY <1>9, <1>10, <1>12, <1>13, <1>14, <1>15 DEF Laid
<1> QED
  BY <1>4, <1>5, <1>6, <1>16 DEF R, nx2, pv2, behind, ahead

-----------------------------------------------------------------------------
(* The invariant *)

Queues == [h \in Heads |-> Contents(h)]

LinkInv == Laid(Queues, next, prev) /\ prio \in [Elems -> Prio]

LEMMA QueuesFound == Queues = [h \in Heads |-> FoundIn(next, h)]
  BY ContentsFound DEF Queues

LEMMA QueuesFoundNext == Queues' = [h \in Heads |-> FoundIn(next', h)]
<1>1. \A h : At(h)' = Followed(next', h)
  BY DEF At, Followed
<1>2. \A h : Contents(h)' = FoundIn(next', h)
  BY <1>1 DEF Contents, FoundIn
<1> QED
  BY <1>2 DEF Queues

\* The queues that the pointers are laid out for are the ones found.
LEMMA LaidIsFound ==
  ASSUME LinkConstants, NEW Q, NEW nx, NEW pv, Laid(Q, nx, pv)
  PROVE  [h \in Heads |-> FoundIn(nx, h)] = Q
<1>1. \A h \in Heads : FoundIn(nx, h) = Q[h]
  BY FindsQueue
<1>2. Q = [h \in Heads |-> Q[h]]
  BY DEF Laid
<1> QED
  BY <1>1, <1>2

\* An element is in a queue exactly when its pointers are set.
LEMMA LinkedIsQueued ==
  ASSUME LinkConstants, NEW Q, NEW nx, NEW pv, Laid(Q, nx, pv), NEW e \in Elems
  PROVE  /\ nx[e] = NULL <=> pv[e] = NULL
         /\ nx[e] # NULL <=> \E h \in Heads : e \in Range(Q[h])
<1>1. ASSUME NEW h \in Heads, e \in Range(Q[h])
      PROVE  nx[e] # NULL /\ pv[e] # NULL
  <2>1. PICK k \in 1..Len(Q[h]) : Q[h][k] = e
    BY <1>1, QueueIs DEF Range
  <2>2. Len(Q[h]) \in Nat
    BY QueueIs
  <2>3. /\ k \in 0..Len(Q[h]) /\ k - 1 \in 0..Len(Q[h]) /\ (k - 1) + 1 = k
        /\ k + 1 \in 0..Len(Q[h])+1 /\ k - 1 \in 0..Len(Q[h])+1
    BY <2>1, <2>2
  <2>4. /\ nx[Ring(h, Q[h], k)] = Ring(h, Q[h], k + 1)
        /\ pv[Ring(h, Q[h], (k - 1) + 1)] = Ring(h, Q[h], k - 1)
    BY <2>3 DEF Laid
  <2>5. Ring(h, Q[h], k) = e
    BY <2>1 DEF Ring
  <2>6. Ring(h, Q[h], k + 1) # NULL /\ Ring(h, Q[h], k - 1) # NULL
    BY <2>3, Apart
  <2> QED
    BY <2>3, <2>4, <2>5, <2>6
<1>2. ASSUME NEW h \in Heads, NEW i \in 1..Len(Q[h]), Q[h][i] = e
      PROVE  e \in Range(Q[h])
  BY <1>2, QueueIs DEF Range
<1>3. \/ nx[e] = NULL /\ pv[e] = NULL
      \/ \E h \in Heads : \E i \in 1..Len(Q[h]) : Q[h][i] = e
  BY DEF Laid
<1> QED
  BY <1>1, <1>2, <1>3

\* The pointers of a head lead to the two ends of its queue.
LEMMA HeadPoints ==
  ASSUME LinkConstants, NEW Q, NEW nx, NEW pv, Laid(Q, nx, pv), NEW h \in Heads
  PROVE  /\ nx[h] = h <=> Q[h] = << >>
         /\ Q[h] # << >> => Len(Q[h]) \in 1..Len(Q[h]) /\ pv[h] = Q[h][Len(Q[h])]
<1> DEFINE q == Q[h]
           l == Len(q)
<1>1. q \in Seq(Elems) /\ l \in Nat /\ \A i \in 1..l : q[i] # h
  BY QueueIs
<1>2. nx[Ring(h, q, 0)] = Ring(h, q, 0 + 1) /\ pv[Ring(h, q, l + 1)] = Ring(h, q, l)
  BY <1>1 DEF Laid
<1>3. Ring(h, q, 0) = h /\ Ring(h, q, l + 1) = h
  BY <1>1 DEF Ring
<1>4. CASE q = << >>
  BY <1>2, <1>3, <1>4 DEF Ring
<1>5. CASE q # << >>
  <2>1. l \in 1..l /\ 1 \in 1..l
    BY <1>1, <1>5
  <2>2. Ring(h, q, 0 + 1) = q[1] /\ Ring(h, q, l) = q[l]
    BY <2>1 DEF Ring
  <2> QED
    BY <1>1, <1>2, <1>3, <1>5, <2>1, <2>2
<1> QED
  BY <1>4, <1>5

-----------------------------------------------------------------------------
(* The operations *)

\* QueueSpec has its own copy of PrioQueue.
LEMMA SameOperators ==
  /\ \A e, q, p : Abstract!queue_add(e, q, p) = queue_add(e, q, p)
  /\ \A e, q : Abstract!queue_del(e, q) = queue_del(e, q)
  /\ \A q : Abstract!queue_top(q) = queue_top(q) /\ Abstract!queue_rest(q) = queue_rest(q)
  /\ \A q : Abstract!Range(q) = Range(q)
<1>1. \A e, q, p : Abstract!ScanStop(e, q, p) = ScanStop(e, q, p)
  BY DEF Abstract!ScanStop, ScanStop
<1> QED
  BY <1>1 DEF Abstract!queue_add, queue_add, Abstract!queue_del, queue_del,
       Abstract!queue_top, queue_top, Abstract!queue_rest, queue_rest, Abstract!Range, Range

\* What one step makes of the queues.
Leads(Q) == Queues' = Q /\ LinkInv'

LEMMA Lead ==
  ASSUME LinkConstants, NEW Q, Laid(Q, next', prev'), prio' \in [Elems -> Prio]
  PROVE  Leads(Q)
<1>1. Queues' = Q
  BY LaidIsFound, QueuesFoundNext
<1> QED
  BY <1>1 DEF Leads, LinkInv

LEMMA AddLeads ==
  ASSUME LinkConstants, LinkInv, NEW e \in Elems, NEW h \in Heads, Add(e, h)
  PROVE  /\ ~ \E g \in Heads : e \in Range(Queues[g])
         /\ Leads([Queues EXCEPT ![h] = queue_add(e, Queues[h], prio)])
<1> DEFINE Q == Queues
           q == Queues[h]
           k == ScanStop(e, q, prio)
           r == queue_add(e, q, prio)
           cur == InsertionPoint(e, h)
<1>1. Laid(Q, next, prev) /\ prio \in [Elems -> Prio]
  BY DEF LinkInv
<1>2. next[e] = NULL /\ prev[e] = NULL
  BY DEF Add, Unlinked
<1>3. k \in 1..Len(q)+1 /\ cur = Ring(h, q, k)
  BY <1>1, InsertsWhere
<1>4. q \in Seq(Elems) /\ Len(q) \in Nat
  BY <1>1, QueueIs
<1>5. r \in Seq(Elems) /\ Len(r) = Len(q) + 1
  <2>1. prio \in [Elems -> Nat]
    BY <1>1 DEF LinkConstants
  <2> HIDE DEF q
  <2> QED
    BY <1>4, <2>1, AddPlaces
<1>6. r = [i \in 1..Len(q)+1 |-> IF i < k THEN q[i] ELSE IF i = k THEN e ELSE q[i-1]]
  BY Zenon DEF queue_add
<1> HIDE DEF k, r, q, cur, Q
<1>7. /\ r[k] = e
      /\ \A i \in 1..k-1 : r[i] = q[i]
      /\ \A i \in k+1..Len(q)+1 : r[i] = q[i-1]
  BY <1>3, <1>4, <1>6
<1>8. Laid([Q EXCEPT ![h] = r], [next EXCEPT ![e] = cur, ![prev[cur]] = e],
           [prev EXCEPT ![e] = prev[cur], ![cur] = e])
  BY <1>1, <1>2, <1>3, <1>5, <1>7, InsertLays DEF q, Q
<1>9. /\ next' = [next EXCEPT ![e] = cur, ![prev[cur]] = e]
      /\ prev' = [prev EXCEPT ![e] = prev[cur], ![cur] = e]
      /\ prio' = prio
  BY DEF Add, cur
<1>10. Leads([Q EXCEPT ![h] = r])
  BY <1>1, <1>8, <1>9, Lead
<1>11. ~ \E g \in Heads : e \in Range(Q[g])
  BY <1>1, <1>2, LinkedIsQueued
<1> QED
  BY <1>10, <1>11 DEF r, q, Q

LEMMA OutLeads ==
  ASSUME LinkConstants, LinkInv, NEW h \in Heads, Out(h)
  PROVE  /\ Queues[h] # << >>
         /\ given' = queue_top(Queues[h])
         /\ Leads([Queues EXCEPT ![h] = queue_rest(Queues[h])])
<1> DEFINE Q == Queues
           q == Queues[h]
           l == Len(q)
           r == queue_rest(q)
           e == prev[h]
<1>1. Laid(Q, next, prev) /\ prio \in [Elems -> Prio]
  BY DEF LinkInv
<1>2. q # << >> /\ l \in 1..l /\ e = q[l]
  <2>1. next[h] # h
    BY DEF Out, queue_empty
  <2> QED
    BY <1>1, <2>1, HeadPoints
<1>3. q \in Seq(Elems) /\ l \in Nat /\ l - 1 \in 0..l
  BY <1>1, <1>2, QueueIs
<1>4. r = SubSeq(q, 1, l - 1)
  BY DEF queue_rest
<1> HIDE DEF q, r, l, e, Q
<1>5. r \in Seq(Elems) /\ Len(r) = l - 1 /\ \A i \in 1..l-1 : r[i] = q[i]
  <2>1. /\ r \in Seq(Elems) /\ DOMAIN r = 1..l-1
        /\ \A i \in 1..l-1 : r[i] = q[i]
    BY <1>3, <1>4, PrefixPlaces DEF l
  <2> QED
    BY <1>3, <2>1
<1>6. \A i \in l..l-1 : r[i] = q[i+1]
  BY <1>3
<1>7. /\ e \in Elems
      /\ prev[e] = Ring(h, q, l - 1) /\ next[e] = Ring(h, q, l + 1)
      /\ Laid([Q EXCEPT ![h] = r], [next EXCEPT ![prev[e]] = next[e], ![e] = NULL],
              [prev EXCEPT ![next[e]] = prev[e], ![e] = NULL])
  <2>1. /\ Laid(Q, next, prev) /\ l \in 1..Len(Q[h]) /\ e = Q[h][l]
        /\ Without(Q[h], l, r)
    BY <1>1, <1>2, <1>5, <1>6 DEF l, q, Q, Without
  <2>2. Ring(h, q, l - 1) = Ring(h, Q[h], l - 1) /\ Ring(h, q, l + 1) = Ring(h, Q[h], l + 1)
    BY DEF q, Q
  <2> QED
    <3>1. /\ e \in Elems
          /\ prev[e] = Ring(h, Q[h], l - 1) /\ next[e] = Ring(h, Q[h], l + 1)
      BY <2>1, Neighbours
    <3>2. Laid([Q EXCEPT ![h] = r], [next EXCEPT ![prev[e]] = next[e], ![e] = NULL],
               [prev EXCEPT ![next[e]] = prev[e], ![e] = NULL])
      BY <2>1, RemoveLays
    <3> QED
      BY <2>2, <3>1, <3>2
<1>8. next[e] = h
  BY <1>3, <1>7 DEF Ring, l
<1>9. /\ next' = [next EXCEPT ![prev[e]] = h, ![e] = NULL]
      /\ prev' = [prev EXCEPT ![h] = prev[e], ![e] = NULL]
      /\ given' = e /\ prio' = prio
  BY DEF Out, e
<1>10. Leads([Q EXCEPT ![h] = r])
  BY <1>1, <1>7, <1>8, <1>9, Lead
<1>11. queue_top(q) = q[l]
  BY DEF queue_top, l
<1> QED
  BY <1>2, <1>9, <1>10, <1>11 DEF q, r, Q

LEMMA DelLeads ==
  ASSUME LinkConstants, LinkInv, NEW e \in Elems, Del(e)
  PROVE  \E h \in Heads : /\ e \in Range(Queues[h])
                          /\ Leads([Queues EXCEPT ![h] = queue_del(e, Queues[h])])
<1>1. Laid(Queues, next, prev) /\ prio \in [Elems -> Prio]
  BY DEF LinkInv
<1>2. PICK h \in Heads : e \in Range(Queues[h])
  BY <1>1, LinkedIsQueued DEF Del
<1> DEFINE Q == Queues
           q == Queues[h]
           r == queue_del(e, q)
<1>3. q \in Seq(Elems) /\ Len(q) \in Nat
  BY <1>1, QueueIs
<1>4. /\ r \in Seq(Elems) /\ Len(r) = Len(q) - 1
      /\ \E k \in 1..Len(q) :
              /\ q[k] = e
              /\ \A i \in 1..k-1 : r[i] = q[i]
              /\ \A i \in k+1..Len(q) : r[i-1] = q[i]
  <2> HIDE DEF q
  <2>1. e \in Range(q)
    BY <1>2 DEF q
  <2> QED
    BY <1>3, <2>1, DelPlaces
<1> HIDE DEF q, r, Q
<1>5. PICK k \in 1..Len(q) : /\ q[k] = e
                             /\ \A i \in 1..k-1 : r[i] = q[i]
                             /\ \A i \in k+1..Len(q) : r[i-1] = q[i]
  BY <1>4
<1>6. \A i \in k..Len(q)-1 : r[i] = q[i+1]
  <2> SUFFICES ASSUME NEW i \in k..Len(q)-1 PROVE r[i] = q[i+1]
    OBVIOUS
  <2>1. i + 1 \in k+1..Len(q) /\ (i + 1) - 1 = i
    BY <1>3
  <2> QED
    BY <1>5, <2>1
<1>7. Laid([Q EXCEPT ![h] = r], [next EXCEPT ![prev[e]] = next[e], ![e] = NULL],
           [prev EXCEPT ![next[e]] = prev[e], ![e] = NULL])
  <2>1. /\ Laid(Q, next, prev) /\ k \in 1..Len(Q[h]) /\ e = Q[h][k]
        /\ Without(Q[h], k, r)
    BY <1>1, <1>4, <1>5, <1>6 DEF q, Q, Without
  <2> QED
    BY <2>1, RemoveLays
<1>8. /\ next' = [next EXCEPT ![prev[e]] = next[e], ![e] = NULL]
      /\ prev' = [prev EXCEPT ![next[e]] = prev[e], ![e] = NULL]
      /\ prio' = prio
  BY DEF Del
<1>9. Leads([Q EXCEPT ![h] = r])
  BY <1>1, <1>7, <1>8, Lead
<1> QED
  BY <1>2, <1>9 DEF q, r, Q

LEMMA StillLeads ==
  ASSUME LinkConstants, LinkInv, UNCHANGED <<prev, next>>, prio' \in [Elems -> Prio]
  PROVE  Leads(Queues)
  BY Lead DEF LinkInv

LEMMA InitLays ==
  ASSUME LinkConstants, LinkInit
  PROVE  LinkInv /\ Queues = [h \in Heads |-> << >>]
<1> DEFINE Q == [h \in Heads |-> << >>]
<1>1. Q \in [Heads -> Seq(Elems)] /\ \A h \in Heads : Q[h] = << >> /\ Len(Q[h]) = 0
  OBVIOUS
<1>2. next = prev /\ next \in [Link -> Link \cup {NULL}]
      /\ (\A h \in Heads : next[h] = h) /\ \A e \in Elems : next[e] = NULL
  BY DEF LinkInit, Link, LinkConstants
<1>3. \A h \in Heads, i \in Int : Ring(h, Q[h], i) = h
  BY <1>1 DEF Ring
<1> HIDE DEF Q
<1>4. Laid(Q, next, prev)
  BY <1>1, <1>2, <1>3 DEF Laid
<1>5. Queues = Q
  BY <1>4, LaidIsFound, QueuesFound
<1> QED
  BY <1>4, <1>5 DEF LinkInv, LinkInit, Q

LEMMA Keeps ==
  ASSUME LinkConstants, LinkInv, UNCHANGED <<prev, next, prio>>
  PROVE  Leads(Queues)
  BY StillLeads DEF LinkInv

-----------------------------------------------------------------------------
(* The theorems *)

Matches == Abstract!QueueNext \/ UNCHANGED <<Queues, prio, failed, given>>

LEMMA AbstractQueues == Queues = [h \in Heads |-> Contents(h)]
  BY DEF Queues

LEMMA NextMatches ==
  ASSUME LinkConstants, LinkInv, [LinkNext]_linkvars
  PROVE  LinkInv' /\ Matches
<1> DEFINE Goal == LinkInv' /\ Matches
<1>0. Queues \in [Heads -> Seq(Elems)]
  BY DEF LinkInv, Laid
<1>1. ASSUME NEW e \in Elems, NEW h \in Heads, Add(e, h) PROVE Goal
  <2>1. Abstract!AddTo(h, e)
    BY <1>1, AddLeads, SameOperators, AbstractQueues
       DEF Leads, Add, Abstract!AddTo, Abstract!Queued, Queues
  <2> QED
    BY <1>1, <2>1, AddLeads DEF Leads, Matches, Abstract!QueueNext, Add
<1>2. ASSUME NEW h \in Heads, Out(h) PROVE Goal
  <2>1. Abstract!TakeFrom(h)
    BY <1>2, OutLeads, SameOperators DEF Leads, Out, Abstract!TakeFrom, Queues
  <2> QED
    BY <1>2, <2>1, OutLeads DEF Leads, Matches, Abstract!QueueNext, Out
<1>3. ASSUME NEW h \in Heads, OutEmpty(h) PROVE Goal
  <2>1. Leads(Queues)
    BY <1>3, Keeps DEF OutEmpty
  <2>2. Queues[h] = << >>
    BY <1>3, HeadPoints DEF OutEmpty, queue_empty, LinkInv
  <2>3. Abstract!TakeFromEmpty(h)
    BY <1>3, <2>1, <2>2 DEF Leads, OutEmpty, Abstract!TakeFromEmpty, Queues
  <2> QED
    BY <1>3, <2>1, <2>3 DEF Leads, Matches, Abstract!QueueNext, OutEmpty
<1>4. ASSUME NEW e \in Elems, Del(e) PROVE Goal
  <2>1. Abstract!Delete(e)
    BY <1>4, DelLeads, SameOperators DEF Leads, Del, Abstract!Delete, Queues
  <2> QED
    BY <1>4, <2>1, DelLeads DEF Leads, Matches, Abstract!QueueNext, Del
<1>5. ASSUME NEW e \in Elems, AddFails(e) \/ DelFails(e) PROVE Goal
  <2>1. Leads(Queues)
    BY <1>5, Keeps DEF AddFails, DelFails
  <2>2. Abstract!Misuse
    BY <1>5, <2>1 DEF Leads, AddFails, DelFails, Abstract!Misuse, Queues
  <2> QED
    BY <1>5, <2>1, <2>2 DEF Leads, Matches, Abstract!QueueNext, AddFails, DelFails
<1>6. ASSUME NEW e \in Elems, NEW v \in Prio, SetPrio(e, v) PROVE Goal
  <2>1. prio' = [prio EXCEPT ![e] = v] /\ prio' \in [Elems -> Prio]
    BY <1>6 DEF SetPrio, LinkInv
  <2>2. Leads(Queues)
    BY <1>6, <2>1, StillLeads DEF SetPrio
  <2>3. ~ \E h \in Heads : e \in Range(Queues[h])
    BY <1>6, LinkedIsQueued DEF SetPrio, Unlinked, LinkInv
  <2>4. Abstract!Reprioritise(e, v)
    BY <1>6, <2>1, <2>2, <2>3, SameOperators
       DEF Leads, SetPrio, Abstract!Reprioritise, Abstract!Queued, Queues
  <2> QED
    BY <1>6, <2>2, <2>4 DEF Leads, Matches, Abstract!QueueNext, SetPrio
<1>7. CASE UNCHANGED linkvars
  BY <1>7, Keeps DEF linkvars, Leads, Matches
<1> QED
  BY <1>1, <1>2, <1>3, <1>4, <1>5, <1>6, <1>7 DEF LinkNext

LEMMA LinkInvHolds == LinkSpec => []LinkInv
<1>1. LinkInit => LinkInv
  BY InitLays, LinkConstants
<1>2. LinkInv /\ [LinkNext]_linkvars => LinkInv'
  BY NextMatches, LinkConstants
<1> QED
  BY <1>1, <1>2, PTL DEF LinkSpec

\* Whatever is added and removed, the pointers of a linked element lead to
\* linked ones and back, for any number of elements and heads.
THEOREM LinksLeadBack == LinkSpec => []LinksTyped
<1>1. ASSUME LinkInv PROVE LinksTyped
  <2>1. Laid(Queues, next, prev)
    BY <1>1 DEF LinkInv
  <2>2. ASSUME NEW h \in Heads, NEW i \in 0..Len(Queues[h]), NEW n, n = Ring(h, Queues[h], i)
        PROVE  next[n] # NULL /\ prev[n] # NULL /\ prev[next[n]] = n /\ next[prev[n]] = n
    <3>1. Len(Queues[h]) \in Nat
      BY <2>1, QueueIs, LinkConstants
    <3> DEFINE l == Len(Queues[h])
    <3>2. \A j \in 0..l : /\ next[Ring(h, Queues[h], j)] = Ring(h, Queues[h], j + 1)
                          /\ prev[Ring(h, Queues[h], j + 1)] = Ring(h, Queues[h], j)
      BY <2>1 DEF Laid
    <3>3. \A j \in 0..l+1 : Ring(h, Queues[h], j) # NULL
      BY <2>1, Apart, LinkConstants
    <3>4. Ring(h, Queues[h], 0) = Ring(h, Queues[h], l + 1)
      BY <3>1 DEF Ring
    <3> HIDE DEF l
    <3>5. PICK j \in 0..l : n = Ring(h, Queues[h], j + 1)
      <4>1. CASE i = 0
        <5>1. l \in 0..l
          BY <3>1 DEF l
        <5> QED
          BY <2>2, <3>4, <4>1, <5>1
      <4>2. CASE i # 0
        <5>1. i - 1 \in 0..l /\ (i - 1) + 1 = i
          BY <3>1, <4>2 DEF l
        <5> QED
          BY <2>2, <5>1
      <4> QED
        BY <4>1, <4>2
    <3>6. next[n] = Ring(h, Queues[h], i + 1) /\ prev[Ring(h, Queues[h], i + 1)] = n
      BY <2>2, <3>2 DEF l
    <3>7. prev[n] = Ring(h, Queues[h], j) /\ next[Ring(h, Queues[h], j)] = n
      BY <3>2, <3>5
    <3>8. i + 1 \in 0..l+1 /\ j \in 0..l+1
      BY <3>1 DEF l
    <3> QED
      BY <3>3, <3>6, <3>7, <3>8
  <2>3. ASSUME NEW n \in Link
        PROVE  \/ n \in Elems /\ Unlinked(n)
               \/ \E h \in Heads : \E i \in 0..Len(Queues[h]) : n = Ring(h, Queues[h], i)
    <3>1. CASE n \in Heads
      <4>1. 0 \in 0..Len(Queues[n]) /\ n = Ring(n, Queues[n], 0)
        BY <2>1, <3>1, QueueIs, LinkConstants DEF Ring
      <4> QED
        BY <3>1, <4>1
    <3>2. CASE n \in Elems
      <4>1. ASSUME NEW h \in Heads, NEW i \in 1..Len(Queues[h]), Queues[h][i] = n
            PROVE  i \in 0..Len(Queues[h]) /\ n = Ring(h, Queues[h], i)
        BY <4>1 DEF Ring
      <4>2. \/ Unlinked(n)
            \/ \E h \in Heads : \E i \in 1..Len(Queues[h]) : Queues[h][i] = n
        BY <2>1, <3>2 DEF Laid, Unlinked
      <4> QED
        BY <3>2, <4>1, <4>2
    <3> QED
      BY <3>1, <3>2 DEF Link
  <2>4. prev \in [Link -> Link \cup {NULL}] /\ next \in [Link -> Link \cup {NULL}]
    BY <2>1 DEF Laid
  <2> QED
    BY <2>2, <2>3, <2>4 DEF LinksTyped
<1> QED
  BY <1>1, LinkInvHolds, PTL

\* No operation splices two queues or leaves a circle without a head: every
\* linked element is in exactly one queue.
THEOREM EachInOneQueue == LinkSpec => []OneQueueEach
<1>1. ASSUME LinkInv PROVE OneQueueEach
  <2> DEFINE members == [h \in Heads |-> Range(Contents(h))]
  <2>1. Laid(Queues, next, prev) /\ \A h \in Heads : members[h] = Range(Queues[h])
    BY <1>1 DEF LinkInv, Queues
  <2> HIDE DEF members
  <2>2. ASSUME NEW e \in Elems
        PROVE  ~Unlinked(e) <=> Cardinality({h \in Heads : e \in members[h]}) = 1
    <3> DEFINE holders == {h \in Heads : e \in members[h]}
    <3>1. ~Unlinked(e) <=> \E h \in Heads : e \in Range(Queues[h])
      BY <2>1, LinkedIsQueued, LinkConstants DEF Unlinked
    <3>2. ASSUME NEW g \in holders, NEW h \in holders PROVE g = h
      <4>1. e \in Range(Queues[g]) /\ e \in Range(Queues[h])
        BY <2>1
      <4>2. PICK i \in 1..Len(Queues[g]) : Queues[g][i] = e
        BY <2>1, <4>1, QueueIs, LinkConstants DEF Range
      <4>3. PICK j \in 1..Len(Queues[h]) : Queues[h][j] = e
        BY <2>1, <4>1, QueueIs, LinkConstants DEF Range
      <4> QED
        BY <2>1, <4>2, <4>3 DEF Laid
    <3>3. holders = {} <=> Unlinked(e)
      BY <2>1, <3>1
    <3> HIDE DEF holders
    <3>4. CASE holders = {}
      <4>1. Cardinality(holders) = 0
        BY <3>4, FS_EmptySet
      <4> QED
        BY <3>3, <3>4, <4>1 DEF holders
    <3>5. CASE holders # {}
      <4>1. PICK h \in holders : TRUE
        BY <3>5
      <4>2. holders = {h}
        BY <3>2, <4>1
      <4>3. Cardinality(holders) = 1
        BY <4>2, FS_Singleton
      <4> QED
        BY <3>3, <3>5, <4>3 DEF holders
    <3> QED
      BY <3>4, <3>5
  <2> QED
    BY <2>2 DEF OneQueueEach, members
<1> QED
  BY <1>1, LinkInvHolds, PTL

\* The macros of queue.h implement QueueSpec on their pointers, for any
\* number of elements, heads and priorities.
THEOREM QueueImplemented == LinkSpec => ImplementsQueue
<1>1. LinkInit => Abstract!QueueInit
  BY InitLays, LinkConstants DEF LinkInit, Abstract!QueueInit, Queues
<1>2. LinkInv /\ [LinkNext]_linkvars =>
        [Abstract!QueueNext]_<<[h \in Heads |-> Contents(h)], prio, failed, given>>
  BY NextMatches, LinkConstants DEF Matches, Queues
<1> QED
  BY <1>1, <1>2, LinkInvHolds, PTL DEF LinkSpec, ImplementsQueue, Abstract!QueueBehaviour

-----------------------------------------------------------------------------
(* The order in which elements leave *)

\* x is before y in s.
Earlier(x, y, s) == \E i, j \in 1..Len(s) : i < j /\ s[i] = x /\ s[j] = y

\* x leaves before y: it has a higher priority, or came first.
Outranks(x, y, p, s) == p[y] < p[x] \/ (p[y] = p[x] /\ Earlier(x, y, s))

Ranked(Q, p, s) ==
  \A h \in Heads : \A i, j \in 1..Len(Q[h]) : i < j => Outranks(Q[h][j], Q[h][i], p, s)

Present(Q, e) == \E h \in Heads : \E i \in 1..Len(Q[h]) : Q[h][i] = e

\* s has the queued elements, each of them once.
Records(Q, s) ==
  /\ s \in Seq(Elems)
  /\ \A i, j \in 1..Len(s) : s[i] = s[j] => i = j
  /\ \A e \in Elems : (\E i \in 1..Len(s) : s[i] = e) <=> Present(Q, e)

FifoInv == LinkInv /\ Records(Queues, arrivals) /\ Ranked(Queues, prio, arrivals)

\* Appending to the arrivals keeps their order.
LEMMA Appended ==
  ASSUME NEW s \in Seq(Elems), NEW e \in Elems
  PROVE  LET t == Append(s, e) IN
         /\ t \in Seq(Elems) /\ Len(t) = Len(s) + 1 /\ t[Len(s)+1] = e
         /\ \A i \in 1..Len(s) : t[i] = s[i]
         /\ \A x, y : Earlier(x, y, s) => Earlier(x, y, t)
         /\ \A i \in 1..Len(s) : Earlier(s[i], e, t)
<1> DEFINE t == Append(s, e)
<1>1. /\ t \in Seq(Elems) /\ Len(t) = Len(s) + 1 /\ t[Len(s)+1] = e /\ Len(s) \in Nat
      /\ \A i \in 1..Len(s) : t[i] = s[i]
  OBVIOUS
<1> HIDE DEF t
<1>2. ASSUME NEW x, NEW y, Earlier(x, y, s) PROVE Earlier(x, y, t)
  <2>1. PICK i \in 1..Len(s), j \in 1..Len(s) : i < j /\ s[i] = x /\ s[j] = y
    BY <1>2 DEF Earlier
  <2>2. i \in 1..Len(t) /\ j \in 1..Len(t) /\ t[i] = x /\ t[j] = y
    BY <1>1, <2>1
  <2> QED BY <2>1, <2>2 DEF Earlier
<1>3. ASSUME NEW i \in 1..Len(s) PROVE Earlier(s[i], e, t)
  <2>1. i \in 1..Len(t) /\ Len(s) + 1 \in 1..Len(t) /\ i < Len(s) + 1
    BY <1>1
  <2> QED BY <1>1, <2>1 DEF Earlier
<1> QED BY <1>1, <1>2, <1>3 DEF t

\* t is s without e.
Lacks(t, s, e) ==
  /\ t \in Seq(Elems)
  /\ \A i, j \in 1..Len(t) : t[i] = t[j] => i = j
  /\ \A x : (\E i \in 1..Len(t) : t[i] = x) <=> x # e /\ \E i \in 1..Len(s) : s[i] = x
  /\ \A x, y : x # e /\ y # e /\ Earlier(x, y, s) => Earlier(x, y, t)

LEMMA Cut ==
  ASSUME NEW s \in Seq(Elems), \A i, j \in 1..Len(s) : s[i] = s[j] => i = j,
         NEW c \in 1..Len(s), NEW e, s[c] = e
  PROVE  Lacks([j \in 1..Len(s)-1 |-> IF j < c THEN s[j] ELSE s[j+1]], s, e)
<1> DEFINE l == Len(s)
           t == [j \in 1..l-1 |-> IF j < c THEN s[j] ELSE s[j+1]]
<1>1. l \in Nat /\ c \in 1..l /\ \A i \in 1..l : s[i] \in Elems
  OBVIOUS
<1>2. t \in [1..l-1 -> Elems]
  <2>1. \A j \in 1..l-1 : j \in 1..l /\ j + 1 \in 1..l
    BY <1>1
  <2> HIDE DEF l
  <2> QED BY <1>1, <2>1 DEF l
<1>3. t \in Seq(Elems) /\ Len(t) = l - 1
  BY <1>1, <1>2
<1> DEFINE Old(j) == IF j < c THEN j ELSE j + 1
<1>4. \A j \in 1..l-1 : Old(j) \in 1..l /\ Old(j) # c /\ t[j] = s[Old(j)]
  BY <1>1
<1> HIDE DEF t
<1>5. \A i, j \in 1..l-1 : (i < j <=> Old(i) < Old(j)) /\ (Old(i) = Old(j) => i = j)
  BY <1>1
<1>6. \A i \in 1..l : i # c => \E j \in 1..l-1 : Old(j) = i
  <2> SUFFICES ASSUME NEW i \in 1..l, i # c PROVE \E j \in 1..l-1 : Old(j) = i
    OBVIOUS
  <2>1. CASE i < c
    BY <1>1, <2>1, i \in 1..l-1
  <2>2. CASE i > c
    <3>1. i - 1 \in 1..l-1 /\ ~(i - 1 < c) /\ (i - 1) + 1 = i
      BY <1>1, <2>2
    <3>2. Old(i - 1) = i
      BY <3>1
    <3> HIDE DEF Old
    <3> QED BY <3>1, <3>2
  <2> QED BY <1>1, <2>1, <2>2
<1> HIDE DEF Old
<1>7. \A i, j \in 1..Len(t) : t[i] = t[j] => i = j
  BY <1>3, <1>4, <1>5
<1>8. \A i \in 1..l : s[i] = e <=> i = c
  BY <1>1
<1>9. ASSUME NEW x
      PROVE  (\E i \in 1..Len(t) : t[i] = x) <=> x # e /\ \E i \in 1..l : s[i] = x
  <2>1. ASSUME NEW i \in 1..Len(t), t[i] = x PROVE x # e /\ \E j \in 1..l : s[j] = x
    <3>1. Old(i) \in 1..l /\ Old(i) # c /\ x = s[Old(i)]
      BY <1>3, <1>4, <2>1
    <3> QED BY <1>8, <3>1
  <2>2. ASSUME x # e, NEW i \in 1..l, s[i] = x PROVE \E j \in 1..Len(t) : t[j] = x
    <3>1. PICK j \in 1..l-1 : Old(j) = i
      BY <1>6, <1>8, <2>2
    <3> QED BY <1>3, <1>4, <2>2, <3>1
  <2> QED BY <2>1, <2>2
<1>10. ASSUME NEW x, NEW y, x # e, y # e, Earlier(x, y, s) PROVE Earlier(x, y, t)
  <2>1. PICK i \in 1..l, j \in 1..l : i < j /\ s[i] = x /\ s[j] = y
    BY <1>10 DEF Earlier
  <2>2. PICK a \in 1..l-1, b \in 1..l-1 : Old(a) = i /\ Old(b) = j
    BY <1>6, <1>8, <1>10, <2>1
  <2>3. a < b /\ t[a] = x /\ t[b] = y
    BY <1>4, <1>5, <2>1, <2>2
  <2> QED BY <1>3, <2>3 DEF Earlier
<1> QED BY <1>3, <1>7, <1>9, <1>10 DEF Lacks, t

\* queue_add puts an element behind those that leave after it.
LEMMA AddRanks ==
  ASSUME NEW Q \in [Heads -> Seq(Elems)], NEW p \in [Elems -> Nat], NEW s,
         Records(Q, s), Ranked(Q, p, s), NEW h \in Heads, NEW e \in Elems, ~Present(Q, e)
  PROVE  LET R == [Q EXCEPT ![h] = queue_add(e, Q[h], p)] IN
         Records(R, Append(s, e)) /\ Ranked(R, p, Append(s, e))
<1> DEFINE q == Q[h]
           l == Len(q)
           r == queue_add(e, q, p)
           R == [Q EXCEPT ![h] = r]
           t == Append(s, e)
<1>1. q \in Seq(Elems) /\ l \in Nat /\ \A i \in 1..l : q[i] \in Elems
  OBVIOUS
<1>2. r \in Seq(Elems) /\ Len(r) = l + 1
  <2> HIDE DEF q
  <2> QED BY <1>1, AddPlaces
<1>3. s \in Seq(Elems)
  BY DEF Records
<1>4. /\ t \in Seq(Elems) /\ Len(t) = Len(s) + 1 /\ t[Len(s)+1] = e /\ Len(s) \in Nat
      /\ \A i \in 1..Len(s) : t[i] = s[i]
      /\ \A x, y : Earlier(x, y, s) => Earlier(x, y, t)
      /\ \A i \in 1..Len(s) : Earlier(s[i], e, t)
  BY <1>3, Appended
<1>5. \A i \in 1..Len(s) : s[i] # e
  BY DEF Records
<1>6. \A g \in Heads : R[g] = IF g = h THEN r ELSE Q[g]
  OBVIOUS
<1> HIDE DEF r, t, R
<1>7. PICK k \in 1..l+1 :
         /\ r[k] = e
         /\ \A i \in 1..k-1 : r[i] = q[i]
         /\ \A i \in k..l : r[i+1] = q[i]
         /\ k = l + 1 \/ p[q[k]] >= p[e]
         /\ \A i \in 1..k-1 : p[q[i]] < p[e]
  <2> DEFINE k == ScanStop(e, q, p)
  <2>1. /\ k \in 1..l+1
        /\ k = l + 1 \/ p[q[k]] >= p[e]
        /\ \A i \in 1..k-1 : p[q[i]] < p[e]
    BY <1>1, ScanStops
  <2>2. r = [i \in 1..l+1 |-> IF i < k THEN q[i] ELSE IF i = k THEN e ELSE q[i-1]]
    BY Zenon DEF queue_add, r
  <2> HIDE DEF k, q, l
  <2>3. /\ r[k] = e
        /\ \A i \in 1..k-1 : r[i] = q[i]
        /\ \A i \in k..l : r[i+1] = q[i]
    BY <1>1, <2>1, <2>2
  <2> QED BY <2>1, <2>3
<1> HIDE DEF q, l
<1>8. \A i \in 1..l+1 : i # k => \E j \in 1..l : r[i] = q[j] /\ i = IF j < k THEN j ELSE j + 1
  <2> SUFFICES ASSUME NEW i \in 1..l+1, i # k
               PROVE  \E j \in 1..l : r[i] = q[j] /\ i = IF j < k THEN j ELSE j + 1
    OBVIOUS
  <2>1. CASE i < k
    BY <1>1, <1>7, <2>1, i \in 1..l, i \in 1..k-1
  <2>2. CASE i > k
    <3>1. i - 1 \in k..l /\ (i - 1) + 1 = i /\ i - 1 \in 1..l /\ ~(i - 1 < k)
      BY <1>1, <2>2
    <3> QED BY <1>7, <3>1
  <2> QED BY <1>1, <2>1, <2>2
<1>9. \A j \in 1..l : \E i \in 1..l+1 : r[i] = q[j]
  <2> SUFFICES ASSUME NEW j \in 1..l PROVE \E i \in 1..l+1 : r[i] = q[j]
    OBVIOUS
  <2>1. CASE j < k
    BY <1>1, <1>7, <2>1, j \in 1..k-1, j \in 1..l+1
  <2>2. CASE j >= k
    BY <1>1, <1>7, <2>2, j \in k..l, j + 1 \in 1..l+1
  <2> QED BY <1>1, <2>1, <2>2
<1>10. ASSUME NEW x \in Elems PROVE Present(R, x) <=> x = e \/ Present(Q, x)
  <2>1. ASSUME x = e PROVE Present(R, x)
    BY <1>2, <1>6, <1>7, <2>1 DEF Present
  <2>2. ASSUME NEW g \in Heads, NEW i \in 1..Len(Q[g]), Q[g][i] = x PROVE Present(R, x)
    <3>1. CASE g = h
      BY <1>2, <1>6, <1>9, <2>2, <3>1 DEF Present, q, l
    <3>2. CASE g # h
      BY <1>6, <2>2, <3>2 DEF Present
    <3> QED BY <3>1, <3>2
  <2>3. ASSUME NEW g \in Heads, NEW i \in 1..Len(R[g]), R[g][i] = x
        PROVE  x = e \/ Present(Q, x)
    <3>1. CASE g = h
      <4>1. i \in 1..l+1 /\ r[i] = x
        BY <1>2, <1>6, <2>3, <3>1
      <4>2. CASE i = k
        BY <1>7, <4>1, <4>2
      <4>3. CASE i # k
        <5>1. PICK j \in 1..l : r[i] = q[j]
          BY <1>8, <4>1, <4>3
        <5> QED BY <4>1, <5>1 DEF Present, q, l
      <4> QED BY <4>2, <4>3
    <3>2. CASE g # h
      BY <1>6, <2>3, <3>2 DEF Present
    <3> QED BY <3>1, <3>2
  <2> QED BY <2>1, <2>2, <2>3 DEF Present
<1>11. \A i \in 1..Len(t) : i = Len(s) + 1 \/ i \in 1..Len(s)
  BY <1>4
<1>12. Records(R, t)
  <2>1. \A i, j \in 1..Len(t) : t[i] = t[j] => i = j
    <3>1. \A i, j \in 1..Len(s) : s[i] = s[j] => i = j
      BY DEF Records
    <3> QED BY <1>4, <1>5, <1>11, <3>1
  <2>2. ASSUME NEW x \in Elems PROVE (\E i \in 1..Len(t) : t[i] = x) <=> Present(R, x)
    <3>1. (\E i \in 1..Len(s) : s[i] = x) <=> Present(Q, x)
      BY DEF Records
    <3>2. (\E i \in 1..Len(t) : t[i] = x) <=> x = e \/ \E i \in 1..Len(s) : s[i] = x
      <4>1. Len(s) + 1 \in 1..Len(t) /\ \A i \in 1..Len(s) : i \in 1..Len(t)
        BY <1>4
      <4> QED BY <1>4, <1>11, <4>1
    <3> QED BY <1>10, <3>1, <3>2
  <2> QED BY <1>4, <2>1, <2>2 DEF Records
<1>13. \A g \in Heads : \A i, j \in 1..Len(Q[g]) : i < j => Outranks(Q[g][j], Q[g][i], p, t)
  BY <1>4 DEF Ranked, Outranks
<1>14. ASSUME NEW i \in 1..l+1, NEW j \in 1..l+1, i < j PROVE Outranks(r[j], r[i], p, t)
  <2>1. CASE i # k /\ j # k
    <3>1. PICK a \in 1..l : r[i] = q[a] /\ i = IF a < k THEN a ELSE a + 1
      BY <1>8, <2>1
    <3>2. PICK b \in 1..l : r[j] = q[b] /\ j = IF b < k THEN b ELSE b + 1
      BY <1>8, <2>1
    <3>3. a < b
      BY <1>1, <1>14, <3>1, <3>2
    <3>4. \A x, y \in 1..l : x < y => Outranks(q[y], q[x], p, t)
      BY <1>13 DEF q, l
    <3> QED BY <3>1, <3>2, <3>3, <3>4
  <2>2. CASE j = k
    <3>1. i \in 1..k-1
      BY <1>1, <1>14, <2>2
    <3> QED BY <1>7, <2>2, <3>1 DEF Outranks
  <2>3. CASE i = k
    <3>1. j - 1 \in k..l /\ (j - 1) + 1 = j /\ j - 1 \in 1..l /\ k \in 1..l /\ k # l + 1
      BY <1>1, <1>14, <2>3
    <3> DEFINE x == q[j-1]
    <3>2. r[j] = x /\ r[i] = e /\ x \in Elems
      BY <1>1, <1>7, <2>3, <3>1
    <3>3. p[q[k]] <= p[x]
      <4>1. CASE j - 1 = k
        BY <1>1, <3>1, <4>1
      <4>2. CASE j - 1 # k
        <5>1. k < j - 1
          BY <1>1, <3>1, <4>2
        <5>2. Outranks(x, q[k], p, t)
          BY <1>13, <3>1, <5>1 DEF q, l
        <5> QED BY <1>1, <3>1, <3>2, <5>2 DEF Outranks
      <4> QED BY <4>1, <4>2
    <3>4. p[e] <= p[x]
      <4>1. p[q[k]] \in Nat /\ p[x] \in Nat /\ p[e] \in Nat
        BY <1>1, <3>1, <3>2
      <4>2. p[q[k]] >= p[e]
        BY <1>7, <3>1
      <4> HIDE DEF x
      <4> QED BY <3>3, <4>1, <4>2
    <3>5. Earlier(x, e, t)
      <4>1. Present(Q, x)
        BY <3>1 DEF Present, q, l
      <4>2. PICK a \in 1..Len(s) : s[a] = x
        BY <3>2, <4>1 DEF Records
      <4> QED BY <1>4, <4>2
    <3>6. p[x] \in Nat /\ p[e] \in Nat
      BY <3>2
    <3> HIDE DEF x
    <3>7. p[e] < p[x] \/ p[e] = p[x]
      BY <3>4, <3>6
    <3> QED BY <3>2, <3>5, <3>7 DEF Outranks
  <2> QED BY <2>1, <2>2, <2>3
<1>15. Ranked(R, p, t)
  <2> SUFFICES ASSUME NEW g \in Heads, NEW i \in 1..Len(R[g]), NEW j \in 1..Len(R[g]), i < j
               PROVE  Outranks(R[g][j], R[g][i], p, t)
    BY DEF Ranked
  <2>1. CASE g = h
    BY <1>2, <1>6, <1>14, <2>1
  <2>2. CASE g # h
    BY <1>6, <1>13, <2>2
  <2> QED BY <2>1, <2>2
<1> QED BY <1>12, <1>15 DEF R, r, q, t

\* An element that leaves changes nothing between the others.
LEMMA RemoveRanks ==
  ASSUME NEW Q \in [Heads -> Seq(Elems)], NEW p, NEW s, NEW t,
         Records(Q, s), Ranked(Q, p, s),
         \A h \in Heads : \A i, j \in 1..Len(Q[h]) : Q[h][i] = Q[h][j] => i = j,
         \A g, h \in Heads : g # h =>
           \A i \in 1..Len(Q[g]), j \in 1..Len(Q[h]) : Q[g][i] # Q[h][j],
         NEW h \in Heads, NEW k \in 1..Len(Q[h]), NEW r, Without(Q[h], k, r),
         NEW e, e = Q[h][k], Lacks(t, s, e)
  PROVE  LET R == [Q EXCEPT ![h] = r] IN Records(R, t) /\ Ranked(R, p, t)
<1> DEFINE q == Q[h]
           l == Len(q)
           R == [Q EXCEPT ![h] = r]
<1>1. q \in Seq(Elems) /\ l \in Nat /\ e \in Elems
  OBVIOUS
<1>2. /\ s \in Seq(Elems) /\ \A i, j \in 1..Len(s) : s[i] = s[j] => i = j
      /\ \A x \in Elems : (\E i \in 1..Len(s) : s[i] = x) <=> Present(Q, x)
  BY DEF Records
<1>5. /\ t \in Seq(Elems)
      /\ \A i, j \in 1..Len(t) : t[i] = t[j] => i = j
      /\ \A x : (\E i \in 1..Len(t) : t[i] = x) <=> x # e /\ \E i \in 1..Len(s) : s[i] = x
      /\ \A x, y : x # e /\ y # e /\ Earlier(x, y, s) => Earlier(x, y, t)
  BY DEF Lacks
<1>6. \A g \in Heads : R[g] = IF g = h THEN r ELSE Q[g]
  OBVIOUS
<1>7. /\ Len(r) = l - 1
      /\ \A i \in 1..k-1 : r[i] = q[i]
      /\ \A i \in k..l-1 : r[i] = q[i+1]
  BY DEF Without
<1> HIDE DEF R, q, l
<1> DEFINE Old(j) == IF j < k THEN j ELSE j + 1
<1>8. k \in 1..l
  BY DEF q, l
<1>9. \A j \in 1..l-1 : Old(j) \in 1..l /\ Old(j) # k /\ r[j] = q[Old(j)]
  <2> SUFFICES ASSUME NEW j \in 1..l-1 PROVE Old(j) \in 1..l /\ Old(j) # k /\ r[j] = q[Old(j)]
    OBVIOUS
  <2>1. CASE j < k
    BY <1>1, <1>7, <1>8, <2>1, j \in 1..k-1
  <2>2. CASE j >= k
    BY <1>1, <1>7, <1>8, <2>2, j \in k..l-1
  <2> QED BY <1>8, <2>1, <2>2
<1>10. \A i, j \in 1..l-1 : i < j => Old(i) < Old(j)
  BY <1>1, <1>8
<1>11. \A i \in 1..l : i # k => \E j \in 1..l-1 : Old(j) = i
  <2> SUFFICES ASSUME NEW i \in 1..l, i # k PROVE \E j \in 1..l-1 : Old(j) = i
    OBVIOUS
  <2>1. CASE i < k
    BY <1>1, <1>8, <2>1, i \in 1..l-1
  <2>2. CASE i > k
    <3>1. i - 1 \in 1..l-1 /\ ~(i - 1 < k) /\ (i - 1) + 1 = i
      BY <1>1, <1>8, <2>2
    <3>2. Old(i - 1) = i
      BY <3>1
    <3> HIDE DEF Old
    <3> QED BY <3>1, <3>2
  <2> QED BY <1>8, <2>1, <2>2
<1> HIDE DEF Old
<1>12. \A i \in 1..l : q[i] = e <=> i = k
  BY <1>8 DEF q, l
<1>13. \A g \in Heads : g # h => \A i \in 1..Len(Q[g]) : Q[g][i] # e
  BY <1>8 DEF q, l
<1>14. ASSUME NEW x \in Elems PROVE Present(R, x) <=> x # e /\ Present(Q, x)
  <2>1. ASSUME NEW g \in Heads, NEW i \in 1..Len(R[g]), R[g][i] = x
        PROVE  x # e /\ Present(Q, x)
    <3>1. CASE g = h
      <4>1. i \in 1..l-1 /\ r[i] = x
        BY <1>6, <1>7, <2>1, <3>1
      <4>2. Old(i) \in 1..l /\ q[Old(i)] = x /\ x # e
        BY <1>9, <1>12, <4>1
      <4> QED BY <4>2 DEF Present, q, l
    <3>2. CASE g # h
      BY <1>6, <1>13, <2>1, <3>2 DEF Present
    <3> QED BY <3>1, <3>2
  <2>2. ASSUME NEW g \in Heads, NEW i \in 1..Len(Q[g]), Q[g][i] = x, x # e
        PROVE  Present(R, x)
    <3>1. CASE g = h
      <4>1. i \in 1..l /\ q[i] = x /\ i # k
        BY <1>12, <2>2, <3>1 DEF q, l
      <4>2. PICK j \in 1..l-1 : Old(j) = i
        BY <1>11, <4>1
      <4>3. j \in 1..Len(R[h]) /\ R[h][j] = x
        BY <1>6, <1>7, <1>9, <4>1, <4>2
      <4> QED BY <4>3 DEF Present
    <3>2. CASE g # h
      BY <1>6, <2>2, <3>2 DEF Present
    <3> QED BY <3>1, <3>2
  <2> QED BY <2>1, <2>2 DEF Present
<1>15. Records(R, t)
  BY <1>2, <1>5, <1>14 DEF Records
<1>16. ASSUME NEW g \in Heads, NEW i \in 1..Len(Q[g]), NEW j \in 1..Len(Q[g]), i < j,
              Q[g][i] # e, Q[g][j] # e
       PROVE  Outranks(Q[g][j], Q[g][i], p, t)
  BY <1>5, <1>16 DEF Ranked, Outranks
<1>17. ASSUME NEW g \in Heads, NEW i \in 1..Len(R[g]), NEW j \in 1..Len(R[g]), i < j
       PROVE  Outranks(R[g][j], R[g][i], p, t)
  <2>1. CASE g = h
    <3>1. i \in 1..l-1 /\ j \in 1..l-1 /\ R[g] = r
      BY <1>6, <1>7, <2>1
    <3>2. /\ Old(i) \in 1..l /\ Old(j) \in 1..l /\ Old(i) < Old(j)
          /\ r[i] = q[Old(i)] /\ r[j] = q[Old(j)] /\ q[Old(i)] # e /\ q[Old(j)] # e
      BY <1>9, <1>10, <1>12, <1>17, <3>1
    <3> QED BY <1>16, <3>1, <3>2 DEF q, l
  <2>2. CASE g # h
    <3>1. R[g] = Q[g] /\ Q[g][i] # e /\ Q[g][j] # e
      BY <1>6, <1>13, <1>17, <2>2
    <3> QED BY <1>16, <1>17, <3>1
  <2> QED BY <2>1, <2>2
<1> QED BY <1>15, <1>17 DEF Ranked, R

LEMMA AddKeepsFifo ==
  ASSUME LinkConstants, FifoInv, NEW e \in Elems, NEW h \in Heads, Add(e, h)
  PROVE  FifoInv'
<1> DEFINE Q == Queues
           R == [Q EXCEPT ![h] = queue_add(e, Q[h], prio)]
<1>1. /\ LinkInv /\ Records(Q, arrivals) /\ Ranked(Q, prio, arrivals)
      /\ Q \in [Heads -> Seq(Elems)] /\ prio \in [Elems -> Nat]
  BY DEF FifoInv, LinkInv, Laid, LinkConstants
<1>2. (~ \E g \in Heads : e \in Range(Q[g])) /\ Q' = R /\ LinkInv'
  BY <1>1, AddLeads DEF Leads
<1>3. prio' = prio /\ arrivals' = Append(arrivals, e)
  BY DEF Add
<1> HIDE DEF Q
<1>4. ~Present(Q, e)
  <2>1. \A g \in Heads : DOMAIN Q[g] = 1..Len(Q[g])
    BY <1>1
  <2> QED BY <1>2, <2>1 DEF Present, Range
<1>5. Records(R, Append(arrivals, e)) /\ Ranked(R, prio, Append(arrivals, e))
  BY <1>1, <1>4, AddRanks
<1> HIDE DEF R
<1>6. Records(Q', arrivals') /\ Ranked(Q', prio', arrivals')
  BY <1>2, <1>3, <1>5
<1> QED BY <1>2, <1>6 DEF FifoInv, Q

\* What leaves the queues leaves the arrivals.
LEMMA RemovalKeepsFifo ==
  ASSUME LinkConstants, FifoInv, NEW h \in Heads, NEW k \in 1..Len(Queues[h]), NEW r,
         Without(Queues[h], k, r), Leads([Queues EXCEPT ![h] = r]),
         prio' = prio, arrivals' = Leaves(Queues[h][k])
  PROVE  FifoInv'
<1> DEFINE Q == Queues
           R == [Q EXCEPT ![h] = r]
           e == Q[h][k]
<1>1. /\ LinkInv /\ Records(Q, arrivals) /\ Ranked(Q, prio, arrivals)
      /\ Q \in [Heads -> Seq(Elems)]
      /\ \A g \in Heads : \A i, j \in 1..Len(Q[g]) : Q[g][i] = Q[g][j] => i = j
      /\ \A f, g \in Heads : f # g =>
           \A i \in 1..Len(Q[f]), j \in 1..Len(Q[g]) : Q[f][i] # Q[g][j]
  BY DEF FifoInv, LinkInv, Laid
<1>2. Q' = R /\ LinkInv' /\ Without(Q[h], k, r) /\ k \in 1..Len(Q[h])
  BY DEF Leads
<1> HIDE DEF Q
<1>3. Lacks(arrivals', arrivals, e)
  <2> DEFINE c == Arrival(e)
  <2>1. arrivals' = [j \in 1..Len(arrivals)-1 |->
                       IF j < c THEN arrivals[j] ELSE arrivals[j+1]]
    BY Zenon DEF Leaves, Q
  <2>2. /\ arrivals \in Seq(Elems) /\ DOMAIN arrivals = 1..Len(arrivals)
        /\ \A i, j \in 1..Len(arrivals) : arrivals[i] = arrivals[j] => i = j
    BY <1>1 DEF Records
  <2>3. \E i \in DOMAIN arrivals : arrivals[i] = e
    <3>1. e \in Elems /\ Present(Q, e)
      BY <1>1, <1>2 DEF Present
    <3> QED BY <1>1, <2>2, <3>1 DEF Records
  <2>4. c \in 1..Len(arrivals) /\ arrivals[c] = e
    BY <2>2, <2>3, Zenon DEF Arrival
  <2> HIDE DEF c
  <2>5. Lacks([j \in 1..Len(arrivals)-1 |-> IF j < c THEN arrivals[j] ELSE arrivals[j+1]],
              arrivals, e)
    BY <2>2, <2>4, Cut
  <2> QED BY <2>1, <2>5, Zenon
<1>4. Records(R, arrivals') /\ Ranked(R, prio, arrivals')
  BY <1>1, <1>2, <1>3, RemoveRanks
<1> HIDE DEF R
<1>5. Records(Q', arrivals') /\ Ranked(Q', prio', arrivals')
  BY <1>2, <1>4
<1> QED BY <1>2, <1>5 DEF FifoInv, Q

LEMMA OutKeepsFifo ==
  ASSUME LinkConstants, FifoInv, NEW h \in Heads, Out(h)
  PROVE  FifoInv'
<1> DEFINE q == Queues[h]
           l == Len(q)
           r == queue_rest(q)
<1>1. LinkInv /\ Laid(Queues, next, prev)
  BY DEF FifoInv, LinkInv
<1>2. /\ q # << >> /\ given' = q[l] /\ Leads([Queues EXCEPT ![h] = r])
  BY <1>1, OutLeads DEF queue_top
<1>3. given' = prev[h] /\ arrivals' = Leaves(prev[h]) /\ prio' = prio
  BY DEF Out
<1>4. q \in Seq(Elems) /\ l \in Nat
  BY <1>1, QueueIs
<1>5. Without(q, l, r)
  <2> HIDE DEF q
  <2>1. l \in 1..l
    BY <1>2, <1>4
  <2>2. /\ r \in Seq(Elems) /\ DOMAIN r = 1..l-1
        /\ \A i \in 1..l-1 : r[i] = q[i]
    BY <1>4, <2>1, PrefixPlaces DEF queue_rest
  <2> HIDE DEF r
  <2>3. Len(r) = l - 1
    BY <1>4, <2>1, <2>2
  <2>4. \A i \in l..l-1 : r[i] = q[i+1]
    BY <1>4
  <2> QED BY <2>2, <2>3, <2>4 DEF Without
<1>6. l \in 1..l
  <2> HIDE DEF q
  <2> QED BY <1>2, <1>4
<1>7. arrivals' = Leaves(Queues[h][l])
  BY <1>2, <1>3
<1> HIDE DEF r
<1> QED BY <1>2, <1>3, <1>5, <1>6, <1>7, RemovalKeepsFifo

LEMMA DelKeepsFifo ==
  ASSUME LinkConstants, FifoInv, NEW e \in Elems, Del(e)
  PROVE  FifoInv'
<1>1. LinkInv /\ Laid(Queues, next, prev)
  BY DEF FifoInv, LinkInv
<1>2. PICK h \in Heads : /\ e \in Range(Queues[h])
                         /\ Leads([Queues EXCEPT ![h] = queue_del(e, Queues[h])])
  BY <1>1, DelLeads
<1> DEFINE q == Queues[h]
           r == queue_del(e, q)
<1>3. q \in Seq(Elems) /\ Len(q) \in Nat
  BY <1>1, QueueIs
<1>4. PICK k \in 1..Len(q) : q[k] = e /\ Without(q, k, r)
  <2>1. e \in Range(q)
    BY <1>2
  <2> HIDE DEF q
  <2>2. /\ r \in Seq(Elems) /\ Len(r) = Len(q) - 1
        /\ \E k \in 1..Len(q) :
             /\ q[k] = e
             /\ \A i \in 1..k-1 : r[i] = q[i]
             /\ \A i \in k+1..Len(q) : r[i-1] = q[i]
    BY <1>3, <2>1, DelPlaces
  <2> HIDE DEF r
  <2>3. PICK k \in 1..Len(q) : /\ q[k] = e
                               /\ \A i \in 1..k-1 : r[i] = q[i]
                               /\ \A i \in k+1..Len(q) : r[i-1] = q[i]
    BY <2>2
  <2>4. ASSUME NEW i \in k..Len(q)-1 PROVE r[i] = q[i+1]
    <3>1. i + 1 \in k+1..Len(q) /\ (i + 1) - 1 = i
      BY <1>3
    <3> QED BY <2>3, <3>1
  <2> QED BY <2>2, <2>3, <2>4 DEF Without
<1>5. prio' = prio /\ arrivals' = Leaves(q[k])
  BY <1>4 DEF Del
<1> HIDE DEF r
<1> QED BY <1>2, <1>4, <1>5, RemovalKeepsFifo DEF r

LEMMA StillFifo ==
  ASSUME LinkConstants, FifoInv, UNCHANGED <<prev, next, prio, arrivals>>
  PROVE  FifoInv'
<1>1. Queues' = Queues /\ LinkInv'
  BY Keeps DEF FifoInv, Leads
<1> QED BY <1>1 DEF FifoInv

\* The priority of an element that is in no queue matters to none.
LEMMA SetPrioKeepsFifo ==
  ASSUME LinkConstants, FifoInv, NEW e \in Elems, NEW v \in Prio, SetPrio(e, v)
  PROVE  FifoInv'
<1> DEFINE Q == Queues
<1>1. /\ LinkInv /\ Laid(Q, next, prev) /\ prio \in [Elems -> Prio]
      /\ Records(Q, arrivals) /\ Ranked(Q, prio, arrivals) /\ Q \in [Heads -> Seq(Elems)]
  BY DEF FifoInv, LinkInv, Laid
<1>2. prio' = [prio EXCEPT ![e] = v] /\ arrivals' = arrivals /\ UNCHANGED <<prev, next>>
  BY DEF SetPrio
<1>3. prio' \in [Elems -> Prio]
  BY <1>1, <1>2
<1>4. Q' = Q /\ LinkInv'
  BY <1>1, <1>2, <1>3, StillLeads DEF Leads
<1>5. \A g \in Heads : e \notin Range(Q[g])
  BY <1>1, LinkedIsQueued DEF SetPrio, Unlinked
<1> HIDE DEF Q
<1>6. \A g \in Heads : \A i \in 1..Len(Q[g]) : Q[g][i] # e /\ Q[g][i] \in Elems
  <2>1. \A g \in Heads : DOMAIN Q[g] = 1..Len(Q[g])
    BY <1>1
  <2> QED BY <1>1, <1>5, <2>1 DEF Range
<1>7. \A g \in Heads : \A i \in 1..Len(Q[g]) : prio'[Q[g][i]] = prio[Q[g][i]]
  BY <1>1, <1>2, <1>6
<1>8. Ranked(Q, prio', arrivals)
  <2> SUFFICES ASSUME NEW g \in Heads, NEW i \in 1..Len(Q[g]), NEW j \in 1..Len(Q[g]), i < j
               PROVE  Outranks(Q[g][j], Q[g][i], prio', arrivals)
    BY DEF Ranked
  <2>1. Outranks(Q[g][j], Q[g][i], prio, arrivals)
    BY <1>1 DEF Ranked
  <2> QED BY <1>7, <2>1 DEF Outranks
<1> QED BY <1>1, <1>2, <1>4, <1>8 DEF FifoInv, Q

LEMMA InitIsFifo ==
  ASSUME LinkConstants, LinkInit
  PROVE  FifoInv
<1>1. LinkInv /\ Queues = [h \in Heads |-> << >>]
  BY InitLays
<1>2. arrivals = << >>
  BY DEF LinkInit
<1>3. \A h \in Heads : Len(Queues[h]) = 0
  BY <1>1
<1> QED BY <1>1, <1>2, <1>3 DEF FifoInv, Records, Ranked, Present

\* In every reachable state each element of a queue leaves before those that
\* are nearer to the head: it has a higher priority, or the same and came first.
LEMMA FifoHolds == LinkSpec => []FifoInv
<1>1. LinkInit => FifoInv
  BY InitIsFifo, LinkConstants
<1>2. FifoInv /\ [LinkNext]_linkvars => FifoInv'
  <2> SUFFICES ASSUME FifoInv, [LinkNext]_linkvars PROVE FifoInv'
    OBVIOUS
  <2>1. ASSUME NEW e \in Elems, NEW h \in Heads, Add(e, h) PROVE FifoInv'
    BY <2>1, AddKeepsFifo, LinkConstants
  <2>2. ASSUME NEW h \in Heads, Out(h) PROVE FifoInv'
    BY <2>2, OutKeepsFifo, LinkConstants
  <2>3. ASSUME NEW h \in Heads, OutEmpty(h) PROVE FifoInv'
    BY <2>3, StillFifo, LinkConstants DEF OutEmpty
  <2>4. ASSUME NEW e \in Elems, Del(e) PROVE FifoInv'
    BY <2>4, DelKeepsFifo, LinkConstants
  <2>5. ASSUME NEW e \in Elems, AddFails(e) \/ DelFails(e) PROVE FifoInv'
    BY <2>5, StillFifo, LinkConstants DEF AddFails, DelFails
  <2>6. ASSUME NEW e \in Elems, NEW v \in Prio, SetPrio(e, v) PROVE FifoInv'
    BY <2>6, SetPrioKeepsFifo, LinkConstants
  <2>7. CASE UNCHANGED linkvars
    BY <2>7, StillFifo, LinkConstants DEF linkvars
  <2> QED BY <2>1, <2>2, <2>3, <2>4, <2>5, <2>6, <2>7 DEF LinkNext
<1> QED BY <1>1, <1>2, PTL DEF LinkSpec

\* What queue_out takes has the highest priority of its queue, and of those
\* that have it came first, whatever was added to or deleted from the queues
\* before and however the priorities of other elements changed.
THEOREM HighestFirst == LinkSpec => []HighestFirstCome
<1>1. ASSUME FifoInv PROVE HighestFirstCome
  <2> SUFFICES ASSUME NEW h \in Heads, ~queue_empty(h),
                      NEW e \in Range(Contents(h)) \ {prev[h]}
               PROVE  \/ prio[e] < prio[prev[h]]
                      \/ prio[e] = prio[prev[h]] /\ Arrival(prev[h]) < Arrival(e)
    BY DEF HighestFirstCome
  <2> DEFINE Q == Queues
             q == Q[h]
             l == Len(q)
             s == arrivals
  <2>1. Laid(Q, next, prev) /\ Records(Q, s) /\ Ranked(Q, prio, s) /\ q = Contents(h)
    BY <1>1 DEF FifoInv, LinkInv, Queues
  <2>2. q \in Seq(Elems) /\ l \in Nat /\ DOMAIN q = 1..l
    BY <2>1, QueueIs, LinkConstants
  <2>3. l \in 1..l /\ prev[h] = q[l]
    <3>1. q # << >>
      BY <2>1, HeadPoints, LinkConstants DEF queue_empty
    <3> QED BY <2>1, <3>1, HeadPoints, LinkConstants
  <2>4. PICK i \in 1..l : q[i] = e
    BY <2>1, <2>2 DEF Range
  <2>5. i < l
    <3>1. i # l
      BY <2>3, <2>4
    <3> HIDE DEF l
    <3> QED BY <2>2, <3>1
  <2>6. Outranks(q[l], e, prio, s)
    BY <2>1, <2>3, <2>4, <2>5 DEF Ranked
  <2>7. ASSUME Earlier(q[l], e, s) PROVE Arrival(q[l]) < Arrival(e)
    <3>1. PICK a \in 1..Len(s), b \in 1..Len(s) : a < b /\ s[a] = q[l] /\ s[b] = e
      BY <2>7 DEF Earlier
    <3>2. /\ s \in Seq(Elems) /\ DOMAIN s = 1..Len(s)
          /\ \A c, d \in 1..Len(s) : s[c] = s[d] => c = d
      BY <2>1 DEF Records
    <3>3. Arrival(q[l]) = a
      BY <3>1, <3>2 DEF Arrival
    <3>4. Arrival(e) = b
      BY <3>1, <3>2 DEF Arrival
    <3> QED BY <3>1, <3>3, <3>4
  <2> QED BY <2>3, <2>6, <2>7 DEF Outranks
<1> QED BY <1>1, FifoHolds, PTL
=============================================================================
