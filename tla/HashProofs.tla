----------------------------- MODULE HashProofs -----------------------------
(***************************************************************************)
(* Proofs about the hash table of kernel/hash.c, for every table size that *)
(* is a power of two and every hash function.                              *)
(*                                                                         *)
(* The part that a test does not reach is that a lookup ends.  The probe   *)
(* sequence i -> 5i + perturb + 1 modulo the size visits every slot: after *)
(* 7 turns perturb is 0, and i -> 5i + 1 has then a single orbit.  The     *)
(* proof doubles the size: when the orbit has period s modulo s, s of its  *)
(* steps move an index by an odd multiple of s modulo 2s (Jumps), so that  *)
(* it has period 2s modulo 2s and meets both halves (Met).                 *)
(*                                                                         *)
(* On that rest what a lookup returns in a table that satisfies TableInv,  *)
(* what the writes of hash_set, hash_del and hash_copy do to a table, and  *)
(* the induction over the operations.  An induction on numbers is by the   *)
(* least counterexample (LeastOf, of PrioQueueProofs).                     *)
(***************************************************************************)
EXTENDS Hash, PrioQueueProofs, FiniteSetTheorems

-----------------------------------------------------------------------------
(* Arithmetic *)

\* Division with a remainder, and its uniqueness.
LEMMA Division ==
  ASSUME NEW a \in Int, NEW b \in Nat \ {0}
  PROVE  /\ a \div b \in Int /\ (a % b) \in 0..b-1
         /\ a = b * (a \div b) + (a % b)
OBVIOUS

LEMMA Divided ==
  ASSUME NEW a \in Int, NEW b \in Nat \ {0}
  PROVE  \E q \in Int, r \in 0..b-1 : a = b * q + r /\ r = (a % b)
BY Division

LEMMA Remainder ==
  ASSUME NEW a \in Int, NEW b \in Nat \ {0}, NEW q \in Int, NEW r \in 0..b-1,
         a = b * q + r
  PROVE  (a % b) = r /\ (a \div b) = q
<1> DEFINE q2 == a \div b
           r2 == a % b
<1>1. q2 \in Int /\ r2 \in 0..b-1 /\ a = b * q2 + r2
  BY Division
<1> HIDE DEF q2, r2
<1>2. b * (q - q2) = r2 - r /\ r2 - r < b /\ r - r2 < b
  BY <1>1
<1>3. q = q2
  <2>1. ASSUME NEW n \in Int, n >= 1 PROVE b * n >= b
    BY <2>1
  <2>2. q - q2 \in Int /\ q2 - q \in Int /\ b * (q2 - q) = r - r2
    BY <1>1, <1>2
  <2>3. ~(q - q2 >= 1)
    BY <2>1, <2>2, <1>2, <1>1
  <2>4. ~(q2 - q >= 1)
    BY <2>1, <2>2, <1>2, <1>1
  <2> QED BY <2>2, <2>3, <2>4, <1>1
<1> QED BY <1>1, <1>3 DEF q2, r2

LEMMA Parity ==
  ASSUME NEW a \in Int
  PROVE  \E q \in Int, e \in 0..1 : a = 2 * q + e
<1>1. a \div 2 \in Int /\ (a % 2) \in 0..1 /\ a = 2 * (a \div 2) + (a % 2)
  BY Division
<1> QED BY <1>1

\* Half a power of two is one, and so is twice.
LEMMA Halved ==
  ASSUME NEW s \in Nat, s > 1, PowerOfTwo(s)
  PROVE  /\ s \div 2 \in Nat /\ s \div 2 >= 1 /\ s = 2 * (s \div 2)
         /\ PowerOfTwo(s \div 2)
<1> DEFINE h == s \div 2
<1>1. s % s = 0
  BY Remainder, s = s * 1 + 0
<1>2. s % 2 = 0
  BY <1>1, s \in 2..s DEF PowerOfTwo
<1>3. h \in Nat /\ h >= 1 /\ s = 2 * h
  BY <1>2
<1> HIDE DEF h
<1>4. ASSUME NEW d \in 2..h, (h % d) = 0 PROVE (d % 2) = 0
  <2>1. PICK q \in Int : h = d * q
    <3>1. PICK q \in Int, r \in 0..d-1 : h = d * q + r /\ r = (h % d)
      BY <1>3, Divided, d \in Nat \ {0}, h \in Int
    <3>2. r = 0
      BY <3>1, <1>4, Zenon
    <3>3. h = d * q
      BY <3>1, <3>2
    <3> QED BY <3>3
  <2>2. s = d * (2 * q) + 0
    BY <2>1, <1>3
  <2>3. (s % d) = 0
    BY <2>2, Remainder, d \in Nat \ {0}, 0 \in 0..d-1, 2 * q \in Int
  <2> QED BY <2>3, <1>3, d \in 2..s DEF PowerOfTwo
<1> QED BY <1>3, <1>4 DEF h, PowerOfTwo

LEMMA Doubled ==
  ASSUME NEW s \in Nat, s >= 1, PowerOfTwo(s)
  PROVE  PowerOfTwo(2 * s)
<1> SUFFICES ASSUME NEW d \in 2..(2*s), ((2*s) % d) = 0, (d % 2) # 0 PROVE FALSE
  BY DEF PowerOfTwo
<1>1. PICK q \in Int : 2 * s = d * q
  <2>1. PICK q \in Int, r \in 0..d-1 : 2 * s = d * q + r /\ r = ((2 * s) % d)
    BY Divided, 2 * s \in Int, d \in Nat \ {0}
  <2> QED BY <2>1
<1>2. PICK e \in Int : d = 2 * e + 1
  BY Division
<1>3. PICK f \in Int, g \in 0..1 : q = 2 * f + g
  BY Parity
<1>4. g = 0
  <2>1. SUFFICES ASSUME g = 1 PROVE FALSE
    BY <1>3
  <2>2. d * q = 2 * (2 * (e * f) + e + f) + 1
    BY <1>2, <1>3, <2>1
  <2> DEFINE k == 2 * (e * f) + e + f
  <2>3. k \in Int /\ 2 * s = 2 * k + 1
    BY <2>2, <1>1
  <2> HIDE DEF k
  <2> QED BY <2>3
<1>5. s = d * f
  <2>1. d * q = 2 * (d * f)
    BY <1>3, <1>4
  <2> DEFINE k == d * f
  <2>2. k \in Int /\ 2 * s = 2 * k
    BY <2>1, <1>1
  <2> HIDE DEF k
  <2> QED BY <2>2 DEF k
<1>6. (s % d) = 0 /\ d <= s
  <2>1. (s % d) = 0
    <3>1. s = d * f + 0
      BY <1>5
    <3> QED BY <3>1, Remainder, s \in Int, 0 \in 0..d-1, d \in Nat \ {0}
  <2>2. f >= 1
    <3>1. f <= 0 => d * f <= 0
      OBVIOUS
    <3> QED BY <3>1, <1>5
  <2>3. d * f >= d
    BY <2>2
  <2> QED BY <2>1, <2>3, <1>5
<1> QED BY <1>6, d \in 2..s DEF PowerOfTwo
-----------------------------------------------------------------------------
(* The probe sequence without perturbation *)

\* x moves by 5x + 1, up to multiples of S.
Orbit(x, S, N) ==
  /\ x \in [0..N -> Int]
  /\ \A n \in 0..N-1 : \E q \in Int : x[n+1] = 5 * x[n] + 1 + S * q

\* P turns of it are an affine move too, by an odd multiple of P.
Move(P, u, v, S, a, b) ==
  \E q \in Int : b = (1 + 4 * (P * v)) * a + P * (2 * u + 1) + S * q

Jumps(x, S, N, P) ==
  \E u, v \in Nat : \A n \in 0..N : n + P <= N => Move(P, u, v, S, x[n], x[n+P])

LEMMA JumpsOnce ==
  ASSUME NEW S \in Nat, NEW N \in Nat, NEW x, Orbit(x, S, N)
  PROVE  Jumps(x, S, N, 1)
<1>1. ASSUME NEW n \in 0..N, n + 1 <= N
      PROVE  \E q \in Int : x[n+1] = (1 + 4 * (1 * 1)) * x[n] + 1 * (2 * 0 + 1) + S * q
  <2>1. x[n] \in Int /\ n \in 0..N-1
    BY <1>1 DEF Orbit
  <2>2. PICK q \in Int : x[n+1] = 5 * x[n] + 1 + S * q
    BY <2>1 DEF Orbit
  <2> DEFINE k == S * q
  <2>3. k \in Int /\ x[n+1] = 5 * x[n] + 1 + k
    BY <2>2
  <2> HIDE DEF k
  <2>4. x[n+1] = (1 + 4 * (1 * 1)) * x[n] + 1 * (2 * 0 + 1) + k
    BY <2>1, <2>3
  <2> QED BY <2>4 DEF k
<1>2. \A n \in 0..N : n + 1 <= N => Move(1, 0, 1, S, x[n], x[n+1])
  BY <1>1 DEF Move
<1> QED BY <1>2, 0 \in Nat, 1 \in Nat DEF Jumps

LEMMA TwoMoves ==
  ASSUME NEW P \in Nat, NEW u \in Nat, NEW v \in Nat, NEW S \in Nat,
         NEW a \in Int, NEW b \in Int, NEW c \in Int,
         Move(P, u, v, S, a, b), Move(P, u, v, S, b, c)
  PROVE  Move(2 * P, u + 2 * (u * (P * v)) + P * v, v + 2 * (P * (v * v)), S, a, c)
<1>0. PICK q \in Int, r \in Int :
        /\ b = (1 + 4 * (P * v)) * a + P * (2 * u + 1) + S * q
        /\ c = (1 + 4 * (P * v)) * b + P * (2 * u + 1) + S * r
  BY DEF Move
<1> DEFINE A == 1 + 4 * (P * v)
           B == P * (2 * u + 1)
           s == A * q + r
<1>1. A \in Int /\ B \in Int /\ b = A * a + B + S * q /\ c = A * b + B + S * r
  BY <1>0
<1>2. A * A = 1 + 4 * ((2 * P) * (v + 2 * (P * (v * v))))
  OBVIOUS
<1>3. A * B + B = (2 * P) * (2 * (u + 2 * (u * (P * v)) + P * v) + 1)
  OBVIOUS
<1> DEFINE A2 == 1 + 4 * ((2 * P) * (v + 2 * (P * (v * v))))
           B2 == (2 * P) * (2 * (u + 2 * (u * (P * v)) + P * v) + 1)
<1> HIDE DEF A, B
<1>4. c = (A * A) * a + (A * B + B) + S * (A * q + r)
  BY <1>1
<1>5. s \in Int /\ c = A2 * a + B2 + S * s
  BY <1>1, <1>2, <1>3, <1>4
<1> HIDE DEF s
<1> QED BY <1>5 DEF Move

LEMMA JumpsTwice ==
  ASSUME NEW S \in Nat, NEW N \in Nat, NEW x \in [0..N -> Int],
         NEW P \in Nat, Jumps(x, S, N, P)
  PROVE  Jumps(x, S, N, 2 * P)
<1>1. PICK u \in Nat, v \in Nat :
        \A n \in 0..N : n + P <= N => Move(P, u, v, S, x[n], x[n+P])
  BY DEF Jumps
<1> DEFINE v2 == v + 2 * (P * (v * v))
           u2 == u + 2 * (u * (P * v)) + P * v
<1>2. ASSUME NEW n \in 0..N, n + 2 * P <= N
      PROVE  Move(2 * P, u2, v2, S, x[n], x[n + 2 * P])
  <2>1. n + P \in 0..N /\ n + P <= N /\ (n + P) + P = n + 2 * P /\ (n + P) + P <= N
    BY <1>2
  <2>2. Move(P, u, v, S, x[n], x[n+P]) /\ Move(P, u, v, S, x[n+P], x[(n+P)+P])
    BY <1>1, <2>1
  <2>3. x[n] \in Int /\ x[n+P] \in Int /\ x[(n+P)+P] \in Int
    BY <2>1
  <2>4. Move(2 * P, u2, v2, S, x[n], x[(n+P)+P])
    BY <2>2, <2>3, TwoMoves
  <2> QED BY <2>4, <2>1
<1>3. u2 \in Nat /\ v2 \in Nat
  <2>1. u * (P * v) \in Nat /\ P * v \in Nat /\ P * (v * v) \in Nat
    OBVIOUS
  <2> QED BY <2>1
<1> HIDE DEF u2, v2
<1> QED BY <1>2, <1>3 DEF Jumps

LEMMA JumpsAll ==
  ASSUME NEW S \in Nat, NEW N \in Nat, NEW x, Orbit(x, S, N),
         NEW P \in Nat, P >= 1, PowerOfTwo(P)
  PROVE  Jumps(x, S, N, P)
<1> DEFINE Bad == {p \in Nat : p >= 1 /\ PowerOfTwo(p) /\ ~Jumps(x, S, N, p)}
<1>1. \A p \in Nat : p \in Bad <=> p >= 1 /\ PowerOfTwo(p) /\ ~Jumps(x, S, N, p)
  OBVIOUS
<1>2. Bad \in SUBSET Nat
  OBVIOUS
<1> HIDE DEF Bad
<1>3. SUFFICES ASSUME Bad # {} PROVE FALSE
  BY <1>1
<1>4. PICK p \in Bad : \A i \in Bad : p <= i
  BY <1>2, <1>3, LeastOf
<1>5. p \in Nat /\ p > 1
  BY <1>1, <1>2, <1>4, JumpsOnce
<1> DEFINE h == p \div 2
<1>6. h \in Nat /\ h >= 1 /\ p = 2 * h /\ PowerOfTwo(h)
  BY <1>1, <1>4, <1>5, Halved
<1> HIDE DEF h
<1>7. h \notin Bad
  BY <1>4, <1>5, <1>6
<1>8. Jumps(x, S, N, h) /\ x \in [0..N -> Int]
  BY <1>1, <1>6, <1>7 DEF Orbit
<1>9. Jumps(x, S, N, p)
  BY <1>6, <1>8, JumpsTwice
<1> QED BY <1>9, <1>1, <1>4, <1>5

\* t is met modulo P within P turns.
Met(x, P, t) == \E n \in 0..P-1, q \in Int : x[n] = t + P * q

LEMMA MetTwice ==
  ASSUME NEW M \in Nat, NEW N \in Nat, NEW P \in Nat, P >= 1,
         NEW x \in [0..N -> Int], 2 * P - 1 <= N,
         Jumps(x, (2 * P) * M, N, P),
         \A t \in 0..P-1 : Met(x, P, t), NEW t \in 0..(2*P-1)
  PROVE  Met(x, 2 * P, t)
<1>1. PICK d \in 0..1, s \in 0..P-1 : t = s + P * d
  <2>1. CASE t < P
    BY <2>1, t \in 0..P-1, t = t + P * 0
  <2>2. CASE ~(t < P)
    BY <2>2, t - P \in 0..P-1, t = (t - P) + P * 1
  <2> QED BY <2>1, <2>2
<1>2. PICK n \in 0..P-1, q \in Int : x[n] = s + P * q
  BY DEF Met
<1>3. PICK r \in Int, e \in 0..1 : q = 2 * r + e
  BY Parity
<1>4. CASE d = e
  <2>1. P * q = (2 * P) * r + P * e
    BY <1>3
  <2>2. x[n] = t + (2 * P) * r
    BY <1>1, <1>2, <1>4, <2>1
  <2> QED BY <2>2, n \in 0..(2*P-1) DEF Met
<1>5. CASE d # e
  <2> DEFINE S == (2 * P) * M
  <2>1. PICK u \in Nat, v \in Nat : Move(P, u, v, S, x[n], x[n+P])
    <3>1. n + P <= N /\ n \in 0..N
      OBVIOUS
    <3> QED BY <3>1 DEF Jumps
  <2>2. PICK k \in Int : x[n+P] = (1 + 4 * (P * v)) * x[n] + P * (2 * u + 1) + S * k
    BY <2>1 DEF Move
  <2> DEFINE y == x[n]
             w == r + 2 * (v * y) + u + M * k
  <2>3. y \in Int /\ v * y \in Int /\ M * k \in Int /\ w \in Int
    <3>1. y \in Int
      BY n \in 0..N
    <3> HIDE DEF y
    <3> DEFINE a == v * y
               b == M * k
    <3>2. a \in Int /\ b \in Int
      BY <3>1
    <3> HIDE DEF a, b
    <3>3. r + 2 * a + u + b \in Int
      BY <3>2
    <3> QED BY <3>1, <3>2, <3>3 DEF a, b
  <2>4. x[n+P] = y + P + (2 * P) * (2 * (v * y) + u + M * k)
    <3>1. (1 + 4 * (P * v)) * y = y + (2 * P) * (2 * (v * y))
      <4>1. y \in Int
        BY <2>3
      <4> HIDE DEF y
      <4> QED BY <4>1
    <3>2. P * (2 * u + 1) = P + (2 * P) * u
      OBVIOUS
    <3>3. S * k = (2 * P) * (M * k)
      OBVIOUS
    <3>4. (2 * P) * (2 * (v * y) + u + M * k)
            = (2 * P) * (2 * (v * y)) + (2 * P) * u + (2 * P) * (M * k)
      <4>1. ASSUME NEW a \in Int, NEW b \in Int, NEW c \in Int, NEW m \in Int
            PROVE  m * (a + b + c) = m * a + m * b + m * c
        OBVIOUS
      <4>2. 2 * (v * y) \in Int /\ M * k \in Int /\ 2 * P \in Int
        BY <2>3
      <4> HIDE DEF y
      <4> QED BY <4>1, <4>2
    <3> DEFINE A == (1 + 4 * (P * v)) * y
               B == P * (2 * u + 1)
               C == S * k
               D == (2 * P) * (2 * (v * y) + u + M * k)
               F == (2 * P) * (2 * (v * y))
               G == (2 * P) * u
               H == (2 * P) * (M * k)
    <3>5. x[n+P] = A + B + C /\ A = y + F /\ B = P + G /\ C = H /\ D = F + G + H
      BY <2>2, <3>1, <3>2, <3>3, <3>4
    <3>6. F \in Int /\ G \in Int /\ H \in Int
      <4> HIDE DEF y
      <4>1. 2 * P \in Int /\ 2 * (v * y) \in Int
        BY <2>3
      <4> QED BY <2>3, <4>1
    <3> HIDE DEF A, B, C, D, F, G, H, y
    <3>7. x[n+P] = y + P + D
      BY <3>5, <3>6, <2>3
    <3> QED BY <3>7 DEF D
  <2>5. y = s + P * e + (2 * P) * r
    BY <1>2, <1>3
  <2>6. x[n+P] = s + P * e + P + (2 * P) * w
    BY <2>3, <2>4, <2>5
  <2> HIDE DEF w
  <2>7. CASE e = 0
    <3>1. d = 1
      BY <1>5, <2>7
    <3>2. x[n+P] = t + (2 * P) * w
      BY <2>6, <2>7, <2>3, <1>1, <3>1
    <3> QED BY <3>2, <2>3, n + P \in 0..(2*P-1) DEF Met
  <2>8. CASE e = 1
    <3>1. d = 0
      BY <1>5, <2>8
    <3>2. x[n+P] = t + (2 * P) * (w + 1)
      BY <2>6, <2>8, <2>3, <1>1, <3>1
    <3> QED BY <3>2, <2>3, n + P \in 0..(2*P-1), w + 1 \in Int DEF Met
  <2> QED BY <2>7, <2>8
<1> QED BY <1>4, <1>5

\* Within P turns an orbit modulo a multiple of P meets everything modulo P.
LEMMA MetAll ==
  ASSUME NEW S \in Nat, NEW N \in Nat, NEW x, Orbit(x, S, N),
         NEW P \in Nat, P >= 1, PowerOfTwo(P), P - 1 <= N,
         NEW M \in Nat, S = P * M, NEW t \in 0..P-1
  PROVE  Met(x, P, t)
<1> DEFINE All(p) == \A i \in 0..p-1 : Met(x, p, i)
           Fits(p) == p >= 1 /\ PowerOfTwo(p) /\ p - 1 <= N /\ \E m \in Nat : S = p * m
           Bad == {p \in Nat : Fits(p) /\ ~All(p)}
<1>1. \A p \in Nat : p \in Bad <=> Fits(p) /\ ~All(p)
  OBVIOUS
<1>2. Bad \in SUBSET Nat
  OBVIOUS
<1>3. All(1)
  <2>1. x[0] \in Int /\ x[0] = 0 + 1 * x[0]
    BY DEF Orbit
  <2> QED BY <2>1 DEF Met
<1>4. ASSUME NEW p \in Nat, p > 1, Fits(p)
      PROVE  /\ p \div 2 \in Nat /\ p = 2 * (p \div 2) /\ Fits(p \div 2)
             /\ All(p \div 2) => All(p)
  <2> DEFINE h == p \div 2
  <2>1. h \in Nat /\ h >= 1 /\ p = 2 * h /\ PowerOfTwo(h)
    BY <1>4, Halved
  <2>2. PICK m \in Nat : S = p * m
    BY <1>4
  <2> HIDE DEF h
  <2>3. S = h * (2 * m) /\ 2 * m \in Nat /\ S = (2 * h) * m
    BY <2>1, <2>2
  <2>4. Fits(h)
    <3>1. \E k \in Nat : S = h * k
      BY <2>3
    <3>2. h - 1 <= N
      BY <2>1, <1>4
    <3> QED BY <3>1, <3>2, <2>1
  <2>5. Jumps(x, (2 * h) * m, N, h) /\ x \in [0..N -> Int]
    BY <2>1, <2>3, JumpsAll DEF Orbit
  <2>6. 2 * h - 1 <= N
    BY <1>4, <2>1
  <2>7. ASSUME All(h), NEW i \in 0..(2*h-1) PROVE Met(x, 2 * h, i)
    BY <2>7, <2>1, <2>5, <2>6, MetTwice
  <2>8. All(h) => All(p)
    BY <2>7, <2>1
  <2> HIDE DEF All, Fits
  <2> QED BY <2>1, <2>4, <2>8 DEF h
<1>5. Fits(P)
  OBVIOUS
<1> HIDE DEF Bad, Fits
<1>6. ASSUME Bad # {} PROVE FALSE
  <2>1. PICK p \in Bad : \A i \in Bad : p <= i
    BY <1>2, <1>6, LeastOf
  <2>2. p \in Nat /\ Fits(p) /\ ~All(p)
    BY <1>1, <1>2, <2>1
  <2>3. p > 1
    <3>1. p # 1
      BY <2>2, <1>3
    <3>2. p >= 1
      BY <2>2 DEF Fits
    <3> QED BY <3>1, <3>2, <2>2
  <2> DEFINE h == p \div 2
  <2>4. h \in Nat /\ p = 2 * h /\ Fits(h) /\ (All(h) => All(p))
    BY <1>4, <2>2, <2>3
  <2> HIDE DEF h, All
  <2>5. h \in Bad
    BY <2>4, <2>2, <1>1
  <2> QED BY <2>1, <2>3, <2>4, <2>5
<1>7. All(P)
  <2> HIDE DEF All
  <2> QED BY <1>1, <1>5, <1>6
<1> QED BY <1>7

LEMMA OrbitCovers ==
  ASSUME NEW S \in Nat, S >= 1, PowerOfTwo(S), NEW x \in [0..S-1 -> 0..S-1],
         Orbit(x, S, S - 1), NEW t \in 0..S-1
  PROVE  \E n \in 0..S-1 : x[n] = t
<1>1. S - 1 \in Nat /\ S = S * 1 /\ S - 1 <= S - 1 /\ 1 \in Nat
  OBVIOUS
<1>2. Met(x, S, t)
  <2> DEFINE N == S - 1
  <2>1. N \in Nat /\ Orbit(x, S, N) /\ S - 1 <= N
    BY <1>1
  <2> HIDE DEF N
  <2> QED BY <1>1, <2>1, MetAll
<1>3. PICK n \in 0..S-1, q \in Int : x[n] = t + S * q
  BY <1>2 DEF Met
<1>4. x[n] \in 0..S-1 /\ x[n] = S * q + t /\ x[n] = S * 0 + x[n]
  BY <1>3
<1> DEFINE a == x[n]
<1>5. a \in Int /\ a \in 0..S-1 /\ a = S * q + t /\ a = S * 0 + a /\ S \in Nat \ {0}
  BY <1>4
<1> HIDE DEF a
<1>6. (a % S) = t
  BY <1>5, Remainder
<1>7. (a % S) = a
  BY <1>5, Remainder, 0 \in Int
<1> QED BY <1>6, <1>7 DEF a

-----------------------------------------------------------------------------
(* The probe sequence of a hash *)

\* p is n turns of the probe sequence.
Probed(p, hash, size, n) ==
  p = [i \in 0..n |-> IF i = 0 THEN [index |-> hash % size, perturb |-> hash]
                      ELSE NextProbe(p[i-1], size)]

LEMMA ProbesExist ==
  ASSUME NEW hash, NEW size, NEW N \in Nat
  PROVE  \E p : Probed(p, hash, size, N)
<1> DEFINE First == [index |-> hash % size, perturb |-> hash]
           Stuck == {n \in Nat : ~ \E p : Probed(p, hash, size, n)}
<1>1. Probed([i \in 0..0 |-> First], hash, size, 0)
  BY DEF Probed
<1>2. ASSUME NEW n \in Nat \ {0}, NEW f, Probed(f, hash, size, n - 1)
      PROVE  \E g : Probed(g, hash, size, n)
  <2> DEFINE g == [i \in 0..n |-> IF i = n THEN NextProbe(f[n-1], size) ELSE f[i]]
  <2>1. \A i \in 0..n-1 : f[i] = IF i = 0 THEN First ELSE NextProbe(f[i-1], size)
    <3>1. f = [i \in 0..n-1 |-> IF i = 0 THEN First ELSE NextProbe(f[i-1], size)]
      BY <1>2 DEF Probed
    <3> HIDE DEF First
    <3> QED BY <3>1
  <2>2. \A i \in 0..n-1 : g[i] = f[i]
    OBVIOUS
  <2>3. g[n] = NextProbe(f[n-1], size)
    OBVIOUS
  <2>4. \A i \in 0..n : g[i] = IF i = 0 THEN First ELSE NextProbe(g[i-1], size)
    <3> HIDE DEF g, First
    <3>1. ASSUME NEW i \in 0..n-1
          PROVE  g[i] = IF i = 0 THEN First ELSE NextProbe(g[i-1], size)
      BY <2>1, <2>2
    <3>2. n # 0 /\ g[n] = NextProbe(g[n-1], size)
      BY <2>2, <2>3, n - 1 \in 0..n-1
    <3> QED BY <3>1, <3>2
  <2>5. g = [i \in 0..n |-> g[i]]
    OBVIOUS
  <2>6. Probed(g, hash, size, n)
    <3> HIDE DEF g, First
    <3>1. g = [i \in 0..n |-> IF i = 0 THEN First ELSE NextProbe(g[i-1], size)]
      BY <2>4, <2>5
    <3> QED BY <3>1 DEF Probed, First
  <2> QED BY <2>6, Zenon
<1>3. \A n \in Nat : n \in Stuck <=> ~ \E p : Probed(p, hash, size, n)
  OBVIOUS
<1>4. Stuck \in SUBSET Nat
  OBVIOUS
<1> HIDE DEF Stuck
<1>5. ASSUME Stuck # {} PROVE FALSE
  <2>1. PICK n \in Stuck : \A i \in Stuck : n <= i
    BY <1>4, <1>5, LeastOf
  <2>2. n \in Nat \ {0}
    BY <1>1, <1>3, <1>4, <2>1
  <2>3. n - 1 \in Nat /\ n - 1 \notin Stuck
    BY <2>1, <2>2
  <2>4. PICK f : Probed(f, hash, size, n - 1)
    BY <1>3, <2>3
  <2> QED BY <1>2, <1>3, <2>1, <2>2, <2>4
<1> QED BY <1>3, <1>5

LEMMA ProbeSteps ==
  ASSUME NEW hash \in Nat, NEW size \in Nat \ {0}
  PROVE  LET p == Probe(hash, size) IN
         /\ p[0] = [index |-> hash % size, perturb |-> hash]
         /\ \A n \in 1..size+7 : p[n] = NextProbe(p[n-1], size)
<1> DEFINE N == size + 7
           p == Probe(hash, size)
<1>1. N \in Nat /\ Turns(size) = 0..N
  BY DEF Turns
<1>2. p = CHOOSE f : Probed(f, hash, size, N)
  BY <1>1 DEF Probe, Probed
<1>3. \E f : Probed(f, hash, size, N)
  <2> HIDE DEF N
  <2> QED BY <1>1, ProbesExist
<1> HIDE DEF p
<1>4. Probed(p, hash, size, N)
  BY <1>2, <1>3, Zenon
<1>5. p = [i \in 0..N |-> IF i = 0 THEN [index |-> hash % size, perturb |-> hash]
                          ELSE NextProbe(p[i-1], size)]
  BY <1>4 DEF Probed
<1> HIDE DEF N
<1>6. /\ p[0] = [index |-> hash % size, perturb |-> hash]
      /\ \A n \in 1..N : p[n] = NextProbe(p[n-1], size)
  BY <1>1, <1>5
<1> QED BY <1>6 DEF p, N

LEMMA ProbeTyped ==
  ASSUME NEW hash \in Nat, NEW size \in Nat \ {0}, NEW n \in 0..size+7
  PROVE  Probe(hash, size)[n] \in [index : 0..size-1, perturb : Nat]
<1> DEFINE p == Probe(hash, size)
           R == [index : 0..size-1, perturb : Nat]
           Bad == {i \in Nat : i <= size + 7 /\ p[i] \notin R}
<1>1. p[0] = [index |-> hash % size, perturb |-> hash]
  BY ProbeSteps
<1>2. \A i \in 1..size+7 : p[i] = NextProbe(p[i-1], size)
  BY ProbeSteps
<1> HIDE DEF p
<1>3. p[0] \in R
  <2>1. (hash % size) \in 0..size-1
    BY Division
  <2> QED BY <1>1, <2>1
<1>4. ASSUME NEW i \in 1..size+7, p[i-1] \in R
      PROVE  p[i] \in R
  <2> DEFINE a == 5 * p[i-1].index + p[i-1].perturb + 1
             b == p[i-1].perturb
  <2>1. a \in Int /\ b \in Nat /\ b \div 32 \in Nat
    BY <1>4
  <2>2. p[i] = [index |-> a % size, perturb |-> b \div 32]
    BY <1>2 DEF NextProbe
  <2> HIDE DEF a, b
  <2>3. (a % size) \in 0..size-1
    BY <2>1, Division
  <2> QED BY <2>1, <2>2, <2>3
<1> HIDE DEF R
<1>5. \A i \in Nat : i \in Bad <=> i <= size + 7 /\ p[i] \notin R
  OBVIOUS
<1>6. Bad \in SUBSET Nat
  OBVIOUS
<1> HIDE DEF Bad
<1>7. ASSUME Bad # {} PROVE FALSE
  <2>1. PICK i \in Bad : \A j \in Bad : i <= j
    BY <1>6, <1>7, LeastOf
  <2>2. i \in 1..size+7 /\ i - 1 \in Nat /\ i - 1 <= size + 7 /\ i - 1 \notin Bad
    BY <1>3, <1>5, <1>6, <2>1
  <2> QED BY <1>4, <1>5, <1>6, <2>1, <2>2
<1> QED BY <1>5, <1>7 DEF p, R

\* After 7 turns the perturbation of a word is used up.
LEMMA ProbeSettles ==
  ASSUME NEW hash, IsWord(hash), NEW size \in Nat \ {0}, NEW n \in 7..size+7
  PROVE  Probe(hash, size)[n].perturb = 0
<1> DEFINE p == Probe(hash, size)
           Bad == {i \in Nat : 7 <= i /\ i <= size + 7 /\ p[i].perturb # 0}
<1>0. hash \in Nat
  BY DEF IsWord
<1>1. p[0].perturb = hash
  <2>1. p[0] = [index |-> hash % size, perturb |-> hash]
    BY <1>0, ProbeSteps
  <2> QED BY <2>1
<1>2. \A i \in 1..size+7 : p[i].perturb = p[i-1].perturb \div 32
  <2>1. \A i \in 1..size+7 : p[i] = NextProbe(p[i-1], size)
    BY <1>0, ProbeSteps
  <2> HIDE DEF p
  <2>2. ASSUME NEW i \in 1..size+7 PROVE p[i].perturb = p[i-1].perturb \div 32
    <3>1. p[i] = NextProbe(p[i-1], size)
      BY <2>1
    <3>2. NextProbe(p[i-1], size).perturb = p[i-1].perturb \div 32
      BY DEF NextProbe
    <3> QED BY <3>1, <3>2, Zenon
  <2> QED BY <2>2
<1>3. \A i \in 0..size+7 : p[i].perturb \in Nat
  BY <1>0, ProbeTyped
<1> HIDE DEF p
<1>4. p[7].perturb = 0
  <2>1. p[1].perturb = hash \div 32 /\ p[2].perturb = p[1].perturb \div 32
    BY <1>1, <1>2
  <2>2. p[3].perturb = p[2].perturb \div 32 /\ p[4].perturb = p[3].perturb \div 32
    BY <1>2
  <2>3. p[5].perturb = p[4].perturb \div 32 /\ p[6].perturb = p[5].perturb \div 32
    BY <1>2
  <2>4. p[7].perturb = p[6].perturb \div 32
    BY <1>2
  <2>6. hash < 32 * (32 * 4194304)
    BY SMT DEF IsWord
  <2>7. p[1].perturb < 32 * 4194304
    BY <2>1, <2>6, <1>0, SMT
  <2>8. p[2].perturb < 32 * 131072 /\ p[3].perturb < 32 * 4096
    BY <2>1, <2>2, <2>7, <1>3, SMT
  <2>9. p[4].perturb < 32 * 128 /\ p[5].perturb < 32 * 4 /\ p[6].perturb < 32
    BY <2>2, <2>3, <2>8, <1>3, SMT
  <2> QED BY <2>4, <2>9, <1>3, 6 \in 0..size+7
<1>5. \A i \in Nat : i \in Bad <=> 7 <= i /\ i <= size + 7 /\ p[i].perturb # 0
  OBVIOUS
<1>6. Bad \in SUBSET Nat
  OBVIOUS
<1> HIDE DEF Bad
<1>7. ASSUME Bad # {} PROVE FALSE
  <2>1. PICK i \in Bad : \A j \in Bad : i <= j
    BY <1>6, <1>7, LeastOf
  <2>2. i \in 8..size+7 /\ i - 1 \in Nat /\ i - 1 <= size + 7 /\ i - 1 \notin Bad
    BY <1>4, <1>5, <1>6, <2>1
  <2>3. p[i-1].perturb = 0
    BY <1>5, <2>2
  <2>4. p[i].perturb = 0
    BY <1>2, <2>2, <2>3
  <2> QED BY <1>5, <1>6, <2>1, <2>4
<1> QED BY <1>5, <1>7 DEF p

\* The probe sequence meets every slot of a table.
LEMMA ProbeCovers ==
  ASSUME NEW hash, IsWord(hash), NEW size \in Nat \ {0}, PowerOfTwo(size),
         NEW slot \in 0..size-1
  PROVE  \E n \in Turns(size) : Probe(hash, size)[n].index = slot
<1> DEFINE p == Probe(hash, size)
           x == [n \in 0..size-1 |-> p[n+7].index]
           N == size - 1
<1>0. hash \in Nat /\ N \in Nat
  BY DEF IsWord
<1>1. \A n \in 0..size+7 : p[n] \in [index : 0..size-1, perturb : Nat]
  BY <1>0, ProbeTyped
<1>2. \A n \in 1..size+7 : p[n] = NextProbe(p[n-1], size)
  BY <1>0, ProbeSteps
<1>3. \A n \in 7..size+7 : p[n].perturb = 0
  BY ProbeSettles
<1> HIDE DEF p
<1>4. x \in [0..size-1 -> 0..size-1]
  <2>1. ASSUME NEW n \in 0..size-1 PROVE p[n+7].index \in 0..size-1
    BY <1>1, n + 7 \in 0..size+7
  <2> QED BY <2>1
<1>5. ASSUME NEW n \in 0..N-1 PROVE \E q \in Int : x[n+1] = 5 * x[n] + 1 + size * q
  <2>1. n + 7 \in 7..size+7 /\ n + 8 \in 1..size+7 /\ (n + 8) - 1 = n + 7
    OBVIOUS
  <2> DEFINE i == p[n+7].index
             a == 5 * i + 1
  <2>2. i \in 0..size-1 /\ a \in Int
    BY <1>1, <2>1
  <2>3. p[n+8].index = (5 * i + 0 + 1) % size
    <3>1. p[n+8] = NextProbe(p[n+7], size)
      BY <1>2, <2>1
    <3>2. p[n+7].perturb = 0
      BY <1>3, <2>1
    <3> QED BY <3>1, <3>2 DEF NextProbe
  <2>4. 5 * i + 0 + 1 = a
    BY <2>2
  <2>5. x[n] = i /\ x[n+1] = p[n+8].index
    <3>1. n + 1 \in 0..size-1 /\ n \in 0..size-1 /\ (n + 1) + 7 = n + 8
      OBVIOUS
    <3> QED BY <3>1
  <2>6. PICK q \in Int, r \in 0..size-1 : a = size * q + r /\ r = (a % size)
    BY <2>2, Divided
  <2> HIDE DEF x, a
  <2>7. x[n+1] = r /\ a = size * q + r
    BY <2>3, <2>4, <2>5, <2>6
  <2>8. x[n+1] = a + size * (-q)
    BY <2>7, <2>2
  <2>9. x[n+1] = 5 * x[n] + 1 + size * (-q)
    BY <2>8, <2>5 DEF a
  <2> QED BY <2>9, -q \in Int
<1>6. Orbit(x, size, N)
  <2> HIDE DEF x
  <2>1. x \in [0..N -> Int]
    BY <1>4
  <2> QED BY <2>1, <1>5 DEF Orbit
<1>7. \E n \in 0..size-1 : x[n] = slot
  <2> HIDE DEF x
  <2>1. size >= 1 /\ Orbit(x, size, size - 1)
    BY <1>6
  <2> QED BY <1>4, <2>1, OrbitCovers, ZenonT(30)
<1>8. PICK n \in 0..size-1 : p[n+7].index = slot
  BY <1>7
<1> QED BY <1>8, n + 7 \in Turns(size) DEF Turns, p
-----------------------------------------------------------------------------
(* The inductive invariant *)

SlotTypes == [key : ADDRESSES \cup {NOKEY}, value : VALUES \cup {NONE}, hash : Nat,
              mode : {"SL_EMPTY", "SL_ACTIVE", "SL_DELETED"}]

TableTyped(m) ==
  /\ m.size \in Sizes
  /\ m \in [size : Nat, fill : Nat, count : Nat, table : [0..m.size-1 -> SlotTypes]]

UsedSlots(m) == {i \in 0..m.size-1 : m.table[i].mode # "SL_EMPTY"}
Actives(m) == {i \in 0..m.size-1 : m.table[i].mode = "SL_ACTIVE"}

\* A lookup of the hash h meets no empty slot before slot i.
Placed(m, i, h) ==
  \E n \in Turns(m.size) :
    /\ Probes[h][m.size][n] = i
    /\ \A j \in 0..n-1 : m.table[Probes[h][m.size][j]].mode # "SL_EMPTY"

\* Every active slot is where a lookup of its key finds it.
AllPlaced(m, which) ==
  \A i \in Actives(m) :
    /\ m.table[i].key \in ADDRESSES /\ m.table[i].value \in VALUES
    /\ m.table[i].hash = hfunc[which][m.table[i].key]
    /\ Placed(m, i, m.table[i].hash)

\* No key is there twice.
AllDiffer(m, which) ==
  \A i, j \in Actives(m) : cmp(which, m.table[i].key, m.table[j].key) => i = j

TableInv(m, which) ==
  /\ TableTyped(m)
  /\ AllPlaced(m, which)
  /\ AllDiffer(m, which)
  /\ m.fill = Cardinality(UsedSlots(m)) /\ m.count = Cardinality(Actives(m))

HashInv ==
  /\ kind \in Kinds \cup {"none"} /\ refused \in BOOLEAN /\ endless \in BOOLEAN
  /\ kind = "none" => map = Destroyed /\ ~endless
  /\ kind # "none" => TableInv(map, kind) /\ (refused \/ map.fill < map.size)
  /\ endless => refused

-----------------------------------------------------------------------------
(* Looking a key up *)

\* p visits every slot of a table, and nothing else.
Visits(p, size) ==
  /\ \A n \in Turns(size) : p[n] \in 0..size-1
  /\ \A i \in 0..size-1 : \E n \in Turns(size) : p[n] = i

LEMMA SequenceIs ==
  ASSUME HashAssumption, NEW which \in Kinds, NEW k \in ADDRESSES, NEW size \in Sizes
  PROVE  Visits(Probes[hfunc[which][k]][size], size)
<1> DEFINE hash == hfunc[which][k]
           p == Probes[hash][size]
<1>1. hash \in Nat /\ IsWord(hash)
  BY DEF HashAssumption
<1>2. hash \in Hashes
  <2>1. hfunc[which] \in [ADDRESSES -> Nat]
    BY DEF HashAssumption
  <2>2. hash \in Range(hfunc[which])
    BY <2>1 DEF Range
  <2> QED BY <2>2 DEF Hashes
<1>3. size \in Nat \ {0} /\ PowerOfTwo(size)
  BY DEF Sizes, HashAssumption
<1> HIDE DEF hash
<1>4. \A n \in Turns(size) : p[n] = Probe(hash, size)[n].index
  BY <1>2 DEF Probes
<1> HIDE DEF p
<1>5. \A n \in Turns(size) : p[n] \in 0..size-1
  <2>1. ASSUME NEW n \in Turns(size) PROVE Probe(hash, size)[n].index \in 0..size-1
    <3>1. Probe(hash, size)[n] \in [index : 0..size-1, perturb : Nat]
      BY <1>1, <1>3, ProbeTyped DEF Turns
    <3> QED BY <3>1
  <2> QED BY <1>4, <2>1
<1>6. ASSUME NEW i \in 0..size-1 PROVE \E n \in Turns(size) : p[n] = i
  <2>1. PICK n \in Turns(size) : Probe(hash, size)[n].index = i
    BY <1>1, <1>3, ProbeCovers
  <2> QED BY <2>1, <1>4
<1> QED BY <1>5, <1>6 DEF p, hash, Visits

\* Two keys being one is an equivalence, and then they have one hash.
LEMMA CmpIs ==
  ASSUME HashAssumption, NEW which \in Kinds, NEW j \in ADDRESSES, NEW k \in ADDRESSES,
         cmp(which, j, k)
  PROVE  /\ cmp(which, k, j)
         /\ hfunc[which][j] = hfunc[which][k]
         /\ \A l : cmp(which, j, l) <=> cmp(which, k, l)
BY DEF cmp, HashAssumption, Kinds

LEMMA MatchesIs ==
  ASSUME HashAssumption, NEW which \in Kinds, NEW k \in ADDRESSES, NEW m,
         TableInv(m, which), NEW i \in 0..m.size-1
  PROVE  Matches(which, m.table[i], k, hfunc[which][k])
           <=> i \in Actives(m) /\ cmp(which, m.table[i].key, k)
<1> DEFINE s == m.table[i]
<1>1. i \in Actives(m) <=> s.mode = "SL_ACTIVE"
  BY DEF Actives
<1>2. ASSUME i \in Actives(m), cmp(which, s.key, k)
      PROVE  s.hash = hfunc[which][k]
  <2>1. s.key \in ADDRESSES /\ s.hash = hfunc[which][s.key]
    BY <1>2 DEF TableInv, AllPlaced
  <2> HIDE DEF s
  <2> QED BY <1>2, <2>1, CmpIs
<1> HIDE DEF s
<1>3. Matches(which, s, k, hfunc[which][k]) <=> i \in Actives(m) /\ cmp(which, s.key, k)
  BY <1>1, <1>2 DEF Matches, cmp
<1> QED BY <1>3 DEF s

LEMMA TableSize ==
  ASSUME HashAssumption, NEW m, TableTyped(m)
  PROVE  /\ m.size \in Nat \ {0} /\ PowerOfTwo(m.size) /\ m.size <= MAXSIZE
         /\ m.table \in [0..m.size-1 -> SlotTypes]
BY DEF TableTyped, Sizes, HashAssumption

\* A table that is not full has an empty slot.
LEMMA RoomLeft ==
  ASSUME HashAssumption, NEW m, NEW which, TableInv(m, which), m.fill < m.size
  PROVE  \E i \in 0..m.size-1 : m.table[i].mode = "SL_EMPTY"
<1>1. m.size \in Nat /\ m.size >= 1
  BY TableSize DEF TableInv
<1>2. Cardinality(0..m.size-1) = m.size
  BY <1>1, FS_Interval
<1>3. SUFFICES ASSUME \A i \in 0..m.size-1 : m.table[i].mode # "SL_EMPTY" PROVE FALSE
  OBVIOUS
<1>4. UsedSlots(m) = 0..m.size-1
  BY <1>3 DEF UsedSlots
<1> QED BY <1>1, <1>2, <1>4 DEF TableInv

\* What a lookup returns: the slot of the key if there is one, else one that
\* the key can be put in; nothing only when there is no room.
LEMMA LookupIs ==
  ASSUME HashAssumption, NEW which \in Kinds, NEW k \in ADDRESSES, NEW m,
         TableInv(m, which)
  PROVE  LET i == hash_lookup(m, which, k) IN
         /\ \A j \in Actives(m) : cmp(which, m.table[j].key, k) => i = j
         /\ (\A j \in Actives(m) : ~cmp(which, m.table[j].key, k)) =>
              \/ i = NOSLOT
              \/ i \in (0..m.size-1) \ Actives(m) /\ Placed(m, i, hfunc[which][k])
         /\ m.fill < m.size => i # NOSLOT
<1> DEFINE h == hfunc[which][k]
           p == Probes[h][m.size]
           Ret(n) == Returns(which, m.table[p[n]], k, h)
           Stops(n) == Ret(n) /\ \A i \in 0..n-1 : ~Ret(i)
           last == CHOOSE n \in Turns(m.size) : Stops(n)
           i == hash_lookup(m, which, k)
<1>1. m.size \in Nat \ {0} /\ m.size \in Sizes
  BY TableSize DEF TableInv, TableTyped
<1>2. /\ \A n \in Turns(m.size) : p[n] \in 0..m.size-1
      /\ \A j \in 0..m.size-1 : \E n \in Turns(m.size) : p[n] = j
  <2>1. Visits(p, m.size)
    BY <1>1, SequenceIs
  <2> HIDE DEF p
  <2> QED BY <2>1 DEF Visits
<1>3. i = IF \E n \in Turns(m.size) : Stops(n) THEN SlotAt(m, p, last) ELSE NOSLOT
  BY DEF hash_lookup, LookupAlong
<1>4. Turns(m.size) \in SUBSET Nat /\ \A n \in Turns(m.size) : \A j \in 0..n : j \in Turns(m.size)
  BY <1>1 DEF Turns
<1>5. ASSUME NEW n \in Turns(m.size)
      PROVE  Ret(n) <=> \/ m.table[p[n]].mode = "SL_EMPTY"
                        \/ p[n] \in Actives(m) /\ cmp(which, m.table[p[n]].key, k)
  <2>1. p[n] \in 0..m.size-1
    BY <1>2
  <2> HIDE DEF p
  <2> QED BY <2>1, MatchesIs DEF Returns
<1> HIDE DEF Ret
<1>6. ASSUME NEW n \in Turns(m.size), Ret(n)
      PROVE  \E l \in Turns(m.size) : Stops(l)
  <2> DEFINE T == {l \in Turns(m.size) : Ret(l)}
  <2>1. T \in SUBSET Nat /\ T # {}
    BY <1>4, <1>6
  <2>2. PICK l \in T : \A j \in T : l <= j
    <3> HIDE DEF T
    <3> QED BY <2>1, LeastOf
  <2>3. \A j \in 0..l-1 : ~Ret(j)
    BY <1>4, <2>2
  <2> QED BY <2>2, <2>3
<1>7. (\E n \in Turns(m.size) : Stops(n)) => last \in Turns(m.size) /\ Stops(last)
  OBVIOUS
<1> HIDE DEF last, i, Stops, p, h
<1>8. ASSUME NEW j \in Actives(m), cmp(which, m.table[j].key, k)
      PROVE  i = j
  <2>1. m.table[j].key \in ADDRESSES /\ m.table[j].hash = h /\ Placed(m, j, h)
    <3>1. /\ m.table[j].key \in ADDRESSES /\ m.table[j].hash = hfunc[which][m.table[j].key]
          /\ Placed(m, j, m.table[j].hash)
      BY DEF TableInv, AllPlaced
    <3>2. m.table[j].hash = h
      BY <3>1, <1>8, CmpIs DEF h
    <3> QED BY <3>1, <3>2
  <2>2. PICK n \in Turns(m.size) :
          p[n] = j /\ \A l \in 0..n-1 : m.table[p[l]].mode # "SL_EMPTY"
    BY <2>1 DEF Placed, p
  <2>3. Ret(n)
    BY <1>5, <1>8, <2>2
  <2>4. last \in Turns(m.size) /\ Ret(last) /\ \A l \in 0..last-1 : ~Ret(l)
    BY <1>6, <1>7, <2>3 DEF Stops
  <2>5. last \in 0..n
    BY <1>4, <2>3, <2>4
  <2>6. m.table[p[last]].mode # "SL_EMPTY"
    <3>1. CASE last = n
      BY <3>1, <2>2 DEF Actives
    <3>2. CASE last # n
      BY <3>2, <2>2, <2>5, <1>4
    <3> QED BY <3>1, <3>2
  <2>7. p[last] \in Actives(m) /\ cmp(which, m.table[p[last]].key, k)
    BY <1>5, <2>4, <2>6
  <2>8. p[last] = j
    <3>1. m.table[p[last]].key \in ADDRESSES
      BY <2>7 DEF TableInv, AllPlaced
    <3>2. cmp(which, m.table[p[last]].key, m.table[j].key)
      BY <3>1, <2>1, <2>7, <1>8, CmpIs
    <3> QED BY <3>2, <2>7 DEF TableInv, AllDiffer
  <2>9. SlotAt(m, p, last) = p[last]
    BY <2>6 DEF SlotAt
  <2> QED BY <1>3, <1>6, <2>3, <2>8, <2>9
<1>9. ASSUME \A j \in Actives(m) : ~cmp(which, m.table[j].key, k), i # NOSLOT
      PROVE  i \in (0..m.size-1) \ Actives(m) /\ Placed(m, i, h)
  <2>1. last \in Turns(m.size) /\ Ret(last) /\ \A l \in 0..last-1 : ~Ret(l)
    BY <1>3, <1>7, <1>9 DEF Stops
  <2>2. m.table[p[last]].mode = "SL_EMPTY"
    BY <1>5, <1>9, <2>1
  <2>3. \A l \in 0..last-1 : m.table[p[l]].mode # "SL_EMPTY"
    <3>1. ASSUME NEW l \in 0..last-1 PROVE l \in Turns(m.size)
      BY <1>4, <2>1
    <3> QED BY <3>1, <1>5, <2>1
  <2> DEFINE free == {n \in 0..last-1 : SetsFree(m.table[p[n]])}
  <2>4. \E f \in 0..last : i = p[f] /\ m.table[p[f]].mode \in {"SL_EMPTY", "SL_DELETED"}
    <3>0. last \in Nat
      BY <1>4, <2>1
    <3>1. i = IF free # {} THEN p[Min(free)] ELSE p[last]
      BY <1>3, <1>9, <2>2 DEF SlotAt
    <3>2. CASE free = {}
      BY <3>0, <3>1, <3>2, <2>2
    <3>3. CASE free # {}
      <4>1. free \in SUBSET Nat
        BY <3>0
      <4>2. \E f \in free : \A j \in free : f <= j
        <5> HIDE DEF free
        <5> QED BY <4>1, <3>3, LeastOf
      <4>3. Min(free) \in free
        BY <4>2 DEF Min
      <4> DEFINE f == Min(free)
      <4>4. f \in 0..last-1 /\ m.table[p[f]].mode = "SL_DELETED" /\ i = p[f]
        BY <3>1, <3>3, <4>3 DEF SetsFree
      <4> HIDE DEF f
      <4> QED BY <3>0, <4>4
    <3> QED BY <3>2, <3>3
  <2>5. PICK f \in 0..last : i = p[f] /\ m.table[p[f]].mode \in {"SL_EMPTY", "SL_DELETED"}
    BY <2>4
  <2>6. f \in Turns(m.size) /\ \A l \in 0..f-1 : l \in 0..last-1
    BY <1>4, <2>1, <2>5
  <2>7. i \in 0..m.size-1 /\ i \notin Actives(m)
    BY <2>5, <2>6, <1>2 DEF Actives
  <2>8. Placed(m, i, h)
    BY <2>3, <2>5, <2>6 DEF Placed, p
  <2> QED BY <2>7, <2>8
<1>10. ASSUME m.fill < m.size PROVE i # NOSLOT
  <2>1. PICK j \in 0..m.size-1 : m.table[j].mode = "SL_EMPTY"
    BY <1>10, RoomLeft
  <2>2. PICK n \in Turns(m.size) : p[n] = j
    BY <1>2
  <2>3. Ret(n)
    BY <1>5, <2>1, <2>2
  <2>4. (\E l \in Turns(m.size) : Stops(l)) /\ last \in Turns(m.size) /\ Stops(last)
    BY <1>6, <1>7, <2>3
  <2>5. i = SlotAt(m, p, last)
    BY <1>3, <2>4
  <2>6. \E l \in Turns(m.size) : SlotAt(m, p, last) = p[l]
    <3> DEFINE free == {l \in 0..last-1 : SetsFree(m.table[p[l]])}
    <3>1. SlotAt(m, p, last) = IF m.table[p[last]].mode = "SL_EMPTY" /\ free # {}
                               THEN p[Min(free)] ELSE p[last]
      BY DEF SlotAt
    <3>2. last \in Nat /\ free \in SUBSET Nat
      BY <1>4, <2>4
    <3>3. free # {} => Min(free) \in free
      <4>1. ASSUME free # {} PROVE \E f \in free : \A l \in free : f <= l
        <5> HIDE DEF free
        <5> QED BY <3>2, <4>1, LeastOf
      <4> QED BY <4>1 DEF Min
    <3>4. free # {} => Min(free) \in Turns(m.size)
      BY <3>3, <3>2, <1>4, <2>4
    <3> HIDE DEF free
    <3> QED BY <3>1, <3>4, <2>4
  <2> QED BY <2>5, <2>6, <1>2 DEF NOSLOT
<1> QED BY <1>8, <1>9, <1>10 DEF i, h
-----------------------------------------------------------------------------
(* What the table holds *)

\* contents, for any table.
Holding(m, which, k) ==
  {i \in DOMAIN m.table : Matches(which, m.table[i], k, hfunc[which][k])}

Held(m, which, k) ==
  IF Holding(m, which, k) = {} THEN NONE
  ELSE m.table[CHOOSE i \in Holding(m, which, k) : TRUE].value

LEMMA ContentsHeld == contents = [k \in ADDRESSES |-> Held(map, kind, k)]
  BY DEF contents, Held, Holding

\* The value of a key is in the one slot of it.
LEMMA HeldIs ==
  ASSUME HashAssumption, NEW which \in Kinds, NEW k \in ADDRESSES, NEW m,
         TableInv(m, which)
  PROVE  /\ \A i \in Actives(m) : cmp(which, m.table[i].key, k) =>
              /\ Held(m, which, k) = m.table[i].value
              /\ Held(m, which, k) # NONE
         /\ (\A i \in Actives(m) : ~cmp(which, m.table[i].key, k)) =>
              Held(m, which, k) = NONE
<1> DEFINE H == Holding(m, which, k)
<1>1. DOMAIN m.table = 0..m.size-1
  BY TableSize DEF TableInv
<1>2. \A i : i \in H <=> i \in Actives(m) /\ cmp(which, m.table[i].key, k)
  <2>1. ASSUME NEW i \in 0..m.size-1
        PROVE  i \in H <=> i \in Actives(m) /\ cmp(which, m.table[i].key, k)
    BY <1>1, <2>1, MatchesIs DEF Holding
  <2>2. \A i : (i \in H \/ i \in Actives(m)) => i \in 0..m.size-1
    BY <1>1 DEF Holding, Actives
  <2> HIDE DEF H
  <2> QED BY <2>1, <2>2
<1>3. ASSUME NEW i \in Actives(m), cmp(which, m.table[i].key, k)
      PROVE  /\ Held(m, which, k) = m.table[i].value /\ Held(m, which, k) # NONE
  <2>1. i \in H
    BY <1>2, <1>3
  <2>2. ASSUME NEW j \in H PROVE j = i
    <3>1. j \in Actives(m) /\ cmp(which, m.table[j].key, k)
      BY <1>2, <2>2
    <3>2. m.table[j].key \in ADDRESSES /\ m.table[i].key \in ADDRESSES
      BY <1>3, <3>1 DEF TableInv, AllPlaced
    <3>3. cmp(which, m.table[j].key, m.table[i].key)
      BY <1>3, <3>1, <3>2, CmpIs
    <3> QED BY <1>3, <3>1, <3>3 DEF TableInv, AllDiffer
  <2>3. H # {} /\ (CHOOSE j \in H : TRUE) \in H
    <3> HIDE DEF H
    <3> QED BY <2>1
  <2>4. (CHOOSE j \in H : TRUE) = i
    BY <2>2, <2>3
  <2>5. m.table[i].value \in VALUES
    BY <1>3 DEF TableInv, AllPlaced
  <2> QED BY <2>3, <2>4, <2>5 DEF Held, HashAssumption
<1>4. ASSUME \A i \in Actives(m) : ~cmp(which, m.table[i].key, k)
      PROVE  Held(m, which, k) = NONE
  <2>1. H = {}
    BY <1>2, <1>4
  <2> QED BY <2>1 DEF Held
<1> QED BY <1>3, <1>4

\* A slot is put where a lookup of its key ended without finding it.
Stored(m, i, slot) ==
  [m EXCEPT !.count = @ + 1,
            !.fill = IF m.table[i].mode = "SL_EMPTY" THEN @ + 1 ELSE @,
            !.table[i] = slot]

\* The slots in use stay so, and so the others stay placed.
LEMMA StaysPlaced ==
  ASSUME HashAssumption, NEW which \in Kinds, NEW k \in ADDRESSES, NEW m, NEW n,
         m.size \in Sizes, n.size = m.size,
         \A j \in 0..m.size-1 : m.table[j].mode # "SL_EMPTY" => n.table[j].mode # "SL_EMPTY",
         NEW i, Placed(m, i, hfunc[which][k])
  PROVE  Placed(n, i, hfunc[which][k])
<1> DEFINE h == hfunc[which][k]
<1>1. m.size \in Nat /\ \A l \in Turns(m.size) : Probes[h][m.size][l] \in 0..m.size-1
  <2>1. Visits(Probes[h][m.size], m.size)
    BY SequenceIs
  <2> QED BY <2>1 DEF Visits, Sizes, HashAssumption
<1> HIDE DEF h
<1>2. PICK l \in Turns(m.size) :
        /\ Probes[h][m.size][l] = i
        /\ \A t \in 0..l-1 : m.table[Probes[h][m.size][t]].mode # "SL_EMPTY"
  BY DEF Placed, h
<1>3. ASSUME NEW t \in 0..l-1
      PROVE  n.table[Probes[h][m.size][t]].mode # "SL_EMPTY"
  <2>1. t \in Turns(m.size)
    BY <1>1, <1>3 DEF Turns
  <2> QED BY <2>1, <1>1, <1>2
<1>4. Placed(n, i, h)
  BY <1>2, <1>3, ZenonT(30) DEF Placed
<1> QED BY <1>4 DEF h

LEMMA StoredKeeps ==
  ASSUME HashAssumption, NEW which \in Kinds, NEW m, TableInv(m, which),
         NEW i \in (0..m.size-1) \ Actives(m),
         NEW slot \in SlotTypes, slot.mode = "SL_ACTIVE",
         slot.key \in ADDRESSES, slot.value \in VALUES,
         slot.hash = hfunc[which][slot.key], Placed(m, i, slot.hash),
         \A j \in Actives(m) : ~cmp(which, m.table[j].key, slot.key)
  PROVE  LET n == Stored(m, i, slot) IN
         /\ TableInv(n, which) /\ n.size = m.size
         /\ n.table[i] = slot /\ \A j \in (0..m.size-1) \ {i} : n.table[j] = m.table[j]
         /\ Actives(n) = Actives(m) \cup {i}
         /\ \A k \in ADDRESSES :
              Held(n, which, k) = IF cmp(which, slot.key, k) THEN slot.value
                                  ELSE Held(m, which, k)
<1> DEFINE n == Stored(m, i, slot)
<1>0. m.size \in Nat \ {0} /\ m.table \in [0..m.size-1 -> SlotTypes]
      /\ m \in [size : Nat, fill : Nat, count : Nat, table : [0..m.size-1 -> SlotTypes]]
      /\ m.size \in Sizes
  BY TableSize DEF TableInv, TableTyped
<1>1. /\ n.size = m.size /\ n.count = m.count + 1
      /\ n.fill = IF m.table[i].mode = "SL_EMPTY" THEN m.fill + 1 ELSE m.fill
      /\ n.table = [m.table EXCEPT ![i] = slot]
  BY <1>0 DEF Stored
<1>2. n \in [size : Nat, fill : Nat, count : Nat, table : [0..m.size-1 -> SlotTypes]]
  <2>1. [m.table EXCEPT ![i] = slot] \in [0..m.size-1 -> SlotTypes]
    BY <1>0
  <2>2. m.fill \in Nat /\ m.count \in Nat
    BY <1>0
  <2> DEFINE T == [0..m.size-1 -> SlotTypes]
             R == [size : Nat, fill : Nat, count : Nat, table : T]
             t == [m.table EXCEPT ![i] = slot]
             f == IF m.table[i].mode = "SL_EMPTY" THEN m.fill + 1 ELSE m.fill
  <2>3. n = [m EXCEPT !.count = m.count + 1, !.fill = f, !.table = t]
    BY <1>0 DEF Stored
  <2>4. t \in T /\ f \in Nat /\ m.count + 1 \in Nat /\ m \in R
    BY <1>0, <2>1, <2>2
  <2> HIDE DEF T, t, f, n
  <2>5. n \in R
    BY <2>3, <2>4
  <2> QED BY <2>5 DEF T
<1> HIDE DEF n
<1>3. /\ n.table[i] = slot /\ \A j \in (0..m.size-1) \ {i} : n.table[j] = m.table[j]
      /\ n.table \in [0..m.size-1 -> SlotTypes]
  BY <1>0, <1>1
<1>4. Actives(n) = Actives(m) \cup {i}
  BY <1>1, <1>3 DEF Actives
<1>5. UsedSlots(n) = UsedSlots(m) \cup {i}
  BY <1>1, <1>3 DEF UsedSlots
<1>6. /\ IsFiniteSet(UsedSlots(m)) /\ IsFiniteSet(Actives(m))
  <2>1. IsFiniteSet(0..m.size-1)
    BY <1>0, FS_Interval
  <2>2. UsedSlots(m) \subseteq 0..m.size-1 /\ Actives(m) \subseteq 0..m.size-1
    BY DEF UsedSlots, Actives
  <2> QED BY <2>1, <2>2, FS_Subset
<1>7. n.count = Cardinality(Actives(n))
  <2>1. Cardinality(Actives(n)) = Cardinality(Actives(m)) + 1
    BY <1>4, <1>6, FS_AddElement
  <2> QED BY <2>1, <1>1 DEF TableInv
<1>8. n.fill = Cardinality(UsedSlots(n))
  <2>1. CASE m.table[i].mode = "SL_EMPTY"
    <3>1. i \notin UsedSlots(m)
      BY <2>1 DEF UsedSlots
    <3>2. Cardinality(UsedSlots(n)) = Cardinality(UsedSlots(m)) + 1
      BY <1>5, <1>6, <3>1, FS_AddElement
    <3> QED BY <2>1, <3>2, <1>1 DEF TableInv
  <2>2. CASE m.table[i].mode # "SL_EMPTY"
    <3>1. UsedSlots(n) = UsedSlots(m)
      BY <2>2, <1>5 DEF UsedSlots
    <3> QED BY <2>2, <3>1, <1>1 DEF TableInv
  <2> QED BY <2>1, <2>2
<1>9. AllPlaced(n, which)
  <2>1. ASSUME NEW j \in 0..m.size-1, m.table[j].mode # "SL_EMPTY"
        PROVE  n.table[j].mode # "SL_EMPTY"
    BY <1>3, <2>1
  <2>2. ASSUME NEW j, NEW k \in ADDRESSES, Placed(m, j, hfunc[which][k])
        PROVE  Placed(n, j, hfunc[which][k])
    BY <1>0, <1>1, <2>1, <2>2, StaysPlaced
  <2>3. ASSUME NEW j \in Actives(m)
        PROVE  /\ m.table[j].key \in ADDRESSES /\ m.table[j].value \in VALUES
               /\ m.table[j].hash = hfunc[which][m.table[j].key]
               /\ Placed(m, j, m.table[j].hash) /\ Placed(n, j, m.table[j].hash)
               /\ j \in 0..m.size-1 /\ j # i /\ n.table[j] = m.table[j]
    <3>1. /\ m.table[j].key \in ADDRESSES /\ m.table[j].value \in VALUES
          /\ m.table[j].hash = hfunc[which][m.table[j].key]
          /\ Placed(m, j, m.table[j].hash)
      BY DEF TableInv, AllPlaced
    <3>2. j \in 0..m.size-1 /\ j # i
      BY DEF Actives
    <3>3. Placed(n, j, m.table[j].hash)
      BY <2>2, <3>1
    <3> QED BY <1>3, <3>1, <3>2, <3>3
  <2>4. Placed(n, i, slot.hash)
    BY <2>2
  <2> QED BY <1>3, <1>4, <2>3, <2>4 DEF AllPlaced
<1>10. AllDiffer(n, which)
  <2>1. ASSUME NEW j \in Actives(m)
        PROVE  /\ j # i /\ n.table[j] = m.table[j] /\ m.table[j].key \in ADDRESSES
               /\ ~cmp(which, m.table[j].key, slot.key)
               /\ ~cmp(which, slot.key, m.table[j].key)
    <3>1. j \in 0..m.size-1 /\ j # i /\ m.table[j].key \in ADDRESSES
      BY DEF Actives, TableInv, AllPlaced
    <3> QED BY <3>1, <1>3, CmpIs
  <2> QED BY <1>3, <1>4, <2>1 DEF AllDiffer, TableInv
<1>11. TableInv(n, which)
  BY <1>0, <1>1, <1>2, <1>7, <1>8, <1>9, <1>10 DEF TableInv, TableTyped
<1>12. ASSUME NEW k \in ADDRESSES
       PROVE  Held(n, which, k) = IF cmp(which, slot.key, k) THEN slot.value
                                  ELSE Held(m, which, k)
  <2>1. CASE cmp(which, slot.key, k)
    <3>1. i \in Actives(n) /\ cmp(which, n.table[i].key, k)
      BY <2>1, <1>3, <1>4
    <3> QED BY <2>1, <3>1, <1>3, <1>11, HeldIs
  <2>2. CASE ~cmp(which, slot.key, k)
    <3>1. \A j \in Actives(m) : j # i /\ n.table[j] = m.table[j] /\ j \in Actives(n)
      BY <1>3, <1>4 DEF Actives
    <3>2. CASE \E j \in Actives(m) : cmp(which, m.table[j].key, k)
      <4>1. PICK j \in Actives(m) : cmp(which, m.table[j].key, k)
        BY <3>2
      <4>2. Held(m, which, k) = m.table[j].value
        BY <4>1, HeldIs
      <4>3. Held(n, which, k) = n.table[j].value
        BY <4>1, <3>1, <1>11, HeldIs
      <4> QED BY <2>2, <4>2, <4>3, <3>1
    <3>3. CASE \A j \in Actives(m) : ~cmp(which, m.table[j].key, k)
      <4>1. Held(m, which, k) = NONE
        BY <3>3, HeldIs
      <4>2. \A j \in Actives(n) : ~cmp(which, n.table[j].key, k)
        BY <3>1, <3>3, <2>2, <1>3, <1>4
      <4>3. Held(n, which, k) = NONE
        BY <4>2, <1>11, HeldIs
      <4> QED BY <2>2, <4>1, <4>3
    <3> QED BY <3>2, <3>3
  <2> QED BY <2>1, <2>2
<1> QED BY <1>1, <1>3, <1>4, <1>11, <1>12 DEF n

LEMMA DeletedKeeps ==
  ASSUME HashAssumption, NEW which \in Kinds, NEW m, TableInv(m, which),
         NEW i \in Actives(m)
  PROVE  LET n == Deleted(m, i) IN
         /\ TableInv(n, which) /\ n.size = m.size /\ n.fill = m.fill
         /\ \A k \in ADDRESSES :
              Held(n, which, k) = IF cmp(which, m.table[i].key, k) THEN NONE
                                  ELSE Held(m, which, k)
<1> DEFINE n == Deleted(m, i)
           gone == [EmptySlot EXCEPT !.mode = "SL_DELETED"]
<1>0. m.size \in Nat \ {0} /\ m.table \in [0..m.size-1 -> SlotTypes]
      /\ m \in [size : Nat, fill : Nat, count : Nat, table : [0..m.size-1 -> SlotTypes]]
      /\ m.size \in Sizes /\ i \in 0..m.size-1 /\ m.table[i].mode = "SL_ACTIVE"
  BY TableSize DEF TableInv, TableTyped, Actives
<1>1. /\ n.size = m.size /\ n.count = m.count - 1 /\ n.fill = m.fill
      /\ n.table = [m.table EXCEPT ![i] = gone]
  BY <1>0 DEF Deleted
<1>2. gone \in SlotTypes /\ gone.mode = "SL_DELETED"
  BY DEF EmptySlot, SlotTypes
<1>3. /\ n.table[i].mode = "SL_DELETED"
      /\ \A j \in (0..m.size-1) \ {i} : n.table[j] = m.table[j]
  <2> HIDE DEF n, gone
  <2> QED BY <1>0, <1>1, <1>2
<1>4. IsFiniteSet(Actives(m)) /\ m.count = Cardinality(Actives(m)) /\ m.count - 1 \in Nat
  <2>1. IsFiniteSet(0..m.size-1)
    BY <1>0, FS_Interval
  <2>2. Actives(m) \subseteq 0..m.size-1
    BY DEF Actives
  <2>3. IsFiniteSet(Actives(m))
    BY <2>1, <2>2, FS_Subset
  <2>4. Cardinality(Actives(m)) # 0 /\ Cardinality(Actives(m)) \in Nat
    BY <2>3, FS_EmptySet, FS_CardinalityType
  <2> QED BY <2>3, <2>4 DEF TableInv
<1>5. n \in [size : Nat, fill : Nat, count : Nat, table : [0..m.size-1 -> SlotTypes]]
  <2> DEFINE T == [0..m.size-1 -> SlotTypes]
             R == [size : Nat, fill : Nat, count : Nat, table : T]
             t == [m.table EXCEPT ![i] = gone]
             c == m.count - 1
  <2>1. t \in T
    <3> HIDE DEF gone
    <3> QED BY <1>0, <1>2
  <2>2. n = [m EXCEPT !.count = c, !.table = t]
    BY <1>0 DEF Deleted
  <2>3. c \in Nat /\ m \in R
    BY <1>0, <1>4
  <2> HIDE DEF T, t, n, c
  <2>4. n \in R
    BY <2>1, <2>2, <2>3
  <2> QED BY <2>4 DEF T
<1> HIDE DEF n, gone
<1>6. Actives(n) = Actives(m) \ {i} /\ UsedSlots(n) = UsedSlots(m)
  BY <1>0, <1>1, <1>3 DEF Actives, UsedSlots
<1>7. n.count = Cardinality(Actives(n)) /\ n.fill = Cardinality(UsedSlots(n))
  <2>1. Cardinality(Actives(n)) = Cardinality(Actives(m)) - 1
    BY <1>4, <1>6, FS_RemoveElement, ZenonT(30)
  <2> QED BY <2>1, <1>1, <1>4, <1>6 DEF TableInv
<1>8. ASSUME NEW j \in Actives(n)
      PROVE  j \in Actives(m) /\ n.table[j] = m.table[j]
  BY <1>3, <1>6 DEF Actives
<1>9. AllPlaced(n, which)
  <2>1. \A j \in 0..m.size-1 : m.table[j].mode # "SL_EMPTY" => n.table[j].mode # "SL_EMPTY"
    BY <1>3
  <2>2. ASSUME NEW j \in Actives(m)
        PROVE  /\ m.table[j].key \in ADDRESSES /\ m.table[j].value \in VALUES
               /\ m.table[j].hash = hfunc[which][m.table[j].key]
               /\ Placed(n, j, m.table[j].hash)
    <3>1. /\ m.table[j].key \in ADDRESSES /\ m.table[j].value \in VALUES
          /\ m.table[j].hash = hfunc[which][m.table[j].key]
          /\ Placed(m, j, m.table[j].hash)
      BY DEF TableInv, AllPlaced
    <3>2. Placed(n, j, hfunc[which][m.table[j].key])
      BY <1>0, <1>1, <2>1, <3>1, StaysPlaced
    <3> QED BY <3>1, <3>2
  <2> QED BY <1>8, <2>2 DEF AllPlaced
<1>10. AllDiffer(n, which)
  BY <1>8 DEF TableInv, AllDiffer
<1>11. TableInv(n, which)
  BY <1>0, <1>1, <1>5, <1>7, <1>9, <1>10 DEF TableInv, TableTyped
<1>12. ASSUME NEW k \in ADDRESSES
       PROVE  Held(n, which, k) = IF cmp(which, m.table[i].key, k) THEN NONE
                                  ELSE Held(m, which, k)
  <2>1. CASE cmp(which, m.table[i].key, k)
    <3>1. ASSUME NEW j \in Actives(m), cmp(which, m.table[j].key, k) PROVE j = i
      <4>1. m.table[j].key \in ADDRESSES /\ m.table[i].key \in ADDRESSES
        BY DEF TableInv, AllPlaced
      <4>2. cmp(which, m.table[j].key, m.table[i].key)
        BY <2>1, <3>1, <4>1, CmpIs
      <4> QED BY <4>2 DEF TableInv, AllDiffer
    <3>2. \A j \in Actives(n) : ~cmp(which, n.table[j].key, k)
      BY <1>6, <1>8, <3>1
    <3> QED BY <2>1, <3>2, <1>11, HeldIs
  <2>2. CASE ~cmp(which, m.table[i].key, k)
    <3>1. CASE \E j \in Actives(m) : cmp(which, m.table[j].key, k)
      <4>1. PICK j \in Actives(m) : cmp(which, m.table[j].key, k)
        BY <3>1
      <4>2. j \in Actives(n) /\ n.table[j] = m.table[j]
        BY <4>1, <2>2, <1>6, <1>8
      <4>3. Held(m, which, k) = m.table[j].value
        BY <4>1, HeldIs
      <4>4. Held(n, which, k) = n.table[j].value
        BY <4>1, <4>2, <1>11, HeldIs
      <4> QED BY <2>2, <4>2, <4>3, <4>4
    <3>2. CASE \A j \in Actives(m) : ~cmp(which, m.table[j].key, k)
      <4>1. Held(m, which, k) = NONE
        BY <3>2, HeldIs
      <4>2. \A j \in Actives(n) : ~cmp(which, n.table[j].key, k)
        BY <3>2, <1>8
      <4>3. Held(n, which, k) = NONE
        BY <4>2, <1>11, HeldIs
      <4> QED BY <2>2, <4>1, <4>3
    <3> QED BY <3>1, <3>2
  <2> QED BY <2>1, <2>2
<1> QED BY <1>1, <1>11, <1>12 DEF n

LEMMA UpdatedKeeps ==
  ASSUME HashAssumption, NEW which \in Kinds, NEW m, TableInv(m, which),
         NEW i \in Actives(m), NEW v \in VALUES
  PROVE  LET n == [m EXCEPT !.table[i].value = v] IN
         /\ TableInv(n, which) /\ n.size = m.size /\ n.fill = m.fill
         /\ \A k \in ADDRESSES :
              Held(n, which, k) = IF cmp(which, m.table[i].key, k) THEN v
                                  ELSE Held(m, which, k)
<1> DEFINE n == [m EXCEPT !.table[i].value = v]
           slot == [m.table[i] EXCEPT !.value = v]
<1>0. m.size \in Nat \ {0} /\ m.table \in [0..m.size-1 -> SlotTypes]
      /\ m \in [size : Nat, fill : Nat, count : Nat, table : [0..m.size-1 -> SlotTypes]]
      /\ m.size \in Sizes /\ i \in 0..m.size-1 /\ m.table[i].mode = "SL_ACTIVE"
      /\ m.table[i] \in SlotTypes
  BY TableSize DEF TableInv, TableTyped, Actives
<1>1. /\ slot \in SlotTypes /\ slot.mode = "SL_ACTIVE" /\ slot.value = v
      /\ slot.key = m.table[i].key /\ slot.hash = m.table[i].hash
  BY <1>0 DEF SlotTypes
<1>2. /\ n.size = m.size /\ n.count = m.count /\ n.fill = m.fill
      /\ n.table = [m.table EXCEPT ![i] = slot]
  BY <1>0
<1>3. n \in [size : Nat, fill : Nat, count : Nat, table : [0..m.size-1 -> SlotTypes]]
  <2> DEFINE T == [0..m.size-1 -> SlotTypes]
             R == [size : Nat, fill : Nat, count : Nat, table : T]
             t == [m.table EXCEPT ![i] = slot]
  <2>1. t \in T
    <3> HIDE DEF slot
    <3> QED BY <1>0, <1>1
  <2>2. n = [m EXCEPT !.table = t]
    BY <1>0
  <2>3. m \in R
    BY <1>0
  <2> HIDE DEF T, t, n
  <2>4. n \in R
    BY <2>1, <2>2, <2>3
  <2> QED BY <2>4 DEF T
<1> HIDE DEF n, slot
<1>4. /\ n.table[i] = slot
      /\ \A j \in (0..m.size-1) \ {i} : n.table[j] = m.table[j]
  BY <1>0, <1>1, <1>2
<1>5. \A j \in 0..m.size-1 : /\ n.table[j].mode = m.table[j].mode
                             /\ n.table[j].key = m.table[j].key
                             /\ n.table[j].hash = m.table[j].hash
  BY <1>0, <1>1, <1>4
<1>6. Actives(n) = Actives(m) /\ UsedSlots(n) = UsedSlots(m)
  BY <1>2, <1>5 DEF Actives, UsedSlots
<1>7. AllPlaced(n, which)
  <2>1. ASSUME NEW j \in Actives(m)
        PROVE  /\ n.table[j].key \in ADDRESSES /\ n.table[j].value \in VALUES
               /\ n.table[j].hash = hfunc[which][n.table[j].key]
               /\ Placed(n, j, n.table[j].hash)
    <3>1. /\ m.table[j].key \in ADDRESSES /\ m.table[j].value \in VALUES
          /\ m.table[j].hash = hfunc[which][m.table[j].key]
          /\ Placed(m, j, m.table[j].hash) /\ j \in 0..m.size-1
      BY DEF TableInv, AllPlaced, Actives
    <3>2. Placed(n, j, hfunc[which][m.table[j].key])
      <4>1. \A l \in 0..m.size-1 :
              m.table[l].mode # "SL_EMPTY" => n.table[l].mode # "SL_EMPTY"
        BY <1>5
      <4> QED BY <1>0, <1>2, <3>1, <4>1, StaysPlaced
    <3>3. n.table[j].value \in VALUES
      BY <1>1, <1>4, <3>1
    <3> QED BY <3>1, <3>2, <3>3, <1>5
  <2> QED BY <1>6, <2>1 DEF AllPlaced
<1>8. AllDiffer(n, which)
  <2>1. \A j \in Actives(m) : n.table[j].key = m.table[j].key
    BY <1>5 DEF Actives
  <2> QED BY <1>6, <2>1 DEF TableInv, AllDiffer
<1>9. TableInv(n, which)
  BY <1>0, <1>2, <1>3, <1>6, <1>7, <1>8 DEF TableInv, TableTyped
<1>10. ASSUME NEW k \in ADDRESSES
       PROVE  Held(n, which, k) = IF cmp(which, m.table[i].key, k) THEN v
                                  ELSE Held(m, which, k)
  <2>0. \A j \in Actives(m) : n.table[j].key = m.table[j].key
    BY <1>5 DEF Actives
  <2>1. CASE cmp(which, m.table[i].key, k)
    BY <2>0, <2>1, <1>1, <1>4, <1>6, <1>9, HeldIs
  <2>2. CASE ~cmp(which, m.table[i].key, k)
    <3>1. CASE \E j \in Actives(m) : cmp(which, m.table[j].key, k)
      <4>1. PICK j \in Actives(m) : cmp(which, m.table[j].key, k)
        BY <3>1
      <4>2. j \in Actives(n) /\ n.table[j] = m.table[j]
        BY <4>1, <2>2, <1>4, <1>6 DEF Actives
      <4>3. Held(m, which, k) = m.table[j].value
        BY <4>1, HeldIs
      <4>4. Held(n, which, k) = n.table[j].value
        BY <4>1, <4>2, <1>9, HeldIs
      <4> QED BY <2>2, <4>2, <4>3, <4>4
    <3>2. CASE \A j \in Actives(m) : ~cmp(which, m.table[j].key, k)
      <4>1. Held(m, which, k) = NONE
        BY <3>2, HeldIs
      <4>2. \A j \in Actives(n) : ~cmp(which, n.table[j].key, k)
        BY <3>2, <2>0, <1>6
      <4>3. Held(n, which, k) = NONE
        BY <4>2, <1>9, HeldIs
      <4> QED BY <2>2, <4>1, <4>3
    <3> QED BY <3>1, <3>2
  <2> QED BY <2>1, <2>2
<1> QED BY <1>2, <1>9, <1>10 DEF n
-----------------------------------------------------------------------------
(* Copying a table *)

\* f is n steps of the loop of hash_copy.
Copying(f, m, which, old, n) ==
  f = [i \in 0..n |-> IF i = 0 THEN m ELSE CopySlot(f[i-1], which, old.table[i-1])]

LEMMA CopyingExists ==
  ASSUME NEW m, NEW which, NEW old, NEW N \in Nat
  PROVE  \E f : Copying(f, m, which, old, N)
<1> DEFINE Stuck == {n \in Nat : ~ \E f : Copying(f, m, which, old, n)}
<1>1. Copying([i \in 0..0 |-> m], m, which, old, 0)
  BY DEF Copying
<1>2. ASSUME NEW n \in Nat \ {0}, NEW f, Copying(f, m, which, old, n - 1)
      PROVE  \E g : Copying(g, m, which, old, n)
  <2> DEFINE g == [i \in 0..n |-> IF i = n THEN CopySlot(f[n-1], which, old.table[n-1])
                                  ELSE f[i]]
  <2>1. \A i \in 0..n-1 : f[i] = IF i = 0 THEN m ELSE CopySlot(f[i-1], which, old.table[i-1])
    <3>1. f = [i \in 0..n-1 |-> IF i = 0 THEN m
                                ELSE CopySlot(f[i-1], which, old.table[i-1])]
      BY <1>2 DEF Copying
    <3> QED BY <3>1
  <2>2. \A i \in 0..n-1 : g[i] = f[i]
    OBVIOUS
  <2>3. g[n] = CopySlot(f[n-1], which, old.table[n-1])
    OBVIOUS
  <2>4. \A i \in 0..n : g[i] = IF i = 0 THEN m ELSE CopySlot(g[i-1], which, old.table[i-1])
    <3> HIDE DEF g
    <3>1. ASSUME NEW i \in 0..n-1
          PROVE  g[i] = IF i = 0 THEN m ELSE CopySlot(g[i-1], which, old.table[i-1])
      BY <2>1, <2>2
    <3>2. n # 0 /\ g[n] = CopySlot(g[n-1], which, old.table[n-1])
      BY <2>2, <2>3, n - 1 \in 0..n-1
    <3> QED BY <3>1, <3>2
  <2>5. g = [i \in 0..n |-> g[i]]
    OBVIOUS
  <2>6. Copying(g, m, which, old, n)
    <3> HIDE DEF g
    <3>1. g = [i \in 0..n |-> IF i = 0 THEN m ELSE CopySlot(g[i-1], which, old.table[i-1])]
      BY <2>4, <2>5
    <3> QED BY <3>1 DEF Copying
  <2> QED BY <2>6, Zenon
<1>3. \A n \in Nat : n \in Stuck <=> ~ \E f : Copying(f, m, which, old, n)
  OBVIOUS
<1>4. Stuck \in SUBSET Nat
  OBVIOUS
<1> HIDE DEF Stuck
<1>5. ASSUME Stuck # {} PROVE FALSE
  <2>1. PICK n \in Stuck : \A i \in Stuck : n <= i
    BY <1>4, <1>5, LeastOf
  <2>2. n \in Nat \ {0}
    BY <1>1, <1>3, <1>4, <2>1
  <2>3. n - 1 \in Nat /\ n - 1 \notin Stuck
    BY <2>1, <2>2
  <2>4. PICK f : Copying(f, m, which, old, n - 1)
    BY <1>3, <2>3
  <2> QED BY <1>2, <1>3, <2>1, <2>2, <2>4
<1> QED BY <1>3, <1>5

\* made holds the active ones of the n first slots of old, and has no deleted slot.
CopyInv(made, which, old, size, n) ==
  /\ TableInv(made, which) /\ made.size = size
  /\ made.fill = made.count
  /\ made.count = Cardinality(Actives(old) \cap (0..n-1))
  /\ \A j \in 0..size-1 : made.table[j].mode # "SL_DELETED"
  /\ \A i \in Actives(old) \cap (0..n-1) : \E j \in Actives(made) : made.table[j] = old.table[i]
  /\ \A j \in Actives(made) : \E i \in Actives(old) \cap (0..n-1) : made.table[j] = old.table[i]

LEMMA NewTable ==
  ASSUME HashAssumption, NEW which \in Kinds, NEW size \in Sizes
  PROVE  LET m == hash_initialize(size) IN
         /\ TableInv(m, which) /\ m.size = size /\ m.fill = 0 /\ m.count = 0
         /\ Actives(m) = {} /\ \A j \in 0..size-1 : m.table[j].mode = "SL_EMPTY"
         /\ \A k \in ADDRESSES : Held(m, which, k) = NONE
<1> DEFINE m == hash_initialize(size)
<1>1. /\ m.size = size /\ m.fill = 0 /\ m.count = 0 /\ size \in Nat
      /\ m.table = [i \in 0..size-1 |-> EmptySlot]
  BY DEF hash_initialize, Sizes, HashAssumption
<1>2. EmptySlot \in SlotTypes /\ EmptySlot.mode = "SL_EMPTY"
  BY DEF EmptySlot, SlotTypes
<1>3. m.table \in [0..m.size-1 -> SlotTypes] /\ \A j \in 0..size-1 : m.table[j].mode = "SL_EMPTY"
  BY <1>1, <1>2
<1>4. m \in [size : Nat, fill : Nat, count : Nat, table : [0..m.size-1 -> SlotTypes]]
  <2>1. m = [size |-> m.size, fill |-> m.fill, count |-> m.count, table |-> m.table]
    BY DEF hash_initialize
  <2> HIDE DEF m
  <2> QED BY <1>1, <1>3, <2>1
<1> HIDE DEF m
<1>5. Actives(m) = {} /\ UsedSlots(m) = {}
  BY <1>1, <1>3 DEF Actives, UsedSlots
<1>6. TableInv(m, which)
  BY <1>1, <1>4, <1>5, FS_EmptySet DEF TableInv, TableTyped, AllPlaced, AllDiffer
<1>7. \A k \in ADDRESSES : Held(m, which, k) = NONE
  BY <1>5, <1>6, HeldIs
<1> QED BY <1>1, <1>3, <1>5, <1>6, <1>7 DEF m

LEMMA CopySlotKeeps ==
  ASSUME HashAssumption, NEW which \in Kinds, NEW old, TableInv(old, which),
         NEW size \in Sizes, old.count <= size, NEW n \in 0..old.size-1,
         NEW made, CopyInv(made, which, old, size, n)
  PROVE  CopyInv(CopySlot(made, which, old.table[n]), which, old, size, n + 1)
<1> DEFINE slot == old.table[n]
           Old(a) == Actives(old) \cap (0..a-1)
<1>0. old.size \in Nat /\ slot \in SlotTypes /\ 0..((n+1)-1) = (0..n-1) \cup {n}
  BY TableSize DEF TableInv
<1>1. CASE slot.mode # "SL_ACTIVE"
  <2>1. CopySlot(made, which, slot) = made
    BY <1>1 DEF CopySlot
  <2>2. Old(n + 1) = Old(n)
    BY <1>0, <1>1 DEF Actives
  <2>3. CopyInv(made, which, old, size, n + 1)
    <3> DEFINE A == Actives(old) \cap (0..n-1)
               B == Actives(old) \cap (0..(n+1)-1)
    <3>1. A = B
      BY <2>2
    <3> HIDE DEF A, B
    <3>2. /\ TableInv(made, which) /\ made.size = size /\ made.fill = made.count
          /\ made.count = Cardinality(A)
          /\ \A j \in 0..size-1 : made.table[j].mode # "SL_DELETED"
          /\ \A i \in A : \E j \in Actives(made) : made.table[j] = old.table[i]
          /\ \A j \in Actives(made) : \E i \in A : made.table[j] = old.table[i]
      BY DEF CopyInv, A
    <3>3. /\ TableInv(made, which) /\ made.size = size /\ made.fill = made.count
          /\ made.count = Cardinality(B)
          /\ \A j \in 0..size-1 : made.table[j].mode # "SL_DELETED"
          /\ \A i \in B : \E j \in Actives(made) : made.table[j] = old.table[i]
          /\ \A j \in Actives(made) : \E i \in B : made.table[j] = old.table[i]
      BY <3>1, <3>2
    <3> QED BY <3>3, Zenon DEF CopyInv, B
  <2> QED BY <2>1, <2>3
<1>2. CASE slot.mode = "SL_ACTIVE"
  <2> DEFINE i == hash_lookup(made, which, slot.key)
             new == Stored(made, i, slot)
  <2>1. n \in Actives(old) /\ Old(n + 1) = Old(n) \cup {n} /\ n \notin Old(n)
    BY <1>0, <1>2 DEF Actives
  <2>2. /\ slot.key \in ADDRESSES /\ slot.value \in VALUES
        /\ slot.hash = hfunc[which][slot.key]
    BY <2>1 DEF TableInv, AllPlaced
  <2>3. \A j \in Actives(made) : ~cmp(which, made.table[j].key, slot.key)
    <3>1. ASSUME NEW j \in Actives(made), cmp(which, made.table[j].key, slot.key)
          PROVE  FALSE
      <4>1. PICK l \in Old(n) : made.table[j] = old.table[l]
        BY DEF CopyInv
      <4>2. l = n
        BY <2>1, <3>1, <4>1 DEF TableInv, AllDiffer
      <4> QED BY <2>1, <4>1, <4>2
    <3> QED BY <3>1
  <2>4. /\ IsFiniteSet(Old(n)) /\ IsFiniteSet(Actives(old))
        /\ Cardinality(Old(n)) \in Nat /\ Cardinality(Actives(old)) \in Nat
        /\ Cardinality(Old(n + 1)) = Cardinality(Old(n)) + 1
        /\ Cardinality(Old(n + 1)) <= Cardinality(Actives(old))
    <3>1. IsFiniteSet(0..old.size-1)
      <4> DEFINE N == old.size - 1
      <4>1. N \in Int
        BY <1>0
      <4> HIDE DEF N
      <4>2. IsFiniteSet(0..N)
        BY <4>1, FS_Interval
      <4> QED BY <4>2 DEF N
    <3>2. Actives(old) \subseteq 0..old.size-1 /\ Old(n) \subseteq Actives(old)
          /\ Old(n + 1) \subseteq Actives(old)
      BY DEF Actives
    <3>3. IsFiniteSet(Actives(old)) /\ IsFiniteSet(Old(n))
      BY <3>1, <3>2, FS_Subset
    <3>4. Cardinality(Old(n + 1)) <= Cardinality(Actives(old))
      BY <3>2, <3>3, FS_Subset
    <3>5. Cardinality(Old(n + 1)) = Cardinality(Old(n)) + 1
      <4> HIDE DEF Old
      <4> QED BY <2>1, <3>3, FS_AddElement
    <3> QED BY <3>3, <3>4, <3>5, FS_CardinalityType
  <2>5. TableInv(made, which) /\ made.size = size /\ made.fill = made.count
        /\ made.fill = Cardinality(Old(n)) /\ made.count = Cardinality(Old(n))
    BY DEF CopyInv
  <2>6. made.fill < made.size
    <3>1. size \in Nat /\ old.count = Cardinality(Actives(old))
      BY DEF Sizes, HashAssumption, TableInv
    <3> HIDE DEF Old
    <3> QED BY <2>4, <2>5, <3>1
  <2>7. i \in (0..made.size-1) \ Actives(made) /\ Placed(made, i, slot.hash)
    <3> HIDE DEF i, Old, slot
    <3>1. i # NOSLOT
      BY <2>2, <2>5, <2>6, LookupIs DEF i
    <3>2. \/ i = NOSLOT
          \/ i \in (0..made.size-1) \ Actives(made) /\ Placed(made, i, hfunc[which][slot.key])
      BY <2>2, <2>3, <2>5, LookupIs DEF i
    <3> QED BY <3>1, <3>2, <2>2
  <2>8. made.table[i].mode = "SL_EMPTY"
    <3>1. made.table \in [0..made.size-1 -> SlotTypes]
      BY <2>5, TableSize DEF TableInv
    <3>2. made.table[i] \in SlotTypes /\ made.table[i].mode # "SL_DELETED"
          /\ made.table[i].mode # "SL_ACTIVE"
      <4> HIDE DEF i
      <4> QED BY <2>5, <2>7, <3>1 DEF CopyInv, Actives
    <3> HIDE DEF i
    <3> QED BY <3>2 DEF SlotTypes
  <2>9. CopySlot(made, which, slot) = new
    BY <1>2, <2>8 DEF CopySlot, Copied, Stored
  <2> HIDE DEF i, slot, Old
  <2>10. /\ TableInv(new, which) /\ new.size = made.size /\ new.table[i] = slot
         /\ \A j \in (0..made.size-1) \ {i} : new.table[j] = made.table[j]
         /\ Actives(new) = Actives(made) \cup {i}
    BY <1>0, <1>2, <2>2, <2>3, <2>5, <2>7, StoredKeeps
  <2>11. new.fill = made.fill + 1 /\ new.count = made.count + 1
    <3>1. made \in [size : Nat, fill : Nat, count : Nat, table : [0..made.size-1 -> SlotTypes]]
      BY <2>5 DEF TableInv, TableTyped
    <3> QED BY <2>8, <3>1 DEF Stored
  <2> HIDE DEF new
  <2>12. \A j \in Actives(made) : new.table[j] = made.table[j]
    BY <2>7, <2>10 DEF Actives
  <2>13. \A j \in 0..size-1 : new.table[j].mode # "SL_DELETED"
    BY <1>2, <2>5, <2>10 DEF CopyInv
  <2>14. ASSUME NEW l \in Old(n + 1)
         PROVE  \E j \in Actives(new) : new.table[j] = old.table[l]
    <3>1. CASE l = n
      BY <3>1, <2>10 DEF slot
    <3>2. CASE l \in Old(n)
      <4>1. PICK j \in Actives(made) : made.table[j] = old.table[l]
        BY <3>2 DEF CopyInv, Old
      <4> QED BY <4>1, <2>10, <2>12
    <3> QED BY <2>1, <3>1, <3>2
  <2>15. ASSUME NEW j \in Actives(new)
         PROVE  \E l \in Old(n + 1) : new.table[j] = old.table[l]
    <3>1. CASE j = i
      BY <3>1, <2>1, <2>10 DEF slot
    <3>2. CASE j \in Actives(made)
      <4>1. PICK l \in Old(n) : made.table[j] = old.table[l]
        BY <3>2 DEF CopyInv, Old
      <4> QED BY <3>2, <4>1, <2>1, <2>12
    <3> QED BY <2>10, <3>1, <3>2
  <2>16. CopyInv(new, which, old, size, n + 1)
    <3>1. /\ new.fill = new.count /\ new.count = Cardinality(Old(n + 1))
          /\ TableInv(new, which) /\ new.size = size
      BY <2>4, <2>5, <2>10, <2>11
    <3> QED BY <3>1, <2>13, <2>14, <2>15 DEF CopyInv, Old
  <2> QED BY <2>9, <2>16 DEF slot
<1> QED BY <1>1, <1>2

\* A copy holds what the table does, and has no more slots in use than keys.
LEMMA CopyKeeps ==
  ASSUME HashAssumption, NEW which \in Kinds, NEW old, TableInv(old, which),
         NEW size \in Sizes, old.count <= size
  PROVE  LET new == hash_copy(hash_initialize(size), which, old) IN
         /\ TableInv(new, which) /\ new.size = size /\ new.fill = old.count
         /\ \A k \in ADDRESSES : Held(new, which, k) = Held(old, which, k)
<1> DEFINE N == old.size
           m == hash_initialize(size)
           f == CHOOSE g : Copying(g, m, which, old, N)
           new == hash_copy(m, which, old)
           Ok(n) == CopyInv(f[n], which, old, size, n)
           Bad == {n \in Nat : n <= N /\ ~Ok(n)}
<1>1. N \in Nat
  BY TableSize DEF TableInv
<1> HIDE DEF m, N
<1>2. new = f[N]
  BY DEF hash_copy, Copying, N
<1>3. \E g : Copying(g, m, which, old, N)
  BY <1>1, CopyingExists
<1>4. Copying(f, m, which, old, N)
  BY <1>3, Zenon
<1> HIDE DEF f
<1>5. f[0] = m /\ \A n \in 1..N : f[n] = CopySlot(f[n-1], which, old.table[n-1])
  <2>1. f = [i \in 0..N |-> IF i = 0 THEN m ELSE CopySlot(f[i-1], which, old.table[i-1])]
    BY <1>4 DEF Copying
  <2> QED BY <1>1, <2>1
<1>6. Ok(0)
  <2>1. Actives(old) \cap (0..0-1) = {} /\ Cardinality({}) = 0
    BY FS_EmptySet
  <2>2. /\ TableInv(m, which) /\ m.size = size /\ m.fill = 0 /\ m.count = 0
        /\ Actives(m) = {} /\ \A j \in 0..size-1 : m.table[j].mode = "SL_EMPTY"
    BY NewTable DEF m
  <2> QED BY <1>5, <2>1, <2>2 DEF CopyInv
<1>7. ASSUME NEW n \in 1..N, Ok(n-1) PROVE Ok(n)
  <2>1. n - 1 \in 0..old.size-1 /\ (n - 1) + 1 = n
    BY <1>1 DEF N
  <2>2. CopyInv(CopySlot(f[n-1], which, old.table[n-1]), which, old, size, (n-1) + 1)
    BY <1>7, <2>1, CopySlotKeeps
  <2> QED BY <1>5, <2>1, <2>2
<1>8. Bad \in SUBSET Nat /\ \A n \in Nat : n \in Bad <=> n <= N /\ ~Ok(n)
  OBVIOUS
<1> HIDE DEF Bad, Ok
<1>9. ASSUME Bad # {} PROVE FALSE
  <2>1. PICK n \in Bad : \A i \in Bad : n <= i
    BY <1>8, <1>9, LeastOf
  <2>2. n \in 1..N /\ n - 1 \in Nat /\ n - 1 <= N /\ n - 1 \notin Bad
    BY <1>1, <1>6, <1>8, <2>1
  <2> QED BY <1>7, <1>8, <2>1, <2>2
<1>10. CopyInv(new, which, old, size, N)
  BY <1>1, <1>2, <1>8, <1>9 DEF Ok
<1> HIDE DEF new
<1>11. Actives(old) \cap (0..N-1) = Actives(old)
  BY DEF Actives, N
<1>12. /\ TableInv(new, which) /\ new.size = size /\ new.fill = old.count
       /\ \A i \in Actives(old) : \E j \in Actives(new) : new.table[j] = old.table[i]
       /\ \A j \in Actives(new) : \E i \in Actives(old) : new.table[j] = old.table[i]
  <2> DEFINE A == Actives(old) \cap (0..N-1)
  <2>1. /\ TableInv(new, which) /\ new.size = size /\ new.fill = new.count
        /\ new.count = Cardinality(A)
        /\ \A i \in A : \E j \in Actives(new) : new.table[j] = old.table[i]
        /\ \A j \in Actives(new) : \E i \in A : new.table[j] = old.table[i]
    BY <1>10 DEF CopyInv
  <2> HIDE DEF A
  <2>2. A = Actives(old) /\ old.count = Cardinality(Actives(old))
    BY <1>11 DEF A, TableInv
  <2> QED BY <2>1, <2>2
<1>13. ASSUME NEW k \in ADDRESSES PROVE Held(new, which, k) = Held(old, which, k)
  <2>1. CASE \E i \in Actives(old) : cmp(which, old.table[i].key, k)
    <3>1. PICK i \in Actives(old) : cmp(which, old.table[i].key, k)
      BY <2>1
    <3>2. PICK j \in Actives(new) : new.table[j] = old.table[i]
      BY <1>12
    <3>3. Held(old, which, k) = old.table[i].value
      BY <3>1, HeldIs
    <3>4. Held(new, which, k) = new.table[j].value
      BY <1>12, <3>1, <3>2, HeldIs
    <3> QED BY <3>2, <3>3, <3>4
  <2>2. CASE \A i \in Actives(old) : ~cmp(which, old.table[i].key, k)
    <3>1. \A j \in Actives(new) : ~cmp(which, new.table[j].key, k)
      <4>1. ASSUME NEW j \in Actives(new) PROVE ~cmp(which, new.table[j].key, k)
        <5>1. PICK i \in Actives(old) : new.table[j] = old.table[i]
          BY <1>12
        <5> QED BY <2>2, <5>1
      <4> QED BY <4>1
    <3>2. Held(old, which, k) = NONE
      BY <2>2, HeldIs
    <3>3. Held(new, which, k) = NONE
      BY <1>12, <3>1, HeldIs
    <3> QED BY <3>2, <3>3
  <2> QED BY <2>1, <2>2
<1> QED BY <1>12, <1>13 DEF new, m
-----------------------------------------------------------------------------
(* The operations *)

\* hash_update loses and adds nothing, and leaves room unless it is refused a
\* larger table.
LEMMA UpdateKeeps ==
  ASSUME HashAssumption, kind \in Kinds, refused \in BOOLEAN,
         NEW m, TableInv(m, kind), hash_update(m)
  PROVE  /\ TableInv(map', kind) /\ refused' \in BOOLEAN /\ answer' \in {0, -1}
         /\ refused' \/ map'.fill < map'.size
         /\ \A k \in ADDRESSES : Held(map', kind, k) = Held(m, kind, k)
<1> DEFINE size == NewSize(m)
<1>1. /\ m.size \in Nat \ {0} /\ PowerOfTwo(m.size) /\ m.size <= MAXSIZE
      /\ m.fill \in Nat /\ m.count \in Nat /\ m.size \in Sizes
  BY TableSize DEF TableInv, TableTyped
<1>2. m.count <= m.size
  <2>0. m.size \in Nat /\ m.size >= 1
    BY <1>1
  <2>1. IsFiniteSet(0..m.size-1) /\ Cardinality(0..m.size-1) = m.size
    <3>1. IsFiniteSet(0..m.size-1)
      BY <2>0, FS_Interval
    <3>2. Cardinality(0..m.size-1) = m.size
      BY <2>0, FS_Interval
    <3> QED BY <3>1, <3>2
  <2>2. Actives(m) \subseteq 0..m.size-1
    BY DEF Actives
  <2>3. Cardinality(Actives(m)) <= Cardinality(0..m.size-1)
    BY <2>1, <2>2, FS_Subset
  <2> QED BY <2>1, <2>3 DEF TableInv
<1>3. HASH_MINSIZE \in Nat /\ HASH_MINSIZE >= 1 /\ MAXSIZE \in Nat
  BY DEF HashAssumption, Sizes
<1>4. \/ size = 2 * m.size
      \/ /\ size = m.size \div 2 /\ m.size > 1
         /\ 4 * m.count <= m.size /\ 3 * m.fill < 2 * m.size
      \/ size = m.size /\ 3 * m.fill < 2 * m.size
  BY <1>1, <1>3 DEF NewSize
<1>5. Resized(m, size)
  BY DEF hash_update
<1> HIDE DEF size
<1>6. CASE size = m.size /\ map' = m /\ answer' = 0 /\ UNCHANGED refused
  <2>1. m.fill < m.size
    BY <1>1, <1>4, <1>6
  <2> QED BY <1>6, <2>1
<1>7. CASE /\ size # m.size /\ size <= MAXSIZE
           /\ map' = hash_copy(hash_initialize(size), kind, m)
           /\ answer' = 0 /\ refused' = FALSE
  <2>1. size \in Sizes /\ m.count < size
    <3>1. CASE size = 2 * m.size
      BY <3>1, <1>1, <1>2, <1>7, Doubled DEF Sizes
    <3>2. CASE size # 2 * m.size
      <4>1. size = m.size \div 2 /\ m.size > 1 /\ 4 * m.count <= m.size
        BY <1>4, <1>7, <3>2
      <4>2. size \in Nat /\ size >= 1 /\ m.size = 2 * size /\ PowerOfTwo(size)
        BY <1>1, <4>1, Halved
      <4> QED BY <1>1, <1>7, <4>1, <4>2 DEF Sizes
    <3> QED BY <3>1, <3>2
  <2>2. m.count <= size
    BY <1>1, <2>1, <1>3 DEF Sizes
  <2>3. /\ TableInv(map', kind) /\ map'.size = size /\ map'.fill = m.count
        /\ \A k \in ADDRESSES : Held(map', kind, k) = Held(m, kind, k)
    BY <1>7, <2>1, <2>2, CopyKeeps
  <2> QED BY <1>7, <2>1, <2>3
<1>8. CASE size # m.size /\ map' = m /\ answer' = -1 /\ refused' = (size > m.size)
  <2>1. refused' \in BOOLEAN
    BY <1>8
  <2>2. ASSUME ~refused' PROVE m.fill < m.size
    <3>1. ~(size > m.size)
      BY <1>8, <2>2, Zenon
    <3>2. size # 2 * m.size
      BY <1>1, <3>1
    <3> QED BY <1>1, <1>4, <3>2
  <2> QED BY <1>8, <2>1, <2>2
<1> QED BY <1>5, <1>6, <1>7, <1>8 DEF Resized

\* An operation on a table in use goes on from a slot that a lookup found.
LEMMA LookedUp ==
  ASSUME HashAssumption, HashInv, Usable, NEW k \in ADDRESSES, NEW i \in Slots(k)
  PROVE  /\ kind \in Kinds /\ TableInv(map, kind) /\ (refused \/ map.fill < map.size)
         /\ refused \in BOOLEAN
         /\ i \in 0..map.size-1
         /\ Active(map, i) => i \in Actives(map) /\ cmp(kind, map.table[i].key, k)
         /\ ~Active(map, i) =>
              /\ i \notin Actives(map) /\ Placed(map, i, hfunc[kind][k])
              /\ \A j \in Actives(map) : ~cmp(kind, map.table[j].key, k)
<1>1. /\ kind \in Kinds /\ TableInv(map, kind)
      /\ (refused \/ map.fill < map.size) /\ refused \in BOOLEAN
  BY DEF HashInv, Usable
<1>2. i = hash_lookup(map, kind, k) /\ i # NOSLOT
  BY DEF Slots
<1>3. CASE \E j \in Actives(map) : cmp(kind, map.table[j].key, k)
  <2>1. PICK j \in Actives(map) : cmp(kind, map.table[j].key, k)
    BY <1>3
  <2>2. i = j
    BY <1>1, <1>2, <2>1, LookupIs
  <2>3. i \in 0..map.size-1 /\ Active(map, i)
    BY <1>2, <2>1, <2>2 DEF Actives, Active
  <2> QED BY <1>1, <2>1, <2>2, <2>3
<1>4. CASE \A j \in Actives(map) : ~cmp(kind, map.table[j].key, k)
  <2>1. i \in (0..map.size-1) \ Actives(map) /\ Placed(map, i, hfunc[kind][k])
    BY <1>1, <1>2, <1>4, LookupIs
  <2>2. ~Active(map, i)
    BY <2>1 DEF Actives, Active
  <2> QED BY <1>1, <1>4, <2>1, <2>2
<1> QED BY <1>3, <1>4

LEMMA ContentsNext == contents' = [k \in ADDRESSES |-> Held(map', kind', k)]
  BY DEF contents, Held, Holding

\* What the abstract map does when the table has a new value for a key.
LEMMA WriteIs ==
  ASSUME NEW k \in ADDRESSES, NEW v \in VALUES \cup {NONE}, kind' = kind, kind \in Kinds,
         answer' \in {0, -1},
         \A x \in ADDRESSES : Held(map', kind, x) = IF cmp(kind, x, k) THEN v
                                                    ELSE Held(map, kind, x)
  PROVE  AbstractMap!MapNext
<1>1. \A x \in ADDRESSES : contents[x] = Held(map, kind, x)
  BY ContentsHeld
<1>2. contents' = [x \in ADDRESSES |-> IF cmp(kind, x, k) THEN v ELSE contents[x]]
  BY <1>1, ContentsNext
<1>3. AbstractMap!Write(k, v)
  BY <1>2 DEF AbstractMap!Write
<1>4. kind # "none"
  BY DEF Kinds
<1> QED BY <1>3, <1>4 DEF AbstractMap!MapNext

LEMMA SetStep ==
  ASSUME HashAssumption, HashInv, NEW k \in ADDRESSES, NEW v \in VALUES, HashSet(k, v)
  PROVE  HashInv' /\ AbstractMap!MapNext
<1>1. Usable /\ kind' = kind /\ endless' = endless
  BY DEF HashSet
<1>2. PICK i \in Slots(k) :
        IF Active(map, i)
        THEN /\ map' = [map EXCEPT !.table[i].value = v]
             /\ answer' = 0
             /\ UNCHANGED refused
        ELSE hash_update(Filled(map, i, k, v, hfunc[kind][k]))
  BY DEF HashSet
<1>3. /\ kind \in Kinds /\ TableInv(map, kind) /\ (refused \/ map.fill < map.size)
      /\ refused \in BOOLEAN
      /\ i \in 0..map.size-1
      /\ Active(map, i) => i \in Actives(map) /\ cmp(kind, map.table[i].key, k)
      /\ ~Active(map, i) =>
           /\ i \notin Actives(map) /\ Placed(map, i, hfunc[kind][k])
           /\ \A j \in Actives(map) : ~cmp(kind, map.table[j].key, k)
  BY <1>1, LookedUp
<1>4. ~endless /\ kind # "none" /\ endless \in BOOLEAN
  BY <1>1 DEF Usable, HashInv
<1>5. /\ TableInv(map', kind) /\ (refused' \/ map'.fill < map'.size)
      /\ refused' \in BOOLEAN /\ answer' \in {0, -1}
      /\ \A x \in ADDRESSES : Held(map', kind, x) = IF cmp(kind, x, k) THEN v
                                                    ELSE Held(map, kind, x)
  <2>1. CASE Active(map, i)
    <3> DEFINE n == [map EXCEPT !.table[i].value = v]
    <3>0. i \in Actives(map)
      BY <1>3, <2>1
    <3>1. /\ TableInv(n, kind) /\ n.size = map.size /\ n.fill = map.fill
          /\ \A x \in ADDRESSES :
               Held(n, kind, x) = IF cmp(kind, map.table[i].key, x) THEN v
                                  ELSE Held(map, kind, x)
      BY <1>3, <3>0, UpdatedKeeps, ZenonT(30)
    <3>3. map' = n /\ answer' = 0 /\ refused' = refused
      BY <1>2, <2>1
    <3> HIDE DEF n
    <3>2. ASSUME NEW x \in ADDRESSES PROVE cmp(kind, map.table[i].key, x) <=> cmp(kind, x, k)
      <4>1. map.table[i].key \in ADDRESSES
        BY <1>3, <2>1 DEF TableInv, AllPlaced
      <4>2. cmp(kind, map.table[i].key, x) <=> cmp(kind, k, x)
        BY <1>3, <2>1, <4>1, CmpIs
      <4>3. cmp(kind, k, x) <=> cmp(kind, x, k)
        BY <1>3, CmpIs
      <4> QED BY <4>2, <4>3
    <3> QED BY <1>3, <3>1, <3>2, <3>3
  <2>2. CASE ~Active(map, i)
    <3> DEFINE slot == [key |-> k, value |-> v, hash |-> hfunc[kind][k], mode |-> "SL_ACTIVE"]
               m == Stored(map, i, slot)
    <3>1. Filled(map, i, k, v, hfunc[kind][k]) = m
      BY DEF Filled, Stored
    <3>2. /\ slot \in SlotTypes /\ slot.mode = "SL_ACTIVE" /\ slot.key = k
          /\ slot.value = v /\ slot.hash = hfunc[kind][k]
      <4>1. hfunc[kind][k] \in Nat
        BY <1>3 DEF HashAssumption
      <4> QED BY <4>1 DEF SlotTypes
    <3> HIDE DEF slot
    <3>3. /\ TableInv(m, kind)
          /\ \A x \in ADDRESSES :
               Held(m, kind, x) = IF cmp(kind, slot.key, x) THEN slot.value
                                  ELSE Held(map, kind, x)
      BY <1>3, <2>2, <3>2, StoredKeeps
    <3> HIDE DEF m
    <3>4. hash_update(m)
      BY <1>2, <2>2, <3>1
    <3>5. /\ TableInv(map', kind) /\ refused' \in BOOLEAN /\ answer' \in {0, -1}
          /\ refused' \/ map'.fill < map'.size
          /\ \A x \in ADDRESSES : Held(map', kind, x) = Held(m, kind, x)
      BY <1>3, <3>3, <3>4, UpdateKeeps
    <3>6. ASSUME NEW x \in ADDRESSES PROVE cmp(kind, k, x) <=> cmp(kind, x, k)
      BY <1>3, CmpIs
    <3> QED BY <3>2, <3>3, <3>5, <3>6
  <2> QED BY <2>1, <2>2
<1>6. HashInv'
  BY <1>1, <1>3, <1>4, <1>5 DEF HashInv
<1>7. AbstractMap!MapNext
  BY <1>1, <1>3, <1>5, WriteIs
<1> QED BY <1>6, <1>7

LEMMA DelStep ==
  ASSUME HashAssumption, HashInv, NEW k \in ADDRESSES, HashDel(k)
  PROVE  HashInv' /\ AbstractMap!MapNext
<1>1. Usable /\ kind' = kind /\ endless' = endless
  BY DEF HashDel
<1>2. PICK i \in Slots(k) :
        IF Active(map, i) THEN hash_update(Deleted(map, i))
        ELSE answer' = 0 /\ UNCHANGED <<map, refused>>
  BY DEF HashDel
<1>3. /\ kind \in Kinds /\ TableInv(map, kind) /\ (refused \/ map.fill < map.size)
      /\ refused \in BOOLEAN
      /\ Active(map, i) => i \in Actives(map) /\ cmp(kind, map.table[i].key, k)
      /\ ~Active(map, i) => \A j \in Actives(map) : ~cmp(kind, map.table[j].key, k)
  BY <1>1, LookedUp
<1>4. ~endless /\ kind # "none" /\ endless \in BOOLEAN
  BY <1>1 DEF Usable, HashInv
<1>5. /\ TableInv(map', kind) /\ (refused' \/ map'.fill < map'.size)
      /\ refused' \in BOOLEAN /\ answer' \in {0, -1}
      /\ \A x \in ADDRESSES : Held(map', kind, x) = IF cmp(kind, x, k) THEN NONE
                                                    ELSE Held(map, kind, x)
  <2>1. CASE Active(map, i)
    <3> DEFINE m == Deleted(map, i)
    <3>1. /\ TableInv(m, kind)
          /\ \A x \in ADDRESSES :
               Held(m, kind, x) = IF cmp(kind, map.table[i].key, x) THEN NONE
                                  ELSE Held(map, kind, x)
      BY <1>3, <2>1, DeletedKeeps
    <3>2. hash_update(m)
      BY <1>2, <2>1
    <3> HIDE DEF m
    <3>3. /\ TableInv(map', kind) /\ refused' \in BOOLEAN /\ answer' \in {0, -1}
          /\ refused' \/ map'.fill < map'.size
          /\ \A x \in ADDRESSES : Held(map', kind, x) = Held(m, kind, x)
      BY <1>3, <3>1, <3>2, UpdateKeeps
    <3>4. ASSUME NEW x \in ADDRESSES PROVE cmp(kind, map.table[i].key, x) <=> cmp(kind, x, k)
      <4>1. map.table[i].key \in ADDRESSES
        BY <1>3, <2>1 DEF TableInv, AllPlaced
      <4>2. cmp(kind, map.table[i].key, x) <=> cmp(kind, k, x)
        BY <1>3, <2>1, <4>1, CmpIs
      <4>3. cmp(kind, k, x) <=> cmp(kind, x, k)
        BY <1>3, CmpIs
      <4> QED BY <4>2, <4>3
    <3> QED BY <3>1, <3>3, <3>4
  <2>2. CASE ~Active(map, i)
    <3>1. ASSUME NEW x \in ADDRESSES, cmp(kind, x, k) PROVE Held(map, kind, x) = NONE
      <4>1. ASSUME NEW j \in Actives(map), cmp(kind, map.table[j].key, x) PROVE FALSE
        <5>1. map.table[j].key \in ADDRESSES
          BY <1>3 DEF TableInv, AllPlaced
        <5>2. cmp(kind, map.table[j].key, k)
          BY <1>3, <3>1, <4>1, <5>1, CmpIs
        <5> QED BY <1>3, <2>2, <5>2
      <4> QED BY <1>3, <4>1, HeldIs
    <3> QED BY <1>2, <1>3, <2>2, <3>1
  <2> QED BY <2>1, <2>2
<1>6. HashInv'
  BY <1>1, <1>3, <1>4, <1>5 DEF HashInv
<1>7. AbstractMap!MapNext
  BY <1>1, <1>3, <1>5, WriteIs
<1> QED BY <1>6, <1>7

LEMMA GetStep ==
  ASSUME HashAssumption, HashInv, NEW k \in ADDRESSES, HashGet(k) \/ HashIsset(k)
  PROVE  HashInv' /\ AbstractMap!MapNext
<1>1. Usable /\ map' = map /\ kind' = kind /\ endless' = endless /\ refused' = refused
  BY DEF HashGet, HashIsset
<1>2. PICK i \in Slots(k) :
        \/ answer' = IF Active(map, i) THEN map.table[i].value ELSE NONE
        \/ answer' = IF Active(map, i) THEN 1 ELSE 0
  BY DEF HashGet, HashIsset
<1>3. HashInv'
  BY <1>1 DEF HashInv
<1>4. contents' = contents
  BY <1>1 DEF contents
<1>5. kind # "none"
  BY <1>1 DEF Usable
<1>6. /\ kind \in Kinds /\ TableInv(map, kind)
      /\ Active(map, i) => i \in Actives(map) /\ cmp(kind, map.table[i].key, k)
      /\ ~Active(map, i) => \A j \in Actives(map) : ~cmp(kind, map.table[j].key, k)
  BY <1>1, LookedUp
<1>7. contents[k] = IF Active(map, i) THEN map.table[i].value ELSE NONE
  BY <1>6, ContentsHeld, HeldIs
<1>8. contents[k] = NONE <=> ~Active(map, i)
  BY <1>6, ContentsHeld, HeldIs
<1>9. answer' = contents[k] \/ answer' = IF contents[k] = NONE THEN 0 ELSE 1
  BY <1>2, <1>7, <1>8
<1>10. AbstractMap!Get(k) \/ AbstractMap!Isset(k)
  BY <1>1, <1>4, <1>9 DEF AbstractMap!Get, AbstractMap!Isset
<1> QED BY <1>3, <1>5, <1>10 DEF AbstractMap!MapNext

LEMMA HashInitStep ==
  ASSUME HashAssumption, HashInv, NEW which \in Kinds, HashInit(which)
  PROVE  HashInv' /\ AbstractMap!MapNext
<1>1. /\ kind = "none" /\ map' = hash_initialize(HASH_MINSIZE) /\ kind' = which
      /\ answer' = 0 /\ refused' = FALSE /\ endless' = endless
  BY DEF HashInit
<1>2. HASH_MINSIZE \in Sizes /\ HASH_MINSIZE \in Nat /\ HASH_MINSIZE >= 1
  BY DEF HashAssumption, Sizes
<1>3. /\ TableInv(map', which) /\ map'.size = HASH_MINSIZE /\ map'.fill = 0
      /\ \A k \in ADDRESSES : Held(map', which, k) = NONE
  BY <1>1, <1>2, NewTable
<1>4. map'.fill < map'.size
  BY <1>2, <1>3
<1>5. HashInv'
  BY <1>1, <1>3, <1>4 DEF HashInv, Kinds
<1>6. contents' = AbstractMap!Empty
  BY <1>1, <1>3, ContentsNext DEF AbstractMap!Empty
<1>7. AbstractMap!Create
  BY <1>1, <1>6 DEF AbstractMap!Create, Kinds
<1> QED BY <1>1, <1>5, <1>7 DEF AbstractMap!MapNext

LEMMA NothingHeld ==
  /\ map = Destroyed => contents = AbstractMap!Empty
  /\ map' = Destroyed => contents' = AbstractMap!Empty
<1>1. \A k \in ADDRESSES : \A which : Held(Destroyed, which, k) = NONE
  BY DEF Held, Holding, Destroyed
<1>2. map = Destroyed => contents = AbstractMap!Empty
  BY <1>1, ContentsHeld DEF AbstractMap!Empty
<1>3. map' = Destroyed => contents' = AbstractMap!Empty
  BY <1>1, ContentsNext DEF AbstractMap!Empty
<1> QED BY <1>2, <1>3

LEMMA HashDestroyStep ==
  ASSUME HashInv, HashDestroy
  PROVE  HashInv' /\ AbstractMap!MapNext
<1>1. /\ kind # "none" /\ ~endless /\ map' = Destroyed /\ kind' = "none" /\ answer' = 0
      /\ refused' = FALSE /\ endless' = endless
  BY DEF HashDestroy, Usable
<1>2. HashInv'
  BY <1>1 DEF HashInv
<1>3. AbstractMap!Destroy
  BY <1>1, NothingHeld DEF AbstractMap!Destroy
<1> QED BY <1>1, <1>2, <1>3 DEF AbstractMap!MapNext

\* A lookup that never ends is of a table that has no empty slot.
LEMMA EndlessStep ==
  ASSUME HashAssumption, HashInv, NEW k \in ADDRESSES, Endless(k)
  PROVE  HashInv' /\ UNCHANGED <<kind, contents, answer>>
<1>1. /\ Usable /\ Slots(k) = {} /\ endless' = TRUE
      /\ map' = map /\ kind' = kind /\ answer' = answer /\ refused' = refused
  BY DEF Endless
<1>2. hash_lookup(map, kind, k) = NOSLOT
  BY <1>1 DEF Slots
<1>3. kind \in Kinds /\ TableInv(map, kind) /\ (refused \/ map.fill < map.size)
  BY <1>1 DEF HashInv, Usable
<1>4. refused
  BY <1>2, <1>3, LookupIs
<1>5. HashInv'
  BY <1>1, <1>3, <1>4 DEF HashInv, Kinds
<1>6. contents' = contents
  BY <1>1 DEF contents
<1> QED BY <1>1, <1>5, <1>6

LEMMA TableInitInv ==
  ASSUME TableInit
  PROVE  HashInv /\ AbstractMap!MapInit
<1>1. HashInv
  BY DEF TableInit, HashInv
<1>2. AbstractMap!MapInit
  BY NothingHeld DEF TableInit, AbstractMap!MapInit
<1> QED BY <1>1, <1>2

LEMMA TableStep ==
  ASSUME HashAssumption, HashInv, [TableNext]_hashvars
  PROVE  HashInv' /\ [AbstractMap!MapNext]_<<kind, contents, answer>>
<1>1. CASE UNCHANGED hashvars
  <2>1. UNCHANGED <<map, kind, answer, endless, refused>>
    BY <1>1 DEF hashvars
  <2>2. HashInv'
    BY <2>1 DEF HashInv
  <2>3. UNCHANGED <<kind, contents, answer>>
    BY <2>1 DEF contents
  <2> QED BY <2>2, <2>3
<1>2. CASE HashInitFails
  <2>1. UNCHANGED <<map, kind, endless, refused>> /\ kind = "none" /\ answer' = -1
    BY <1>2 DEF HashInitFails
  <2>2. HashInv'
    BY <2>1 DEF HashInv
  <2>3. AbstractMap!CannotCreate
    BY <2>1 DEF contents, AbstractMap!CannotCreate
  <2> QED BY <2>1, <2>2, <2>3 DEF AbstractMap!MapNext
<1>3. ASSUME NEW which \in Kinds, HashInit(which)
      PROVE  HashInv' /\ AbstractMap!MapNext
  BY <1>3, HashInitStep
<1>4. CASE HashDestroy
  BY <1>4, HashDestroyStep
<1>5. ASSUME NEW k \in ADDRESSES, NEW v \in VALUES, HashSet(k, v)
      PROVE  HashInv' /\ AbstractMap!MapNext
  BY <1>5, SetStep
<1>6. ASSUME NEW k \in ADDRESSES, HashDel(k)
      PROVE  HashInv' /\ AbstractMap!MapNext
  BY <1>6, DelStep
<1>7. ASSUME NEW k \in ADDRESSES, HashGet(k) \/ HashIsset(k)
      PROVE  HashInv' /\ AbstractMap!MapNext
  BY <1>7, GetStep
<1>8. ASSUME NEW k \in ADDRESSES, Endless(k)
      PROVE  HashInv' /\ UNCHANGED <<kind, contents, answer>>
  BY <1>8, EndlessStep
<1> QED BY <1>1, <1>2, <1>3, <1>4, <1>5, <1>6, <1>7, <1>8 DEF TableNext
-----------------------------------------------------------------------------
(* Theorems *)

\* Whatever the operations and the resizes that fail, the table is as hash.c
\* needs it: the active slots hold different keys, each where the probe
\* sequence of its hash finds it, and an empty slot is left unless a larger
\* table has been refused.
THEOREM TableKept ==
  TableSpec => []HashInv
<1>1. TableInit => HashInv
  BY TableInitInv
<1>2. HashInv /\ [TableNext]_hashvars => HashInv'
  BY HashAssumption, TableStep
<1> QED BY <1>1, <1>2, PTL DEF TableSpec

\* fill and count are the numbers of slots that are in use and that are active
\* in every reachable table, of any size and with any hash function.
THEOREM HashCounted ==
  TableSpec => []Counted
<1>1. ASSUME HashInv PROVE Counted
  <2>1. SUFFICES ASSUME kind # "none"
                 PROVE  /\ map.fill = Cardinality({i \in DOMAIN map.table :
                                                      map.table[i].mode # "SL_EMPTY"})
                        /\ map.count = Cardinality({i \in DOMAIN map.table : Active(map, i)})
    BY DEF Counted
  <2>2. TableInv(map, kind)
    BY <1>1, <2>1 DEF HashInv
  <2>3. DOMAIN map.table = 0..map.size-1 /\ map.size \in Nat
    BY <2>2, HashAssumption, TableSize DEF TableInv
  <2>4. {i \in DOMAIN map.table : map.table[i].mode # "SL_EMPTY"} = UsedSlots(map)
    BY <2>3 DEF UsedSlots
  <2>5. {i \in DOMAIN map.table : Active(map, i)} = Actives(map)
    BY <2>3 DEF Actives, Active, NOSLOT
  <2> QED BY <2>2, <2>4, <2>5 DEF TableInv
<1> QED BY <1>1, TableKept, PTL

\* However the keys collide, a lookup ends unless the last attempt to make the
\* table larger has failed: a probe sequence comes to every slot of a table
\* whose size is a power of two, and hash_update keeps one slot empty.
THEOREM LookupsEnd ==
  TableSpec => []EndsUnlessRefused
<1>1. HashInv => EndsUnlessRefused
  BY DEF HashInv, EndsUnlessRefused
<1> QED BY <1>1, TableKept, PTL

\* The table of hash.c implements a map from keys to values: every operation
\* does to the contents of the table what it does to the map, and a resize,
\* a collision and a reused slot change nothing in it.
THEOREM MapImplemented ==
  TableSpec => ImplementsMap
<1>1. TableInit => AbstractMap!MapInit
  BY TableInitInv
<1>2. HashInv /\ [TableNext]_hashvars => [AbstractMap!MapNext]_<<kind, contents, answer>>
  BY HashAssumption, TableStep
<1> QED BY <1>1, <1>2, TableKept, PTL DEF TableSpec, ImplementsMap, AbstractMap!MapBehaviour
=============================================================================
