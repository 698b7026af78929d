----------------------------- MODULE StringLib -----------------------------
(***************************************************************************)
(* shared/string.c, strtol.c, strtoul.c and div64.c.  An array of bytes is *)
(* a sequence, a string is its characters without the final zero, and a    *)
(* pointer into either is a position in it, 0 for a null pointer.          *)
(***************************************************************************)
EXTENDS Integers, Sequences, FiniteSets, SequencesExt

CONSTANT WORD   \* the number of values of an unsigned int, 2^32 in the code

ASSUME WordAssumption == WORD \in {2^i : i \in 2..15}

Lowest(S) == CHOOSE n \in S : \A m \in S : n <= m
Highest(S) == CHOOSE n \in S : \A m \in S : n >= m
LowestOr(S, default) == IF S = {} THEN default ELSE Lowest(S)
AtMost(a, b) == IF a < b THEN a ELSE b

\* The character at a position of a string, its final zero included.
CharAt(s, i) == IF i \in DOMAIN s THEN s[i] ELSE 0

-----------------------------------------------------------------------------
(* Memory *)

\* Bytes are copied in the order given: what has been written is read again
\* when the areas overlap.
CopiedInOrder(mem, dst, src, order) ==
  FoldLeft(LAMBDA m, i : [m EXCEPT ![dst + i] = m[src + i]], mem, order)

Upwards(n) == [i \in 1..n |-> i - 1]
Downwards(n) == [i \in 1..n |-> n - i]

memcpy(mem, dst, src, n) == CopiedInOrder(mem, dst, src, Upwards(n))

\* The copy downwards leaves the direction flag of the processor set.  The flag
\* is no part of these functions: those of string.c that depend on it begin by
\* clearing it (cld, lines 108, 136 and 172).
memmove(mem, dst, src, n) ==
  CopiedInOrder(mem, dst, src, IF dst < src THEN Upwards(n) ELSE Downwards(n))

memset(mem, dst, c, n) ==
  [i \in DOMAIN mem |-> IF i \in dst .. dst+n-1 THEN c ELSE mem[i]]

memchr(s, c, n) == LowestOr({i \in 1..n : s[i] = c}, 0)

memrchr(s, c, n) == LET at == {i \in 1..n : s[i] = c} IN
                    IF at = {} THEN 0 ELSE Highest(at)

memccpy(dst, src, c, n) ==
  LET end == memchr(src, c, n)
      copied == IF end = 0 THEN n ELSE end
  IN  [dst |-> SubSeq(src, 1, copied) \o SubSeq(dst, copied + 1, Len(dst)),
       ret |-> IF end = 0 THEN 0 ELSE end + 1]

memcmp(s1, s2, n) ==
  LET diff == {i \in 1..n : s1[i] # s2[i]} IN
  IF diff = {} THEN 0 ELSE s1[Lowest(diff)] - s2[Lowest(diff)]

memswap(m1, m2, n) ==
  <<SubSeq(m2, 1, n) \o SubSeq(m1, n + 1, Len(m1)),
    SubSeq(m1, 1, n) \o SubSeq(m2, n + 1, Len(m2))>>

SkipSwapped(x) == IF x[1] = x[2] THEN [miss |-> 1, hit |-> 2]
                  ELSE [miss |-> 2, hit |-> 1]

\* The search moves by two where the second character of the needle shows
\* that the next position cannot match either.
Skip(x) == IF x[1] = x[2] THEN [miss |-> 2, hit |-> 1]
           ELSE [miss |-> 1, hit |-> 2]

RECURSIVE MemmemFrom(_, _, _)
MemmemFrom(y, x, j) ==   \* j as in the code, from 0
  IF j > Len(y) - Len(x) THEN 0
  ELSE IF x[2] # y[j+2] THEN MemmemFrom(y, x, j + Skip(x).miss)
  ELSE IF SubSeq(y, j + 1, j + Len(x)) = x THEN j + 1
  ELSE MemmemFrom(y, x, j + Skip(x).hit)

memmem(y, x) ==
  IF Len(x) > Len(y) \/ x = << >> \/ y = << >> THEN 0
  ELSE IF Len(x) = 1 THEN memchr(y, x[1], Len(y))
  ELSE MemmemFrom(y, x, 0)

-----------------------------------------------------------------------------
(* Strings *)

strlen(s) == Len(s)
strnlen(s, maxlen) == AtMost(Len(s), maxlen)

strchr(s, c) ==
  IF c = 0 THEN Len(s) + 1 ELSE LowestOr({i \in DOMAIN s : s[i] = c}, 0)

\* The final zero is not looked at: there is no last zero.
strrchr(s, c) == LET at == {i \in DOMAIN s : s[i] = c} IN
                 IF at = {} THEN 0 ELSE Highest(at)

strncmp(s1, s2, n) ==
  LET diff == {i \in 1..AtMost(n, Len(s1) + 1) : CharAt(s1, i) # CharAt(s2, i)}
  IN  IF diff = {} THEN 0
      ELSE CharAt(s1, Lowest(diff)) - CharAt(s2, Lowest(diff))

strcmp(s1, s2) == strncmp(s1, s2, Len(s1) + 1)

\* Into a buffer of bytes: the string and its zero over what was there.
Written(dst, at, s) ==
  [i \in DOMAIN dst |-> IF i \in at .. at+Len(s)-1 THEN s[i-at+1]
                        ELSE IF i = at + Len(s) THEN 0 ELSE dst[i]]

StringIn(dst) == SubSeq(dst, 1, Lowest({i \in DOMAIN dst : dst[i] = 0}) - 1)

strcpy(dst, src) == Written(dst, 1, src)

strcat(dst, src) == Written(dst, Len(StringIn(dst)) + 1, src)

strncat(dst, src, n) == strcat(dst, SubSeq(src, 1, AtMost(n, Len(src))))

strncpy(dst, src, n) ==
  [i \in DOMAIN dst |-> IF i <= n THEN CharAt(src, i) ELSE dst[i]]

\* At most size - 1 characters, and the length that would have been needed.
strlcat(dst, src, size) ==
  LET old == LowestOr({i \in 1..size : dst[i] = 0}, size + 1) - 1
      room == size - 1 - old
  IN  IF old = size THEN [dst |-> dst, ret |-> size + Len(src)]
      ELSE [dst |-> Written(dst, old + 1, SubSeq(src, 1, AtMost(room, Len(src)))),
            ret |-> old + Len(src)]

\* The length of the start of s whose characters are in map, or are not.
strxspn(s, map, parity) ==
  LowestOr({i \in DOMAIN s : (s[i] \in Range(map)) = (parity = 1)}, Len(s) + 1) - 1

strspn(s, accept) == strxspn(s, accept, 0)
strcspn(s, reject) == strxspn(s, reject, 1)

strpbrk(s, accept) ==
  LET n == strxspn(s, accept, 1) IN IF n = Len(s) THEN 0 ELSE n + 1

NULLS == <<0>>   \* a null pointer to characters

\* The next field and what is left, NULLS when nothing is.
strsep(s, delim) ==
  LET e == strpbrk(s, delim) IN
  IF s = NULLS THEN [field |-> NULLS, left |-> NULLS]
  ELSE IF e = 0 THEN [field |-> s, left |-> NULLS]
  ELSE [field |-> SubSeq(s, 1, e - 1), left |-> SubSeq(s, e + 1, Len(s))]

strstr(haystack, needle) == memmem(haystack, needle)

\* The fields a caller of strtok gets, with its static pointer, until NULL.
RECURSIVE Fields(_, _)
Fields(holder, delim) ==
  LET next == strsep(holder, delim) IN
  IF next.field = NULLS THEN << >>
  ELSE <<next.field>> \o Fields(next.left, delim)

strtok(s, delim) == Fields(s, delim)

-----------------------------------------------------------------------------
(* Numbers in strings *)

isspace(c) == c \in {32, 12, 10, 13, 9, 11}

\* The value of a character as a digit, larger than any base for the others.
DigitValue(c) ==
  CASE c \in 48..57  -> c - 48
    [] c \in 97..122 -> c - 97 + 10
    [] c \in 65..90  -> c - 65 + 10
    [] OTHER         -> 36

SkipSpace(s) == LowestOr({i \in DOMAIN s : ~isspace(s[i])}, Len(s) + 1)

HexPrefix(s, i) == CharAt(s, i) = 48 /\ CharAt(s, i + 1) \in {120, 88}

\* The digits from a position on: their value and where they end.
Value(digits, radix) ==
  FoldLeft(LAMBDA v, c : (v * radix + DigitValue(c)) % WORD, 0, digits)

DigitsEnd(s, start, radix) ==
  LowestOr({j \in start..Len(s) : DigitValue(s[j]) >= radix}, Len(s) + 1)

Read(s, start, radix) ==
  [value |-> Value(SubSeq(s, start, DigitsEnd(s, start, radix) - 1), radix),
   end |-> DigitsEnd(s, start, radix)]

Converted(s, i, base) ==
  IF base \in {0, 16} /\ HexPrefix(s, i) THEN Read(s, i + 2, 16)
  ELSE Read(s, i, IF base # 0 THEN base ELSE IF CharAt(s, i) = 48 THEN 8 ELSE 10)

strtoul(s, base) == Converted(s, SkipSpace(s), base)

\* A word as a long.
Signed(u) == IF u >= WORD \div 2 THEN u - WORD ELSE u

\* A '-' is passed over, a '+' is not: the conversion stops at it.
strtol(s, base) ==
  LET i == SkipSpace(s)
      negative == CharAt(s, i) = 45
      read == Converted(s, IF negative THEN i + 1 ELSE i, base)
  IN  [read EXCEPT !.value = Signed(IF negative THEN (WORD - @) % WORD ELSE @)]

-----------------------------------------------------------------------------
(* Division of double words *)

Fault == [q |-> -1, r |-> -1]   \* the divide error of the processor

\* divl: a double word by a word, faulting when the quotient is not a word.
div64_32(x, y) == IF y = 0 \/ x \div y >= WORD THEN Fault
                  ELSE [q |-> x \div y, r |-> x % y]

hard_bsr(n) == Highest({i \in 0..15 : 2^i <= n})

EstimateExact(x, y) ==
  LET l == hard_bsr(y \div WORD) + 1 IN
  div64_32(x \div 2^l, (y \div 2^l) % WORD)

\* x and y are shifted until y fits a word, whose successor is also a word.
Estimate(x, y) ==
  LET l == hard_bsr(y \div WORD) + 1 IN
  div64_32(x \div 2^l, (((y \div 2^l) % WORD) + 1) % WORD)

\* The quotient by y + 1 is never too large, and is raised while y is left.
RECURSIVE Raised(_, _, _)
Raised(x, y, q) ==
  LET r == (x - y * q) % (WORD * WORD) IN
  IF r >= y THEN Raised(x, y, q + 1) ELSE [q |-> q, r |-> r]

do_div64(x, y) ==
  LET x1 == x \div WORD
      x0 == x % WORD
      high == div64_32(x1, y)
      low == div64_32(high.r * WORD + x0, y)
  IN  CASE y >= WORD ->
             IF Estimate(x, y) = Fault THEN Fault
             ELSE Raised(x, y, Estimate(x, y).q)
        [] y < WORD /\ x1 < y -> div64_32(x, y)
        [] 0 < y /\ y <= x1 /\ y < WORD -> [q |-> high.q * WORD + low.q, r |-> low.r]
        [] y = 0 -> [q |-> 0, r |-> x]
=============================================================================
