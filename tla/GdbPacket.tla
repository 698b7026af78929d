----------------------------- MODULE GdbPacket -----------------------------
(***************************************************************************)
(* The packet layer of kernel/gdb_serial.c: what getpacket makes of the    *)
(* bytes of the serial line, and the bytes putfrags sends for a reply.     *)
(* Bytes and characters are their codes.                                   *)
(***************************************************************************)
EXTENDS Integers, Sequences, FiniteSets, SequencesExt

CONSTANTS BUFMAX,   \* characters in a packet, 400 in the code
          RUNMAX    \* characters a run stands for at most, 98 in the code

ASSUME PacketAssumption ==
  /\ BUFMAX \in Nat /\ BUFMAX >= 3
  /\ RUNMAX \in 4..98 /\ RUNMAX % 2 = 0

Dollar == 36
Sharp == 35
Star == 42
Plus == 43
Minus == 45
Colon == 58
Escape == 125

Sum(s) == FoldLeft(+, 0, s)
Least(S) == CHOOSE n \in S : \A m \in S : n <= m

hexchars == <<48, 49, 50, 51, 52, 53, 54, 55, 56, 57, 97, 98, 99, 100, 101, 102>>

hex(ch) ==
  CASE ch \in 48..57  -> ch - 48
    [] ch \in 97..102 -> ch - 97 + 10
    [] ch \in 65..70  -> ch - 65 + 10
    [] OTHER          -> -1

\* Two digits, -1 when one is not a digit: what hex2bin computes of a pair.
HexPair(h, l) == IF h < 0 \/ l < 0 THEN -1 ELSE 16 * h + l

\* hex2bin stops at the first pair that is not one, having written those before.
hex2bin(in, len) ==
  LET pair(i) == IF 2 * i > Len(in) THEN -1
                 ELSE HexPair(hex(in[2*i - 1]), hex(in[2*i]))
      bad == {i \in 1..len : pair(i) < 0}
      n == IF bad = {} THEN len ELSE Least(bad) - 1
  IN  [ok |-> bad = {}, out |-> [i \in 1..n |-> pair(i)]]

-----------------------------------------------------------------------------
(* Receiving *)

\* A packet starts at a '$', whatever its parity bit, and ends at a '#' that
\* does not follow '}', or when the buffer is full.
Starts(bytes) == {i \in DOMAIN bytes : bytes[i] % 128 = Dollar}

Ends(bytes, s) ==
  {e \in s+1..Len(bytes) :
     bytes[e] = Sharp /\ (e = s + 1 \/ bytes[e-1] # Escape)}

Stored(buffer, body) ==
  [i \in DOMAIN buffer |->
     IF i <= Len(body) THEN body[i]
     ELSE IF i = Len(body) + 1 THEN 0 ELSE buffer[i]]

CString(buffer) == SubSeq(buffer, 1, Least({i \in DOMAIN buffer : buffer[i] = 0}) - 1)

\* A third character ':' makes the first two a sequence identifier, which is
\* sent back.  A packet shorter than that is tested on what the buffer held.
Sequenced(buffer) == buffer[3] = Colon

WithoutId(buffer) ==
  LET n == Len(CString(buffer)) IN
  [i \in DOMAIN buffer |-> IF i + 2 <= n THEN buffer[i+3] ELSE buffer[i]]

\* One turn of the loop of getpacket: whether it takes the packet, what it
\* sends, its buffer, and how many bytes it has used.
Outcome(got, sent, buffer, used) ==
  [got |-> got, sent |-> sent, buffer |-> buffer, used |-> used]

JudgedLow(bytes, body, stored, e) ==
  IF Sum(body) % 16 # hex(bytes[e+2]) THEN Outcome(FALSE, <<Minus>>, stored, e + 2)
  ELSE Outcome(TRUE, <<Plus>>, stored, e + 2)

\* The packet has ended, at position e, and two digits follow.
Judged(bytes, body, stored, e) ==
  LET xmitcsum == (16 * hex(bytes[e+1]) + hex(bytes[e+2])) % 256 IN
  IF Sum(body) % 256 # xmitcsum THEN Outcome(FALSE, <<Minus>>, stored, e + 2)
  ELSE IF Sequenced(stored)
  THEN Outcome(TRUE, <<Plus, stored[1], stored[2]>>, WithoutId(stored), e + 2)
  ELSE Outcome(TRUE, <<Plus>>, stored, e + 2)

\* The buffer is full: the sum is compared with the first value of xmitcsum,
\* without an answer.
Overlong(body, stored, e) == Outcome(Sum(body) % 256 = 255, << >>, stored, e)

\* It waits, and takes nothing, when the bytes do not hold a whole packet.
ReceivedOnce(bytes, buffer) ==
  LET s == Least(Starts(bytes))
      full == s + BUFMAX
      ends == {e \in Ends(bytes, s) : e <= full}
      e == IF ends = {} THEN full ELSE Least(ends)
      body == SubSeq(bytes, s + 1, IF ends = {} THEN full ELSE e - 1)
      stored == Stored(buffer, body)
      waits == Outcome(FALSE, << >>, buffer, Len(bytes))
  IN  IF Starts(bytes) = {} \/ e > Len(bytes) THEN waits
      ELSE IF bytes[e] # Sharp THEN Overlong(body, stored, e)
      ELSE IF e + 2 > Len(bytes) THEN waits
      ELSE Judged(bytes, body, stored, e)

RECURSIVE getpacket(_, _)
getpacket(bytes, buffer) ==
  LET once == ReceivedOnce(bytes, buffer)
      again == getpacket(SubSeq(bytes, once.used + 1, Len(bytes)), once.buffer)
  IN  IF once.got \/ once.used = Len(bytes) THEN once
      ELSE Outcome(again.got, once.sent \o again.sent, again.buffer,
                   once.used + again.used)

-----------------------------------------------------------------------------
(* Sending.  A fragment is its bytes, how many of them to send, and whether  *)
(* they are sent as hexadecimal digits.                                    *)

\* No length means a string, which ends at its zero.
Fragment(data, len, hexify) ==
  [data |-> IF len = 0 THEN CString(data) ELSE SubSeq(data, 1, len),
   hexify |-> hexify]

Digits(b) == <<hexchars[(b \div 16) + 1], hexchars[(b % 16) + 1]>>

Length(n) == 29 + n - 1   \* the character that stands for n characters

\* The first position after i whose byte differs, within the limit of a run.
RunEnd(f, i) ==
  LET limit == i + (IF f.hexify THEN RUNMAX \div 2 ELSE RUNMAX)
      stops == {q \in i+1..Len(f.data) : f.data[q] # f.data[i]}
               \cup {limit, Len(f.data) + 1}
  IN  Least(stops)

\* A run is worth encoding when it gives four characters or more.
RunStarts(f, i) ==
  IF f.hexify
  THEN /\ RunEnd(f, i) >= i + 2
       /\ f.data[i] \div 16 = f.data[i] % 16
  ELSE RunEnd(f, i) >= i + 4

EncodedRun(f, i) ==
  LET n == RunEnd(f, i) - i IN
  IF f.hexify THEN <<hexchars[(f.data[i] % 16) + 1], Star, Length(2 * n)>>
  ELSE <<f.data[i], Star, Length(n)>>

RECURSIVE Encoded(_, _)
Encoded(f, i) ==
  IF i > Len(f.data) THEN << >>
  ELSE IF RunStarts(f, i) THEN EncodedRun(f, i) \o Encoded(f, RunEnd(f, i))
  ELSE (IF f.hexify THEN Digits(f.data[i]) ELSE <<f.data[i]>>) \o Encoded(f, i + 1)

Wrapped(body) == <<Dollar>> \o body \o <<Sharp>> \o Digits(Sum(body) % 256)

putfrags(frags) ==
  Wrapped(FoldLeft(LAMBDA sent, f : sent \o Encoded(f, 1), << >>, frags))

-----------------------------------------------------------------------------
(* The reference: how a reader of the protocol undoes a run *)

RECURSIVE Expanded(_)
Expanded(s) ==
  IF Len(s) < 3 THEN s
  ELSE IF s[2] = Star
  THEN [i \in 1..(s[3] - 28) |-> s[1]] \o Expanded(SubSeq(s, 4, Len(s)))
  ELSE <<s[1]>> \o Expanded(Tail(s))

PlainText(f) ==
  IF f.hexify THEN FlattenSeq([i \in DOMAIN f.data |-> Digits(f.data[i])])
  ELSE f.data
=============================================================================
