-------------------------- MODULE GdbSessionProofs --------------------------
(***************************************************************************)
(* Proofs about a debugging session, for any commands of gdb, any number   *)
(* of faults and any program.                                              *)
(***************************************************************************)
EXTENDS GdbSession, SequenceTheorems, TLAPS

-----------------------------------------------------------------------------
(* The invariant *)

IsQueue(q) == q \in Seq({q[i] : i \in 1..Len(q)})

IsPacket(h) == h = [kind |-> "packet", id |-> h.id, body |-> h.body, good |-> h.good]
IsToken(h) == h \in {Plus, Minus, Noise} \/ IsPacket(h)

IsProgram(p) ==
  /\ p = [regs |-> p.regs, mem |-> p.mem, signo |-> p.signo, connected |-> p.connected]
  /\ p.regs = [r \in Registers |-> p.regs[r]]
  /\ p.mem = [a \in 0..1 |-> p.mem[a]]

Busy == {"sent", "waits"}   \* gdb has a command under way

IsLine(q) == IsQueue(q) /\ \A i \in 1..Len(q) : IsToken(q[i])

\* The tokens of some kinds that are on a line: the commands on their way, and the
\* stub's verdicts on them.
Of(q, kinds) == {i \in 1..Len(q) : q[i].kind \in kinds}
Requests == Of(toStub, {"packet"})
Verdicts == Of(toGdb, {"+", "-"})

LinesTyped ==
  IsLine(toStub) /\ IsLine(toGdb) /\ \A i \in Requests : toStub[i].body \in Commands

MachineTyped ==
  /\ pc \in {"run", "get", "ack", "dump", "off"} /\ next \in {"run", "get", "off"}
  /\ pc = "ack" => IsPacket(reply)
  /\ IsProgram(s) /\ t = [r \in Registers |-> t[r]]

GdbTyped ==
  /\ gdb = [mode |-> gdb.mode, cmd |-> gdb.cmd, id |-> gdb.id]
  /\ gdb.mode \in {"away", "idle", "gone"} \cup Busy
  /\ gdb.id \in 0..MAXCMDS
  /\ gdb.id = 0 => gdb.mode \in {"away", "idle"} /\ gdb.cmd.op = "none"
  /\ gdb.id > 0 => gdb.cmd \in Commands
  /\ gdb.mode = "waits" => gdb.cmd.op \notin {"R", "k"}
  /\ believed = [x \in Cells |-> believed[x]]
  /\ executed \in [1..MAXCMDS -> Nat]

SessionTyped == LinesTyped /\ MachineTyped /\ GdbTyped

\* The debugger is entered only once it is installed, and the stub takes itself
\* to be connected only once gdb is there.
EnteredInv ==
  /\ do_debug \/ s.connected \/ pc \in {"get", "ack"} => installed
  /\ gdb.mode = "away" => Requests = {} /\ ~s.connected

\* One command is under way at a time, or one verdict on it.
TurnInv ==
  \/ gdb.mode = "gone" /\ pc = "off"
  \/ /\ \A i, j \in Requests : i = j
     /\ \A i, j \in Verdicts : i = j
     /\ Requests = {} \/ Verdicts = {}
     /\ gdb.mode # "sent" => Requests = {} /\ Verdicts = {}
     /\ \A i \in Requests : toStub[i].id = gdb.id /\ toStub[i].body = gdb.cmd

Going == {"c", "s", "C", "S"}
Ended == {<<"W">>, <<"X">>}
Said == {<<"O">>} \cup Ended

\* gdb has been, or is going to be, told that its command is taken; and the i-th
\* token to gdb comes after that.
Taken == gdb.mode = "waits" \/ Of(toGdb, {"+"}) # {}
Since(i) == gdb.mode = "waits" \/ \E j \in Of(toGdb, {"+"}) : j < i

Running == pc \in {"run", "dump"} \/ (pc = "ack" /\ next = "run")
Halted == pc = "get" \/ (pc = "ack" /\ next = "get")

NowOf(p, x) == IF x = "cell" THEN p.mem[Cell] ELSE p.regs[x]
Now(x) == NowOf(s, x)
Shown(body) == IF body = Blank THEN <<"blank">> ELSE body
Knows(belief) == \A x \in Cells : belief[x] \in {Unknown, Now(x)}

\* What gdb hears of a program it has let go on keeps it waiting as long as the
\* program runs and the stub takes itself to be connected.
Timely(h) == (Halted \/ h.body \in Said) /\ (s.connected => h.body \notin Ended)

Fits(h) ==
  IF gdb.cmd.op \in Going THEN (h.id = gdb.id \/ h.body \in Said) /\ Timely(h)
  ELSE h.id = gdb.id /\ h.body = reply.body

\* The machine goes on with the command of gdb, or has its reply to send.
Serves ==
  IF gdb.cmd.op \in Going
  THEN /\ Running => cause = gdb.id
       /\ pc = "ack" => (reply.id = gdb.id \/ reply.body \in Said) /\ Timely(reply)
  ELSE Halted /\ reply.id = gdb.id /\ Knows(Learn(gdb.cmd, Shown(reply.body)))

\* Of the replies that follow the acknowledgement of a command, those that end
\* it are its own.
ReplyInv ==
  gdb.mode \in Busy /\ gdb.cmd.op \notin {"D", "R", "k"} =>
    /\ \A i \in Of(toGdb, {"packet"}) : Since(i) => Fits(toGdb[i])
    /\ Taken => Serves

\* While no acknowledgement is damaged, gdb hears of every command executed.
OnceInv ==
  /\ \A i \in 1..MAXCMDS : executed[i] <= 1 /\ (i > gdb.id => executed[i] = 0)
  /\ gdb.mode = "sent" /\ executed[gdb.id] = 1 => Of(toGdb, {"+"}) # {}

\* gdb believes something only of a program that is halted.
BeliefInv ==
  /\ Knows(believed)
  /\ Halted \/ \A x \in Cells : believed[x] = Unknown
  /\ gdb.mode \in Busy => \A x \in Touched(gdb.cmd) : believed[x] = Unknown

\* What gdb meant when it sent the command that lets the program go is so until
\* the command is executed.
MeantInv ==
  /\ gdb.mode = "sent" /\ gdb.cmd.op \in Resuming /\ executed[gdb.id] = 0 =>
       /\ \A r \in Registers : meant[r] \in {Unknown, s.regs[r]}
       /\ Halted \/ \A r \in Registers : meant[r] = Unknown
  /\ /\ pc = "ack" /\ next = "run" /\ reply.id = gdb.id
     /\ gdb.cmd.op \in Resuming /\ executed[gdb.id] = 1
     => gdb.cmd.op = "D" /\ \A r \in Registers : meant[r] \in {Unknown, t[r]}
  /\ cause \in 0..gdb.id
  /\ pc = "ack" => reply.id \in 0..gdb.id

\* The program runs on under a debugger that is busy with it, and is held only for one
\* that is, or that has sent its last acknowledgement.
Held == pc = "ack" /\ next # "get"
HeldInv ==
  /\ s.connected /\ Running => gdb.mode \in Busy /\ gdb.cmd.op \in Going
  /\ Held => \/ gdb.mode \in Busy /\ gdb.cmd.op \in Going \cup {"D"}
             \/ gdb.mode = "gone" /\ (goodbyeLost \/ Of(toStub, {"+"}) # {})

PatientInv ==
  /\ TurnInv /\ ReplyInv /\ BeliefInv /\ MeantInv
  /\ accepted.cmd = accepted.of
  /\ ackDamaged \/ OnceInv

SessionInv == SessionTyped /\ EnteredInv /\ (early \/ (PatientInv /\ HeldInv))

-----------------------------------------------------------------------------
(* Queues of tokens *)

LEMMA QueueIs ==
  ASSUME NEW q, IsQueue(q)
  PROVE  Len(q) \in Nat /\ DOMAIN q = 1..Len(q)
BY LenProperties DEF IsQueue

LEMMA SeqIsQueue ==
  ASSUME NEW S, NEW q \in Seq(S)
  PROVE  IsQueue(q)
<1> DEFINE E == {q[i] : i \in 1..Len(q)}
<1>1. Len(q) \in Nat /\ q = [i \in 1..Len(q) |-> q[i]]
  BY LenProperties
<1>2. \A i \in 1..Len(q) : q[i] \in E
  OBVIOUS
<1> HIDE DEF E
<1>3. [i \in 1..Len(q) |-> q[i]] \in Seq(E)
  BY <1>1, <1>2, IsASeq
<1> QED BY <1>1, <1>3 DEF IsQueue, E

\* A queue and what is appended to it have a set of elements in common.
LEMMA InCommon ==
  ASSUME NEW q, IsQueue(q), NEW e
  PROVE  \E S : q \in Seq(S) /\ e \in S
<1> DEFINE E == {q[i] : i \in 1..Len(q)}
           S == E \cup {e}
<1>1. q \in Seq(E)
  BY DEF IsQueue
<1>2. E \subseteq S /\ e \in S
  OBVIOUS
<1> HIDE DEF E, S
<1>3. q \in Seq(S)
  BY <1>1, <1>2, SeqMonotonic
<1> QED BY <1>2, <1>3

\* new is q followed by copies of e.
Extends(new, q, e) ==
  /\ IsQueue(new) /\ Len(q) \in Nat /\ Len(new) \in Nat /\ Len(new) >= Len(q)
  /\ \A i \in 1..Len(q) : new[i] = q[i]
  /\ \A i \in Len(q)+1..Len(new) : new[i] = e

LEMMA AppendExtends ==
  ASSUME NEW q, IsQueue(q), NEW e
  PROVE  Extends(Append(q, e), q, e) /\ Len(Append(q, e)) = Len(q) + 1
<1>1. PICK S : q \in Seq(S) /\ e \in S
  BY InCommon
<1>2. /\ Append(q, e) \in Seq(S) /\ Len(Append(q, e)) = Len(q) + 1 /\ Len(q) \in Nat
      /\ \A i \in 1..Len(q) : Append(q, e)[i] = q[i]
      /\ Append(q, e)[Len(q) + 1] = e
  BY <1>1, AppendProperties, LenProperties
<1> DEFINE a == Append(q, e)
<1> HIDE DEF a
<1>3. \A i \in Len(q)+1..Len(a) : i = Len(q) + 1
  BY <1>2 DEF a
<1>4. IsQueue(a)
  BY <1>2, SeqIsQueue DEF a
<1> QED BY <1>2, <1>3, <1>4 DEF Extends, a

LEMMA CopiesExtend ==
  ASSUME NEW q, IsQueue(q), NEW e, NEW n \in Nat
  PROVE  Extends(q \o [i \in 1..n |-> e], q, e)
<1> DEFINE c == [i \in 1..n |-> e]
           a == q \o c
<1>1. PICK S : q \in Seq(S) /\ e \in S
  BY InCommon
<1>2. c \in Seq(S) /\ Len(c) = n /\ \A i \in 1..n : c[i] = e
  BY <1>1, IsASeq
<1>3. Len(q) \in Nat
  BY <1>1, LenProperties
<1> HIDE DEF c
<1>4. /\ a \in Seq(S) /\ Len(a) = Len(q) + n
      /\ \A i \in 1..Len(q) + n : a[i] = IF i <= Len(q) THEN q[i] ELSE c[i - Len(q)]
  BY <1>1, <1>2, ConcatProperties
<1> HIDE DEF a
<1>5. IsQueue(a)
  BY <1>4, SeqIsQueue
<1>6. ASSUME NEW i \in Len(q)+1..Len(a) PROVE a[i] = e
  <2>1. i - Len(q) \in 1..n /\ i \in 1..Len(q) + n /\ ~(i <= Len(q))
    BY <1>3, <1>4
  <2> QED BY <2>1, <1>2, <1>4
<1>7. \A i \in 1..Len(q) : i \in 1..Len(q) + n /\ i <= Len(q)
  BY <1>3
<1>8. Len(a) \in Nat /\ Len(a) >= Len(q)
  BY <1>3, <1>4
<1> QED BY <1>3, <1>4, <1>5, <1>6, <1>7, <1>8 DEF Extends, a, c

LEMMA PairAppended ==
  ASSUME NEW q, IsQueue(q), NEW e, NEW f
  PROVE  q \o <<e, f>> = Append(Append(q, e), f)
<1>1. PICK S : q \in Seq(S) /\ e \in S
  BY InCommon
<1>2. \E T : q \in Seq(T) /\ e \in T /\ f \in T
  <2> DEFINE T == S \cup {f}
  <2>1. S \subseteq T
    OBVIOUS
  <2>2. q \in Seq(T) /\ e \in T /\ f \in T
    BY <1>1, <2>1, SeqMonotonic
  <2> QED BY <2>2
<1>3. PICK T : q \in Seq(T) /\ e \in T /\ f \in T
  BY <1>2
<1> DEFINE a == Append(q, e)
<1>4. a = q \o <<e>> /\ a \in Seq(T)
  BY <1>3, AppendIsConcat, AppendProperties
<1> HIDE DEF a
<1>5. Append(a, f) = a \o <<f>>
  BY <1>3, <1>4, AppendIsConcat
<1>6. <<e>> \in Seq(T) /\ <<f>> \in Seq(T)
  BY <1>3
<1>7. (q \o <<e>>) \o <<f>> = q \o (<<e>> \o <<f>>)
  BY <1>3, <1>6, ConcatAssociative
<1>8. <<e>> \o <<f>> = <<e, f>>
  <2> DEFINE a1 == <<e>>
             f1 == <<f>>
             ef == <<e, f>>
  <2>1. a1 \in Seq(T) /\ f1 \in Seq(T) /\ ef \in Seq(T)
    BY <1>3
  <2>2. Len(a1) = 1 /\ Len(f1) = 1 /\ Len(ef) = 2 /\ a1[1] = e /\ f1[1] = f
        /\ ef[1] = e /\ ef[2] = f
    OBVIOUS
  <2> HIDE DEF a1, f1, ef
  <2>3. /\ a1 \o f1 \in Seq(T) /\ Len(a1 \o f1) = 2
        /\ (a1 \o f1)[1] = a1[1] /\ (a1 \o f1)[2] = f1[1]
    BY <2>1, <2>2, ConcatProperties
  <2>4. \A i \in 1..2 : i = 1 \/ i = 2
    OBVIOUS
  <2>5. \A i \in 1..2 : (a1 \o f1)[i] = ef[i]
    BY <2>2, <2>3, <2>4
  <2> QED BY <2>1, <2>2, <2>3, <2>5, SeqEqual DEF a1, f1, ef
<1> QED BY <1>4, <1>5, <1>7, <1>8 DEF a

\* new is what is left of q, some of it damaged.
Thins(new, q) ==
  /\ IsQueue(new)
  /\ \E f \in [1..Len(new) -> 1..Len(q)] :
       /\ \A i \in 1..Len(new) : new[i] \in {q[f[i]], Damaged(q[f[i]])}
       /\ \A i, j \in 1..Len(new) : i < j => f[i] < f[j]

LEMMA TailIs ==
  ASSUME NEW q, IsQueue(q), q # << >>
  PROVE  /\ IsQueue(Tail(q)) /\ Len(q) \in Nat /\ Len(q) > 0 /\ Len(Tail(q)) = Len(q) - 1
         /\ Head(q) = q[1]
         /\ \A i \in 1..Len(q)-1 : Tail(q)[i] = q[i+1]
<1> DEFINE E == {q[i] : i \in 1..Len(q)}
<1>1. q \in Seq(E) /\ Head(q) = q[1]
  BY DEF IsQueue
<1> HIDE DEF E
<1>2. Len(q) \in Nat \ {0}
  BY <1>1, EmptySeq
<1>3. Tail(q) \in Seq(E) /\ Len(Tail(q)) = Len(q) - 1
      /\ \A i \in 1..Len(Tail(q)) : Tail(q)[i] = q[i+1]
  BY <1>1, HeadTailProperties
<1>4. IsQueue(Tail(q))
  BY <1>3, SeqIsQueue
<1> QED BY <1>1, <1>2, <1>3, <1>4

LEMMA TailThins ==
  ASSUME NEW q, IsQueue(q), q # << >>
  PROVE  Thins(Tail(q), q)
<1> DEFINE f == [i \in 1..Len(Tail(q)) |-> i + 1]
<1>1. /\ IsQueue(Tail(q)) /\ Len(q) \in Nat /\ Len(Tail(q)) = Len(q) - 1
      /\ \A i \in 1..Len(q)-1 : Tail(q)[i] = q[i+1]
  BY TailIs
<1>2. f \in [1..Len(Tail(q)) -> 1..Len(q)]
  BY <1>1
<1>3. \A i, j \in 1..Len(Tail(q)) : i < j => f[i] < f[j]
  BY <1>1
<1>4. \A i \in 1..Len(Tail(q)) : Tail(q)[i] = q[f[i]]
  BY <1>1
<1> HIDE DEF f
<1> QED BY <1>1, <1>2, <1>3, <1>4 DEF Thins

LEMMA DamageThins ==
  ASSUME NEW q, IsQueue(q), NEW k \in 1..Len(q)
  PROVE  Thins([q EXCEPT ![k] = Damaged(@)], q)
<1> DEFINE new == [q EXCEPT ![k] = Damaged(q[k])]
           f == [i \in 1..Len(q) |-> i]
<1>1. PICK S : q \in Seq(S) /\ Damaged(q[k]) \in S
  BY InCommon
<1>2. /\ new \in Seq(S) /\ Len(new) = Len(q)
      /\ \A j \in 1..Len(q) : new[j] = IF j = k THEN Damaged(q[k]) ELSE q[j]
  BY <1>1, ExceptSeq
<1>3. IsQueue(new)
  BY <1>2, SeqIsQueue
<1> HIDE DEF new
<1>4. f \in [1..Len(q) -> 1..Len(q)] /\ \A i \in 1..Len(q) : f[i] = i
  OBVIOUS
<1> HIDE DEF f
<1>5. Thins(new, q)
  BY <1>2, <1>3, <1>4 DEF Thins
<1> QED BY <1>5 DEF new

LEMMA RemoveIs ==
  ASSUME NEW q, IsQueue(q), NEW k \in 1..Len(q)
  PROVE  /\ IsQueue(RemoveAt(q, k)) /\ Len(q) \in Nat /\ Len(RemoveAt(q, k)) = Len(q) - 1
         /\ \A i \in 1..Len(q)-1 : RemoveAt(q, k)[i] = IF i < k THEN q[i] ELSE q[i+1]
<1> DEFINE E == {q[i] : i \in 1..Len(q)}
           a == SubSeq(q, 1, k-1)
           b == SubSeq(q, k+1, Len(q))
           n == Len(q)
<1>1. q \in Seq(E)
  BY DEF IsQueue
<1>2. \A i \in 1..n : q[i] \in E
  OBVIOUS
<1> HIDE DEF E
<1>3. n \in Nat /\ k \in 1..n /\ k \in Int
  BY <1>1, LenProperties
<1> HIDE DEF n
<1>4. /\ a \in Seq(E) /\ Len(a) = k - 1
      /\ \A i \in 1..k-1 : a[i] = q[i]
  <2>1. \A i \in 1..k-1 : q[i] \in E
    BY <1>2, <1>3
  <2>2. k - 1 \in Int
    BY <1>3
  <2>3. /\ a \in Seq(E) /\ Len(a) = IF 1 <= k-1 THEN k-1-1+1 ELSE 0
        /\ \A i \in 1..(k-1)-1+1 : a[i] = q[1+i-1]
    BY <2>1, <2>2, SubSeqProperties
  <2> HIDE DEF a
  <2>4. \A i \in 1..k-1 : i \in 1..(k-1)-1+1 /\ 1+i-1 = i
    BY <1>3
  <2> QED BY <1>3, <2>3, <2>4
<1>5. /\ b \in Seq(E) /\ Len(b) = n - k
      /\ \A i \in 1..n-k : b[i] = q[k+i]
  <2>1. \A i \in k+1..n : q[i] \in E
    BY <1>2, <1>3
  <2>2. k + 1 \in Int
    BY <1>3
  <2>3. /\ b \in Seq(E) /\ Len(b) = IF k+1 <= n THEN n-(k+1)+1 ELSE 0
        /\ \A i \in 1..n-(k+1)+1 : b[i] = q[(k+1)+i-1]
    BY <1>3, <2>1, <2>2, SubSeqProperties DEF n
  <2> HIDE DEF b
  <2>4. \A i \in 1..n-k : i \in 1..n-(k+1)+1 /\ (k+1)+i-1 = k+i
    BY <1>3
  <2>5. n-(k+1)+1 = n-k /\ (k+1 <= n \/ n - k = 0)
    BY <1>3
  <2>6. \A i \in 1..n-k : b[i] = q[(k+1)+i-1]
    BY <2>3, <2>4
  <2> QED BY <2>3, <2>4, <2>5, <2>6
<1> HIDE DEF a, b
<1>6. /\ a \o b \in Seq(E) /\ Len(a \o b) = (k-1) + (n-k)
      /\ \A i \in 1..(k-1)+(n-k) : (a \o b)[i] = IF i <= k-1 THEN a[i] ELSE b[i-(k-1)]
  BY <1>4, <1>5, ConcatProperties
<1>7. IsQueue(a \o b)
  BY <1>6, SeqIsQueue
<1>8. ASSUME NEW i \in 1..n-1 PROVE (a \o b)[i] = IF i < k THEN q[i] ELSE q[i+1]
  <2>1. i \in 1..(k-1)+(n-k)
    BY <1>3
  <2>2. CASE i < k
    <3>1. i <= k-1 /\ i \in 1..k-1
      BY <1>3, <2>2
    <3> QED BY <1>4, <1>6, <2>1, <2>2, <3>1
  <2>3. CASE ~(i < k)
    <3>1. ~(i <= k-1) /\ i-(k-1) \in 1..n-k /\ k+(i-(k-1)) = i+1
      BY <1>3, <2>3
    <3> QED BY <1>5, <1>6, <2>1, <2>3, <3>1
  <2> QED BY <2>2, <2>3
<1>9. (k-1) + (n-k) = n - 1
  BY <1>3
<1>10. RemoveAt(q, k) = a \o b
  BY DEF RemoveAt, a, b, n
<1> QED BY <1>3, <1>6, <1>7, <1>8, <1>9, <1>10 DEF n

LEMMA RemoveThins ==
  ASSUME NEW q, IsQueue(q), NEW k \in 1..Len(q)
  PROVE  Thins(RemoveAt(q, k), q)
<1> DEFINE new == RemoveAt(q, k)
           f == [i \in 1..Len(new) |-> IF i < k THEN i ELSE i + 1]
<1>1. /\ IsQueue(new) /\ Len(q) \in Nat /\ Len(new) = Len(q) - 1
      /\ \A i \in 1..Len(q)-1 : new[i] = IF i < k THEN q[i] ELSE q[i+1]
  BY RemoveIs
<1> HIDE DEF new
<1>2. f \in [1..Len(new) -> 1..Len(q)]
  BY <1>1
<1>3. \A i, j \in 1..Len(new) : i < j => f[i] < f[j]
  BY <1>1
<1>4. \A i \in 1..Len(new) : new[i] = q[f[i]]
  BY <1>1
<1> HIDE DEF f
<1>5. Thins(new, q)
  BY <1>1, <1>2, <1>3, <1>4 DEF Thins
<1> QED BY <1>5 DEF new

-----------------------------------------------------------------------------
(* What a command does *)

LEMMA WithRegisters ==
  ASSUME NEW p, IsProgram(p), NEW new, new = [r \in Registers |-> new[r]]
  PROVE  /\ IsProgram([p EXCEPT !.regs = new])
         /\ [p EXCEPT !.regs = new].regs = new /\ [p EXCEPT !.regs = new].mem = p.mem
BY DEF IsProgram

LEMMA WithMemory ==
  ASSUME NEW p, IsProgram(p), NEW new, new = [a \in 0..1 |-> new[a]]
  PROVE  /\ IsProgram([p EXCEPT !.mem = new])
         /\ [p EXCEPT !.mem = new].mem = new /\ [p EXCEPT !.mem = new].regs = p.regs
BY DEF IsProgram

LEMMA WithConnection ==
  ASSUME NEW p, IsProgram(p), NEW c
  PROVE  LET q == [p EXCEPT !.connected = c] IN
         IsProgram(q) /\ q.mem = p.mem /\ q.regs = p.regs /\ q.signo = p.signo /\ q.connected = c
BY DEF IsProgram

\* What gdb may conclude from the answer r to its command c.
Tells(c, p, r) ==
  /\ IsProgram(r.s) /\ r.action = "GDB_MORE" /\ r.reply # NoReply
  /\ \A x \in Cells \ Touched(c) : NowOf(r.s, x) = NowOf(p, x)
  /\ Learn(c, Shown(r.reply)) = believed
     \/ \A x \in Cells : Learn(c, Shown(r.reply))[x] \in {believed[x], NowOf(r.s, x)}

LEMMA AnswerIs ==
  ASSUME NEW p, NEW reply_
  PROVE  /\ Answer(p, reply_).s = p /\ Answer(p, reply_).reply = reply_
         /\ Answer(p, reply_).action = "GDB_MORE"
BY DEF Answer, Result

LEMMA RepliesDiffer ==
  /\ OK # NoReply /\ Blank # NoReply /\ OK # Blank
  /\ \A code : Error(code) # NoReply /\ Error(code) # OK /\ Error(code) # Blank
  /\ \A code : Error(code)[1] = "E"
  /\ \A n : Stopped(n) # NoReply /\ Stopped(n) \notin Ended
  /\ \A code : Error(code) \notin Ended
  /\ \A x : <<"g", x>> # NoReply /\ <<"g", x>> # Blank
  /\ \A x : <<"m", x>> # NoReply /\ <<"m", x>> # Blank
<1>1. \A a, b, c : <<a, b>> # <<c>> /\ <<a, b>> # << >> /\ <<c>> # << >>
  OBVIOUS
<1> QED BY <1>1 DEF OK, NoReply, Blank, Error, Stopped, Ended

LEMMA ReadRegistersTells ==
  ASSUME NEW c, NEW p, IsProgram(p), c.op = "g"
  PROVE  Tells(c, p, ReadRegisters(c, p))
<1> DEFINE r == ReadRegisters(c, p)
<1>1. r.s = p /\ r.reply = <<"g", p.regs>> /\ r.action = "GDB_MORE"
  BY AnswerIs DEF ReadRegisters
<1> HIDE DEF r
<1>2. Shown(r.reply) = <<"g", p.regs>> /\ r.reply # NoReply
  BY <1>1, RepliesDiffer DEF Shown
<1>3. \A x \in Cells : Learn(c, Shown(r.reply))[x] =
          IF x \in Registers THEN p.regs[x] ELSE believed[x]
  BY <1>2 DEF Learn
<1>4. "cell" \notin Registers
  BY DEF Registers
<1> QED BY <1>1, <1>2, <1>3, <1>4 DEF Tells, NowOf, r

LEMMA WriteRegistersTells ==
  ASSUME NEW c \in Commands, NEW p, IsProgram(p), c.op = "G",
         believed = [x \in Cells |-> believed[x]]
  PROVE  Tells(c, p, WriteRegisters(c, p))
<1> DEFINE given(r) == {i \in DOMAIN c.d : RegisterOrder[i] = r}
           new == [r \in Registers |->
                IF given(r) = {} THEN p.regs[r] ELSE c.d[CHOOSE i \in given(r) : TRUE]]
           q == [p EXCEPT !.regs = new]
           a == WriteRegisters(c, p)
<1>1. a.s = q /\ a.reply = (IF c.wf THEN OK ELSE Error(4)) /\ a.action = "GDB_MORE"
  BY AnswerIs DEF WriteRegisters
<1> HIDE DEF a
<1>2. new = [r \in Registers |-> new[r]]
  OBVIOUS
<1>3. ASSUME c.wf PROVE new["eax"] = c.d[1] /\ new["eip"] = c.d[2] /\ new["tf"] = c.d[3]
  <2>1. DOMAIN c.d = {1, 2, 3} /\ RegisterOrder[1] = "eax" /\ RegisterOrder[2] = "eip"
        /\ RegisterOrder[3] = "tf"
    BY <1>3, SessionConstants DEF RegisterOrder
  <2>2. given("eax") = {1} /\ given("eip") = {2} /\ given("tf") = {3}
    BY <2>1
  <2>3. new["eax"] = c.d[CHOOSE i \in {1} : TRUE] /\ new["eip"] = c.d[CHOOSE i \in {2} : TRUE]
        /\ new["tf"] = c.d[CHOOSE i \in {3} : TRUE]
    BY <2>2 DEF Registers
  <2> QED BY <2>3
<1> HIDE DEF new
<1>4. IsProgram(q) /\ q.regs = new /\ q.mem = p.mem
  BY <1>2, WithRegisters
<1>5. a.reply # NoReply /\ Shown(a.reply) = a.reply /\ (a.reply = OK => c.wf)
  BY <1>1, RepliesDiffer DEF Shown
<1>6. ASSUME NEW x \in Cells \ Touched(c) PROVE NowOf(q, x) = NowOf(p, x)
  BY <1>4 DEF Touched, Cells, NowOf
<1>7. CASE a.reply = OK
  <2>1. Learn(c, a.reply) = [believed EXCEPT !["eax"] = c.d[1], !["eip"] = c.d[2], !["tf"] = c.d[3]]
    BY <1>7 DEF Learn
  <2>2. \A x \in Cells : Learn(c, a.reply)[x] = IF x \in Registers THEN new[x] ELSE believed[x]
    BY <2>1, <1>3, <1>5, <1>7 DEF Cells, Registers
  <2>3. "cell" \notin Registers
    BY DEF Registers
  <2> QED BY <1>1, <1>4, <1>5, <1>6, <2>2, <2>3 DEF Tells, NowOf, a
<1>8. CASE a.reply # OK
  <2>1. Learn(c, a.reply) = believed
    BY <1>8 DEF Learn
  <2> QED BY <1>1, <1>4, <1>5, <1>6, <2>1 DEF Tells, a
<1> QED BY <1>7, <1>8

LEMMA WriteRegisterTells ==
  ASSUME NEW c, NEW p, IsProgram(p), c.op = "P", believed = [x \in Cells |-> believed[x]]
  PROVE  Tells(c, p, WriteRegister(c, p))
<1> DEFINE new == [p.regs EXCEPT ![c.a] = c.d[1]]
           q == [p EXCEPT !.regs[c.a] = c.d[1]]
           a == WriteRegister(c, p)
<1>0. ORIG_EAX \notin Registers /\ "cell" \notin Registers
  BY DEF ORIG_EAX, Registers
<1>1. CASE c.a \in Registers /\ (c.wf \/ c.d # << >>)
  <2> DEFINE body == IF c.wf THEN OK ELSE Error(4)
  <2>1. a = Answer(q, body)
    BY <1>0, <1>1 DEF WriteRegister
  <2>2. new = [r \in Registers |-> new[r]] /\ new[c.a] = c.d[1]
        /\ \A x \in Registers \ {c.a} : new[x] = p.regs[x]
    BY <1>1 DEF IsProgram
  <2>3. q = [p EXCEPT !.regs = new]
    OBVIOUS
  <2>4. body # NoReply /\ Shown(body) = body /\ body \in {OK, Error(4)}
    BY RepliesDiffer DEF Shown
  <2> HIDE DEF new, q, body
  <2>5. IsProgram(q) /\ q.regs = new /\ q.mem = p.mem
    BY <2>2, <2>3, WithRegisters
  <2>6. a.s = q /\ a.reply = body /\ a.action = "GDB_MORE" /\ Shown(a.reply) = body
    BY <2>1, <2>4, AnswerIs
  <2> HIDE DEF a
  <2>7. \A x \in Cells \ Touched(c) : NowOf(q, x) = NowOf(p, x)
    BY <2>2, <2>5, <1>1 DEF Touched, Cells, NowOf
  <2>8. CASE body = OK
    <3>1. Learn(c, OK) = [believed EXCEPT ![c.a] = c.d[1]]
      BY <1>1 DEF Learn
    <3>2. \A x \in Cells : Learn(c, OK)[x] = IF x = c.a THEN new[x] ELSE believed[x]
      BY <2>2, <3>1, <1>1 DEF Cells
    <3> QED BY <1>0, <1>1, <2>4, <2>5, <2>6, <2>7, <2>8, <3>2 DEF Tells, NowOf, a
  <2>9. CASE body # OK
    <3>1. Learn(c, body) = believed
      BY <2>9 DEF Learn
    <3> QED BY <2>4, <2>5, <2>6, <2>7, <3>1 DEF Tells, a
  <2> QED BY <2>8, <2>9
<1>2. CASE ~(c.a \in Registers /\ (c.wf \/ c.d # << >>))
  <2>1. (a = Answer(p, OK) /\ c.a \notin Registers) \/ a = Answer(p, Error(4))
    BY <1>0, <1>2 DEF WriteRegister
  <2>2. a.s = p /\ a.action = "GDB_MORE"
        /\ (a.reply = Error(4) \/ (a.reply = OK /\ c.a \notin Registers))
    <3> HIDE DEF a
    <3>1. CASE a = Answer(p, OK) /\ c.a \notin Registers
      BY <3>1, AnswerIs
    <3>2. CASE a = Answer(p, Error(4))
      BY <3>2, AnswerIs
    <3> QED BY <2>1, <3>1, <3>2
  <2> HIDE DEF a
  <2>3. a.reply # NoReply /\ Shown(a.reply) = a.reply /\ (a.reply = OK => c.a \notin Registers)
    BY <2>2, RepliesDiffer DEF Shown
  <2>4. Learn(c, a.reply) = believed
    BY <2>3 DEF Learn
  <2> QED BY <2>2, <2>3, <2>4 DEF Tells, a
<1> QED BY <1>1, <1>2

LEMMA ReadMemoryTells ==
  ASSUME NEW c \in Commands, NEW p, IsProgram(p), c.op = "m",
         believed = [x \in Cells |-> believed[x]]
  PROVE  Tells(c, p, ReadMemory(c, p))
<1> DEFINE from == Reached(PD, TRUE, c.a, c.n)
           data == [i \in DOMAIN from |-> p.mem[from[i]]]
           a == ReadMemory(c, p)
           read == gdb_copyin(PD, TRUE, p.mem, c.a, c.n)
<1>0. read.ok = (Len(from) = c.n) /\ read.data = data
  BY DEF gdb_copyin
<1>1. CASE c.wf /\ c.n > 0 /\ read.ok
  <2>1. a = Answer(p, <<"m", data>>)
    <3>1. a = (CASE ~c.wf -> Answer(p, Error(2))
                 [] c.wf /\ ~read.ok -> Answer(p, Error(3))
                 [] c.wf /\ read.ok /\ c.n > 0 -> Answer(p, <<"m", read.data>>)
                 [] c.wf /\ read.ok /\ c.n = 0 -> Answer(p, <<"m", <<c>>>>))
      BY DEF ReadMemory
    <3>2. ~(c.n = 0)
      BY <1>1, SessionConstants
    <3> HIDE DEF a, read, data
    <3>3. a = Answer(p, <<"m", read.data>>)
      BY <1>1, <3>1, <3>2
    <3> QED BY <1>0, <3>3
  <2>2. AtCell(c, c.n) /\ c.n \in Nat
    BY <1>1, SessionConstants
  <2>3. from \in Seq(Nat) /\ Len(from) = c.n /\ from[1] = Cell
    BY <1>0, <1>1, <2>2 DEF AtCell
  <2>4. 1 \in DOMAIN from
    <3> HIDE DEF from
    <3>1. Len(from) \in Nat /\ DOMAIN from = 1..Len(from) /\ Len(from) > 0
      BY <1>1, <2>3, LenProperties
    <3> QED BY <3>1
  <2>5. data[1] = p.mem[Cell]
    BY <2>3, <2>4
  <2> HIDE DEF data, from, read
  <2>6. a.s = p /\ a.reply = <<"m", data>> /\ a.action = "GDB_MORE"
        /\ Shown(a.reply) = <<"m", data>>
        /\ a.reply # NoReply
    BY <2>1, AnswerIs, RepliesDiffer DEF Shown
  <2> HIDE DEF a
  <2>7. Learn(c, <<"m", data>>) = [believed EXCEPT !["cell"] = p.mem[Cell]]
    BY <2>5, <1>1 DEF Learn
  <2>8. \A x \in Cells : Learn(c, <<"m", data>>)[x] =
            IF x = "cell" THEN p.mem[Cell] ELSE believed[x]
    BY <2>7 DEF Cells
  <2> QED BY <2>6, <2>8 DEF Tells, NowOf, a
<1>2. CASE ~(c.wf /\ c.n > 0 /\ read.ok)
  <2>1. \/ \E code : a = Answer(p, Error(code))
        \/ c.n = 0 /\ a = Answer(p, <<"m", <<c>>>>)
    <3>1. CASE ~c.wf
      BY <3>1 DEF ReadMemory
    <3>2. CASE c.wf
      <4>1. c.n \in Nat
        BY <3>2, SessionConstants
      <4> HIDE DEF from, data
      <4>2. read.ok \in BOOLEAN
        BY <1>0
      <4>3. a = (CASE ~c.wf -> Answer(p, Error(2))
                   [] c.wf /\ ~read.ok -> Answer(p, Error(3))
                   [] c.wf /\ read.ok /\ c.n > 0 -> Answer(p, <<"m", read.data>>)
                   [] c.wf /\ read.ok /\ c.n = 0 -> Answer(p, <<"m", <<c>>>>))
        BY DEF ReadMemory
      <4> HIDE DEF a, read
      <4>4. CASE read.ok
        BY <4>1, <4>3, <4>4, <3>2, <1>2
      <4>5. CASE ~read.ok
        BY <4>1, <4>3, <4>5, <3>2
      <4> QED BY <4>2, <4>4, <4>5
    <3> QED BY <3>1, <3>2
  <2> HIDE DEF a, from, data, read
  <2>2. a.s = p /\ a.action = "GDB_MORE" /\ a.reply # NoReply /\ Shown(a.reply) = a.reply
        /\ (a.reply[1] = "m" => c.n = 0)
    BY <2>1, AnswerIs, RepliesDiffer DEF Shown
  <2>3. Learn(c, a.reply) = believed
    BY <2>2 DEF Learn
  <2> QED BY <2>2, <2>3 DEF Tells, a
<1> QED BY <1>1, <1>2

HasCopied(p, a, write) ==
  /\ IsProgram(a.s) /\ a.s.regs = p.regs /\ a.action = "GDB_MORE"
  /\ a.reply # NoReply /\ Shown(a.reply) = a.reply
  /\ a.s.mem = write.mem /\ (a.reply = OK => write.ok)

LEMMA CopiedIs ==
  ASSUME NEW p, IsProgram(p), NEW addr, NEW data
  PROVE  HasCopied(p, Copied(p, addr, data), gdb_copyout(PD, TRUE, p.mem, addr, data))
<1> DEFINE write == gdb_copyout(PD, TRUE, p.mem, addr, data)
           a == Copied(p, addr, data)
<1>1. a.s = [p EXCEPT !.mem = write.mem] /\ a.action = "GDB_MORE"
      /\ a.reply = (IF write.ok THEN OK ELSE Error(3))
  <2> DEFINE new == [p EXCEPT !.mem = write.mem]
             body == IF write.ok THEN OK ELSE Error(3)
  <2>1. a = Answer(new, body)
    BY DEF Copied
  <2> HIDE DEF a, write
  <2>2. a.s = new /\ a.action = "GDB_MORE" /\ a.reply = body
    <3> HIDE DEF new, body
    <3> QED BY <2>1, AnswerIs
  <2> QED BY <2>2
<1>2. DOMAIN p.mem = 0..1
  BY DEF IsProgram
<1>3. write.mem = [x \in 0..1 |-> write.mem[x]]
  BY <1>2 DEF gdb_copyout
<1> HIDE DEF a, write
<1>4. IsProgram(a.s) /\ a.s.regs = p.regs /\ a.s.mem = write.mem
  BY <1>1, <1>3, WithMemory
<1> QED BY <1>1, <1>4, RepliesDiffer DEF Shown, HasCopied, a, write

\* The cell gets the first byte, and no later one.
LEMMA CopiedCell ==
  ASSUME NEW c \in Commands, NEW p, IsProgram(p), c.op \in {"M", "X"}, c.wf,
         Copied(p, c.a, c.d).reply = OK
  PROVE  Copied(p, c.a, c.d).s.mem[Cell] = c.d[1]
<1> DEFINE to == Reached(PD, TRUE, c.a, Len(c.d))
           write == gdb_copyout(PD, TRUE, p.mem, c.a, c.d)
           writes == {i \in DOMAIN to : to[i] = Cell}
<1>1. write.ok /\ Copied(p, c.a, c.d).s.mem = write.mem
  <2>1. HasCopied(p, Copied(p, c.a, c.d), write)
    BY CopiedIs
  <2> QED BY <2>1, Zenon DEF HasCopied
<1>2. write.ok = (Len(to) = Len(c.d))
  BY DEF gdb_copyout
<1>3. AtCell(c, Len(c.d)) /\ Cell \in 0..1
  BY SessionConstants
<1>4. Len(c.d) > 0 /\ to \in Seq(Nat) /\ to[1] = Cell /\ \A i \in 2..Len(c.d) : to[i] # Cell
  BY <1>1, <1>2, <1>3 DEF AtCell
<1>5. DOMAIN p.mem = 0..1
  BY DEF IsProgram
<1>6. write.mem[Cell] = IF writes = {} THEN p.mem[Cell]
                        ELSE c.d[CHOOSE i \in writes : \A j \in writes : j <= i]
  BY <1>3, <1>5 DEF gdb_copyout
<1>7. writes = {1}
  <2> HIDE DEF to, write
  <2>1. Len(to) \in Nat /\ DOMAIN to = 1..Len(to) /\ Len(to) = Len(c.d)
    BY <1>1, <1>2, <1>4, LenProperties
  <2>2. 1 \in DOMAIN to /\ \A i \in DOMAIN to : i = 1 \/ i \in 2..Len(c.d)
    BY <1>4, <2>1
  <2> QED BY <1>4, <2>2
<1> HIDE DEF writes
<1>8. (CHOOSE i \in {1} : \A j \in {1} : j <= i) = 1
  OBVIOUS
<1> QED BY <1>1, <1>6, <1>7, <1>8

LEMMA CopyTells ==
  ASSUME NEW c \in Commands, NEW p, IsProgram(p), c.op \in {"M", "X"}, c.wf, NEW data,
         ~c.esc => data = c.d, believed = [x \in Cells |-> believed[x]]
  PROVE  Tells(c, p, Copied(p, c.a, data))
<1> DEFINE a == Copied(p, c.a, data)
<1>1. /\ IsProgram(a.s) /\ a.s.regs = p.regs /\ a.action = "GDB_MORE"
      /\ a.reply # NoReply /\ Shown(a.reply) = a.reply
  <2>1. HasCopied(p, a, gdb_copyout(PD, TRUE, p.mem, c.a, data))
    BY CopiedIs
  <2> QED BY <2>1, Zenon DEF HasCopied
<1>2. a.reply = OK /\ ~c.esc => a.s.mem[Cell] = c.d[1]
  BY CopiedCell
<1> HIDE DEF a
<1>3. \A x \in Cells \ Touched(c) : NowOf(a.s, x) = NowOf(p, x)
  BY <1>1 DEF Touched, NowOf
<1>4. CASE a.reply = OK /\ ~c.esc
  <2>1. Learn(c, a.reply) = [believed EXCEPT !["cell"] = c.d[1]]
    BY <1>4 DEF Learn
  <2>2. \A x \in Cells : Learn(c, a.reply)[x] = IF x = "cell" THEN c.d[1] ELSE believed[x]
    BY <2>1 DEF Cells
  <2> QED BY <1>1, <1>2, <1>3, <1>4, <2>2 DEF Tells, NowOf, a
<1>5. CASE ~(a.reply = OK /\ ~c.esc)
  <2>1. Learn(c, a.reply) = believed
    BY <1>5 DEF Learn
  <2> QED BY <1>1, <1>3, <2>1 DEF Tells, a
<1> QED BY <1>4, <1>5

LEMMA ErrorTells ==
  ASSUME NEW c, NEW p, IsProgram(p), NEW code, c.op \notin {"g", "m"}
  PROVE  Tells(c, p, Answer(p, Error(code)))
<1> DEFINE a == Answer(p, Error(code))
<1>1. a.s = p /\ a.reply = Error(code) /\ a.action = "GDB_MORE"
  BY AnswerIs
<1> HIDE DEF a
<1>2. a.reply # NoReply /\ Shown(a.reply) = a.reply /\ a.reply # OK
  BY <1>1, RepliesDiffer DEF Shown
<1>3. Learn(c, a.reply) = believed
  BY <1>2 DEF Learn
<1> QED BY <1>1, <1>2, <1>3 DEF Tells, a

LEMMA WritesTell ==
  ASSUME NEW c \in Commands, NEW p, IsProgram(p), believed = [x \in Cells |-> believed[x]]
  PROVE  /\ c.op = "M" => Tells(c, p, WriteMemory(c, p))
         /\ c.op = "X" => Tells(c, p, WriteBinary(c, p))
<1>1. ASSUME c.op = "M" PROVE Tells(c, p, WriteMemory(c, p))
  <2>1. CASE c.wf
    BY <1>1, <2>1, CopyTells DEF WriteMemory
  <2>2. CASE ~c.wf
    BY <1>1, <2>2, ErrorTells DEF WriteMemory
  <2> QED BY <2>1, <2>2
<1>2. ASSUME c.op = "X" PROVE Tells(c, p, WriteBinary(c, p))
  <2> DEFINE room == Len(c.d) - (IF c.esc THEN 1 ELSE 0)
             a == WriteBinary(c, p)
  <2>1. \/ a = Answer(p, Error(2))
        \/ c.wf /\ a = Copied(p, c.a, SubSeq(c.d, 1, room))
    BY DEF WriteBinary
  <2>2. CASE a = Answer(p, Error(2))
    BY <1>2, <2>2, ErrorTells
  <2>3. CASE c.wf /\ a = Copied(p, c.a, SubSeq(c.d, 1, room))
    <3>1. ASSUME ~c.esc PROVE SubSeq(c.d, 1, room) = c.d
      <4>1. c.d \in Seq(Int)
        BY <1>2, <2>3, SessionConstants
      <4>2. Len(c.d) \in Nat
        BY <4>1, LenProperties
      <4>3. room = Len(c.d)
        BY <3>1, <4>2
      <4> HIDE DEF room
      <4> QED BY <4>1, <4>3, SubSeqFull
    <3> HIDE DEF room
    <3> QED BY <1>2, <2>3, <3>1, CopyTells
  <2> QED BY <2>1, <2>2, <2>3
<1> QED BY <1>1, <1>2

LEMMA OthersTell ==
  ASSUME NEW c, NEW p, IsProgram(p), NEW body, body \in {OK, Blank} \/ \E n : body = Stopped(n),
         c.op \notin {"g", "G", "m", "P", "M", "X"} \cup Resuming
  PROVE  Tells(c, p, Answer(p, body))
<1> DEFINE a == Answer(p, body)
<1>1. a.s = p /\ a.reply = body /\ a.action = "GDB_MORE"
  BY AnswerIs
<1> HIDE DEF a
<1>2. a.reply # NoReply
  BY <1>1, RepliesDiffer
<1>3. Learn(c, Shown(a.reply)) = believed
  BY DEF Learn
<1> QED BY <1>1, <1>2, <1>3 DEF Tells, a

\* A command that keeps the program halted.
LEMMA HaltedTells ==
  ASSUME NEW c \in Commands, NEW p, IsProgram(p), believed = [x \in Cells |-> believed[x]],
         c.op \notin Resuming
  PROVE  Tells(c, p, Converse(c, p))
<1> DEFINE q == [p EXCEPT !.connected = TRUE]
           a == Converse(c, p)
<1>1. IsProgram(q) /\ q.mem = p.mem /\ q.regs = p.regs
  BY WithConnection
<1>2. Tells(c, q, a)
  <2> HIDE DEF q
  <2>1. ASSUME c.op \in {"H", "T"} PROVE Tells(c, q, ThreadCommand(c, q))
    <3>1. CASE c.wf
      BY <1>1, <2>1, <3>1, OthersTell DEF ThreadCommand, Resuming
    <3>2. CASE ~c.wf
      BY <1>1, <2>1, <3>2, ErrorTells DEF ThreadCommand
    <3> QED BY <3>1, <3>2
  <2>2. c.op = "g" => Tells(c, q, ReadRegisters(c, q))
    BY <1>1, ReadRegistersTells
  <2>3. c.op = "G" => Tells(c, q, WriteRegisters(c, q))
    BY <1>1, WriteRegistersTells
  <2>4. c.op = "P" => Tells(c, q, WriteRegister(c, q))
    BY <1>1, WriteRegisterTells
  <2>5. c.op = "m" => Tells(c, q, ReadMemory(c, q))
    BY <1>1, ReadMemoryTells
  <2>6. (c.op = "M" => Tells(c, q, WriteMemory(c, q)))
        /\ (c.op = "X" => Tells(c, q, WriteBinary(c, q)))
    BY <1>1, WritesTell
  <2>7. c.op = "?" => Tells(c, q, Answer(q, Stopped(q.signo)))
    BY <1>1, OthersTell DEF Resuming
  <2>8. c.op \in {"d", "!"} => Tells(c, q, Answer(q, OK))
    BY <1>1, OthersTell DEF Resuming
  <2>9. c.op \notin {"H", "T", "g", "G", "P", "m", "M", "X", "?", "d", "!"} =>
          Tells(c, q, Answer(q, Blank))
    BY <1>1, OthersTell
  <2>10. a = (CASE c.op \in {"H", "T"}           -> ThreadCommand(c, q)
             [] c.op = "g"                    -> ReadRegisters(c, q)
             [] c.op = "G"                    -> WriteRegisters(c, q)
             [] c.op = "P"                    -> WriteRegister(c, q)
             [] c.op = "m"                    -> ReadMemory(c, q)
             [] c.op = "M"                    -> WriteMemory(c, q)
             [] c.op = "X"                    -> WriteBinary(c, q)
             [] c.op \in {"c", "s", "C", "S"} -> Resume(c, q)
             [] c.op = "?"                    -> Answer(q, Stopped(q.signo))
             [] c.op \in {"D", "R", "k"}      -> Leave(c, q)
             [] c.op \in {"d", "!"}           -> Answer(q, OK)
             [] OTHER                         -> Answer(q, Blank))
    BY DEF Converse, q
  <2> HIDE DEF a
  <2> QED BY <2>1, <2>2, <2>3, <2>4, <2>5, <2>6, <2>7, <2>8, <2>9, <2>10 DEF Resuming
<1>3. \A x : NowOf(q, x) = NowOf(p, x)
  BY <1>1 DEF NowOf
<1> HIDE DEF q, a
<1> QED BY <1>2, <1>3 DEF Tells, a

\* A command that lets the program go: gone on with, or refused; let go; restarted; killed.
Goes(c, p, r) ==
  /\ IsProgram(r.s)
  /\ c.op \in Going =>
       \/ r.action = "GDB_MORE" /\ r.reply # NoReply /\ r.reply \notin Ended
       \/ /\ r.action = "GDB_CONT" /\ r.reply = NoReply
          /\ \A x \in Registers :
               r.s.regs[x] = CASE x = "eip" /\ c.d # << >> -> c.d[1]
                               [] x = "tf" -> IF c.op \in {"s", "S"} THEN 1 ELSE 0
                               [] OTHER -> p.regs[x]
  /\ c.op \notin Going => r.s.regs = p.regs /\ ~r.s.connected
  /\ c.op = "D" => r.action = "GDB_DETACH" /\ r.reply # NoReply
  /\ c.op = "R" => r.action = "GDB_RUN" /\ r.reply = NoReply
  /\ c.op = "k" => r.action = "GDB_KILL" /\ r.reply = NoReply

LEMMA ResumingGoes ==
  ASSUME NEW c, NEW p, IsProgram(p), c.op \in Resuming
  PROVE  Goes(c, p, Converse(c, p))
<1> DEFINE q == [p EXCEPT !.connected = TRUE]
           a == Converse(c, p)
           eip == IF c.d = << >> THEN q.regs["eip"] ELSE c.d[1]
           tf == IF c.op \in {"s", "S"} THEN 1 ELSE 0
           new == [q.regs EXCEPT !["eip"] = eip, !["tf"] = tf]
           m == [q EXCEPT !.regs["eip"] = eip, !.regs["tf"] = tf, !.signo = c.n]
           gone == [q EXCEPT !.connected = FALSE]
<1>1. IsProgram(q) /\ q.regs = p.regs
  BY WithConnection
<1>2. CASE c.op \in Going
  <2>1. a = IF ~c.wf THEN Answer(q, Error(5)) ELSE Result(m, NoReply, "GDB_CONT")
    BY <1>2 DEF Converse, Resume, Going
  <2>2. CASE ~c.wf
    BY <1>1, <1>2, <2>1, <2>2, AnswerIs, RepliesDiffer DEF Goes, Going
  <2>3. CASE c.wf
    <3>1. /\ new = [r \in Registers |-> new[r]] /\ new["eax"] = p.regs["eax"]
          /\ new["eip"] = eip /\ new["tf"] = tf
      BY <1>1 DEF IsProgram, Registers
    <3>2. IsProgram(m) /\ m.regs = new
      <4> DEFINE n == [q EXCEPT !.regs = new]
      <4>1. m = [n EXCEPT !.signo = c.n]
        BY <1>1 DEF IsProgram
      <4> HIDE DEF m, new, q
      <4>2. IsProgram(n) /\ n.regs = new
        BY <1>1, <3>1, WithRegisters
      <4> HIDE DEF n
      <4> QED BY <4>1, <4>2 DEF IsProgram
    <3>3. a.s = m /\ a.reply = NoReply /\ a.action = "GDB_CONT"
      BY <2>1, <2>3 DEF Result
    <3> HIDE DEF m, new, a
    <3>4. \A x \in Registers :
             new[x] = CASE x = "eip" /\ c.d # << >> -> c.d[1]
                        [] x = "tf" -> IF c.op \in {"s", "S"} THEN 1 ELSE 0
                        [] OTHER -> p.regs[x]
      BY <1>1, <3>1 DEF Registers
    <3> QED BY <1>2, <3>2, <3>3, <3>4 DEF Goes, Going, a
  <2> QED BY <2>2, <2>3
<1>3. CASE c.op \notin Going
  <2>1. IsProgram(gone) /\ gone.regs = p.regs /\ gone.connected = FALSE
    BY <1>1, WithConnection
  <2>2. c.op \in {"D", "R", "k"}
    BY <1>3 DEF Going, Resuming
  <2> HIDE DEF q
  <2>3. a = Leave(c, q)
    BY <2>2 DEF Converse, q
  <2>4. /\ a.s = gone
        /\ c.op = "D" => a.reply = OK /\ a.action = "GDB_DETACH"
        /\ c.op = "R" => a.reply = NoReply /\ a.action = "GDB_RUN"
        /\ c.op = "k" => a.reply = NoReply /\ a.action = "GDB_KILL"
    BY <2>2, <2>3 DEF Leave, Result
  <2> HIDE DEF a, gone
  <2> QED BY <1>3, <2>1, <2>2, <2>4, RepliesDiffer DEF Goes, a
<1> QED BY <1>2, <1>3

-----------------------------------------------------------------------------
(* What a step does to a line *)

LEMMA TokenKinds ==
  /\ IsToken(Plus) /\ Plus.kind = "+" /\ IsToken(Minus) /\ Minus.kind = "-"
  /\ IsToken(Noise) /\ Noise.kind = "noise"
  /\ \A id, body : /\ IsPacket(Packet(id, body)) /\ IsToken(Packet(id, body))
                   /\ Packet(id, body).kind = "packet" /\ Packet(id, body).good
                   /\ Packet(id, body).id = id /\ Packet(id, body).body = body
  /\ \A h : IsPacket(h) => IsToken(h) /\ h.kind = "packet"
  /\ \A h : IsToken(h) => h.kind \in {"+", "-", "noise", "packet"}
BY DEF Plus, Minus, Noise, Packet, IsToken, IsPacket

LEMMA DamagedIs ==
  ASSUME NEW h, IsToken(h)
  PROVE  /\ IsToken(Damaged(h))
         /\ h.kind = "packet" => /\ Damaged(h).kind = "packet" /\ Damaged(h).id = h.id
                                 /\ Damaged(h).body = h.body
         /\ h.kind # "packet" => Damaged(h).kind = "noise"
<1>1. CASE IsPacket(h)
  <2>1. h.kind = "packet"
    BY <1>1, TokenKinds
  <2>2. Damaged(h) = [h EXCEPT !.good = FALSE]
    BY <2>1 DEF Damaged
  <2> QED BY <1>1, <2>1, <2>2 DEF IsToken, IsPacket
<1>2. CASE h \in {Plus, Minus, Noise}
  <2>1. h.kind # "packet"
    BY <1>2, TokenKinds
  <2>2. Damaged(h) = Noise
    BY <2>1 DEF Damaged
  <2> QED BY <2>1, <2>2, TokenKinds
<1> QED BY <1>1, <1>2 DEF IsToken

\* The kinds of tokens that are counted: damage makes none of them.
Counted == {{"packet"}, {"+", "-"}, {"+"}}

\* new has no more tokens of these kinds than q, and the same ones.
NoMore(new, q, kinds) ==
  /\ Of(q, kinds) = {} => Of(new, kinds) = {}
  /\ (\A i, j \in Of(q, kinds) : i = j) => \A i, j \in Of(new, kinds) : i = j
  /\ \A i \in Of(new, kinds) : \E j \in Of(q, kinds) :
       q[j].id = new[i].id /\ q[j].body = new[i].body

LEMMA SameNoMore ==
  ASSUME NEW q, NEW kinds
  PROVE  NoMore(q, q, kinds)
BY DEF NoMore

LEMMA ExtendsLine ==
  ASSUME NEW q, IsLine(q), NEW e, IsToken(e), NEW new, Extends(new, q, e)
  PROVE  /\ IsLine(new)
         /\ \A kinds : e.kind \notin kinds => Of(new, kinds) = Of(q, kinds) /\ NoMore(new, q, kinds)
<1>1. Len(q) \in Nat /\ Len(new) \in Nat /\ Len(new) >= Len(q)
  BY DEF Extends
<1>2. ASSUME NEW i \in 1..Len(new)
      PROVE  (i \in 1..Len(q) /\ new[i] = q[i]) \/ (i \notin 1..Len(q) /\ new[i] = e)
  <2>1. CASE i \in 1..Len(q)
    BY <2>1 DEF Extends
  <2>2. CASE i \notin 1..Len(q)
    <3>1. i \in Len(q)+1..Len(new)
      BY <1>1, <2>2
    <3> QED BY <2>2, <3>1 DEF Extends
  <2> QED BY <2>1, <2>2
<1>3. IsLine(new)
  <2>1. \A i \in 1..Len(new) : IsToken(new[i])
    BY <1>2 DEF IsLine
  <2> QED BY <2>1 DEF IsLine, Extends
<1>4. ASSUME NEW kinds, e.kind \notin kinds
      PROVE  Of(new, kinds) = Of(q, kinds) /\ NoMore(new, q, kinds)
  <2>1. \A i \in 1..Len(q) : i \in 1..Len(new) /\ new[i] = q[i]
    BY <1>1 DEF Extends
  <2>2. Of(new, kinds) = Of(q, kinds) /\ \A i \in Of(q, kinds) : new[i] = q[i]
    BY <1>2, <1>4, <2>1 DEF Of
  <2> QED BY <2>2 DEF NoMore
<1> QED BY <1>3, <1>4

LEMMA ThinsLine ==
  ASSUME NEW q, IsLine(q), NEW new, Thins(new, q)
  PROVE  /\ IsLine(new)
         /\ \A kinds \in Counted : NoMore(new, q, kinds)
<1>1. PICK f \in [1..Len(new) -> 1..Len(q)] :
        /\ \A i \in 1..Len(new) : new[i] \in {q[f[i]], Damaged(q[f[i]])}
        /\ \A i, j \in 1..Len(new) : i < j => f[i] < f[j]
  BY DEF Thins
<1>2. ASSUME NEW i \in 1..Len(new)
      PROVE  /\ f[i] \in 1..Len(q) /\ IsToken(new[i]) /\ IsToken(q[f[i]])
             /\ new[i].kind = "noise" \/ new[i].kind = q[f[i]].kind
             /\ new[i].kind = "packet" => new[i].id = q[f[i]].id /\ new[i].body = q[f[i]].body
             /\ new[i].kind \notin {"packet", "noise"} => new[i] = q[f[i]]
  <2>1. f[i] \in 1..Len(q)
    BY <1>2
  <2>2. IsToken(q[f[i]])
    BY <2>1 DEF IsLine
  <2>3. CASE new[i] = q[f[i]]
    BY <2>1, <2>2, <2>3
  <2>4. CASE new[i] = Damaged(q[f[i]])
    BY <2>1, <2>2, <2>4, DamagedIs
  <2> QED BY <1>1, <2>3, <2>4
<1>3. IsLine(new)
  BY <1>2 DEF IsLine, Thins
<1>4. ASSUME NEW kinds \in Counted PROVE NoMore(new, q, kinds)
  <2>1. "noise" \notin kinds
    BY DEF Counted
  <2>2. \A i \in Of(new, kinds) : i \in 1..Len(new) /\ f[i] \in Of(q, kinds)
    BY <1>2, <2>1 DEF Of
  <2>3. \A i \in Of(new, kinds) : q[f[i]].id = new[i].id /\ q[f[i]].body = new[i].body
    BY <1>2, <2>1 DEF Of
  <2>4. ASSUME \A i, j \in Of(q, kinds) : i = j,
               NEW i \in Of(new, kinds), NEW j \in Of(new, kinds)
        PROVE  i = j
    <3>1. f[i] = f[j] /\ i \in 1..Len(new) /\ j \in 1..Len(new)
      BY <2>2, <2>4
    <3>2. Len(new) \in Nat /\ Len(q) \in Nat
      BY QueueIs DEF IsLine, Thins
    <3>3. i \in Int /\ j \in Int /\ f[i] \in Int /\ f[j] \in Int
      BY <3>1, <3>2
    <3>4. ~(i < j) /\ ~(j < i)
      BY <1>1, <3>1, <3>3
    <3> QED BY <3>3, <3>4
  <2> QED BY <2>2, <2>3, <2>4 DEF NoMore
<1> QED BY <1>3, <1>4

\* A first token of these kinds is appended, or the last one taken away.
LEMMA FirstOf ==
  ASSUME NEW q, IsLine(q), NEW e, IsToken(e), NEW kinds, Of(q, kinds) = {}
  PROVE  /\ IsLine(Append(q, e)) /\ Len(Append(q, e)) = Len(q) + 1
         /\ \A i \in Of(Append(q, e), kinds) : i = Len(q) + 1 /\ Append(q, e)[i] = e
         /\ e.kind \in kinds => Len(q) + 1 \in Of(Append(q, e), kinds)
<1> DEFINE new == Append(q, e)
<1>1. Extends(new, q, e) /\ Len(new) = Len(q) + 1
  BY AppendExtends DEF IsLine
<1> HIDE DEF new
<1>2. IsLine(new) /\ Len(q) \in Nat
  BY <1>1, ExtendsLine DEF Extends
<1>3. \A i \in 1..Len(new) : (i \in 1..Len(q) /\ new[i] = q[i]) \/ (i = Len(q) + 1 /\ new[i] = e)
  <2>1. \A i \in 1..Len(new) : i \in 1..Len(q) \/ (i \in Len(q)+1..Len(new) /\ i = Len(q) + 1)
    BY <1>1, <1>2
  <2> QED BY <1>1, <2>1 DEF Extends
<1>4. \A i \in 1..Len(q) : q[i].kind \notin kinds
  BY DEF Of
<1>5. \A i \in Of(new, kinds) : i = Len(q) + 1 /\ new[i] = e
  BY <1>3, <1>4 DEF Of
<1>6. Len(q) + 1 \in 1..Len(new) /\ new[Len(q) + 1] = e
  BY <1>1, <1>2 DEF Extends
<1>7. e.kind \in kinds => Len(q) + 1 \in Of(new, kinds)
  BY <1>6 DEF Of
<1> QED BY <1>1, <1>2, <1>5, <1>7 DEF new

LEMMA LastOf ==
  ASSUME NEW q, IsLine(q), q # << >>, NEW kinds, Head(q).kind \in kinds,
         \A i, j \in Of(q, kinds) : i = j
  PROVE  Of(Tail(q), kinds) = {}
<1>1. /\ Len(q) \in Nat /\ Len(q) > 0 /\ Len(Tail(q)) = Len(q) - 1 /\ Head(q) = q[1]
      /\ \A i \in 1..Len(q)-1 : Tail(q)[i] = q[i+1]
  BY TailIs DEF IsLine
<1>2. 1 \in Of(q, kinds)
  BY <1>1 DEF Of
<1>3. ASSUME NEW i \in Of(Tail(q), kinds) PROVE FALSE
  <2>1. i \in 1..Len(q)-1 /\ Tail(q)[i].kind \in kinds
    BY <1>1, <1>3 DEF Of
  <2>2. i + 1 \in 1..Len(q) /\ q[i+1].kind \in kinds /\ i + 1 # 1
    BY <1>1, <2>1
  <2>3. i + 1 \in Of(q, kinds)
    BY <2>2 DEF Of
  <2> QED BY <1>2, <2>2, <2>3
<1> QED BY <1>3

LEMMA TailOf ==
  ASSUME NEW q, IsLine(q), q # << >>
  PROVE  /\ IsLine(Tail(q)) /\ IsToken(Head(q)) /\ Head(q) = q[1]
         /\ \A kinds \in Counted : NoMore(Tail(q), q, kinds)
         /\ \A kinds : /\ Head(q).kind \in kinds => 1 \in Of(q, kinds)
                       /\ Head(q).kind \notin kinds /\ Of(q, kinds) # {} => Of(Tail(q), kinds) # {}
<1>1. /\ Len(q) \in Nat /\ Len(q) > 0 /\ Len(Tail(q)) = Len(q) - 1 /\ Head(q) = q[1]
      /\ \A i \in 1..Len(q)-1 : Tail(q)[i] = q[i+1]
  BY TailIs DEF IsLine
<1>2. IsLine(Tail(q)) /\ \A kinds \in Counted : NoMore(Tail(q), q, kinds)
  <2>1. Thins(Tail(q), q)
    BY TailThins DEF IsLine
  <2> QED BY <2>1, ThinsLine
<1>3. 1 \in 1..Len(q)
  BY <1>1
<1>4. IsToken(Head(q))
  BY <1>1, <1>3 DEF IsLine
<1>5. ASSUME NEW kinds, Head(q).kind \notin kinds, NEW i \in Of(q, kinds)
      PROVE  Of(Tail(q), kinds) # {}
  <2>1. i \in 1..Len(q) /\ q[i].kind \in kinds /\ i # 1
    BY <1>1, <1>5 DEF Of
  <2>2. i - 1 \in 1..Len(q)-1 /\ (i - 1) + 1 = i
    BY <1>1, <2>1
  <2>3. Tail(q)[i-1] = q[i] /\ i - 1 \in 1..Len(Tail(q))
    BY <1>1, <2>2
  <2>4. i - 1 \in Of(Tail(q), kinds)
    BY <2>1, <2>3 DEF Of
  <2> QED BY <2>4
<1>6. \A kinds : Head(q).kind \in kinds => 1 \in Of(q, kinds)
  BY <1>1, <1>3 DEF Of
<1> QED BY <1>1, <1>2, <1>4, <1>5, <1>6

LEMMA OneToken ==
  ASSUME NEW e
  PROVE  << >> \in Seq({e}) /\ IsLine(<< >>) /\ Append(<< >>, e) = <<e>>
<1>1. << >> \in Seq({e}) /\ Len(<< >>) = 0
  BY EmptySeq
<1>2. IsQueue(<< >>)
  BY <1>1, SeqIsQueue
<1>3. \A i \in 1..Len(<< >>) : FALSE
  BY <1>1
<1> QED BY <1>1, <1>2, <1>3 DEF IsLine

-----------------------------------------------------------------------------
(* Types *)

LEMMA StubTyped ==
  ASSUME LinesTyped, IsLine(toStub'), NoMore(toStub', toStub, {"packet"})
  PROVE  \A i \in Requests' : toStub'[i].body \in Commands
BY DEF LinesTyped, NoMore, Requests

LEMMA StubGets ==
  ASSUME LinesTyped, NEW e, IsToken(e), e.kind = "packet" => e.body \in Commands,
         toStub' = Append(toStub, e)
  PROVE  IsLine(toStub') /\ \A i \in Requests' : toStub'[i].body \in Commands
<1>1. Extends(toStub', toStub, e) /\ IsLine(toStub)
  BY AppendExtends DEF LinesTyped, IsLine
<1>2. IsLine(toStub')
  BY <1>1, ExtendsLine
<1>3. Len(toStub) \in Nat /\ Len(toStub') \in Nat
  BY <1>1 DEF Extends
<1>4. ASSUME NEW i \in Requests' PROVE toStub'[i].body \in Commands
  <2>1. i \in 1..Len(toStub') /\ toStub'[i].kind = "packet"
    BY <1>4 DEF Requests, Of
  <2>2. CASE i \in 1..Len(toStub)
    <3>1. toStub'[i] = toStub[i] /\ i \in Requests
      BY <1>1, <2>1, <2>2 DEF Extends, Requests, Of
    <3> QED BY <3>1 DEF LinesTyped
  <2>3. CASE i \notin 1..Len(toStub)
    <3>1. i \in Len(toStub)+1..Len(toStub')
      BY <1>3, <2>1, <2>3
    <3> QED BY <1>1, <2>1, <3>1 DEF Extends
  <2> QED BY <2>2, <2>3
<1> QED BY <1>2, <1>4

LEMMA StubReads ==
  ASSUME LinesTyped, toStub # << >>, toStub' = Tail(toStub)
  PROVE  /\ IsLine(toStub') /\ \A i \in Requests' : toStub'[i].body \in Commands
         /\ NoMore(toStub', toStub, {"packet"}) /\ IsToken(Head(toStub))
         /\ Head(toStub).kind = "packet" => 1 \in Requests /\ Head(toStub) = toStub[1]
                                            /\ Head(toStub).body \in Commands
<1>1. /\ IsLine(toStub') /\ NoMore(toStub', toStub, {"packet"}) /\ IsToken(Head(toStub))
      /\ Head(toStub).kind = "packet" => 1 \in Requests /\ Head(toStub) = toStub[1]
  BY TailOf DEF LinesTyped, Requests, Counted
<1> QED BY <1>1, StubTyped DEF LinesTyped

LEMMA GdbReads_ ==
  ASSUME LinesTyped, toGdb # << >>, toGdb' = Tail(toGdb)
  PROVE  IsLine(toGdb') /\ IsToken(Head(toGdb))
BY TailOf DEF LinesTyped

LEMMA GdbGets ==
  ASSUME IsLine(toGdb), NEW e, IsToken(e), toGdb' = Append(toGdb, e)
  PROVE  IsLine(toGdb') /\ Extends(toGdb', toGdb, e)
<1>1. Extends(toGdb', toGdb, e)
  BY AppendExtends DEF IsLine
<1> QED BY <1>1, ExtendsLine

LEMMA GdbMoves ==
  ASSUME GdbTyped, NEW m \in {"away", "idle", "gone"} \cup Busy, gdb' = [gdb EXCEPT !.mode = m]
  PROVE  /\ gdb'.mode = m /\ gdb'.cmd = gdb.cmd /\ gdb'.id = gdb.id
         /\ gdb' = [mode |-> gdb'.mode, cmd |-> gdb'.cmd, id |-> gdb'.id]
BY DEF GdbTyped

\* The machine gives the registers of the program to the stub.
LEMMA ProgramMoves ==
  ASSUME MachineTyped, NEW trapno, NEW eax, t' = [t EXCEPT !["eax"] = eax]
  PROVE  LET p == [s EXCEPT !.regs = t', !.signo = Signal(trapno)] IN
         IsProgram(p) /\ p.regs = t' /\ p.mem = s.mem /\ p.connected = s.connected
         /\ t' = [r \in Registers |-> t'[r]]
<1>1. t' = [r \in Registers |-> t'[r]]
  BY DEF MachineTyped
<1> DEFINE new == t'
           q == [s EXCEPT !.regs = new]
           p == [q EXCEPT !.signo = Signal(trapno)]
<1>2. [s EXCEPT !.regs = t', !.signo = Signal(trapno)] = p
  BY DEF MachineTyped, IsProgram
<1> HIDE DEF new
<1>3. IsProgram(q) /\ q.regs = new /\ q.mem = s.mem /\ q.connected = s.connected
  BY <1>1, WithRegisters DEF MachineTyped, IsProgram, new
<1> HIDE DEF q
<1>4. IsProgram(p) /\ p.regs = q.regs /\ p.mem = q.mem /\ p.connected = q.connected
  BY <1>3 DEF IsProgram
<1> QED BY <1>1, <1>2, <1>3, <1>4 DEF new

LEMMA TrapDoes ==
  ASSUME SessionTyped, Trap
  PROVE  /\ pc = "run" /\ UNCHANGED <<do_debug, installed, cause, toStub, debugger,
                 executed, faults, ackDamaged, goodbyeLost, early, reports>>
         /\ IsProgram(s') /\ s'.mem = s.mem /\ s'.connected = s.connected
         /\ t' = [r \in Registers |-> t'[r]]
         /\ \/ /\ do_debug /\ pc' = "ack" /\ next' = "get" /\ UNCHANGED screen
               /\ \E n : reply' = Packet(cause, Stopped(n))
               /\ toGdb' = Append(toGdb, reply')
            \/ pc' = "dump" /\ UNCHANGED <<next, reply, toGdb>>
<1>1. PICK trapno \in TRAPNOS, eax \in Values :
       LET program == [s EXCEPT !.regs = t', !.signo = Signal(trapno)] IN
       /\ t' = [t EXCEPT !["eax"] = eax]
       /\ IF do_debug THEN EnterStub(program) /\ UNCHANGED screen
          ELSE /\ s' = program /\ pc' = "dump" /\ screen' = "dump"
               /\ UNCHANGED <<next, reply, toGdb>>
  BY Zenon DEF Trap
<1> DEFINE p == [s EXCEPT !.regs = t', !.signo = Signal(trapno)]
<1>2. IsProgram(p) /\ p.mem = s.mem /\ p.connected = s.connected /\ t' = [r \in Registers |-> t'[r]]
  BY <1>1, ProgramMoves DEF SessionTyped
<1>3. \/ do_debug /\ EnterStub(p) /\ UNCHANGED screen
      \/ s' = p /\ pc' = "dump" /\ UNCHANGED <<next, reply, toGdb>>
  BY <1>1
<1> HIDE DEF p
<1>4. CASE do_debug /\ EnterStub(p) /\ UNCHANGED screen
  <2>1. s' = p /\ pc' = "ack" /\ next' = "get" /\ reply' = Packet(cause, Stopped(p.signo))
        /\ toGdb' = Append(toGdb, Packet(cause, Stopped(p.signo)))
    BY <1>4 DEF EnterStub, Send
  <2> QED BY <1>2, <1>4, <2>1 DEF Trap
<1>5. CASE s' = p /\ pc' = "dump" /\ UNCHANGED <<next, reply, toGdb>>
  BY <1>2, <1>5 DEF Trap
<1> QED BY <1>3, <1>4, <1>5

\* The stub disconnects when it says that the program has ended.
Says(body) == s'.connected => body \notin Ended

LEMMA ProgramReportsDoes ==
  ASSUME SessionTyped, ProgramReports
  PROVE  /\ pc \in {"run", "dump"}
         /\ UNCHANGED <<t, do_debug, installed, screen, cause, toStub, debugger,
                 executed, faults, ackDamaged, goodbyeLost, early, traps>>
         /\ IsProgram(s') /\ s'.mem = s.mem /\ s'.regs = s.regs
         /\ s'.connected => s.connected
         /\ \/ /\ installed /\ s.connected /\ pc' = "ack" /\ next' \in {"run", "off"}
               /\ \E body \in Said : reply' = Packet(0, body) /\ Says(body)
               /\ toGdb' = Append(toGdb, reply')
               /\ next' = "run" => pc = "run"
            \/ /\ pc' \in {"run", "off"} /\ UNCHANGED <<next, reply, s>>
               /\ toGdb' = toGdb \/ toGdb' = Append(toGdb, Noise)
               /\ pc' = "run" => pc = "run"
<1>1. ASSUME NEW letter \in {"O", "X", "W"}, NEW then \in {"run", "off"}, Report(letter, then)
      PROVE  /\ IsProgram(s') /\ s'.mem = s.mem /\ s'.regs = s.regs
             /\ s'.connected => s.connected
             /\ \/ /\ installed /\ s.connected /\ pc' = "ack" /\ next' = then
                   /\ \E body \in Said : reply' = Packet(0, body) /\ Says(body)
                   /\ toGdb' = Append(toGdb, reply')
                \/ /\ pc' = then /\ UNCHANGED <<next, reply, s>>
                   /\ toGdb' = toGdb \/ toGdb' = Append(toGdb, Noise)
  <2>0. IsProgram(s)
    BY DEF SessionTyped, MachineTyped
  <2>1. CASE installed /\ s.connected
    <3>1. Send(0, <<letter>>, then) /\ s' = [s EXCEPT !.connected = (letter = "O")]
      BY <1>1, <2>1 DEF Report
    <3>2. IsProgram(s') /\ s'.mem = s.mem /\ s'.regs = s.regs
      BY <2>0, <3>1, WithConnection
    <3>3. <<letter>> \in Said /\ (<<letter>> \in Ended => letter # "O")
      BY DEF Said, Ended
    <3>4. s'.connected = (letter = "O") /\ (s'.connected => s.connected)
      BY <2>0, <2>1, <3>1, WithConnection
    <3>5. Says(<<letter>>)
      BY <3>3, <3>4 DEF Says
    <3> QED BY <2>1, <3>1, <3>2, <3>3, <3>4, <3>5 DEF Send
  <2>2. CASE ~(installed /\ s.connected)
    BY <1>1, <2>0, <2>2 DEF Report
  <2> QED BY <2>1, <2>2
<1>2. \/ pc = "run" /\ (Report("O", "run") \/ Report("X", "run"))
      \/ pc \in {"run", "dump"} /\ Report("W", "off")
  BY DEF ProgramReports, gdb_serial_puts, gdb_serial_killed, gdb_serial_exit
<1>3. UNCHANGED <<t, do_debug, installed, screen, cause, toStub, debugger,
                 executed, faults, ackDamaged, goodbyeLost, early, traps>>
  BY DEF ProgramReports
<1>4. CASE pc = "run" /\ (Report("O", "run") \/ Report("X", "run"))
  BY <1>1, <1>3, <1>4
<1>5. CASE pc \in {"run", "dump"} /\ Report("W", "off")
  BY <1>1, <1>3, <1>5
<1> QED BY <1>2, <1>4, <1>5

LEMMA DebugKeyDoes ==
  ASSUME SessionTyped, DebugKey
  PROVE  /\ pc = "dump" /\ screen' = "program" /\ do_debug' /\ installed'
         /\ s' = s /\ pc' = "ack" /\ next' = "get"
         /\ UNCHANGED <<t, cause, toStub, debugger, history>>
         /\ \E n : reply' = Packet(cause, Stopped(n))
         /\ toGdb' = Append(toGdb, reply')
BY DEF DebugKey, EnterStub, Send

\* The stub takes the command c, the packet id: what it does of the line, and how
\* it answers and goes on.
Takes(c, id) ==
  /\ pc = "get" /\ toStub # << >> /\ Head(toStub).kind = "packet"
  /\ Head(toStub).body = c /\ Head(toStub).id = id
  /\ toStub' = Tail(toStub) /\ executed' = [executed EXCEPT ![id] = @ + 1]
  /\ UNCHANGED <<installed, screen, debugger,
                 faults, ackDamaged, goodbyeLost, early, traps, reports>>

Replies(id, body, then) ==
  /\ toGdb' = Append(Append(toGdb, Plus), Packet(id, body)) /\ reply' = Packet(id, body)
  /\ pc' = "ack" /\ next' = then

GoesOn(then) == toGdb' = Append(toGdb, Plus) /\ pc' = then /\ UNCHANGED <<next, reply>>

MeantBy(c, x) ==
  CASE x = "eip" /\ c.d # << >> -> c.d[1]
    [] x = "tf" -> IF c.op \in {"s", "S"} THEN 1 ELSE 0
    [] OTHER -> s.regs[x]

Halts(c, id) == c.op \notin Resuming /\ \E r :
  Tells(c, s, r) /\ s' = r.s /\ t' = t /\ cause' = cause /\ Replies(id, r.reply, "get")
Refuses(c, id) == c.op \in Going /\ \E body :
  body \notin Ended /\ IsProgram(s') /\ t' = t /\ cause' = cause /\ Replies(id, body, "get")
Continues(c, id) ==
  /\ c.op \in Going /\ IsProgram(s') /\ \A x \in Registers : s'.regs[x] = MeantBy(c, x)
  /\ t' = s'.regs /\ cause' = id /\ GoesOn("run")
LetsGo(c, id) == c.op = "D" /\ ~s'.connected /\ \E body :
  IsProgram(s') /\ s'.regs = s.regs /\ t' = s.regs /\ cause' = cause /\ Replies(id, body, "run")
Restarts(c, id) == c.op \in {"R", "k"} /\ ~s'.connected /\ \E then \in {"run", "off"} :
  /\ IsProgram(s') /\ s'.regs = s.regs /\ t' = s.regs /\ cause' = cause /\ GoesOn(then)
  /\ c.op = "k" => then = "off"

LEMMA ReplyEither ==
  ASSUME NEW id, NEW body, NEW then, IsLine(toGdb),
         IF body = NoReply
         THEN /\ toGdb' = Append(toGdb, Plus)
              /\ pc' = then /\ UNCHANGED <<next, reply>>
         ELSE /\ toGdb' = toGdb \o <<Plus, Packet(id, body)>>
              /\ reply' = Packet(id, body)
              /\ pc' = "ack" /\ next' = then
  PROVE  /\ body = NoReply => GoesOn(then)
         /\ body # NoReply => Replies(id, body, then)
<1>1. CASE body = NoReply
  BY <1>1 DEF GoesOn
<1>2. CASE body # NoReply
  BY <1>2, PairAppended DEF Replies, IsLine
<1> QED BY <1>1, <1>2

LEMMA TakeCommandDoes ==
  ASSUME SessionTyped, TakeCommand
  PROVE  \E c, id :
           /\ c \in Commands /\ Takes(c, id) /\ IsProgram(s')
           /\ Halts(c, id) \/ Refuses(c, id) \/ Continues(c, id) \/ LetsGo(c, id) \/ Restarts(c, id)
<1> DEFINE c == Head(toStub).body
           id == Head(toStub).id
           r == Converse(c, s)
           then == Continuation(r.action)
<1>1. pc = "get" /\ toStub # << >> /\ Head(toStub).kind = "packet" /\ toStub' = Tail(toStub)
  BY DEF TakeCommand, Arrives
<1>2. c \in Commands
  BY <1>1, StubReads DEF SessionTyped
<1>3. /\ s' = r.s /\ t' = WrittenBack(r.action, r.s.regs)
      /\ executed' = [executed EXCEPT ![id] = @ + 1]
      /\ cause' = IF r.action = "GDB_CONT" THEN id ELSE cause
      /\ IF r.reply = NoReply
         THEN /\ toGdb' = Append(toGdb, Plus)
              /\ pc' = then /\ UNCHANGED <<next, reply>>
         ELSE /\ toGdb' = toGdb \o <<Plus, Packet(id, r.reply)>>
              /\ reply' = Packet(id, r.reply)
              /\ pc' = "ack" /\ next' = then
  BY DEF TakeCommand
<1>4. Takes(c, id)
  BY <1>1, <1>3 DEF TakeCommand, Takes
<1>5. /\ r.reply = NoReply => GoesOn(then)
      /\ r.reply # NoReply => Replies(id, r.reply, then)
  <2>1. IsLine(toGdb)
    BY DEF SessionTyped, LinesTyped
  <2> HIDE DEF c, id, r, then
  <2> QED BY <1>3, <2>1, ReplyEither
<1>6. IsProgram(s) /\ believed = [x \in Cells |-> believed[x]]
  BY DEF SessionTyped, MachineTyped, GdbTyped
<1> HIDE DEF c, id
<1>7. CASE c.op \notin Resuming
  <2>1. Tells(c, s, r)
    BY <1>2, <1>6, <1>7, HaltedTells
  <2> HIDE DEF r
  <2>2. r.action = "GDB_MORE" /\ r.reply # NoReply /\ IsProgram(r.s)
    BY <2>1 DEF Tells
  <2>3. then = "get" /\ t' = t /\ cause' = cause
    BY <1>3, <2>2 DEF Continuation, WrittenBack
  <2>4. Halts(c, id)
    BY <1>3, <1>5, <1>7, <2>1, <2>2, <2>3 DEF Halts
  <2> QED BY <1>2, <1>3, <1>4, <2>2, <2>4
<1>8. CASE c.op \in Resuming
  <2>1. Goes(c, s, r)
    BY <1>6, <1>8, ResumingGoes
  <2> HIDE DEF r
  <2>2. IsProgram(s')
    BY <1>3, <2>1 DEF Goes
  <2>3. CASE c.op \in Going
    <3>1. CASE r.action = "GDB_MORE" /\ r.reply # NoReply /\ r.reply \notin Ended
      <4>1. then = "get" /\ t' = t /\ cause' = cause
        BY <1>3, <3>1 DEF Continuation, WrittenBack
      <4>2. Refuses(c, id)
        BY <1>5, <2>2, <2>3, <3>1, <4>1 DEF Refuses
      <4> QED BY <1>2, <1>4, <2>2, <4>2
    <3>2. CASE ~(r.action = "GDB_MORE" /\ r.reply # NoReply /\ r.reply \notin Ended)
      <4>1. /\ r.action = "GDB_CONT" /\ r.reply = NoReply
            /\ \A x \in Registers : r.s.regs[x] = MeantBy(c, x)
        BY <2>1, <2>3, <3>2, Zenon DEF Goes, MeantBy
      <4>2. then = "run" /\ t' = s'.regs /\ cause' = id
        BY <1>3, <4>1 DEF Continuation, WrittenBack
      <4>3. Continues(c, id)
        BY <1>3, <1>5, <2>2, <2>3, <4>1, <4>2 DEF Continues
      <4> QED BY <1>2, <1>4, <2>2, <4>3
    <3> QED BY <3>1, <3>2
  <2>4. CASE c.op = "D"
    <3>1. r.action = "GDB_DETACH" /\ r.reply # NoReply /\ r.s.regs = s.regs
          /\ ~s'.connected
      BY <1>3, <2>1, <2>4 DEF Goes, Going
    <3>2. then = "run" /\ t' = s.regs /\ cause' = cause
      BY <1>3, <3>1 DEF Continuation, WrittenBack
    <3>3. LetsGo(c, id)
      BY <1>3, <1>5, <2>2, <2>4, <3>1, <3>2 DEF LetsGo
    <3> QED BY <1>2, <1>4, <2>2, <3>3
  <2>5. CASE c.op \in {"R", "k"}
    <3>1. r.action = (IF c.op = "k" THEN "GDB_KILL" ELSE "GDB_RUN") /\ r.reply = NoReply
          /\ r.s.regs = s.regs /\ ~s'.connected
      BY <1>3, <2>1, <2>5 DEF Goes, Going
    <3>2. then = (IF c.op = "k" THEN "off" ELSE "run") /\ t' = s.regs /\ cause' = cause
      BY <1>3, <3>1 DEF Continuation, WrittenBack
    <3>3. Restarts(c, id)
      <4> HIDE DEF then
      <4> QED BY <1>3, <1>5, <2>2, <2>5, <3>1, <3>2 DEF Restarts
    <3> QED BY <1>2, <1>4, <2>2, <3>3
  <2>6. c.op \in Going \/ c.op = "D" \/ c.op \in {"R", "k"}
    BY <1>8 DEF Resuming, Going
  <2> QED BY <2>3, <2>4, <2>5, <2>6
<1> QED BY <1>7, <1>8

\* The acknowledgements of a line stay when something else is damaged or lost.
LEMMA OthersStay ==
  ASSUME NEW q, IsQueue(q), NEW k \in 1..Len(q), q[k].kind # "+", Of(q, {"+"}) # {},
         NEW new, new = [q EXCEPT ![k] = Damaged(@)] \/ new = RemoveAt(q, k)
  PROVE  Of(new, {"+"}) # {}
<1>1. PICK j \in 1..Len(q) : q[j].kind = "+" /\ j # k
  BY DEF Of
<1>2. Len(q) \in Nat
  BY QueueIs
<1>3. CASE new = [q EXCEPT ![k] = Damaged(@)]
  <2>1. PICK S : q \in Seq(S) /\ Damaged(q[k]) \in S
    BY InCommon
  <2>2. Len(new) = Len(q) /\ new[j] = q[j]
    BY <1>1, <1>2, <1>3, <2>1, ExceptSeq
  <2>3. j \in Of(new, {"+"})
    BY <1>1, <2>2 DEF Of
  <2> QED BY <2>3
<1>4. CASE new = RemoveAt(q, k)
  <2> DEFINE i == IF j < k THEN j ELSE j - 1
  <2>1. /\ Len(new) = Len(q) - 1
        /\ \A x \in 1..Len(q)-1 : new[x] = IF x < k THEN q[x] ELSE q[x+1]
    BY <1>4, RemoveIs
  <2>2. i \in 1..Len(q)-1 /\ (i < k => i = j) /\ (~(i < k) => i + 1 = j)
    BY <1>1, <1>2
  <2> HIDE DEF i
  <2>3. new[i] = q[j]
    BY <2>1, <2>2
  <2>4. i \in Of(new, {"+"})
    BY <1>1, <2>1, <2>2, <2>3 DEF Of
  <2> QED BY <2>4
<1> QED BY <1>3, <1>4

LEMMA FaultDoes ==
  ASSUME SessionTyped, Fault
  PROVE  /\ UNCHANGED <<machine, debugger, executed, early, traps, reports>>
         /\ toStub' = toStub \/ Thins(toStub', toStub)
         /\ toGdb' = toGdb \/ Thins(toGdb', toGdb)
         /\ toGdb' = toGdb \/ ackDamaged' \/
              /\ ackDamaged => ackDamaged'
              /\ Of(toGdb, {"+"}) # {} => Of(toGdb', {"+"}) # {}
<1>1. UNCHANGED <<machine, debugger, executed, early, traps, reports>>
  BY DEF Fault
<1>2. IsLine(toStub) /\ IsQueue(toStub) /\ IsLine(toGdb) /\ IsQueue(toGdb)
  BY DEF SessionTyped, LinesTyped, IsLine
<1>3. CASE \E i \in DOMAIN toStub :
          /\ toStub' \in {[toStub EXCEPT ![i] = Damaged(@)], RemoveAt(toStub, i)}
          /\ UNCHANGED toGdb
  <2>1. PICK i \in DOMAIN toStub :
          /\ toStub' = [toStub EXCEPT ![i] = Damaged(@)] \/ toStub' = RemoveAt(toStub, i)
          /\ UNCHANGED toGdb
    BY <1>3
  <2>2. i \in 1..Len(toStub)
    BY <1>2, QueueIs
  <2>3. Thins(toStub', toStub)
    BY <1>2, <2>1, <2>2, DamageThins, RemoveThins
  <2> QED BY <1>1, <2>1, <2>3
<1>4. CASE \E i \in DOMAIN toGdb :
          /\ toGdb' \in {[toGdb EXCEPT ![i] = Damaged(@)], RemoveAt(toGdb, i)}
          /\ ackDamaged' = (ackDamaged \/ toGdb[i].kind # "packet")
          /\ UNCHANGED toStub
  <2>1. PICK i \in DOMAIN toGdb :
          /\ toGdb' = [toGdb EXCEPT ![i] = Damaged(@)] \/ toGdb' = RemoveAt(toGdb, i)
          /\ ackDamaged' = (ackDamaged \/ toGdb[i].kind # "packet")
          /\ UNCHANGED toStub
    BY <1>4
  <2>2. i \in 1..Len(toGdb) /\ Len(toGdb) \in Nat
    BY <1>2, QueueIs
  <2>3. Thins(toGdb', toGdb)
    BY <1>2, <2>1, <2>2, DamageThins, RemoveThins
  <2>4. CASE toGdb[i].kind # "packet"
    BY <1>1, <2>1, <2>3, <2>4
  <2>5. CASE toGdb[i].kind = "packet"
    <3>1. Of(toGdb, {"+"}) # {} => Of(toGdb', {"+"}) # {}
      BY <1>2, <2>1, <2>2, <2>5, OthersStay
    <3> QED BY <1>1, <2>1, <2>3, <2>5, <3>1
  <2> QED BY <2>4, <2>5
<1>5. \/ \E i \in DOMAIN toStub :
          /\ toStub' \in {[toStub EXCEPT ![i] = Damaged(@)], RemoveAt(toStub, i)}
          /\ UNCHANGED toGdb
      \/ \E i \in DOMAIN toGdb :
          /\ toGdb' \in {[toGdb EXCEPT ![i] = Damaged(@)], RemoveAt(toGdb, i)}
          /\ ackDamaged' = (ackDamaged \/ toGdb[i].kind # "packet")
          /\ UNCHANGED toStub
  BY Zenon DEF Fault
<1> QED BY <1>3, <1>4, <1>5

\* What gdb reads when it waits for the acknowledgement of its command.
GdbReadsAckDoes(h) ==
  \/ /\ h.kind = "+" /\ UNCHANGED toStub
     /\ gdb' = [gdb EXCEPT !.mode = AfterAck(gdb.cmd)]
  \/ h.kind = "-" /\ toStub' = Append(toStub, Packet(gdb.id, gdb.cmd)) /\ UNCHANGED gdb
  \/ /\ h.kind \in {"packet", "noise"} /\ UNCHANGED gdb
     /\ toStub' = toStub \/ \E e \in {Plus, Minus} : toStub' = Append(toStub, e)

LEMMA GdbReadsAckIs ==
  ASSUME GdbReadsAck
  PROVE  /\ gdb.mode = "sent" /\ toGdb # << >> /\ toGdb' = Tail(toGdb)
         /\ UNCHANGED <<machine, believed, meant, accepted, history>>
         /\ GdbReadsAckDoes(Head(toGdb))
BY DEF GdbReadsAck, GdbReadsAckDoes

LEMMA SendAgainDoes ==
  ASSUME SessionTyped, SendAgain
  PROVE  /\ pc = "ack" /\ toStub # << >> /\ Extends(toGdb', toGdb, reply)
         /\ toStub' = Tail(toStub) /\ UNCHANGED <<machine, debugger, history>>
<1> DEFINE times == IF Head(toStub).kind = "packet" THEN COPIES ELSE 1
<1>1. times \in Nat
  BY SessionConstants
<1>2. toGdb' = toGdb \o [i \in 1..times |-> reply]
  BY DEF SendAgain
<1>3. IsQueue(toGdb)
  BY DEF SessionTyped, LinesTyped, IsLine
<1> HIDE DEF times
<1>4. Extends(toGdb', toGdb, reply)
  BY <1>1, <1>2, <1>3, CopiesExtend
<1> QED BY <1>4 DEF SendAgain, Arrives

LEMMA SilenceDoes ==
  ASSUME SessionTyped, Silence
  PROVE  /\ gdb.mode \in Busy /\ toGdb = << >>
         /\ UNCHANGED <<machine, toGdb, believed, meant, accepted, history>>
         /\ \/ pc = "off" /\ gdb' = [gdb EXCEPT !.mode = "gone"] /\ UNCHANGED toStub
            \/ /\ pc # "off" /\ toStub = << >> /\ UNCHANGED gdb
               /\ \E e \in {Packet(gdb.id, gdb.cmd), Minus} :
                    toStub' = Append(toStub, e) /\ (e.kind = "packet" => gdb.mode = "sent")
<1>1. gdb.mode \in Busy /\ toGdb = << >>
      /\ UNCHANGED <<machine, toGdb, believed, meant, accepted, history>>
  BY DEF Silence, Busy
<1>2. CASE pc = "off"
  BY <1>1, <1>2 DEF Silence
<1>3. CASE pc # "off"
  <2> DEFINE e == IF gdb.mode = "sent" THEN Packet(gdb.id, gdb.cmd) ELSE Minus
  <2>1. toStub = << >> /\ toStub' = <<e>> /\ UNCHANGED gdb
    BY <1>3 DEF Silence
  <2>2. toStub' = Append(toStub, e)
    BY <2>1, OneToken
  <2>3. e \in {Packet(gdb.id, gdb.cmd), Minus} /\ (e.kind = "packet" => gdb.mode = "sent")
    BY TokenKinds
  <2> HIDE DEF e
  <2> QED BY <1>1, <1>3, <2>1, <2>2, <2>3
<1> QED BY <1>2, <1>3

LEMMA GdbRefusesDoes ==
  ASSUME GdbRefuses
  PROVE  /\ gdb.mode = "waits" /\ toGdb # << >> /\ toGdb' = Tail(toGdb)
         /\ toStub' = toStub \/ toStub' = Append(toStub, Minus)
         /\ UNCHANGED <<machine, debugger, history>>
BY DEF GdbRefuses

-----------------------------------------------------------------------------
(* Types *)

LEMMA LinesStep ==
  ASSUME SessionTyped, [Next]_vars
  PROVE  LinesTyped'
<1> DEFINE StubFine == IsLine(toStub') /\ \A i \in Requests' : toStub'[i].body \in Commands
<1>0. LinesTyped /\ IsLine(toGdb)
  BY DEF SessionTyped, LinesTyped
<1>1. ASSUME toStub' = toStub PROVE StubFine
  BY <1>0, <1>1 DEF LinesTyped, Requests, Of
<1>2. ASSUME toGdb' = toGdb PROVE IsLine(toGdb')
  BY <1>0, <1>2
<1>3. ASSUME toStub # << >>, toStub' = Tail(toStub) PROVE StubFine
  BY <1>0, <1>3, StubReads
<1>4. ASSUME toGdb # << >>, toGdb' = Tail(toGdb) PROVE IsLine(toGdb')
  BY <1>0, <1>4, GdbReads_
<1>5. ASSUME NEW e, IsToken(e), e.kind # "packet", toStub' = Append(toStub, e) PROVE StubFine
  BY <1>0, <1>5, StubGets
<1>6. ASSUME NEW id, NEW c \in Commands, toStub' = Append(toStub, Packet(id, c)) PROVE StubFine
  <2> DEFINE e == Packet(id, c)
  <2>1. IsToken(e) /\ e.body \in Commands
    BY TokenKinds
  <2>2. toStub' = Append(toStub, e)
    BY <1>6
  <2> HIDE DEF e
  <2> QED BY <1>0, <2>1, <2>2, StubGets
<1>7. ASSUME NEW e, IsToken(e), toGdb' = Append(toGdb, e) PROVE IsLine(toGdb')
  BY <1>0, <1>7, GdbGets
<1>8. ASSUME gdb.mode \in Busy PROVE gdb.cmd \in Commands
  BY <1>8, SessionConstants DEF SessionTyped, GdbTyped, Busy
<1>9. ASSUME StubFine, IsLine(toGdb') PROVE LinesTyped'
  BY <1>9 DEF LinesTyped
<1>10. ASSUME Thins(toStub', toStub) PROVE StubFine
  BY <1>0, <1>10, ThinsLine, StubTyped DEF LinesTyped, Counted
<1>11. ASSUME Thins(toGdb', toGdb) PROVE IsLine(toGdb')
  BY <1>0, <1>11, ThinsLine
<1> HIDE DEF StubFine
<1>12. CASE Trap
  BY <1>1, <1>2, <1>7, <1>9, <1>12, TrapDoes, TokenKinds
<1>13. CASE DebugKey
  BY <1>1, <1>7, <1>9, <1>13, DebugKeyDoes, TokenKinds
<1>14. CASE ProgramReports
  BY <1>1, <1>2, <1>7, <1>9, <1>14, ProgramReportsDoes, TokenKinds
<1>15. CASE TakeCommand
  <2>1. PICK c, id : /\ c \in Commands /\ Takes(c, id)
                   /\ (Halts(c, id) \/ Refuses(c, id) \/ Continues(c, id) \/ LetsGo(c, id)
                       \/ Restarts(c, id))
    BY <1>15, TakeCommandDoes
  <2>2. StubFine
    BY <1>3, <2>1 DEF Takes
  <2>3. (\E body, then : Replies(id, body, then)) \/ \E then : GoesOn(then)
    BY <2>1 DEF Halts, Refuses, Continues, LetsGo, Restarts
  <2>4. IsLine(Append(toGdb, Plus))
    BY <1>0, AppendExtends, ExtendsLine, TokenKinds DEF IsLine
  <2>5. IsLine(toGdb')
    <3>1. ASSUME NEW body, NEW then, Replies(id, body, then) PROVE IsLine(toGdb')
      <4> DEFINE a == Append(toGdb, Plus)
      <4>1. toGdb' = Append(a, Packet(id, body)) /\ IsLine(a) /\ IsToken(Packet(id, body))
        BY <2>4, <3>1, TokenKinds DEF Replies
      <4> HIDE DEF a
      <4>2. Extends(toGdb', a, Packet(id, body))
        BY <4>1, AppendExtends DEF IsLine
      <4> QED BY <4>1, <4>2, ExtendsLine
    <3> QED BY <2>3, <2>4, <3>1 DEF GoesOn
  <2> QED BY <1>9, <2>2, <2>5
<1>16. CASE RefusePacket
  BY <1>3, <1>7, <1>9, <1>16, TokenKinds DEF RefusePacket, Arrives
<1>17. CASE PassOver
  BY <1>2, <1>3, <1>9, <1>17 DEF PassOver, Arrives
<1>18. CASE Acknowledged
  BY <1>2, <1>3, <1>9, <1>18 DEF Acknowledged, Arrives
<1>19. CASE SendAgain
  <2>1. pc = "ack" /\ toStub # << >> /\ Extends(toGdb', toGdb, reply) /\ toStub' = Tail(toStub)
    BY <1>19, SendAgainDoes
  <2>2. IsToken(reply)
    BY <2>1 DEF SessionTyped, MachineTyped, IsToken
  <2>3. IsLine(toGdb')
    BY <1>0, <2>1, <2>2, ExtendsLine
  <2> QED BY <1>3, <1>9, <2>1, <2>3
<1>20. CASE Attach
  BY <1>5, <1>9, <1>20, OneToken, TokenKinds DEF Attach
<1>21. CASE SendCommand
  BY <1>2, <1>6, <1>9, <1>21 DEF SendCommand
<1>22. CASE GdbReadsAck
  <2>1. gdb.mode = "sent" /\ toGdb # << >> /\ toGdb' = Tail(toGdb) /\ GdbReadsAckDoes(Head(toGdb))
    BY <1>22, GdbReadsAckIs
  <2>2. gdb.cmd \in Commands
    BY <1>8, <2>1 DEF Busy
  <2>3. StubFine
    BY <1>1, <1>5, <1>6, <2>1, <2>2, TokenKinds DEF GdbReadsAckDoes
  <2> QED BY <1>4, <1>9, <2>1, <2>3
<1>23. CASE GdbReadsReply
  BY <1>4, <1>5, <1>9, <1>23, TokenKinds DEF GdbReadsReply, Arrives
<1>24. CASE GdbRefuses
  BY <1>1, <1>4, <1>5, <1>9, <1>24, GdbRefusesDoes, TokenKinds
<1>25. CASE Silence
  <2>1. gdb.cmd \in Commands /\ toGdb' = toGdb
    BY <1>8, <1>25, SilenceDoes
  <2>2. StubFine
    BY <1>1, <1>5, <1>6, <1>25, <2>1, SilenceDoes, TokenKinds
  <2> QED BY <1>2, <1>9, <2>1, <2>2
<1>26. CASE Fault
  BY <1>1, <1>2, <1>9, <1>10, <1>11, <1>26, FaultDoes
<1>27. CASE EarlyTimeout
  <2>1. gdb.cmd \in Commands /\ toGdb' = toGdb /\ toStub' = Append(toStub, Packet(gdb.id, gdb.cmd))
    BY <1>8, <1>27 DEF EarlyTimeout, Busy
  <2> QED BY <1>2, <1>6, <1>9, <2>1
<1>28. CASE SpaceKey \/ IgnoreKey \/ UNCHANGED vars
  BY <1>1, <1>2, <1>9, <1>28 DEF SpaceKey, IgnoreKey, vars, line
<1> QED BY <1>12, <1>13, <1>14, <1>15, <1>16, <1>17, <1>18, <1>19, <1>20, <1>21, <1>22, <1>23,
           <1>24, <1>25, <1>26, <1>27, <1>28 DEF Next

LEMMA MachineStep ==
  ASSUME SessionTyped, [Next]_vars
  PROVE  MachineTyped'
<1>0. MachineTyped
  BY DEF SessionTyped
<1>1. CASE Trap
  <2>1. /\ IsProgram(s') /\ t' = [r \in Registers |-> t'[r]]
        /\ \/ pc' = "ack" /\ next' = "get" /\ IsPacket(reply')
           \/ pc' = "dump" /\ next' = next
    BY <1>1, TrapDoes, TokenKinds
  <2> QED BY <1>0, <2>1 DEF MachineTyped
<1>2. CASE DebugKey
  <2>1. s' = s /\ t' = t /\ pc' = "ack" /\ next' = "get" /\ IsPacket(reply')
    BY <1>2, DebugKeyDoes, TokenKinds
  <2> QED BY <1>0, <2>1 DEF MachineTyped
<1>3. CASE ProgramReports
  <2>1. /\ IsProgram(s') /\ t' = t
        /\ \/ pc' = "ack" /\ next' \in {"run", "off"} /\ IsPacket(reply')
           \/ pc' \in {"run", "off"} /\ next' = next
    BY <1>3, ProgramReportsDoes, TokenKinds
  <2> QED BY <1>0, <2>1 DEF MachineTyped
<1>4. CASE TakeCommand
  <2>1. PICK c, id : /\ c \in Commands /\ IsProgram(s')
                   /\ (Halts(c, id) \/ Refuses(c, id) \/ Continues(c, id) \/ LetsGo(c, id)
                       \/ Restarts(c, id))
    BY <1>4, TakeCommandDoes
  <2>2. \/ \E body, then : Replies(id, body, then) /\ then \in {"run", "get"}
        \/ \E then \in {"run", "off"} : GoesOn(then)
    BY <2>1 DEF Halts, Refuses, Continues, LetsGo, Restarts
  <2>3. \/ pc' = "ack" /\ next' \in {"run", "get"} /\ IsPacket(reply')
        \/ pc' \in {"run", "off"} /\ next' = next
    BY <2>2, TokenKinds DEF Replies, GoesOn
  <2>4. t' = t \/ t' = s'.regs
    BY <2>1 DEF Halts, Refuses, Continues, LetsGo, Restarts
  <2>5. t' = [r \in Registers |-> t'[r]]
    BY <1>0, <2>1, <2>4 DEF MachineTyped, IsProgram
  <2> QED BY <1>0, <2>1, <2>3, <2>5 DEF MachineTyped
<1>5. CASE Acknowledged
  BY <1>0, <1>5 DEF Acknowledged, MachineTyped
<1>6. CASE IgnoreKey \/ SpaceKey
  BY <1>0, <1>6 DEF IgnoreKey, SpaceKey, MachineTyped
<1>7. CASE UNCHANGED machine
  BY <1>0, <1>7 DEF machine, MachineTyped
<1>8. CASE RefusePacket \/ PassOver \/ SendAgain
  BY <1>7, <1>8 DEF RefusePacket, PassOver, SendAgain
<1>9. CASE \/ Attach \/ SendCommand \/ GdbReadsAck \/ GdbReadsReply \/ GdbRefuses \/ Silence
           \/ Fault \/ EarlyTimeout \/ UNCHANGED vars
  BY <1>7, <1>9 DEF Attach, SendCommand, GdbReadsAck, GdbReadsReply, GdbRefuses, Silence, Fault,
       EarlyTimeout, vars
<1> QED BY <1>1, <1>2, <1>3, <1>4, <1>5, <1>6, <1>8, <1>9 DEF Next

LEMMA AfterIs ==
  /\ \A c : AfterAck(c) \in {"gone", "idle", "waits"}
  /\ \A c, b : AfterReply(c, b) \in {"gone", "idle", "waits"}
BY DEF AfterAck, AfterReply

LEMMA LearnIs ==
  ASSUME NEW c, NEW body, believed = [x \in Cells |-> believed[x]]
  PROVE  Learn(c, body) = [x \in Cells |-> Learn(c, body)[x]]
<1> DEFINE cell(v) == [believed EXCEPT !["cell"] = v]
           one(v) == [believed EXCEPT ![c.a] = v]
           all(u, v, w) == [believed EXCEPT !["eax"] = u, !["eip"] = v, !["tf"] = w]
           read == [x \in Cells |-> IF x \in Registers THEN body[2][x] ELSE believed[x]]
<1>1. /\ \A v : cell(v) = [x \in Cells |-> cell(v)[x]]
      /\ \A v : one(v) = [x \in Cells |-> one(v)[x]]
      /\ \A u, v, w : all(u, v, w) = [x \in Cells |-> all(u, v, w)[x]]
      /\ read = [x \in Cells |-> read[x]]
  OBVIOUS
<1>2. \/ Learn(c, body) \in {read, believed, cell(body[2][1]), cell(c.d[1]), one(c.d[1])}
      \/ Learn(c, body) = all(c.d[1], c.d[2], c.d[3])
  BY DEF Learn
<1> HIDE DEF cell, one, all, read
<1> QED BY <1>1, <1>2

LEMMA GdbStep ==
  ASSUME SessionTyped, [Next]_vars
  PROVE  GdbTyped'
<1>0. GdbTyped
  BY DEF SessionTyped
<1>1. CASE UNCHANGED <<gdb, believed, executed>>
  BY <1>0, <1>1 DEF GdbTyped
<1>2. ASSUME NEW m \in {"away", "idle", "gone"} \cup Busy, gdb' = [gdb EXCEPT !.mode = m],
             gdb.id = 0 => m = "idle", m = "waits" => gdb.cmd.op \notin {"R", "k"},
             believed' = [x \in Cells |-> believed'[x]], executed' = executed
      PROVE  GdbTyped'
  <2>1. /\ gdb'.mode = m /\ gdb'.cmd = gdb.cmd /\ gdb'.id = gdb.id
        /\ gdb' = [mode |-> gdb'.mode, cmd |-> gdb'.cmd, id |-> gdb'.id]
    BY <1>0, <1>2, GdbMoves
  <2> QED BY <1>0, <1>2, <2>1 DEF GdbTyped
<1>3. CASE Trap \/ DebugKey \/ ProgramReports
  BY <1>1, <1>3, TrapDoes, DebugKeyDoes, ProgramReportsDoes DEF debugger, history
<1>4. CASE TakeCommand
  <2>1. PICK c, id : /\ c \in Commands /\ Takes(c, id)
    BY <1>4, TakeCommandDoes
  <2>2. UNCHANGED <<gdb, believed>> /\ executed' = [executed EXCEPT ![id] = @ + 1]
    BY <2>1 DEF Takes, debugger
  <2>3. executed' \in [1..MAXCMDS -> Nat]
    <3>1. CASE id \in 1..MAXCMDS
      BY <1>0, <2>2, <3>1 DEF GdbTyped
    <3>2. CASE id \notin 1..MAXCMDS
      BY <1>0, <2>2, <3>2 DEF GdbTyped
    <3> QED BY <3>1, <3>2
  <2> QED BY <1>0, <2>2, <2>3 DEF GdbTyped
<1>5. CASE SpaceKey \/ IgnoreKey \/ RefusePacket \/ PassOver \/ Acknowledged \/ SendAgain
  BY <1>1, <1>5 DEF SpaceKey, IgnoreKey, RefusePacket, PassOver, Acknowledged, SendAgain,
       debugger, history
<1>6. CASE Attach
  BY <1>0, <1>2, <1>6 DEF Attach, history, GdbTyped
<1>7. CASE SendCommand
  <2>1. PICK c \in Commands : gdb' = [mode |-> "sent", cmd |-> c, id |-> gdb.id + 1]
          /\ believed' = Forget(c)
    BY <1>7 DEF SendCommand
  <2>2. gdb.id < MAXCMDS /\ executed' = executed
    BY <1>7 DEF SendCommand, history
  <2>3. gdb'.id \in 0..MAXCMDS /\ gdb'.id > 0
    BY <1>0, <2>1, <2>2, SessionConstants DEF GdbTyped
  <2>4. believed' = [x \in Cells |-> believed'[x]]
    BY <2>1 DEF Forget
  <2>5. gdb'.mode = "sent" /\ gdb'.cmd \in Commands
        /\ gdb' = [mode |-> gdb'.mode, cmd |-> gdb'.cmd, id |-> gdb'.id]
    BY <2>1
  <2> QED BY <1>0, <2>2, <2>3, <2>4, <2>5 DEF GdbTyped, Busy
<1>8. CASE GdbReadsAck
  <2>1. gdb.mode = "sent" /\ UNCHANGED <<believed, executed>>
        /\ (gdb' = gdb \/ gdb' = [gdb EXCEPT !.mode = AfterAck(gdb.cmd)])
    BY <1>8, GdbReadsAckIs DEF GdbReadsAckDoes, history
  <2>2. gdb.id # 0
    BY <1>0, <2>1 DEF GdbTyped
  <2>3. AfterAck(gdb.cmd) \in {"away", "idle", "gone"} \cup Busy
    BY AfterIs DEF Busy
  <2>4. believed' = [x \in Cells |-> believed'[x]]
    BY <1>0, <2>1 DEF GdbTyped
  <2>5. AfterAck(gdb.cmd) = "waits" => gdb.cmd.op \notin {"R", "k"}
    BY DEF AfterAck
  <2> QED BY <1>1, <1>2, <2>1, <2>2, <2>3, <2>4, <2>5
<1>9. CASE GdbReadsReply
  <2>1. /\ gdb.mode = "waits" /\ executed' = executed
        /\ \E body : /\ gdb' = [gdb EXCEPT !.mode = AfterReply(gdb.cmd, body)]
                     /\ believed' = Learn(gdb.cmd, body) \/ believed' = believed
    BY <1>9 DEF GdbReadsReply, history
  <2>2. gdb.id # 0
    BY <1>0, <2>1 DEF GdbTyped
  <2>3. \A body : AfterReply(gdb.cmd, body) \in {"away", "idle", "gone"} \cup Busy
    BY AfterIs DEF Busy
  <2>4. \A body : Learn(gdb.cmd, body) = [x \in Cells |-> Learn(gdb.cmd, body)[x]]
    BY <1>0, LearnIs DEF GdbTyped
  <2>5. believed' = [x \in Cells |-> believed'[x]]
    BY <1>0, <2>1, <2>4 DEF GdbTyped
  <2>6. gdb.cmd.op \notin {"R", "k"}
    BY <1>0, <2>1 DEF GdbTyped
  <2> QED BY <1>2, <2>1, <2>2, <2>3, <2>5, <2>6
<1>10. CASE GdbRefuses \/ Fault \/ EarlyTimeout \/ UNCHANGED vars
  BY <1>1, <1>10 DEF GdbRefuses, Fault, EarlyTimeout, vars, debugger, history
<1>11. CASE Silence
  <2>1. gdb.mode \in Busy /\ UNCHANGED <<believed, executed>>
        /\ (gdb' = gdb \/ gdb' = [gdb EXCEPT !.mode = "gone"])
    BY <1>11, SilenceDoes DEF history
  <2>2. gdb.id # 0
    BY <1>0, <2>1 DEF GdbTyped, Busy
  <2>3. believed' = [x \in Cells |-> believed'[x]]
    BY <1>0, <2>1 DEF GdbTyped
  <2> QED BY <1>1, <1>2, <2>1, <2>2, <2>3
<1> QED BY <1>3, <1>4, <1>5, <1>6, <1>7, <1>8, <1>9, <1>10, <1>11 DEF Next

LEMMA TypedStep ==
  ASSUME SessionTyped, [Next]_vars
  PROVE  SessionTyped'
BY LinesStep, MachineStep, GdbStep DEF SessionTyped

-----------------------------------------------------------------------------
(* The debugger is entered once it is installed *)

LEMMA EnteredStep ==
  ASSUME SessionTyped, EnteredInv, [Next]_vars
  PROVE  EnteredInv'
<1>0. LinesTyped /\ GdbTyped
  BY DEF SessionTyped
<1>1. ASSUME toStub' = toStub \/ (toStub # << >> /\ toStub' = Tail(toStub))
             \/ Thins(toStub', toStub),
             gdb.mode = "away"
      PROVE  Requests' = {}
  <2>1. Requests = {}
    BY <1>1 DEF EnteredInv
  <2>2. NoMore(toStub', toStub, {"packet"})
    BY <1>0, <1>1, SameNoMore, StubReads, ThinsLine DEF LinesTyped, Counted
  <2> QED BY <2>1, <2>2 DEF NoMore, Requests
<1>2. CASE Trap
  <2>1. /\ pc = "run" /\ UNCHANGED <<gdb, toStub, do_debug, installed>>
        /\ s'.connected = s.connected
        /\ \/ do_debug /\ pc' = "ack" /\ next' = "get"
           \/ pc' = "dump"
    BY <1>2, TrapDoes DEF debugger
  <2> QED BY <1>1, <2>1 DEF EnteredInv
<1>3. CASE DebugKey
  <2>1. UNCHANGED <<gdb, toStub>> /\ s' = s /\ installed'
        /\ pc' = "ack" /\ next' = "get"
    BY <1>3, DebugKeyDoes DEF debugger
  <2> QED BY <1>1, <2>1 DEF EnteredInv
<1>4. CASE SpaceKey \/ IgnoreKey
  <2>1. pc = "dump" /\ UNCHANGED <<gdb, toStub, do_debug, installed, s>>
        /\ pc' \in {"dump", "run"}
    BY <1>4 DEF SpaceKey, IgnoreKey, debugger, line
  <2> QED BY <1>1, <2>1 DEF EnteredInv
<1>5. CASE ProgramReports
  <2>1. /\ pc \in {"run", "dump"} /\ UNCHANGED <<gdb, toStub, do_debug, installed>>
        /\ s'.connected => s.connected
        /\ \/ installed /\ s.connected /\ pc = "run" /\ pc' = "ack"
           \/ installed /\ s.connected /\ pc' = "ack" /\ next' = "off"
           \/ pc' = "off" \/ (pc' = "run" /\ pc = "run")
    BY <1>5, ProgramReportsDoes DEF debugger
  <2> QED BY <1>1, <2>1 DEF EnteredInv
<1>6. CASE TakeCommand
  <2>1. PICK c, id : /\ c \in Commands /\ Takes(c, id)
                   /\ (Halts(c, id) \/ Refuses(c, id) \/ Continues(c, id) \/ LetsGo(c, id)
                       \/ Restarts(c, id))
    BY <1>6, TakeCommandDoes
  <2>2. pc = "get" /\ UNCHANGED <<gdb, installed>> /\ 1 \in Requests
    BY <1>0, <2>1, StubReads DEF Takes, debugger
  <2>3. installed' /\ gdb'.mode # "away"
    BY <2>2 DEF EnteredInv
  <2> QED BY <2>3 DEF EnteredInv
<1>7. CASE RefusePacket \/ PassOver \/ Acknowledged \/ SendAgain
  <2>1. /\ UNCHANGED <<gdb, s, do_debug, installed>> /\ toStub # << >>
        /\ toStub' = Tail(toStub)
        /\ (pc' = pc /\ next' = next) \/ (pc = "ack" /\ pc' = next)
    BY <1>7 DEF RefusePacket, PassOver, Acknowledged, SendAgain, Arrives, debugger, machine
  <2> QED BY <1>1, <2>1 DEF EnteredInv
<1>8. ASSUME UNCHANGED machine, gdb'.mode # "away"
      PROVE  EnteredInv'
  BY <1>8 DEF EnteredInv, machine
<1>9. CASE UNCHANGED machine /\ gdb' = gdb /\ (toStub' = toStub \/ Thins(toStub', toStub))
  BY <1>1, <1>9 DEF EnteredInv, machine
<1>10. CASE Attach
  <2>1. gdb'.mode = "idle" /\ UNCHANGED machine
    BY <1>0, <1>10, GdbMoves DEF Attach
  <2> QED BY <1>8, <2>1
<1>11. CASE SendCommand \/ GdbReadsAck \/ GdbReadsReply \/ GdbRefuses \/ Silence \/ EarlyTimeout
  <2>1. UNCHANGED machine /\ gdb.mode # "away"
    BY <1>11 DEF SendCommand, GdbReadsAck, GdbReadsReply, GdbRefuses, Silence, EarlyTimeout
  <2>2. gdb' = gdb \/ (\E m \in {"gone", "idle", "waits"} : gdb' = [gdb EXCEPT !.mode = m])
        \/ gdb'.mode = "sent"
    <3>1. CASE SendCommand
      BY <3>1 DEF SendCommand
    <3>2. CASE GdbReadsAck
      BY <3>2, GdbReadsAckIs, AfterIs DEF GdbReadsAckDoes
    <3>3. CASE GdbReadsReply
      BY <3>3, AfterIs DEF GdbReadsReply
    <3>4. CASE GdbRefuses \/ EarlyTimeout
      BY <3>4 DEF GdbRefuses, EarlyTimeout, debugger
    <3>5. CASE Silence
      BY <3>5, SilenceDoes
    <3> QED BY <1>11, <3>1, <3>2, <3>3, <3>4, <3>5
  <2>3. gdb'.mode # "away"
    BY <1>0, <2>1, <2>2, GdbMoves DEF Busy
  <2> QED BY <1>8, <2>1, <2>3
<1>12. CASE Fault \/ UNCHANGED vars
  BY <1>9, <1>12, FaultDoes DEF vars, debugger, line
<1> QED BY <1>2, <1>3, <1>4, <1>5, <1>6, <1>7, <1>10, <1>11, <1>12 DEF Next

-----------------------------------------------------------------------------
(* What leaves the parts of the invariant alone *)

LEMMA TurnKept ==
  ASSUME TurnInv, NoMore(toStub', toStub, {"packet"}), NoMore(toGdb', toGdb, {"+", "-"}),
         gdb'.id = gdb.id, gdb'.cmd = gdb.cmd, pc = "off" => pc' = "off",
         \/ gdb'.mode = gdb.mode
         \/ gdb.mode \in {"away", "idle", "waits"} /\ gdb'.mode # "sent"
  PROVE  TurnInv'
<1>1. CASE gdb.mode = "gone" /\ pc = "off"
  BY <1>1 DEF TurnInv
<1>2. CASE ~(gdb.mode = "gone" /\ pc = "off")
  <2>1. /\ \A i, j \in Requests : i = j
        /\ \A i, j \in Verdicts : i = j
        /\ Requests = {} \/ Verdicts = {}
        /\ gdb.mode # "sent" => Requests = {} /\ Verdicts = {}
        /\ \A i \in Requests : toStub[i].id = gdb.id /\ toStub[i].body = gdb.cmd
    BY <1>2 DEF TurnInv
  <2>2. /\ Requests = {} => Requests' = {}
        /\ \A i, j \in Requests' : i = j
        /\ \A i \in Requests' : toStub'[i].id = gdb.id /\ toStub'[i].body = gdb.cmd
    <3>1. NoMore(toStub', toStub, {"packet"})
      OBVIOUS
    <3>2. \A i \in Requests' : \E j \in Requests :
            toStub[j].id = toStub'[i].id /\ toStub[j].body = toStub'[i].body
      BY <3>1 DEF NoMore, Requests
    <3> QED BY <2>1, <3>1, <3>2 DEF NoMore, Requests
  <2>3. /\ Verdicts = {} => Verdicts' = {}
        /\ \A i, j \in Verdicts' : i = j
    BY <2>1 DEF NoMore, Verdicts
  <2> QED BY <2>1, <2>2, <2>3 DEF TurnInv
<1> QED BY <1>1, <1>2

LEMMA BeliefKept ==
  ASSUME BeliefInv, believed' = believed, s'.mem = s.mem, s'.regs = s.regs, Halted => Halted',
         gdb'.mode \in Busy => gdb.mode \in Busy /\ gdb'.cmd = gdb.cmd
  PROVE  BeliefInv'
<1>1. \A x : Now(x)' = Now(x)
  BY DEF Now, NowOf
<1> QED BY <1>1 DEF BeliefInv, Knows

LEMMA MeantKept ==
  ASSUME MeantInv, UNCHANGED <<meant, executed, t, cause>>, s'.regs = s.regs, Halted => Halted',
         gdb'.cmd = gdb.cmd, gdb'.id = gdb.id, gdb'.mode = "sent" => gdb.mode = "sent",
         pc' = "ack" =>
           \/ pc = "ack" /\ next' = next /\ reply' = reply
           \/ reply'.id \in 0..gdb.id /\ next' = "get"
           \/ reply'.id \in 0..gdb.id /\ reply'.id = 0 /\ (gdb.cmd.op \in Resuming => gdb.id # 0)
  PROVE  MeantInv'
BY DEF MeantInv

LEMMA OnceKept ==
  ASSUME OnceInv, executed' = executed, gdb'.id = gdb.id,
         gdb'.mode = "sent" =>
           gdb.mode = "sent" /\ (Of(toGdb, {"+"}) # {} => Of(toGdb', {"+"}) # {})
  PROVE  OnceInv'
BY DEF OnceInv

Served == gdb.mode \in Busy /\ gdb.cmd.op \notin {"D", "R", "k"} /\ Taken /\ Serves

LEMMA ReplySame ==
  ASSUME ReplyInv, gdb' = gdb, toGdb' = toGdb,
         Served => Serves' /\ (gdb.cmd.op \notin Going => reply'.body = reply.body),
         Halted => Halted', s'.connected => s.connected
  PROVE  ReplyInv'
<1> SUFFICES ASSUME gdb.mode \in Busy, gdb.cmd.op \notin {"D", "R", "k"}
             PROVE  /\ \A i \in Of(toGdb, {"packet"}) : Since(i) => Fits(toGdb[i])'
                    /\ Taken => Serves'
  BY DEF ReplyInv, Since, Taken
<1>1. /\ \A i \in Of(toGdb, {"packet"}) : Since(i) => Fits(toGdb[i])
      /\ Taken => Serves
  BY DEF ReplyInv
<1>2. \A i : Since(i) => Taken
  BY DEF Since, Taken
<1>3. Taken => Served
  BY <1>1 DEF Served
<1> QED BY <1>1, <1>2, <1>3 DEF Fits, Timely

\* gdb leaves the machine alone.
LEMMA MachineSame ==
  ASSUME UNCHANGED machine
  PROVE  UNCHANGED <<pc, next, reply, s, t, cause>> /\ Halted' = Halted /\ Running' = Running
BY DEF machine, Halted, Running

LEMMA SameServes ==
  ASSUME Serves, UNCHANGED <<machine, believed>>, gdb'.cmd = gdb.cmd, gdb'.id = gdb.id
  PROVE  Serves'
<1>1. UNCHANGED <<pc, next, reply, s, t, cause>> /\ Halted' = Halted /\ Running' = Running
  BY MachineSame
<1>2. Knows(Learn(gdb.cmd, Shown(reply.body))) => Knows(Learn(gdb.cmd, Shown(reply.body)))'
  <2>1. \A x : Now(x)' = Now(x)
    BY <1>1 DEF Now, NowOf
  <2>2. Learn(gdb.cmd, Shown(reply.body))' = Learn(gdb.cmd, Shown(reply.body))
    BY <1>1 DEF Learn
  <2> QED BY <2>1, <2>2 DEF Knows
<1> QED BY <1>1, <1>2 DEF Serves, Timely

LEMMA ReplyThins ==
  ASSUME ReplyInv, IsLine(toGdb), gdb' = gdb, Thins(toGdb', toGdb), UNCHANGED machine,
         believed' = believed
  PROVE  ReplyInv'
<1> SUFFICES ASSUME gdb.mode \in Busy, gdb.cmd.op \notin {"D", "R", "k"}
             PROVE  /\ \A i \in Of(toGdb', {"packet"}) : Since(i)' => Fits(toGdb[i])'
                    /\ Taken' => Serves'
  BY DEF ReplyInv
<1>1. /\ \A i \in Of(toGdb, {"packet"}) : Since(i) => Fits(toGdb[i])
      /\ Taken => Serves
  BY DEF ReplyInv
<1>2. PICK f \in [1..Len(toGdb') -> 1..Len(toGdb)] :
        /\ \A i \in 1..Len(toGdb') : toGdb'[i] \in {toGdb[f[i]], Damaged(toGdb[f[i]])}
        /\ \A i, j \in 1..Len(toGdb') : i < j => f[i] < f[j]
  BY DEF Thins
<1>3. ASSUME NEW i \in 1..Len(toGdb')
      PROVE  /\ f[i] \in 1..Len(toGdb)
             /\ toGdb'[i].kind = "noise" \/ toGdb'[i].kind = toGdb[f[i]].kind
             /\ toGdb'[i].kind = "packet" =>
                  toGdb'[i].id = toGdb[f[i]].id /\ toGdb'[i].body = toGdb[f[i]].body
  <2>1. f[i] \in 1..Len(toGdb)
    BY <1>3
  <2>2. IsToken(toGdb[f[i]])
    BY <2>1 DEF IsLine
  <2> QED BY <1>2, <2>1, <2>2, DamagedIs
<1>4. ASSUME NEW i \in Of(toGdb', {"packet"}), Since(i)'
      PROVE  f[i] \in Of(toGdb, {"packet"}) /\ Since(f[i])
  <2>1. i \in 1..Len(toGdb') /\ f[i] \in Of(toGdb, {"packet"})
    BY <1>3, <1>4 DEF Of
  <2>2. CASE \E j \in Of(toGdb', {"+"}) : j < i
    <3>1. PICK j \in Of(toGdb', {"+"}) : j < i
      BY <2>2
    <3>2. j \in 1..Len(toGdb') /\ f[j] \in Of(toGdb, {"+"})
      BY <1>3 DEF Of
    <3>3. f[j] < f[i]
      BY <1>2, <2>1, <3>1, <3>2
    <3> QED BY <2>1, <3>2, <3>3 DEF Since
  <2> QED BY <1>4, <2>1, <2>2 DEF Since
<1>5. ASSUME NEW i \in Of(toGdb', {"packet"}), Since(i)' PROVE Fits(toGdb[i])'
  <2>1. Fits(toGdb[f[i]])
    BY <1>1, <1>4, <1>5
  <2>2. toGdb'[i].id = toGdb[f[i]].id /\ toGdb'[i].body = toGdb[f[i]].body
    BY <1>3, <1>5 DEF Of
  <2>3. UNCHANGED <<reply, s>> /\ Halted' = Halted
    BY MachineSame
  <2> QED BY <2>1, <2>2, <2>3 DEF Fits, Timely
<1>6. ASSUME Taken' PROVE Taken
  <2>1. ASSUME NEW i \in Of(toGdb', {"+"}) PROVE f[i] \in Of(toGdb, {"+"})
    BY <1>3, <2>1 DEF Of
  <2> QED BY <1>6, <2>1 DEF Taken
<1>7. Serves => Serves'
  BY SameServes
<1> QED BY <1>1, <1>5, <1>6, <1>7

LEMMA ReplyExtends ==
  ASSUME ReplyInv, IsLine(toGdb), gdb' = gdb, NEW e, IsToken(e), e.kind # "+",
         Extends(toGdb', toGdb, e),
         Served => /\ Serves' /\ (gdb.cmd.op \notin Going => reply'.body = reply.body)
                   /\ e.kind = "packet" => Fits(e)',
         Halted => Halted', s'.connected => s.connected
  PROVE  ReplyInv'
<1> SUFFICES ASSUME gdb.mode \in Busy, gdb.cmd.op \notin {"D", "R", "k"}
             PROVE  /\ \A i \in Of(toGdb', {"packet"}) : Since(i)' => Fits(toGdb[i])'
                    /\ Taken' => Serves'
  BY DEF ReplyInv
<1>1. /\ \A i \in Of(toGdb, {"packet"}) : Since(i) => Fits(toGdb[i])
      /\ Taken => Serves
  BY DEF ReplyInv
<1>2. Of(toGdb', {"+"}) = Of(toGdb, {"+"})
  BY ExtendsLine
<1>3. Taken' = Taken /\ \A i : Since(i)' = Since(i)
  BY <1>2 DEF Taken, Since
<1>4. Taken => Served
  BY <1>1 DEF Served
<1>5. ASSUME NEW i \in Of(toGdb', {"packet"}), Since(i)' PROVE Fits(toGdb[i])'
  <2>0. Served
    BY <1>3, <1>4, <1>5 DEF Taken, Since
  <2>1. i \in 1..Len(toGdb') /\ toGdb'[i].kind = "packet" /\ Len(toGdb') \in Nat
        /\ Len(toGdb) \in Nat
    BY <1>5 DEF Of, Extends
  <2>2. CASE i \in 1..Len(toGdb)
    <3>1. toGdb'[i] = toGdb[i] /\ i \in Of(toGdb, {"packet"})
      BY <2>1, <2>2 DEF Extends, Of
    <3> QED BY <1>1, <1>3, <1>5, <2>0, <3>1 DEF Fits, Timely
  <2>3. CASE i \notin 1..Len(toGdb)
    <3>1. i \in Len(toGdb)+1..Len(toGdb')
      BY <2>1, <2>3
    <3>2. toGdb'[i] = e
      BY <3>1 DEF Extends
    <3> QED BY <2>0, <2>1, <3>2 DEF Fits, Timely
  <2> QED BY <2>2, <2>3
<1> QED BY <1>3, <1>4, <1>5

-----------------------------------------------------------------------------
(* The steps of the machine *)

LEMMA NothingElse ==
  ASSUME PatientInv, TurnInv', ReplyInv', BeliefInv', MeantInv', accepted' = accepted,
         ackDamaged => ackDamaged', OnceInv => ackDamaged' \/ OnceInv'
  PROVE  PatientInv'
BY DEF PatientInv

\* The machine sends e, which is no verdict.
LEMMA GdbExtended ==
  ASSUME SessionTyped, NEW e, IsToken(e), e.kind \in {"packet", "noise"}, Extends(toGdb', toGdb, e)
  PROVE  /\ NoMore(toGdb', toGdb, {"+", "-"}) /\ Of(toGdb', {"+"}) = Of(toGdb, {"+"})
         /\ IsLine(toGdb) /\ e.kind # "+"
BY ExtendsLine DEF SessionTyped, LinesTyped

LEMMA TrapPatient ==
  ASSUME SessionTyped, PatientInv, Trap
  PROVE  PatientInv'
<1>1. /\ pc = "run" /\ UNCHANGED <<cause, toStub, gdb, believed, meant, accepted, executed,
                     ackDamaged>>
      /\ s'.connected = s.connected
      /\ \/ /\ pc' = "ack" /\ next' = "get" /\ IsPacket(reply') /\ reply'.id = cause
            /\ reply'.body \notin Ended /\ toGdb' = Append(toGdb, reply')
         \/ pc' = "dump" /\ UNCHANGED <<next, reply, toGdb>>
  BY TrapDoes, TokenKinds, RepliesDiffer DEF debugger
<1>2. TurnInv /\ ReplyInv /\ BeliefInv /\ MeantInv /\ ~Halted
  BY <1>1 DEF PatientInv, Halted
<1>3. \/ IsToken(reply') /\ reply'.kind = "packet" /\ Extends(toGdb', toGdb, reply')
      \/ UNCHANGED toGdb
  BY <1>1, GdbGets, TokenKinds DEF SessionTyped, LinesTyped
<1>4. NoMore(toGdb', toGdb, {"+", "-"}) /\ Of(toGdb', {"+"}) = Of(toGdb, {"+"})
  BY <1>3, SameNoMore, GdbExtended
<1>5. TurnInv'
  BY <1>1, <1>2, <1>4, SameNoMore, TurnKept
<1>6. BeliefInv'
  BY <1>1, <1>2 DEF BeliefInv, Knows
<1>7. MeantInv'
  BY <1>1, <1>2 DEF MeantInv
<1>8. OnceInv => OnceInv'
  BY <1>1, <1>4, OnceKept
<1>9. Served => gdb.cmd.op \in Going /\ Serves' /\ (pc' = "ack" => Fits(reply)')
  BY <1>1, <1>2 DEF Served, Serves, Running, Halted, Fits, Timely
<1>10. ReplyInv'
  <2>1. CASE UNCHANGED toGdb
    BY <1>1, <1>2, <1>9, <2>1, ReplySame
  <2>2. CASE ~UNCHANGED toGdb
    <3>1. /\ IsToken(reply') /\ reply'.kind = "packet" /\ Extends(toGdb', toGdb, reply')
          /\ pc' = "ack"
      BY <1>1, <1>3, <2>2
    <3>2. PICK e : e = reply'
      OBVIOUS
    <3>3. Served => Fits(e)'
      BY <1>1, <1>9, <3>1, <3>2 DEF Fits, Timely
    <3> QED BY <1>1, <1>2, <1>9, <3>1, <3>2, <3>3, ReplyExtends DEF SessionTyped, LinesTyped
  <2> QED BY <2>1, <2>2
<1> QED BY <1>1, <1>5, <1>6, <1>7, <1>8, <1>10, NothingElse

LEMMA DebugKeyPatient ==
  ASSUME SessionTyped, PatientInv, DebugKey
  PROVE  PatientInv'
<1>1. /\ pc = "dump" /\ UNCHANGED <<cause, toStub, gdb, believed, meant, accepted, executed,
                     ackDamaged>>
      /\ s' = s /\ t' = t
      /\ pc' = "ack" /\ next' = "get" /\ IsPacket(reply') /\ reply'.id = cause
      /\ reply'.body \notin Ended /\ toGdb' = Append(toGdb, reply')
  BY DebugKeyDoes, TokenKinds, RepliesDiffer DEF debugger, history
<1>2. TurnInv /\ ReplyInv /\ BeliefInv /\ MeantInv
  BY DEF PatientInv
<1>3. IsToken(reply') /\ reply'.kind = "packet" /\ Extends(toGdb', toGdb, reply')
  BY <1>1, GdbGets, TokenKinds DEF SessionTyped, LinesTyped
<1>4. NoMore(toGdb', toGdb, {"+", "-"}) /\ Of(toGdb', {"+"}) = Of(toGdb, {"+"})
  BY <1>3, GdbExtended
<1>5. TurnInv'
  BY <1>1, <1>2, <1>4, SameNoMore, TurnKept
<1>6. BeliefInv' /\ MeantInv'
  <2>1. ~Halted /\ cause \in 0..gdb.id
    BY <1>1, <1>2 DEF Halted, MeantInv
  <2> QED BY <1>1, <1>2, <2>1, BeliefKept, MeantKept
<1>7. OnceInv => OnceInv'
  BY <1>1, <1>4, OnceKept
<1>8. Served => gdb.cmd.op \in Going /\ Serves' /\ Fits(reply)'
  BY <1>1 DEF Served, Serves, Running, Halted, Fits, Timely
<1>9. ReplyInv'
  <2>1. PICK e : e = reply'
    OBVIOUS
  <2>2. Served => Fits(e)'
    BY <1>8, <2>1 DEF Fits, Timely
  <2>3. Halted => Halted'
    BY <1>1 DEF Halted
  <2> QED BY <1>1, <1>2, <1>3, <1>8, <2>1, <2>2, <2>3, ReplyExtends DEF SessionTyped, LinesTyped
<1> QED BY <1>1, <1>5, <1>6, <1>7, <1>9, NothingElse

LEMMA ReportsPatient ==
  ASSUME SessionTyped, PatientInv, ProgramReports
  PROVE  PatientInv'
<1>1. /\ pc \in {"run", "dump"} /\ s'.mem = s.mem /\ s'.regs = s.regs
      /\ UNCHANGED <<t, cause, toStub, gdb, believed, meant, accepted, executed, ackDamaged>>
      /\ \/ /\ pc' = "ack" /\ next' \in {"run", "off"} /\ IsPacket(reply') /\ reply'.id = 0
            /\ reply'.body \in Said /\ Says(reply'.body) /\ toGdb' = Append(toGdb, reply')
         \/ /\ pc' \in {"run", "off"} /\ UNCHANGED <<next, reply>>
            /\ toGdb' = toGdb \/ toGdb' = Append(toGdb, Noise)
      /\ s'.connected => s.connected
  BY ProgramReportsDoes, TokenKinds DEF debugger
<1>2. TurnInv /\ ReplyInv /\ BeliefInv /\ MeantInv
  BY DEF PatientInv
<1>3. \/ toGdb' = toGdb
      \/ \E e : /\ IsToken(e) /\ e.kind \in {"packet", "noise"} /\ Extends(toGdb', toGdb, e)
                /\ e.kind = "packet" => e.body \in Said /\ Says(e.body)
  <2>1. CASE toGdb' = Append(toGdb, Noise)
    BY <2>1, GdbGets, TokenKinds DEF SessionTyped, LinesTyped
  <2>2. CASE /\ IsPacket(reply') /\ reply'.body \in Said /\ Says(reply'.body)
             /\ toGdb' = Append(toGdb, reply')
    <3>1. IsToken(reply') /\ reply'.kind = "packet"
      BY <2>2, TokenKinds
    <3>2. Extends(toGdb', toGdb, reply')
      BY <2>2, <3>1, GdbGets DEF SessionTyped, LinesTyped
    <3> QED BY <2>2, <3>1, <3>2
  <2> QED BY <1>1, <2>1, <2>2
<1>4. NoMore(toGdb', toGdb, {"+", "-"}) /\ Of(toGdb', {"+"}) = Of(toGdb, {"+"})
  BY <1>3, SameNoMore, GdbExtended
<1>5. TurnInv'
  BY <1>1, <1>2, <1>4, SameNoMore, TurnKept
<1>6. BeliefInv'
  BY <1>1, <1>2, BeliefKept DEF Halted
<1>7. MeantInv'
  <2>1. gdb.cmd.op \in Resuming => gdb.id # 0
    BY DEF SessionTyped, GdbTyped, Resuming
  <2>2. ~Halted /\ gdb.id \in Nat
    BY <1>1, SessionConstants DEF Halted, SessionTyped, GdbTyped
  <2> QED BY <1>1, <1>2, <2>1, <2>2, MeantKept
<1>8. OnceInv => OnceInv'
  BY <1>1, <1>4, OnceKept
<1>9. Served => gdb.cmd.op \in Going /\ Serves'
  BY <1>1 DEF Served, Serves, Running, Halted, Timely, Says
<1>10. ReplyInv'
  <2>0. ~Halted
    BY <1>1 DEF Halted
  <2>1. CASE toGdb' = toGdb
    BY <1>1, <1>2, <1>9, <2>0, <2>1, ReplySame
  <2>2. ASSUME NEW e, IsToken(e), e.kind \in {"packet", "noise"}, Extends(toGdb', toGdb, e),
               e.kind = "packet" => e.body \in Said /\ Says(e.body)
        PROVE  ReplyInv'
    <3>1. Served /\ e.kind = "packet" => Fits(e)'
      BY <1>1, <1>9, <2>2 DEF Fits, Timely, Says
    <3>2. e.kind # "+" /\ IsLine(toGdb)
      BY <2>2 DEF SessionTyped, LinesTyped
    <3> QED BY <1>1, <1>2, <1>9, <2>0, <2>2, <3>1, <3>2, ReplyExtends
  <2> QED BY <1>3, <2>1, <2>2
<1> QED BY <1>1, <1>5, <1>6, <1>7, <1>8, <1>10, NothingElse

LEMMA KeyPatient ==
  ASSUME SessionTyped, PatientInv, SpaceKey \/ IgnoreKey
  PROVE  PatientInv'
<1>1. /\ pc = "dump" /\ pc' \in {"dump", "run"}
      /\ UNCHANGED <<s, t, next, reply, cause, toStub, toGdb, gdb,
                     believed, meant, accepted, executed, ackDamaged>>
  BY DEF SpaceKey, IgnoreKey, line, debugger, history
<1>2. TurnInv /\ ReplyInv /\ BeliefInv /\ MeantInv /\ ~Halted
  BY <1>1 DEF PatientInv, Halted
<1>3. TurnInv' /\ BeliefInv' /\ MeantInv'
  BY <1>1, <1>2, SameNoMore, TurnKept, BeliefKept, MeantKept
<1>4. OnceInv => OnceInv'
  BY <1>1, OnceKept
<1>5. Served => gdb.cmd.op \in Going /\ Serves'
  BY <1>1, <1>2 DEF Served, Serves, Running, Halted
<1>6. ReplyInv'
  BY <1>1, <1>2, <1>5, ReplySame
<1> QED BY <1>1, <1>3, <1>4, <1>6, NothingElse

\* The stub waits for an acknowledgement, or passes over what is none of a command.
LEMMA StubWaitsPatient ==
  ASSUME SessionTyped, PatientInv, PassOver \/ Acknowledged \/ SendAgain
  PROVE  PatientInv'
<1>1. /\ toStub # << >> /\ toStub' = Tail(toStub) /\ pc # "off"
      /\ UNCHANGED <<s, t, next, reply, cause, gdb, believed, meant, accepted, executed,
                     ackDamaged>>
      /\ pc' = pc \/ (pc = "ack" /\ pc' = next)
  BY DEF PassOver, Acknowledged, SendAgain, Arrives, machine, debugger, history
<1>2. TurnInv /\ ReplyInv /\ BeliefInv /\ MeantInv
  BY DEF PatientInv
<1>3. UNCHANGED toGdb \/ (pc = "ack" /\ pc' = pc /\ Extends(toGdb', toGdb, reply))
  BY SendAgainDoes DEF PassOver, Acknowledged, machine
<1>4. pc = "ack" => IsToken(reply) /\ reply.kind = "packet"
  BY TokenKinds DEF SessionTyped, MachineTyped
<1>5. NoMore(toGdb', toGdb, {"+", "-"}) /\ Of(toGdb', {"+"}) = Of(toGdb, {"+"})
  BY <1>3, <1>4, SameNoMore, GdbExtended
<1>6. NoMore(toStub', toStub, {"packet"})
  BY <1>1, StubReads DEF SessionTyped
<1>7. TurnInv'
  BY <1>1, <1>2, <1>5, <1>6, TurnKept
<1>8. Halted => Halted'
  BY <1>1 DEF Halted
<1>9. MeantInv' /\ BeliefInv'
  <2>1. pc' = "ack" => pc = "ack"
    BY <1>1 DEF SessionTyped, MachineTyped
  <2> QED BY <1>1, <1>2, <1>8, <2>1, MeantKept, BeliefKept
<1>10. OnceInv => OnceInv'
  BY <1>1, <1>5, OnceKept
<1>11. Served => Serves'
  <2>1. Running' => Running
    BY <1>1 DEF Running, SessionTyped, MachineTyped
  <2>2. pc' = "ack" => pc = "ack"
    BY <1>1 DEF SessionTyped, MachineTyped
  <2>3. \A b : Knows(b) => Knows(b)'
    BY <1>1 DEF Knows, Now, NowOf
  <2>4. Learn(gdb.cmd, Shown(reply.body))' = Learn(gdb.cmd, Shown(reply.body))
    BY <1>1 DEF Learn
  <2> QED BY <1>1, <1>8, <2>1, <2>2, <2>3, <2>4 DEF Served, Serves, Knows, Timely
<1>12. ReplyInv'
  <2>1. CASE UNCHANGED toGdb
    BY <1>1, <1>2, <1>8, <1>11, <2>1, ReplySame
  <2>2. CASE pc = "ack" /\ pc' = pc /\ Extends(toGdb', toGdb, reply)
    <3>1. Served => Fits(reply)
      BY <2>2 DEF Served, Serves, Fits
    <3>2. Served => \A e : e = reply => Fits(e)'
      BY <1>1, <1>8, <2>2, <3>1 DEF Fits, Timely
    <3> QED BY <1>1, <1>2, <1>4, <1>8, <1>11, <2>2, <3>2, ReplyExtends DEF SessionTyped, LinesTyped
  <2> QED BY <1>3, <2>1, <2>2
<1> QED BY <1>1, <1>7, <1>9, <1>10, <1>12, NothingElse

-----------------------------------------------------------------------------
(* The stub executes a command *)

\* What the stub sends when it takes the command c, the packet id: the verdict, and
\* the reply p perhaps.
Sends(p) == toGdb' = Append(toGdb, Plus) \/ toGdb' = Append(Append(toGdb, Plus), p)

LEMMA PlusSent ==
  ASSUME IsLine(toGdb), Verdicts = {}, NEW p, IsPacket(p), Sends(p)
  PROVE  /\ \A i, j \in Verdicts' : i = j
         /\ Of(toGdb', {"+"}) # {} /\ Of(toGdb, {"+"}) = {}
         /\ \A i \in Of(toGdb', {"packet"}) : \A j \in Of(toGdb', {"+"}) :
              j < i => toGdb'[i] = p /\ toGdb' = Append(Append(toGdb, Plus), p)
<1> DEFINE q == Append(toGdb, Plus)
<1>1. Of(toGdb, {"+", "-"}) = {} /\ Of(toGdb, {"+"}) = {}
  BY DEF Verdicts, Of
<1>2. IsToken(Plus) /\ Plus.kind = "+" /\ IsToken(p) /\ p.kind = "packet"
  BY TokenKinds
<1>3. /\ IsLine(q) /\ Len(q) = Len(toGdb) + 1
      /\ \A i \in Of(q, {"+"}) : i = Len(toGdb) + 1
      /\ Len(toGdb) + 1 \in Of(q, {"+"})
  BY <1>1, <1>2, FirstOf
<1>4. \A i \in Of(q, {"+", "-"}) : i = Len(toGdb) + 1
  BY <1>1, <1>2, FirstOf
<1>5. Len(toGdb) \in Nat
  BY QueueIs DEF IsLine
<1> HIDE DEF q
<1>6. CASE toGdb' = q
  <2>1. \A i \in Of(q, {"packet"}) : i \in 1..Len(toGdb)+1
    BY <1>3 DEF Of
  <2>2. \A i \in Of(q, {"packet"}) : \A j \in Of(q, {"+"}) : ~(j < i)
    BY <1>3, <1>5, <2>1
  <2> QED BY <1>1, <1>3, <1>4, <1>6, <2>2 DEF Verdicts
<1>7. CASE toGdb' = Append(q, p)
  <2>1. Extends(Append(q, p), q, p) /\ Len(Append(q, p)) = Len(q) + 1
    BY <1>3, AppendExtends DEF IsLine
  <2>2. Of(toGdb', {"+"}) = Of(q, {"+"}) /\ Of(toGdb', {"+", "-"}) = Of(q, {"+", "-"})
    BY <1>2, <1>3, <1>7, <2>1, ExtendsLine
  <2>3. ASSUME NEW i \in Of(toGdb', {"packet"}), NEW j \in Of(toGdb', {"+"}), j < i
        PROVE  toGdb'[i] = p
    <3>1. i \in 1..Len(q)+1 /\ j = Len(q)
      BY <1>3, <1>7, <2>1, <2>2, <2>3 DEF Of
    <3>2. i = Len(q) + 1 /\ i \in Len(q)+1..Len(toGdb')
      BY <1>3, <1>5, <1>7, <2>1, <2>3, <3>1
    <3> QED BY <1>7, <2>1, <3>2 DEF Extends
  <2> QED BY <1>1, <1>3, <1>4, <1>7, <2>2, <2>3 DEF Verdicts, q
<1> QED BY <1>6, <1>7 DEF Sends, q

LEMMA TakesTurn ==
  ASSUME SessionTyped, TurnInv, NEW c, NEW id, Takes(c, id), NEW p, IsPacket(p), Sends(p)
  PROVE  /\ gdb.mode = "sent" /\ gdb.id \in 1..MAXCMDS /\ gdb.id = id /\ gdb.cmd = c /\ gdb' = gdb
         /\ TurnInv' /\ Of(toGdb', {"+"}) # {} /\ Of(toGdb, {"+"}) = {}
         /\ \A i \in Of(toGdb', {"packet"}) : \A j \in Of(toGdb', {"+"}) :
              j < i => toGdb'[i] = p /\ toGdb' = Append(Append(toGdb, Plus), p)
<1>1. /\ pc = "get" /\ toStub # << >> /\ Head(toStub).kind = "packet" /\ Head(toStub).body = c
      /\ Head(toStub).id = id /\ toStub' = Tail(toStub) /\ gdb' = gdb
  BY DEF Takes, debugger
<1>2. IsLine(toStub) /\ IsLine(toGdb)
  BY DEF SessionTyped, LinesTyped
<1>3. /\ \A i, j \in Requests : i = j
      /\ Requests = {} \/ Verdicts = {}
      /\ gdb.mode # "sent" => Requests = {} /\ Verdicts = {}
      /\ \A i \in Requests : toStub[i].id = gdb.id /\ toStub[i].body = gdb.cmd
  BY <1>1 DEF TurnInv
<1>4. 1 \in Requests /\ Head(toStub) = toStub[1]
  BY <1>1, <1>2, TailOf DEF Requests
<1>5. gdb.mode = "sent" /\ Verdicts = {} /\ gdb.id = id /\ gdb.cmd = c
  BY <1>1, <1>3, <1>4
<1>6. gdb.id \in 1..MAXCMDS
  BY <1>5, SessionConstants DEF SessionTyped, GdbTyped
<1>7. Requests' = {}
  BY <1>1, <1>2, <1>3, LastOf DEF Requests
<1>8. /\ \A i, j \in Verdicts' : i = j
      /\ Of(toGdb', {"+"}) # {} /\ Of(toGdb, {"+"}) = {}
      /\ \A i \in Of(toGdb', {"packet"}) : \A j \in Of(toGdb', {"+"}) :
           j < i => toGdb'[i] = p /\ toGdb' = Append(Append(toGdb, Plus), p)
  BY <1>2, <1>5, PlusSent
<1>9. TurnInv'
  BY <1>1, <1>5, <1>7, <1>8 DEF TurnInv
<1> QED BY <1>1, <1>5, <1>6, <1>8, <1>9

\* What the reply of a command that keeps the program halted tells gdb is so.
LEMMA HaltsTold ==
  ASSUME SessionTyped, BeliefInv, NEW c, NEW id, Takes(c, id), gdb.mode = "sent", gdb.cmd = c,
         Halts(c, id)
  PROVE  BeliefInv' /\ Halted' /\ Knows(Learn(c, Shown(reply.body)))'
<1>1. PICK r : /\ Tells(c, s, r) /\ s' = r.s /\ Replies(id, r.reply, "get")
  BY DEF Halts
<1>2. UNCHANGED <<gdb, believed>> /\ pc' = "ack" /\ next' = "get" /\ reply' = Packet(id, r.reply)
  BY <1>1 DEF Takes, debugger, Replies
<1>3. \A x : Now(x)' = NowOf(r.s, x)
  BY <1>1 DEF Now, NowOf
<1>4. \A x \in Cells : believed[x] \in {Unknown, Now(x)'}
  <2>1. ASSUME NEW x \in Cells \ Touched(c) PROVE believed[x] \in {Unknown, Now(x)'}
    BY <1>1, <1>3, <2>1 DEF Tells, BeliefInv, Knows, Now
  <2>2. ASSUME NEW x \in Touched(c) PROVE believed[x] = Unknown
    BY <2>2 DEF BeliefInv, Busy
  <2> QED BY <2>1, <2>2
<1>5. Halted'
  BY <1>2 DEF Halted
<1>6. BeliefInv'
  BY <1>2, <1>4, <1>5 DEF BeliefInv, Knows
<1>7. reply'.body = r.reply
  BY <1>2, TokenKinds
<1>8. Learn(c, Shown(reply.body))' = Learn(c, Shown(r.reply))
  BY <1>2, <1>7 DEF Learn
<1>9. \A x \in Cells : Learn(c, Shown(r.reply))[x] \in {Unknown, Now(x)'}
  BY <1>1, <1>3, <1>4 DEF Tells
<1>10. Knows(Learn(c, Shown(reply.body)))'
  BY <1>8, <1>9 DEF Knows
<1> QED BY <1>5, <1>6, <1>10

\* gdb believes nothing of a program it lets go.
LEMMA GoneBelief ==
  ASSUME BeliefInv, gdb.mode = "sent", gdb.cmd.op \in Resuming, UNCHANGED <<gdb, believed>>
  PROVE  BeliefInv'
<1>1. Touched(gdb.cmd) = Cells
  BY DEF Touched, Resuming
<1>2. \A x \in Cells : believed'[x] = Unknown
  BY <1>1 DEF BeliefInv, Busy
<1> QED BY <1>1, <1>2 DEF BeliefInv, Knows

LEMMA TakeCommandPatient ==
  ASSUME SessionTyped, PatientInv, TakeCommand
  PROVE  PatientInv'
<1>1. PICK c, id :
        /\ c \in Commands /\ Takes(c, id) /\ IsProgram(s')
        /\ Halts(c, id) \/ Refuses(c, id) \/ Continues(c, id) \/ LetsGo(c, id) \/ Restarts(c, id)
  BY TakeCommandDoes
<1>2. TurnInv /\ ReplyInv /\ BeliefInv /\ MeantInv
  BY DEF PatientInv
<1>3. UNCHANGED <<gdb, believed, meant, accepted, ackDamaged>>
      /\ executed' = [executed EXCEPT ![id] = @ + 1]
  BY <1>1 DEF Takes, debugger
<1>4. PICK p : /\ IsPacket(p) /\ p.id = id
               /\ p.body \in Ended => ~Refuses(c, id) /\ ~Continues(c, id)
               /\ Continues(c, id) => p.body \in Said
               /\ \/ toGdb' = Append(toGdb, Plus) /\ (Continues(c, id) \/ Restarts(c, id))
                  \/ toGdb' = Append(Append(toGdb, Plus), p) /\ reply' = p /\ pc' = "ack"
               /\ Sends(p)
  <2>1. CASE Continues(c, id) \/ Restarts(c, id)
    <3>1. toGdb' = Append(toGdb, Plus)
      BY <2>1 DEF Continues, Restarts, GoesOn
    <3>2. /\ IsPacket(Packet(id, <<"O">>)) /\ Packet(id, <<"O">>).id = id
          /\ Packet(id, <<"O">>).body \in Said \ Ended
      BY TokenKinds DEF Said, Ended
    <3> QED BY <2>1, <3>1, <3>2 DEF Sends
  <2>2. CASE Halts(c, id) \/ Refuses(c, id) \/ LetsGo(c, id)
    <3>1. PICK body, then : /\ Replies(id, body, then)
                            /\ body \in Ended => ~Refuses(c, id)
                            /\ ~Continues(c, id)
      <4>1. CASE Refuses(c, id)
        <5>1. PICK body : body \notin Ended /\ Replies(id, body, "get")
          BY <4>1 DEF Refuses
        <5>2. ~Continues(c, id)
          BY <5>1 DEF Replies, Continues, GoesOn
        <5> QED BY <5>1, <5>2
      <4>2. CASE ~Refuses(c, id)
        <5>1. PICK body, then : Replies(id, body, then)
          BY <2>2, <4>2 DEF Halts, LetsGo
        <5>2. ~Continues(c, id)
          BY <2>2, <4>2 DEF Halts, LetsGo, Continues, Going, Resuming
        <5> QED BY <4>2, <5>1, <5>2
      <4> QED BY <4>1, <4>2
    <3>2. IsPacket(Packet(id, body)) /\ Packet(id, body).id = id /\ Packet(id, body).body = body
      BY TokenKinds
    <3> QED BY <3>1, <3>2 DEF Sends, Replies
  <2> QED BY <1>1, <2>1, <2>2
<1>5. /\ gdb.mode = "sent" /\ gdb.id \in 1..MAXCMDS /\ gdb.id = id /\ gdb.cmd = c
      /\ TurnInv' /\ Of(toGdb', {"+"}) # {} /\ Of(toGdb, {"+"}) = {}
      /\ \A i \in Of(toGdb', {"packet"}) : \A j \in Of(toGdb', {"+"}) :
           j < i => toGdb'[i] = p /\ toGdb' = Append(Append(toGdb, Plus), p)
  BY <1>1, <1>2, <1>4, TakesTurn
<1>6. /\ executed[gdb.id] \in Nat /\ executed'[gdb.id] = executed[gdb.id] + 1
      /\ \A i \in 1..MAXCMDS : i # gdb.id => executed'[i] = executed[i]
  BY <1>3, <1>5 DEF SessionTyped, GdbTyped
<1>7. OnceInv => OnceInv'
  <2> SUFFICES ASSUME OnceInv PROVE OnceInv'
    OBVIOUS
  <2>1. executed[gdb.id] = 0
    BY <1>5, <1>6 DEF OnceInv
  <2>2. \A i \in 1..MAXCMDS : executed'[i] <= 1 /\ (i > gdb.id => executed'[i] = 0)
    BY <1>5, <1>6, <2>1 DEF OnceInv
  <2> QED BY <1>3, <1>5, <2>2 DEF OnceInv
<1>8. BeliefInv'
  <2>1. CASE Halts(c, id)
    BY <1>1, <1>2, <1>5, <2>1, HaltsTold
  <2>2. CASE ~Halts(c, id)
    <3>1. c.op \in Resuming
      BY <1>1, <2>2 DEF Refuses, Continues, LetsGo, Restarts, Going, Resuming
    <3> QED BY <1>2, <1>3, <1>5, <3>1, GoneBelief
  <2> QED BY <2>1, <2>2
<1>9. MeantInv'
  <2>1. executed'[gdb.id] # 0 /\ (executed'[gdb.id] = 1 => executed[gdb.id] = 0)
    BY <1>6
  <2>2. cause' \in 0..gdb.id
    <3>1. cause' = cause \/ cause' = id
      BY <1>1 DEF Halts, Refuses, Continues, LetsGo, Restarts
    <3> QED BY <1>2, <1>5, <3>1 DEF MeantInv
  <2>3. pc' = "ack" => reply'.id = gdb.id
    <3>1. Continues(c, id) \/ Restarts(c, id) => pc' # "ack"
      BY DEF Continues, Restarts, GoesOn
    <3> QED BY <1>4, <1>5, <3>1
  <2>4. ASSUME pc' = "ack", next' = "run", executed'[gdb.id] = 1, c.op \in Resuming
        PROVE  c.op = "D" /\ \A r \in Registers : meant[r] \in {Unknown, t'[r]}
    <3>1. LetsGo(c, id)
      BY <1>1, <2>4 DEF Halts, Refuses, Continues, Restarts, GoesOn, Replies
    <3>2. c.op = "D" /\ t' = s.regs
      BY <3>1 DEF LetsGo
    <3> QED BY <1>2, <1>5, <2>1, <2>4, <3>2 DEF MeantInv
  <2> QED BY <1>3, <1>5, <2>1, <2>2, <2>3, <2>4 DEF MeantInv
<1>10. ReplyInv'
  <2> SUFFICES ASSUME c.op \notin {"D", "R", "k"}
               PROVE  /\ \A i \in Of(toGdb', {"packet"}) : Since(i)' => Fits(toGdb[i])'
                      /\ Serves'
    BY <1>3, <1>5 DEF ReplyInv
  <2>1. Halts(c, id) \/ Refuses(c, id) \/ Continues(c, id)
    BY <1>1 DEF LetsGo, Restarts
  <2>2. ASSUME NEW i \in Of(toGdb', {"packet"}), Since(i)'
        PROVE  Fits(toGdb[i])'
    <3>1. PICK j \in Of(toGdb', {"+"}) : j < i
      BY <1>3, <1>5, <2>2 DEF Since
    <3>2. toGdb'[i] = p /\ toGdb' = Append(Append(toGdb, Plus), p)
      BY <1>5, <2>2, <3>1
    <3>3. CASE c.op \in Going
      <4>1. Refuses(c, id) \/ Continues(c, id)
        BY <2>1, <3>3 DEF Halts, Going, Resuming
      <4>2. p.body \notin Ended /\ (Halted' \/ p.body \in Said)
        <5>1. Refuses(c, id) => Halted'
          BY DEF Refuses, Replies, Halted
        <5> QED BY <1>4, <4>1, <5>1
      <4> QED BY <1>3, <1>4, <1>5, <3>2, <3>3, <4>2 DEF Fits, Timely
    <3>4. CASE c.op \notin Going
      <4>1. ~Continues(c, id) /\ ~Restarts(c, id)
        BY <3>4 DEF Continues, Restarts
      <4> QED BY <1>3, <1>4, <1>5, <3>2, <3>4, <4>1 DEF Fits
    <3> QED BY <3>3, <3>4
  <2>3. CASE Halts(c, id)
    <3>1. c.op \notin Going
      BY <2>3 DEF Halts, Going, Resuming
    <3>2. reply'.id = gdb.id
      <4>1. ~Continues(c, id) /\ ~Restarts(c, id)
        BY <2>3, <3>1 DEF Continues, Restarts
      <4> QED BY <1>4, <1>5, <4>1
    <3>3. Halted' /\ Knows(Learn(c, Shown(reply.body)))'
      BY <1>1, <1>2, <1>5, <2>3, HaltsTold
    <3>4. gdb'.cmd = c /\ gdb'.id = gdb.id
      BY <1>3, <1>5
    <3>5. Knows(Learn(gdb.cmd, Shown(reply.body)))'
      <4>1. Learn(c, Shown(reply.body))' = Learn(gdb.cmd, Shown(reply.body))'
        BY <3>4 DEF Learn
      <4> QED BY <3>3, <4>1 DEF Knows
    <3> QED BY <2>2, <3>1, <3>2, <3>3, <3>4, <3>5 DEF Serves
  <2>4. CASE Refuses(c, id)
    <3>1. /\ c.op \in Going /\ pc' = "ack" /\ next' = "get"
          /\ reply'.id = id /\ reply'.body \notin Ended
      BY <2>4, TokenKinds DEF Refuses, Replies
    <3> QED BY <1>3, <1>5, <2>2, <3>1 DEF Serves, Running, Halted, Timely
  <2>5. CASE Continues(c, id)
    <3>1. c.op \in Going /\ pc' = "run" /\ cause' = id
      BY <2>5 DEF Continues, GoesOn
    <3> QED BY <1>3, <1>5, <2>2, <3>1 DEF Serves
  <2> QED BY <2>1, <2>3, <2>4, <2>5
<1> QED BY <1>3, <1>5, <1>7, <1>8, <1>9, <1>10, NothingElse

\* The stub refuses a packet.
LEMMA RefusePacketPatient ==
  ASSUME SessionTyped, PatientInv, RefusePacket
  PROVE  PatientInv'
<1>1. /\ pc = "get" /\ toStub # << >> /\ Head(toStub).kind = "packet"
      /\ toStub' = Tail(toStub) /\ toGdb' = Append(toGdb, Minus)
      /\ UNCHANGED <<machine, gdb, believed, meant, accepted, executed, ackDamaged>>
  BY DEF RefusePacket, Arrives, debugger, history
<1>2. TurnInv /\ ReplyInv /\ BeliefInv /\ MeantInv
  BY DEF PatientInv
<1>3. IsLine(toStub) /\ IsLine(toGdb)
  BY DEF SessionTyped, LinesTyped
<1>4. UNCHANGED <<pc, next, reply, s, t, cause>> /\ Halted' = Halted
  BY <1>1, MachineSame
<1>5. IsToken(Minus) /\ Minus.kind = "-"
  BY TokenKinds
<1>6. TurnInv'
  <2>1. 1 \in Requests
    BY <1>1, <1>3, TailOf DEF Requests
  <2>2. gdb.mode = "sent" /\ Verdicts = {} /\ \A i, j \in Requests : i = j
    BY <1>1, <1>2, <2>1 DEF TurnInv
  <2>3. Requests' = {}
    BY <1>1, <1>3, <2>2, LastOf DEF Requests
  <2>4. \A i \in Verdicts' : i = Len(toGdb) + 1
    BY <1>1, <1>3, <1>5, <2>2, FirstOf DEF Verdicts
  <2> QED BY <1>1, <2>2, <2>3, <2>4 DEF TurnInv
<1>7. Extends(toGdb', toGdb, Minus)
  BY <1>1, <1>3, AppendExtends DEF IsLine
<1>8. Of(toGdb', {"+"}) = Of(toGdb, {"+"})
  BY <1>3, <1>5, <1>7, ExtendsLine
<1>9. BeliefInv' /\ MeantInv'
  BY <1>1, <1>2, <1>4, BeliefKept, MeantKept
<1>10. OnceInv => OnceInv'
  BY <1>1, <1>8, OnceKept
<1>11. ReplyInv'
  <2>1. Served => Serves'
    BY <1>1, SameServes DEF Served
  <2> QED BY <1>1, <1>2, <1>3, <1>4, <1>5, <1>7, <2>1, ReplyExtends
<1> QED BY <1>1, <1>6, <1>9, <1>10, <1>11, NothingElse

-----------------------------------------------------------------------------
(* The steps of gdb *)

LEMMA AttachPatient ==
  ASSUME SessionTyped, PatientInv, Attach
  PROVE  PatientInv'
<1>1. /\ gdb.mode = "away" /\ gdb' = [gdb EXCEPT !.mode = "idle"]
      /\ pc = "ack" /\ toGdb' = << >> /\ toStub' = Append(toStub, Plus)
      /\ UNCHANGED <<machine, believed, meant, accepted, executed, ackDamaged>>
  BY DEF Attach, history
<1>2. TurnInv /\ ReplyInv /\ BeliefInv /\ MeantInv
  BY DEF PatientInv
<1>3. gdb'.mode = "idle" /\ gdb'.cmd = gdb.cmd /\ gdb'.id = gdb.id
  BY <1>1, GdbMoves DEF SessionTyped
<1>4. UNCHANGED <<pc, next, reply, s, t, cause>> /\ Halted' = Halted
  BY <1>1, MachineSame
<1>5. NoMore(toStub', toStub, {"packet"})
  BY <1>1, AppendExtends, ExtendsLine, TokenKinds DEF SessionTyped, LinesTyped, IsLine
<1>6. NoMore(toGdb', toGdb, {"+", "-"})
  BY <1>1 DEF NoMore, Of
<1>7. TurnInv'
  BY <1>1, <1>2, <1>3, <1>4, <1>5, <1>6, TurnKept
<1>8. BeliefInv' /\ MeantInv'
  BY <1>1, <1>2, <1>3, <1>4, BeliefKept, MeantKept DEF Busy
<1>9. OnceInv => OnceInv'
  BY <1>1, <1>3, OnceKept
<1>10. ReplyInv'
  BY <1>3 DEF ReplyInv, Busy
<1> QED BY <1>1, <1>7, <1>8, <1>9, <1>10, NothingElse

LEMMA SendCommandPatient ==
  ASSUME SessionTyped, PatientInv, SendCommand
  PROVE  PatientInv'
<1>1. PICK c \in Commands :
        /\ gdb' = [mode |-> "sent", cmd |-> c, id |-> gdb.id + 1]
        /\ toStub' = Append(toStub, Packet(gdb.id + 1, c))
        /\ believed' = Forget(c) /\ meant' = believed
  BY DEF SendCommand
<1>2. /\ gdb.mode = "idle" /\ gdb.id < MAXCMDS
      /\ UNCHANGED <<machine, toGdb, accepted, executed, ackDamaged>>
  BY DEF SendCommand, history
<1>3. TurnInv /\ ReplyInv /\ BeliefInv /\ MeantInv
  BY DEF PatientInv
<1>4. UNCHANGED <<pc, next, reply, s, t, cause>> /\ Halted' = Halted
  BY <1>2, MachineSame
<1>5. gdb'.mode = "sent" /\ gdb'.cmd = c /\ gdb'.id = gdb.id + 1 /\ gdb.id \in Nat
  BY <1>1, SessionConstants DEF SessionTyped, GdbTyped
<1>6. Requests = {} /\ Verdicts = {} /\ Of(toGdb, {"+"}) = {}
  BY <1>2, <1>3 DEF TurnInv, Verdicts, Of
<1>7. TurnInv'
  <2> DEFINE p == Packet(gdb.id + 1, c)
  <2>1. IsToken(p) /\ p.id = gdb.id + 1 /\ p.body = c
    BY TokenKinds
  <2> HIDE DEF p
  <2>2. \A i \in Requests' : i = Len(toStub) + 1 /\ toStub'[i] = p
    BY <1>1, <1>6, <2>1, FirstOf DEF Requests, SessionTyped, LinesTyped, p
  <2>3. Verdicts' = {}
    BY <1>2, <1>6 DEF Verdicts
  <2> QED BY <1>5, <2>1, <2>2, <2>3 DEF TurnInv
<1>8. ReplyInv'
  BY <1>2, <1>5, <1>6 DEF ReplyInv, Since, Taken
<1>9. BeliefInv'
  <2>1. \A x : Now(x)' = Now(x)
    BY <1>4 DEF Now, NowOf
  <2>2. \A x \in Cells : believed'[x] \in {Unknown, believed[x]}
    BY <1>1 DEF Forget
  <2>3. Touched(c) \subseteq Cells
    BY DEF Touched, Cells
  <2>4. \A x \in Touched(c) : believed'[x] = Unknown
    BY <1>1, <2>3 DEF Forget
  <2> QED BY <1>3, <1>4, <1>5, <2>1, <2>2, <2>4 DEF BeliefInv, Knows
<1>10. MeantInv'
  <2>1. /\ \A r \in Registers : meant'[r] \in {Unknown, s.regs[r]}
        /\ Halted \/ \A r \in Registers : meant'[r] = Unknown
    BY <1>1, <1>3 DEF BeliefInv, Knows, Now, NowOf, Cells, Registers
  <2>2. pc = "ack" => reply.id # gdb.id + 1
    BY <1>3, <1>5 DEF MeantInv
  <2>3. cause \in 0..gdb.id+1 /\ (pc = "ack" => reply.id \in 0..gdb.id+1)
    BY <1>3, <1>5 DEF MeantInv
  <2> QED BY <1>4, <1>5, <2>1, <2>2, <2>3 DEF MeantInv
<1>11. OnceInv => OnceInv'
  <2> SUFFICES ASSUME OnceInv PROVE OnceInv'
    OBVIOUS
  <2>1. gdb.id + 1 \in 1..MAXCMDS /\ gdb.id + 1 > gdb.id
    BY <1>2, <1>5, SessionConstants
  <2>2. executed[gdb.id + 1] = 0
    BY <2>1 DEF OnceInv
  <2>3. \A i \in 1..MAXCMDS : executed[i] <= 1 /\ (i > gdb.id + 1 => executed[i] = 0)
    BY <1>5, SessionConstants DEF OnceInv
  <2> QED BY <1>2, <1>5, <2>2, <2>3 DEF OnceInv
<1> QED BY <1>2, <1>7, <1>8, <1>9, <1>10, <1>11 DEF PatientInv

\* gdb reads a token of the line: what does not depend on which.
LEMMA GdbReadsOne ==
  ASSUME SessionTyped, toGdb # << >>, toGdb' = Tail(toGdb)
  PROVE  /\ IsLine(toGdb) /\ Thins(toGdb', toGdb)
         /\ NoMore(toGdb', toGdb, {"+", "-"})
         /\ Head(toGdb).kind # "+" => (Of(toGdb, {"+"}) # {} => Of(toGdb', {"+"}) # {})
<1>1. IsLine(toGdb)
  BY DEF SessionTyped, LinesTyped
<1>2. Thins(toGdb', toGdb)
  BY <1>1, TailThins DEF IsLine
<1>3. Head(toGdb).kind # "+" => (Of(toGdb, {"+"}) # {} => Of(toGdb', {"+"}) # {})
  BY <1>1, TailOf
<1> QED BY <1>1, <1>2, <1>3, TailOf DEF Counted

\* gdb answers with an acknowledgement, or with nothing.
LEMMA StubGetsNone ==
  ASSUME SessionTyped, toStub' = toStub \/ \E e \in {Plus, Minus} : toStub' = Append(toStub, e)
  PROVE  NoMore(toStub', toStub, {"packet"})
<1>1. IsLine(toStub)
  BY DEF SessionTyped, LinesTyped
<1>2. ASSUME NEW e \in {Plus, Minus}, toStub' = Append(toStub, e)
      PROVE  NoMore(toStub', toStub, {"packet"})
  <2>1. IsToken(e) /\ e.kind \notin {"packet"}
    BY TokenKinds
  <2>2. Extends(toStub', toStub, e)
    BY <1>1, <1>2, AppendExtends DEF IsLine
  <2> QED BY <1>1, <2>1, <2>2, ExtendsLine
<1> QED BY <1>2, SameNoMore

LEMMA GdbReadsAckPatient ==
  ASSUME SessionTyped, PatientInv, GdbReadsAck
  PROVE  PatientInv'
<1>1. /\ gdb.mode = "sent" /\ toGdb # << >> /\ toGdb' = Tail(toGdb)
      /\ UNCHANGED <<machine, believed, meant, accepted, executed, ackDamaged>>
      /\ GdbReadsAckDoes(Head(toGdb))
  BY GdbReadsAckIs DEF history
<1>2. TurnInv /\ ReplyInv /\ BeliefInv /\ MeantInv
  BY DEF PatientInv
<1>3. IsLine(toStub) /\ IsLine(toGdb)
  BY DEF SessionTyped, LinesTyped
<1>4. UNCHANGED <<pc, next, reply, s, t, cause>> /\ Halted' = Halted
  BY <1>1, MachineSame
<1>5. gdb'.cmd = gdb.cmd /\ gdb'.id = gdb.id
  BY <1>1, GdbMoves, AfterIs DEF GdbReadsAckDoes, SessionTyped, Busy
<1>6. BeliefInv' /\ MeantInv'
  BY <1>1, <1>2, <1>4, <1>5, BeliefKept, MeantKept DEF Busy
<1>7. /\ Thins(toGdb', toGdb) /\ NoMore(toGdb', toGdb, {"+", "-"})
      /\ Head(toGdb).kind # "+" => (Of(toGdb, {"+"}) # {} => Of(toGdb', {"+"}) # {})
  BY <1>1, GdbReadsOne
<1>8. /\ \A i, j \in Requests : i = j
      /\ \A i, j \in Verdicts : i = j
      /\ Requests = {} \/ Verdicts = {}
      /\ \A i \in Requests : toStub[i].id = gdb.id /\ toStub[i].body = gdb.cmd
  BY <1>1, <1>2 DEF TurnInv
<1>9. Head(toGdb).kind \in {"+", "-"} => Requests = {} /\ Verdicts' = {}
  <2>1. Head(toGdb).kind \in {"+", "-"} => Verdicts # {}
    BY <1>1, <1>3, TailOf DEF Verdicts
  <2> QED BY <1>1, <1>3, <1>8, <2>1, LastOf DEF Verdicts
<1>10. CASE /\ Head(toGdb).kind = "+" /\ UNCHANGED toStub
            /\ gdb' = [gdb EXCEPT !.mode = AfterAck(gdb.cmd)]
  <2>1. gdb'.mode = AfterAck(gdb.cmd) /\ gdb'.mode \in {"gone", "idle", "waits"}
    BY <1>10, GdbMoves, AfterIs DEF SessionTyped, Busy
  <2>2. TurnInv'
    BY <1>9, <1>10 DEF TurnInv, Requests
  <2>3. OnceInv => OnceInv'
    BY <1>1, <1>5, <2>1, OnceKept
  <2>4. /\ Len(toGdb) \in Nat /\ Len(toGdb) > 0 /\ Len(toGdb') = Len(toGdb) - 1
        /\ \A i \in 1..Len(toGdb)-1 : toGdb'[i] = toGdb[i+1]
    BY <1>1, <1>3, TailIs DEF IsLine
  <2>5. 1 \in Of(toGdb, {"+"})
    BY <1>1, <1>3, <1>10, TailOf
  <2>6. ASSUME gdb.cmd.op \notin {"D", "R", "k"}
        PROVE  /\ \A i \in Of(toGdb', {"packet"}) : Fits(toGdb[i])'
               /\ Serves'
    <3>1. /\ \A i \in Of(toGdb, {"packet"}) : Since(i) => Fits(toGdb[i])
          /\ Serves
      BY <1>1, <1>2, <2>5, <2>6 DEF ReplyInv, Busy, Taken
    <3>2. ASSUME NEW i \in Of(toGdb', {"packet"}) PROVE Fits(toGdb[i])'
      <4>1. i \in 1..Len(toGdb)-1 /\ toGdb'[i].kind = "packet"
        BY <2>4, <3>2 DEF Of
      <4>2. i + 1 \in 1..Len(toGdb) /\ 1 < i + 1 /\ toGdb'[i] = toGdb[i+1]
        BY <2>4, <4>1
      <4>3. i + 1 \in Of(toGdb, {"packet"}) /\ Since(i + 1)
        BY <2>5, <4>1, <4>2 DEF Of, Since
      <4>4. Fits(toGdb[i+1])
        BY <3>1, <4>3
      <4>5. s' = s /\ reply' = reply /\ Halted' = Halted /\ gdb'.cmd = gdb.cmd /\ gdb'.id = gdb.id
        BY <1>4, <1>5
      <4> QED BY <4>2, <4>4, <4>5 DEF Fits, Timely
    <3>3. Serves'
      BY <1>1, <1>5, <3>1, SameServes
    <3> QED BY <3>2, <3>3
  <2>7. ReplyInv'
    BY <1>5, <2>6 DEF ReplyInv
  <2> QED BY <1>1, <1>6, <2>2, <2>3, <2>7, NothingElse
<1>11. CASE gdb' = gdb /\ Head(toGdb).kind # "+"
  <2>1. TurnInv'
    <3>1. CASE Head(toGdb).kind = "-" /\ toStub' = Append(toStub, Packet(gdb.id, gdb.cmd))
      <4> DEFINE p == Packet(gdb.id, gdb.cmd)
      <4>1. IsToken(p) /\ p.id = gdb.id /\ p.body = gdb.cmd
        BY TokenKinds
      <4> HIDE DEF p
      <4>2. \A i \in Requests' : i = Len(toStub) + 1 /\ toStub'[i] = p
        BY <1>3, <1>9, <3>1, <4>1, FirstOf DEF Requests, p
      <4> QED BY <1>1, <1>9, <1>11, <3>1, <4>1, <4>2 DEF TurnInv
    <3>2. CASE toStub' = toStub \/ \E e \in {Plus, Minus} : toStub' = Append(toStub, e)
      BY <1>2, <1>4, <1>7, <1>11, <3>2, StubGetsNone, TurnKept
    <3> QED BY <1>1, <1>11, <3>1, <3>2 DEF GdbReadsAckDoes
  <2>2. OnceInv => OnceInv'
    BY <1>1, <1>7, <1>11, OnceKept
  <2>3. ReplyInv'
    BY <1>1, <1>2, <1>3, <1>7, <1>11, ReplyThins
  <2> QED BY <1>1, <1>6, <2>1, <2>2, <2>3, NothingElse
<1> QED BY <1>1, <1>10, <1>11 DEF GdbReadsAckDoes

\* The reply gdb takes for a command is its own, and tells it what is so.
LEMMA ReplyIsOwn ==
  ASSUME SessionTyped, PatientInv, gdb.mode = "waits", toGdb # << >>, NEW h, h = Head(toGdb),
         h.kind = "packet", AfterReply(gdb.cmd, Shown(h.body)) = "idle"
  PROVE  /\ h.id = gdb.id /\ Knows(Learn(gdb.cmd, Shown(h.body)))
         /\ Halted \/ \A x \in Cells : Learn(gdb.cmd, Shown(h.body))[x] = Unknown
<1>1. IsLine(toGdb) /\ gdb.cmd.op \notin {"R", "k"}
  BY DEF SessionTyped, LinesTyped, GdbTyped
<1>2. gdb.cmd.op # "D" /\ Shown(h.body)[1] \notin {"O", "W", "X"}
  BY DEF AfterReply
<1>3. 1 \in Of(toGdb, {"packet"}) /\ h = toGdb[1]
  BY <1>1, TailOf
<1>4. Fits(h) /\ Serves
  BY <1>1, <1>2, <1>3 DEF PatientInv, ReplyInv, Busy, Since, Taken
<1>5. CASE gdb.cmd.op \in Going
  <2>1. h.body \notin Said
    <3>1. \A x : <<x>> # Blank /\ <<x>>[1] = x
      BY DEF Blank
    <3> QED BY <1>2, <3>1 DEF Said, Ended, Shown
  <2>2. Learn(gdb.cmd, Shown(h.body)) = believed
    BY <1>5 DEF Learn, Going
  <2> QED BY <1>4, <1>5, <2>1, <2>2 DEF Fits, PatientInv, BeliefInv
<1>6. CASE gdb.cmd.op \notin Going
  BY <1>4, <1>6 DEF Fits, Serves
<1> QED BY <1>5, <1>6

LEMMA GdbReadsReplyPatient ==
  ASSUME SessionTyped, PatientInv, GdbReadsReply
  PROVE  PatientInv'
<1> DEFINE h == Head(toGdb)
           mode == AfterReply(gdb.cmd, Shown(h.body))
<1>1. /\ gdb.mode = "waits" /\ toGdb # << >> /\ h.kind = "packet"
      /\ gdb' = [gdb EXCEPT !.mode = mode]
      /\ accepted' = IF mode = "idle" THEN [cmd |-> gdb.id, of |-> h.id] ELSE accepted
      /\ believed' = IF mode = "idle" THEN Learn(gdb.cmd, Shown(h.body)) ELSE believed
      /\ toGdb' = Tail(toGdb) /\ toStub' = Append(toStub, Plus)
      /\ UNCHANGED <<machine, meant, executed, ackDamaged>>
  BY DEF GdbReadsReply, Arrives, Shown, history
<1>2. TurnInv /\ ReplyInv /\ BeliefInv /\ MeantInv
  BY DEF PatientInv
<1>3. UNCHANGED <<pc, next, reply, s, t, cause>> /\ Halted' = Halted
  BY <1>1, MachineSame
<1>4. mode \in {"gone", "idle", "waits"}
  BY AfterIs
<1>5. mode = "idle" =>
        /\ h.id = gdb.id /\ Knows(Learn(gdb.cmd, Shown(h.body)))
        /\ Halted \/ \A x \in Cells : Learn(gdb.cmd, Shown(h.body))[x] = Unknown
  BY <1>1, ReplyIsOwn
<1> HIDE DEF h, mode
<1>6. gdb'.mode = mode /\ gdb'.cmd = gdb.cmd /\ gdb'.id = gdb.id
  BY <1>1, <1>4, GdbMoves DEF SessionTyped, Busy
<1>7. IsLine(toGdb) /\ Thins(toGdb', toGdb) /\ NoMore(toGdb', toGdb, {"+", "-"})
  BY <1>1, GdbReadsOne
<1>8. NoMore(toStub', toStub, {"packet"})
  BY <1>1, StubGetsNone
<1>9. TurnInv'
  BY <1>1, <1>2, <1>3, <1>4, <1>6, <1>7, <1>8, TurnKept
<1>10. MeantInv' /\ (OnceInv => OnceInv')
  BY <1>1, <1>2, <1>3, <1>4, <1>6, MeantKept, OnceKept
<1>11. BeliefInv' /\ accepted'.cmd = accepted'.of
  <2>1. CASE mode = "idle"
    <3>1. believed' = Learn(gdb.cmd, Shown(h.body)) /\ gdb'.mode \notin Busy
      BY <1>1, <1>6, <2>1 DEF Busy
    <3>2. \A x : Now(x)' = Now(x)
      BY <1>3 DEF Now, NowOf
    <3>3. BeliefInv'
      BY <1>3, <1>5, <2>1, <3>1, <3>2 DEF BeliefInv, Knows
    <3> QED BY <1>1, <1>5, <2>1, <3>3
  <2>2. CASE mode # "idle"
    BY <1>1, <1>2, <1>3, <1>6, <2>2, BeliefKept DEF Busy, PatientInv
  <2> QED BY <2>1, <2>2
<1>12. ReplyInv'
  <2>1. CASE mode = "waits"
    <3>1. gdb' = gdb
      <4>1. gdb = [mode |-> gdb.mode, cmd |-> gdb.cmd, id |-> gdb.id]
        BY DEF SessionTyped, GdbTyped
      <4> QED BY <1>1, <2>1, <4>1
    <3> QED BY <1>1, <1>2, <1>7, <2>1, <3>1, ReplyThins
  <2>2. CASE mode # "waits"
    BY <1>4, <1>6, <2>2 DEF ReplyInv, Busy
  <2> QED BY <2>1, <2>2
<1> QED BY <1>1, <1>9, <1>10, <1>11, <1>12 DEF PatientInv

LEMMA GdbRefusesPatient ==
  ASSUME SessionTyped, PatientInv, GdbRefuses
  PROVE  PatientInv'
<1>1. /\ gdb.mode = "waits" /\ toGdb # << >> /\ toGdb' = Tail(toGdb)
      /\ toStub' = toStub \/ toStub' = Append(toStub, Minus)
      /\ UNCHANGED <<machine, gdb, believed, meant, accepted, executed, ackDamaged>>
  BY GdbRefusesDoes DEF debugger, history
<1>2. TurnInv /\ ReplyInv /\ BeliefInv /\ MeantInv
  BY DEF PatientInv
<1>3. UNCHANGED <<pc, next, reply, s, t, cause>> /\ Halted' = Halted
  BY <1>1, MachineSame
<1>4. IsLine(toGdb) /\ Thins(toGdb', toGdb) /\ NoMore(toGdb', toGdb, {"+", "-"})
  BY <1>1, GdbReadsOne
<1>5. TurnInv'
  BY <1>1, <1>2, <1>3, <1>4, StubGetsNone, TurnKept
<1>6. BeliefInv' /\ MeantInv' /\ (OnceInv => OnceInv')
  BY <1>1, <1>2, <1>3, BeliefKept, MeantKept, OnceKept
<1>7. ReplyInv'
  BY <1>1, <1>2, <1>4, ReplyThins
<1> QED BY <1>1, <1>5, <1>6, <1>7, NothingElse

LEMMA SilencePatient ==
  ASSUME SessionTyped, PatientInv, Silence
  PROVE  PatientInv'
<1>1. /\ gdb.mode \in Busy /\ toGdb = << >> /\ toGdb' = toGdb
      /\ UNCHANGED <<machine, believed, meant, accepted, executed, ackDamaged>>
      /\ \/ pc = "off" /\ gdb' = [gdb EXCEPT !.mode = "gone"] /\ UNCHANGED toStub
         \/ /\ pc # "off" /\ toStub = << >> /\ UNCHANGED gdb
            /\ \E e \in {Packet(gdb.id, gdb.cmd), Minus} :
                 toStub' = Append(toStub, e) /\ (e.kind = "packet" => gdb.mode = "sent")
  BY SilenceDoes DEF history
<1>2. TurnInv /\ ReplyInv /\ BeliefInv /\ MeantInv
  BY DEF PatientInv
<1>3. UNCHANGED <<pc, next, reply, s, t, cause>> /\ Halted' = Halted
  BY <1>1, MachineSame
<1>4. CASE pc = "off" /\ gdb' = [gdb EXCEPT !.mode = "gone"]
  <2>1. gdb'.mode = "gone" /\ gdb'.cmd = gdb.cmd /\ gdb'.id = gdb.id
    BY <1>4, GdbMoves DEF SessionTyped
  <2>2. TurnInv' /\ ReplyInv'
    BY <1>3, <1>4, <2>1 DEF TurnInv, ReplyInv, Busy
  <2>3. BeliefInv' /\ MeantInv' /\ (OnceInv => OnceInv')
    BY <1>1, <1>2, <1>3, <2>1, BeliefKept, MeantKept, OnceKept DEF Busy
  <2> QED BY <1>1, <2>2, <2>3, NothingElse
<1>5. ASSUME pc # "off", toStub = << >>, UNCHANGED gdb, NEW e \in {Packet(gdb.id, gdb.cmd), Minus},
             toStub' = Append(toStub, e), e.kind = "packet" => gdb.mode = "sent"
      PROVE  PatientInv'
  <2>1. /\ IsToken(e)
        /\ e.kind = "packet" => e.id = gdb.id /\ e.body = gdb.cmd
    BY <1>5, TokenKinds
  <2>2. IsLine(toStub) /\ Requests = {} /\ Verdicts' = {} /\ Verdicts = {}
    BY <1>1, <1>5 DEF SessionTyped, LinesTyped, Requests, Verdicts, Of
  <2>3. \A i \in Requests' : i = Len(toStub) + 1 /\ toStub'[i] = e
    <3>1. toStub' = Append(toStub, e)
      BY <1>5
    <3> QED BY <2>1, <2>2, <3>1, FirstOf DEF Requests
  <2>4. \A i \in Requests' : toStub'[i].kind = "packet"
    BY DEF Requests, Of
  <2>5. TurnInv'
    BY <1>1, <1>5, <2>1, <2>2, <2>3, <2>4 DEF TurnInv
  <2>6. BeliefInv' /\ MeantInv' /\ (OnceInv => OnceInv')
    BY <1>1, <1>2, <1>3, <1>5, BeliefKept, MeantKept, OnceKept
  <2>7. ReplyInv'
    <3>1. Served => Serves'
      BY <1>1, <1>5, SameServes DEF Served
    <3> QED BY <1>1, <1>2, <1>3, <1>5, <3>1, ReplySame
  <2> QED BY <1>1, <2>5, <2>6, <2>7, NothingElse
<1> QED BY <1>1, <1>4, <1>5

LEMMA FaultPatient ==
  ASSUME SessionTyped, PatientInv, Fault
  PROVE  PatientInv'
<1>1. /\ UNCHANGED <<machine, gdb, believed, meant, accepted, executed>>
      /\ toStub' = toStub \/ Thins(toStub', toStub)
      /\ toGdb' = toGdb \/ Thins(toGdb', toGdb)
      /\ \/ toGdb' = toGdb \/ ackDamaged'
         \/ Of(toGdb, {"+"}) # {} => Of(toGdb', {"+"}) # {}
      /\ ackDamaged => ackDamaged'
  BY FaultDoes DEF debugger, Fault
<1>2. TurnInv /\ ReplyInv /\ BeliefInv /\ MeantInv
  BY DEF PatientInv
<1>3. IsLine(toStub) /\ IsLine(toGdb)
  BY DEF SessionTyped, LinesTyped
<1>4. UNCHANGED <<pc, next, reply, s, t, cause>> /\ Halted' = Halted
  BY <1>1, MachineSame
<1>5. NoMore(toStub', toStub, {"packet"}) /\ NoMore(toGdb', toGdb, {"+", "-"})
  BY <1>1, <1>3, SameNoMore, ThinsLine DEF Counted
<1>6. TurnInv' /\ BeliefInv' /\ MeantInv'
  BY <1>1, <1>2, <1>4, <1>5, TurnKept, BeliefKept, MeantKept
<1>7. OnceInv => ackDamaged' \/ OnceInv'
  BY <1>1, OnceKept
<1>8. ReplyInv'
  <2>1. Served => Serves'
    BY <1>1, SameServes DEF Served
  <2> QED BY <1>1, <1>2, <1>3, <1>4, <2>1, ReplySame, ReplyThins
<1> QED BY <1>1, <1>6, <1>7, <1>8, NothingElse

-----------------------------------------------------------------------------
(* The program is held only for a debugger that answers *)

\* The machine stays as it is, and so does what is said of it.
LEMMA HeldKept ==
  ASSUME HeldInv, UNCHANGED <<pc, next, s>>, gdb'.cmd = gdb.cmd,
         gdb.mode \in Busy => gdb'.mode \in Busy,
         gdb.mode = "gone" => gdb'.mode = "gone",
         goodbyeLost \/ Of(toStub, {"+"}) # {} => goodbyeLost' \/ Of(toStub', {"+"}) # {}
  PROVE  HeldInv'
BY DEF HeldInv, Held, Running

LEMMA ProgramHeld ==
  ASSUME SessionTyped, HeldInv, Trap \/ DebugKey \/ SpaceKey \/ IgnoreKey \/ ProgramReports
  PROVE  HeldInv'
<1>1. CASE Trap
  <2>1. /\ pc = "run" /\ UNCHANGED gdb /\ s'.connected = s.connected
        /\ (pc' = "ack" /\ next' = "get") \/ pc' = "dump"
    BY <1>1, TrapDoes DEF debugger
  <2> QED BY <2>1 DEF HeldInv, Held, Running
<1>2. CASE DebugKey
  <2>1. pc' = "ack" /\ next' = "get"
    BY <1>2, DebugKeyDoes
  <2> QED BY <2>1 DEF HeldInv, Held, Running
<1>3. CASE SpaceKey \/ IgnoreKey
  <2>1. pc = "dump" /\ pc' \in {"dump", "run"} /\ UNCHANGED <<s, gdb>>
    BY <1>3 DEF SpaceKey, IgnoreKey, debugger
  <2> QED BY <2>1 DEF HeldInv, Held, Running
<1>4. CASE ProgramReports
  <2>1. /\ pc \in {"run", "dump"} /\ gdb' = gdb /\ (s'.connected => s.connected)
        /\ (s.connected /\ pc' = "ack") \/ pc' \in {"run", "off"}
    BY <1>4, ProgramReportsDoes DEF debugger
  <2>2. s.connected => gdb'.mode \in Busy /\ gdb'.cmd.op \in Going
    BY <2>1 DEF HeldInv, Running
  <2>3. Held' => s.connected
    BY <2>1 DEF Held
  <2> QED BY <2>1, <2>2, <2>3 DEF HeldInv
<1> QED BY <1>1, <1>2, <1>3, <1>4

LEMMA TakeCommandHeld ==
  ASSUME SessionTyped, PatientInv, HeldInv, TakeCommand
  PROVE  HeldInv'
<1>1. PICK c, id :
        /\ c \in Commands /\ Takes(c, id) /\ IsProgram(s')
        /\ Halts(c, id) \/ Refuses(c, id) \/ Continues(c, id) \/ LetsGo(c, id) \/ Restarts(c, id)
  BY TakeCommandDoes
<1>2. gdb.mode = "sent" /\ gdb.cmd = c /\ gdb' = gdb
  <2>1. PICK p : IsPacket(p) /\ Sends(p)
    <3>1. CASE Continues(c, id) \/ Restarts(c, id)
      <4>1. Sends(Packet(id, 0)) /\ IsPacket(Packet(id, 0))
        BY <3>1, TokenKinds DEF Continues, Restarts, GoesOn, Sends
      <4> QED BY <4>1
    <3>2. CASE Halts(c, id) \/ Refuses(c, id) \/ LetsGo(c, id)
      <4>1. PICK body, then : Replies(id, body, then)
        BY <3>2 DEF Halts, Refuses, LetsGo
      <4>2. Sends(Packet(id, body)) /\ IsPacket(Packet(id, body))
        BY <4>1, TokenKinds DEF Replies, Sends
      <4> QED BY <4>2
    <3> QED BY <1>1, <3>1, <3>2
  <2>2. TurnInv
    BY DEF PatientInv
  <2> QED BY <1>1, <2>1, <2>2, TakesTurn
<1>3. CASE Halts(c, id) \/ Refuses(c, id)
  <2>1. pc' = "ack" /\ next' = "get"
    BY <1>3 DEF Halts, Refuses, Replies
  <2> QED BY <2>1 DEF HeldInv, Held, Running
<1>4. CASE Continues(c, id)
  <2>1. pc' = "run" /\ c.op \in Going
    BY <1>4 DEF Continues, GoesOn
  <2> QED BY <1>2, <2>1 DEF HeldInv, Held, Busy
<1>5. CASE LetsGo(c, id)
  <2>1. c.op = "D" /\ ~s'.connected
    BY <1>5 DEF LetsGo
  <2> QED BY <1>2, <2>1 DEF HeldInv, Busy
<1>6. CASE Restarts(c, id)
  <2>1. ~s'.connected /\ pc' \in {"run", "off"}
    BY <1>6 DEF Restarts, GoesOn
  <2> QED BY <2>1 DEF HeldInv, Held
<1> QED BY <1>1, <1>3, <1>4, <1>5, <1>6

\* The stub takes what is no command off the line: the acknowledgement it waits for ends
\* its wait, and nothing else is one.
LEMMA StubHeld ==
  ASSUME SessionTyped, HeldInv, RefusePacket \/ PassOver \/ Acknowledged \/ SendAgain
  PROVE  HeldInv'
<1>1. CASE RefusePacket \/ PassOver
  <2>1. pc = "get" /\ UNCHANGED <<pc, next>>
    BY <1>1 DEF RefusePacket, PassOver, machine
  <2> QED BY <2>1 DEF HeldInv, Held, Running
<1>2. CASE Acknowledged
  <2>1. pc = "ack" /\ pc' = next /\ UNCHANGED <<next, s, gdb>> /\ next \in {"run", "get", "off"}
    BY <1>2 DEF Acknowledged, debugger, SessionTyped, MachineTyped
  <2> QED BY <2>1 DEF HeldInv, Held, Running
<1>3. CASE SendAgain
  <2>1. /\ toStub # << >> /\ toStub' = Tail(toStub) /\ Head(toStub).kind \notin {"+"}
        /\ UNCHANGED <<machine, gdb, goodbyeLost>>
    BY <1>3 DEF SendAgain, Arrives, debugger, history
  <2>2. Of(toStub, {"+"}) # {} => Of(toStub', {"+"}) # {}
    BY <2>1, TailOf DEF SessionTyped, LinesTyped
  <2> QED BY <2>1, <2>2, HeldKept DEF machine
<1> QED BY <1>1, <1>2, <1>3

LEMMA GdbHeld ==
  ASSUME SessionTyped, EnteredInv, PatientInv, HeldInv,
         Attach \/ SendCommand \/ GdbReadsAck \/ GdbRefuses \/ Silence \/ UNCHANGED vars
  PROVE  HeldInv'
<1>1. CASE Attach \/ SendCommand
  <2>1. UNCHANGED <<pc, next, s>> /\ gdb.mode \in {"away", "idle"}
    BY <1>1 DEF Attach, SendCommand, machine
  <2> QED BY <2>1 DEF HeldInv, Held, Running, Busy
<1>2. CASE GdbReadsAck
  <2>1. gdb.mode = "sent" /\ UNCHANGED <<pc, next, s>> /\ GdbReadsAckDoes(Head(toGdb))
    BY <1>2, GdbReadsAckIs DEF machine
  <2>2. CASE gdb' = [gdb EXCEPT !.mode = AfterAck(gdb.cmd)]
    <3>1. gdb'.mode = AfterAck(gdb.cmd) /\ gdb'.cmd = gdb.cmd
      BY <2>2, GdbMoves, AfterIs DEF SessionTyped, Busy
    <3>2. gdb.cmd.op \in Going \cup {"D"} => AfterAck(gdb.cmd) = "waits"
      BY DEF Going, AfterAck
    <3> QED BY <2>1, <3>1, <3>2 DEF HeldInv, Held, Running, Busy
  <2>3. CASE gdb' = gdb
    BY <2>1, <2>3 DEF HeldInv, Held, Running, Busy
  <2> QED BY <2>1, <2>2, <2>3 DEF GdbReadsAckDoes
<1>3. CASE GdbRefuses
  <2>1. gdb.mode = "waits" /\ UNCHANGED <<pc, next, s, gdb>>
    BY <1>3, GdbRefusesDoes DEF machine, debugger
  <2> QED BY <2>1 DEF HeldInv, Held, Running, Busy
<1>4. CASE Silence
  <2>1. /\ gdb.mode \in Busy /\ UNCHANGED <<pc, next, s>>
        /\ pc = "off" \/ UNCHANGED gdb
    BY <1>4, SilenceDoes DEF machine
  <2> QED BY <2>1 DEF HeldInv, Held, Running, Busy
<1>5. CASE UNCHANGED vars
  BY <1>5, HeldKept DEF vars, machine, line, debugger, history
<1> QED BY <1>1, <1>2, <1>3, <1>4, <1>5

\* A reply that keeps gdb waiting, while the program runs or is held, is one of what the
\* program says; gdb acknowledges the reply that it leaves on.
LEMMA GdbReadsReplyHeld ==
  ASSUME SessionTyped, PatientInv, HeldInv, GdbReadsReply
  PROVE  HeldInv'
<1> DEFINE h == Head(toGdb)
           mode == AfterReply(gdb.cmd, Shown(h.body))
<1>1. /\ gdb.mode = "waits" /\ toGdb # << >> /\ h.kind = "packet"
      /\ gdb' = [gdb EXCEPT !.mode = mode]
      /\ toStub' = Append(toStub, Plus)
      /\ UNCHANGED <<pc, next, s>>
  BY DEF GdbReadsReply, Arrives, Shown, machine
<1>2. gdb'.mode = mode /\ gdb'.cmd = gdb.cmd
  BY <1>1, AfterIs, GdbMoves DEF SessionTyped, Busy
<1>3. IsLine(toGdb) /\ IsLine(toStub)
  BY DEF SessionTyped, LinesTyped
<1>4. 1 \in Of(toGdb, {"packet"}) /\ h = toGdb[1]
  BY <1>1, <1>3, TailOf
<1>5. gdb.cmd.op \in Going => Timely(h)
  BY <1>1, <1>4 DEF PatientInv, ReplyInv, Busy, Since, Fits, Going
<1>6. Of(toStub', {"+"}) # {}
  <2>1. Extends(toStub', toStub, Plus) /\ Len(toStub') = Len(toStub) + 1
    BY <1>1, <1>3, AppendExtends DEF IsLine
  <2>2. Len(toStub') \in 1..Len(toStub') /\ toStub'[Len(toStub')] = Plus
    BY <2>1 DEF Extends
  <2> QED BY <2>2, TokenKinds DEF Of
<1>7. h.body \in Said => mode = "gone" \/ (mode = "waits" /\ h.body \notin Ended)
  <2>1. ASSUME NEW x \in {"O", "W", "X"}, h.body = <<x>>
        PROVE  mode = "gone" \/ (mode = "waits" /\ h.body \notin Ended)
    <3>1. Shown(h.body)[1] = x
      BY <2>1 DEF Shown, Blank
    <3> QED BY <2>1, <3>1 DEF AfterReply, Ended
  <2> QED BY <2>1 DEF Said, Ended
<1>8. h.body \in Said /\ h.body \notin Ended => mode = "waits" \/ gdb.cmd.op = "D"
  <2>1. ASSUME h.body = <<"O">> PROVE mode = "waits"
    <3>1. Shown(h.body)[1] = "O"
      BY <2>1 DEF Shown, Blank
    <3> QED BY <3>1 DEF AfterReply
  <2> QED BY <2>1 DEF Said, Ended
<1>9. gdb.cmd.op = "D" => mode \in {"waits", "gone"}
  BY DEF AfterReply
<1> HIDE DEF h, mode
<1>10. ASSUME s.connected, Running PROVE mode = "waits" /\ gdb.cmd.op \in Going
  <2>1. gdb.cmd.op \in Going /\ ~Halted
    BY <1>10 DEF HeldInv, Running, Halted
  <2>2. h.body \in Said /\ h.body \notin Ended
    BY <1>5, <1>10, <2>1 DEF Timely
  <2> QED BY <1>8, <2>1, <2>2 DEF Going
<1>11. ASSUME Held
       PROVE  (mode = "waits" /\ gdb.cmd.op \in Going \cup {"D"}) \/ mode = "gone"
  <2>1. gdb.cmd.op \in Going \cup {"D"} /\ ~Halted
    BY <1>1, <1>11 DEF HeldInv, Held, Halted
  <2>2. gdb.cmd.op \in Going => h.body \in Said
    BY <1>5, <2>1 DEF Timely
  <2> QED BY <1>7, <1>9, <2>1, <2>2
<1>12. Running' = Running /\ Held' = Held /\ s' = s
  BY <1>1 DEF Running, Held
<1> QED BY <1>2, <1>6, <1>10, <1>11, <1>12 DEF HeldInv, Busy

LEMMA FaultHeld ==
  ASSUME SessionTyped, HeldInv, Fault
  PROVE  HeldInv'
<1>1. UNCHANGED <<pc, next, s, gdb>>
  BY DEF Fault, machine, debugger
<1>2. IsQueue(toStub)
  BY DEF SessionTyped, LinesTyped, IsLine
<1>3. CASE gdb.mode # "gone"
  BY <1>1, <1>3 DEF HeldInv, Held, Running
<1>4. CASE gdb.mode = "gone"
  <2>1. CASE \E k \in DOMAIN toStub :
            /\ toStub' \in {[toStub EXCEPT ![k] = Damaged(@)], RemoveAt(toStub, k)}
            /\ goodbyeLost' = (goodbyeLost \/ (gdb.mode = "gone" /\ toStub[k].kind = "+"))
    <3>1. PICK k \in DOMAIN toStub :
            /\ toStub' = [toStub EXCEPT ![k] = Damaged(@)] \/ toStub' = RemoveAt(toStub, k)
            /\ goodbyeLost' = (goodbyeLost \/ (gdb.mode = "gone" /\ toStub[k].kind = "+"))
      BY <2>1
    <3>2. ASSUME toStub[k].kind # "+", Of(toStub, {"+"}) # {} PROVE Of(toStub', {"+"}) # {}
      <4>1. k \in 1..Len(toStub)
        BY <1>2, QueueIs
      <4> QED BY <1>2, <3>1, <3>2, <4>1, OthersStay
    <3>3. goodbyeLost \/ Of(toStub, {"+"}) # {} => goodbyeLost' \/ Of(toStub', {"+"}) # {}
      BY <1>4, <3>1, <3>2
    <3> QED BY <1>1, <3>3, HeldKept
  <2>2. CASE UNCHANGED <<toStub, goodbyeLost>>
    BY <1>1, <2>2, HeldKept
  <2> QED BY <2>1, <2>2 DEF Fault
<1> QED BY <1>3, <1>4

-----------------------------------------------------------------------------
(* The session *)

LEMMA PatientStep ==
  ASSUME SessionTyped, EnteredInv, PatientInv, [Next]_vars, ~early'
  PROVE  PatientInv'
<1>1. CASE \/ Trap \/ DebugKey \/ ProgramReports \/ SpaceKey \/ IgnoreKey
           \/ PassOver \/ Acknowledged \/ SendAgain \/ TakeCommand \/ RefusePacket
  BY <1>1, TrapPatient, DebugKeyPatient, ReportsPatient, KeyPatient, StubWaitsPatient,
     TakeCommandPatient, RefusePacketPatient
<1>2. CASE \/ Attach \/ SendCommand \/ GdbReadsAck \/ GdbReadsReply \/ GdbRefuses \/ Silence
           \/ Fault
  BY <1>2, AttachPatient, SendCommandPatient, GdbReadsAckPatient, GdbReadsReplyPatient,
     GdbRefusesPatient, SilencePatient, FaultPatient
<1>3. CASE EarlyTimeout
  BY <1>3 DEF EarlyTimeout
<1>4. CASE UNCHANGED vars
  <2>1. UNCHANGED <<machine, toStub, toGdb, gdb,
                     believed, meant, accepted, executed, ackDamaged>>
    BY <1>4 DEF vars, line, debugger, history
  <2>2. UNCHANGED <<pc, next, reply, s, t, cause>> /\ Halted' = Halted
    BY <2>1, MachineSame
  <2>3. TurnInv /\ ReplyInv /\ BeliefInv /\ MeantInv
    BY DEF PatientInv
  <2>4. TurnInv' /\ BeliefInv' /\ MeantInv' /\ (OnceInv => OnceInv')
    BY <2>1, <2>2, <2>3, SameNoMore, TurnKept, BeliefKept, MeantKept, OnceKept
  <2>5. ReplyInv'
    <3>1. Served => Serves'
      BY <2>1, SameServes DEF Served
    <3> QED BY <2>1, <2>2, <2>3, <3>1, ReplySame
  <2> QED BY <2>1, <2>4, <2>5, NothingElse
<1> QED BY <1>1, <1>2, <1>3, <1>4 DEF Next

LEMMA HeldStep ==
  ASSUME SessionTyped, EnteredInv, PatientInv, HeldInv, [Next]_vars, ~early'
  PROVE  HeldInv'
<1>1. CASE Trap \/ DebugKey \/ SpaceKey \/ IgnoreKey \/ ProgramReports
  BY <1>1, ProgramHeld
<1>2. CASE TakeCommand
  BY <1>2, TakeCommandHeld
<1>3. CASE RefusePacket \/ PassOver \/ Acknowledged \/ SendAgain
  BY <1>3, StubHeld
<1>4. CASE Attach \/ SendCommand \/ GdbReadsAck \/ GdbRefuses \/ Silence \/ UNCHANGED vars
  BY <1>4, GdbHeld
<1>5. CASE GdbReadsReply
  BY <1>5, GdbReadsReplyHeld
<1>6. CASE Fault
  BY <1>6, FaultHeld
<1>7. CASE EarlyTimeout
  BY <1>7 DEF EarlyTimeout
<1> QED BY <1>1, <1>2, <1>3, <1>4, <1>5, <1>6, <1>7 DEF Next

LEMMA EarlyStays ==
  ASSUME [Next]_vars
  PROVE  early => early'
<1>1. CASE TakeCommand \/ RefusePacket \/ PassOver \/ Acknowledged \/ SendAgain
  BY <1>1 DEF TakeCommand, RefusePacket, PassOver, Acknowledged, SendAgain, history
<1>2. CASE Trap \/ DebugKey \/ ProgramReports \/ SpaceKey \/ IgnoreKey \/ Fault \/ EarlyTimeout
           \/ UNCHANGED vars
  BY <1>2 DEF Trap, DebugKey, ProgramReports, SpaceKey, IgnoreKey, Fault, EarlyTimeout, vars,
     history
<1>3. CASE Attach \/ SendCommand \/ GdbReadsAck \/ GdbReadsReply \/ GdbRefuses \/ Silence
  BY <1>3 DEF Attach, SendCommand, GdbReadsAck, GdbReadsReply, GdbRefuses, Silence, history
<1> QED BY <1>1, <1>2, <1>3 DEF Next

LEMMA SessionStarts ==
  ASSUME Init
  PROVE  SessionInv
<1>1. /\ pc = "run" /\ screen = "program" /\ toStub = << >> /\ toGdb = << >>
      /\ gdb.mode = "away" /\ gdb.id = 0 /\ gdb.cmd.op = "none"
      /\ gdb = [mode |-> gdb.mode, cmd |-> gdb.cmd, id |-> gdb.id]
      /\ s.regs = t /\ t = [r \in Registers |-> 0] /\ ~s.connected /\ ~do_debug /\ cause = 0
      /\ s.mem = [a \in 0..1 |-> 0]
      /\ s = [regs |-> s.regs, mem |-> s.mem, signo |-> s.signo, connected |-> s.connected]
  BY DEF Init
<1>2. /\ believed = [x \in Cells |-> Unknown] /\ executed = [i \in 1..MAXCMDS |-> 0]
      /\ accepted.cmd = accepted.of /\ next = "run"
  BY DEF Init
<1>3. IsLine(toStub) /\ IsLine(toGdb) /\ Requests = {} /\ Verdicts = {}
  <2>1. Len(<< >>) = 0 /\ IsLine(<< >>)
    BY OneToken
  <2> QED BY <1>1, <2>1 DEF Requests, Verdicts, Of
<1>4. LinesTyped
  BY <1>3 DEF LinesTyped
<1>5. MachineTyped
  BY <1>1, <1>2 DEF MachineTyped, IsProgram
<1>6. GdbTyped
  BY <1>1, <1>2, SessionConstants DEF GdbTyped
<1>7. EnteredInv
  BY <1>1, <1>3 DEF EnteredInv
<1>8. TurnInv /\ ReplyInv
  BY <1>1, <1>3 DEF TurnInv, ReplyInv, Busy
<1>9. BeliefInv /\ MeantInv /\ OnceInv
  BY <1>1, <1>2, SessionConstants DEF BeliefInv, Knows, MeantInv, OnceInv, Busy
<1>10. HeldInv
  BY <1>1 DEF HeldInv, Held
<1> QED BY <1>2, <1>4, <1>5, <1>6, <1>7, <1>8, <1>9, <1>10 DEF SessionInv, SessionTyped, PatientInv

LEMMA SessionStep ==
  ASSUME SessionInv, [Next]_vars
  PROVE  SessionInv'
BY TypedStep, EnteredStep, PatientStep, HeldStep, EarlyStays DEF SessionInv

LEMMA SessionHolds == Spec => []SessionInv
<1>1. Init => SessionInv
  BY SessionStarts
<1>2. SessionInv /\ [Next]_vars => SessionInv'
  BY SessionStep
<1> QED BY <1>1, <1>2, PTL DEF Spec

\* One execution and one reply to a command, whatever the line loses, damages or has
\* sent again, as long as gdb is patient and, for the execution, no acknowledgement is
\* damaged (putfrags and getpacket, gdb_serial.c).
THEOREM PairsUp == Spec => []CommandsPairUp
<1>1. ASSUME SessionInv PROVE CommandsPairUp
  <2>1. RepliesMatch
    BY <1>1 DEF SessionInv, PatientInv, RepliesMatch
  <2>2. DOMAIN executed = 1..MAXCMDS
    BY <1>1 DEF SessionInv, SessionTyped, GdbTyped
  <2>3. ExecutedOnce
    BY <1>1, <2>2 DEF SessionInv, PatientInv, OnceInv, ExecutedOnce
  <2> QED BY <2>1, <2>3 DEF CommandsPairUp
<1> QED BY <1>1, SessionHolds, PTL

\* What gdb believes of the stopped program is so (gdb_serial_converse, gdb_serial.c).
THEOREM Believed == Spec => []BeliefsHold
<1>1. ASSUME SessionInv PROVE BeliefsHold
  <2> SUFFICES ASSUME ~early PROVE BeliefsHold
    BY DEF BeliefsHold
  <2>1. \A x \in Cells : believed[x] \in {Unknown, Now(x)}
    BY <1>1 DEF SessionInv, PatientInv, BeliefInv, Knows
  <2>2. "cell" \in Cells
    BY DEF Cells
  <2> QED BY <2>1, <2>2 DEF BeliefsHold, Now, NowOf
<1> QED BY <1>1, SessionHolds, PTL

\* The program is held, with the interrupts masked, only for an acknowledgement that gdb
\* has sent, or is busy enough with the session to send, and that the line has not lost
\* after gdb has gone (putfrags, gdb_serial_puts, _killed and _exit, gdb_serial.c).
THEOREM HeldForGdb == Spec => []HeldForGdbOnly
<1>1. ASSUME SessionInv PROVE HeldForGdbOnly
  <2> SUFFICES ASSUME ~early, pc = "ack" /\ next # "get"
               PROVE  /\ installed
                      /\ \/ gdb.mode \in {"sent", "waits"}
                         \/ /\ gdb.mode = "gone"
                            /\ goodbyeLost \/ \E i \in DOMAIN toStub : toStub[i].kind = "+"
    BY DEF HeldForGdbOnly
  <2>1. installed /\ IsQueue(toStub)
    BY <1>1 DEF SessionInv, EnteredInv, SessionTyped, LinesTyped, IsLine
  <2>2. \/ gdb.mode \in Busy
        \/ gdb.mode = "gone" /\ (goodbyeLost \/ Of(toStub, {"+"}) # {})
    BY <1>1 DEF SessionInv, HeldInv, Held
  <2>3. Of(toStub, {"+"}) # {} => \E i \in DOMAIN toStub : toStub[i].kind = "+"
    BY <2>1, QueueIs DEF Of
  <2> QED BY <2>1, <2>2, <2>3 DEF Busy
<1> QED BY <1>1, SessionHolds, PTL

\* A step of the stub by which the program goes on.
LEMMA GoesOnAsMeant ==
  ASSUME SessionInv, [Next]_vars, ~early, pc = "get" \/ (pc = "ack" /\ reply.id = gdb.id),
         pc' = "run", gdb.cmd.op \in Resuming, executed'[gdb.id] = 1, NEW r \in Registers
  PROVE  \/ gdb.cmd.op \in Going /\ t'[r] = MeantBy(gdb.cmd, r)
            /\ meant[r] \in {Unknown, s.regs[r]}
         \/ gdb.cmd.op \notin Going /\ meant[r] \in {Unknown, t'[r]}
<1>1. SessionTyped /\ TurnInv /\ MeantInv
  BY DEF SessionInv, PatientInv
<1>2. CASE TakeCommand
  <2>1. PICK c, id :
          /\ c \in Commands /\ Takes(c, id)
          /\ Halts(c, id) \/ Refuses(c, id) \/ Continues(c, id) \/ LetsGo(c, id) \/ Restarts(c, id)
    BY <1>1, <1>2, TakeCommandDoes
  <2>2. Continues(c, id) \/ Restarts(c, id)
    BY <2>1 DEF Halts, Refuses, LetsGo, Replies
  <2>3. Sends(Packet(0, 0)) /\ IsPacket(Packet(0, 0))
    BY <2>2, TokenKinds DEF Continues, Restarts, GoesOn, Sends
  <2>4. gdb.mode = "sent" /\ gdb.id \in 1..MAXCMDS /\ gdb.id = id /\ gdb.cmd = c
    BY <1>1, <2>1, <2>3, TakesTurn
  <2>5. executed[gdb.id] = 0
    <3>1. executed' = [executed EXCEPT ![gdb.id] = @ + 1]
      BY <2>1, <2>4 DEF Takes
    <3> QED BY <1>1, <2>4, <3>1 DEF SessionTyped, GdbTyped
  <2>6. meant[r] \in {Unknown, s.regs[r]}
    BY <1>1, <2>4, <2>5 DEF MeantInv
  <2>7. CASE Continues(c, id)
    BY <2>4, <2>6, <2>7 DEF Continues
  <2>8. CASE Restarts(c, id)
    <3>1. c.op \notin Going /\ t' = s.regs
      BY <2>8 DEF Restarts, Going
    <3> QED BY <2>4, <2>6, <3>1
  <2> QED BY <2>2, <2>7, <2>8
<1>3. CASE Acknowledged
  <2>1. pc = "ack" /\ next = "run" /\ reply.id = gdb.id /\ t' = t /\ executed' = executed
    BY <1>3 DEF Acknowledged, history
  <2>2. gdb.cmd.op = "D" /\ meant[r] \in {Unknown, t[r]}
    BY <1>1, <2>1 DEF MeantInv
  <2> QED BY <2>1, <2>2 DEF Going
<1>4. CASE pc' = pc \/ pc \in {"run", "dump"}
  BY <1>4
<1>5. CASE Trap \/ DebugKey \/ ProgramReports \/ SpaceKey \/ IgnoreKey
  BY <1>1, <1>4, <1>5, TrapDoes, DebugKeyDoes, ProgramReportsDoes DEF SpaceKey, IgnoreKey
<1>6. CASE \/ Attach \/ SendCommand \/ GdbReadsAck \/ GdbReadsReply \/ GdbRefuses \/ Silence
           \/ RefusePacket \/ PassOver \/ SendAgain \/ Fault \/ EarlyTimeout \/ UNCHANGED vars
  BY <1>4, <1>6 DEF Attach, SendCommand, GdbReadsAck, GdbReadsReply, GdbRefuses, Silence,
       RefusePacket, PassOver, SendAgain, Fault, EarlyTimeout, vars, machine
<1> QED BY <1>2, <1>3, <1>5, <1>6 DEF Next

\* The program goes on with the registers gdb gave it, and with those it had where gdb
\* changed none (gdb_serial_converse, and debugger, which writes the registers back).
THEOREM GoesOnWithItsRegisters == Spec => ResumesAsMeant
<1> DEFINE meantFor(r) ==
        CASE r = "eip" /\ gdb.cmd.op \in {"c", "s", "C", "S"} /\ gdb.cmd.d # << >> -> gdb.cmd.d[1]
          [] r = "tf" /\ gdb.cmd.op \in {"c", "C"} -> 0
          [] r = "tf" /\ gdb.cmd.op \in {"s", "S"} -> 1
          [] OTHER -> meant[r]
      Resumed ==
        /\ pc = "get" \/ (pc = "ack" /\ reply.id = gdb.id)
        /\ pc' = "run" /\ gdb.mode # "idle" /\ gdb.cmd.op \in Resuming
        /\ ~early /\ executed'[gdb.id] = 1
        => \A r \in Registers : meantFor(r) \in {Unknown, t'[r]}
<1>1. ASSUME SessionInv, [Next]_vars PROVE Resumed
  <2> SUFFICES ASSUME ~early, pc = "get" \/ (pc = "ack" /\ reply.id = gdb.id), pc' = "run",
                      gdb.cmd.op \in Resuming, executed'[gdb.id] = 1, NEW r \in Registers
               PROVE  meantFor(r) \in {Unknown, t'[r]}
    OBVIOUS
  <2>1. CASE gdb.cmd.op \in Going /\ t'[r] = MeantBy(gdb.cmd, r)
             /\ meant[r] \in {Unknown, s.regs[r]}
    BY <2>1 DEF MeantBy, Going
  <2>2. CASE gdb.cmd.op \notin Going /\ meant[r] \in {Unknown, t'[r]}
    BY <2>2 DEF Going
  <2> QED BY <1>1, <2>1, <2>2, GoesOnAsMeant
<1>2. SessionInv /\ [Next]_vars => [Resumed]_vars
  BY <1>1
<1> QED BY <1>2, SessionHolds, PTL DEF Spec, ResumesAsMeant
=============================================================================
