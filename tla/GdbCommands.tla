---------------------------- MODULE GdbCommands ----------------------------
(***************************************************************************)
(* What gdb_serial_converse (kernel/gdb_serial.c) does of each command of  *)
(* the debugger.  A command is a record: its letter op, whether it parses  *)
(* (wf), and the address or register a, the data d and the length n it     *)
(* carries, where it has them.  A stopped program is its registers, its    *)
(* memory, the signal it stopped on and whether the debugger is attached.  *)
(* debugger.c gives no callbacks and does not read regs_changed.           *)
(***************************************************************************)
EXTENDS GdbMemory

CONSTANT PD   \* the page directory of the program

RegisterOrder == <<"eax", "eip", "tf">>   \* three of the sixteen registers
Registers == {"eax", "eip", "tf"}

ORIG_EAX == "orig_eax"   \* register 0x29, which the stub accepts and forgets

OK == <<"OK">>
Error(code) == <<"E", code>>
Blank == << >>
NoReply == <<"none">>
Stopped(signo) == <<"S", signo>>

\* What is left of the program, the reply, and what gdb_serial_converse returns.
Result(s, reply, action) == [s |-> s, reply |-> reply, action |-> action]
Answer(s, reply) == Result(s, reply, "GDB_MORE")

\* H and T: no thread is known to the kernel.
ThreadCommand(c, s) ==
  Answer(s, IF c.wf THEN Blank ELSE Error(IF c.op = "H" THEN 4 ELSE 1))

\* g
ReadRegisters(c, s) == Answer(s, <<"g", s.regs>>)

\* G: the registers that come before a bad digit are set even so.
WriteRegisters(c, s) ==
  LET given(r) == {i \in DOMAIN c.d : RegisterOrder[i] = r}
      new == [r \in Registers |->
                IF given(r) = {} THEN s.regs[r] ELSE c.d[CHOOSE i \in given(r) : TRUE]]
  IN  Answer([s EXCEPT !.regs = new], IF c.wf THEN OK ELSE Error(4))

WriteRegisterIgnored(c, s) == Answer(s, IF c.wf THEN OK ELSE Error(4))

\* P: the digits of the value that come before a bad one are set even so.
WriteRegister(c, s) ==
  CASE c.wf /\ c.a = ORIG_EAX                     -> Answer(s, OK)
    [] c.a \in Registers /\ (c.wf \/ c.d # << >>) ->
         Answer([s EXCEPT !.regs[c.a] = c.d[1]], IF c.wf THEN OK ELSE Error(4))
    [] OTHER                                      -> Answer(s, Error(4))

\* m: a length of zero sends back the text of the command.
ReadMemory(c, s) ==
  LET read == gdb_copyin(PD, TRUE, s.mem, c.a, c.n) IN
  CASE ~c.wf                         -> Answer(s, Error(2))
    [] c.wf /\ ~read.ok              -> Answer(s, Error(3))
    [] c.wf /\ read.ok /\ c.n > 0    -> Answer(s, <<"m", read.data>>)
    [] c.wf /\ read.ok /\ c.n = 0    -> Answer(s, <<"m", <<c>>>>)

Copied(s, addr, data) ==
  LET write == gdb_copyout(PD, TRUE, s.mem, addr, data) IN
  Answer([s EXCEPT !.mem = write.mem], IF write.ok THEN OK ELSE Error(3))

\* M: bad digits are found before anything is written, a missing page after.
WriteMemory(c, s) == IF c.wf THEN Copied(s, c.a, c.d) ELSE Answer(s, Error(2))

\* X: the length, which is that of the data, is compared with the bytes they
\* came in.  An escaped byte takes two: the last bytes are left out, and an
\* escape that then comes last is an error.
WriteBinary(c, s) ==
  LET room == Len(c.d) - (IF c.esc THEN 1 ELSE 0) IN   \* the first is escaped
  CASE ~c.wf                           -> Answer(s, Error(2))
    [] c.wf /\ c.esc /\ Len(c.d) = 1   -> Answer(s, Error(2))
    [] OTHER                           -> Copied(s, c.a, SubSeq(c.d, 1, room))

\* c, s, C and S: the address to go on from is optional.
Resume(c, s) ==
  LET eip == IF c.d = << >> THEN s.regs["eip"] ELSE c.d[1]
      tf == IF c.op \in {"s", "S"} THEN 1 ELSE 0
  IN  IF ~c.wf THEN Answer(s, Error(5))
      ELSE Result([s EXCEPT !.regs["eip"] = eip, !.regs["tf"] = tf, !.signo = c.n],
                  NoReply, "GDB_CONT")

\* D, R and k: the debugger goes away; only D is answered.
Leave(c, s) ==
  LET gone == [s EXCEPT !.connected = FALSE] IN
  CASE c.op = "D" -> Result(gone, OK, "GDB_DETACH")
    [] c.op = "R" -> Result(gone, NoReply, "GDB_RUN")
    [] c.op = "k" -> Result(gone, NoReply, "GDB_KILL")

\* The stub is connected from its first command on.
Converse(c, was) ==
  LET s == [was EXCEPT !.connected = TRUE] IN
  CASE c.op \in {"H", "T"}           -> ThreadCommand(c, s)
    [] c.op = "g"                    -> ReadRegisters(c, s)
    [] c.op = "G"                    -> WriteRegisters(c, s)
    [] c.op = "P"                    -> WriteRegister(c, s)
    [] c.op = "m"                    -> ReadMemory(c, s)
    [] c.op = "M"                    -> WriteMemory(c, s)
    [] c.op = "X"                    -> WriteBinary(c, s)
    [] c.op \in {"c", "s", "C", "S"} -> Resume(c, s)
    [] c.op = "?"                    -> Answer(s, Stopped(s.signo))
    [] c.op \in {"D", "R", "k"}      -> Leave(c, s)
    [] c.op \in {"d", "!"}           -> Answer(s, OK)
    [] OTHER                         -> Answer(s, Blank)
=============================================================================
