----------------------------- MODULE GdbSession -----------------------------
(***************************************************************************)
(* A debugging session: the trap handler of kernel/debugger.c, the stub of *)
(* kernel/gdb_serial.c, the serial line and, as the stub uses it, gdb.     *)
(* The line carries packets and acknowledgements; it may damage or lose    *)
(* FAULTS of them.  A damaged packet has a wrong sum, a damaged            *)
(* acknowledgement is noise.                                               *)
(***************************************************************************)
EXTENDS GdbCommands, FiniteSets, SequencesExt

CONSTANTS Commands,   \* the commands gdb may send
          Values,     \* values of the registers and the memory
          TRAPNOS,    \* the exceptions the program may raise
          FAULTS, MAXTRAPS, MAXCMDS, MAXREPORTS,
          COPIES      \* copies of a reply the characters of one packet cause

Cell == PD[0].pt[0].base   \* the one cell of the memory gdb looks at

\* A memory command starts at the cell, and no later byte of it is the cell.
AtCell(c, size) ==
  LET at == Reached(PD, TRUE, c.a, size) IN
  /\ size > 0 /\ at \in Seq(Nat)
  /\ Len(at) = size => at[1] = Cell /\ \A i \in 2..size : at[i] # Cell

ASSUME SessionConstants ==
  /\ Cell \in 0..1
  /\ MAXCMDS \in Nat /\ COPIES \in Nat \ {0}
  /\ \A c \in Commands :
       /\ c.op = "G" /\ c.wf => DOMAIN c.d = DOMAIN RegisterOrder
       /\ c.op = "m" /\ c.wf => c.n \in Nat /\ (c.n # 0 => AtCell(c, c.n))
       /\ c.op \in {"M", "X"} /\ c.wf => c.d \in Seq(Int) /\ AtCell(c, Len(c.d))

VARIABLES pc,         \* what the machine does: run, get, ack, dump or off
          next,       \* what it does after an acknowledgement
          reply,      \* the packet that waits for one
          t,          \* the registers of the program, in its task segment
          s,          \* what the stub holds: regs, mem, signo, connected
          do_debug, installed, screen, cause,
          toStub, toGdb, gdb, believed, meant, accepted,
          executed, faults,
          ackDamaged,   \* an acknowledgement has been damaged or lost
          goodbyeLost,  \* one was, that gdb had sent before it left
          early,        \* gdb has sent a command again though the answer was on its way
          traps, reports

machine == <<pc, next, reply, t, s, do_debug, installed, screen, cause>>
line == <<toStub, toGdb>>
debugger == <<gdb, believed, meant, accepted>>
history == <<executed, faults, ackDamaged, goodbyeLost, early, traps, reports>>
vars == <<machine, line, debugger, history>>

Packet(id, body) == [kind |-> "packet", id |-> id, body |-> body, good |-> TRUE]
Plus == [kind |-> "+"]
Minus == [kind |-> "-"]
Noise == [kind |-> "noise"]

-----------------------------------------------------------------------------
(* The machine *)

Signal(trapno) ==
  CASE trapno \in {0, 4, 5, 7, 8, 9, 15} -> 8     \* SIGFPE
    [] trapno \in {1, 3}                 -> 5     \* SIGTRAP
    [] trapno \in 10..14                 -> 11    \* SIGSEGV
    [] OTHER                             -> 4     \* SIGILL

Send(id, body, then) ==
  /\ toGdb' = Append(toGdb, Packet(id, body))
  /\ reply' = Packet(id, body)
  /\ pc' = "ack" /\ next' = then

\* debugger: the registers of the program go to the stub, which first reports.
EnterStub(program) == /\ s' = program
                      /\ Send(cause, Stopped(program.signo), "get")

\* trap_handler
Trap ==
  /\ pc = "run" /\ traps < MAXTRAPS /\ traps' = traps + 1
  /\ \E trapno \in TRAPNOS, eax \in Values :
       LET program == [s EXCEPT !.regs = t', !.signo = Signal(trapno)] IN
       /\ t' = [t EXCEPT !["eax"] = eax]
       /\ IF do_debug THEN EnterStub(program) /\ UNCHANGED screen
          ELSE /\ s' = program /\ pc' = "dump" /\ screen' = "dump"
               /\ UNCHANGED <<next, reply, toGdb>>
  /\ UNCHANGED <<do_debug, installed, cause, toStub, debugger,
                 executed, faults, ackDamaged, goodbyeLost, early, reports>>

\* The keys the dump of the registers waits for: space, i and d.
SpaceKey ==
  /\ pc = "dump"
  /\ screen' = IF screen = "dump" THEN "program" ELSE "dump"
  /\ UNCHANGED <<pc, next, reply, t, s, do_debug, installed, cause, line, debugger, history>>

IgnoreKey ==
  /\ pc = "dump" /\ pc' = "run" /\ screen' = "program"
  /\ UNCHANGED <<next, reply, t, s, do_debug, installed, cause, line, debugger, history>>

DebugKey ==
  /\ pc = "dump" /\ screen' = "program"
  /\ do_debug' = TRUE /\ installed' = TRUE   \* enable_debugger
  /\ EnterStub(s)
  /\ UNCHANGED <<t, cause, toStub, debugger, history>>

ReportAlways(letter, then) ==
  /\ Send(0, <<letter>>, then)
  /\ s' = [s EXCEPT !.connected = (letter = "O")]

\* The program ends, or its output goes to gdb: gdb_serial_exit and _killed say
\* so to a debugger that is connected, and disconnect; gdb_serial_puts sends
\* plain characters to one that is not.
Report(letter, then) ==
  IF installed /\ s.connected
  THEN /\ Send(0, <<letter>>, then)
       /\ s' = [s EXCEPT !.connected = (letter = "O")]
  ELSE /\ pc' = then
       /\ toGdb' = IF letter = "O" /\ installed THEN Append(toGdb, Noise) ELSE toGdb
       /\ UNCHANGED <<next, reply, s>>

gdb_serial_puts == pc = "run" /\ Report("O", "run")
gdb_serial_killed == pc = "run" /\ Report("X", "run")
gdb_serial_exit == pc \in {"run", "dump"} /\ Report("W", "off")   \* by reboot

ProgramReports ==
  /\ reports < MAXREPORTS /\ reports' = reports + 1
  /\ gdb_serial_puts \/ gdb_serial_killed \/ gdb_serial_exit
  /\ UNCHANGED <<t, do_debug, installed, screen, cause, toStub, debugger,
                 executed, faults, ackDamaged, goodbyeLost, early, traps>>

Arrives(queue, kinds) == queue # << >> /\ Head(queue).kind \in kinds

\* What follows gdb_serial_converse in debugger: GDB_KILL reboots, which sends
\* nothing since the debugger is disconnected, and GDB_RUN is ignored.
Continuation(action) ==
  CASE action = "GDB_MORE" -> "get"
    [] action = "GDB_KILL" -> "off"
    [] OTHER               -> "run"

WrittenBackToContinue(action, regs) == IF action = "GDB_CONT" THEN regs ELSE t

\* debugger writes the registers back whatever gdb_serial_converse returns.
WrittenBack(action, regs) == IF action = "GDB_MORE" THEN t ELSE regs

\* getpacket takes a packet whose sum is right, and the command is executed.
TakeCommand ==
  /\ pc = "get" /\ Arrives(toStub, {"packet"}) /\ Head(toStub).good
  /\ LET id == Head(toStub).id
         r == Converse(Head(toStub).body, s)
         then == Continuation(r.action)
     IN  /\ s' = r.s /\ t' = WrittenBack(r.action, r.s.regs)
         /\ executed' = [executed EXCEPT ![id] = @ + 1]
         /\ do_debug' = (r.action # "GDB_DETACH")
         /\ cause' = IF r.action = "GDB_CONT" THEN id ELSE cause
         /\ IF r.reply = NoReply
            THEN /\ toGdb' = Append(toGdb, Plus)
                 /\ pc' = then /\ UNCHANGED <<next, reply>>
            ELSE /\ toGdb' = toGdb \o <<Plus, Packet(id, r.reply)>>
                 /\ reply' = Packet(id, r.reply)
                 /\ pc' = "ack" /\ next' = then
  /\ toStub' = Tail(toStub)
  /\ UNCHANGED <<installed, screen, debugger,
                 faults, ackDamaged, goodbyeLost, early, traps, reports>>

RefuseTooLate ==   \* the sum is looked at when the command has been executed
  /\ pc = "get" /\ Arrives(toStub, {"packet"}) /\ ~Head(toStub).good
  /\ LET id == Head(toStub).id IN
     /\ s' = Converse(Head(toStub).body, s).s
     /\ executed' = [executed EXCEPT ![id] = @ + 1]
  /\ toStub' = Tail(toStub) /\ toGdb' = Append(toGdb, Minus)
  /\ UNCHANGED <<pc, next, reply, t, do_debug, installed, screen, cause, debugger,
                 faults, ackDamaged, goodbyeLost, early, traps, reports>>

\* getpacket refuses a packet whose sum is wrong and passes over anything else.
RefusePacket ==
  /\ pc = "get" /\ Arrives(toStub, {"packet"}) /\ ~Head(toStub).good
  /\ toStub' = Tail(toStub) /\ toGdb' = Append(toGdb, Minus)
  /\ UNCHANGED <<machine, debugger, history>>

PassOver ==
  /\ pc = "get" /\ Arrives(toStub, {"+", "-", "noise"})
  /\ toStub' = Tail(toStub) /\ UNCHANGED <<machine, toGdb, debugger, history>>

AcknowledgedByAny ==
  /\ pc = "ack" /\ toStub # << >>
  /\ pc' = next /\ toStub' = Tail(toStub)
  /\ UNCHANGED <<next, reply, t, s, do_debug, installed, screen, cause, toGdb, debugger, history>>

\* putfrags waits for a '+'; it sends the packet again for any other character,
\* those of a packet included.
Acknowledged ==
  /\ pc = "ack" /\ Arrives(toStub, {"+"})
  /\ pc' = next /\ toStub' = Tail(toStub)
  /\ UNCHANGED <<next, reply, t, s, do_debug, installed, screen, cause, toGdb, debugger, history>>

SendAgainAcknowledging ==
  /\ pc = "ack" /\ Arrives(toStub, {"-", "noise", "packet"})
  /\ toGdb' = toGdb \o (IF Head(toStub).kind = "packet" THEN <<Plus, reply>> ELSE <<reply>>)
  /\ toStub' = Tail(toStub)
  /\ UNCHANGED <<machine, debugger, history>>

SendOnce ==
  /\ pc = "ack" /\ Arrives(toStub, {"-", "noise", "packet"})
  /\ toStub' = Tail(toStub) /\ UNCHANGED <<machine, toGdb, debugger, history>>

SendAgain ==
  /\ pc = "ack" /\ Arrives(toStub, {"-", "noise", "packet"})
  /\ LET times == IF Head(toStub).kind = "packet" THEN COPIES ELSE 1 IN
     toGdb' = toGdb \o [i \in 1..times |-> reply]
  /\ toStub' = Tail(toStub)
  /\ UNCHANGED <<machine, debugger, history>>

Stub == TakeCommand \/ RefusePacket \/ PassOver \/ Acknowledged \/ SendAgain

-----------------------------------------------------------------------------
(* gdb, external.  What it believes of a register or of the memory cell is   *)
(* Unknown while a command that may change it is under way.                *)

Unknown == -1
Cells == Registers \cup {"cell"}
Resuming == {"c", "s", "C", "S", "D", "R", "k"}

Touched(c) ==
  CASE c.op = "G"                -> Registers
    [] c.op = "P"                -> {c.a} \cap Registers
    [] c.op \in {"M", "X"}       -> {"cell"}
    [] c.op \in Resuming         -> Cells
    [] OTHER                     -> {}

Forget(c) == [x \in Cells |-> IF x \in Touched(c) THEN Unknown ELSE believed[x]]

\* An error says nothing of what a write has done before it; nor does OK when a
\* byte of binary data was escaped.
Learn(c, body) ==
  CASE c.op = "g" /\ body[1] = "g" ->
         [x \in Cells |-> IF x \in Registers THEN body[2][x] ELSE believed[x]]
    [] c.op = "m" /\ body[1] = "m" /\ c.n > 0 -> [believed EXCEPT !["cell"] = body[2][1]]
    [] c.op = "P" /\ body = OK /\ c.a \in Registers -> [believed EXCEPT ![c.a] = c.d[1]]
    [] c.op = "G" /\ body = OK ->
         [believed EXCEPT !["eax"] = c.d[1], !["eip"] = c.d[2], !["tf"] = c.d[3]]
    [] c.op \in {"M", "X"} /\ body = OK /\ ~c.esc -> [believed EXCEPT !["cell"] = c.d[1]]
    [] OTHER -> believed

\* gdb comes to a stub that has reported, passes over what the line holds and
\* acknowledges it.
Attach ==
  /\ gdb.mode = "away" /\ gdb' = [gdb EXCEPT !.mode = "idle"]
  /\ pc = "ack" /\ toGdb' = << >> /\ toStub' = Append(toStub, Plus)
  /\ UNCHANGED <<machine, believed, meant, accepted, history>>

SendCommand ==
  /\ gdb.mode = "idle" /\ gdb.id < MAXCMDS
  /\ \E c \in Commands :
       /\ gdb' = [mode |-> "sent", cmd |-> c, id |-> gdb.id + 1]
       /\ toStub' = Append(toStub, Packet(gdb.id + 1, c))
       /\ believed' = Forget(c) /\ meant' = believed
  /\ UNCHANGED <<machine, toGdb, accepted, history>>

AfterAck(c) == CASE c.op = "k" -> "gone" [] c.op = "R" -> "idle" [] OTHER -> "waits"

\* While it waits for the acknowledgement of a command, a reply is an old one.
GdbReadsAck ==
  /\ gdb.mode = "sent" /\ toGdb # << >> /\ toGdb' = Tail(toGdb)
  /\ LET h == Head(toGdb) IN
     \/ /\ h.kind = "+"
        /\ gdb' = [gdb EXCEPT !.mode = AfterAck(gdb.cmd)]
        /\ UNCHANGED toStub
     \/ /\ h.kind = "-"
        /\ toStub' = Append(toStub, Packet(gdb.id, gdb.cmd)) /\ UNCHANGED gdb
     \/ /\ h.kind = "packet"
        /\ toStub' = Append(toStub, IF h.good THEN Plus ELSE Minus) /\ UNCHANGED gdb
     \/ h.kind = "noise" /\ UNCHANGED <<toStub, gdb>>
  /\ UNCHANGED <<machine, believed, meant, accepted, history>>

AfterReply(c, body) ==
  CASE body[1] = "O"                                      -> "waits"
    [] body[1] # "O" /\ (body[1] \in {"W", "X"} \/ c.op = "D") -> "gone"
    [] OTHER                                              -> "idle"

GdbReadsReply ==
  /\ gdb.mode = "waits" /\ Arrives(toGdb, {"packet"}) /\ Head(toGdb).good
  /\ LET h == Head(toGdb)
         body == IF h.body = Blank THEN <<"blank">> ELSE h.body
         mode == AfterReply(gdb.cmd, body)
     IN  /\ gdb' = [gdb EXCEPT !.mode = mode]
         /\ accepted' = IF mode = "idle" THEN [cmd |-> gdb.id, of |-> h.id] ELSE accepted
         /\ believed' = IF mode = "idle" THEN Learn(gdb.cmd, body) ELSE believed
  /\ toGdb' = Tail(toGdb) /\ toStub' = Append(toStub, Plus)
  /\ UNCHANGED <<machine, meant, history>>

GdbRefuses ==
  /\ gdb.mode = "waits" /\ toGdb # << >> /\ toGdb' = Tail(toGdb)
  /\ LET h == Head(toGdb) IN
     \/ h.kind = "packet" /\ ~h.good /\ toStub' = Append(toStub, Minus)
     \/ h.kind # "packet" /\ UNCHANGED toStub
  /\ UNCHANGED <<machine, debugger, history>>

\* A timeout, when nothing is on the line any more: the command is sent again, or
\* the reply asked for again; gdb gives up on a machine that is off.
Silence ==
  /\ gdb.mode = "sent" \/ (gdb.mode = "waits" /\ pc \notin {"run", "dump"})
  /\ toGdb = << >> /\ (toStub = << >> \/ pc = "off")
  /\ IF pc = "off" THEN gdb' = [gdb EXCEPT !.mode = "gone"] /\ UNCHANGED toStub
     ELSE /\ toStub' = <<IF gdb.mode = "sent" THEN Packet(gdb.id, gdb.cmd) ELSE Minus>>
          /\ UNCHANGED gdb
  /\ UNCHANGED <<machine, toGdb, believed, meant, accepted, history>>

-----------------------------------------------------------------------------
(* The line *)

Damaged(token) == CASE token.kind = "packet" -> [token EXCEPT !.good = FALSE] [] OTHER -> Noise

Fault ==
  /\ faults < FAULTS /\ faults' = faults + 1
  /\ \/ \E i \in DOMAIN toStub :
          /\ toStub' \in {[toStub EXCEPT ![i] = Damaged(@)], RemoveAt(toStub, i)}
          /\ ackDamaged' = (ackDamaged \/ toStub[i].kind # "packet")
          /\ goodbyeLost' = (goodbyeLost \/ (gdb.mode = "gone" /\ toStub[i].kind = "+"))
          /\ UNCHANGED toGdb
     \/ \E i \in DOMAIN toGdb :
          /\ toGdb' \in {[toGdb EXCEPT ![i] = Damaged(@)], RemoveAt(toGdb, i)}
          /\ ackDamaged' = (ackDamaged \/ toGdb[i].kind # "packet")
          /\ UNCHANGED <<toStub, goodbyeLost>>
  /\ UNCHANGED <<machine, debugger, executed, early, traps, reports>>

\* The timer of gdb ends although the answer is on its way.
EarlyTimeout ==
  /\ faults < FAULTS /\ faults' = faults + 1 /\ early' = TRUE
  /\ gdb.mode = "sent" /\ toGdb # << >>
  /\ toStub' = Append(toStub, Packet(gdb.id, gdb.cmd))
  /\ UNCHANGED <<machine, toGdb, debugger, executed, ackDamaged, goodbyeLost, traps, reports>>

-----------------------------------------------------------------------------
Init ==
  /\ pc = "run" /\ next = "run" /\ reply = Noise /\ screen = "program"
  /\ t = [r \in Registers |-> 0]
  /\ s = [regs |-> t, mem |-> [a \in 0..1 |-> 0],
          signo |-> 0, connected |-> FALSE]
  /\ do_debug = FALSE /\ installed = FALSE /\ cause = 0
  /\ toStub = << >> /\ toGdb = << >>
  /\ gdb = [mode |-> "away", cmd |-> [op |-> "none"], id |-> 0]
  /\ believed = [x \in Cells |-> Unknown] /\ meant = believed /\ accepted = [cmd |-> 0, of |-> 0]
  /\ executed = [i \in 1..MAXCMDS |-> 0]
  /\ faults = 0 /\ ackDamaged = FALSE /\ goodbyeLost = FALSE /\ early = FALSE
  /\ traps = 0 /\ reports = 0

GdbReads == GdbReadsAck \/ GdbReadsReply \/ GdbRefuses

Next ==
  \/ Trap \/ SpaceKey \/ IgnoreKey \/ DebugKey \/ ProgramReports
  \/ TakeCommand \/ RefusePacket \/ PassOver \/ Acknowledged \/ SendAgain
  \/ Attach \/ SendCommand \/ GdbReadsAck \/ GdbReadsReply \/ GdbRefuses \/ Silence
  \/ Fault \/ EarlyTimeout

\* The stub and gdb go on reading, and gdb's timer ends: it may be that the
\* program never traps, that no key is hit and that no one attaches.
Fairness == WF_vars(Stub) /\ WF_vars(GdbReads) /\ WF_vars(Silence)

Spec == Init /\ [][Next]_vars /\ Fairness

-----------------------------------------------------------------------------
\* The reply gdb takes for a command is the one the stub made for it, however many
\* replies are sent again, as long as gdb is patient: packets bear no number, and
\* only the order of the line tells the replies apart (gdb_serial.c, putfrags).
RepliesMatch == early \/ accepted.cmd = accepted.of

\* A command is executed again only when an acknowledgement was damaged, or gdb
\* was too early: a damaged packet or reply never causes it.
ExecutedOnce == ackDamaged \/ early \/ \A i \in DOMAIN executed : executed[i] <= 1

\* Commands and replies pair up, one execution and one reply to a command, except
\* where the line or the impatience of gdb makes it impossible to tell.
CommandsPairUp == RepliesMatch /\ ExecutedOnce

\* What gdb believes of the registers and the memory of the stopped program is so:
\* nothing it was told is undone by commands that are executed twice, and only a
\* failed or an escaped write leaves it ignorant.
BeliefsHold ==
  early \/ \A x \in Cells \ {"cell"} : believed[x] \in {Unknown, s.regs[x]}
           /\ believed["cell"] \in {Unknown, s.mem[Cell]}

\* putfrags waits with the interrupts masked, and has no timeout: the program is held
\* for the acknowledgement of what it says, or of the reply to a detach, only where one
\* may come.  Either gdb is busy with the session, or it has gone and its '+' is on the
\* way; one that the line loses then is never sent again, and the machine stays there
\* (gdb_serial.c, putfrags).
HeldForGdbOnly ==
  early \/ (pc = "ack" /\ next # "get" =>
     /\ installed
     /\ \/ gdb.mode \in {"sent", "waits"}
        \/ gdb.mode = "gone" /\ (goodbyeLost \/ \E i \in DOMAIN toStub : toStub[i].kind = "+"))

\* The program goes on with the registers gdb gave it, and with those it had where
\* gdb changed none, whether it is continued, let go or restarted (debugger writes
\* them all back, though regs_changed says it need not): the first time, if a
\* damaged acknowledgement has the command executed again.
ResumesAsMeant ==
  [][LET c == gdb.cmd
         meantFor(r) == CASE r = "eip" /\ c.op \in {"c", "s", "C", "S"} /\ c.d # << >> -> c.d[1]
                          [] r = "tf" /\ c.op \in {"c", "C"} -> 0
                          [] r = "tf" /\ c.op \in {"s", "S"} -> 1
                          [] OTHER -> meant[r]
     IN  /\ pc = "get" \/ (pc = "ack" /\ reply.id = gdb.id)
         /\ pc' = "run" /\ gdb.mode # "idle" /\ c.op \in Resuming
         /\ ~early /\ executed'[gdb.id] = 1
         => \A r \in Registers : meantFor(r) \in {Unknown, t'[r]}]_vars

\* A program that is held goes on, unless gdb has gone and the line has lost its
\* last acknowledgement: damaged reports, and replies asked for again, only delay it.
Released ==
  (pc = "ack" /\ next # "get") ~> (pc # "ack" \/ (gdb.mode = "gone" /\ goodbyeLost))

\* A command is answered, unless the program runs for ever: the line loses, damages
\* and repeats what they send, but neither waits for the other for ever.
Answered ==
  gdb.mode \in {"sent", "waits"}
    ~> (gdb.mode \in {"idle", "gone"} \/ [](pc \in {"run", "dump"}))
=============================================================================
