---------------------------- MODULE MCGdbSession ----------------------------
(***************************************************************************)
(* Two commands of gdb, one fault of the line, two traps of the program.   *)
(* Pages are of one byte: the first page of the program is there, and the  *)
(* second is not.                                                          *)
(***************************************************************************)
EXTENDS GdbSession

Command(op, wf, a, d, n, esc) ==
  [op |-> op, wf |-> wf, a |-> a, d |-> d, n |-> n, esc |-> esc]

Plain(op) == Command(op, TRUE, 0, << >>, 0, FALSE)

MCCommands ==
  {Plain(op) : op \in {"g", "c", "s", "?", "D", "R", "k", "Z"}}
  \cup {Command("G", TRUE, 0, <<1, 0, 1>>, 0, FALSE), Command("G", FALSE, 0, <<1>>, 0, FALSE),
        Command("P", TRUE, "eax", <<1>>, 0, FALSE), Command("P", FALSE, "eax", <<1>>, 0, FALSE),
        Command("P", TRUE, ORIG_EAX, <<1>>, 0, FALSE),
        Command("m", TRUE, 0, << >>, 1, FALSE), Command("m", TRUE, 0, << >>, 2, FALSE),
        Command("m", TRUE, 0, << >>, 0, FALSE),
        Command("M", TRUE, 0, <<1>>, 0, FALSE), Command("M", TRUE, 0, <<1, 1>>, 0, FALSE),
        Command("X", TRUE, 0, <<1>>, 0, TRUE), Command("X", TRUE, 0, <<1, 0>>, 0, TRUE),
        Command("C", FALSE, 0, << >>, 0, FALSE), Command("S", TRUE, 0, <<1>>, 9, FALSE),
        Command("T", FALSE, 0, << >>, 0, FALSE)}

Entry(valid) == [valid |-> valid, superpage |-> FALSE, base |-> 0,
                 pt |-> [j \in 0..1 |-> [valid |-> j = 0, base |-> 1 - j]]]

MCPD == [i \in 0..1 |-> Entry(i = 0)]
=============================================================================
