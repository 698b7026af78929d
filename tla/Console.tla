------------------------------ MODULE Console ------------------------------
(***************************************************************************)
(* The console of shared/console.c: processes that print with interrupts   *)
(* on, so that the clock can take the processor away between any two       *)
(* memory accesses of traite_car (the kernel is built without              *)
(* optimisation: every statement loads and stores lig and col anew), and   *)
(* the clock that writes the time over the corner of the screen.           *)
(* defilement, efface_ecran and place_curseur are one step each.           *)
(***************************************************************************)
EXTENDS FiniteSets, Integers, Sequences

CONSTANTS
  Writers,    \* the processes that print
  NB_LIG,     \* 25 lines
  NB_COL,     \* 80 columns
  TabLast,    \* 72: the last column a tabulation leaves
  TabStep,    \* 4: the columns it advances
  Corner,     \* the columns of line 0 the time takes, 71 to 79
  WordSize,   \* 2^16: the number of values of lig and col
  MaxChars    \* bound: how many characters are printed

ASSUME ConsoleAssumption ==
  /\ {NB_LIG, NB_COL} \subseteq Nat \ {0}
  /\ TabLast \in Nat /\ TabStep \in Nat /\ TabLast + TabStep < NB_COL
  /\ WordSize \in Nat /\ NB_LIG < WordSize /\ NB_COL < WordSize
  /\ NB_LIG * NB_COL <= WordSize

VARIABLES
  lig, col,   \* the cursor
  screen,     \* the character at each line and column
  hw,         \* the position the cursor of the video card shows
  pc,         \* where each writer is in traite_car
  reg,        \* the value each writer has loaded
  fault,      \* the writers that wrote through the null pointer
  paper,      \* the text as it should look, from the first line on
  sound,      \* no two characters have overlapped since the last form feed
  printed     \* the number of characters begun

consolevars == <<lig, col, screen, hw, pc, reg, fault, paper, sound, printed>>

Lines == 0..NB_LIG - 1
Columns == 0..NB_COL - 1
Blank == [c \in Columns |-> " "]

\* The characters traite_car tells apart; the last stands for those it ignores.
Chars == {"x", "BS", "HT", "LF", "FF", "CR", "ignored"}

----------------------------------------------------------------------------
\* The text on an endless sheet: a scrolled screen shows its last lines.

NewSheet == [lines |-> [l \in 1..NB_LIG |-> Blank], row |-> 1, col |-> 0]

NextLine(p) ==
  [lines |-> IF p.row < Len(p.lines) THEN p.lines ELSE Append(p.lines, Blank),
   row |-> p.row + 1, col |-> 0]

Put(p) ==
  LET q == [p EXCEPT !.lines[p.row][p.col] = "x", !.col = @ + 1] IN
  IF q.col = NB_COL THEN NextLine(q) ELSE q

Typed(p, c) ==
  CASE c = "x"  -> Put(p)
    [] c = "BS" -> [p EXCEPT !.col = IF @ = 0 THEN 0 ELSE @ - 1]
    [] c = "HT" -> [p EXCEPT !.col = IF @ > TabLast THEN @ ELSE @ + TabStep]
    [] c = "LF" -> NextLine(p)
    [] c = "FF" -> NewSheet
    [] c = "CR" -> [p EXCEPT !.col = 0]
    [] c = "ignored" -> p

----------------------------------------------------------------------------
\* traite_car, one memory access at a time

OnScreen(l, c) == l \in Lines /\ c \in Columns

ecrit_car(l, c, char) == [screen EXCEPT ![l][c] = char]

efface_ecran == [l \in Lines |-> Blank]

defilementKeepingLast == [l \in Lines |-> IF l = NB_LIG - 1 THEN screen[l] ELSE screen[l + 1]]

defilement == [l \in Lines |-> IF l = NB_LIG - 1 THEN Blank ELSE screen[l + 1]]

From(w, at, to) == pc[w] = at /\ pc' = [pc EXCEPT ![w] = to]

Test(w, at, to) == From(w, at, to) /\ UNCHANGED <<lig, col, screen, hw, reg, fault>>

Load(w, at, value, to) ==
  From(w, at, to) /\ reg' = [reg EXCEPT ![w] = value]
    /\ UNCHANGED <<lig, col, screen, hw, fault>>

SetCol(w, at, value, to) ==
  From(w, at, to) /\ col' = value /\ UNCHANGED <<lig, screen, hw, reg, fault>>

SetLig(w, at, value, to) ==
  From(w, at, to) /\ lig' = value /\ UNCHANGED <<col, screen, hw, reg, fault>>

Paint(w, at, new, to) ==
  From(w, at, to) /\ screen' = new /\ UNCHANGED <<lig, col, hw, reg, fault>>

Backspace(w) ==
  \/ Test(w, "BS", IF col > 0 THEN "back" ELSE "place")
  \/ Load(w, "back", col, "backed")
  \/ SetCol(w, "backed", (reg[w] - 1) % WordSize, "place")

Tabulation(w) ==
  \/ Test(w, "HT", IF col <= TabLast THEN "tab" ELSE "place")
  \/ Load(w, "tab", col, "tabbed")
  \/ SetCol(w, "tabbed", (reg[w] + TabStep) % WordSize, "place")

LineFeed(w) ==
  \/ Test(w, "LF", IF lig < NB_LIG - 1 THEN "down" ELSE "scroll")
  \/ SetCol(w, "down", 0, "downed")
  \/ Load(w, "downed", lig, "next")
  \/ SetLig(w, "next", (reg[w] + 1) % WordSize, "place")
  \/ Paint(w, "scroll", defilement, "scrolled")
  \/ SetCol(w, "scrolled", 0, "last")
  \/ SetLig(w, "last", NB_LIG - 1, "place")

FormFeed(w) ==
  \/ Paint(w, "FF", efface_ecran, "cleared")
  \/ SetCol(w, "cleared", 0, "top")
  \/ SetLig(w, "top", 0, "place")

CarriageReturn(w) == SetCol(w, "CR", 0, "place")

Ignored(w) == Test(w, "ignored", "place")

\* ptr_mem gives the null pointer for a place outside the screen.  The line is
\* loaded with the write: only a writer that overlaps with another, of which no
\* property says anything, could tell the difference.
Write(w) ==
  IF OnScreen(lig, reg[w]) THEN Paint(w, "write", ecrit_car(lig, reg[w], "x"), "written")
  ELSE From(w, "write", "stopped") /\ fault' = fault \cup {w}
         /\ UNCHANGED <<lig, col, screen, hw, reg>>

FullLateByOne == col > NB_COL

\* if (col >= NB_COL)
Full == col >= NB_COL

Printable(w) ==
  \/ Load(w, "x", col, "write")
  \/ Write(w)
  \/ Load(w, "written", col, "advance")
  \/ SetCol(w, "advance", (reg[w] + 1) % WordSize, "full?")
  \/ Test(w, "full?", IF Full THEN "wrap" ELSE "place")
  \/ SetCol(w, "wrap", 0, "wrapped")
  \/ Load(w, "wrapped", lig, "below")
  \/ SetLig(w, "below", (reg[w] + 1) % WordSize, "bottom?")
  \/ Test(w, "bottom?", IF lig >= NB_LIG THEN "shift" ELSE "place")
  \/ Paint(w, "shift", defilement, "shifted")
  \/ SetLig(w, "shifted", NB_LIG - 1, "place")

place_curseur(w) ==
  From(w, "place", "rest") /\ hw' = (col + lig * NB_COL) % WordSize
    /\ UNCHANGED <<lig, col, screen, reg, fault>>

traite_car(w) ==
  \/ Backspace(w) \/ Tabulation(w) \/ LineFeed(w) \/ FormFeed(w) \/ CarriageReturn(w)
  \/ Ignored(w) \/ Printable(w) \/ place_curseur(w)

----------------------------------------------------------------------------
\* The program

Busy == {w \in Writers : pc[w] \notin {"rest", "stopped"}}

\* console_putbytes hands traite_car its next character.
Begin(w) ==
  /\ printed < MaxChars
  /\ \E c \in Chars :
       /\ From(w, "rest", c)
       /\ sound' = (Busy = {} /\ (sound \/ c = "FF"))
       /\ paper' = IF sound' THEN Typed(paper, c) ELSE NewSheet
  /\ printed' = printed + 1
  /\ UNCHANGED <<lig, col, screen, hw, reg, fault>>

Continue(w) == traite_car(w) /\ UNCHANGED <<paper, sound, printed>>

\* The handler of the clock writes the time, whoever was interrupted.
display_corner == [screen EXCEPT ![0] = [c \in Columns |-> IF c \in Corner THEN "t" ELSE @[c]]]

Tick ==
  /\ screen' = display_corner
  /\ UNCHANGED <<lig, col, hw, pc, reg, fault, paper, sound, printed>>

ConsoleInit ==
  /\ lig = 0 /\ col = 0 /\ hw = 0 /\ screen = [l \in Lines |-> Blank]
  /\ pc = [w \in Writers |-> "rest"] /\ reg = [w \in Writers |-> 0]
  /\ fault = {} /\ paper = NewSheet /\ sound = TRUE /\ printed = 0

\* A fault stops the machine.
ConsoleNext ==
  /\ fault = {}
  /\ \/ \E w \in Writers : Begin(w) \/ Continue(w)
     \/ Tick

ConsoleSpec == ConsoleInit /\ [][ConsoleNext]_consolevars

----------------------------------------------------------------------------
\* Properties

\* As long as no two processes print at the same time, the screen shows the last
\* lines of the text and both cursors are at its end; the time covers the corner
\* and is never scrolled.  A form feed restores this, whatever happened before.
TextIsShown ==
  sound /\ Busy = {} =>
    LET above == Len(paper.lines) - NB_LIG IN
    /\ \A l \in Lines, c \in Columns :
         \/ screen[l][c] = paper.lines[above + l + 1][c]
         \/ l = 0 /\ c \in Corner /\ screen[l][c] = "t"
    /\ lig = paper.row - above - 1 /\ col = paper.col
    /\ hw = lig * NB_COL + col

\* The null pointer is only written because two characters overlapped.
FaultsAreRaces == fault # {} => ~sound
=============================================================================
