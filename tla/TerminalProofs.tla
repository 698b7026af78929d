--------------------------- MODULE TerminalProofs ---------------------------
(***************************************************************************)
(* Proofs about the two ends of the terminal.                              *)
(*                                                                         *)
(* The null pointer of console.c is only written by processes that print   *)
(* at the same time, on a screen of any size, for any number of processes  *)
(* and characters: as long as one of them prints at a time, the cursor is  *)
(* on the screen wherever traite_car uses it.                              *)
(*                                                                         *)
(* The keyboard driver, for any of its keys, any number of them held and   *)
(* any number of bytes lost, follows the keys; a code typed on the keypad  *)
(* is sent, only presses count, and a letter is typed as Shift and         *)
(* CapsLock say.                                                           *)
(***************************************************************************)
EXTENDS Keyboard, Console, FiniteSetTheorems, SequenceTheorems, TLAPS

-----------------------------------------------------------------------------
(* The console *)

\* The places of traite_car.
Places ==
  Chars \cup {"rest", "stopped", "back", "backed", "tab", "tabbed", "down", "downed",
              "next", "scroll", "scrolled", "last", "cleared", "top", "write", "written",
              "advance", "full?", "wrap", "wrapped", "below", "bottom?", "shift",
              "shifted", "place"}

ConsoleTyped ==
  /\ lig \in Int /\ col \in Int
  /\ pc \in [Writers -> Places] /\ reg \in [Writers -> Int]
  /\ fault \subseteq Writers /\ sound \in BOOLEAN

CursorOn == lig \in Lines /\ col \in Columns

\* What the only process that prints relies on at each place.  A form feed relies
\* on nothing: it is what puts the cursor right again.
Reached(w) ==
  CASE pc[w] \in {"FF", "cleared"} -> TRUE
    [] pc[w] = "top" -> col = 0
    [] pc[w] \in {"last", "wrapped"} -> CursorOn /\ col = 0
    [] pc[w] = "back" -> CursorOn /\ col > 0
    [] pc[w] = "backed" -> CursorOn /\ col > 0 /\ reg[w] = col
    [] pc[w] = "tab" -> CursorOn /\ col <= TabLast
    [] pc[w] = "tabbed" -> CursorOn /\ col <= TabLast /\ reg[w] = col
    [] pc[w] = "down" -> CursorOn /\ lig < NB_LIG - 1
    [] pc[w] = "downed" -> CursorOn /\ lig < NB_LIG - 1 /\ col = 0
    [] pc[w] = "next" -> CursorOn /\ lig < NB_LIG - 1 /\ col = 0 /\ reg[w] = lig
    [] pc[w] \in {"write", "advance"} -> CursorOn /\ reg[w] = col
    [] pc[w] = "full?" -> lig \in Lines /\ col \in 1..NB_COL
    [] pc[w] = "wrap" -> lig \in Lines
    [] pc[w] = "below" -> CursorOn /\ col = 0 /\ reg[w] = lig
    [] pc[w] = "bottom?" -> lig \in 1..NB_LIG /\ col = 0
    [] pc[w] \in {"shift", "shifted"} -> col = 0
    [] OTHER -> CursorOn

\* One process prints at a time, and the cursor is where it relies on it to be.
Undisturbed ==
  /\ fault = {}
  /\ \A v, w \in Busy : v = w
  /\ Busy = {} => CursorOn
  /\ \A w \in Busy : Reached(w)

CInv == ConsoleTyped /\ (sound => Undisturbed)

-----------------------------------------------------------------------------
\* A number that fits a word is kept as it is, and any number is cut to one.
LEMMA Fits == \A x \in Nat : x < WordSize => x % WordSize = x
  BY ConsoleAssumption

LEMMA Cut == \A x \in Int : x % WordSize \in Int
  BY ConsoleAssumption

LEMMA InitCInv == ConsoleInit => CInv
  BY ConsoleAssumption
     DEF ConsoleInit, CInv, ConsoleTyped, Undisturbed, Busy, CursorOn, Places, Lines, Columns


\* A step of traite_car starts at one of its places, goes to another, and keeps
\* the types.
StepOf(w) ==
  /\ lig' \in Int /\ col' \in Int /\ reg' \in [Writers -> Int]
  /\ fault' \subseteq Writers
  /\ pc[w] \notin {"rest", "stopped"}
  /\ \E to \in Places : pc' = [pc EXCEPT ![w] = to]

LEMMA StepTyped ==
  ASSUME ConsoleTyped, NEW w \in Writers, traite_car(w)
  PROVE  StepOf(w)
<1> USE Cut, ConsoleAssumption
    DEF ConsoleTyped, StepOf, From, Test, Load, SetCol, SetLig, Paint, Places, Chars
<1>1. CASE Backspace(w)
  BY <1>1 DEF Backspace
<1>2. CASE Tabulation(w)
  BY <1>2 DEF Tabulation
<1>3. CASE LineFeed(w)
  BY <1>3 DEF LineFeed
<1>4. CASE FormFeed(w) \/ CarriageReturn(w) \/ Ignored(w)
  BY <1>4 DEF FormFeed, CarriageReturn, Ignored
<1>5. CASE Printable(w)
  BY <1>5 DEF Printable, Write
<1>6. CASE place_curseur(w)
  BY <1>6 DEF place_curseur
<1> QED
  BY <1>1, <1>2, <1>3, <1>4, <1>5, <1>6 DEF traite_car

\* Where a step of the only process that prints leaves it.
Arrived(w) ==
  /\ fault' = {} /\ pc'[w] # "stopped"
  /\ IF pc'[w] = "rest" THEN CursorOn' ELSE Reached(w)'

LEMMA StepArrives ==
  ASSUME ConsoleTyped, fault = {}, NEW w \in Writers, Reached(w), traite_car(w)
  PROVE  Arrived(w)
<1> USE Fits, ConsoleAssumption
    DEF ConsoleTyped, Arrived, Reached, CursorOn, Lines, Columns,
        From, Test, Load, SetCol, SetLig, Paint
<1>1. CASE Backspace(w)
  BY <1>1 DEF Backspace
<1>2. CASE Tabulation(w)
  BY <1>2 DEF Tabulation
<1>3. CASE LineFeed(w)
  BY <1>3 DEF LineFeed
<1>4. CASE FormFeed(w) \/ CarriageReturn(w) \/ Ignored(w)
  BY <1>4 DEF FormFeed, CarriageReturn, Ignored
<1>5. CASE Printable(w)
  BY <1>5 DEF Printable, Write, OnScreen, Full
<1>6. CASE place_curseur(w)
  BY <1>6 DEF place_curseur
<1> QED
  BY <1>1, <1>2, <1>3, <1>4, <1>5, <1>6 DEF traite_car

LEMMA StepUndisturbed ==
  ASSUME ConsoleTyped, Undisturbed, NEW w \in Writers, traite_car(w)
  PROVE  Undisturbed'
<1>1. pc[w] \notin {"rest", "stopped"} /\ \A v \in Writers : v # w => pc'[v] = pc[v]
  BY StepTyped DEF StepOf, ConsoleTyped
<1>2. w \in Busy /\ \A v \in Busy : v = w
  BY <1>1 DEF Busy, Undisturbed
<1>3. Arrived(w)
  BY <1>2, StepArrives DEF Undisturbed
<1>4. \A v \in Busy' : v = w /\ pc'[w] # "rest"
  BY <1>1, <1>2 DEF Busy
<1>5. Busy' = {} => CursorOn'
  BY <1>3 DEF Arrived, Busy
<1> QED
  BY <1>3, <1>4, <1>5 DEF Arrived, Undisturbed

LEMMA NextCInv == CInv /\ [ConsoleNext]_consolevars => CInv'
<1> SUFFICES ASSUME CInv, [ConsoleNext]_consolevars
             PROVE  CInv'
  OBVIOUS
<1>1. CASE UNCHANGED consolevars
  BY <1>1 DEF CInv, ConsoleTyped, Undisturbed, Busy, Reached, CursorOn, consolevars
<1>2. ASSUME NEW w \in Writers, Begin(w), fault = {}
      PROVE  CInv'
  <2>1. PICK c \in Chars : From(w, "rest", c) /\ sound' = (Busy = {} /\ (sound \/ c = "FF"))
    BY <1>2 DEF Begin
  <2>2. UNCHANGED <<lig, col, screen, hw, reg, fault>>
    BY <1>2 DEF Begin
  <2>3. ConsoleTyped'
    BY <2>1, <2>2 DEF CInv, ConsoleTyped, From, Places
  <2>4. ASSUME sound' PROVE Undisturbed'
    <3>1. pc'[w] = c /\ \A v \in Writers : v # w => pc'[v] = pc[v]
      BY <2>1 DEF From, CInv, ConsoleTyped
    <3>2. \A v \in Busy' : v = w
      BY <3>1, <2>1, <2>4 DEF Busy
    <3>3. w \in Busy'
      BY <3>1 DEF Busy, Chars
    <3>4. c = "FF" \/ CursorOn'
      BY <2>1, <2>2, <2>4 DEF CInv, Undisturbed, CursorOn
    <3>5. Reached(w)'
      BY <3>1, <3>4 DEF Reached, Chars
    <3> QED
      BY <1>2, <2>2, <3>2, <3>3, <3>5 DEF Undisturbed
  <2> QED
    BY <2>3, <2>4 DEF CInv
<1>3. ASSUME NEW w \in Writers, Continue(w), fault = {}
      PROVE  CInv'
  <2>1. traite_car(w) /\ UNCHANGED sound
    BY <1>3 DEF Continue
  <2>2. ConsoleTyped'
    BY <2>1, StepTyped DEF CInv, ConsoleTyped, StepOf
  <2>3. ASSUME sound' PROVE Undisturbed'
    BY <2>1, <2>3, StepUndisturbed DEF CInv
  <2> QED
    BY <2>2, <2>3 DEF CInv
<1>4. CASE Tick
  BY <1>4 DEF Tick, CInv, ConsoleTyped, Undisturbed, Busy, Reached, CursorOn
<1> QED
  BY <1>1, <1>2, <1>3, <1>4 DEF ConsoleNext

\* Only processes that print at the same time write through the null pointer of
\* ptr_mem (traite_car, console.c): a column stored by one of them is tested and
\* reset by it before anyone uses it again.
THEOREM OnlyRacesFault == ConsoleSpec => []FaultsAreRaces
<1>1. CInv => FaultsAreRaces
  BY DEF CInv, Undisturbed, FaultsAreRaces
<1> QED
  BY InitCInv, NextCInv, <1>1, PTL DEF ConsoleSpec

-----------------------------------------------------------------------------
(* What is printed is shown. *)

Glyphs == {" ", "x", "t"}

Sheets == [lines : Seq([Columns -> Glyphs]), row : Nat, col : Int]

\* Line i of a screen that shows the end of the sheet p.
LineOf(p, i) == p.lines[Len(p.lines) - NB_LIG + i + 1]

\* The screen z is s, but for the time the clock has written over its corner.
Overwritten(s, z) ==
  \A i \in Lines, j \in Columns :
    z[i][j] = s[i][j] \/ (i = 0 /\ j \in Corner /\ z[i][j] = "t")

\* The screen s shows the end of the sheet p, and line l is the one p is at.
Shows(p, l, s) ==
  /\ p \in Sheets /\ NB_LIG <= Len(p.lines)
  /\ l \in Lines /\ p.row = Len(p.lines) - NB_LIG + l + 1
  /\ Overwritten([i \in Lines |-> LineOf(p, i)], s)

Displays(p, l, c, s) == Shows(p, l, s) /\ c \in Columns /\ p.col = c

Scrolled(s) == [l \in Lines |-> IF l = NB_LIG - 1 THEN Blank ELSE s[l + 1]]

Written(s, l, c) == [s EXCEPT ![l][c] = "x"]

\* The screen s after the cursor has gone to the line below.
Below(p, l, s) ==
  IF l + 1 >= NB_LIG THEN Displays(p, NB_LIG - 1, 0, Scrolled(s)) ELSE Displays(p, l + 1, 0, s)

\* The same when column c is the next to be written.
Advanced(p, l, c, s) == IF c >= NB_COL THEN Below(p, l, s) ELSE Displays(p, l, c, s)

\* At each place of traite_car, what is left to do makes the screen show the paper.
Promised(w) ==
  CASE pc[w] = "BS" -> Displays(paper, lig, IF col > 0 THEN col - 1 ELSE 0, screen)
    [] pc[w] \in {"back", "backed"} -> Displays(paper, lig, col - 1, screen)
    [] pc[w] = "HT" ->
         Displays(paper, lig, IF col <= TabLast THEN col + TabStep ELSE col, screen)
    [] pc[w] \in {"tab", "tabbed"} -> Displays(paper, lig, col + TabStep, screen)
    [] pc[w] = "LF" -> Below(paper, lig, screen)
    [] pc[w] \in {"down", "downed", "next"} -> Displays(paper, lig + 1, 0, screen)
    [] pc[w] \in {"scroll", "shift"} -> Displays(paper, NB_LIG - 1, 0, Scrolled(screen))
    [] pc[w] \in {"scrolled", "last", "shifted"} -> Displays(paper, NB_LIG - 1, 0, screen)
    [] pc[w] = "FF" -> Displays(paper, 0, 0, efface_ecran)
    [] pc[w] \in {"cleared", "top"} -> Displays(paper, 0, 0, screen)
    [] pc[w] = "CR" -> Displays(paper, lig, 0, screen)
    [] pc[w] \in {"x", "write"} ->
         Advanced(paper, lig, col + 1, Written(screen, lig, col))
    [] pc[w] \in {"written", "advance"} -> Advanced(paper, lig, col + 1, screen)
    [] pc[w] = "full?" -> Advanced(paper, lig, col, screen)
    [] pc[w] \in {"wrap", "wrapped", "below"} -> Below(paper, lig, screen)
    [] pc[w] = "bottom?" -> Below(paper, lig - 1, screen)
    [] OTHER -> Displays(paper, lig, col, screen)

ScreenTyped == screen \in [Lines -> [Columns -> Glyphs]]

AtRest == Displays(paper, lig, col, screen) /\ hw = lig * NB_COL + col

PromisesKept ==
  /\ Busy = {} => AtRest
  /\ \A w \in Busy : Promised(w)

DInv == CInv /\ ScreenTyped /\ (sound => PromisesKept)

LEMMA BlankLine == Blank \in [Columns -> Glyphs]
  BY DEF Blank, Glyphs

\* An empty sheet shows as an empty screen with the cursor in its first corner.
LEMMA NewSheetDisplayed == Displays(NewSheet, 0, 0, efface_ecran)
<1> DEFINE blanks == [l \in 1..NB_LIG |-> Blank]
<1>1. blanks \in Seq([Columns -> Glyphs]) /\ Len(blanks) = NB_LIG
  BY BlankLine, ConsoleAssumption
<1>2. Shows(NewSheet, 0, efface_ecran)
  <2>1. NewSheet.lines = blanks /\ NewSheet.row = 1 /\ NewSheet.col = 0
    BY DEF NewSheet
  <2>2. NewSheet \in Sheets
    BY <1>1 DEF NewSheet, Sheets
  <2>3. \A i \in Lines : LineOf(NewSheet, i) = Blank /\ efface_ecran[i] = Blank
    BY <1>1, <2>1, ConsoleAssumption DEF LineOf, Lines, efface_ecran
  <2>4. Overwritten([i \in Lines |-> LineOf(NewSheet, i)], efface_ecran)
    BY <2>3 DEF Overwritten
  <2> QED
    BY <1>1, <2>1, <2>2, <2>4, ConsoleAssumption DEF Shows, Lines
<1> QED
  BY <1>2, ConsoleAssumption DEF Displays, NewSheet, Columns

\* To go to the next line, the sheet gets one more when the screen scrolls.
LEMMA NextLineDisplayed ==
  ASSUME NEW p, NEW l, NEW s, Shows(p, l, s)
  PROVE  Below(NextLine(p), l, s)
<1> DEFINE n == Len(p.lines)
           next == NextLine(p)
<1>0. /\ p \in Sheets /\ p.lines \in Seq([Columns -> Glyphs]) /\ p.row \in Nat
      /\ n \in Nat /\ NB_LIG <= n /\ l \in Lines /\ p.row = n - NB_LIG + l + 1
      /\ Overwritten([i \in Lines |-> LineOf(p, i)], s)
      /\ NB_LIG \in Nat \ {0} /\ 0 \in Columns
  BY ConsoleAssumption DEF Shows, Sheets, Columns
<1> HIDE DEF n, next
<1>1. CASE l + 1 >= NB_LIG
  <2>1. l = NB_LIG - 1 /\ p.row = n /\ ~(p.row < n)
    BY <1>0, <1>1 DEF Lines
  <2> DEFINE more == Append(p.lines, Blank)
  <2>2. next = [lines |-> more, row |-> p.row + 1, col |-> 0]
    BY <2>1 DEF NextLine, n, next
  <2>3. /\ more \in Seq([Columns -> Glyphs]) /\ Len(more) = n + 1
        /\ \A k \in 1..n : more[k] = p.lines[k]
        /\ more[n + 1] = Blank
    BY <1>0, BlankLine DEF n
  <2>4. next.lines = more /\ next.row = n + 1 /\ next.col = 0 /\ next \in Sheets
    BY <1>0, <2>1, <2>2, <2>3 DEF Sheets
  <2> HIDE DEF more
  <2>5. ASSUME NEW i \in Lines
        PROVE  LineOf(next, i) = IF i = NB_LIG - 1 THEN Blank ELSE LineOf(p, i + 1)
    <3>1. LineOf(next, i) = more[n + 1 - NB_LIG + i + 1]
      <4>1. next.lines = more /\ Len(next.lines) = n + 1
        BY <2>3, <2>4
      <4>2. n \in Nat /\ NB_LIG \in Nat /\ i \in Int
        BY <1>0 DEF Lines
      <4>3. Len(next.lines) - NB_LIG + i + 1 = n + 1 - NB_LIG + i + 1
        BY <4>1, <4>2
      <4>4. LineOf(next, i) = next.lines[Len(next.lines) - NB_LIG + i + 1]
        BY Zenon DEF LineOf
      <4> QED
        BY <4>1, <4>3, <4>4, Zenon
    <3>2. LineOf(p, i + 1) = p.lines[n - NB_LIG + (i + 1) + 1]
      BY DEF LineOf, n
    <3>3. /\ i = NB_LIG - 1 => n + 1 - NB_LIG + i + 1 = n + 1
          /\ i # NB_LIG - 1 => /\ n + 1 - NB_LIG + i + 1 \in 1..n
                               /\ n + 1 - NB_LIG + i + 1 = n - NB_LIG + (i + 1) + 1
      BY <1>0 DEF Lines
    <3> QED
      BY <2>3, <3>1, <3>2, <3>3
  <2>6. Overwritten([i \in Lines |-> LineOf(next, i)], Scrolled(s))
    <3> SUFFICES ASSUME NEW i \in Lines, NEW j \in Columns
                 PROVE  \/ Scrolled(s)[i][j] = LineOf(next, i)[j]
                        \/ i = 0 /\ j \in Corner /\ Scrolled(s)[i][j] = "t"
      BY DEF Overwritten
    <3>1. CASE i = NB_LIG - 1
      BY <2>5, <3>1 DEF Scrolled
    <3>2. CASE i # NB_LIG - 1
      <4>1. i + 1 \in Lines /\ i + 1 # 0
        BY <1>0, <3>2 DEF Lines
      <4>2. s[i + 1][j] = LineOf(p, i + 1)[j]
        BY <1>0, <4>1 DEF Overwritten
      <4> QED
        BY <2>5, <3>2, <4>2 DEF Scrolled
    <3> QED
      BY <3>1, <3>2
  <2>7. Shows(next, NB_LIG - 1, Scrolled(s))
    BY <1>0, <2>3, <2>4, <2>6 DEF Shows, Lines
  <2> QED
    BY <1>0, <1>1, <2>4, <2>7 DEF Below, Displays, next
<1>2. CASE ~(l + 1 >= NB_LIG)
  <2>1. p.row < n /\ l + 1 \in Lines
    BY <1>0, <1>2 DEF Lines
  <2>2. next = [lines |-> p.lines, row |-> p.row + 1, col |-> 0]
    BY <2>1 DEF NextLine, n, next
  <2>3. next.lines = p.lines /\ next.row = p.row + 1 /\ next.col = 0 /\ next \in Sheets
    BY <1>0, <2>2 DEF Sheets
  <2>4. \A i \in Lines : LineOf(next, i) = LineOf(p, i)
    BY <2>3 DEF LineOf
  <2>5. Overwritten([i \in Lines |-> LineOf(next, i)], s)
    BY <1>0, <2>4 DEF Overwritten
  <2>6. next.row = n - NB_LIG + (l + 1) + 1 /\ Len(next.lines) = n
    <3>1. l \in Int /\ next.row = (n - NB_LIG + l + 1) + 1
      BY <1>0, <2>3 DEF Lines
    <3>2. Len(next.lines) = n
      BY <2>3 DEF n
    <3> QED
      BY <1>0, <3>1, <3>2
  <2>7. Shows(next, l + 1, s)
    BY <1>0, <2>1, <2>3, <2>5, <2>6 DEF Shows
  <2> QED
    BY <1>0, <1>2, <2>3, <2>7 DEF Below, Displays, next
<1> QED
  BY <1>1, <1>2

\* A character put on the sheet is one written at the cursor.
LEMMA PutDisplayed ==
  ASSUME NEW p, NEW l, NEW c, NEW s \in [Lines -> [Columns -> Glyphs]], Displays(p, l, c, s)
  PROVE  Advanced(Put(p), l, c + 1, Written(s, l, c))
<1> DEFINE n == Len(p.lines)
           text == [p.lines[p.row] EXCEPT ![c] = "x"]
           lines == [p.lines EXCEPT ![p.row] = text]
           q == [p EXCEPT !.lines[p.row][p.col] = "x", !.col = @ + 1]
<1>0. /\ p \in Sheets /\ p.lines \in Seq([Columns -> Glyphs]) /\ p.row \in Nat
      /\ n \in Nat /\ NB_LIG <= n /\ l \in Lines /\ p.row = n - NB_LIG + l + 1
      /\ Overwritten([i \in Lines |-> LineOf(p, i)], s)
      /\ NB_LIG \in Nat \ {0} /\ NB_COL \in Nat \ {0}
      /\ c \in Columns /\ p.col = c
  BY ConsoleAssumption DEF Displays, Shows, Sheets
<1>1. p.row \in 1..n /\ p.lines[p.row] \in [Columns -> Glyphs]
  <2>1. p.row \in 1..n
    BY <1>0 DEF Lines
  <2> QED
    BY <1>0, <2>1
<1>2. text \in [Columns -> Glyphs]
  BY <1>1 DEF Glyphs
<1>3. /\ lines \in Seq([Columns -> Glyphs]) /\ Len(lines) = n
      /\ \A k \in 1..n : lines[k] = IF k = p.row THEN text ELSE p.lines[k]
  <2> HIDE DEF text
  <2> QED
    BY <1>0, <1>1, <1>2, ExceptSeq
<1>4. q.lines = lines /\ q.row = p.row /\ q.col = c + 1 /\ q \in Sheets
  <2>1. q = [p EXCEPT !.lines = lines, !.col = c + 1]
    BY <1>0
  <2>2. lines \in Seq([Columns -> Glyphs]) /\ c + 1 \in Int
    BY <1>0, <1>3 DEF Columns
  <2> HIDE DEF q, lines
  <2> QED
    BY <1>0, <2>1, <2>2 DEF Sheets
<1> HIDE DEF q, lines, n
<1>5. Shows(q, l, Written(s, l, c))
  <2>1. ASSUME NEW i \in Lines, NEW j \in Columns
        PROVE  LineOf(q, i)[j] = IF i = l /\ j = c THEN "x" ELSE LineOf(p, i)[j]
    <3> DEFINE k == n - NB_LIG + i + 1
    <3>1. k \in 1..n /\ (k = p.row <=> i = l)
      BY <1>0 DEF Lines
    <3>2. LineOf(q, i) = lines[k] /\ LineOf(p, i) = p.lines[k]
      BY <1>3, <1>4 DEF LineOf, n
    <3>3. text[j] = IF j = c THEN "x" ELSE p.lines[p.row][j]
      BY <1>0, <1>1
    <3> HIDE DEF text, k
    <3> QED
      BY <1>3, <3>1, <3>2, <3>3
  <2>2. ASSUME NEW i \in Lines, NEW j \in Columns
        PROVE  Written(s, l, c)[i][j] = IF i = l /\ j = c THEN "x" ELSE s[i][j]
    BY <1>0 DEF Written
  <2>3. Overwritten([i \in Lines |-> LineOf(q, i)], Written(s, l, c))
    BY <1>0, <2>1, <2>2 DEF Overwritten
  <2> QED
    BY <1>0, <1>3, <1>4, <2>3 DEF Shows
<1>6. Put(p) = IF c + 1 = NB_COL THEN NextLine(q) ELSE q
  BY <1>4 DEF Put, q
<1>7. CASE c + 1 = NB_COL
  BY <1>0, <1>5, <1>6, <1>7, NextLineDisplayed DEF Advanced
<1>8. CASE c + 1 # NB_COL
  <2>1. c + 1 \in Columns /\ ~(c + 1 >= NB_COL)
    BY <1>0, <1>8 DEF Columns
  <2> QED
    BY <1>4, <1>5, <1>6, <1>8, <2>1 DEF Advanced, Displays
<1> QED
  BY <1>7, <1>8

\* Other characters only move the sheet's cursor along its line.
LEMMA MoveDisplayed ==
  ASSUME NEW p, NEW l, NEW c, NEW s, Displays(p, l, c, s), NEW d \in Columns
  PROVE  Displays([p EXCEPT !.col = d], l, d, s)
<1> DEFINE q == [p EXCEPT !.col = d]
<1>1. q.lines = p.lines /\ q.row = p.row /\ q.col = d /\ q \in Sheets
  <2>1. p \in Sheets
    BY DEF Displays, Shows
  <2>2. d \in Int
    BY ConsoleAssumption DEF Columns
  <2> QED
    BY <2>1, <2>2 DEF Sheets
<1> HIDE DEF q
<1>2. \A i \in Lines : LineOf(q, i) = LineOf(p, i)
  BY <1>1 DEF LineOf
<1>3. Shows(q, l, s)
  BY <1>1, <1>2 DEF Displays, Shows, Overwritten
<1> QED
  BY <1>1, <1>3 DEF Displays, q

\* A character that begins is promised to be shown.
LEMMA BeginPromises ==
  ASSUME NEW w \in Writers, NEW c \in Chars, pc'[w] = c, ScreenTyped,
         c = "FF" \/ Displays(paper, lig, col, screen),
         UNCHANGED <<lig, col, screen>>, paper' = Typed(paper, c)
  PROVE  Promised(w)'
<1>1. CASE c = "x"
  BY <1>1, PutDisplayed DEF Typed, Promised, ScreenTyped
<1>2. CASE c = "LF"
  BY <1>2, NextLineDisplayed DEF Typed, Promised, Displays
<1>3. CASE c = "FF"
  BY <1>3, NewSheetDisplayed DEF Typed, Promised, efface_ecran
<1>4. CASE c \in {"BS", "HT", "CR", "ignored"}
  <2> DEFINE d == CASE c = "BS" -> IF col > 0 THEN col - 1 ELSE 0
                    [] c = "HT" -> IF col <= TabLast THEN col + TabStep ELSE col
                    [] c = "CR" -> 0
                    [] OTHER -> col
  <2>1. Displays(paper, lig, col, screen) /\ paper.col = col /\ col \in Columns
    BY <1>4 DEF Displays
  <2>2. d \in Columns
    BY <1>4, <2>1, ConsoleAssumption DEF Columns
  <2>3. c # "ignored" => paper' = [paper EXCEPT !.col = d]
    BY <1>4, <2>1, ConsoleAssumption DEF Typed, Columns
  <2>4. c = "ignored" => paper' = paper
    BY DEF Typed
  <2>5. Displays(paper', lig, d, screen)
    BY <1>4, <2>1, <2>2, <2>3, <2>4, MoveDisplayed
  <2> QED
    BY <1>4, <2>5 DEF Promised
<1> QED
  BY <1>1, <1>2, <1>3, <1>4 DEF Chars

\* A step of traite_car keeps the promise, to the end.
LEMMA StepPromises ==
  ASSUME ConsoleTyped, fault = {}, NEW w \in Writers, Reached(w), Promised(w),
         traite_car(w), UNCHANGED paper
  PROVE  IF pc'[w] = "rest" THEN AtRest' ELSE Promised(w)'
<1> USE Fits, ConsoleAssumption
    DEF ConsoleTyped, Reached, Promised, CursorOn, Lines, Columns,
        From, Test, Load, SetCol, SetLig, Paint
<1>a. defilement = Scrolled(screen)
  BY DEF defilement, Scrolled
<1>b. ecrit_car(lig, reg[w], "x") = Written(screen, lig, reg[w])
  BY DEF ecrit_car, Written
<1>1. CASE Backspace(w)
  BY <1>1 DEF Backspace
<1>2. CASE Tabulation(w)
  BY <1>2 DEF Tabulation
<1>3. CASE LineFeed(w)
  <2>1. CASE pc[w] \in {"LF", "scroll"}
    BY <1>3, <1>a, <2>1 DEF LineFeed, Below
  <2>2. CASE pc[w] \in {"down", "downed", "next"}
    BY <1>3, <2>2 DEF LineFeed
  <2>3. CASE pc[w] \in {"scrolled", "last"}
    BY <1>3, <2>3 DEF LineFeed
  <2> QED
    BY <1>3, <2>1, <2>2, <2>3 DEF LineFeed
<1>4. CASE FormFeed(w) \/ CarriageReturn(w) \/ Ignored(w)
  BY <1>4 DEF FormFeed, CarriageReturn, Ignored
<1>5. CASE Printable(w)
  <2>1. CASE pc[w] = "x"
    BY <1>5, <2>1 DEF Printable, Write
  <2>2. CASE pc[w] = "write"
    BY <1>5, <1>b, <2>2 DEF Printable, Write, OnScreen
  <2>3. CASE pc[w] \in {"written", "advance"}
    BY <1>5, <2>3 DEF Printable, Write
  <2>4. CASE pc[w] = "full?"
    BY <1>5, <2>4 DEF Printable, Write, Full, Advanced
  <2>5. CASE pc[w] \in {"wrap", "wrapped", "below"}
    BY <1>5, <2>5 DEF Printable, Write
  <2>6. CASE pc[w] \in {"bottom?", "shift", "shifted"}
    BY <1>5, <1>a, <2>6 DEF Printable, Write, Below
  <2> QED
    BY <1>5, <2>1, <2>2, <2>3, <2>4, <2>5, <2>6 DEF Printable, Write
<1>6. CASE place_curseur(w)
  <2>1. Displays(paper, lig, col, screen)' /\ pc'[w] = "rest" /\ lig \in Lines /\ col \in Columns
    BY <1>6 DEF place_curseur
  <2>2. lig * NB_COL + col \in Nat /\ lig * NB_COL + col < WordSize
    <3>1. (NB_LIG - 1 - lig) * NB_COL >= 0
      BY <2>1
    <3> QED
      BY <2>1, <3>1
  <2>3. hw' = lig * NB_COL + col /\ UNCHANGED <<lig, col>>
    BY <1>6, <2>1, <2>2 DEF place_curseur
  <2> QED
    BY <2>1, <2>3 DEF AtRest
<1> QED
  BY <1>1, <1>2, <1>3, <1>4, <1>5, <1>6 DEF traite_car

\* What the clock writes is where the properties allow it, wherever the screen goes.
LEMMA OverwrittenDisplayed ==
  ASSUME NEW s, NEW z, Overwritten(s, z), NEW p, NEW l, NEW c, Displays(p, l, c, s)
  PROVE  Displays(p, l, c, z)
  BY DEF Displays, Shows, Overwritten

LEMMA OverwrittenScrolled ==
  ASSUME NEW s, NEW z, Overwritten(s, z)
  PROVE  Overwritten(Scrolled(s), Scrolled(z))
<1> SUFFICES ASSUME NEW i \in Lines, NEW j \in Columns
             PROVE  Scrolled(z)[i][j] = Scrolled(s)[i][j]
  BY DEF Overwritten
<1>1. CASE i = NB_LIG - 1
  BY <1>1 DEF Scrolled
<1>2. CASE i # NB_LIG - 1
  <2>1. i + 1 \in Lines /\ i + 1 # 0
    BY <1>2, ConsoleAssumption DEF Lines
  <2> QED
    BY <1>2, <2>1 DEF Scrolled, Overwritten
<1> QED
  BY <1>1, <1>2

LEMMA OverwrittenWritten ==
  ASSUME NEW s \in [Lines -> [Columns -> Glyphs]], NEW z \in [Lines -> [Columns -> Glyphs]],
         Overwritten(s, z), NEW l \in Lines, NEW c \in Columns
  PROVE  Overwritten(Written(s, l, c), Written(z, l, c))
  BY DEF Overwritten, Written

LEMMA OverwrittenAdvanced ==
  ASSUME NEW s, NEW z, Overwritten(s, z), NEW p, NEW l, NEW c
  PROVE  /\ Below(p, l, s) => Below(p, l, z)
         /\ Advanced(p, l, c, s) => Advanced(p, l, c, z)
  BY OverwrittenDisplayed, OverwrittenScrolled DEF Below, Advanced

LEMMA StepScreen ==
  ASSUME ScreenTyped, ConsoleTyped, NEW w \in Writers, traite_car(w)
  PROVE  ScreenTyped'
<1> USE BlankLine, ConsoleAssumption
    DEF ScreenTyped, From, Test, Load, SetCol, SetLig, Paint
<1>1. defilement \in [Lines -> [Columns -> Glyphs]]
  BY DEF defilement, Lines
<1>2. efface_ecran \in [Lines -> [Columns -> Glyphs]]
  BY DEF efface_ecran
<1>3. OnScreen(lig, reg[w]) => ecrit_car(lig, reg[w], "x") \in [Lines -> [Columns -> Glyphs]]
  BY DEF ecrit_car, OnScreen, Glyphs
<1> QED
  BY <1>1, <1>2, <1>3
  DEF traite_car, Backspace, Tabulation, LineFeed, FormFeed, CarriageReturn, Ignored,
      Printable, Write, place_curseur

LEMMA TickPromises ==
  ASSUME ScreenTyped, Tick
  PROVE  ScreenTyped' /\ Overwritten(screen, screen')
  BY DEF Tick, display_corner, ScreenTyped, Overwritten, Glyphs, Columns

LEMMA InitDInv == ConsoleInit => DInv
<1> SUFFICES ASSUME ConsoleInit PROVE DInv
  OBVIOUS
<1>1. CInv
  BY InitCInv
<1>2. screen = efface_ecran /\ Busy = {}
  BY DEF ConsoleInit, efface_ecran, Busy
<1>3. ScreenTyped
  BY <1>2, BlankLine DEF ScreenTyped, efface_ecran
<1>4. AtRest
  BY <1>2, NewSheetDisplayed, ConsoleAssumption DEF AtRest, ConsoleInit
<1> QED
  BY <1>1, <1>2, <1>3, <1>4 DEF DInv, PromisesKept

LEMMA NextDInv == DInv /\ [ConsoleNext]_consolevars => DInv'
<1> SUFFICES ASSUME DInv, [ConsoleNext]_consolevars
             PROVE  DInv'
  OBVIOUS
<1>0. CInv' /\ CInv /\ ConsoleTyped /\ ScreenTyped /\ (sound => Undisturbed /\ PromisesKept)
  BY NextCInv DEF DInv, CInv
<1>1. CASE UNCHANGED consolevars
  BY <1>0, <1>1 DEF DInv, ScreenTyped, PromisesKept, Busy, AtRest, Promised, consolevars
<1>2. ASSUME NEW w \in Writers, Begin(w), fault = {}
      PROVE  DInv'
  <2>1. PICK c \in Chars :
          /\ From(w, "rest", c) /\ sound' = (Busy = {} /\ (sound \/ c = "FF"))
          /\ paper' = IF sound' THEN Typed(paper, c) ELSE NewSheet
    BY <1>2 DEF Begin
  <2>2. UNCHANGED <<lig, col, screen>>
    BY <1>2 DEF Begin
  <2>3. ASSUME sound' PROVE PromisesKept'
    <3>1. pc'[w] = c /\ \A v \in Writers : v # w => pc'[v] = pc[v]
      BY <1>0, <2>1 DEF From, ConsoleTyped
    <3>2. w \in Busy' /\ \A v \in Busy' : v = w
      BY <3>1, <2>1, <2>3 DEF Busy, Chars
    <3>3. c = "FF" \/ Displays(paper, lig, col, screen)
      BY <1>0, <2>1, <2>3 DEF PromisesKept, AtRest
    <3>4. Promised(w)'
      BY <1>0, <2>1, <2>2, <2>3, <3>1, <3>3, BeginPromises
    <3> QED
      BY <3>2, <3>4 DEF PromisesKept
  <2> QED
    BY <1>0, <2>2, <2>3 DEF DInv, ScreenTyped
<1>3. ASSUME NEW w \in Writers, Continue(w), fault = {}
      PROVE  DInv'
  <2>1. traite_car(w) /\ UNCHANGED <<paper, sound>>
    BY <1>3 DEF Continue
  <2>2. ScreenTyped'
    BY <1>0, <2>1, StepScreen
  <2>3. ASSUME sound' PROVE PromisesKept'
    <3>1. /\ pc[w] \notin {"rest", "stopped"} /\ pc' \in [Writers -> Places]
          /\ \A v \in Writers : v # w => pc'[v] = pc[v]
      BY <1>0, <2>1, StepTyped DEF StepOf, ConsoleTyped
    <3>2. w \in Busy /\ \A v \in Busy : v = w
      BY <1>0, <2>1, <2>3, <3>1 DEF Busy, Undisturbed
    <3>3. Arrived(w) /\ IF pc'[w] = "rest" THEN AtRest' ELSE Promised(w)'
      BY <1>0, <1>3, <2>1, <2>3, <3>2, StepArrives, StepPromises DEF Undisturbed, PromisesKept
    <3>4. \A v \in Busy' : v = w /\ pc'[w] # "rest"
      BY <3>1, <3>2 DEF Busy
    <3>5. Busy' = {} => pc'[w] = "rest"
      BY <3>3 DEF Arrived, Busy
    <3> QED
      BY <3>3, <3>4, <3>5 DEF PromisesKept
  <2> QED
    BY <1>0, <2>2, <2>3 DEF DInv
<1>4. CASE Tick
  <2>1. ScreenTyped' /\ Overwritten(screen, screen')
    BY <1>0, <1>4, TickPromises
  <2>2. UNCHANGED <<lig, col, hw, pc, paper, sound>>
    BY <1>4 DEF Tick
  <2>3. ASSUME sound' PROVE PromisesKept'
    <3>1. AtRest => AtRest'
      BY <2>1, <2>2, OverwrittenDisplayed DEF AtRest
    <3>2. ASSUME NEW w \in Busy PROVE Promised(w)'
      <4>1. Promised(w) /\ Reached(w)
        BY <1>0, <2>2, <2>3 DEF PromisesKept, Undisturbed
      <4>2. CASE pc[w] \in {"x", "write"}
        <5>1. Overwritten(Written(screen, lig, col), Written(screen', lig, col))
          BY <1>0, <2>1, <4>1, <4>2, OverwrittenWritten DEF Reached, CursorOn, ScreenTyped
        <5> QED
          BY <2>2, <4>1, <4>2, <5>1, OverwrittenAdvanced DEF Promised
      <4>3. CASE pc[w] \notin {"x", "write"}
        BY <2>1, <2>2, <4>1, <4>3, OverwrittenAdvanced, OverwrittenDisplayed,
           OverwrittenScrolled DEF Promised, efface_ecran
      <4> QED
        BY <4>2, <4>3
    <3> QED
      BY <1>0, <2>2, <2>3, <3>1, <3>2 DEF PromisesKept, Busy
  <2> QED
    BY <1>0, <2>1, <2>3 DEF DInv
<1> QED
  BY <1>1, <1>2, <1>3, <1>4 DEF ConsoleNext

\* While processes print one at a time, the screen shows the last lines of what
\* they print, whatever its size and however often the clock writes its corner, and
\* both cursors are at the end (traite_car and display_corner, console.c).
THEOREM PrintedIsShown == ConsoleSpec => []TextIsShown
<1>1. DInv => TextIsShown
  <2> SUFFICES ASSUME DInv, sound, Busy = {}
               PROVE  TextIsShown
    BY DEF TextIsShown
  <2>1. AtRest /\ Shows(paper, lig, screen) /\ col = paper.col /\ lig \in Lines
    BY DEF DInv, PromisesKept, AtRest, Displays, Shows
  <2>2. /\ Len(paper.lines) \in Nat /\ paper.row = Len(paper.lines) - NB_LIG + lig + 1
        /\ Overwritten([i \in Lines |-> LineOf(paper, i)], screen)
        /\ NB_LIG \in Nat
    BY <2>1, ConsoleAssumption DEF Shows, Sheets
  <2>3. lig = paper.row - (Len(paper.lines) - NB_LIG) - 1
    BY <2>1, <2>2 DEF Lines
  <2> QED
    BY <2>1, <2>2, <2>3 DEF TextIsShown, AtRest, Overwritten, LineOf
<1> QED
  BY InitDInv, NextDInv, <1>1, PTL DEF ConsoleSpec

-----------------------------------------------------------------------------
(* The keyboard *)

\* The codes a key sends alone or behind its prefix, and the bytes of a line.
Codes == {2, 16, 28, 29, 42, 54, 56, 58, 59, 69, 70, 79}

Bytes == {224, 225} \cup Codes \cup {c + 128 : c \in Codes}

Prefixes == {0, 224, 225, 256}

-----------------------------------------------------------------------------
(* The maps *)

\* The value of a code behind 224.
LEMMA EscapedCodes ==
  /\ e0_keys(28) = 96 /\ e0_keys(29) = 97 /\ e0_keys(56) = 100 /\ e0_keys(70) = 101
  /\ e0_keys(79) = 107
  /\ e0_keys(2) = 0 /\ e0_keys(16) = 0 /\ e0_keys(58) = 0 /\ e0_keys(59) = 0
  /\ e0_keys(69) = 0
BY DEF e0_keys

\* No two codes stand for one of the escaped keys.
LEMMA CodesDiffer ==
  \A c \in 0..127 :
    /\ e0_keys(c) = 96 => c = 28
    /\ e0_keys(c) = 97 => c = 29
    /\ e0_keys(c) = 100 => c = 56
    /\ e0_keys(c) = 101 => c = 70
    /\ e0_keys(c) = 107 => c = 79
<1>1. /\ e0_keys(53) = 98 /\ e0_keys(55) = 99 /\ e0_keys(61) = 113 /\ e0_keys(62) = 114
      /\ e0_keys(63) = 115 /\ e0_keys(64) = 116 /\ e0_keys(65) = 117 /\ e0_keys(71) = 102
      /\ e0_keys(72) = 103 /\ e0_keys(73) = 104
  BY DEF e0_keys
<1>2. /\ e0_keys(75) = 105 /\ e0_keys(76) = 124 /\ e0_keys(77) = 106 /\ e0_keys(78) = 118
      /\ e0_keys(80) = 108 /\ e0_keys(81) = 109 /\ e0_keys(82) = 110 /\ e0_keys(83) = 111
      /\ e0_keys(91) = 125 /\ e0_keys(92) = 126 /\ e0_keys(93) = 127 /\ e0_keys(111) = 112
  BY DEF e0_keys
<1>3. ASSUME NEW c \in 0..127,
             c \notin {28, 29, 53, 55, 56, 61, 62, 63, 64, 65, 70, 71, 72, 73},
             c \notin {75, 76, 77, 78, 79, 80, 81, 82, 83, 91, 92, 93, 111}
      PROVE  e0_keys(c) = 0
  BY <1>3 DEF e0_keys
<1>4. ASSUME NEW c \in {28, 29, 53, 55, 56, 61, 62, 63, 64, 65, 70, 71, 72, 73}
      PROVE  /\ e0_keys(c) = 96 => c = 28
             /\ e0_keys(c) = 97 => c = 29
             /\ e0_keys(c) = 100 => c = 56
             /\ e0_keys(c) = 101 => c = 70
             /\ e0_keys(c) # 107
  BY <1>1, <1>4, EscapedCodes
<1>5. ASSUME NEW c \in {75, 76, 77, 78, 79, 80, 81, 82, 83, 91, 92, 93, 111}
      PROVE  e0_keys(c) \notin {96, 97, 100, 101} /\ (e0_keys(c) = 107 => c = 79)
  BY <1>2, <1>5, EscapedCodes
<1> QED BY <1>3, <1>4, <1>5

LEMMA EscapedKeys ==
  ASSUME NEW k \in NR_KEYS
  PROVE  /\ Escaped(k) => k \in {96, 97, 100, 101, 107, PAUSE}
         /\ ~Escaped(k) => k \in Codes
         /\ Escaped(k) \in BOOLEAN
         /\ unexpected_up(k) <=> ~Escaped(k)
BY DEF NR_KEYS, Escaped, SC_LIM, Codes, unexpected_up, LETTER, DIGIT, ENTER, F1, LSHIFT, RSHIFT,
       LALT, LCTRL, CAPSLOCK, NUMLOCK, SCROLLLOCK, KP1, KPENTER, RCTRL, ALTGR, BREAK, END, PAUSE

\* The code of a key is the one its map has.
LEMMA CodeOf ==
  ASSUME NEW k \in NR_KEYS, k # PAUSE
  PROVE  /\ ~Escaped(k) => Code(k) = k
         /\ Escaped(k) => /\ Code(k) \in {28, 29, 56, 70, 79}
                          /\ e0_keys(Code(k)) = k
                          /\ k = END => Code(k) = 79
<1>1. CASE ~Escaped(k)
  BY <1>1 DEF Code
<1>2. CASE Escaped(k)
  <2>1. k \in {96, 97, 100, 101, 107}
    BY <1>2, EscapedKeys DEF PAUSE
  <2>2. \E c \in 0..127 : e0_keys(c) = k
    <3>1. \E c \in {28, 29, 56, 70, 79} : e0_keys(c) = k
      BY <2>1, EscapedCodes
    <3> QED BY <3>1
  <2>3. Code(k) = CHOOSE c \in 0..127 : e0_keys(c) = k
    BY <1>2 DEF Code
  <2>4. Code(k) \in 0..127 /\ e0_keys(Code(k)) = k
    BY <2>2, <2>3, Zenon
  <2>5. Code(k) \in {28, 29, 56, 70, 79} /\ (k = 107 => Code(k) = 79)
    BY <2>1, <2>4, CodesDiffer
  <2> QED BY <1>2, <2>4, <2>5 DEF END
<1> QED BY <1>1, <1>2

\* What a byte makes of the prefix before it.
LEMMA Translated ==
  ASSUME NEW byte \in Bytes, NEW prev \in Prefixes
  PROVE  /\ byte \in {224, 225} => translate(byte, prev) = [prev |-> byte, key |-> 0]
         /\ \A c \in Codes : byte \in {c, c + 128} =>
              /\ prev = 0 => translate(byte, prev) = [prev |-> 0, key |-> c]
              /\ prev = 224 =>
                   translate(byte, prev) =
                     [prev |-> 0, key |-> IF c \in {42, 54} THEN 0 ELSE e0_keys(c)]
              /\ prev = 225 =>
                   translate(byte, prev) = [prev |-> IF c = 29 THEN 256 ELSE 0, key |-> 0]
              /\ prev = 256 =>
                   translate(byte, prev) = [prev |-> 0, key |-> IF c = 69 THEN PAUSE ELSE 0]
<1>1. byte \in {224, 225} => translate(byte, prev) = [prev |-> byte, key |-> 0]
  BY DEF translate
<1>2. ASSUME NEW c \in Codes, byte \in {c, c + 128}
      PROVE  byte % 128 = c /\ byte \notin {0, 224, 225, 255} /\ c \in Nat /\ c < SC_LIM
  BY <1>2 DEF Codes, SC_LIM
<1>3. ASSUME NEW c \in Codes, byte \in {c, c + 128}
      PROVE  /\ prev = 0 => translate(byte, prev) = [prev |-> 0, key |-> c]
             /\ prev = 224 =>
                  translate(byte, prev) =
                    [prev |-> 0, key |-> IF c \in {42, 54} THEN 0 ELSE e0_keys(c)]
             /\ prev = 225 =>
                  translate(byte, prev) = [prev |-> IF c = 29 THEN 256 ELSE 0, key |-> 0]
             /\ prev = 256 =>
                  translate(byte, prev) = [prev |-> 0, key |-> IF c = 69 THEN PAUSE ELSE 0]
  <2>1. ~(c >= SC_LIM)
    BY <1>2, <1>3 DEF SC_LIM
  <2> QED BY <1>2, <1>3, <2>1 DEF translate, E1_PAUSE, PAUSE
<1> QED BY <1>1, <1>3

\* Whatever the bytes, the key they make is one of the map.
LEMMA TranslatedKey ==
  ASSUME NEW byte \in Bytes, NEW prev \in Prefixes
  PROVE  /\ translate(byte, prev).prev \in Prefixes
         /\ translate(byte, prev).key \in NR_KEYS \cup {0}
         /\ LET k == translate(byte, prev).key IN
            k # 0 /\ Escaped(k) => prev = 224 \/ (prev = 256 /\ k = PAUSE)
<1>1. CASE byte \in {224, 225}
  BY <1>1, Translated DEF Prefixes
<1>2. CASE byte \notin {224, 225}
  <2>1. PICK c \in Codes : byte \in {c, c + 128}
    BY <1>2 DEF Bytes
  <2>2. c \in NR_KEYS /\ ~Escaped(c)
    BY DEF NR_KEYS, Escaped, SC_LIM, Codes, LETTER, DIGIT, ENTER, F1, LSHIFT, RSHIFT,
       LALT, LCTRL, CAPSLOCK, NUMLOCK, SCROLLLOCK, KP1, KPENTER, RCTRL, ALTGR, BREAK, END, PAUSE
  <2>3. c \in {42, 54} \/ e0_keys(c) \in NR_KEYS \cup {0}
    BY EscapedCodes DEF NR_KEYS, Codes, LETTER, DIGIT, ENTER, F1, LSHIFT, RSHIFT,
       LALT, LCTRL, CAPSLOCK, NUMLOCK, SCROLLLOCK, KP1, KPENTER, RCTRL, ALTGR, BREAK, END, PAUSE
  <2>4. PAUSE \in NR_KEYS
    BY DEF NR_KEYS
  <2>5. translate(byte, prev) \in
          {[prev |-> 0, key |-> c], [prev |-> 0, key |-> 0], [prev |-> 256, key |-> 0]}
        \/ (prev = 224 /\ c \notin {42, 54}
              /\ translate(byte, prev) = [prev |-> 0, key |-> e0_keys(c)])
        \/ (prev = 256 /\ translate(byte, prev) = [prev |-> 0, key |-> PAUSE])
    BY <2>1, Translated DEF Prefixes
  <2> QED BY <2>2, <2>3, <2>4, <2>5 DEF Prefixes
<1> QED BY <1>1, <1>2

Types == {"SHIFT", "LATIN", "LETTER", "META", "FN", "PAD", "ASCII", "SPEC", "CONS"}

\* The keys that mean the same under every map.
Common == {LSHIFT, RSHIFT, LCTRL, RCTRL, LALT, ALTGR, CAPSLOCK, BREAK, END, PAUSE}

\* What the proofs need of the symbol of a key in a map: a modifier means the
\* same everywhere, and no escaped key is a lock.
Agrees(sym, k) ==
  /\ sym[1] \in Types
  /\ sym[1] = "SHIFT" => sym = plain_map[k]
  /\ plain_map[k][1] = "SHIFT" => sym = plain_map[k]
  /\ Escaped(k) /\ sym[1] = "SPEC" => sym[2] \notin {"caps_toggle", "num"}
  /\ k = PAUSE => sym = <<"FN", "PAUSE">>

LEMMA CommonSymbols ==
  /\ Everywhere(LSHIFT) = <<"SHIFT", "SHIFT">> /\ Everywhere(RSHIFT) = <<"SHIFT", "SHIFT">>
  /\ Everywhere(LCTRL) = <<"SHIFT", "CTRL">> /\ Everywhere(RCTRL) = <<"SHIFT", "CTRL">>
  /\ Everywhere(LALT) = <<"SHIFT", "ALT">> /\ Everywhere(ALTGR) = <<"SHIFT", "ALTGR">>
  /\ Everywhere(CAPSLOCK) = <<"SPEC", "caps_toggle">>
  /\ Everywhere(BREAK) = <<"SPEC", "send_intr">>
  /\ Everywhere(END) = <<"FN", "SELECT">> /\ Everywhere(PAUSE) = <<"FN", "PAUSE">>
BY DEF Everywhere, LSHIFT, RSHIFT, LALT, LCTRL, CAPSLOCK, RCTRL, ALTGR, BREAK, END, PAUSE

\* The keys a map can give a meaning of its own.
LEMMA OtherKeys ==
  /\ NR_KEYS = Common \cup {LETTER, DIGIT, ENTER, F1, NUMLOCK, SCROLLLOCK, KP1, KPENTER}
  /\ \A k \in Common :
       k \notin {LETTER, DIGIT, ENTER, F1, NUMLOCK, SCROLLLOCK, KP1, KPENTER}
  /\ \A k \in {LETTER, DIGIT, ENTER, F1, NUMLOCK, SCROLLLOCK, KP1} : ~Escaped(k)
  /\ \A k \in {LSHIFT, RSHIFT, LALT, LCTRL, CAPSLOCK} : ~Escaped(k)
BY DEF NR_KEYS, Common, Escaped, SC_LIM, LETTER, DIGIT, ENTER, F1, LSHIFT, RSHIFT, LALT, LCTRL,
       CAPSLOCK, NUMLOCK, SCROLLLOCK, KP1, KPENTER, RCTRL, ALTGR, BREAK, END, PAUSE

\* A modifier key stands for one modifier, and only Ctrl and AltGr have escaped ones.
LEMMA ModifierOf ==
  ASSUME NEW k \in Common
  PROVE  /\ Everywhere(k)[1] \in {"SHIFT", "SPEC", "FN"}
         /\ Everywhere(k)[1] = "SHIFT" =>
              \E m \in Modifiers : /\ Everywhere(k) = <<"SHIFT", m>>
                                   /\ Escaped(k) => m \in {"CTRL", "ALTGR"}
         /\ Agrees(Everywhere(k), k) \/ Everywhere(k) # plain_map[k]
<1>1. Everywhere(k)[1] \in {"SHIFT", "SPEC", "FN"}
  BY CommonSymbols DEF Common
<1>2. Everywhere(k)[1] = "SHIFT" =>
        \E m \in Modifiers : /\ Everywhere(k) = <<"SHIFT", m>>
                             /\ Escaped(k) => m \in {"CTRL", "ALTGR"}
  BY CommonSymbols, OtherKeys DEF Common, Modifiers
<1>3. Everywhere(k)[1] = "SPEC" /\ Escaped(k) => k = BREAK
  BY CommonSymbols, OtherKeys DEF Common
<1> QED BY <1>1, <1>2, <1>3, CommonSymbols DEF Agrees, Types

\* A map that gives the common keys their symbol and no other key a modifier.
GoodMap(map) ==
  \A k \in NR_KEYS :
    /\ k \in Common => map[k] = Everywhere(k)
    /\ k \notin Common => map[k][1] \in Types \ {"SHIFT"}
    /\ k = KPENTER => map[k][1] # "SPEC"
    /\ map[k][1] = "LETTER" => k = LETTER
    /\ k = LETTER => map[k][1] # "ASCII"

LEMMA KeypadSymbols ==
  /\ Keypad(NUMLOCK) = <<"SPEC", "num">> /\ Keypad(KP1) = <<"PAD", "1">>
  /\ Keypad(KPENTER) = <<"PAD", "ENTER">> /\ Keypad(ENTER) = <<"SPEC", "enter">>
  /\ \A k \in Common : Keypad(k) = Everywhere(k)
BY DEF Keypad, NR_KEYS, Common, LETTER, DIGIT, ENTER, F1, LSHIFT, RSHIFT, LALT, LCTRL,
       CAPSLOCK, NUMLOCK, SCROLLLOCK, KP1, KPENTER, RCTRL, ALTGR, BREAK, END, PAUSE

\* A map is a good one when its own keys are.
LEMMA GoodMapFrom ==
  ASSUME NEW map,
         \A k \in Common : map[k] = Keypad(k),
         map[LETTER][1] \in Types \ {"SHIFT", "ASCII"},
         \A k \in {DIGIT, F1, SCROLLLOCK, ENTER, NUMLOCK, KP1} :
           map[k][1] \in Types \ {"SHIFT", "LETTER"},
         map[KPENTER][1] \in Types \ {"SHIFT", "SPEC", "LETTER"}
  PROVE  GoodMap(map)
<1> SUFFICES ASSUME NEW k \in NR_KEYS
             PROVE  /\ k \in Common => map[k] = Everywhere(k)
                    /\ k \notin Common => map[k][1] \in Types \ {"SHIFT"}
                    /\ k = KPENTER => map[k][1] # "SPEC"
                    /\ map[k][1] = "LETTER" => k = LETTER
                    /\ k = LETTER => map[k][1] # "ASCII"
  BY DEF GoodMap
<1>1. CASE k \in Common
  <2>1. map[k] = Everywhere(k) /\ map[k][1] \in {"SHIFT", "SPEC", "FN"}
    BY <1>1, KeypadSymbols, ModifierOf
  <2> QED BY <1>1, <2>1, OtherKeys
<1>2. CASE k = LETTER
  BY <1>2, OtherKeys DEF LETTER, KPENTER
<1>3. CASE k = KPENTER
  BY <1>3, OtherKeys DEF LETTER, KPENTER
<1>4. CASE k \in {DIGIT, F1, SCROLLLOCK, ENTER, NUMLOCK, KP1}
  <2>1. k # LETTER /\ k # KPENTER
    BY <1>4 DEF LETTER, KPENTER, DIGIT, F1, SCROLLLOCK, ENTER, NUMLOCK, KP1
  <2> QED BY <1>4, <2>1, OtherKeys
<1> QED BY <1>1, <1>2, <1>3, <1>4, OtherKeys

LEMMA PlainMapIsGood == GoodMap(plain_map)
<1>1. \A k \in Common : plain_map[k] = Keypad(k)
  BY DEF plain_map, NR_KEYS, Common, LETTER, DIGIT, ENTER, F1, LSHIFT, RSHIFT, LALT, LCTRL,
       CAPSLOCK, NUMLOCK, SCROLLLOCK, KP1, KPENTER, RCTRL, ALTGR, BREAK, END, PAUSE
<1>2. /\ plain_map[LETTER][1] \in Types \ {"SHIFT", "ASCII"}
      /\ \A k \in {DIGIT, F1, SCROLLLOCK, ENTER, NUMLOCK, KP1} :
           plain_map[k][1] \in Types \ {"SHIFT", "LETTER"}
      /\ plain_map[KPENTER][1] \in Types \ {"SHIFT", "SPEC", "LETTER"}
  BY KeypadSymbols DEF plain_map, HOLE, Types, NR_KEYS, Common, LETTER, DIGIT, ENTER, F1, LSHIFT,
     RSHIFT, LALT, LCTRL,
       CAPSLOCK, NUMLOCK, SCROLLLOCK, KP1, KPENTER, RCTRL, ALTGR, BREAK, END, PAUSE
<1> QED BY <1>1, <1>2, GoodMapFrom

LEMMA ShiftMapIsGood == GoodMap(shift_map)
<1>1. \A k \in Common : shift_map[k] = Keypad(k)
  BY DEF shift_map, NR_KEYS, Common, LETTER, DIGIT, ENTER, F1, LSHIFT, RSHIFT, LALT, LCTRL,
       CAPSLOCK, NUMLOCK, SCROLLLOCK, KP1, KPENTER, RCTRL, ALTGR, BREAK, END, PAUSE
<1>2. /\ shift_map[LETTER][1] \in Types \ {"SHIFT", "ASCII"}
      /\ \A k \in {DIGIT, F1, SCROLLLOCK, ENTER, NUMLOCK, KP1} :
           shift_map[k][1] \in Types \ {"SHIFT", "LETTER"}
      /\ shift_map[KPENTER][1] \in Types \ {"SHIFT", "SPEC", "LETTER"}
  BY KeypadSymbols DEF shift_map, HOLE, Types, NR_KEYS, Common, LETTER, DIGIT, ENTER, F1, LSHIFT,
     RSHIFT, LALT, LCTRL,
       CAPSLOCK, NUMLOCK, SCROLLLOCK, KP1, KPENTER, RCTRL, ALTGR, BREAK, END, PAUSE
<1> QED BY <1>1, <1>2, GoodMapFrom

LEMMA AltgrMapIsGood == GoodMap(altgr_map)
<1>1. \A k \in Common : altgr_map[k] = Keypad(k)
  BY DEF altgr_map, NR_KEYS, Common, LETTER, DIGIT, ENTER, F1, LSHIFT, RSHIFT, LALT, LCTRL,
       CAPSLOCK, NUMLOCK, SCROLLLOCK, KP1, KPENTER, RCTRL, ALTGR, BREAK, END, PAUSE
<1>2. /\ altgr_map[LETTER][1] \in Types \ {"SHIFT", "ASCII"}
      /\ \A k \in {DIGIT, F1, SCROLLLOCK, ENTER, NUMLOCK, KP1} :
           altgr_map[k][1] \in Types \ {"SHIFT", "LETTER"}
      /\ altgr_map[KPENTER][1] \in Types \ {"SHIFT", "SPEC", "LETTER"}
  BY KeypadSymbols DEF altgr_map, HOLE, Types, NR_KEYS, Common, LETTER, DIGIT, ENTER, F1, LSHIFT,
     RSHIFT, LALT, LCTRL,
       CAPSLOCK, NUMLOCK, SCROLLLOCK, KP1, KPENTER, RCTRL, ALTGR, BREAK, END, PAUSE
<1> QED BY <1>1, <1>2, GoodMapFrom

LEMMA CtrlMapIsGood == GoodMap(ctrl_map)
<1>1. \A k \in Common : ctrl_map[k] = Keypad(k)
  BY DEF ctrl_map, NR_KEYS, Common, LETTER, DIGIT, ENTER, F1, LSHIFT, RSHIFT, LALT, LCTRL,
       CAPSLOCK, NUMLOCK, SCROLLLOCK, KP1, KPENTER, RCTRL, ALTGR, BREAK, END, PAUSE
<1>2. /\ ctrl_map[LETTER][1] \in Types \ {"SHIFT", "ASCII"}
      /\ \A k \in {DIGIT, F1, SCROLLLOCK, ENTER, NUMLOCK, KP1} :
           ctrl_map[k][1] \in Types \ {"SHIFT", "LETTER"}
      /\ ctrl_map[KPENTER][1] \in Types \ {"SHIFT", "SPEC", "LETTER"}
  BY KeypadSymbols DEF ctrl_map, HOLE, Types, NR_KEYS, Common, LETTER, DIGIT, ENTER, F1, LSHIFT,
     RSHIFT, LALT, LCTRL,
       CAPSLOCK, NUMLOCK, SCROLLLOCK, KP1, KPENTER, RCTRL, ALTGR, BREAK, END, PAUSE
<1> QED BY <1>1, <1>2, GoodMapFrom

LEMMA AltgrCtrlMapIsGood == GoodMap(altgr_ctrl_map)
<1>1. \A k \in Common : altgr_ctrl_map[k] = Keypad(k)
  BY DEF altgr_ctrl_map, NR_KEYS, Common, LETTER, DIGIT, ENTER, F1, LSHIFT, RSHIFT, LALT, LCTRL,
       CAPSLOCK, NUMLOCK, SCROLLLOCK, KP1, KPENTER, RCTRL, ALTGR, BREAK, END, PAUSE
<1>2. /\ altgr_ctrl_map[LETTER][1] \in Types \ {"SHIFT", "ASCII"}
      /\ \A k \in {DIGIT, F1, SCROLLLOCK, ENTER, NUMLOCK, KP1} :
           altgr_ctrl_map[k][1] \in Types \ {"SHIFT", "LETTER"}
      /\ altgr_ctrl_map[KPENTER][1] \in Types \ {"SHIFT", "SPEC", "LETTER"}
  BY KeypadSymbols DEF altgr_ctrl_map, HOLE, Types, NR_KEYS, Common, LETTER, DIGIT, ENTER, F1,
     LSHIFT, RSHIFT, LALT, LCTRL,
       CAPSLOCK, NUMLOCK, SCROLLLOCK, KP1, KPENTER, RCTRL, ALTGR, BREAK, END, PAUSE
<1> QED BY <1>1, <1>2, GoodMapFrom

LEMMA AltMapIsGood == GoodMap(alt_map)
<1>1. \A k \in Common : alt_map[k] = Keypad(k)
  BY DEF alt_map, NR_KEYS, Common, LETTER, DIGIT, ENTER, F1, LSHIFT, RSHIFT, LALT, LCTRL,
       CAPSLOCK, NUMLOCK, SCROLLLOCK, KP1, KPENTER, RCTRL, ALTGR, BREAK, END, PAUSE
<1>2. /\ alt_map[LETTER][1] \in Types \ {"SHIFT", "ASCII"}
      /\ \A k \in {DIGIT, F1, SCROLLLOCK, ENTER, NUMLOCK, KP1} :
           alt_map[k][1] \in Types \ {"SHIFT", "LETTER"}
      /\ alt_map[KPENTER][1] \in Types \ {"SHIFT", "SPEC", "LETTER"}
  BY KeypadSymbols DEF alt_map, HOLE, Types, NR_KEYS, Common, LETTER, DIGIT, ENTER, F1, LSHIFT,
     RSHIFT, LALT, LCTRL,
       CAPSLOCK, NUMLOCK, SCROLLLOCK, KP1, KPENTER, RCTRL, ALTGR, BREAK, END, PAUSE
<1> QED BY <1>1, <1>2, GoodMapFrom

LEMMA CtrlAltMapIsGood == GoodMap(ctrl_alt_map)
<1>1. \A k \in Common : ctrl_alt_map[k] = Keypad(k)
  BY DEF ctrl_alt_map, NR_KEYS, Common, LETTER, DIGIT, ENTER, F1, LSHIFT, RSHIFT, LALT, LCTRL,
       CAPSLOCK, NUMLOCK, SCROLLLOCK, KP1, KPENTER, RCTRL, ALTGR, BREAK, END, PAUSE
<1>2. /\ ctrl_alt_map[LETTER][1] \in Types \ {"SHIFT", "ASCII"}
      /\ \A k \in {DIGIT, F1, SCROLLLOCK, ENTER, NUMLOCK, KP1} :
           ctrl_alt_map[k][1] \in Types \ {"SHIFT", "LETTER"}
      /\ ctrl_alt_map[KPENTER][1] \in Types \ {"SHIFT", "SPEC", "LETTER"}
  BY KeypadSymbols DEF ctrl_alt_map, HOLE, Types, NR_KEYS, Common, LETTER, DIGIT, ENTER, F1,
     LSHIFT, RSHIFT, LALT, LCTRL,
       CAPSLOCK, NUMLOCK, SCROLLLOCK, KP1, KPENTER, RCTRL, ALTGR, BREAK, END, PAUSE
<1> QED BY <1>1, <1>2, GoodMapFrom

LEMMA MapsAreGood ==
  ASSUME NEW mods \in Mapped
  PROVE  GoodMap(key_maps[mods])
<1>1. key_maps[mods] \in {plain_map, shift_map, altgr_map, ctrl_map, altgr_ctrl_map, alt_map,
                          ctrl_alt_map}
  BY DEF key_maps, Mapped
<1> QED
  BY <1>1, PlainMapIsGood, ShiftMapIsGood, AltgrMapIsGood, CtrlMapIsGood, AltgrCtrlMapIsGood,
     AltMapIsGood, CtrlAltMapIsGood

\* Every map agrees with the plain one on what is a modifier.
LEMMA MapsAgree ==
  ASSUME NEW mods \in Mapped, NEW k \in NR_KEYS
  PROVE  Agrees(key_maps[mods][k], k)
<1>1. GoodMap(key_maps[mods]) /\ GoodMap(plain_map)
  BY MapsAreGood, PlainMapIsGood
<1>2. CASE k \in Common
  BY <1>1, <1>2, ModifierOf DEF GoodMap
<1>3. CASE k \notin Common
  <2>1. k # PAUSE /\ (Escaped(k) => k = KPENTER)
    BY <1>3, OtherKeys DEF Common
  <2> QED BY <1>1, <1>3, <2>1 DEF GoodMap, Agrees, Types
<1> QED BY <1>2, <1>3

\* A modifier key stands for one modifier, and only Ctrl and AltGr have escaped ones.
LEMMA ShiftKey ==
  ASSUME NEW k \in NR_KEYS, ~Plain(k)
  PROVE  \E m \in Modifiers : /\ plain_map[k] = <<"SHIFT", m>>
                              /\ Escaped(k) => m \in {"CTRL", "ALTGR"}
<1>1. k \in Common /\ plain_map[k] = Everywhere(k) /\ Everywhere(k)[1] = "SHIFT"
  BY PlainMapIsGood DEF GoodMap, Plain, Types
<1> QED BY <1>1, ModifierOf

\* Only the maps of AltGr and Alt enter a character by its code.
LEMMA CodesUnderModifiers ==
  ASSUME NEW k \in NR_KEYS, key_maps[{}][k][1] = "ASCII"
  PROVE  FALSE
<1>1. {} \in Mapped /\ key_maps[{}] = plain_map
  BY DEF key_maps, Mapped
<1>2. plain_map[k][1] # "ASCII"
  <2>1. CASE k \in Common
    BY <2>1, PlainMapIsGood, ModifierOf DEF GoodMap
  <2>2. CASE k \notin Common
    <3>1. /\ plain_map[LETTER][1] # "ASCII" /\ plain_map[DIGIT][1] # "ASCII"
          /\ plain_map[F1][1] # "ASCII" /\ plain_map[SCROLLLOCK][1] # "ASCII"
          /\ plain_map[ENTER][1] # "ASCII" /\ plain_map[NUMLOCK][1] # "ASCII"
          /\ plain_map[KP1][1] # "ASCII" /\ plain_map[KPENTER][1] # "ASCII"
      BY KeypadSymbols DEF plain_map, NR_KEYS, Common, LETTER, DIGIT, ENTER, F1, LSHIFT, RSHIFT,
         LALT, LCTRL,
       CAPSLOCK, NUMLOCK, SCROLLLOCK, KP1, KPENTER, RCTRL, ALTGR, BREAK, END, PAUSE
    <3> QED BY <2>2, <3>1, OtherKeys
  <2> QED BY <2>1, <2>2
<1> QED BY <1>1, <1>2

-----------------------------------------------------------------------------
(* What the handlers do *)

Fields == {"prev_scancode", "key_down", "k_down", "shift_state", "npadch", "leds",
           "stopped", "ledstate", "lights", "out"}

\* The parts of the state only handle_scancode and the bottom half touch.
Elsewhere(s, t) ==
  /\ DOMAIN t = Fields /\ t.prev_scancode = s.prev_scancode
  /\ t.ledstate = s.ledstate /\ t.lights = s.lights

\* The modifiers are what the keys down make them.
Recounts(s, t) ==
  /\ t.k_down = [m \in Modifiers |-> Cardinality(KindsDown(t, m))]
  /\ t.shift_state = {m \in Modifiers : t.k_down[m] > 0}
  /\ t.npadch = s.npadch /\ t.leds = s.leds /\ t.out = s.out

\* A key of modifier m is counted, unless it repeats.
Shifts(s, t, m, release, rep) ==
  LET n == IF release THEN IF s.k_down[m] > 0 THEN s.k_down[m] - 1 ELSE 0
           ELSE s.k_down[m] + 1
  IN  /\ t.leds = s.leds
      /\ rep => /\ t.k_down = s.k_down /\ t.shift_state = s.shift_state
                /\ t.npadch = s.npadch /\ t.out = s.out
      /\ ~rep => /\ t.k_down = [s.k_down EXCEPT ![m] = n]
                 /\ t.shift_state = IF n > 0 THEN s.shift_state \cup {m}
                                    ELSE s.shift_state \ {m}
                 /\ IF release /\ t.shift_state # s.shift_state /\ s.npadch # NoCode
                    THEN t.npadch = NoCode
                    ELSE t.npadch = s.npadch /\ t.out = s.out

\* A key that is not a modifier acts when it is pressed.
Acts(s, t, key, release, rep) ==
  /\ t.k_down = s.k_down /\ t.shift_state = s.shift_state
  /\ t.npadch # s.npadch => s.shift_state # {}
  /\ release \/ key = PAUSE => t.npadch = s.npadch /\ t.out = s.out /\ t.leds = s.leds
  /\ t.leds # s.leds => ~rep /\ ~Escaped(key)

\* A key event.
Event(s, t, key, up) ==
  LET release == up /\ (key \in s.key_down \/ ~Escaped(key))
      rep == ~up /\ key \in s.key_down
  IN  /\ t.key_down = IF up THEN s.key_down \ {key} ELSE s.key_down \cup {key}
      /\ \/ (s.shift_state \notin Mapped \/ Plain(key)) /\ Recounts(s, t)
         \/ \E m \in Modifiers : /\ s.shift_state \in Mapped
                                 /\ plain_map[key] = <<"SHIFT", m>>
                                 /\ Shifts(s, t, m, release, rep)
         \/ s.shift_state \in Mapped /\ Plain(key) /\ Acts(s, t, key, release, rep)

LEMMA ComputeDoes ==
  ASSUME NEW s, DOMAIN s = Fields
  PROVE  LET t == compute_shiftstate(s) IN
         Elsewhere(s, t) /\ Recounts(s, t) /\ t.key_down = s.key_down
<1> DEFINE down == [m \in Modifiers |-> Cardinality(KindsDown(s, m))]
           t == compute_shiftstate(s)
<1>1. t = [s EXCEPT !.k_down = down, !.shift_state = {m \in Modifiers : down[m] > 0}]
  BY DEF compute_shiftstate
<1> HIDE DEF t, down
<1>2. /\ DOMAIN t = Fields /\ t.prev_scancode = s.prev_scancode /\ t.key_down = s.key_down
      /\ t.ledstate = s.ledstate /\ t.lights = s.lights
      /\ t.npadch = s.npadch /\ t.leds = s.leds /\ t.out = s.out
      /\ t.k_down = down /\ t.shift_state = {m \in Modifiers : down[m] > 0}
  BY <1>1 DEF Fields
<1>3. \A m : KindsDown(t, m) = KindsDown(s, m)
  BY <1>2 DEF KindsDown
<1>4. down = [m \in Modifiers |-> Cardinality(KindsDown(t, m))]
  BY <1>3 DEF down
<1> QED BY <1>2, <1>4 DEF Elsewhere, Recounts, t

LEMMA ShiftDoes ==
  ASSUME NEW s, DOMAIN s = Fields, NEW m, NEW release \in BOOLEAN, NEW rep \in BOOLEAN
  PROVE  LET t == do_shift(s, m, release, rep) IN
         Elsewhere(s, t) /\ Shifts(s, t, m, release, rep) /\ t.key_down = s.key_down
<1> DEFINE n == IF release THEN IF s.k_down[m] > 0 THEN s.k_down[m] - 1 ELSE 0
                ELSE s.k_down[m] + 1
           mods == IF n > 0 THEN s.shift_state \cup {m} ELSE s.shift_state \ {m}
           moved == [s EXCEPT !.k_down[m] = n, !.shift_state = mods]
           t == do_shift(s, m, release, rep)
<1>1. CASE rep
  <2>1. t = s
    BY <1>1 DEF do_shift
  <2> QED BY <1>1, <2>1 DEF Elsewhere, Shifts
<1>2. CASE ~rep /\ release /\ mods # s.shift_state /\ s.npadch # NoCode
  <2>1. t = put_code(moved)
    BY <1>2 DEF do_shift
  <2> HIDE DEF n, mods, t
  <2>2. /\ DOMAIN moved = Fields /\ moved.prev_scancode = s.prev_scancode
        /\ moved.key_down = s.key_down /\ moved.ledstate = s.ledstate
        /\ moved.lights = s.lights /\ moved.leds = s.leds
        /\ moved.k_down = [s.k_down EXCEPT ![m] = n] /\ moved.shift_state = mods
    BY DEF Fields
  <2> HIDE DEF moved
  <2>3. /\ DOMAIN t = Fields /\ t.prev_scancode = moved.prev_scancode
        /\ t.key_down = moved.key_down /\ t.ledstate = moved.ledstate
        /\ t.lights = moved.lights /\ t.leds = moved.leds
        /\ t.k_down = moved.k_down /\ t.shift_state = moved.shift_state
        /\ t.npadch = NoCode
    BY <2>1, <2>2 DEF put_code, Fields
  <2> QED BY <1>2, <2>2, <2>3 DEF Elsewhere, Shifts, n, mods, t
<1>3. CASE ~rep /\ ~(release /\ mods # s.shift_state /\ s.npadch # NoCode)
  <2>1. t = moved
    BY <1>3 DEF do_shift
  <2> HIDE DEF n, mods, t
  <2>2. /\ DOMAIN moved = Fields /\ moved.prev_scancode = s.prev_scancode
        /\ moved.key_down = s.key_down /\ moved.ledstate = s.ledstate
        /\ moved.lights = s.lights /\ moved.leds = s.leds
        /\ moved.npadch = s.npadch /\ moved.out = s.out
        /\ moved.k_down = [s.k_down EXCEPT ![m] = n] /\ moved.shift_state = mods
    BY DEF Fields
  <2> HIDE DEF moved
  <2> QED BY <1>3, <2>1, <2>2 DEF Elsewhere, Shifts, n, mods, t
<1> QED BY <1>1, <1>2, <1>3

\* The fields a handler of a pressed key leaves alone.
Kept(s, t) ==
  /\ Elsewhere(s, t) /\ t.key_down = s.key_down
  /\ t.k_down = s.k_down /\ t.shift_state = s.shift_state

LEMMA HandlersDo ==
  ASSUME NEW s, DOMAIN s = Fields
  PROVE  /\ \A c : LET t == put_queue(s, c) IN
              Kept(s, t) /\ t.npadch = s.npadch /\ t.leds = s.leds
         /\ \A c : LET t == do_meta(s, c) IN
              Kept(s, t) /\ t.npadch = s.npadch /\ t.leds = s.leds
         /\ \A f : LET t == do_fn(s, f) IN
              Kept(s, t) /\ t.npadch = s.npadch /\ t.leds = s.leds
         /\ \A k : LET t == do_pad(s, k) IN
              Kept(s, t) /\ t.npadch = s.npadch /\ t.leds = s.leds
         /\ \A v : LET t == do_ascii(s, v) IN Kept(s, t) /\ t.leds = s.leds
         /\ \A led, rep : LET t == chg_vc_kbd_led(s, led, rep) IN
              Kept(s, t) /\ t.npadch = s.npadch /\ (rep => t.leds = s.leds)
         /\ \A rep : LET t == hold(s, rep) IN
              Kept(s, t) /\ t.npadch = s.npadch /\ t.leds = s.leds
<1>1. ASSUME NEW u, DOMAIN u = Fields, NEW c
      PROVE  LET t == put_queue(u, c) IN
             Kept(u, t) /\ t.npadch = u.npadch /\ t.leds = u.leds
  BY <1>1 DEF put_queue, Kept, Elsewhere, Fields
<1>2. ASSUME NEW c
      PROVE  LET t == do_meta(s, c) IN
             Kept(s, t) /\ t.npadch = s.npadch /\ t.leds = s.leds
  <2> DEFINE u == put_queue(s, "ESC")
             t == put_queue(u, c)
  <2>1. Kept(s, u) /\ u.npadch = s.npadch /\ u.leds = s.leds /\ DOMAIN u = Fields
    BY <1>1 DEF Kept, Elsewhere
  <2> HIDE DEF u
  <2>2. Kept(u, t) /\ t.npadch = u.npadch /\ t.leds = u.leds
    BY <1>1, <2>1
  <2>3. do_meta(s, c) = t
    BY DEF do_meta, u
  <2> HIDE DEF t
  <2> QED BY <2>1, <2>2, <2>3 DEF Kept, Elsewhere
<1>3. ASSUME NEW f
      PROVE  LET t == do_fn(s, f) IN
             Kept(s, t) /\ t.npadch = s.npadch /\ t.leds = s.leds
  <2>1. CASE f \in func_table
    BY <1>1, <2>1 DEF do_fn
  <2>2. CASE f \notin func_table
    BY <2>2 DEF do_fn, Kept, Elsewhere
  <2> QED BY <2>1, <2>2
<1>4. ASSUME NEW k
      PROVE  LET t == do_pad(s, k) IN
             Kept(s, t) /\ t.npadch = s.npadch /\ t.leds = s.leds
  BY <1>1, <1>3 DEF do_pad
<1>5. ASSUME NEW v
      PROVE  LET t == do_ascii(s, v) IN Kept(s, t) /\ t.leds = s.leds
  <2> DEFINE digit == IF v < 10 THEN v ELSE v - 10
             base == IF v < 10 THEN 10 ELSE 16
             n == IF s.npadch = NoCode THEN digit ELSE (s.npadch * base + digit) % IntSize
  <2>1. do_ascii(s, v) = [s EXCEPT !.npadch = n]
    BY DEF do_ascii
  <2> HIDE DEF n
  <2> QED BY <2>1 DEF Kept, Elsewhere, Fields
<1>6. ASSUME NEW led, NEW rep
      PROVE  LET t == chg_vc_kbd_led(s, led, rep) IN
             Kept(s, t) /\ t.npadch = s.npadch /\ (rep => t.leds = s.leds)
  BY DEF chg_vc_kbd_led, Kept, Elsewhere, Fields
<1>7. ASSUME NEW rep
      PROVE  LET t == hold(s, rep) IN
             Kept(s, t) /\ t.npadch = s.npadch /\ t.leds = s.leds
  BY DEF hold, Kept, Elsewhere, Fields
<1> QED BY <1>1, <1>2, <1>3, <1>4, <1>5, <1>6, <1>7

\* The symbol of a key, with CapsLock on or off.
LEMMA KeysymAgrees ==
  ASSUME NEW s, s.shift_state \in Mapped, NEW key \in NR_KEYS
  PROVE  /\ Agrees(Keysym(s, key), key)
         /\ Keysym(s, key)[1] = "ASCII" => s.shift_state # {}
<1> DEFINE other == Toggle(s.shift_state, "SHIFT")
           sym == key_maps[s.shift_state][key]
<1>1. DOMAIN key_maps = Mapped
  BY DEF key_maps
<1>2. CASE sym[1] = "LETTER" /\ "CAPS" \in s.leds /\ other \in Mapped
  <2>1. Keysym(s, key) = key_maps[other][key]
    BY <1>1, <1>2 DEF Keysym
  <2>2. GoodMap(key_maps[s.shift_state]) /\ GoodMap(key_maps[other])
    BY <1>2, MapsAreGood
  <2>3. key = LETTER
    BY <1>2, <2>2 DEF GoodMap
  <2>4. key_maps[other][key][1] # "ASCII"
    BY <2>2, <2>3 DEF GoodMap
  <2> QED BY <1>2, <2>1, <2>4, MapsAgree
<1>3. CASE ~(sym[1] = "LETTER" /\ "CAPS" \in s.leds /\ other \in Mapped)
  <2>1. Keysym(s, key) = sym
    BY <1>1, <1>3 DEF Keysym
  <2> QED BY <2>1, MapsAgree, CodesUnderModifiers
<1> QED BY <1>2, <1>3

LEMMA SpecDoes ==
  ASSUME NEW s, DOMAIN s = Fields, NEW f, NEW rep \in BOOLEAN
  PROVE  LET t == do_spec(s, f, rep) IN
         /\ Elsewhere(s, t) /\ t.key_down = s.key_down
         /\ \/ Recounts(s, t)
            \/ /\ Kept(s, t) /\ t.npadch = s.npadch
               /\ t.leds # s.leds => f \in {"caps_toggle", "num"} /\ ~rep
<1>1. CASE f = "do_null"
  BY <1>1, ComputeDoes DEF do_spec
<1>2. CASE f = "enter"
  <2>1. do_spec(s, f, rep) = put_queue(s, "\r")
    BY <1>2 DEF do_spec
  <2> QED BY <2>1, HandlersDo DEF Kept
<1>3. CASE f = "caps_toggle"
  <2>1. do_spec(s, f, rep) = chg_vc_kbd_led(s, "CAPS", rep)
    BY <1>3 DEF do_spec
  <2> QED BY <1>3, <2>1, HandlersDo DEF Kept
<1>4. CASE f = "num"
  <2>1. do_spec(s, f, rep) = chg_vc_kbd_led(s, "NUM", rep)
    BY <1>4 DEF do_spec
  <2> QED BY <1>4, <2>1, HandlersDo DEF Kept
<1>5. CASE f = "hold"
  <2>1. do_spec(s, f, rep) = hold(s, rep)
    BY <1>5 DEF do_spec
  <2> QED BY <2>1, HandlersDo DEF Kept
<1>6. CASE f \notin {"do_null", "enter", "caps_toggle", "num", "hold"}
  <2>1. do_spec(s, f, rep) = s
    BY <1>6 DEF do_spec
  <2> QED BY <2>1 DEF Kept, Elsewhere
<1> QED BY <1>1, <1>2, <1>3, <1>4, <1>5, <1>6

LEMMA HandlerDoes ==
  ASSUME NEW s, DOMAIN s = Fields, NEW key \in NR_KEYS, NEW sym, Agrees(sym, key),
         NEW release \in BOOLEAN, NEW rep \in BOOLEAN,
         sym[1] = "ASCII" => s.shift_state # {}
  PROVE  LET t == key_handler(s, sym, release, rep) IN
         /\ Elsewhere(s, t) /\ t.key_down = s.key_down
         /\ \/ Plain(key) /\ Recounts(s, t)
            \/ \E m \in Modifiers : /\ plain_map[key] = <<"SHIFT", m>>
                                    /\ Shifts(s, t, m, release, rep)
            \/ Plain(key) /\ Acts(s, t, key, release, rep)
<1> DEFINE t == key_handler(s, sym, release, rep)
<1>1. /\ sym[1] \in Types /\ (sym[1] = "SHIFT" => sym = plain_map[key])
      /\ (Plain(key) <=> sym[1] # "SHIFT") /\ (key = PAUSE => sym = <<"FN", "PAUSE">>)
      /\ (Escaped(key) /\ sym[1] = "SPEC" => sym[2] \notin {"caps_toggle", "num"})
  BY DEF Agrees, Plain
<1>2. CASE sym[1] = "SHIFT"
  <2>1. PICK m \in Modifiers : plain_map[key] = <<"SHIFT", m>>
    BY <1>1, <1>2, ShiftKey
  <2>2. t = do_shift(s, m, release, rep)
    BY <1>1, <1>2, <2>1 DEF key_handler
  <2> QED BY <2>1, <2>2, ShiftDoes
<1>3. CASE sym[1] # "SHIFT" /\ release
  <2>1. t = s
    BY <1>3 DEF key_handler
  <2> QED BY <1>1, <1>3, <2>1 DEF Elsewhere, Acts
<1>4. CASE sym[1] = "SPEC" /\ ~release
  <2>1. t = do_spec(s, sym[2], rep)
    BY <1>4 DEF key_handler
  <2>2. key # PAUSE
    BY <1>1, <1>4
  <2> QED BY <1>1, <1>4, <2>1, <2>2, SpecDoes DEF Acts, Kept
<1>5. CASE key = PAUSE /\ ~release
  <2>1. t = s
    <3>1. sym[1] = "FN" /\ sym[2] = "PAUSE"
      BY <1>1, <1>5
    <3>2. t = do_fn(s, sym[2])
      BY <1>5, <3>1 DEF key_handler
    <3> QED BY <3>1, <3>2 DEF do_fn, func_table
  <2>2. sym[1] # "SHIFT"
    BY <1>1, <1>5
  <2> QED BY <1>1, <1>5, <2>1, <2>2 DEF Elsewhere, Acts
<1>6. CASE sym[1] \in {"LATIN", "LETTER", "META", "FN", "PAD", "ASCII", "CONS"} /\ ~release
           /\ key # PAUSE
  <2>1. t \in {put_queue(s, sym[2]), do_meta(s, sym[2]), do_fn(s, sym[2]), do_pad(s, sym[2]), s}
        \/ (sym[1] = "ASCII" /\ t = do_ascii(s, sym[2]))
    <3>1. CASE sym[1] \in {"LATIN", "LETTER"}
      BY <1>6, <3>1 DEF key_handler, do_self
    <3>2. CASE sym[1] = "META"
      BY <1>6, <3>2 DEF key_handler
    <3>3. CASE sym[1] = "FN"
      BY <1>6, <3>3 DEF key_handler
    <3>4. CASE sym[1] = "PAD"
      BY <1>6, <3>4 DEF key_handler
    <3>5. CASE sym[1] = "ASCII"
      BY <1>6, <3>5 DEF key_handler
    <3>6. CASE sym[1] = "CONS"
      BY <1>6, <3>6 DEF key_handler
    <3> QED BY <1>6, <3>1, <3>2, <3>3, <3>4, <3>5, <3>6
  <2>2. Kept(s, t) /\ t.leds = s.leds /\ (t.npadch # s.npadch => sym[1] = "ASCII")
    <3>1. Kept(s, s)
      BY DEF Kept, Elsewhere
    <3> HIDE DEF t
    <3> QED BY <2>1, <3>1, HandlersDo
  <2> HIDE DEF t
  <2>3. Acts(s, t, key, release, rep) /\ Elsewhere(s, t) /\ t.key_down = s.key_down
    BY <1>6, <2>2 DEF Kept, Acts
  <2>4. Plain(key)
    BY <1>1, <1>6
  <2> QED BY <2>3, <2>4 DEF t
<1> QED BY <1>1, <1>2, <1>3, <1>4, <1>5, <1>6 DEF Types

LEMMA KeyEventDoes ==
  ASSUME NEW s, DOMAIN s = Fields, NEW key \in NR_KEYS, NEW up \in BOOLEAN
  PROVE  Elsewhere(s, key_event(s, key, up)) /\ Event(s, key_event(s, key, up), key, up)
<1> DEFINE down == key \in s.key_down
           t == [s EXCEPT !.key_down = IF up THEN s.key_down \ {key} ELSE s.key_down \cup {key}]
           release == up /\ (down \/ unexpected_up(key))
           rep == ~up /\ down
           u == key_event(s, key, up)
<1>1. /\ DOMAIN t = Fields
      /\ t.key_down = IF up THEN s.key_down \ {key} ELSE s.key_down \cup {key}
      /\ t.prev_scancode = s.prev_scancode /\ t.ledstate = s.ledstate /\ t.lights = s.lights
      /\ t.k_down = s.k_down /\ t.shift_state = s.shift_state /\ t.npadch = s.npadch
      /\ t.leds = s.leds /\ t.out = s.out
  BY DEF Fields
<1>2. DOMAIN key_maps = Mapped
  BY DEF key_maps
<1>3. release \in BOOLEAN /\ rep \in BOOLEAN
      /\ (release <=> up /\ (key \in s.key_down \/ ~Escaped(key)))
  BY EscapedKeys
<1>4. u = IF s.shift_state \in DOMAIN key_maps
          THEN key_handler(t, Keysym(s, key), release, rep) ELSE compute_shiftstate(t)
  BY DEF key_event
<1> HIDE DEF t, release, rep, u
<1>5. CASE s.shift_state \notin Mapped
  <2>1. Elsewhere(t, u) /\ Recounts(t, u) /\ u.key_down = t.key_down
    BY <1>1, <1>2, <1>4, <1>5, ComputeDoes
  <2> QED BY <1>1, <1>5, <2>1 DEF Elsewhere, Recounts, Event, u
<1>6. CASE s.shift_state \in Mapped
  <2> DEFINE sym == Keysym(s, key)
  <2>1. Agrees(sym, key) /\ (sym[1] = "ASCII" => t.shift_state # {})
    BY <1>1, <1>6, KeysymAgrees
  <2>2. u = key_handler(t, sym, release, rep)
    BY <1>2, <1>4, <1>6
  <2> HIDE DEF sym
  <2>3. /\ Elsewhere(t, u) /\ u.key_down = t.key_down
        /\ \/ Plain(key) /\ Recounts(t, u)
           \/ \E m \in Modifiers : /\ plain_map[key] = <<"SHIFT", m>>
                                   /\ Shifts(t, u, m, release, rep)
           \/ Plain(key) /\ Acts(t, u, key, release, rep)
    BY <1>1, <1>3, <2>1, <2>2, HandlerDoes
  <2>4. Elsewhere(s, u)
    BY <1>1, <2>3 DEF Elsewhere
  <2>5. Recounts(t, u) => Recounts(s, u)
    BY <1>1 DEF Recounts
  <2>6. \A m : Shifts(t, u, m, release, rep) => Shifts(s, u, m, release, rep)
    BY <1>1 DEF Shifts
  <2>7. Acts(t, u, key, release, rep) => Acts(s, u, key, release, rep)
    BY <1>1 DEF Acts
  <2>8. u.key_down = IF up THEN s.key_down \ {key} ELSE s.key_down \cup {key}
    BY <1>1, <2>3
  <2>9. \/ Plain(key) /\ Recounts(s, u)
        \/ \E m \in Modifiers : /\ plain_map[key] = <<"SHIFT", m>>
                                /\ Shifts(s, u, m, release, rep)
        \/ Plain(key) /\ Acts(s, u, key, release, rep)
    BY <2>3, <2>5, <2>6, <2>7
  <2>10. release = (up /\ (key \in s.key_down \/ ~Escaped(key)))
    BY <1>3
  <2> QED BY <1>6, <2>4, <2>8, <2>9, <2>10 DEF Event, u, rep
<1> QED BY <1>5, <1>6

\* The states agree on what the keys change.
Same(s, t) ==
  /\ t.key_down = s.key_down /\ t.k_down = s.k_down /\ t.shift_state = s.shift_state
  /\ t.npadch = s.npadch /\ t.leds = s.leds /\ t.out = s.out

LEMMA EventOfSame ==
  ASSUME NEW s, NEW s1, NEW t1, NEW t, NEW key, NEW up,
         Same(s, s1), Event(s1, t1, key, up), Same(t1, t)
  PROVE  Event(s, t, key, up)
<1>1. /\ s1.key_down = s.key_down /\ s1.k_down = s.k_down /\ s1.shift_state = s.shift_state
      /\ s1.npadch = s.npadch /\ s1.leds = s.leds /\ s1.out = s.out
      /\ t.key_down = t1.key_down /\ t.k_down = t1.k_down /\ t.shift_state = t1.shift_state
      /\ t.npadch = t1.npadch /\ t.leds = t1.leds /\ t.out = t1.out
  BY DEF Same
<1>2. \A m : KindsDown(t, m) = KindsDown(t1, m)
  BY <1>1 DEF KindsDown
<1>3. Recounts(s1, t1) => Recounts(s, t)
  <2> SUFFICES ASSUME Recounts(s1, t1) PROVE Recounts(s, t)
    OBVIOUS
  <2>1. [m \in Modifiers |-> Cardinality(KindsDown(t, m))] =
          [m \in Modifiers |-> Cardinality(KindsDown(t1, m))]
    BY <1>2
  <2> QED BY <1>1, <2>1 DEF Recounts
<1>4. \A m, release, rep : Shifts(s1, t1, m, release, rep) => Shifts(s, t, m, release, rep)
  BY <1>1 DEF Shifts
<1>5. \A release, rep : Acts(s1, t1, key, release, rep) => Acts(s, t, key, release, rep)
  BY <1>1 DEF Acts
<1> DEFINE release == up /\ (key \in s.key_down \/ ~Escaped(key))
           rep == ~up /\ key \in s.key_down
<1>6. /\ t1.key_down = IF up THEN s.key_down \ {key} ELSE s.key_down \cup {key}
      /\ \/ (s.shift_state \notin Mapped \/ Plain(key)) /\ Recounts(s1, t1)
         \/ \E m \in Modifiers : /\ s.shift_state \in Mapped
                                 /\ plain_map[key] = <<"SHIFT", m>>
                                 /\ Shifts(s1, t1, m, release, rep)
         \/ s.shift_state \in Mapped /\ Plain(key) /\ Acts(s1, t1, key, release, rep)
  BY <1>1 DEF Event
<1> HIDE DEF release, rep
<1>7. /\ t.key_down = IF up THEN s.key_down \ {key} ELSE s.key_down \cup {key}
      /\ \/ (s.shift_state \notin Mapped \/ Plain(key)) /\ Recounts(s, t)
         \/ \E m \in Modifiers : /\ s.shift_state \in Mapped
                                 /\ plain_map[key] = <<"SHIFT", m>>
                                 /\ Shifts(s, t, m, release, rep)
         \/ s.shift_state \in Mapped /\ Plain(key) /\ Acts(s, t, key, release, rep)
  BY <1>1, <1>3, <1>4, <1>5, <1>6
<1> QED BY <1>7 DEF Event, release, rep

LEMMA BottomHalfDoes ==
  ASSUME NEW s, DOMAIN s = Fields
  PROVE  LET u == kbd_bh(s) IN
         /\ DOMAIN u = Fields /\ u.prev_scancode = s.prev_scancode /\ Same(s, u)
         /\ s.lights = s.ledstate => u.lights = u.leds /\ u.ledstate = u.leds
BY DEF kbd_bh, Same, Fields

\* What a byte does to the driver.
LEMMA ByteDoes ==
  ASSUME NEW s, DOMAIN s = Fields, s.lights = s.ledstate, s.prev_scancode \in Prefixes,
         NEW byte \in Bytes
  PROVE  LET u == do_scancode(s, byte)
             read == translate(byte, s.prev_scancode)
         IN  /\ DOMAIN u = Fields /\ u.prev_scancode = read.prev
             /\ u.lights = u.leds /\ u.ledstate = u.leds
             /\ read.key = 0 => Same(s, u)
             /\ read.key # 0 => Event(s, u, read.key, byte >= 128)
<1> DEFINE started == IF s.ledstate = Unknown THEN kbd_bh(s) ELSE s
           read == translate(byte, s.prev_scancode)
           t == [started EXCEPT !.prev_scancode = read.prev]
           h == handle_scancode(started, byte)
           u == do_scancode(s, byte)
<1>1. /\ DOMAIN started = Fields /\ started.prev_scancode = s.prev_scancode
      /\ Same(s, started) /\ started.lights = started.ledstate
  <2>1. CASE s.ledstate = Unknown
    BY <2>1, BottomHalfDoes
  <2>2. CASE s.ledstate # Unknown
    BY <2>2 DEF Same
  <2> QED BY <2>1, <2>2
<1>2. byte \notin {0, 255}
  BY DEF Bytes, Codes
<1>3. u = kbd_bh(h)
  BY <1>2 DEF do_scancode
<1>4. h = IF read.key = 0 THEN t ELSE key_event(t, read.key, byte >= 128)
  BY <1>1 DEF handle_scancode
<1> HIDE DEF started, read, h, u
<1>5. /\ DOMAIN t = Fields /\ t.prev_scancode = read.prev /\ Same(s, t)
      /\ t.lights = t.ledstate
  BY <1>1 DEF Fields, Same
<1> HIDE DEF t
<1>6. CASE read.key = 0
  BY <1>3, <1>4, <1>5, <1>6, BottomHalfDoes DEF Same, u, read
<1>7. CASE read.key # 0
  <2> DEFINE up == byte >= 128
  <2>1. read.key \in NR_KEYS /\ up \in BOOLEAN
    BY <1>7, TranslatedKey DEF read
  <2> HIDE DEF up
  <2>2. Elsewhere(t, h) /\ Event(t, h, read.key, up)
    BY <1>4, <1>5, <1>7, <2>1, KeyEventDoes DEF up
  <2>3. /\ DOMAIN h = Fields /\ h.prev_scancode = read.prev /\ h.lights = h.ledstate
    BY <1>5, <2>2 DEF Elsewhere
  <2>4. /\ DOMAIN u = Fields /\ u.prev_scancode = read.prev /\ Same(h, u)
        /\ u.lights = u.leds /\ u.ledstate = u.leds
    BY <1>3, <2>3, BottomHalfDoes
  <2>5. Event(s, u, read.key, up)
    BY <1>5, <2>2, <2>4, EventOfSame
  <2> QED BY <1>7, <2>4, <2>5 DEF up, u, read
<1> QED BY <1>6, <1>7

-----------------------------------------------------------------------------
(* The counts of the modifiers *)

\* The counts are exact when no byte was lost; Shift and Alt never count too many.
Counted(s, exact) ==
  /\ s.key_down \subseteq NR_KEYS /\ s.k_down \in [Modifiers -> Nat]
  /\ s.shift_state \subseteq Modifiers
  /\ \A m \in Modifiers :
       /\ m \in s.shift_state <=> s.k_down[m] > 0
       /\ m \notin {"CTRL", "ALTGR"} => s.k_down[m] <= Cardinality(KindsDown(s, m))
       /\ exact => s.k_down[m] = Cardinality(KindsDown(s, m))

LEMMA KindsAreFinite ==
  ASSUME NEW s, s.key_down \subseteq NR_KEYS, NEW m
  PROVE  IsFiniteSet(KindsDown(s, m)) /\ Cardinality(KindsDown(s, m)) \in Nat
<1>1. IsFiniteSet(1..119)
  <2>1. 1 \in Int /\ 119 \in Int
    OBVIOUS
  <2> QED BY <2>1, FS_Interval, Zenon
<1>2. KindsDown(s, m) \subseteq 1..119
  BY DEF KindsDown, NR_KEYS, LETTER, DIGIT, ENTER, F1, LSHIFT, RSHIFT, LALT, LCTRL, CAPSLOCK,
       NUMLOCK, SCROLLLOCK, KP1, KPENTER, RCTRL, ALTGR, BREAK, END, PAUSE
<1> QED BY <1>1, <1>2, FS_Subset, FS_CardinalityType

\* One key more or less is one more or less of its modifier.
LEMMA OneMore ==
  ASSUME NEW s, NEW t, NEW key, NEW m, s.key_down \subseteq NR_KEYS,
         plain_map[key] = <<"SHIFT", m>>, key \notin s.key_down,
         t.key_down = s.key_down \cup {key}
  PROVE  Cardinality(KindsDown(t, m)) = Cardinality(KindsDown(s, m)) + 1
<1>1. KindsDown(t, m) = KindsDown(s, m) \cup {key} /\ key \notin KindsDown(s, m)
  BY DEF KindsDown
<1> QED BY <1>1, KindsAreFinite, FS_AddElement

LEMMA OneLess ==
  ASSUME NEW s, NEW t, NEW key, NEW m, s.key_down \subseteq NR_KEYS,
         plain_map[key] = <<"SHIFT", m>>, key \in s.key_down,
         t.key_down = s.key_down \ {key}
  PROVE  Cardinality(KindsDown(t, m)) = Cardinality(KindsDown(s, m)) - 1
<1>1. KindsDown(t, m) = KindsDown(s, m) \ {key} /\ key \in KindsDown(s, m)
  BY DEF KindsDown
<1> QED BY <1>1, KindsAreFinite, FS_RemoveElement

\* The key goes up or down, and the driver takes this for a release or a repetition.
Moved(s, t, key, up, release, rep) ==
  /\ t.key_down = IF up THEN s.key_down \ {key} ELSE s.key_down \cup {key}
  /\ release <=> up /\ (key \in s.key_down \/ ~Escaped(key))
  /\ rep <=> ~up /\ key \in s.key_down

\* A modifier is counted once for each of its keys.
LEMMA ShiftCounts ==
  ASSUME NEW s, NEW t, NEW exact \in BOOLEAN, NEW key \in NR_KEYS, NEW up \in BOOLEAN,
         NEW m \in Modifiers, plain_map[key] = <<"SHIFT", m>>, Counted(s, exact),
         exact /\ up => key \in s.key_down,
         NEW release \in BOOLEAN, NEW rep \in BOOLEAN, Moved(s, t, key, up, release, rep),
         Shifts(s, t, m, release, rep)
  PROVE  Counted(t, exact)
<1>0. /\ t.key_down = IF up THEN s.key_down \ {key} ELSE s.key_down \cup {key}
      /\ release <=> up /\ (key \in s.key_down \/ ~Escaped(key))
      /\ rep <=> ~up /\ key \in s.key_down
  BY DEF Moved
<1> DEFINE n == IF release THEN IF s.k_down[m] > 0 THEN s.k_down[m] - 1 ELSE 0
                ELSE s.k_down[m] + 1
           Card(u, x) == Cardinality(KindsDown(u, x))
<1>1. /\ s.key_down \subseteq NR_KEYS /\ s.k_down \in [Modifiers -> Nat]
      /\ s.shift_state \subseteq Modifiers /\ t.key_down \subseteq NR_KEYS
      /\ \A x \in Modifiers : /\ x \in s.shift_state <=> s.k_down[x] > 0
                              /\ x \notin {"CTRL", "ALTGR"} => s.k_down[x] <= Card(s, x)
                              /\ exact => s.k_down[x] = Card(s, x)
                              /\ Card(s, x) \in Nat
  BY <1>0, KindsAreFinite DEF Counted
<1>2. \A x \in Modifiers : x # m => Card(t, x) = Card(s, x)
  <2> SUFFICES ASSUME NEW x \in Modifiers, x # m PROVE Card(t, x) = Card(s, x)
    OBVIOUS
  <2>1. plain_map[key] # <<"SHIFT", x>>
    OBVIOUS
  <2>2. t.key_down \in {s.key_down \cup {key}, s.key_down \ {key}}
    BY <1>0
  <2>3. KindsDown(t, x) = KindsDown(s, x)
    BY <2>1, <2>2 DEF KindsDown
  <2> QED BY <2>3
<1>3. Escaped(key) => m \in {"CTRL", "ALTGR"}
  <2>1. ~Plain(key)
    BY DEF Plain
  <2>2. PICK x \in Modifiers : plain_map[key] = <<"SHIFT", x>>
                               /\ (Escaped(key) => x \in {"CTRL", "ALTGR"})
    BY <2>1, ShiftKey
  <2> QED BY <2>2
<1>4. /\ key \notin s.key_down /\ ~up => Card(t, m) = Card(s, m) + 1
      /\ key \in s.key_down /\ up => Card(t, m) = Card(s, m) - 1
      /\ t.key_down = s.key_down => Card(t, m) = Card(s, m)
  <2>1. ASSUME key \notin s.key_down, ~up PROVE Card(t, m) = Card(s, m) + 1
    BY <1>0, <1>1, <2>1, OneMore
  <2>2. ASSUME key \in s.key_down, up PROVE Card(t, m) = Card(s, m) - 1
    BY <1>0, <1>1, <2>2, OneLess
  <2>3. ASSUME t.key_down = s.key_down PROVE Card(t, m) = Card(s, m)
    <3>1. KindsDown(t, m) = KindsDown(s, m)
      BY <2>3 DEF KindsDown
    <3> QED BY <3>1
  <2> QED BY <2>1, <2>2, <2>3
<1> HIDE DEF Card
<1>5. CASE rep
  <2>1. t.key_down = s.key_down
    BY <1>0, <1>5
  <2>2. t.k_down = s.k_down /\ t.shift_state = s.shift_state
    BY <1>5 DEF Shifts
  <2> QED BY <1>1, <1>2, <1>4, <2>1, <2>2 DEF Counted, Card
<1>6. CASE ~rep
  <2>1. /\ t.k_down = [s.k_down EXCEPT ![m] = n]
        /\ t.shift_state = IF n > 0 THEN s.shift_state \cup {m} ELSE s.shift_state \ {m}
    BY <1>6 DEF Shifts
  <2>2. n \in Nat /\ s.k_down[m] \in Nat
    BY <1>1
  <2>3. /\ m \notin {"CTRL", "ALTGR"} => n <= Card(t, m)
        /\ exact => n = Card(t, m)
    <3>1. CASE ~up
      <4>1. key \notin s.key_down /\ n = s.k_down[m] + 1
        BY <1>0, <1>6, <3>1
      <4> QED BY <1>1, <1>4, <3>1, <4>1
    <3>2. CASE up /\ key \in s.key_down
      <4>1. n = IF s.k_down[m] > 0 THEN s.k_down[m] - 1 ELSE 0
        BY <1>0, <3>2
      <4>2. Card(t, m) = Card(s, m) - 1
        BY <1>4, <3>2
      <4>3. Card(t, m) \in Nat
        BY <1>1, KindsAreFinite DEF Card
      <4> QED BY <1>1, <4>1, <4>2, <4>3, <2>2
    <3>3. CASE up /\ key \notin s.key_down
      <4>1. ~exact /\ t.key_down = s.key_down
        BY <1>0, <3>3
      <4>2. Card(t, m) = Card(s, m)
        BY <1>4, <4>1
      <4>3. m \notin {"CTRL", "ALTGR"} => n <= s.k_down[m]
        BY <1>0, <1>3, <2>2, <3>3
      <4> QED BY <1>1, <2>2, <4>1, <4>2, <4>3
    <3> QED BY <3>1, <3>2, <3>3
  <2> HIDE DEF n
  <2>4. t.k_down \in [Modifiers -> Nat] /\ t.k_down[m] = n
        /\ \A x \in Modifiers : x # m => t.k_down[x] = s.k_down[x]
    BY <1>1, <2>1, <2>2
  <2>5. t.shift_state \subseteq Modifiers /\ (m \in t.shift_state <=> n > 0)
        /\ \A x \in Modifiers : x # m => (x \in t.shift_state <=> x \in s.shift_state)
    BY <1>1, <2>1
  <2>6. ASSUME NEW x \in Modifiers
        PROVE  /\ x \in t.shift_state <=> t.k_down[x] > 0
               /\ x \notin {"CTRL", "ALTGR"} => t.k_down[x] <= Card(t, x)
               /\ exact => t.k_down[x] = Card(t, x)
    <3>1. CASE x = m
      BY <2>3, <2>4, <2>5, <3>1
    <3>2. CASE x # m
      BY <1>1, <1>2, <2>4, <2>5, <3>2
    <3> QED BY <3>1, <3>2
  <2> QED BY <1>1, <2>4, <2>5, <2>6 DEF Counted, Card
<1> QED BY <1>5, <1>6

LEMMA EventCounts ==
  ASSUME NEW s, NEW t, NEW exact \in BOOLEAN, NEW key \in NR_KEYS, NEW up \in BOOLEAN,
         Counted(s, exact), Event(s, t, key, up), exact /\ up => key \in s.key_down
  PROVE  Counted(t, exact)
<1> DEFINE release == up /\ (key \in s.key_down \/ ~Escaped(key))
           rep == ~up /\ key \in s.key_down
<1>1. /\ t.key_down = IF up THEN s.key_down \ {key} ELSE s.key_down \cup {key}
      /\ \/ Recounts(s, t)
         \/ \E m \in Modifiers : plain_map[key] = <<"SHIFT", m>> /\ Shifts(s, t, m, release, rep)
         \/ Plain(key) /\ Acts(s, t, key, release, rep)
  BY DEF Event
<1>2. s.key_down \subseteq NR_KEYS /\ t.key_down \subseteq NR_KEYS
  BY <1>1 DEF Counted
<1>3. CASE Recounts(s, t)
  <2>1. \A m \in Modifiers : Cardinality(KindsDown(t, m)) \in Nat
    BY <1>2, KindsAreFinite
  <2>2. t.k_down \in [Modifiers -> Nat]
        /\ \A m \in Modifiers : t.k_down[m] = Cardinality(KindsDown(t, m))
    BY <1>3, <2>1 DEF Recounts
  <2> QED BY <1>2, <1>3, <2>1, <2>2 DEF Recounts, Counted
<1>4. ASSUME NEW m \in Modifiers, plain_map[key] = <<"SHIFT", m>>,
             Shifts(s, t, m, release, rep)
      PROVE  Counted(t, exact)
  <2>1. Moved(s, t, key, up, release, rep)
    BY <1>1 DEF Moved
  <2>2. release \in BOOLEAN /\ rep \in BOOLEAN
    OBVIOUS
  <2>3. /\ plain_map[key] = <<"SHIFT", m>> /\ Shifts(s, t, m, release, rep)
        /\ Counted(s, exact) /\ (exact /\ up => key \in s.key_down)
    BY <1>4
  <2> HIDE DEF release, rep
  <2> QED BY <2>1, <2>2, <2>3, ShiftCounts
<1>5. CASE Plain(key) /\ Acts(s, t, key, release, rep)
  <2>1. t.k_down = s.k_down /\ t.shift_state = s.shift_state
    BY <1>5 DEF Acts
  <2>2. \A m : plain_map[key] # <<"SHIFT", m>>
    BY <1>5 DEF Plain
  <2>3. t.key_down \in {s.key_down \cup {key}, s.key_down \ {key}}
    BY <1>1
  <2>4. ASSUME NEW m PROVE KindsDown(t, m) = KindsDown(s, m)
    BY <2>2, <2>3 DEF KindsDown
  <2> QED BY <1>2, <2>1, <2>4 DEF Counted
<1> QED BY <1>1, <1>3, <1>4, <1>5

\* A set of modifiers without a map has two of them.
LEMMA TwoModifiers ==
  ASSUME NEW mods \in SUBSET Modifiers, mods \notin Mapped, NEW x
  PROVE  \E m \in mods : m # x
<1>1. SUFFICES ASSUME \A m \in mods : m = x PROVE FALSE
  OBVIOUS
<1>2. CASE mods = {}
  BY <1>2 DEF Mapped
<1>3. CASE mods # {}
  <2>1. mods = {x} /\ x \in Modifiers
    BY <1>1, <1>3
  <2> QED BY <2>1 DEF Modifiers, Mapped
<1> QED BY <1>2, <1>3

\* The code typed on the keypad is sent when the last modifier is released.
LEMMA EventDelivers ==
  ASSUME NEW s, NEW t, NEW key \in NR_KEYS, NEW up \in BOOLEAN,
         Counted(s, TRUE), Counted(t, TRUE), Event(s, t, key, up),
         s.shift_state = {} => s.npadch = NoCode, t.shift_state = {}
  PROVE  t.npadch = NoCode
<1> DEFINE release == up /\ (key \in s.key_down \/ ~Escaped(key))
           rep == ~up /\ key \in s.key_down
<1>1. /\ t.key_down = IF up THEN s.key_down \ {key} ELSE s.key_down \cup {key}
      /\ \/ (s.shift_state \notin Mapped \/ Plain(key)) /\ Recounts(s, t)
         \/ \E m \in Modifiers : plain_map[key] = <<"SHIFT", m>> /\ Shifts(s, t, m, release, rep)
         \/ Acts(s, t, key, release, rep)
  BY DEF Event
<1>2. t.key_down \in {s.key_down \cup {key}, s.key_down \ {key}}
  BY <1>1
<1>3. ASSUME NEW m \in s.shift_state, plain_map[key] # <<"SHIFT", m>> PROVE FALSE
  <2>1. KindsDown(t, m) = KindsDown(s, m)
    BY <1>2, <1>3 DEF KindsDown
  <2>2. m \in Modifiers /\ s.k_down[m] > 0 /\ s.k_down[m] = Cardinality(KindsDown(s, m))
    BY DEF Counted
  <2>3. ~(t.k_down[m] > 0) /\ t.k_down[m] = Cardinality(KindsDown(t, m))
    BY <2>2 DEF Counted
  <2> QED BY <2>1, <2>2, <2>3
<1>4. CASE (s.shift_state \notin Mapped \/ Plain(key)) /\ Recounts(s, t)
  <2>1. s.shift_state = {}
    <3>1. CASE Plain(key)
      BY <1>3, <3>1 DEF Plain
    <3>2. CASE s.shift_state \notin Mapped
      <4>1. s.shift_state \in SUBSET Modifiers
        BY DEF Counted
      <4>2. PICK m \in s.shift_state : m # plain_map[key][2]
        BY <3>2, <4>1, TwoModifiers
      <4> QED BY <1>3, <4>2
    <3> QED BY <1>4, <3>1, <3>2
  <2> QED BY <1>4, <2>1 DEF Recounts
<1>5. ASSUME NEW m \in Modifiers, Shifts(s, t, m, release, rep) PROVE t.npadch = NoCode
  <2>1. s.k_down[m] \in Nat
    BY DEF Counted
  <2>2. CASE rep
    BY <1>5, <2>2 DEF Shifts
  <2>3. CASE ~rep /\ release
    BY <1>5, <2>3 DEF Shifts
  <2>4. CASE ~rep /\ ~release
    <3>1. s.k_down[m] + 1 > 0
      BY <2>1
    <3>2. t.shift_state = s.shift_state \cup {m}
      BY <1>5, <2>4, <3>1 DEF Shifts
    <3> QED BY <3>2
  <2> QED BY <2>2, <2>3, <2>4
<1>6. CASE Acts(s, t, key, release, rep)
  BY <1>6 DEF Acts
<1> QED BY <1>1, <1>4, <1>5, <1>6

-----------------------------------------------------------------------------
(* The bytes on their way when none was lost *)

\* The byte of a code that goes down or up.
Byte(c, up) == IF up THEN c + 128 ELSE c

\* What is left on the line, behind prefix p, of the press or of the release of
\* key k that the driver has still to see.
Left(k, rest, p, up) ==
  \/ ~Escaped(k) /\ p = 0 /\ rest = <<Byte(k, up)>>
  \/ Escaped(k) /\ p = 0 /\ rest = <<224, Byte(Code(k), up)>>
  \/ Escaped(k) /\ p = 224 /\ rest = <<Byte(Code(k), up)>>
  \/ k = END /\ ~up /\ p = 0 /\ rest = <<224, 42, 224, Code(k)>>
  \/ k = END /\ ~up /\ p = 224 /\ rest = <<42, 224, Code(k)>>
  \/ k = END /\ up /\ p = 0 /\ rest = <<224, Byte(Code(k), up), 224, 170>>
  \/ k = END /\ up /\ p = 224 /\ rest = <<Byte(Code(k), up), 224, 170>>

\* What is left of Pause before the driver sees it pressed, and before it sees it
\* released.
PauseLeft(rest, p) ==
  \/ p = 0 /\ rest = PauseBytes
  \/ p = 225 /\ rest = <<29, 69, 225, 157, 197>>
  \/ p = 256 /\ rest = <<69, 225, 157, 197>>

PauseEnd(rest, p) ==
  \/ p = 0 /\ rest = <<225, 157, 197>>
  \/ p = 225 /\ rest = <<157, 197>>
  \/ p = 256 /\ rest = << 197 >>

\* The rest of the line, behind prefix p, turns the keys down into those held.
OnItsWay(rest, p, down, keys) ==
  \/ rest = << >> /\ p = 0 /\ down = keys
  \/ \E k \in NR_KEYS \ {PAUSE}, up \in BOOLEAN :
       /\ Left(k, rest, p, up)
       /\ up => k \in down /\ keys = down \ {k}
       /\ ~up => keys = down \cup {k}
  \/ p = 0 /\ rest = <<224, 170>> /\ down = keys
  \/ p = 224 /\ rest = << 170 >> /\ down = keys
  \/ PauseLeft(rest, p) /\ down = keys
  \/ PauseEnd(rest, p) /\ down = keys \cup {PAUSE}

LEMMA Shorter ==
  /\ \A a : Head(<<a>>) = a /\ Tail(<<a>>) = << >>
  /\ \A a, b : Head(<<a, b>>) = a /\ Tail(<<a, b>>) = <<b>>
  /\ \A a, b, c : Head(<<a, b, c>>) = a /\ Tail(<<a, b, c>>) = <<b, c>>
  /\ \A a, b, c, d : Head(<<a, b, c, d>>) = a /\ Tail(<<a, b, c, d>>) = <<b, c, d>>
  /\ \A a, b, c, d, e :
       Head(<<a, b, c, d, e>>) = a /\ Tail(<<a, b, c, d, e>>) = <<b, c, d, e>>
  /\ \A a, b, c, d, e, f :
       Head(<<a, b, c, d, e, f>>) = a /\ Tail(<<a, b, c, d, e, f>>) = <<b, c, d, e, f>>
OBVIOUS

LEMMA BytesAreNats ==
  ASSUME NEW b \in Bytes
  PROVE  b \in Nat /\ b \notin {0, 255} /\ (b < 128 <=> ~(b >= 128))
<1>1. CASE b \in {224, 225} \cup Codes
  BY <1>1 DEF Codes
<1>2. CASE b \notin {224, 225} \cup Codes
  <2>1. PICK c \in Codes : b = c + 128
    BY <1>2 DEF Bytes
  <2> QED BY <2>1 DEF Codes
<1> QED BY <1>1, <1>2

\* What the bytes of the keys are made into.
LEMMA BytesMake ==
  /\ translate(224, 0) = [prev |-> 224, key |-> 0]
  /\ translate(225, 0) = [prev |-> 225, key |-> 0]
  /\ translate(42, 224) = [prev |-> 0, key |-> 0]
  /\ translate(170, 224) = [prev |-> 0, key |-> 0]
  /\ translate(29, 225) = [prev |-> 256, key |-> 0]
  /\ translate(157, 225) = [prev |-> 256, key |-> 0]
  /\ translate(69, 256) = [prev |-> 0, key |-> PAUSE]
  /\ translate(197, 256) = [prev |-> 0, key |-> PAUSE]
BY DEF translate, PAUSE, E1_PAUSE

\* A byte of a key behind its prefix is the key.
LEMMA PlainByteMakes ==
  ASSUME NEW k \in NR_KEYS, ~Escaped(k), NEW up \in BOOLEAN
  PROVE  /\ Byte(k, up) \in Bytes /\ (Byte(k, up) >= 128 <=> up)
         /\ translate(Byte(k, up), 0) = [prev |-> 0, key |-> k]
<1> DEFINE b == Byte(k, up)
<1>1. k \in Codes
  BY EscapedKeys
<1>2. b \in Bytes /\ b \in {k, k + 128} /\ (b >= 128 <=> up)
  BY <1>1 DEF Bytes, Codes, Byte
<1> HIDE DEF b
<1>3. translate(b, 0) = [prev |-> 0, key |-> k]
  BY <1>1, <1>2, Translated DEF Prefixes
<1> QED BY <1>2, <1>3 DEF b

LEMMA EscapedByteMakes ==
  ASSUME NEW k \in NR_KEYS, k # PAUSE, Escaped(k), NEW up \in BOOLEAN
  PROVE  /\ Byte(Code(k), up) \in Bytes /\ (Byte(Code(k), up) >= 128 <=> up)
         /\ translate(Byte(Code(k), up), 224) = [prev |-> 0, key |-> k]
<1> DEFINE c == Code(k)
           b == Byte(c, up)
<1>1. c \in {28, 29, 56, 70, 79} /\ e0_keys(c) = k
  BY CodeOf
<1> HIDE DEF c
<1>2. c \in Codes /\ c \notin {42, 54} /\ b \in Bytes /\ b \in {c, c + 128}
      /\ (b >= 128 <=> up)
  BY <1>1 DEF Bytes, Codes, Byte
<1> HIDE DEF b
<1>3. translate(b, 224) = [prev |-> 0, key |-> k]
  BY <1>1, <1>2, Translated DEF Prefixes
<1> QED BY <1>2, <1>3 DEF b, c

LEMMA LeftGoesOn ==
  ASSUME NEW k \in NR_KEYS, k # PAUSE, NEW up \in BOOLEAN, NEW rest, NEW p,
         Left(k, rest, p, up)
  PROVE  LET read == translate(Head(rest), p) IN
         /\ p \in Prefixes /\ Head(rest) \in Bytes
         /\ \/ read.key = 0 /\ Left(k, Tail(rest), read.prev, up)
            \/ /\ read.key = k /\ read.prev = 0 /\ (Head(rest) >= 128 <=> up)
               /\ Tail(rest) = << >> \/ Tail(rest) = <<224, 170>>
<1>1. 224 \in Bytes /\ 42 \in Bytes /\ 0 \in Prefixes /\ 224 \in Prefixes
  BY DEF Bytes, Codes, Prefixes
<1>2. k = END => Escaped(k)
  BY DEF END, Escaped, SC_LIM
<1>3. ~up => Byte(Code(k), up) = Code(k)
  BY DEF Byte
<1>4. CASE ~Escaped(k) /\ p = 0 /\ rest = <<Byte(k, up)>>
  <2>1. Head(rest) = Byte(k, up) /\ Tail(rest) = << >>
    BY <1>4, Shorter
  <2>2. ~Escaped(k)
    BY <1>4
  <2>3. Head(rest) \in Bytes
    BY <2>1, <2>2, PlainByteMakes
  <2>4. Head(rest) >= 128 <=> up
    BY <2>1, <2>2, PlainByteMakes
  <2>5. translate(Head(rest), 0).prev = 0 /\ translate(Head(rest), 0).key = k
    BY <2>1, <2>2, PlainByteMakes
  <2> QED BY <1>1, <1>4, <2>1, <2>3, <2>4, <2>5
<1>5. CASE Escaped(k) /\ p = 0 /\ rest = <<224, Byte(Code(k), up)>>
  <2>1. Head(rest) = 224 /\ Tail(rest) = <<Byte(Code(k), up)>>
    BY <1>5, Shorter
  <2>2. translate(Head(rest), p).key = 0 /\ translate(Head(rest), p).prev = 224
    BY <1>5, <2>1, BytesMake
  <2>3. Left(k, Tail(rest), 224, up)
    BY <1>5, <2>1 DEF Left
  <2> QED BY <1>1, <1>5, <2>1, <2>2, <2>3
<1>6. CASE Escaped(k) /\ p = 224 /\ rest = <<Byte(Code(k), up)>>
  <2>1. Head(rest) = Byte(Code(k), up) /\ Tail(rest) = << >>
    BY <1>6, Shorter
  <2>2. /\ Byte(Code(k), up) \in Bytes /\ (Byte(Code(k), up) >= 128 <=> up)
        /\ translate(Byte(Code(k), up), 224) = [prev |-> 0, key |-> k]
    BY <1>6, EscapedByteMakes
  <2>3. /\ p \in Prefixes /\ Head(rest) \in Bytes
        /\ translate(Head(rest), p).key = k /\ translate(Head(rest), p).prev = 0
        /\ (Head(rest) >= 128 <=> up)
    BY <1>1, <1>6, <2>1, <2>2
  <2> QED BY <2>1, <2>3
<1>7. CASE k = END /\ ~up /\ p = 0 /\ rest = <<224, 42, 224, Code(k)>>
  <2>1. Head(rest) = 224 /\ Tail(rest) = <<42, 224, Code(k)>>
    BY <1>7, Shorter
  <2>2. translate(Head(rest), p).key = 0 /\ translate(Head(rest), p).prev = 224
    BY <1>7, <2>1, BytesMake
  <2>3. Left(k, Tail(rest), 224, up)
    BY <1>7, <2>1 DEF Left
  <2> QED BY <1>1, <1>7, <2>1, <2>2, <2>3
<1>8. CASE k = END /\ ~up /\ p = 224 /\ rest = <<42, 224, Code(k)>>
  <2>1. Head(rest) = 42 /\ Tail(rest) = <<224, Byte(Code(k), up)>>
    BY <1>2, <1>3, <1>8, Shorter
  <2>2. translate(Head(rest), p).key = 0 /\ translate(Head(rest), p).prev = 0
    BY <1>8, <2>1, BytesMake
  <2>3. Left(k, Tail(rest), 0, up)
    BY <1>2, <1>8, <2>1 DEF Left
  <2> QED BY <1>1, <1>8, <2>1, <2>2, <2>3
<1>9. CASE k = END /\ up /\ p = 0 /\ rest = <<224, Byte(Code(k), up), 224, 170>>
  <2> DEFINE b == Byte(Code(k), up)
  <2>1. p = 0 /\ rest = <<224, b, 224, 170>>
    BY <1>9
  <2>2. k = END /\ up
    BY <1>9
  <2> HIDE DEF b
  <2>3. Head(rest) = 224 /\ Tail(rest) = <<b, 224, 170>>
    BY <2>1, Shorter
  <2>4. translate(Head(rest), p).key = 0 /\ translate(Head(rest), p).prev = 224
    BY <2>1, <2>3, BytesMake
  <2>5. Left(k, Tail(rest), 224, up)
    BY <2>2, <2>3 DEF Left, b
  <2> QED BY <1>1, <2>1, <2>3, <2>4, <2>5
<1>10. CASE k = END /\ up /\ p = 224 /\ rest = <<Byte(Code(k), up), 224, 170>>
  <2> DEFINE b == Byte(Code(k), up)
  <2>1. p = 224 /\ rest = <<b, 224, 170>>
    BY <1>10
  <2>2. Escaped(k)
    BY <1>2, <1>10
  <2>3. b \in Bytes /\ (b >= 128 <=> up) /\ translate(b, 224) = [prev |-> 0, key |-> k]
    BY <2>2, EscapedByteMakes
  <2> HIDE DEF b
  <2>4. Head(rest) = b /\ Tail(rest) = <<224, 170>>
    BY <2>1, Shorter
  <2> QED BY <1>1, <2>1, <2>3, <2>4
<1> QED BY <1>4, <1>5, <1>6, <1>7, <1>8, <1>9, <1>10 DEF Left

LEMMA PauseGoesOn ==
  ASSUME NEW rest, NEW p
  PROVE  LET read == translate(Head(rest), p) IN
         /\ PauseLeft(rest, p) =>
              /\ p \in Prefixes /\ Head(rest) \in Bytes
              /\ \/ read.key = 0 /\ PauseLeft(Tail(rest), read.prev)
                 \/ read.key = PAUSE /\ Head(rest) < 128 /\ PauseEnd(Tail(rest), read.prev)
         /\ PauseEnd(rest, p) =>
              /\ p \in Prefixes /\ Head(rest) \in Bytes
              /\ \/ read.key = 0 /\ PauseEnd(Tail(rest), read.prev)
                 \/ /\ read.key = PAUSE /\ Head(rest) >= 128
                    /\ read.prev = 0 /\ Tail(rest) = << >>
<1>1. {0, 225, 256} \subseteq Prefixes /\ {225, 29, 157, 69, 197} \subseteq Bytes
  <2>1. 157 = 29 + 128 /\ 197 = 69 + 128
    OBVIOUS
  <2> QED BY <2>1 DEF Bytes, Codes, Prefixes
<1>2. ASSUME p = 0, rest = PauseBytes
      PROVE  /\ p \in Prefixes /\ Head(rest) \in Bytes
             /\ translate(Head(rest), p).key = 0
             /\ PauseLeft(Tail(rest), translate(Head(rest), p).prev)
  <2>1. Head(rest) = 225 /\ Tail(rest) = <<29, 69, 225, 157, 197>>
    BY <1>2, Shorter DEF PauseBytes
  <2> QED BY <1>1, <1>2, <2>1, BytesMake DEF PauseLeft
<1>3. ASSUME p = 225, rest = <<29, 69, 225, 157, 197>>
      PROVE  /\ p \in Prefixes /\ Head(rest) \in Bytes
             /\ translate(Head(rest), p).key = 0
             /\ PauseLeft(Tail(rest), translate(Head(rest), p).prev)
  <2>1. Head(rest) = 29 /\ Tail(rest) = <<69, 225, 157, 197>>
    BY <1>3, Shorter
  <2> QED BY <1>1, <1>3, <2>1, BytesMake DEF PauseLeft
<1>4. ASSUME p = 256, rest = <<69, 225, 157, 197>>
      PROVE  /\ p \in Prefixes /\ Head(rest) \in Bytes /\ Head(rest) < 128
             /\ translate(Head(rest), p).key = PAUSE
             /\ PauseEnd(Tail(rest), translate(Head(rest), p).prev)
  <2>1. Head(rest) = 69 /\ Tail(rest) = <<225, 157, 197>>
    BY <1>4, Shorter
  <2> QED BY <1>1, <1>4, <2>1, BytesMake DEF PauseEnd
<1>5. ASSUME p = 0, rest = <<225, 157, 197>>
      PROVE  /\ p \in Prefixes /\ Head(rest) \in Bytes
             /\ translate(Head(rest), p).key = 0
             /\ PauseEnd(Tail(rest), translate(Head(rest), p).prev)
  <2>1. Head(rest) = 225 /\ Tail(rest) = <<157, 197>>
    BY <1>5, Shorter
  <2> QED BY <1>1, <1>5, <2>1, BytesMake DEF PauseEnd
<1>6. ASSUME p = 225, rest = <<157, 197>>
      PROVE  /\ p \in Prefixes /\ Head(rest) \in Bytes
             /\ translate(Head(rest), p).key = 0
             /\ PauseEnd(Tail(rest), translate(Head(rest), p).prev)
  <2>1. Head(rest) = 157 /\ Tail(rest) = << 197 >>
    BY <1>6, Shorter
  <2> QED BY <1>1, <1>6, <2>1, BytesMake DEF PauseEnd
<1>7. ASSUME p = 256, rest = << 197 >>
      PROVE  /\ p \in Prefixes /\ Head(rest) \in Bytes /\ Head(rest) >= 128
             /\ translate(Head(rest), p).key = PAUSE
             /\ translate(Head(rest), p).prev = 0 /\ Tail(rest) = << >>
  <2>1. Head(rest) = 197 /\ Tail(rest) = << >>
    BY <1>7, Shorter
  <2> QED BY <1>1, <1>7, <2>1, BytesMake
<1>8. PauseLeft(rest, p) =>
        /\ p \in Prefixes /\ Head(rest) \in Bytes
        /\ \/ translate(Head(rest), p).key = 0
              /\ PauseLeft(Tail(rest), translate(Head(rest), p).prev)
           \/ translate(Head(rest), p).key = PAUSE /\ Head(rest) < 128
              /\ PauseEnd(Tail(rest), translate(Head(rest), p).prev)
  <2>1. PauseLeft(rest, p) <=> \/ p = 0 /\ rest = PauseBytes
                               \/ p = 225 /\ rest = <<29, 69, 225, 157, 197>>
                               \/ p = 256 /\ rest = <<69, 225, 157, 197>>
    BY DEF PauseLeft
  <2> QED BY <2>1, <1>2, <1>3, <1>4
<1>9. PauseEnd(rest, p) =>
        /\ p \in Prefixes /\ Head(rest) \in Bytes
        /\ \/ translate(Head(rest), p).key = 0
              /\ PauseEnd(Tail(rest), translate(Head(rest), p).prev)
           \/ translate(Head(rest), p).key = PAUSE /\ Head(rest) >= 128
              /\ translate(Head(rest), p).prev = 0 /\ Tail(rest) = << >>
  <2>1. PauseEnd(rest, p) <=> \/ p = 0 /\ rest = <<225, 157, 197>>
                              \/ p = 225 /\ rest = <<157, 197>>
                              \/ p = 256 /\ rest = << 197 >>
    BY DEF PauseEnd
  <2> QED BY <2>1, <1>5, <1>6, <1>7
<1> QED BY <1>8, <1>9

\* A byte of a line that lost none is the press of a key, or the release of a key
\* that the driver holds down, and the driver stays on its way.
LEMMA GoesOn ==
  ASSUME NEW rest, NEW p, NEW down, NEW keys, keys \subseteq NR_KEYS \ {PAUSE},
         OnItsWay(rest, p, down, keys), rest # << >>
  PROVE  LET read == translate(Head(rest), p)
             up == Head(rest) >= 128
         IN  /\ p \in Prefixes /\ Head(rest) \in Bytes
             /\ read.key = 0 => OnItsWay(Tail(rest), read.prev, down, keys)
             /\ read.key # 0 =>
                  /\ up => read.key \in down
                  /\ OnItsWay(Tail(rest), read.prev,
                              IF up THEN down \ {read.key} ELSE down \cup {read.key}, keys)
<1> DEFINE read == translate(Head(rest), p)
           up == Head(rest) >= 128
           new == IF up THEN down \ {read.key} ELSE down \cup {read.key}
           Good == /\ p \in Prefixes /\ Head(rest) \in Bytes
                   /\ read.key = 0 => OnItsWay(Tail(rest), read.prev, down, keys)
                   /\ read.key # 0 => /\ up => read.key \in down
                                      /\ OnItsWay(Tail(rest), read.prev, new, keys)
<1>1. ASSUME NEW k \in NR_KEYS \ {PAUSE}, NEW u \in BOOLEAN, Left(k, rest, p, u),
             u => k \in down /\ keys = down \ {k}, ~u => keys = down \cup {k}
      PROVE  Good
  <2>1. /\ p \in Prefixes /\ Head(rest) \in Bytes
        /\ \/ read.key = 0 /\ Left(k, Tail(rest), read.prev, u)
           \/ /\ read.key = k /\ read.prev = 0 /\ (Head(rest) >= 128 <=> u)
              /\ Tail(rest) = << >> \/ Tail(rest) = <<224, 170>>
    BY <1>1, LeftGoesOn
  <2>2. CASE read.key = 0 /\ Left(k, Tail(rest), read.prev, u)
    <3> HIDE DEF read, up, new
    <3>1. OnItsWay(Tail(rest), read.prev, down, keys)
      BY <1>1, <2>2 DEF OnItsWay
    <3> QED BY <2>1, <2>2, <3>1
  <2>3. CASE /\ read.key = k /\ read.prev = 0 /\ (Head(rest) >= 128 <=> u)
             /\ Tail(rest) = << >> \/ Tail(rest) = <<224, 170>>
    <3>1. new = keys /\ (up => k \in down)
      BY <1>1, <2>3
    <3>2. k # 0
      BY DEF NR_KEYS, LETTER, DIGIT, ENTER, F1, LSHIFT, RSHIFT, LALT, LCTRL, CAPSLOCK,
       NUMLOCK, SCROLLLOCK, KP1, KPENTER, RCTRL, ALTGR, BREAK, END, PAUSE
    <3> HIDE DEF read, up, new
    <3>3. OnItsWay(Tail(rest), read.prev, new, keys)
      BY <2>3, <3>1 DEF OnItsWay
    <3> QED BY <2>1, <2>3, <3>1, <3>2, <3>3
  <2> HIDE DEF read, up, new, Good
  <2> QED BY <2>1, <2>2, <2>3
<1>2. ASSUME p = 0, rest = <<224, 170>>, down = keys PROVE Good
  <2>1. Head(rest) = 224 /\ Tail(rest) = << 170 >> /\ read.key = 0 /\ read.prev = 224
    BY <1>2, Shorter, BytesMake
  <2>2. 0 \in Prefixes /\ 224 \in Bytes
    BY DEF Prefixes, Bytes
  <2> HIDE DEF read, up, new
  <2> QED BY <1>2, <2>1, <2>2 DEF OnItsWay
<1>3. ASSUME p = 224, rest = << 170 >>, down = keys PROVE Good
  <2>1. Head(rest) = 170 /\ Tail(rest) = << >> /\ read.key = 0 /\ read.prev = 0
    BY <1>3, Shorter, BytesMake
  <2>2. 224 \in Prefixes /\ 170 \in Bytes
    <3>1. 170 = 42 + 128 /\ 42 \in Codes
      BY DEF Codes
    <3> QED BY <3>1 DEF Prefixes, Bytes
  <2> HIDE DEF read, up, new
  <2> QED BY <1>3, <2>1, <2>2 DEF OnItsWay
<1>4. ASSUME PauseLeft(rest, p), down = keys PROVE Good
  <2>1. /\ p \in Prefixes /\ Head(rest) \in Bytes
        /\ \/ read.key = 0 /\ PauseLeft(Tail(rest), read.prev)
           \/ read.key = PAUSE /\ ~up /\ PauseEnd(Tail(rest), read.prev)
    <3>1. /\ p \in Prefixes /\ Head(rest) \in Bytes
          /\ \/ read.key = 0 /\ PauseLeft(Tail(rest), read.prev)
             \/ read.key = PAUSE /\ Head(rest) < 128 /\ PauseEnd(Tail(rest), read.prev)
      BY <1>4, PauseGoesOn
    <3>2. Head(rest) < 128 => ~up
      BY <3>1, BytesAreNats
    <3> HIDE DEF read, up
    <3> QED BY <3>1, <3>2
  <2>2. ~up => new = down \cup {read.key}
    OBVIOUS
  <2> HIDE DEF read, up, new
  <2>3. PAUSE # 0
    BY DEF PAUSE
  <2>4. CASE read.key = 0
    BY <1>4, <2>1, <2>3, <2>4 DEF OnItsWay
  <2>5. CASE read.key = PAUSE
    <3>1. new = keys \cup {PAUSE} /\ ~up /\ PauseEnd(Tail(rest), read.prev)
      BY <1>4, <2>1, <2>2, <2>3, <2>5
    <3>2. OnItsWay(Tail(rest), read.prev, new, keys)
      BY <3>1 DEF OnItsWay
    <3> QED BY <2>1, <2>3, <2>5, <3>1, <3>2
  <2> QED BY <2>1, <2>4, <2>5
<1>5. ASSUME PauseEnd(rest, p), down = keys \cup {PAUSE} PROVE Good
  <2>1. /\ p \in Prefixes /\ Head(rest) \in Bytes
        /\ \/ read.key = 0 /\ PauseEnd(Tail(rest), read.prev)
           \/ read.key = PAUSE /\ up /\ read.prev = 0 /\ Tail(rest) = << >>
    BY <1>5, PauseGoesOn
  <2>2. up => new = down \ {read.key}
    OBVIOUS
  <2>3. down \ {PAUSE} = keys
    BY <1>5
  <2>4. PAUSE # 0
    BY DEF PAUSE
  <2> HIDE DEF read, up, new
  <2>5. CASE read.key = 0
    BY <1>5, <2>1, <2>4, <2>5 DEF OnItsWay
  <2>6. CASE read.key = PAUSE
    <3>1. new = keys /\ up /\ read.prev = 0 /\ Tail(rest) = << >>
      BY <2>1, <2>2, <2>3, <2>4, <2>6
    <3>2. OnItsWay(Tail(rest), read.prev, new, keys)
      BY <3>1 DEF OnItsWay
    <3> QED BY <1>5, <2>1, <2>4, <2>6, <3>1, <3>2
  <2> QED BY <2>1, <2>5, <2>6
<1> HIDE DEF Good
<1>6. Good
  BY <1>1, <1>2, <1>3, <1>4, <1>5 DEF OnItsWay
<1> QED BY <1>6 DEF Good

-----------------------------------------------------------------------------
(* The invariant *)

\* The line, what is down and the state of the driver.  With no byte lost the
\* counts are exact and the line makes up the difference to the keys held.
KInv ==
  /\ line \in Seq(Bytes) /\ lost \in Nat /\ held \subseteq NR_KEYS \ {PAUSE}
  /\ DOMAIN kb = Fields /\ kb.prev_scancode \in Prefixes
  /\ kb.lights = kb.ledstate /\ LightsShowTheFlags
  /\ \A exact \in BOOLEAN : (exact => lost = 0) => Counted(kb, exact)
  /\ lost = 0 => OnItsWay(line, kb.prev_scancode, kb.key_down, held)
  /\ PadIsDelivered

LEMMA InitKInv ==
  ASSUME KeyboardInit
  PROVE  KInv
<1>1. /\ DOMAIN kb = Fields /\ kb.prev_scancode = 0 /\ kb.key_down = {}
      /\ kb.k_down = [m \in Modifiers |-> 0] /\ kb.shift_state = {} /\ kb.npadch = NoCode
      /\ kb.lights = Unknown /\ kb.ledstate = Unknown
  BY DEF KeyboardInit, kbd_init, Fields
<1>2. \A m : KindsDown(kb, m) = {}
  BY <1>1 DEF KindsDown
<1>3. Cardinality({}) = 0
  BY FS_EmptySet
<1>4. ASSUME NEW exact \in BOOLEAN PROVE Counted(kb, exact)
  BY <1>1, <1>2, <1>3 DEF Counted
<1>5. OnItsWay(line, kb.prev_scancode, kb.key_down, held)
  BY <1>1 DEF OnItsWay, KeyboardInit
<1>6. line \in Seq(Bytes) /\ lost \in Nat /\ held \subseteq NR_KEYS \ {PAUSE}
  BY DEF KeyboardInit
<1> QED BY <1>1, <1>4, <1>5, <1>6 DEF KInv, LightsShowTheFlags, PadIsDelivered, Prefixes

\* Nothing is on its way on an empty line.
LEMMA NothingLeft ==
  ASSUME NEW p, NEW down, NEW keys, OnItsWay(<< >>, p, down, keys)
  PROVE  p = 0 /\ down = keys
BY DEF OnItsWay, Left, PauseLeft, PauseEnd, PauseBytes

\* What a key sends.
LEMMA MadeIsLeft ==
  ASSUME NEW k \in NR_KEYS \ {PAUSE}, NEW up \in BOOLEAN, NEW bytes,
         bytes \in IF up THEN Broken(k) ELSE Made(k)
  PROVE  Left(k, bytes, 0, up) /\ bytes \in Seq(Bytes)
<1>1. k = END => Escaped(k)
  BY DEF END, Escaped, SC_LIM
<1>2. {224, 42, 170} \subseteq Bytes
  <2>1. 170 = 42 + 128
    OBVIOUS
  <2> QED BY <2>1 DEF Bytes, Codes
<1>3. CASE ~Escaped(k)
  <2> DEFINE b == Byte(k, up)
  <2>1. b \in Bytes
    BY <1>3, PlainByteMakes
  <2>2. b = IF up THEN k + 128 ELSE k
    BY DEF Byte
  <2>3. bytes = <<b>>
    <3>1. Code(k) = k
      BY <1>3 DEF Code
    <3>2. CASE up
      <4>1. bytes \in Broken(k)
        BY <3>2
      <4> QED BY <1>3, <2>2, <3>1, <3>2, <4>1 DEF Broken
    <3>3. CASE ~up
      <4>1. bytes \in Made(k)
        BY <3>3
      <4> QED BY <1>3, <2>2, <3>1, <3>3, <4>1 DEF Made
    <3> QED BY <3>2, <3>3
  <2>4. Left(k, bytes, 0, up)
    BY <1>3, <2>3 DEF Left
  <2> QED BY <2>1, <2>3, <2>4
<1>4. CASE Escaped(k)
  <2> DEFINE b == Byte(Code(k), up)
  <2>1. b \in Bytes
    BY <1>4, EscapedByteMakes
  <2>2. b = IF up THEN Code(k) + 128 ELSE Code(k)
    BY DEF Byte
  <2> HIDE DEF b
  <2>3. \/ bytes = <<224, b>>
        \/ k = END /\ ~up /\ bytes = <<224, 42, 224, b>>
        \/ k = END /\ up /\ bytes = <<224, b, 224, 170>>
    <3>1. CASE up
      <4>1. bytes \in Broken(k)
        BY <3>1
      <4> QED BY <1>4, <2>2, <3>1, <4>1 DEF Broken
    <3>2. CASE ~up
      <4>1. bytes \in Made(k)
        BY <3>2
      <4> QED BY <1>4, <2>2, <3>2, <4>1 DEF Made
    <3> QED BY <3>1, <3>2
  <2>4. bytes \in Seq(Bytes)
    <3>1. CASE bytes = <<224, b>>
      BY <1>2, <2>1, <3>1
    <3>2. CASE k = END /\ ~up /\ bytes = <<224, 42, 224, b>>
      BY <1>2, <2>1, <3>2
    <3>3. CASE k = END /\ up /\ bytes = <<224, b, 224, 170>>
      BY <1>2, <2>1, <3>3
    <3> QED BY <2>3, <3>1, <3>2, <3>3, Zenon
  <2>5. Left(k, bytes, 0, up)
    <3>1. CASE bytes = <<224, b>>
      BY <1>4, <3>1 DEF Left, b
    <3>2. CASE k = END /\ ~up /\ bytes = <<224, 42, 224, b>>
      <4>1. b = Code(k)
        BY <2>2, <3>2
      <4> HIDE DEF b
      <4>2. bytes = <<224, 42, 224, Code(k)>>
        BY <3>2, <4>1
      <4> QED BY <3>2, <4>2 DEF Left
    <3>3. CASE k = END /\ up /\ bytes = <<224, b, 224, 170>>
      BY <3>3 DEF Left, b
    <3> QED BY <2>3, <3>1, <3>2, <3>3
  <2> QED BY <2>4, <2>5
<1> QED BY <1>3, <1>4

\* The keyboard sends the bytes of a key.
LEMMA SendKInv ==
  ASSUME KInv, line = << >>, UNCHANGED <<lost, kb>>, line' \in Seq(Bytes),
         held' \subseteq NR_KEYS \ {PAUSE},
         kb.prev_scancode = 0 /\ kb.key_down = held
           => OnItsWay(line', kb.prev_scancode, kb.key_down, held')
  PROVE  KInv'
<1>1. lost = 0 => kb.prev_scancode = 0 /\ kb.key_down = held
  BY NothingLeft DEF KInv
<1>2. lost' = 0 => OnItsWay(line', kb'.prev_scancode, kb'.key_down, held')
  BY <1>1
<1>3. LightsShowTheFlags' /\ PadIsDelivered'
  BY DEF KInv, LightsShowTheFlags, PadIsDelivered
<1>4. \A exact \in BOOLEAN : (exact => lost' = 0) => Counted(kb', exact)
  BY DEF KInv
<1> QED BY <1>2, <1>3, <1>4 DEF KInv

LEMMA KeyKInv ==
  ASSUME KInv, NEW k \in Keys \ {PAUSE}, Press(k) \/ Repeat(k) \/ Release(k)
  PROVE  KInv'
<1>1. k \in NR_KEYS \ {PAUSE}
  BY KeysAssumption
<1>2. PICK up \in BOOLEAN :
        /\ line' \in IF up THEN Broken(k) ELSE Made(k)
        /\ up => k \in held /\ held' = held \ {k}
        /\ ~up => held' = held \cup {k}
  <2>1. CASE Press(k) \/ Repeat(k)
    <3>1. line' \in Made(k) /\ held' = held \cup {k}
      BY <2>1 DEF Press, Repeat
    <3>2. ~FALSE /\ FALSE \in BOOLEAN
      OBVIOUS
    <3> QED BY <3>1, <3>2
  <2>2. CASE Release(k)
    <3>1. line' \in Broken(k) /\ k \in held /\ held' = held \ {k}
      BY <2>2 DEF Release
    <3>2. TRUE \in BOOLEAN
      OBVIOUS
    <3> QED BY <3>1, <3>2
  <2> QED BY <2>1, <2>2
<1>3. line = << >> /\ UNCHANGED <<lost, kb>>
  BY DEF Press, Repeat, Release
<1>4. Left(k, line', 0, up) /\ line' \in Seq(Bytes)
  BY <1>1, <1>2, MadeIsLeft
<1>5. held' \subseteq NR_KEYS \ {PAUSE}
  BY <1>1, <1>2 DEF KInv
<1>6. kb.prev_scancode = 0 /\ kb.key_down = held
        => OnItsWay(line', kb.prev_scancode, kb.key_down, held')
  BY <1>1, <1>2, <1>4 DEF OnItsWay
<1> QED BY <1>3, <1>4, <1>5, <1>6, SendKInv

LEMMA PauseKInv ==
  ASSUME KInv, PressPause
  PROVE  KInv'
<1>1. line = << >> /\ line' = PauseBytes /\ UNCHANGED <<held, lost, kb>>
  BY DEF PressPause
<1>2. PauseBytes \in Seq(Bytes)
  <2>1. 157 = 29 + 128 /\ 197 = 69 + 128
    OBVIOUS
  <2>2. {225, 29, 69, 157, 197} \subseteq Bytes
    BY <2>1 DEF Bytes, Codes
  <2> QED BY <2>2 DEF PauseBytes
<1>3. held' \subseteq NR_KEYS \ {PAUSE}
  BY <1>1 DEF KInv
<1>4. kb.prev_scancode = 0 /\ kb.key_down = held
        => OnItsWay(line', kb.prev_scancode, kb.key_down, held')
  BY <1>1 DEF OnItsWay, PauseLeft
<1> QED BY <1>1, <1>2, <1>3, <1>4, SendKInv

LEMMA LoseKInv ==
  ASSUME KInv, Lose
  PROVE  KInv'
<1>1. line' \in Seq(Bytes) /\ lost' \in Nat /\ lost' # 0
  BY DEF KInv, Lose
<1>2. ASSUME NEW exact \in BOOLEAN, exact => lost' = 0 PROVE Counted(kb', exact)
  BY <1>1, <1>2 DEF KInv, Lose
<1>3. LightsShowTheFlags' /\ PadIsDelivered'
  BY <1>1 DEF KInv, Lose, LightsShowTheFlags, PadIsDelivered
<1> QED BY <1>1, <1>2, <1>3 DEF KInv, Lose

\* What a byte does, on a line that lost none and on one that did.
LEMMA HandleDoes ==
  ASSUME KInv, HandleByte
  PROVE  LET s == [kb EXCEPT !.out = << >>]
             read == translate(Head(line), kb.prev_scancode)
             up == Head(line) >= 128
         IN  /\ s.out = << >> /\ s.key_down = kb.key_down /\ s.k_down = kb.k_down
             /\ s.shift_state = kb.shift_state /\ s.npadch = kb.npadch /\ s.leds = kb.leds
             /\ line # << >> /\ Head(line) \in Bytes
             /\ line' = Tail(line) /\ line' \in Seq(Bytes) /\ UNCHANGED <<held, lost>>
             /\ DOMAIN kb' = Fields /\ kb'.prev_scancode = read.prev
             /\ read.prev \in Prefixes /\ read.key \in NR_KEYS \cup {0}
             /\ kb'.lights = kb'.leds /\ kb'.ledstate = kb'.leds
             /\ read.key = 0 => Same(s, kb')
             /\ read.key # 0 => Event(s, kb', read.key, up)
             /\ lost = 0 /\ read.key # 0 /\ up => read.key \in kb.key_down
             /\ lost = 0 => OnItsWay(line', kb'.prev_scancode, kb'.key_down, held')
<1> DEFINE s == [kb EXCEPT !.out = << >>]
           b == Head(line)
           read == translate(b, kb.prev_scancode)
           up == b >= 128
           new == IF up THEN kb.key_down \ {read.key} ELSE kb.key_down \cup {read.key}
<1>1. line # << >> /\ kb' = do_scancode(s, b) /\ line' = Tail(line) /\ UNCHANGED <<held, lost>>
  BY DEF HandleByte
<1>2. /\ DOMAIN s = Fields /\ s.prev_scancode = kb.prev_scancode /\ s.lights = s.ledstate
      /\ s.out = << >> /\ s.key_down = kb.key_down /\ s.k_down = kb.k_down
      /\ s.shift_state = kb.shift_state /\ s.npadch = kb.npadch /\ s.leds = kb.leds
      /\ kb.prev_scancode \in Prefixes
  BY DEF KInv, Fields
<1>3. b \in Bytes /\ line' \in Seq(Bytes)
  BY <1>1 DEF KInv
<1> HIDE DEF s, b
<1>4. read.prev \in Prefixes /\ read.key \in NR_KEYS \cup {0}
  BY <1>2, <1>3, TranslatedKey
<1>5. /\ DOMAIN kb' = Fields /\ kb'.prev_scancode = read.prev
      /\ kb'.lights = kb'.leds /\ kb'.ledstate = kb'.leds
      /\ read.key = 0 => Same(s, kb')
      /\ read.key # 0 => Event(s, kb', read.key, b >= 128)
  BY <1>1, <1>2, <1>3, ByteDoes
<1>6. read.key = 0 => kb'.key_down = kb.key_down
  BY <1>2, <1>5 DEF Same
<1>7. read.key # 0 => kb'.key_down = new
  BY <1>2, <1>5 DEF Event
<1>8. ASSUME lost = 0
      PROVE  /\ read.key # 0 /\ up => read.key \in kb.key_down
             /\ OnItsWay(line', kb'.prev_scancode, kb'.key_down, held')
  <2>1. OnItsWay(line, kb.prev_scancode, kb.key_down, held) /\ held \subseteq NR_KEYS \ {PAUSE}
    BY <1>8 DEF KInv
  <2>2. /\ read.key = 0 => OnItsWay(Tail(line), read.prev, kb.key_down, held)
        /\ read.key # 0 => /\ up => read.key \in kb.key_down
                           /\ OnItsWay(Tail(line), read.prev, new, held)
    BY <1>1, <2>1, GoesOn DEF b
  <2> HIDE DEF read, new, up
  <2> QED BY <1>1, <1>5, <1>6, <1>7, <2>2
<1> QED BY <1>1, <1>2, <1>3, <1>4, <1>5, <1>8 DEF s, b

LEMMA HandleKInv ==
  ASSUME KInv, HandleByte
  PROVE  KInv'
<1> DEFINE s == [kb EXCEPT !.out = << >>]
           key == translate(Head(line), kb.prev_scancode).key
           up == Head(line) >= 128
<1>1. /\ s.out = << >> /\ s.key_down = kb.key_down /\ s.k_down = kb.k_down
      /\ s.shift_state = kb.shift_state /\ s.npadch = kb.npadch /\ s.leds = kb.leds
      /\ line' \in Seq(Bytes) /\ UNCHANGED <<held, lost>>
      /\ DOMAIN kb' = Fields /\ kb'.prev_scancode \in Prefixes
      /\ key \in NR_KEYS \cup {0}
      /\ kb'.lights = kb'.leds /\ kb'.ledstate = kb'.leds
      /\ key = 0 => Same(s, kb')
      /\ key # 0 => Event(s, kb', key, up)
      /\ lost = 0 /\ key # 0 /\ up => key \in kb.key_down
      /\ lost = 0 => OnItsWay(line', kb'.prev_scancode, kb'.key_down, held')
  BY HandleDoes
<1>2. up \in BOOLEAN
  OBVIOUS
<1> HIDE DEF s, key, up
<1>3. \A m : KindsDown(s, m) = KindsDown(kb, m)
  BY <1>1 DEF KindsDown
<1>4. ASSUME NEW exact \in BOOLEAN, exact => lost = 0
      PROVE  Counted(s, exact) /\ Counted(kb', exact)
  <2>1. Counted(kb, exact)
    BY <1>4 DEF KInv
  <2>2. Counted(s, exact)
    BY <1>1, <1>3, <2>1 DEF Counted
  <2>3. CASE key = 0
    <3>1. Same(s, kb')
      BY <1>1, <2>3
    <3>2. \A m : KindsDown(kb', m) = KindsDown(s, m)
      BY <3>1 DEF Same, KindsDown
    <3> QED BY <2>2, <3>1, <3>2 DEF Same, Counted
  <2>4. CASE key # 0
    <3>1. key \in NR_KEYS /\ Event(s, kb', key, up) /\ (exact /\ up => key \in s.key_down)
      BY <1>1, <1>4, <2>4
    <3> QED BY <1>2, <2>2, <3>1, EventCounts
  <2> QED BY <2>2, <2>3, <2>4
<1>5. PadIsDelivered'
  <2> SUFFICES ASSUME lost' = 0, kb'.shift_state = {} PROVE kb'.npadch = NoCode
    BY DEF PadIsDelivered
  <2>1. lost = 0 /\ (s.shift_state = {} => s.npadch = NoCode)
    BY <1>1 DEF KInv, PadIsDelivered
  <2>2. CASE key = 0
    BY <1>1, <2>1, <2>2 DEF Same
  <2>3. CASE key # 0
    <3>1. TRUE \in BOOLEAN /\ key \in NR_KEYS /\ Event(s, kb', key, up)
      BY <1>1, <2>3
    <3>2. Counted(s, TRUE) /\ Counted(kb', TRUE)
      BY <1>4, <2>1
    <3> QED BY <1>2, <2>1, <3>1, <3>2, EventDelivers
  <2> QED BY <2>2, <2>3
<1>6. LightsShowTheFlags'
  BY <1>1 DEF LightsShowTheFlags
<1>7. \A exact \in BOOLEAN : (exact => lost' = 0) => Counted(kb', exact)
  BY <1>1, <1>4
<1>8. lost' \in Nat /\ held' \subseteq NR_KEYS \ {PAUSE}
  BY <1>1 DEF KInv
<1> QED BY <1>1, <1>5, <1>6, <1>7, <1>8 DEF KInv

LEMMA NextKInv ==
  ASSUME KInv, [KeyboardNext]_keyvars
  PROVE  KInv'
<1>1. CASE UNCHANGED keyvars
  BY <1>1 DEF KInv, keyvars, LightsShowTheFlags, PadIsDelivered
<1>2. ASSUME NEW k \in Keys \ {PAUSE}, Press(k) \/ Repeat(k) \/ Release(k) PROVE KInv'
  BY <1>2, KeyKInv
<1>3. CASE PressPause
  BY <1>3, PauseKInv
<1>4. CASE Lose
  BY <1>4, LoseKInv
<1>5. CASE HandleByte
  BY <1>5, HandleKInv
<1> QED BY <1>1, <1>2, <1>3, <1>4, <1>5 DEF KeyboardNext

\* Some key of Ctrl and of AltGr is an escaped one.
LEMMA EscapedModifiers ==
  ASSUME NEW m \in {"CTRL", "ALTGR"}
  PROVE  \E k \in NR_KEYS : Escaped(k) /\ plain_map[k] = <<"SHIFT", m>>
<1>1. RCTRL \in Common /\ ALTGR \in Common /\ Common \subseteq NR_KEYS
      /\ Escaped(RCTRL) /\ Escaped(ALTGR)
  BY OtherKeys DEF Common, Escaped, SC_LIM, RCTRL, ALTGR
<1>2. plain_map[RCTRL] = <<"SHIFT", "CTRL">> /\ plain_map[ALTGR] = <<"SHIFT", "ALTGR">>
  BY <1>1, PlainMapIsGood, CommonSymbols DEF GoodMap
<1> QED BY <1>1, <1>2

LEMMA KInvFollows ==
  ASSUME KInv
  PROVE  DriverFollowsKeys
<1>1. KeysDownAreHeld
  BY NothingLeft DEF KInv, KeysDownAreHeld
<1>2. ASSUME NEW m \in Modifiers
      PROVE  /\ m \in kb.shift_state <=> kb.k_down[m] > 0
             /\ lost = 0 => kb.k_down[m] = Cardinality(KindsDown(kb, m))
             /\ kb.k_down[m] > Cardinality(KindsDown(kb, m)) =>
                  lost > 0 /\ \E k \in NR_KEYS : Escaped(k) /\ plain_map[k] = <<"SHIFT", m>>
  <2>1. \A exact \in BOOLEAN : (exact => lost = 0) => Counted(kb, exact)
    BY DEF KInv
  <2>2. Counted(kb, FALSE) /\ (lost = 0 => Counted(kb, TRUE))
    BY <2>1
  <2>3. kb.k_down[m] \in Nat /\ Cardinality(KindsDown(kb, m)) \in Nat
    BY <2>2, KindsAreFinite DEF Counted
  <2>4. lost = 0 => kb.k_down[m] = Cardinality(KindsDown(kb, m))
    BY <2>2 DEF Counted
  <2>5. /\ m \in kb.shift_state <=> kb.k_down[m] > 0
        /\ m \notin {"CTRL", "ALTGR"} => kb.k_down[m] <= Cardinality(KindsDown(kb, m))
    BY <2>2 DEF Counted
  <2>6. lost \in Nat
    BY DEF KInv
  <2>7. ASSUME kb.k_down[m] > Cardinality(KindsDown(kb, m))
        PROVE  lost > 0 /\ \E k \in NR_KEYS : Escaped(k) /\ plain_map[k] = <<"SHIFT", m>>
    <3>1. m \in {"CTRL", "ALTGR"}
      BY <2>3, <2>5, <2>7
    <3>2. lost > 0
      BY <2>3, <2>4, <2>6, <2>7
    <3> QED BY <3>1, <3>2, EscapedModifiers
  <2> QED BY <2>4, <2>5, <2>7
<1>3. ShiftsAreHeld
  BY <1>2 DEF ShiftsAreHeld
<1> QED BY <1>1, <1>3 DEF KInv, DriverFollowsKeys

\* The driver agrees with the keyboard on the keys that are down and counts those
\* of each modifier; lost bytes put it out of step only in the ways the property
\* names (handle_scancode, do_shift and compute_shiftstate of keyboard.c).
THEOREM FollowsTheKeys == KeyboardSpec => []DriverFollowsKeys
<1>1. KInv => DriverFollowsKeys
  BY KInvFollows
<1> QED BY InitKInv, NextKInv, <1>1, PTL DEF KeyboardSpec

\* A code typed on the keypad is sent by the time the last modifier is released,
\* also under modifiers that have no map (do_shift, put_code, compute_shiftstate).
THEOREM PadIsSent == KeyboardSpec => []PadIsDelivered
<1>1. KInv => PadIsDelivered
  BY DEF KInv
<1> QED BY InitKInv, NextKInv, <1>1, PTL DEF KeyboardSpec

\* Only a byte changes the driver.
LEMMA OnlyBytesChange ==
  ASSUME [KeyboardNext]_keyvars, kb' # kb
  PROVE  HandleByte
BY DEF KeyboardNext, keyvars, Press, Repeat, Release, PressPause, Lose

\* Pause is no modifier.
LEMMA PauseIsPlain == Plain(PAUSE)
<1>1. PAUSE \in Common /\ PAUSE \in NR_KEYS
  BY OtherKeys DEF Common
<1>2. plain_map[PAUSE] = <<"FN", "PAUSE">>
  BY <1>1, PlainMapIsGood, CommonSymbols DEF GoodMap
<1> QED BY <1>2 DEF Plain

LEMMA HandleOnlyPresses ==
  ASSUME KInv, HandleByte
  PROVE  /\ Head(line) >= 128 /\ kb'.out # << >>
              => \/ kb.npadch # NoCode /\ kb'.npadch = NoCode
                 \/ lost > 0 /\ kb.prev_scancode = 224
         /\ kb'.leds # kb.leds => ~(kb'.key_down \subseteq kb.key_down)
<1> DEFINE s == [kb EXCEPT !.out = << >>]
           key == translate(Head(line), kb.prev_scancode).key
           up == Head(line) >= 128
           release == up /\ (key \in s.key_down \/ ~Escaped(key))
           rep == ~up /\ key \in s.key_down
<1>1. /\ s.out = << >> /\ s.key_down = kb.key_down /\ s.npadch = kb.npadch /\ s.leds = kb.leds
      /\ Head(line) \in Bytes /\ key \in NR_KEYS \cup {0}
      /\ key = 0 => Same(s, kb')
      /\ key # 0 => Event(s, kb', key, up)
      /\ lost = 0 /\ key # 0 /\ up => key \in kb.key_down
  BY HandleDoes
<1>2. kb.prev_scancode \in Prefixes /\ lost \in Nat
  BY DEF KInv
<1>3. key # 0 /\ Escaped(key)
        => kb.prev_scancode = 224 \/ (kb.prev_scancode = 256 /\ key = PAUSE)
  BY <1>1, <1>2, TranslatedKey
<1> HIDE DEF s, key
<1>4. key # 0 =>
        /\ kb'.key_down = IF up THEN s.key_down \ {key} ELSE s.key_down \cup {key}
        /\ \/ Recounts(s, kb')
           \/ \E m \in Modifiers : plain_map[key] = <<"SHIFT", m>>
                                   /\ Shifts(s, kb', m, release, rep)
           \/ Acts(s, kb', key, release, rep)
  BY <1>1 DEF Event
<1>5. ASSUME up, kb'.out # << >>
      PROVE  \/ kb.npadch # NoCode /\ kb'.npadch = NoCode
             \/ lost > 0 /\ kb.prev_scancode = 224
  <2>1. key # 0
    BY <1>1, <1>5 DEF Same
  <2>2. ~release => lost > 0 /\ Escaped(key)
    BY <1>1, <1>2, <1>5, <2>1
  <2>3. ~rep
    BY <1>5
  <2> HIDE DEF up, release, rep
  <2>4. CASE Recounts(s, kb')
    BY <1>1, <1>5, <2>4 DEF Recounts
  <2>5. ASSUME NEW m \in Modifiers, plain_map[key] = <<"SHIFT", m>>,
               Shifts(s, kb', m, release, rep)
        PROVE  \/ kb.npadch # NoCode /\ kb'.npadch = NoCode
               \/ lost > 0 /\ kb.prev_scancode = 224
    <3>1. CASE release
      BY <1>1, <1>5, <2>3, <2>5, <3>1 DEF Shifts
    <3>2. CASE ~release
      <4>1. key # PAUSE
        BY <2>5, PauseIsPlain DEF Plain
      <4> QED BY <1>3, <2>1, <2>2, <3>2, <4>1
    <3> QED BY <3>1, <3>2
  <2>6. CASE Acts(s, kb', key, release, rep)
    <3>1. ~release /\ key # PAUSE
      BY <1>1, <1>5, <2>6 DEF Acts
    <3> QED BY <1>3, <2>1, <2>2, <3>1
  <2> QED BY <1>4, <2>1, <2>4, <2>5, <2>6
<1>6. ASSUME kb'.leds # kb.leds, kb'.key_down \subseteq kb.key_down PROVE FALSE
  <2>1. key # 0
    BY <1>1, <1>6 DEF Same
  <2>2. ~Recounts(s, kb') /\ \A m : ~Shifts(s, kb', m, release, rep)
    BY <1>1, <1>6 DEF Recounts, Shifts
  <2>3. Acts(s, kb', key, release, rep)
    BY <1>4, <2>1, <2>2
  <2>4. ~rep /\ ~Escaped(key) /\ ~release
    BY <1>1, <1>6, <2>3 DEF Acts
  <2>5. ~up /\ key \notin s.key_down
    BY <2>4
  <2> QED BY <1>1, <1>4, <1>6, <2>1, <2>5
<1> HIDE DEF up
<1>7. up => (kb'.out # << >> => \/ kb.npadch # NoCode /\ kb'.npadch = NoCode
                                \/ lost > 0 /\ kb.prev_scancode = 224)
  BY <1>5
<1> QED BY <1>6, <1>7 DEF up

\* A release sends nothing but the code of the keypad, with the one exception of
\* an escaped key that was not down, and a lock changes once however often its
\* key repeats (key_handler, unexpected_up, chg_vc_kbd_led).
THEOREM ReleasesAreSilent == KeyboardSpec => OnlyPressesCount
<1> DEFINE Body ==
      /\ kb' # kb /\ Head(line) >= 128 /\ kb'.out # << >>
           => \/ kb.npadch # NoCode /\ kb'.npadch = NoCode
              \/ lost > 0 /\ kb.prev_scancode = 224
      /\ kb'.leds # kb.leds => ~(kb'.key_down \subseteq kb.key_down)
<1>1. ASSUME KInv, [KeyboardNext]_keyvars PROVE Body
  <2>1. CASE kb' # kb
    BY <1>1, <2>1, OnlyBytesChange, HandleOnlyPresses
  <2>2. CASE kb' = kb
    BY <2>2
  <2> QED BY <2>1, <2>2
<1>2. KInv /\ [KeyboardNext]_keyvars => [Body]_keyvars
  BY <1>1
<1> QED BY InitKInv, NextKInv, <1>2, PTL DEF KeyboardSpec, OnlyPressesCount

-----------------------------------------------------------------------------
(* What a letter types *)

\* A letter that is on its way alone is pressed, and everything else is settled.
LEMMA LetterLeft ==
  ASSUME NEW p, NEW down, NEW keys, OnItsWay(<<LETTER>>, p, down, keys)
  PROVE  p = 0 /\ keys = down \cup {LETTER}
<1>1. <<LETTER>> # << >> /\ <<LETTER>> # <<224, 170>> /\ <<LETTER>> # << 170 >>
  BY DEF LETTER
<1>2. ~PauseLeft(<<LETTER>>, p) /\ ~PauseEnd(<<LETTER>>, p)
  BY DEF LETTER, PauseLeft, PauseEnd, PauseBytes
<1>3. PICK k \in NR_KEYS \ {PAUSE}, up \in BOOLEAN :
        /\ Left(k, <<LETTER>>, p, up)
        /\ up => k \in down /\ keys = down \ {k}
        /\ ~up => keys = down \cup {k}
  BY <1>1, <1>2 DEF OnItsWay
<1> DEFINE b == Byte(k, up)
           e == Byte(Code(k), up)
<1>4. \/ ~Escaped(k) /\ p = 0 /\ <<LETTER>> = <<b>>
      \/ Escaped(k) /\ <<LETTER>> = <<e>>
  BY <1>3 DEF Left
<1>5. Escaped(k) => e \in {28, 29, 56, 70, 79} \/ e \in {156, 157, 184, 198, 207}
  BY CodeOf DEF Byte
<1>6. ~Escaped(k) => (up => b \notin Codes) /\ (~up => b = k)
  BY EscapedKeys DEF Byte, Codes
<1> HIDE DEF b, e
<1>7. LETTER \in Codes /\ LETTER \notin {28, 29, 56, 70, 79}
      /\ LETTER \notin {156, 157, 184, 198, 207}
  BY DEF LETTER, Codes
<1>8. ~Escaped(k) /\ p = 0 /\ LETTER = b
  BY <1>4, <1>5, <1>7
<1> QED BY <1>3, <1>6, <1>7, <1>8

\* The case of the letter a.
LEMMA LetterTypes ==
  ASSUME NEW s, DOMAIN s = Fields, s.out = << >>, NEW up \in BOOLEAN, ~up
  PROVE  LET t == key_event(s, LETTER, up) IN
         /\ s.shift_state \notin Mapped => t.out = << >>
         /\ s.shift_state \in {{}, {"SHIFT"}} =>
              t.out = <<<<"char", IF (s.shift_state # {}) # ("CAPS" \in s.leds)
                                  THEN "A" ELSE "a">>>>
<1> DEFINE t == key_event(s, LETTER, up)
           down == LETTER \in s.key_down
           d == [s EXCEPT !.key_down = IF up THEN s.key_down \ {LETTER}
                                       ELSE s.key_down \cup {LETTER}]
           release == up /\ (down \/ unexpected_up(LETTER))
           rep == ~up /\ down
           sym == Keysym(s, LETTER)
           c == IF (s.shift_state # {}) # ("CAPS" \in s.leds) THEN "A" ELSE "a"
<1>1. t = IF s.shift_state \in DOMAIN key_maps THEN key_handler(d, sym, release, rep)
          ELSE compute_shiftstate(d)
  BY DEF key_event
<1>2. DOMAIN key_maps = Mapped
  BY DEF key_maps
<1>3. DOMAIN d = Fields /\ d.out = << >>
  BY DEF Fields
<1>4. ~release
  OBVIOUS
<1> HIDE DEF d, t, release, rep
<1>5. ASSUME s.shift_state \notin Mapped PROVE t.out = << >>
  BY <1>1, <1>2, <1>3, <1>5, ComputeDoes DEF Recounts
<1>6. ASSUME s.shift_state \in {{}, {"SHIFT"}} PROVE t.out = <<<<"char", c>>>>
  <2>1. {} \in Mapped /\ {"SHIFT"} \in Mapped /\ {"SHIFT"} # {}
    BY DEF Mapped
  <2>2. key_maps[{}][LETTER] = <<"LETTER", "a">> /\ key_maps[{"SHIFT"}][LETTER] = <<"LETTER", "A">>
    <3>1. key_maps[{}] = plain_map /\ key_maps[{"SHIFT"}] = shift_map
      BY <2>1 DEF key_maps
    <3>2. plain_map[LETTER] = <<"LETTER", "a">> /\ shift_map[LETTER] = <<"LETTER", "A">>
      BY DEF plain_map, shift_map, NR_KEYS, LETTER, DIGIT, F1, SCROLLLOCK
    <3> QED BY <3>1, <3>2
  <2>3. sym = <<"LETTER", c>>
    <3>1. Toggle({}, "SHIFT") = {"SHIFT"} /\ Toggle({"SHIFT"}, "SHIFT") = {}
      BY DEF Toggle
    <3> DEFINE other == Toggle(s.shift_state, "SHIFT")
               plain == key_maps[s.shift_state][LETTER]
    <3>2. sym = IF plain[1] = "LETTER" /\ "CAPS" \in s.leds /\ other \in DOMAIN key_maps
                THEN key_maps[other][LETTER] ELSE plain
      BY DEF Keysym
    <3> HIDE DEF other, plain, sym
    <3>3. CASE s.shift_state = {}
      <4>1. other = {"SHIFT"} /\ plain = <<"LETTER", "a">>
        BY <2>2, <3>1, <3>3 DEF other, plain
      <4>2. sym = IF "CAPS" \in s.leds THEN <<"LETTER", "A">> ELSE <<"LETTER", "a">>
        BY <1>2, <2>1, <2>2, <3>2, <4>1
      <4> QED BY <3>3, <4>2
    <3>4. CASE s.shift_state = {"SHIFT"}
      <4>1. other = {} /\ plain = <<"LETTER", "A">>
        BY <2>2, <3>1, <3>4 DEF other, plain
      <4>2. sym = IF "CAPS" \in s.leds THEN <<"LETTER", "a">> ELSE <<"LETTER", "A">>
        BY <1>2, <2>1, <2>2, <3>2, <4>1
      <4> QED BY <2>1, <3>4, <4>2
    <3> QED BY <1>6, <3>3, <3>4
  <2> HIDE DEF sym, c
  <2>4. t = put_queue(d, c)
    BY <1>1, <1>2, <1>6, <1>4, <2>1, <2>3 DEF key_handler, do_self
  <2>5. t.out = Append(d.out, <<"char", c>>)
    BY <1>3, <2>4 DEF put_queue, Fields
  <2> QED BY <1>3, <2>5
<1> QED BY <1>5, <1>6 DEF t

LEMMA LetterHandled ==
  ASSUME KInv, HandleByte, lost = 0, line = <<LETTER>>
  PROVE  /\ held = kb.key_down \cup {LETTER}
         /\ kb.shift_state \notin Mapped => kb'.out = << >>
         /\ kb.shift_state \in {{}, {"SHIFT"}} =>
              kb'.out = <<<<"char", IF (kb.shift_state # {}) # ("CAPS" \in kb.leds)
                                    THEN "A" ELSE "a">>>>
<1> DEFINE s == [kb EXCEPT !.out = << >>]
           started == IF s.ledstate = Unknown THEN kbd_bh(s) ELSE s
           read == translate(LETTER, started.prev_scancode)
           up == LETTER >= 128
           u == [started EXCEPT !.prev_scancode = read.prev]
           t == key_event(u, read.key, up)
<1>1. kb.prev_scancode = 0 /\ held = kb.key_down \cup {LETTER}
  BY LetterLeft DEF KInv
<1>2. LETTER \in Codes /\ LETTER \in Bytes /\ 0 \in Prefixes /\ LETTER # 0 /\ ~(LETTER >= 128)
  BY DEF LETTER, Codes, Bytes, Prefixes
<1>3. translate(LETTER, 0) = [prev |-> 0, key |-> LETTER]
  BY <1>2, Translated
<1>4. /\ DOMAIN s = Fields /\ s.prev_scancode = 0 /\ s.out = << >>
      /\ s.shift_state = kb.shift_state /\ s.leds = kb.leds
  BY <1>1 DEF KInv, Fields
<1>5. kb' = do_scancode(s, LETTER)
  <2>1. Head(line) = LETTER
    BY Shorter
  <2> QED BY <2>1 DEF HandleByte
<1> HIDE DEF s
<1>6. /\ DOMAIN started = Fields /\ started.prev_scancode = 0 /\ Same(s, started)
  <2>1. CASE s.ledstate = Unknown
    BY <1>4, <2>1, BottomHalfDoes
  <2>2. CASE s.ledstate # Unknown
    BY <1>4, <2>2 DEF Same
  <2> QED BY <2>1, <2>2
<1>7. kb' = kbd_bh(handle_scancode(started, LETTER))
  BY <1>2, <1>5, BytesAreNats DEF do_scancode
<1> HIDE DEF started
<1>8. read.key = LETTER /\ handle_scancode(started, LETTER) = t
  <2>1. read.key = LETTER
    BY <1>3, <1>6
  <2>2. handle_scancode(started, LETTER) = IF read.key = 0 THEN u ELSE t
    BY DEF handle_scancode
  <2> HIDE DEF read, u, t
  <2> QED BY <1>2, <2>1, <2>2
<1>9. up \in BOOLEAN /\ ~up
  BY <1>2
<1> HIDE DEF read, up
<1>10. /\ DOMAIN u = Fields /\ u.out = << >> /\ u.shift_state = kb.shift_state
      /\ u.leds = kb.leds
  BY <1>4, <1>6 DEF Same, Fields
<1> HIDE DEF u
<1>11. DOMAIN t = Fields
  <2>1. LETTER \in NR_KEYS
    BY OtherKeys
  <2> QED BY <1>8, <1>10, <1>9, <2>1, KeyEventDoes DEF Elsewhere
<1> HIDE DEF t
<1>12. kb'.out = t.out
  BY <1>7, <1>8, <1>11, BottomHalfDoes DEF Same
<1>13. /\ kb.shift_state \notin Mapped => t.out = << >>
       /\ kb.shift_state \in {{}, {"SHIFT"}} =>
            t.out = <<<<"char", IF (kb.shift_state # {}) # ("CAPS" \in kb.leds)
                                THEN "A" ELSE "a">>>>
  BY <1>8, <1>10, <1>9, LetterTypes DEF t
<1> QED BY <1>1, <1>12, <1>13

\* The modifiers that are on are those whose keys are held.
LEMMA HeldModifiers ==
  ASSUME KInv, lost = 0, held = kb.key_down \cup {LETTER}
  PROVE  {m \in Modifiers : \E k \in held : plain_map[k] = <<"SHIFT", m>>} = kb.shift_state
<1>1. Counted(kb, TRUE)
  <2>1. TRUE \in BOOLEAN
    OBVIOUS
  <2> QED BY <2>1 DEF KInv
<1>2. kb.shift_state \subseteq Modifiers /\ kb.key_down \subseteq NR_KEYS
  BY <1>1 DEF Counted
<1>3. ASSUME NEW m \in Modifiers
      PROVE  m \in kb.shift_state <=> \E k \in held : plain_map[k] = <<"SHIFT", m>>
  <2>1. m \in kb.shift_state <=> Cardinality(KindsDown(kb, m)) > 0
    BY <1>1 DEF Counted
  <2>2. Cardinality(KindsDown(kb, m)) > 0 <=> KindsDown(kb, m) # {}
    <3>1. IsFiniteSet(KindsDown(kb, m)) /\ Cardinality(KindsDown(kb, m)) \in Nat
      BY <1>2, KindsAreFinite
    <3>2. Cardinality(KindsDown(kb, m)) = 0 <=> KindsDown(kb, m) = {}
      BY <3>1, FS_EmptySet
    <3> QED BY <3>1, <3>2
  <2>3. plain_map[LETTER] # <<"SHIFT", m>>
    BY DEF plain_map, NR_KEYS
  <2>4. KindsDown(kb, m) # {} <=> \E k \in held : plain_map[k] = <<"SHIFT", m>>
    BY <2>3 DEF KindsDown
  <2> QED BY <2>1, <2>2, <2>4
<1> QED BY <1>2, <1>3

\* A letter is a capital when exactly one of Shift and CapsLock is on, and keys
\* held under modifiers that have no map type nothing (key_event and its maps).
THEOREM LettersAreTyped == KeyboardSpec => TypesWhatIsHeld
<1> DEFINE mods == {m \in Modifiers : \E k \in held : plain_map[k] = <<"SHIFT", m>>}
           Body ==
             lost' = 0 /\ line = <<LETTER>> /\ line' = << >>
               => /\ mods \subseteq {"SHIFT"} =>
                       kb'.out = <<<<"char", IF (mods # {}) # ("CAPS" \in kb.leds)
                                             THEN "A" ELSE "a">>>>
                  /\ mods \notin DOMAIN key_maps => kb'.out = << >>
<1>1. ASSUME KInv, [KeyboardNext]_keyvars PROVE Body
  <2> SUFFICES ASSUME lost' = 0, line = <<LETTER>>, line' = << >>
               PROVE  /\ mods \subseteq {"SHIFT"} =>
                           kb'.out = <<<<"char", IF (mods # {}) # ("CAPS" \in kb.leds)
                                                 THEN "A" ELSE "a">>>>
                      /\ mods \notin DOMAIN key_maps => kb'.out = << >>
    OBVIOUS
  <2>1. line # << >>
    OBVIOUS
  <2>2. ~Lose
    BY <1>1 DEF KInv, Lose
  <2>3. HandleByte
    BY <1>1, <2>1, <2>2 DEF KeyboardNext, keyvars, Press, Repeat, Release, PressPause
  <2>4. lost = 0
    BY <2>3 DEF HandleByte
  <2>5. /\ held = kb.key_down \cup {LETTER}
        /\ kb.shift_state \notin Mapped => kb'.out = << >>
        /\ kb.shift_state \in {{}, {"SHIFT"}} =>
             kb'.out = <<<<"char", IF (kb.shift_state # {}) # ("CAPS" \in kb.leds)
                                   THEN "A" ELSE "a">>>>
    BY <1>1, <2>3, <2>4, LetterHandled
  <2>6. mods = kb.shift_state
    BY <1>1, <2>4, <2>5, HeldModifiers
  <2> HIDE DEF mods
  <2>7. DOMAIN key_maps = Mapped
    BY DEF key_maps
  <2>8. mods \subseteq {"SHIFT"} => mods \in {{}, {"SHIFT"}}
    OBVIOUS
  <2> QED BY <2>5, <2>6, <2>7, <2>8
<1>2. KInv /\ [KeyboardNext]_keyvars => [Body]_keyvars
  BY <1>1
<1> QED BY InitKInv, NextKInv, <1>2, PTL DEF KeyboardSpec, TypesWhatIsHeld

=============================================================================
