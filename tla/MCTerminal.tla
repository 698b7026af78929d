----------------------------- MODULE MCTerminal -----------------------------
(***************************************************************************)
(* The two ends of the terminal, one to a behaviour.  The keyboard has a   *)
(* letter, the modifiers, the locks, the keypad and the keys of several    *)
(* bytes: three down at once, of which one is not a modifier, and one byte *)
(* lost; an int has 16 values and a char 8, so that a code of two digits   *)
(* overflows both.  The screen has two lines of three columns, and two     *)
(* processes print on it.                                                  *)
(***************************************************************************)
EXTENDS Keyboard, Console

VARIABLE part   \* the end that runs

Init == part \in {"keyboard", "console"} /\ KeyboardInit /\ ConsoleInit

Next ==
  \/ part = "keyboard" /\ KeyboardNext /\ UNCHANGED <<part, consolevars>>
  \/ part = "console" /\ ConsoleNext /\ UNCHANGED <<part, keyvars>>

Spec == Init /\ [][Next]_<<part, keyvars, consolevars>>

MCKeys == {LETTER, LSHIFT, RSHIFT, LCTRL, LALT, ALTGR, CAPSLOCK, NUMLOCK,
           KP1, END, PAUSE}
=============================================================================
