----------------------------- MODULE DefKeymap -----------------------------
(***************************************************************************)
(* The key maps of kernel/kbd-linux/defkeymap.c, for the keys the model    *)
(* has: a letter, a digit, Enter, F1, the modifiers, the locks, two keys   *)
(* of the keypad, End, Break and Pause.  A key symbol is its type and its  *)
(* value; a key is its keycode.                                            *)
(***************************************************************************)
LETTER == 16
DIGIT == 2
ENTER == 28
F1 == 59
LSHIFT == 42
RSHIFT == 54
LALT == 56
LCTRL == 29
CAPSLOCK == 58
NUMLOCK == 69
SCROLLLOCK == 70
KP1 == 79
KPENTER == 96
RCTRL == 97
ALTGR == 100
BREAK == 101
END == 107
PAUSE == 119

\* The keys of the model, of the NR_KEYS keycodes a map has room for.
NR_KEYS == {LETTER, DIGIT, ENTER, F1, LSHIFT, RSHIFT, LALT, LCTRL, CAPSLOCK, NUMLOCK,
            SCROLLLOCK, KP1, KPENTER, RCTRL, ALTGR, BREAK, END, PAUSE}

Modifiers == {"SHIFT", "ALTGR", "CTRL", "ALT"}

HOLE == <<"SPEC", "do_null">>

\* The keys that mean the same under every map.
Everywhere(k) ==
  CASE k \in {LSHIFT, RSHIFT} -> <<"SHIFT", "SHIFT">>
    [] k \in {LCTRL, RCTRL}   -> <<"SHIFT", "CTRL">>
    [] k = LALT               -> <<"SHIFT", "ALT">>
    [] k = ALTGR              -> <<"SHIFT", "ALTGR">>
    [] k = CAPSLOCK           -> <<"SPEC", "caps_toggle">>
    [] k = BREAK              -> <<"SPEC", "send_intr">>
    [] k = END                -> <<"FN", "SELECT">>
    [] k = PAUSE              -> <<"FN", "PAUSE">>

\* The keypad, NumLock and Enter where a map gives them no other meaning.
Keypad(k) ==
  CASE k = NUMLOCK -> <<"SPEC", "num">>
    [] k = KP1     -> <<"PAD", "1">>
    [] k = KPENTER -> <<"PAD", "ENTER">>
    [] k = ENTER   -> <<"SPEC", "enter">>
    [] OTHER       -> Everywhere(k)

plain_map ==
  [k \in NR_KEYS |->
     CASE k = LETTER     -> <<"LETTER", "a">>
       [] k = DIGIT      -> <<"LATIN", "&">>
       [] k = F1         -> <<"FN", "F1">>
       [] k = SCROLLLOCK -> <<"SPEC", "hold">>
       [] OTHER          -> Keypad(k)]

shift_map ==
  [k \in NR_KEYS |->
     CASE k = LETTER     -> <<"LETTER", "A">>
       [] k = DIGIT      -> <<"LATIN", "1">>
       [] k = F1         -> <<"FN", "F13">>
       [] k = SCROLLLOCK -> <<"SPEC", "show_mem">>
       [] OTHER          -> Keypad(k)]

\* With AltGr the keypad enters a character by its code in hexadecimal.
altgr_map ==
  [k \in NR_KEYS |->
     CASE k = LETTER        -> <<"LETTER", "a">>
       [] k \in {DIGIT, F1} -> HOLE
       [] k = SCROLLLOCK    -> <<"SPEC", "show_ptregs">>
       [] k = NUMLOCK       -> <<"ASCII", 20>>
       [] k = KP1           -> <<"ASCII", 11>>
       [] k = KPENTER       -> <<"ASCII", 25>>
       [] OTHER             -> Keypad(k)]

ctrl_map ==
  [k \in NR_KEYS |->
     CASE k = LETTER     -> <<"LATIN", "^A">>
       [] k = DIGIT      -> HOLE
       [] k = F1         -> <<"FN", "F25">>
       [] k = SCROLLLOCK -> <<"SPEC", "show_state">>
       [] OTHER          -> Keypad(k)]

altgr_ctrl_map ==
  [k \in NR_KEYS |->
     CASE k = LETTER                    -> <<"LATIN", "^A">>
       [] k \in {DIGIT, F1, SCROLLLOCK} -> HOLE
       [] OTHER                         -> Keypad(k)]

\* With Alt the keypad enters a character by its code in decimal.
alt_map ==
  [k \in NR_KEYS |->
     CASE k = LETTER     -> <<"META", "a">>
       [] k = DIGIT      -> <<"META", "1">>
       [] k = F1         -> <<"CONS", "0">>
       [] k = SCROLLLOCK -> <<"SPEC", "hold">>
       [] k = KP1        -> <<"ASCII", 1>>
       [] k = ENTER      -> <<"META", "\r">>
       [] OTHER          -> Keypad(k)]

ctrl_alt_map ==
  [k \in NR_KEYS |->
     CASE k = LETTER                -> <<"META", "^A">>
       [] k \in {DIGIT, SCROLLLOCK} -> HOLE
       [] k = F1                    -> <<"CONS", "0">>
       [] OTHER                     -> Keypad(k)]

\* The other sets of modifiers have no map.
Mapped == {{}, {"SHIFT"}, {"ALTGR"}, {"CTRL"}, {"ALTGR", "CTRL"}, {"ALT"}, {"CTRL", "ALT"}}

key_maps ==
  [mods \in Mapped |->
     CASE mods = {}                -> plain_map
       [] mods = {"SHIFT"}         -> shift_map
       [] mods = {"ALTGR"}         -> altgr_map
       [] mods = {"CTRL"}          -> ctrl_map
       [] mods = {"ALTGR", "CTRL"} -> altgr_ctrl_map
       [] mods = {"ALT"}           -> alt_map
       [] mods = {"CTRL", "ALT"}   -> ctrl_alt_map]

\* The function keys that have a string.
func_table == {"F1", "F13", "SELECT"}
=============================================================================
