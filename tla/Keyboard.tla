------------------------------ MODULE Keyboard ------------------------------
(***************************************************************************)
(* A keyboard whose bytes reach do_scancode (kernel/keyboard-glue.c) and,  *)
(* behind it, scancode.c and keyboard.c of kernel/kbd-linux: keys that are *)
(* pressed, repeated and released in any order, several of them down at    *)
(* once, and bytes that are lost on their way.  The driver stays in the    *)
(* mode kbd_init sets, because nothing in the kernel changes it, and no    *)
(* key of its maps is a dead key, a lock of a modifier or a sticky one.    *)
(***************************************************************************)
EXTENDS DefKeymap, FiniteSets, Integers, Sequences

CONSTANTS
  Keys,       \* the keys of this keyboard, a subset of NR_KEYS
  MaxHeld,    \* how many are held down together
  MaxPlain,   \* how many of these are not modifiers
  MaxLost,    \* how many bytes are lost
  IntSize,    \* 2^32: the number of values of an int
  CharSize    \* 2^8: the number of values of a character

VARIABLES
  line,       \* the bytes sent and not handled yet
  held,       \* the keys held down
  lost,       \* the number of bytes lost
  kb          \* the state of the driver

ASSUME KeysAssumption == Keys \subseteq NR_KEYS

keyvars == <<line, held, lost, kb>>

NoCode == IntSize - 1   \* npadch = -1
Unknown == {"undefined"}  \* 0xff: ledstate before the first byte

----------------------------------------------------------------------------
\* scancode.c

SC_LIM == 89
E1_PAUSE == 119

high_keys(code) ==
  CASE code = 89  -> 124 [] code = 90  -> 125 [] code = 91  -> 126 [] code = 92  -> 127
    [] code = 109 -> 122 [] code = 111 -> 123 [] code = 115 -> 89  [] code = 116 -> 120
    [] code = 119 -> 90  [] code = 120 -> 91  [] code = 121 -> 92  [] code = 122 -> 93
    [] code = 123 -> 94  [] code = 124 -> 95  [] code = 125 -> 124 [] code = 126 -> 121
    [] OTHER -> 0

e0_keys(code) ==
  CASE code = 28 -> 96  [] code = 29 -> 97  [] code = 53 -> 98  [] code = 55 -> 99
    [] code = 56 -> 100 [] code = 61 -> 113 [] code = 62 -> 114 [] code = 63 -> 115
    [] code = 64 -> 116 [] code = 65 -> 117 [] code = 70 -> 101 [] code = 71 -> 102
    [] code = 72 -> 103 [] code = 73 -> 104 [] code = 75 -> 105 [] code = 76 -> 124
    [] code = 77 -> 106 [] code = 78 -> 118 [] code = 79 -> 107 [] code = 80 -> 108
    [] code = 81 -> 109 [] code = 82 -> 110 [] code = 83 -> 111 [] code = 91 -> 125
    [] code = 92 -> 126 [] code = 93 -> 127 [] code = 111 -> 112
    [] OTHER -> 0

\* The new prev_scancode and the keycode, 0 when there is none yet.
translate(byte, prev) ==
  LET code == byte % 128
      result(p, k) == [prev |-> p, key |-> k]
  IN  CASE byte \in {224, 225} -> result(byte, 0)
        [] byte \in {0, 255}   -> result(0, 0)
        [] byte \notin {0, 224, 225, 255} /\ prev = 0 ->
             result(0, IF code >= SC_LIM THEN high_keys(code) ELSE code)
        [] byte \notin {0, 224, 225, 255} /\ prev = 224 ->
             result(0, IF code \in {42, 54} THEN 0 ELSE e0_keys(code))
        [] byte \notin {0, 224, 225, 255} /\ prev = 225 ->
             result(IF code = 29 THEN 256 ELSE 0, 0)
        [] byte \notin {0, 224, 225, 255} /\ prev = 256 ->
             result(0, IF code = 69 THEN E1_PAUSE ELSE 0)

\* Whether the release of a key that is not down is still taken as a release.
unexpected_upNever(key) == FALSE

unexpected_up(key) == ~(key >= SC_LIM \/ key = 85)

----------------------------------------------------------------------------
\* keyboard.c: the handlers, on the state s of the driver

put_queue(s, c) == [s EXCEPT !.out = Append(@, <<"char", c>>)]

put_codeKeeping(s) == [s EXCEPT !.out = Append(@, <<"code", s.npadch % CharSize>>)]

put_code(s) ==
  [s EXCEPT !.out = Append(@, <<"code", s.npadch % CharSize>>), !.npadch = NoCode]

KindsDown(s, kind) == {k \in s.key_down : plain_map[k] = <<"SHIFT", kind>>}

compute_shiftstateUncounted(s) ==
  [s EXCEPT !.shift_state = {m \in Modifiers : KindsDown(s, m) # {}}]

compute_shiftstate(s) ==
  LET down == [m \in Modifiers |-> Cardinality(KindsDown(s, m))] IN
  [s EXCEPT !.k_down = down, !.shift_state = {m \in Modifiers : down[m] > 0}]

\* A release that changes the modifiers sends the code assembled on the keypad.
do_shift(s, kind, up, rep) ==
  LET count == IF up THEN IF s.k_down[kind] > 0 THEN s.k_down[kind] - 1 ELSE 0
               ELSE s.k_down[kind] + 1
      mods == IF count > 0 THEN s.shift_state \cup {kind} ELSE s.shift_state \ {kind}
      moved == [s EXCEPT !.k_down[kind] = count, !.shift_state = mods]
  IN  CASE rep -> s
        [] ~rep /\ up /\ mods # s.shift_state /\ s.npadch # NoCode ->
             put_code(moved)
        [] OTHER -> moved

do_self(s, c) == put_queue(s, c)

do_meta(s, c) == put_queue(put_queue(s, "ESC"), c)

do_fn(s, f) == IF f \in func_table THEN put_queue(s, f) ELSE s

do_pad(s, key) ==
  IF "NUM" \notin s.leds /\ key = "1" THEN do_fn(s, "SELECT") ELSE put_queue(s, key)

do_ascii(s, value) ==
  LET digit == IF value < 10 THEN value ELSE value - 10
      base == IF value < 10 THEN 10 ELSE 16
  IN  [s EXCEPT !.npadch =
         IF s.npadch = NoCode THEN digit ELSE (s.npadch * base + digit) % IntSize]

Toggle(set, x) == IF x \in set THEN set \ {x} ELSE set \cup {x}

chg_vc_kbd_led(s, led, rep) == IF rep THEN s ELSE [s EXCEPT !.leds = Toggle(@, led)]

hold(s, rep) == IF rep THEN s ELSE [s EXCEPT !.stopped = ~s.stopped]

\* send_intr, show_mem, show_ptregs and show_state do nothing in this kernel.
do_spec(s, f, rep) ==
  CASE f = "do_null"     -> compute_shiftstate(s)
    [] f = "enter"       -> put_queue(s, "\r")
    [] f = "caps_toggle" -> chg_vc_kbd_led(s, "CAPS", rep)
    [] f = "num"         -> chg_vc_kbd_led(s, "NUM", rep)
    [] f = "hold"        -> hold(s, rep)
    [] OTHER             -> s

KeysymIgnoringCaps(s, key) == key_maps[s.shift_state][key]

\* CapsLock looks a letter up in the map with Shift the other way, if it has one.
Keysym(s, key) ==
  LET other == Toggle(s.shift_state, "SHIFT")
      sym == key_maps[s.shift_state][key]
  IN  IF sym[1] = "LETTER" /\ "CAPS" \in s.leds /\ other \in DOMAIN key_maps
      THEN key_maps[other][key] ELSE sym

\* do_cons asks for a console, and there is only one.
key_handler(s, sym, up, rep) ==
  CASE sym[1] = "SHIFT"                   -> do_shift(s, sym[2], up, rep)
    [] sym[1] # "SHIFT" /\ up             -> s
    [] sym[1] \in {"LATIN", "LETTER"} /\ ~up -> do_self(s, sym[2])
    [] sym[1] = "META" /\ ~up             -> do_meta(s, sym[2])
    [] sym[1] = "FN" /\ ~up               -> do_fn(s, sym[2])
    [] sym[1] = "PAD" /\ ~up              -> do_pad(s, sym[2])
    [] sym[1] = "ASCII" /\ ~up            -> do_ascii(s, sym[2])
    [] sym[1] = "SPEC" /\ ~up             -> do_spec(s, sym[2], rep)
    [] sym[1] = "CONS" /\ ~up             -> s

\* A key of which only the release was seen counts as pressed if it is not one
\* of the plain keys.
key_event(s, key, up) ==
  LET down == key \in s.key_down
      t == [s EXCEPT !.key_down = IF up THEN @ \ {key} ELSE @ \cup {key}]
      release == up /\ (down \/ unexpected_up(key))
  IN  IF s.shift_state \in DOMAIN key_maps
      THEN key_handler(t, Keysym(s, key), release, ~up /\ down)
      ELSE compute_shiftstate(t)

handle_scancode(s, byte) ==
  LET read == translate(byte, s.prev_scancode)
      t == [s EXCEPT !.prev_scancode = read.prev]
  IN  IF read.key = 0 THEN t ELSE key_event(t, read.key, byte >= 128)

\* The bottom half: the lights follow the flags.
kbd_bh(s) ==
  IF s.leds # s.ledstate THEN [s EXCEPT !.ledstate = s.leds, !.lights = s.leds] ELSE s

\* The first byte starts the driver.
do_scancode(s, byte) ==
  LET started == IF s.ledstate = Unknown THEN kbd_bh(s) ELSE s IN
  IF byte \in {0, 255} THEN started ELSE kbd_bh(handle_scancode(started, byte))

kbd_init ==
  [prev_scancode |-> 0, key_down |-> {}, k_down |-> [m \in Modifiers |-> 0],
   shift_state |-> {}, npadch |-> NoCode, leds |-> {}, stopped |-> FALSE,
   ledstate |-> Unknown, lights |-> Unknown, out |-> << >>]

----------------------------------------------------------------------------
\* The keyboard, which is outside the kernel

Escaped(k) == k >= SC_LIM

Code(k) == IF Escaped(k) THEN CHOOSE c \in 0..127 : e0_keys(c) = k ELSE k

Plain(k) == plain_map[k][1] # "SHIFT"

PauseBytes == <<225, 29, 69, 225, 157, 197>>

\* An escaped key in the NumLock state of the keyboard also sends a false Shift.
Made(k) ==
  IF Escaped(k) THEN {<<224, Code(k)>>} \cup
                     (IF k = END THEN {<<224, 42, 224, Code(k)>>} ELSE {})
  ELSE {<<Code(k)>>}

Broken(k) ==
  IF Escaped(k) THEN {<<224, Code(k) + 128>>} \cup
                     (IF k = END THEN {<<224, Code(k) + 128, 224, 170>>} ELSE {})
  ELSE {<<Code(k) + 128>>}

Press(k) ==
  /\ line = << >> /\ k \notin held /\ Cardinality(held) < MaxHeld
  /\ Plain(k) => Cardinality({j \in held : Plain(j)}) < MaxPlain
  /\ line' \in Made(k)
  /\ held' = held \cup {k}
  /\ UNCHANGED <<lost, kb>>

PressPause ==
  /\ line = << >> /\ PAUSE \in Keys
  /\ line' = PauseBytes
  /\ UNCHANGED <<held, lost, kb>>

Repeat(k) ==
  /\ line = << >> /\ k \in held
  /\ line' \in Made(k)
  /\ UNCHANGED <<held, lost, kb>>

Release(k) ==
  /\ line = << >> /\ k \in held
  /\ line' \in Broken(k)
  /\ held' = held \ {k}
  /\ UNCHANGED <<lost, kb>>

\* A byte is lost.  An error code in its place would change nothing, because
\* do_scancode lets none through.
Lose ==
  /\ line # << >> /\ lost < MaxLost
  /\ line' = Tail(line)
  /\ lost' = lost + 1
  /\ UNCHANGED <<held, kb>>

HandleByte ==
  /\ line # << >>
  /\ kb' = do_scancode([kb EXCEPT !.out = << >>], Head(line))
  /\ line' = Tail(line)
  /\ UNCHANGED <<held, lost>>

KeyboardInit == line = << >> /\ held = {} /\ lost = 0 /\ kb = kbd_init

KeyboardNext ==
  \/ \E k \in Keys \ {PAUSE} : Press(k) \/ Repeat(k) \/ Release(k)
  \/ PressPause
  \/ Lose
  \/ HandleByte

KeyboardSpec == KeyboardInit /\ [][KeyboardNext]_keyvars

----------------------------------------------------------------------------
\* Properties

\* When no byte was lost and none is on its way, the driver holds down exactly
\* the keys that are down: a prefix is never taken for part of the next key.
KeysDownAreHeld ==
  lost = 0 /\ line = << >> => kb.key_down = held /\ kb.prev_scancode = 0

\* A modifier is on because a key of it is down, and counts its keys.  Lost bytes
\* can make it count too few.  Only a modifier that has an escaped key can count
\* too many and stay on with its keys up: the release of an escaped key whose
\* press was lost is taken for a press.
ShiftsAreHeld ==
  \A m \in Modifiers :
    LET keys == Cardinality(KindsDown(kb, m)) IN
    /\ m \in kb.shift_state <=> kb.k_down[m] > 0
    /\ lost = 0 => kb.k_down[m] = keys
    /\ kb.k_down[m] > keys =>
         lost > 0 /\ \E k \in NR_KEYS : Escaped(k) /\ plain_map[k] = <<"SHIFT", m>>

\* The lights of the keyboard show the flags after every byte.
LightsShowTheFlags == kb.lights # Unknown => kb.lights = kb.leds

\* The driver agrees with the keyboard on what is down and with its lights on what
\* is locked, and lost bytes only put it out of step in the ways named above.
DriverFollowsKeys == KeysDownAreHeld /\ ShiftsAreHeld /\ LightsShowTheFlags

\* A code typed on the keypad does not wait for ever: it is sent by the time the
\* last modifier is released, even when the release came under a set of modifiers
\* that has no map.
PadIsDelivered == lost = 0 /\ kb.shift_state = {} => kb.npadch = NoCode

\* A release sends nothing but the code of the keypad; the one exception is the
\* release of an escaped key that was not down.  And a key held down changes a
\* lock once, however often it repeats.
OnlyPressesCount ==
  [][/\ kb' # kb /\ Head(line) >= 128 /\ kb'.out # << >>
          => \/ kb.npadch # NoCode /\ kb'.npadch = NoCode
             \/ lost > 0 /\ kb.prev_scancode = 224
     /\ kb'.leds # kb.leds => ~(kb'.key_down \subseteq kb.key_down)]_keyvars

\* A letter is a capital when exactly one of Shift and CapsLock is on, and keys
\* held in a combination that has no map type nothing.
TypesWhatIsHeld ==
  [][lost' = 0 /\ line = <<LETTER>> /\ line' = << >>
       => LET mods == {m \in Modifiers : \E k \in held : plain_map[k] = <<"SHIFT", m>>} IN
          /\ mods \subseteq {"SHIFT"} =>
               kb'.out = <<<<"char", IF (mods # {}) # ("CAPS" \in kb.leds) THEN "A" ELSE "a">>>>
          /\ mods \notin DOMAIN key_maps => kb'.out = << >>]_keyvars
=============================================================================
