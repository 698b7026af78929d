----------------------------- MODULE FormatLib -----------------------------
(***************************************************************************)
(* shared/doprnt.c and its callers sprintf.c and printf.c: what a format   *)
(* and its arguments print, and where the characters go.  A format is a    *)
(* string; an argument is a number of WORD values, a string, or, for %b, a *)
(* base and the fields it names.                                           *)
(***************************************************************************)
EXTENDS StringLib

CONSTANT PRINTF_BUFMAX   \* characters that wait in printf, 128 in the code

ASSUME PrintfAssumption == PRINTF_BUFMAX \in Nat \ {0}

Blank == 32
Zero == 48
Comma == 44

Repeat(c, n) == [i \in 1..(IF n > 0 THEN n ELSE 0) |-> c]

digs == <<48, 49, 50, 51, 52, 53, 54, 55, 56, 57, 97, 98, 99, 100, 101, 102>>

RECURSIVE printnum(_, _)
printnum(u, base) ==
  (IF u < base THEN << >> ELSE printnum(u \div base, base)) \o <<digs[(u % base) + 1]>>

-----------------------------------------------------------------------------
(* Reading a conversion, from the character after its '%' *)

Flags == {35, 45, 43, 32}   \* # - + and blank

SpanEnd(fmt, i, set) == LowestOr({j \in i..Len(fmt) : fmt[j] \notin set}, Len(fmt) + 1)

isdigit == 48..57

\* A number of digits, or the next argument for '*', or the default.
Count(fmt, i, args, default) ==
  LET end == SpanEnd(fmt, i, isdigit) IN
  IF end > i THEN [n |-> Converted(fmt, i, 10).value, at |-> end, args |-> args]
  ELSE IF CharAt(fmt, i) = 42
  THEN [n |-> Signed(Head(args)), at |-> i + 1, args |-> Tail(args)]
  ELSE [n |-> default, at |-> i, args |-> args]

Precision(fmt, width) ==
  IF CharAt(fmt, width.at) = 46 THEN Count(fmt, width.at + 1, width.args, -1)
  ELSE [width EXCEPT !.n = -1]

Conversion(fmt, flags, padc, width, prec) ==
  LET at == IF CharAt(fmt, prec.at) = 108 THEN prec.at + 1 ELSE prec.at IN
  [altfmt |-> 35 \in flags,
   ladjust |-> (45 \in flags) # (width.n < 0),
   plus |-> IF 43 \in flags THEN <<43>> ELSE IF 32 \in flags THEN <<32>> ELSE << >>,
   padc |-> padc,
   length |-> IF width.n < 0 THEN -width.n ELSE width.n,
   prec |-> prec.n, conv |-> CharAt(fmt, at), at |-> at, args |-> prec.args]

Widened(fmt, flags, padc, width) == Conversion(fmt, flags, padc, width, Precision(fmt, width))

Flagged(fmt, flags, j, args) ==
  IF CharAt(fmt, j) = Zero THEN Widened(fmt, flags, Zero, Count(fmt, j + 1, args, 0))
  ELSE Widened(fmt, flags, Blank, Count(fmt, j, args, 0))

Parsed(fmt, i, args) ==
  LET j == SpanEnd(fmt, i, Flags) IN Flagged(fmt, Range(SubSeq(fmt, i, j - 1)), j, args)

-----------------------------------------------------------------------------
(* Converting *)

\* Blanks before the sign and the prefix, zeros after them.
Padded(d, sign, digits) ==
  LET pad == Repeat(d.padc, d.length - Len(sign \o digits)) IN
  CASE d.padc = Zero -> sign \o pad \o digits
    [] d.padc = Blank /\ ~d.ladjust -> pad \o sign \o digits
    [] d.padc = Blank /\ d.ladjust  -> sign \o digits \o pad

Prefix(d, u, base) ==
  CASE u # 0 /\ d.altfmt /\ base = 8  -> <<Zero>>
    [] u # 0 /\ d.altfmt /\ base = 16 -> <<Zero, 120>>
    [] OTHER -> << >>

Precise(d, digits) == Repeat(Zero, d.prec - Len(digits)) \o digits

Number(d, u, base, sign) ==
  Padded(d, sign \o Prefix(d, u, base), Precise(d, printnum(u, base)))

SignedNumber(d, u, base) ==
  IF Signed(u) >= 0 THEN Number(d, u, base, d.plus)
  ELSE Number(d, WORD - u, base, <<45>>)

\* A string cut by the precision counts for one character more when it is
\* padded on the right.
StringField(d, s) ==
  LET shown == IF d.prec = -1 THEN s
               ELSE SubSeq(s, 1, AtMost(Len(s), IF d.prec < 0 THEN 0 ELSE d.prec))
      counted == Len(shown) + (IF Len(shown) < Len(s) THEN 1 ELSE 0)
  IN  IF d.ladjust THEN shown \o Repeat(Blank, d.length - counted)
      ELSE Repeat(Blank, d.length - Len(shown)) \o shown

\* The fields of %b: a bit, shown when it is set, or the bits hi to lo (lo > 0).
FieldText(u, base, f) ==
  IF f.lo = 0 THEN f.name
  ELSE f.name \o printnum((u \div 2^(f.lo - 1)) % 2^(f.hi - f.lo + 1), base)

BitField(u, b) ==
  LET shown == SelectSeq(b.fields, LAMBDA f : f.lo # 0 \/ (u \div 2^(f.hi - 1)) % 2 = 1)
      texts == [i \in DOMAIN shown |->
                  (IF i = 1 THEN <<60>> ELSE <<Comma>>) \o FieldText(u, b.base, shown[i])]
  IN  printnum(u, b.base)
      \o (IF u = 0 \/ shown = << >> THEN << >> ELSE FlattenSeq(texts) \o <<62>>)

\* The base a conversion of a number prints in: %r and %n take that of the call.
OfCall == 0
Unsigned ==     \* o O, u U, x X and n N
  111 :> 8 @@ 79 :> 8 @@ 117 :> 10 @@ 85 :> 10 @@ 120 :> 16 @@ 88 :> 16
  @@ 110 :> OfCall @@ 78 :> OfCall
SignedOnes ==   \* d i D, z Z and r R
  100 :> 10 @@ 105 :> 10 @@ 68 :> 10 @@ 122 :> 16 @@ 90 :> 16 @@ 114 :> OfCall @@ 82 :> OfCall
BaseOf(base, radix) == IF base = OfCall THEN radix ELSE base

\* The arguments of a conversion: two for b and B, none for an unknown one.
Used(d) ==
  IF d.conv \in {98, 66} THEN 2
  ELSE IF d.conv \in {99, 112, 115} \cup DOMAIN Unsigned \cup DOMAIN SignedOnes THEN 1
  ELSE 0

Text(d, radix) ==
  LET u == Head(d.args) IN
  CASE d.conv \in {98, 66}         -> BitField(u, d.args[2])
    [] d.conv = 99                 -> <<u % 256>>
    [] d.conv = 115                -> StringField(d, u)
    [] d.conv = 112                -> <<Zero, 120>> \o Number([d EXCEPT !.padc = Zero,
                                                     !.length = 8], u, 16, << >>)
    [] d.conv \in DOMAIN Unsigned  -> Number(d, u, BaseOf(Unsigned[d.conv], radix), << >>)
    [] d.conv \in DOMAIN SignedOnes -> SignedNumber(d, u, BaseOf(SignedOnes[d.conv], radix))
    [] d.conv = 0                  -> << >>
    [] OTHER                       -> <<d.conv>>

RECURSIVE DoprntFrom(_, _, _, _)

FromConversion(fmt, d, radix) ==
  Text(d, radix)
    \o DoprntFrom(fmt, d.at + 1, SubSeq(d.args, Used(d) + 1, Len(d.args)), radix)

DoprntFrom(fmt, i, args, radix) ==
  IF i > Len(fmt) THEN << >>
  ELSE IF fmt[i] # 37 THEN <<fmt[i]>> \o DoprntFrom(fmt, i + 1, args, radix)
  ELSE FromConversion(fmt, Parsed(fmt, i + 1, args), radix)

doprnt(fmt, args, radix) == DoprntFrom(fmt, 1, args, radix)

-----------------------------------------------------------------------------
(* sprintf.c: characters are saved until there are max of them *)

savechar(state, c) == IF Len(state.saved) = state.max THEN state
                      ELSE [state EXCEPT !.saved = Append(@, c)]

Saved(max, text) == FoldLeft(savechar, [saved |-> << >>, max |-> max], text).saved

\* The cells of the buffer that are written, the final zero being one more.
Terminated(text) == [written |-> Append(text, 0), ret |-> Len(text)]

vsprintf(fmt, args) == Terminated(doprnt(fmt, args, 0))

vsnprintf(size, fmt, args) == Terminated(Saved(size, doprnt(fmt, args, 0)))

-----------------------------------------------------------------------------
(* printf.c: characters are given to the console in groups *)

flush(state) == [buf |-> << >>, given |-> Append(state.given, state.buf)]

printf_charLoses(state, c) ==   \* the character that finds the buffer full is lost
  IF Len(state.buf) >= PRINTF_BUFMAX THEN flush(state)
  ELSE [state EXCEPT !.buf = Append(@, c)]

printf_char(state, c) ==
  IF c \in {0, 10} \/ Len(state.buf) >= PRINTF_BUFMAX
  THEN [buf |-> << >>, given |-> Append(flush(state).given, <<c>>)]
  ELSE [state EXCEPT !.buf = Append(@, c)]

\* The calls of console_putbytes, in order.
Emptied(state) == IF state.buf = << >> THEN state.given ELSE flush(state).given

vprintf(fmt, args) ==
  Emptied(FoldLeft(printf_char, [buf |-> << >>, given |-> << >>], doprnt(fmt, args, 0)))

putchar(c) == << <<c % 256>> >>

puts(s) == FlattenSeq([i \in DOMAIN s |-> putchar(s[i])]) \o putchar(10)
=============================================================================
