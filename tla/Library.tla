------------------------------ MODULE Library ------------------------------
(***************************************************************************)
(* The functions of the kernel that keep no state of their own, called one *)
(* at a time on bounded inputs: the C library of shared/, the packets and  *)
(* the memory accesses of the debugger stub, and the page tables of the    *)
(* boot.  Each property compares what a function returns with a definition *)
(* of what it is for, or with what another function makes of it.           *)
(***************************************************************************)
EXTENDS FormatLib, EarlyMM, GdbPacket

CONSTANTS AREA,       \* bytes in an area of memory
          TEXT,       \* characters in a string
          Letters,    \* characters of the strings
          Dividends,
          Divisors

VARIABLE call   \* the last call: its function, its arguments, its result

Idle == [fn |-> "none"]

Called(fn, in, out) == call' = [fn |-> fn, in |-> in, out |-> out]

Area == [i \in 1..AREA |-> i]

Move ==
  \E dst, src \in 1..AREA, n \in 0..AREA :
    /\ dst + n <= AREA + 1 /\ src + n <= AREA + 1
    /\ Called("memmove", <<dst, src, n>>, memmove(Area, dst, src, n))

Swap ==
  \E n \in 0..AREA, c \in 1..AREA :
    Called("memswap", <<n, c>>,
           [both |-> memswap(Area, memset(Area, 1, 0, AREA), n),
            part |-> memccpy(memset(Area, 1, 0, AREA), Area, c, n)])

Search ==
  \E haystack \in SeqOf(Letters, TEXT), needle \in SeqOf(Letters, 3) :
    Called("strstr", <<haystack, needle>>, strstr(haystack, needle))

Buffers == [1..3 -> Letters \cup {0}]

Concatenate ==
  \E dst \in Buffers, src \in SeqOf(Letters, 3), size \in 1..3 :
    Called("strlcat", <<dst, src, size>>, strlcat(dst, src, size))

Copy ==
  \E dst \in [1..TEXT -> {0, 1}], a, b \in SeqOf(Letters, 2), n \in 0..2 :
    Called("strcat", <<a, b, n>>,
           [cat |-> strcat(strcpy(dst, a), b), ncat |-> strncat(strcpy(dst, a), b, n),
            ncpy |-> strncpy(dst, b, n)])

Delimiters == <<Comma, 59>>

Split ==
  \E s \in SeqOf(Letters \cup Range(Delimiters), 4) :
    Called("strtok", s, strtok(s, Delimiters))

Scan ==
  \E s, t \in SeqOf(Letters, 3), c \in Letters \cup {Comma} :
    Called("scan", <<s, t, c>>,
           [chr |-> strchr(s, c), rchr |-> strrchr(s, c), pbrk |-> strpbrk(s, <<c>>),
            spn |-> strspn(s, <<c>>), cspn |-> strcspn(s, <<c>>),
            memrchr |-> memrchr(s, c, Len(s)), cmp |-> strcmp(s, t), back |-> strcmp(t, s),
            ncmp |-> strncmp(s, t, 2), nlen |-> strnlen(s, 2)])

-----------------------------------------------------------------------------
(* Numbers and formats *)

Conversions == {100, 117, 111, 120, 122}   \* d u o x z

FlagStrings == {<< >>, <<35>>, <<32>>, <<45>>, <<48>>}

Format(flags, width, conv) == <<37>> \o flags \o width \o <<conv>>

PrintNumber ==
  \E u \in 0..WORD-1, conv \in Conversions, flags \in FlagStrings,
     width \in {<< >>, <<53>>} :
    Called("doprnt", [u |-> u, conv |-> conv, flags |-> flags, width |-> width],
           doprnt(Format(flags, width, conv), <<u>>, 0))

PrintString ==
  \E s \in SeqOf(Letters, 3), w \in 0..4, p \in 0..3, left \in BOOLEAN :
    Called("%s", [s |-> s, w |-> w, p |-> p, left |-> left],
           doprnt(<<37>> \o (IF left THEN <<45>> ELSE << >>) \o <<42, 46, 42, 115>>,
                  <<w, p, s>>, 0))

Register == [base |-> 16, fields |-> << [hi |-> 4, lo |-> 3, name |-> <<77, 61>>],
                                       [hi |-> 2, lo |-> 0, name |-> <<66>>],
                                       [hi |-> 1, lo |-> 0, name |-> <<65>>] >>]

PrintOut ==
  \E s \in SeqOf(Letters \cup {10}, TEXT), size \in 0..2, u \in {0, 1, 7, 13} :
    LET fmt == <<37, 115, 37, 98>>
        args == <<s, u, Register>>
    IN  Called("printf", [text |-> doprnt(fmt, args, 0), size |-> size, s |-> s],
               [given |-> vprintf(fmt, args), all |-> vsprintf(fmt, args),
                some |-> vsnprintf(size, fmt, args), puts |-> puts(s)])

Divide ==
  \E x \in Dividends, y \in Divisors : Called("do_div64", <<x, y>>, do_div64(x, y))

-----------------------------------------------------------------------------
(* The debugger stub and the boot *)

Name == 76   \* the letter that comes first in a reply

SendPacket ==
  \E hexify \in BOOLEAN :
  \E data \in IF hexify THEN SeqOf({0, 18}, 5) \ {<< >>} ELSE SeqOf(Letters, 9) :
    LET f == Fragment(IF hexify THEN data ELSE Append(data, 0),
                      IF hexify THEN Len(data) ELSE 0, hexify)
    IN  Called("putfrags", PlainText(f), putfrags(<<Fragment(<<Name, 0>>, 0, FALSE), f>>))

\* What the debugger sends escapes a '#' with a '}', and ends with no '}'.
Bodies == SeqOf({97, Colon, 120}, 3) \cup {<<97, Escape, Sharp>>, <<Escape, Sharp, 97>>}

Lost == -1

Damaged(bytes, i, c) ==
  SubSeq(bytes, 1, i - 1) \o (IF c = Lost THEN << >> ELSE <<c>>)
  \o SubSeq(bytes, i + 1, Len(bytes))

\* One byte of a packet is lost or becomes another, and the packet comes again.
ReceivePacket ==
  \E body \in Bodies, i \in 1..6, c \in {Lost, Sharp, Dollar, 97, 102, 255},
     third \in {0, Colon} :
    /\ i <= Len(Wrapped(body))
    /\ LET buffer == <<98, 0, third>> \o [n \in 1..BUFMAX-2 |-> 0]
       IN  Called("getpacket", [body |-> body, was |-> Wrapped(body)[i], is |-> c],
                  getpacket(Damaged(Wrapped(body), i, c) \o Wrapped(body), buffer))

\* A table whose pages are in the reverse order, then a large page or nothing.
Directories ==
  LET table(valid) ==
        [j \in 0..NPTES-1 |-> [valid |-> j \in valid, base |-> PAGE * (NPTES - 1 - j)]]
      tables == [valid : {TRUE}, superpage : {FALSE}, base : {0},
                 pt : {table(v) : v \in SUBSET (0..NPTES-1)}]
      others == {[valid |-> v, superpage |-> s, base |-> SUPERPAGE, pt |-> table({1})] :
                 v, s \in BOOLEAN}
      none == [valid |-> FALSE, superpage |-> FALSE, base |-> 0, pt |-> table({})]
  IN  {[i \in 0..3 |-> IF i = 0 THEN t ELSE IF i = 1 THEN o ELSE none] :
       t \in tables, o \in others}

Physical == [a \in 0 .. 2*SUPERPAGE-1 |-> a]

AccessMemory ==
  \E pd \in Directories, vaddr \in 0 .. 2*SUPERPAGE-1, size \in {1, 3, SUPERPAGE} :
    LET bytes == [i \in 1..size |-> 100 + i] IN
    Called("gdb_copy", [pd |-> pd, vaddr |-> vaddr, bytes |-> bytes],
           [read |-> gdb_copyin(pd, TRUE, Physical, vaddr, size),
            write |-> gdb_copyout(pd, TRUE, Physical, vaddr, bytes)])

\* The sections follow each other, as the linker script lays them out, each on
\* a page of its own when nothing is amiss.
Layouts ==
  {LET at(n) == PAGE * n IN
   [start |-> at(low), text |-> <<at(low + 1) + slip, at(low + 2 + more)>>,
    multiboot |-> <<at(low + 2 + more), at(low + 3 + more)>>,
    bootstrap_stack |-> <<at(low + 3 + more), at(low + 4 + more)>>,
    rodata |-> <<at(low + 4 + more), at(low + 5 + more)>>,
    data |-> <<at(low + 5 + more), at(low + 6 + more)>>,
    bss |-> <<at(low + 6 + more) + shift, at(low + 8 + more) - shift>>,
    end |-> at(low + 8 + more), mem_end |-> SUPERPAGE * 3] :
   low \in 1..2, more \in 0..2, slip, shift \in 0..PAGE-1}

Boot ==
  \E L \in Layouts :
    Called("early_mm", L, IF early_mm_check(L) THEN early_mm_map_kernel(L) ELSE << >>)

-----------------------------------------------------------------------------
Return == call' = Idle

LibraryInit == call = Idle

LibraryCall ==
  \/ Move \/ Swap \/ Search \/ Concatenate \/ Copy \/ Split \/ Scan
  \/ PrintNumber \/ PrintString \/ PrintOut \/ Divide

KernelCall == SendPacket \/ ReceivePacket \/ AccessMemory \/ Boot

LibraryNext ==
  \/ call = Idle /\ LibraryCall
  \/ call = Idle /\ KernelCall
  \/ call # Idle /\ Return
=============================================================================
