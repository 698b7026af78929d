-------------------------- MODULE LibraryProperties --------------------------
(***************************************************************************)
(* What the functions of Library promise, each compared with a definition  *)
(* that says it without saying how.                                        *)
(***************************************************************************)
EXTENDS Library

Returned(fn) == call.fn = fn

\* memmove copies as if the source had first been read whole: areas that overlap,
\* either way, are no exception (string.c picks the direction of the copy).
MovesTheWhole ==
  Returned("memmove") =>
    LET dst == call.in[1] src == call.in[2] n == call.in[3] IN
    call.out = [i \in DOMAIN Area |->
                  IF i \in dst .. dst+n-1 THEN Area[src + i - dst] ELSE Area[i]]

\* strstr, that is memmem, finds the first place the needle is at, although it
\* moves by two characters where it believes it may; the empty needle is nowhere.
FindsTheFirst ==
  Returned("strstr") =>
    LET haystack == call.in[1]
        needle == call.in[2]
        places == {i \in DOMAIN haystack :
                     IsPrefix(needle, SubSeq(haystack, i, Len(haystack)))}
    IN  call.out = IF needle = << >> THEN 0 ELSE LowestOr(places, 0)

\* strlcat never writes past the size it is given, always leaves a string when it
\* was given one, and returns a length below the size exactly when nothing is cut.
ConcatenationFits ==
  Returned("strlcat") =>
    LET dst == call.in[1]
        src == call.in[2]
        size == call.in[3]
        old == LowestOr({i \in 1..size : dst[i] = 0}, size + 1) - 1
        whole == SubSeq(dst, 1, old) \o src
        new == call.out.dst
    IN  /\ \A i \in DOMAIN dst : i > size => new[i] = dst[i]
        /\ call.out.ret = Len(whole)
        /\ old < size =>
             /\ \E i \in 1..size : new[i] = 0
             /\ IsPrefix(StringIn(new), whole)
             /\ (StringIn(new) = whole) = (call.out.ret < size)

\* The fields strtok returns, one call after the other, give the string back when
\* each delimiter is put between them, and hold no delimiter themselves: nothing
\* is skipped at the ends or between two delimiters, empty fields included.
FieldsRejoin ==
  Returned("strtok") =>
    LET fields == call.out
        isDelimiter(c) == c \in Range(Delimiters)
        commas == [i \in DOMAIN call.in |->
                     IF isDelimiter(call.in[i]) THEN Comma ELSE call.in[i]]
    IN  /\ \A i \in DOMAIN fields : \A j \in DOMAIN fields[i] : ~isDelimiter(fields[i][j])
        /\ commas = FlattenSeq([i \in DOMAIN fields |->
                       IF i = 1 THEN fields[1] ELSE <<Comma>> \o fields[i]])

\* The searches for a character, which string.c writes one by one, agree with
\* each other, and the comparison of two strings is opposite when they are swapped.
ScansAgree ==
  Returned("scan") =>
    LET s == call.in[1] t == call.in[2] c == call.in[3] r == call.out IN
    /\ r.chr = r.pbrk
    /\ r.chr = 0 <=> r.rchr = 0
    /\ r.cspn = (IF r.chr = 0 THEN Len(s) ELSE r.chr - 1)
    /\ r.chr # 0 => r.rchr = Len(s) + 1 - strchr(Reverse(s), c) /\ r.memrchr = r.rchr
    /\ r.spn > 0 => r.chr = 1
    /\ r.cmp = -r.back
    /\ r.cmp = 0 <=> s = t
    /\ r.cmp = 0 => r.ncmp = 0

\* strcat after strcpy gives what strlcat gives when there is room, and so does
\* strncat of the whole; strncpy leaves no final zero exactly when it cuts.
CopiesAgree ==
  Returned("strcat") =>
    LET a == call.in[1] b == call.in[2] n == call.in[3] r == call.out IN
    /\ StringIn(r.cat) = a \o b
    /\ StringIn(r.ncat) = a \o SubSeq(b, 1, AtMost(n, Len(b)))
    /\ (\E i \in 1..n : r.ncpy[i] = 0) = (Len(b) < n)

-----------------------------------------------------------------------------
Base(conv) == CASE conv = 111 -> 8 [] conv \in {120, 122} -> 16 [] OTHER -> 10

\* What printf writes of a number, strtol and strtoul read back, whatever the
\* flags and the width, to the last digit unless blanks follow; the prefix of the
\* alternate form is enough for them to know the base.
NumbersReadBack ==
  Returned("doprnt") =>
    LET n == call.in
        signed == n.conv \in {100, 122}
        value == IF signed THEN Signed(n.u) ELSE n.u
        alternate == n.flags = <<35>> /\ n.conv \in {111, 120, 122}
    IN  \A base \in {Base(n.conv)} \cup (IF alternate THEN {0} ELSE {}) :
        \A read \in {IF signed THEN strtol(call.out, base) ELSE strtoul(call.out, base)} :
          /\ read.value = value
          /\ n.flags # <<45>> /\ base # 0 => read.end = Len(call.out) + 1

\* A conversion fills its width: neither the sign nor the prefix makes a number
\* longer than a width that has room for them.  A string that its precision cuts
\* is one short when it is padded on the right (doprnt.c counts the character it
\* does not write).
FieldsAreWide ==
  /\ Returned("doprnt") =>
       LET n == call.in IN
       \A bare \in {Len(doprnt(Format(n.flags, << >>, n.conv), <<n.u>>, 0))} :
         Len(call.out) = IF n.width # << >> /\ bare < 5 THEN 5 ELSE bare
  /\ Returned("%s") =>
       LET f == call.in
           shown == AtMost(Len(f.s), f.p)
           short == f.left /\ f.p < Len(f.s) /\ f.w > shown
       IN  Len(call.out) = (IF f.w > shown THEN f.w ELSE shown) - (IF short THEN 1 ELSE 0)

\* However printf cuts its output into calls of the console, they carry every
\* character in order, none more than the buffer, and nothing waits behind a
\* newline.  vsnprintf keeps the start of the same output and writes one byte more
\* than its size at most: the final zero.
OutputIsWhole ==
  Returned("printf") =>
    LET r == call.out  whole == call.in.text IN
    /\ FlattenSeq(r.given) = whole
    /\ \A i \in DOMAIN r.given :
         /\ Len(r.given[i]) <= PRINTF_BUFMAX
         /\ 10 \in Range(r.given[i]) => Len(r.given[i]) = 1
    /\ r.all.written = Append(whole, 0)
    /\ r.some.written = Append(SubSeq(whole, 1, r.some.ret), 0)
    /\ Len(r.some.written) <= call.in.size + 1
    /\ FlattenSeq(r.puts) = Append(call.in.s, 10)

\* The quotient and the remainder of do_div64 are exact, zero dividing into
\* nothing and all; but when the divisor is above a word and its first bits are
\* all ones, adding one to them overflows and the processor refuses the division.
QuotientIsExact ==
  Returned("do_div64") =>
    LET x == call.in[1]
        y == call.in[2]
        shifted == y \div 2^(hard_bsr(y \div WORD) + 1)
    IN  call.out =
          CASE y = 0 -> [q |-> 0, r |-> x]
            [] y >= WORD /\ (shifted + 1) % WORD = 0 -> Fault
            [] OTHER -> [q |-> x \div y, r |-> x % y]

-----------------------------------------------------------------------------
\* A reader that takes a packet to end at its first '#', and a '$' to start one,
\* sees one packet.
FramedOnce(bytes) ==
  {i \in DOMAIN bytes : bytes[i] \in {Dollar, Sharp}} = {1, Len(bytes) - 2}

\* A reply reads back, once its runs are expanded, as what was to be sent, and its
\* sum is right; it is one packet unless the same character comes seven times in a
\* row, since the count of a run of seven is a '#' and that of a run of eight a '$'.
RepliesReadBack ==
  Returned("putfrags") =>
    LET plain == <<Name>> \o call.in
        sent == call.out
        n == Len(sent)
        body == SubSeq(sent, 2, n - 3)
        long(i) == \A j \in i..i+6 : plain[j] = plain[i]
    IN  /\ Expanded(body) = plain
        /\ hex2bin(SubSeq(sent, n - 1, n), 1).out = <<Sum(body) % 256>>
        /\ (\A i \in 1..Len(plain)-6 : ~long(i)) => FramedOnce(sent)

\* Without the prefix that is sent back, what getpacket gives of a packet.
WithoutPrefix(body) ==
  IF Len(body) >= 3 /\ body[3] = Colon THEN SubSeq(body, 4, Len(body)) ELSE body

\* When one byte is lost or changed on the line, what getpacket returns is the
\* packet that was sent, unless the byte was, or has become, one of the characters
\* that delimit packets; and it does return it once the packet has come again, but
\* for a lost byte, which can make it take the next '$' for a digit.
TakesWhatWasSent ==
  Returned("getpacket") =>
    LET delimits == {Sharp, Dollar, Escape} IN
    (call.in.is \notin delimits /\ call.in.was \notin delimits) =>
      /\ call.out.got => CString(call.out.buffer) = WithoutPrefix(call.in.body)
      /\ call.out.got \/ call.in.is = Lost

\* gdb_copyin and gdb_copyout, which read the page tables once per page, reach the
\* same bytes as the processor, which translates every address, and up to the
\* first that is not there: what comes before is written even when they fail.
ReachesTheTranslated ==
  Returned("gdb_copy") =>
    LET bytes == call.in.bytes
        at(i) == Translated(call.in.pd, call.in.vaddr + i - 1)
        missing == {i \in DOMAIN bytes : at(i) = {}}
        there == (IF missing = {} THEN Len(bytes) ELSE Least(missing) - 1)
        place(i) == CHOOSE a \in at(i) : TRUE
        read == call.out.read
        write == call.out.write
    IN  /\ read.ok = (missing = {}) /\ write.ok = read.ok
        /\ read.data = [i \in 1..there |-> Physical[place(i)]]
        /\ \A i \in 1..there : write.mem[place(i)] = bytes[i]
        /\ \A a \in DOMAIN Physical \ {place(i) : i \in 1..there} :
             write.mem[a] = Physical[a]

\* When the boot does not halt, every address of the memory but those of the first
\* page is mapped to itself, nothing beyond is, and only the code, the constants
\* and the boot information cannot be written.  The section .bss is promised
\* nothing unless it is aligned, which early_mm_check does not verify.
MapsTheMemory ==
  Returned("early_mm") /\ call.out # << >> =>
    LET L == call.in
        in(a, s) == a \in s[1] .. s[2]-1
        readOnly(a) == in(a, L.text) \/ in(a, L.multiboot) \/ in(a, L.rodata)
        entry(a) == call.out[lin2pdenum(a)].pt[lin2ptenum(a)]
    IN  \A a \in 0 .. NPDES * SUPERPAGE - 1 :
          ~in(a, <<L.data[2], L.end>>) \/ (Aligned(L.bss[1]) /\ Aligned(L.bss[2])) =>
            /\ Translated(call.out, a) = IF a \in PAGE .. L.mem_end-1 THEN {a} ELSE {}
            /\ a \in PAGE .. L.mem_end-1 => entry(a).writable = ~readOnly(a)

-----------------------------------------------------------------------------
\* The functions of string.c do what they are for, on every short string and
\* every pair of areas, and those that print lose nothing of a string (printf.c,
\* sprintf.c).
StringsConform ==
  /\ MovesTheWhole /\ FindsTheFirst /\ ConcatenationFits
  /\ FieldsRejoin /\ ScansAgree /\ CopiesAgree /\ OutputIsWhole

\* Numbers are printed as wide as asked and read back, and divided exactly
\* (doprnt.c, strtol.c, strtoul.c, div64.c).
NumbersConform == NumbersReadBack /\ FieldsAreWide /\ QuotientIsExact

\* Both directions of the packets of the debugger: what is sent can be read
\* back, and what is taken is what was sent (gdb_serial.c).
PacketsConform == RepliesReadBack /\ TakesWhatWasSent

\* The page tables, walked by the debugger and made by the boot, lead where the
\* processor would go and where they should (gdb_serial_support.c, early_mm.c).
MemoryConforms == ReachesTheTranslated /\ MapsTheMemory
=============================================================================
