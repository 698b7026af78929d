------------------------------- MODULE Malloc -------------------------------
(***************************************************************************)
(* The allocator of shared/malloc.c over the sbrk of kernel/mem.c: every   *)
(* routine as a function of the heap it finds, giving the heap it leaves   *)
(* and, where it hands memory out, the chunk.  Addresses and sizes are     *)
(* bytes, as in the code; the thresholds are constants.  A heap is the     *)
(* malloc_state, the headers of the chunks and the end of the memory taken *)
(* so far.  A header inside another chunk is dead and is forgotten; a bin  *)
(* is the sequence of its chunks, first(bin) first.                        *)
(***************************************************************************)
EXTENDS Integers, SequencesExt

CONSTANTS
  mem_heap, mem_heap_end,  \* the memory sbrk gives out
  ULONG,                   \* the number of values of an unsigned long, 2^32
  MIN_LARGE_SIZE,          \* 256: the smallest size of a large chunk
  DEFAULT_MXFAST,          \* 64: the largest request a fastbin serves
  DEFAULT_TRIM_THRESHOLD,  \* 256 K
  pagesize                 \* 4096

Null == 0
SIZE_SZ == 4
MALLOC_ALIGNMENT == 8
MINSIZE == 16
NSMALLBINS == MIN_LARGE_SIZE \div 8

\* The kernel lies below its heap; words and pages are powers of two.
ASSUME HeapAssumption ==
  /\ {mem_heap, mem_heap_end, ULONG, pagesize, MIN_LARGE_SIZE} \subseteq Nat \ {0}
  /\ DEFAULT_MXFAST \in Nat /\ DEFAULT_MXFAST >= 12 /\ DEFAULT_TRIM_THRESHOLD \in Nat
  /\ MIN_LARGE_SIZE % 8 = 0 /\ MIN_LARGE_SIZE >= 64
  /\ 2 * MINSIZE < mem_heap /\ mem_heap < mem_heap_end /\ 2 * mem_heap_end <= ULONG
  /\ pagesize % 8 = 0 /\ ULONG % pagesize = 0

Down(x, unit) == x - (x % unit)
Up(x, unit) == Down(x + unit - 1, unit)

\* A difference of unsigned longs, read as a long.
AsLong(x) == LET y == x % ULONG IN IF y < ULONG \div 2 THEN y ELSE y - ULONG

REQUEST_OUT_OF_RANGE(req) == req >= ULONG - 2 * MINSIZE

request2sizeBare(req) == IF req + 7 < MINSIZE THEN MINSIZE ELSE Down(req + 7, MALLOC_ALIGNMENT)

request2size(req) ==
  IF req + SIZE_SZ + 7 < MINSIZE THEN MINSIZE ELSE Down(req + SIZE_SZ + 7, MALLOC_ALIGNMENT)

in_smallbin_range(sz) == sz < MIN_LARGE_SIZE

highest_bit(x) == CHOOSE m \in 0..15 : 2 ^ m <= x /\ x < 2 ^ (m + 1)

largebin_index(sz) ==
  LET x == sz \div MIN_LARGE_SIZE
      m == highest_bit(x) IN
  IF x >= 65536 THEN NSMALLBINS + 63
  ELSE NSMALLBINS + 4 * m + ((sz \div (2 ^ m * (MIN_LARGE_SIZE \div 4))) % 4)

bin_index(sz) == IF in_smallbin_range(sz) THEN sz \div 8 ELSE largebin_index(sz)

fastbin_index(sz) == sz \div 8 - 2

unsorted == 1
\* The bins above are for chunks larger than the heap, and stay empty.
Bins == {unsorted} \union {bin_index(sz) : sz \in MINSIZE..mem_heap_end}
Fastbins == 0..fastbin_index(request2size(DEFAULT_MXFAST))

\* The header of bin 1, which top points to before the first sbrk.
initial_top == 8

malloc_state ==
  [max_fast |-> 0, anychunks |-> FALSE, fastchunks |-> FALSE,
   fastbins |-> [i \in Fastbins |-> <<>>], bins |-> [i \in Bins |-> <<>>],
   binmap |-> {}, top |-> Null, last_remainder |-> Null,
   chunk |-> <<>>, curptr |-> mem_heap]

malloc_init_state(h) ==
  [h EXCEPT !.max_fast = request2size(DEFAULT_MXFAST), !.top = initial_top]

----------------------------------------------------------------------------
\* Chunks

\* set_head with PREV_INUSE; the chunk keeps its prev_size.
set_head(c, p, size) ==
  [q \in DOMAIN c \union {p} |->
     IF q # p THEN c[q]
     ELSE [size |-> size, prev_inuse |-> TRUE,
           prev_size |-> IF p \in DOMAIN c THEN c[p].prev_size ELSE 0]]

set_foot(c, p) == [c EXCEPT ![p + c[p].size].prev_size = c[p].size]

set_inuse(c, p, bit) == [c EXCEPT ![p + c[p].size].prev_inuse = bit]

next_chunk(h, p) == p + h.chunk[p].size

inuse(h, p) == h.chunk[next_chunk(h, p)].prev_inuse

topsize(h) == IF h.top \in {Null, initial_top} THEN 0 ELSE h.chunk[h.top].size

binof(h, size) == IF bin_index(size) \in Bins THEN h.bins[bin_index(size)] ELSE <<>>

unlink(h, p) == [h EXCEPT !.bins = [i \in Bins |-> RemoveFirst(@[i], p)]]

\* The chunks in the bins, and those in the fastbins
Free(h) == UNION {ToSet(h.bins[i]) : i \in Bins}

FastChunks(h) == UNION {ToSet(h.fastbins[i]) : i \in Fastbins}

\* p takes in the chunk q that follows it.
Merged(c, p, q) ==
  [r \in DOMAIN c \ {q} |->
     IF r = p THEN [size |-> c[p].size + c[q].size, prev_inuse |-> TRUE,
                    prev_size |-> c[p].prev_size]
     ELSE c[r]]

Joined(h, p, q) == [h EXCEPT !.chunk = Merged(@, p, q)]

----------------------------------------------------------------------------
\* free

Backward(h, p) ==
  IF h.chunk[p].prev_inuse THEN [h |-> h, p |-> p]
  ELSE LET b == p - h.chunk[p].prev_size IN [h |-> Joined(unlink(h, b), b, p), p |-> b]

\* Behind the unsorted chunks, where malloc looks last.
Unsort(h, p) ==
  [h EXCEPT !.bins[unsorted] = <<p>> \o @, !.chunk = set_foot(@, p)]

ForwardMissed(h, p) ==
  LET n == next_chunk(h, p) IN
  IF n = h.top THEN [Joined(h, p, n) EXCEPT !.top = p]
  ELSE Unsort([h EXCEPT !.chunk = set_inuse(@, p, FALSE)], p)

Forward(h, p) ==
  LET n == next_chunk(h, p) IN
  IF n = h.top THEN [Joined(h, p, n) EXCEPT !.top = p]
  ELSE IF inuse(h, n) THEN Unsort([h EXCEPT !.chunk = set_inuse(@, p, FALSE)], p)
  ELSE Unsort(Joined(unlink(h, n), p, n), p)

Consolidated(h, p) == LET b == Backward(h, p) IN [h |-> Forward(b.h, b.p), p |-> b.p]

ConsolidateNext(h) ==
  LET i == Min({j \in Fastbins : h.fastbins[j] # <<>>}) IN
  Consolidated([h EXCEPT !.fastbins[i] = Tail(@)], h.fastbins[i][1]).h

\* after[n] has n chunks of the fastbins freed.
malloc_consolidate(h) ==
  LET count == Cardinality(FastChunks(h))
      after[n \in 0..count] ==
        IF n = 0 THEN [h EXCEPT !.fastchunks = FALSE] ELSE ConsolidateNext(after[n-1])
  IN  after[count]

sbrk(h, diff) ==
  LET c == (h.curptr + diff) % ULONG IN
  IF c < h.curptr \/ c > mem_heap_end THEN [h |-> h, brk |-> Null]
  ELSE [h |-> [h EXCEPT !.curptr = c], brk |-> h.curptr]

sYSTRIm(h) ==
  LET extra == ((topsize(h) - MINSIZE + pagesize - 1) \div pagesize - 1) * pagesize
      g == sbrk(h, -extra).h
      released == h.curptr - g.curptr IN
  IF extra > 0 /\ h.curptr = h.top + topsize(h) /\ released # 0
  THEN [g EXCEPT !.chunk[h.top].size = @ - released]
  ELSE h

Trimmed(h) == IF topsize(h) >= DEFAULT_TRIM_THRESHOLD THEN sYSTRIm(h) ELSE h

AfterLargeFree(h) == Trimmed(IF h.fastchunks THEN malloc_consolidate(h) ELSE h)

fREe(h, p) ==
  IF h.chunk[p].size <= h.max_fast
  THEN [h EXCEPT !.anychunks = TRUE, !.fastchunks = TRUE,
                 !.fastbins[fastbin_index(h.chunk[p].size)] = <<p>> \o @]
  ELSE LET r == Consolidated([h EXCEPT !.anychunks = TRUE], p) IN
       IF r.h.chunk[r.p].size >= DEFAULT_TRIM_THRESHOLD \div 2
       THEN AfterLargeFree(r.h) ELSE r.h

----------------------------------------------------------------------------
\* malloc: each search gives the heap and the chunk found, or Null.

Found(h, p) == [h |-> h, p |-> p]

Exhaust(h, p) == Found([h EXCEPT !.chunk = set_inuse(@, p, TRUE)], p)

SplitChunk(h, p, nb) ==
  LET r == p + nb
      rest == h.chunk[p].size - nb IN
  Found([h EXCEPT !.bins[unsorted] = <<r>>,
                  !.last_remainder = IF in_smallbin_range(nb) THEN r ELSE @,
                  !.chunk = set_foot(set_head(set_head(@, p, nb), r, rest), r)], p)

Carve(h, p, nb) ==
  LET g == unlink(h, p) IN
  IF h.chunk[p].size - nb < MINSIZE THEN Exhaust(g, p) ELSE SplitChunk(g, p, nb)

\* Where a chunk of this size goes in its bin.
Place(h, i, size) ==
  LET bin == h.bins[i] IN
  IF in_smallbin_range(size) \/ bin = <<>> THEN 1
  ELSE IF size <= h.chunk[Last(bin)].size THEN Len(bin) + 1
  ELSE SelectInSeq(bin, LAMBDA q : h.chunk[q].size <= size)

Binned(h, p) ==
  LET size == h.chunk[p].size
      i == bin_index(size) IN
  [h EXCEPT !.bins[i] = InsertAt(@, Place(h, i, size), p), !.binmap = @ \union {i}]

ConsideredEarly(h, p, nb) ==   \* the remainder is split though others follow
  LET size == h.chunk[p].size
      g == unlink(h, p) IN
  IF in_smallbin_range(nb) /\ p = h.last_remainder /\ size > nb + MINSIZE
  THEN SplitChunk(g, p, nb)
  ELSE IF size = nb THEN Exhaust(g, p)
  ELSE Found(Binned(g, p), Null)

Considered(h, p, nb) ==
  LET size == h.chunk[p].size
      g == unlink(h, p) IN
  IF /\ in_smallbin_range(nb) /\ Len(h.bins[unsorted]) = 1
     /\ p = h.last_remainder /\ size > nb + MINSIZE
  THEN SplitChunk(g, p, nb)
  ELSE IF size = nb THEN Exhaust(g, p)
  ELSE Found(Binned(g, p), Null)

ConsiderNext(r, nb) ==
  IF r.p # Null THEN r ELSE Considered(r.h, Last(r.h.bins[unsorted]), nb)

\* after[n] has the n oldest chunks looked at, or the one found.
SortUnsorted(h, nb) ==
  LET count == Len(h.bins[unsorted])
      after[n \in 0..count] ==
        IF n = 0 THEN Found(h, Null) ELSE ConsiderNext(after[n-1], nb)
  IN  after[count]

use_top(h, nb) ==
  LET size == topsize(h) IN
  Found([h EXCEPT !.top = @ + nb,
                  !.chunk = set_head(set_head(@, h.top, nb), h.top + nb, size - nb)], h.top)

\* The first memory: aligned, and up to the end of a page when there is so much.
FirstTop(h, brk, size) ==
  LET misalign == (brk + 2 * SIZE_SZ) % MALLOC_ALIGNMENT
      front == IF misalign = 0 THEN 0 ELSE MALLOC_ALIGNMENT - misalign
      end == brk + size + front
      more == sbrk(h, front + Up(end, pagesize) - end)
      g == more.h IN
  [g EXCEPT !.top = brk + front, !.chunk = set_head(@, brk + front, g.curptr - (brk + front))]

\* sYSMALLOc once the fastbins are empty
MoreCore(h, nb) ==
  LET size == AsLong(Up(nb + MINSIZE - topsize(h), pagesize))
      got == sbrk(h, size)
      g == IF got.brk = h.top + topsize(h)
           THEN [got.h EXCEPT !.chunk = set_head(@, h.top, topsize(h) + size)]
           ELSE FirstTop(got.h, got.brk, size) IN
  IF size <= 0 \/ got.brk = Null THEN Found(h, Null)
  ELSE IF topsize(g) >= nb + MINSIZE THEN use_top(g, nb)
  ELSE Found(g, Null)

\* The smallest chunk of its own bin that is large enough
ScanLarge(h, nb) ==
  LET bin == binof(h, nb)
      at == SelectLastInSeq(bin, LAMBDA p : h.chunk[p].size >= nb) IN
  IF in_smallbin_range(nb) \/ at = 0 THEN Null ELSE bin[at]

\* The marked bins above, up to the first that holds a chunk; the empty ones
\* passed on the way lose their mark.
ScanMap(h, nb) ==
  LET marked == {i \in h.binmap : i > bin_index(nb)}
      full == {i \in marked : h.bins[i] # <<>>}
      passed == {i \in marked : \A j \in full : i < j} IN
  [h |-> [h EXCEPT !.binmap = @ \ passed],
   p |-> IF full = {} THEN Null ELSE Last(h.bins[Min(full)])]

BestChunk(h, nb) ==
  LET r == SortUnsorted(h, nb)
      large == ScanLarge(r.h, nb)
      map == ScanMap(r.h, nb) IN
  IF r.p # Null THEN r
  ELSE IF large # Null THEN Carve(r.h, large, nb)
  ELSE IF map.p # Null THEN Carve(map.h, map.p, nb)
  ELSE Found(map.h, Null)

FromFastbin(h, nb) ==
  Found([h EXCEPT !.fastbins[fastbin_index(nb)] = Tail(@)], h.fastbins[fastbin_index(nb)][1])

\* malloc up to use_top
FromLists(h, nb) ==
  IF ~h.anychunks THEN Found(IF h.max_fast = 0 THEN malloc_init_state(h) ELSE h, Null)
  ELSE IF nb <= h.max_fast /\ h.fastbins[fastbin_index(nb)] # <<>> THEN FromFastbin(h, nb)
  ELSE IF ~in_smallbin_range(nb)
       THEN BestChunk(IF h.fastchunks THEN malloc_consolidate(h) ELSE h, nb)
  ELSE IF binof(h, nb) = <<>> THEN BestChunk(h, nb)
  ELSE LET p == Last(binof(h, nb)) IN Exhaust(unlink(h, p), p)

\* use_top and sYSMALLOc once the fastbins are empty
TopOrMore(h, nb) ==
  IF topsize(h) >= nb + MINSIZE THEN use_top(h, nb) ELSE MoreCore(h, nb)

\* malloc called again by sYSMALLOc, with the fastbins empty
mALLOcAgain(h, bytes) ==
  LET r == FromLists(h, request2size(bytes)) IN
  IF REQUEST_OUT_OF_RANGE(bytes) THEN Found(h, Null)
  ELSE IF r.p # Null THEN r ELSE TopOrMore(r.h, request2size(bytes))

FromTop(h, nb) ==
  IF topsize(h) < nb + MINSIZE /\ h.fastchunks
  THEN mALLOcAgain(malloc_consolidate(h), nb - 7)
  ELSE TopOrMore(h, nb)

mALLOc(h, bytes) ==
  LET r == FromLists(h, request2size(bytes)) IN
  IF REQUEST_OUT_OF_RANGE(bytes) THEN Found(h, Null)
  ELSE IF r.p # Null THEN r ELSE FromTop(r.h, request2size(bytes))

============================================================================
