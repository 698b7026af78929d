-------------------------------- MODULE Heap --------------------------------
(***************************************************************************)
(* The heap of the kernel: mem_alloc and mem_free, which put guard words   *)
(* around a block, and the allocator of malloc.c under them, with the      *)
(* public entry points beside them that take a block as it is.             *)
(***************************************************************************)
EXTENDS Malloc

CONSTANTS
  Lengths,    \* the lengths asked of mem_alloc, and given back to mem_free
  MaxBlocks,  \* bound: how many blocks are out at a time
  MaxCalls    \* bound: how many calls of mem_alloc give a block

VARIABLES
  heap,       \* the state of the allocator
  blocks,     \* the blocks handed out: zone, length asked, bytes asked of malloc
  caught,     \* mem_bug was called
  calls       \* the number of calls that gave a block

\* A length is an unsigned long.
ASSUME LengthsAssumption == Lengths \subseteq 0..ULONG-1

heapvars == <<heap, blocks, caught, calls>>

LONG == 4

chunk2mem(p) == p + 2 * SIZE_SZ
mem2chunk(mem) == mem - 2 * SIZE_SZ

\* The words of a block and of its four guards
words(length) == ((length + LONG - 1) % ULONG) \div LONG + 4

\* The block is the caller's up to the end of its last word, which may be the
\* prev_size of the chunk behind.
Lent(h, p) == [h EXCEPT !.chunk[next_chunk(h, p)].prev_size = 0]

Guarded(r) == IF r.p = Null THEN r ELSE Found(Lent(r.h, r.p), r.p)

mem_alloc(h, length) ==
  LET l2 == (words(length) * LONG) % ULONG IN
  IF length = 0 \/ l2 <= length THEN Found(h, Null) ELSE Guarded(mALLOc(h, l2))

Block(p, length) == [zone |-> chunk2mem(p) + 2 * LONG, length |-> length,
                     bytes |-> words(length) * LONG]

chunk_of(b) == mem2chunk(b.zone - 2 * LONG)

----------------------------------------------------------------------------

HeapInit == heap = malloc_state /\ blocks = {} /\ caught = FALSE /\ calls = 0

MemAlloc(length) ==
  /\ Cardinality(blocks) < MaxBlocks /\ calls < MaxCalls
  /\ \E r \in {mem_alloc(heap, length)} :
       /\ heap' = r.h
       /\ blocks' = blocks \union (IF r.p = Null THEN {} ELSE {Block(r.p, length)})
       /\ calls' = IF r.p = Null THEN calls ELSE calls + 1
  /\ UNCHANGED caught

MemFree(b, length) ==
  /\ length = b.length
  /\ heap' = fREe(heap, chunk_of(b))
  /\ blocks' = blocks \ {b}
  /\ UNCHANGED <<caught, calls>>

\* A length of zero frees nothing; any other wrong one is a bug.
MemFreeWrongly(b, length) ==
  /\ length \notin {0, b.length}
  /\ caught' = TRUE
  /\ UNCHANGED <<heap, blocks, calls>>

HeapNext ==
  /\ ~caught
  /\ \E length \in Lengths :
       \/ MemAlloc(length)
       \/ \E b \in blocks : MemFree(b, length) \/ MemFreeWrongly(b, length)

HeapSpec == HeapInit /\ [][HeapNext]_heapvars

----------------------------------------------------------------------------
\* Properties

Chunks == DOMAIN heap.chunk
InBins == Free(heap)
InFastbins == FastChunks(heap)
HandedOut == {chunk_of(b) : b \in blocks}
Inside == Chunks \ {heap.top}
SizeOf(p) == heap.chunk[p].size

\* The chunks tile the memory taken from sbrk, from an aligned start to the
\* end of top, and the tag a chunk leaves at the start of the next one says
\* whether it is in use and, when it is not, how long it is.
TagsAreRight ==
  Chunks # {} =>
    /\ heap.top \in Chunks /\ heap.top + topsize(heap) = heap.curptr
    /\ topsize(heap) >= MINSIZE /\ heap.chunk[heap.top].prev_inuse
    /\ heap.chunk[Min(Chunks)].prev_inuse
    /\ \A p, q \in Chunks : p < q => next_chunk(heap, p) <= q
    /\ \A p \in Inside :
         /\ SizeOf(p) >= MINSIZE /\ SizeOf(p) % 8 = 0 /\ chunk2mem(p) % 8 = 0
         /\ next_chunk(heap, p) \in Chunks
         /\ inuse(heap, p) <=> p \notin InBins
         /\ p \in InBins => heap.chunk[next_chunk(heap, p)].prev_size = SizeOf(p)

\* The block of a caller, guard words included, lies in one chunk that is his
\* alone and that no list of free chunks holds.
BlocksAreWhole ==
  /\ \A a, b \in blocks : chunk_of(a) = chunk_of(b) => a = b
  /\ \A b \in blocks :
       /\ chunk_of(b) \in Inside \ (InBins \union InFastbins)
       /\ b.bytes <= SizeOf(chunk_of(b)) - SIZE_SZ

\* No chunk is twice in these lists.
Once(lists) ==
  \A i, j \in DOMAIN lists : \A m \in DOMAIN lists[i], n \in DOMAIN lists[j] :
    lists[i][m] = lists[j][n] => i = j /\ m = n

\* No memory is lost: a chunk is out, or top, or in just one list, once.
NothingIsLost ==
  /\ Inside = HandedOut \union InBins \union InFastbins
  /\ InBins \intersect InFastbins = {}
  /\ Once(heap.bins) /\ Once(heap.fastbins)

\* "No consolidated chunk physically borders another one", nor top.
FreeChunksAreApart ==
  \A p \in InBins :
    heap.chunk[p].prev_inuse /\ next_chunk(heap, p) \notin InBins \union {heap.top}

\* A chunk is where malloc looks for its size, in order, under a mark the
\* search does not pass over; and the flags never hide a free chunk.
BinsAreRight ==
  /\ \A i \in Bins \ {unsorted} : \A n \in 1..Len(heap.bins[i]) :
       /\ i \in heap.binmap /\ bin_index(SizeOf(heap.bins[i][n])) = i
       /\ n > 1 => SizeOf(heap.bins[i][n]) <= SizeOf(heap.bins[i][n - 1])
  /\ \A i \in Fastbins : \A p \in ToSet(heap.fastbins[i]) :
       heap.fastchunks /\ fastbin_index(SizeOf(p)) = i /\ SizeOf(p) <= heap.max_fast
  /\ InBins # {} => heap.anychunks

\* What the checks of malloc.c (do_check_malloc_state) demand of the heap between
\* two calls, after any series of them.
HeapIsConsistent == TagsAreRight /\ NothingIsLost /\ FreeChunksAreApart /\ BinsAreRight

\* The allocator has been set up, and mem_bug has not stopped the machine.
Serving == heap.max_fast # 0 /\ ~caught

Asked(length) == request2size(words(length) * LONG)

\* No free chunk of h is large enough, and no page that is left makes top so.
NoRoom(h, length) ==
  /\ \A i \in Fastbins : h.fastbins[i] = <<>>
  /\ \A p \in Free(h) : h.chunk[p].size < Asked(length)
  /\ mem_heap_end - h.curptr < Up(Asked(length) + MINSIZE - topsize(h), pagesize)

\* mem_alloc refuses a length only when, with every free chunk merged with its
\* neighbours, there is no room for it.
RefusesOnlyWhenFull ==
  Serving => \A length \in Lengths \ {0} : \A r \in {mem_alloc(heap, length)} :
    r.p = Null =>
      \/ words(length) * LONG >= ULONG - 2 * MINSIZE \/ words(length) * LONG <= length
      \/ NoRoom(r.h, length)

RemainderIsLast ==
  heap.bins[unsorted] # <<>> /\ heap.bins[unsorted][1] = heap.last_remainder

\* "This search is strictly by best-fit; i.e., the smallest chunk that fits is
\* selected", save for the last remainder when it is the last unsorted chunk
\* to be looked at.
BestFit ==
  Serving /\ ~heap.fastchunks /\ ~RemainderIsLast =>
    \A length \in Lengths \ {0} : \A given \in {mem_alloc(heap, length).p} \ {Null} :
      \A p \in Free(heap) :
        SizeOf(p) >= Asked(length) => given \in InBins /\ SizeOf(given) <= SizeOf(p)

============================================================================
