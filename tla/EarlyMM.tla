------------------------------ MODULE EarlyMM ------------------------------
(***************************************************************************)
(* kernel/boot/early_mm.c: the page tables the kernel boots with.  The     *)
(* linker symbols are a record L: _start, _end and mem_end are addresses,  *)
(* each section is the pair of the addresses it starts and ends at.        *)
(***************************************************************************)
EXTENDS GdbMemory, FiniteSets, SequencesExt

CONSTANT NPDES   \* entries in the page directory, 1024 in the code

ASSUME PagingAssumption ==
  /\ PAGE \in Nat /\ PAGE > 1
  /\ NPTES \in Nat \ {0} /\ NPDES \in Nat \ {0}

RO == FALSE
RW == TRUE

Aligned(address) == address % PAGE = 0

Section(pair) ==
  Aligned(pair[1]) /\ Aligned(pair[2]) /\ pair[2] - pair[1] >= PAGE

\* The machine halts unless all of this holds.  The section .bss is not
\* looked at: its two tests name the symbols of .data again.
early_mm_check(L) ==
  /\ Aligned(L.start)
  /\ \A s \in {L.text, L.multiboot, L.bootstrap_stack, L.rodata, L.data} : Section(s)
  /\ L.end - L.start >= PAGE

NoEntry == [valid |-> FALSE, base |-> 0, writable |-> FALSE]

Table == [i \in 0..NPTES-1 |-> NoEntry]

early_mm_fill_pgdir(count) ==
  [i \in 0..NPDES-1 |->
     [valid |-> i < count, superpage |-> FALSE, base |-> 0, pt |-> Table]]

\* The region goes from start by steps of a page, each giving the page its
\* address is in an entry.
early_mm_map_region(pdir, region) ==
  LET addresses == {a \in region.start .. region.end-1 : Aligned(a - region.start)}
      entry(i, j) == [valid |-> TRUE, base |-> PAGE * (NPTES * i + j),
                      writable |-> region.flags]
  IN  [i \in DOMAIN pdir |->
         [pdir[i] EXCEPT !.pt = [j \in DOMAIN @ |->
            IF \E a \in addresses : lin2pdenum(a) = i /\ lin2ptenum(a) = j
            THEN entry(i, j) ELSE @[j]]]]

Region(start, end, flags) == [start |-> start, end |-> end, flags |-> flags]

KernelRegions(L) ==
  << Region(L.start, L.text[1], RW), Region(L.text[1], L.text[2], RO),
     Region(L.multiboot[1], L.multiboot[2], RO), Region(L.rodata[1], L.rodata[2], RO),
     Region(L.bootstrap_stack[1], L.bootstrap_stack[2], RW),
     Region(L.data[1], L.data[2], RW), Region(L.bss[1], L.bss[2], RW),
     Region(L.end, L.mem_end, RW) >>

\* The first page is in none of them.
Regions(L) == <<Region(PAGE, L.start, RW)>> \o KernelRegions(L)

\* As many tables as the memory needs, 64 in the code.
early_mm_map_kernel(L) ==
  FoldLeft(early_mm_map_region,
           early_mm_fill_pgdir(L.mem_end \div SUPERPAGE), Regions(L))
=============================================================================
