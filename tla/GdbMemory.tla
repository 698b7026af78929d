----------------------------- MODULE GdbMemory -----------------------------
(***************************************************************************)
(* The access to memory of kernel/gdb_serial_support.c: the page tables of *)
(* the program are read by hand and the copy goes page by page.            *)
(***************************************************************************)
EXTENDS Integers, Sequences

CONSTANTS PAGE,    \* bytes in a page, 4096 in the code
          NPTES,   \* entries in a page table, 1024 in the code
          FAR      \* the length given without paging, 2^32 - 1 in the code

SUPERPAGE == PAGE * NPTES

lin2pdenum(vaddr) == vaddr \div SUPERPAGE
lin2ptenum(vaddr) == (vaddr \div PAGE) % NPTES

phys_addr_lookupWhole(pd, paging, vaddr) ==   \* always a whole page is left
  LET pde == pd[lin2pdenum(vaddr)]
      pte == pde.pt[lin2ptenum(vaddr)]
  IN  IF ~paging THEN [paddr |-> vaddr, len |-> FAR]
      ELSE IF ~pde.valid \/ (~pde.superpage /\ ~pte.valid) THEN [paddr |-> 0, len |-> 0]
      ELSE IF pde.superpage THEN [paddr |-> pde.base + (vaddr % SUPERPAGE), len |-> SUPERPAGE]
      ELSE [paddr |-> pte.base + (vaddr % PAGE), len |-> PAGE]

Nowhere == [paddr |-> 0, len |-> 0]

\* Where an address is, and how far from the end of its page.
phys_addr_lookup(pd, paging, vaddr) ==
  LET pde == pd[lin2pdenum(vaddr)]
      pte == pde.pt[lin2ptenum(vaddr)]
  IN  IF ~paging THEN [paddr |-> vaddr, len |-> FAR]
      ELSE IF ~pde.valid THEN Nowhere
      ELSE IF pde.superpage
      THEN [paddr |-> pde.base + (vaddr % SUPERPAGE),
            len |-> SUPERPAGE - (vaddr % SUPERPAGE)]
      ELSE IF ~pte.valid THEN Nowhere
      ELSE [paddr |-> pte.base + (vaddr % PAGE), len |-> PAGE - (vaddr % PAGE)]

Smaller(a, b) == IF a < b THEN a ELSE b

\* The physical addresses gdb_copyin and gdb_copyout go through, in order, up
\* to the first page that is not there: from[n] are those of the last n bytes.
Reached(pd, paging, vaddr, size) ==
  LET from[n \in 0..size] ==
        LET at == phys_addr_lookup(pd, paging, vaddr + size - n)
            sz == Smaller(at.len, n)
        IN  IF n = 0 \/ sz = 0 THEN << >>
            ELSE [i \in 1..sz |-> at.paddr + i - 1] \o from[n - sz]
  IN  from[size]

\* Both fail when they have not come to the end, what they have copied until
\* then being written.
gdb_copyin(pd, paging, mem, vaddr, size) ==
  LET from == Reached(pd, paging, vaddr, size) IN
  [ok |-> Len(from) = size, data |-> [i \in DOMAIN from |-> mem[from[i]]]]

gdb_copyout(pd, paging, mem, vaddr, bytes) ==
  LET to == Reached(pd, paging, vaddr, Len(bytes)) IN
  [ok |-> Len(to) = Len(bytes),
   mem |-> [a \in DOMAIN mem |->
              LET writes == {i \in DOMAIN to : to[i] = a} IN
              IF writes = {} THEN mem[a]
              ELSE bytes[CHOOSE i \in writes : \A j \in writes : j <= i]]]

-----------------------------------------------------------------------------
(* The reference: the processor translates each address by itself *)

Translated(pd, vaddr) ==
  LET pde == pd[lin2pdenum(vaddr)]
      pte == pde.pt[lin2ptenum(vaddr)]
      inpage == pde.base + (vaddr % SUPERPAGE)
      intable == pte.base + (vaddr % PAGE)
  IN  CASE pde.valid /\ pde.superpage               -> {inpage}
        [] pde.valid /\ ~pde.superpage /\ pte.valid -> {intable}
        [] OTHER                                    -> {}
=============================================================================
