# Formal models of the kernel

This directory holds TLA+ models of the teaching kernel in `src/kernel` and
`src/shared`: a single-processor x86 kernel with a priority scheduler, process
primitives (`start`, `exit`, `kill`, `waitpid`, `chprio`, `getprio`), counting
semaphores, message queues, a clock interrupt, a console, a heap, a hash table,
a keyboard driver and a GDB stub. The models are checked with TLC on small
instances, and the safety properties of the scheduler, the semaphores, the queue,
the hash table, the heap, the console, the keyboard driver and a debugging session
are proved with TLAPS for instances of any size.

Paths below are relative to `src/`; `process.c` is `kernel/process.c`,
`queue.h` is `shared/queue.h`, and so on.

## 1. The system and its parts

| Part | State | Operations | Talks to |
|---|---|---|---|
| Priority queue, `shared/queue.h` | a circular doubly linked list through a link field in each element, head first, sorted by increasing priority | `queue_add`, `queue_out`, `queue_del`, `queue_empty`, scans | its assertions stop the machine |
| Scheduler and processes, `process.c` | the table `proc_table` (state, priority, return value, children, link, stack), `process_list` (ready), `toKill_list` (dead), `chosen`, `pidmax` | `ordonnance`, `start`, `exit`, `kill`, `waitpid`, `chprio`, `getprio`, `passe_activable`, `unblock`, `block_send`, `block_recv` | queue, heap (stacks), `ctx_sw` |
| Clock interrupt, `time.c`, `traitants.S`, `ctx_sw.S` | interrupt flag, clock | `tic_PIT`, `set_clock_fqc`, `masque_IRQ` | calls `ordonnance` from interrupt context |
| Semaphores, `sem.c` | the list `sems` of (sid, val, blocked processes), `nb_sem` | `screate`, `sdelete`, `signal`, `signaln`, `sreset`, `wait`, `try_wait`, `scount` | `ordonnance`, `passe_activable` |
| Message queues, `message_queue.c` | `queues`, `nb_queue` | `pcreate`, `pdelete`, `psend`, `preceive`, `pcount`, `preset` | `unblock`, `block_*` |
| Heap, `mem.c`, `mem_alloc`, `malloc.c` | the break, the headers of the chunks, fastbins, bins, `top`, the last remainder | `sbrk`, `mem_alloc`, `mem_free`, `malloc`, `free` | used by all of the above, not reentrant |
| Hash table, `hash.c` | slots, `fill`, `count`, `mask` | `hash_set`, `hash_get`, `hash_isset`, `hash_del`, resizing | heap |
| Console, `console.c` | cursor, screen memory | `traite_car`, `console_putbytes`, scrolling | called with interrupts on, and the clock writes over its screen |
| Keyboard, `keyboard-glue.c`, `kbd-linux/` | prefix of the scancode, keys down, modifiers and their counts, code typed on the keypad, locks and lights | `do_scancode` and what it calls | hands characters to `keyboard_data` |
| GDB stub, `gdb_serial.c`, `gdb_serial_support.c`, `debugger.c` | a copy of the registers, `connected`, `do_debug`, packet buffer | packet exchange with acknowledgement, 20 commands, trap handler | serial line, page tables, screen |
| Boot and paging, `kernel/boot` | page tables, descriptors | `early_mm` checks the sections and maps them | runs once |
| C library, `shared/` | none | strings, numbers, formats, division | used by all |
| User mode, `user/` | stubs | none | not used by this kernel |

### How they interact

A process executes a primitive as an ordinary call (there is no system call
layer: the tests run in kernel mode). A primitive changes the table and the
lists and may call `ordonnance`, which moves the processor to another process by
`ctx_sw`; the caller stays suspended in the middle of the primitive until
somebody switches back to it. The clock handler calls `ordonnance` too, from
the middle of whatever was interrupted. `ctx_sw` does not save the interrupt
flag, so a process continues with the flag its successor's path left behind:
this is why the flag is a variable of the model.

### What is hard

* Suspension in the middle of a primitive: what `waitpid` or `start` read before
  the switch may be stale after it (`process.c:139`, `process.c:335-344`).
* Zombies are left in `process_list` until they come to its top, and are met
  there by every other primitive.
* A process that runs is in no list, one that blocks is in no list either, and
  a search of `process_list` finds neither.
* `waitpid` is a busy loop of a process that remains ready.
* A semaphore's counter and the set of processes that paid for it are kept
  separately, and `wait`, `try_wait` and `signal` read, change and read again the
  counter with the interrupts on.
* Interrupts inside primitives that do not mask them, and between any two memory
  accesses of the console.
* Boundary tags: what one `free` writes is trusted by every later `malloc`.
* Lookups that only end because an empty slot is left, in a table whose resize
  may fail.
* Bytes lost between the keyboard and the driver, and packets and
  acknowledgements without a number, lost or damaged between gdb and the stub.
* Arithmetic at the width of a word: sizes, quotients, numbers to print, and
  buffers that are full to the last byte.

The list of hazards with lines and properties is in `PROJECT.json`.

### What makes each part correct

* Queue: highest priority first, first come first served among equals, lists
  that share a link field stay disjoint; it behaves as a sequence.
* Scheduler: no process lost or duplicated between the lists, exactly one has
  the processor, the idle process can always be elected, the dead stay dead and
  are collected at most once, the order of the queue survives every primitive,
  a ready process of the highest priority eventually runs, `waitpid` returns.
* Semaphores: a unit is only taken by a process that passed or that blocked for
  it; a lock excludes; nobody who is only blocked is collected; a signal wakes.
  The first two need callers that mask the interrupts, and the last is not so
  (section 6).
* Heap: blocks do not overlap, no memory is lost, free chunks are merged, and a
  request is refused only when there is no room.
* Hash table: it is a map, and every lookup ends.
* Console: what is printed is shown, and the null pointer is never written.
* Keyboard: the driver agrees with the keyboard on what is down and on what is
  locked, and a key counts once.
* GDB: commands and replies pair up, gdb's beliefs of the program are so, the
  program resumes as it was told, neither side waits for ever, and the machine
  is held for an acknowledgement only where one may come.
* Paging, C library: each function is compared with a definition of its purpose.

## 2. The modules

| Module | Models | Kind |
|---|---|---|
| `PrioQueue` | `queue_add`, `queue_del` as operators on sequences (head first) | operators |
| `LinkQueue` | the macros of `queue.h`, pointer by pointer, two lists sharing the link field, assertions | state machine |
| `QueueSpec` | what a queue promises: a sequence per head, insertion by priority, `queue_out` gives the last | abstract specification; `LinkQueue` refines it |
| `Process` | `ordonnance`, the process primitives, the clock interrupt, boot | state machine |
| `ProcessLifecycle` | absent, ready, running, blocked, dead, collected: the steps a process may take | abstract specification |
| `ProcessRefinement` | the mapping from `Process` to `ProcessLifecycle` | refinement |
| `ProcessFair`, `MCPrograms`, `MCProcessFair` | `Process` with fairness, for the liveness properties | specification |
| `Sem` | `sem.c` on top of `Process` | state machine |
| `MCSem`, `SemRefinement` | TLC's constants; `Sem` refines `ProcessLifecycle` too | |
| `SemMutex` | processes using a semaphore as a lock | composition |
| `ProcessClaims`, `SemClaims` | what comments, assertions and tests say and the code does not do | properties |
| `Hash` | `hash.c`: both hash functions, the probe sequence, deleted slots, resizes that fail | state machine |
| `HashSpec` | a map, and what it answers | abstract specification; `Hash` refines it |
| `Malloc` | `malloc`, `free`, consolidation, growing and trimming over `sbrk`, as functions of the heap | operators |
| `Heap` | `mem_alloc` and `mem_free`, guard words included, over `Malloc` | state machine |
| `Console` | `traite_car` by several writers, one memory access at a time, and the time the clock writes | state machine |
| `DefKeymap`, `Keyboard` | the French maps; `do_scancode`, `translate`, the handlers of keys and modifiers, the lights; a keyboard whose bytes may be lost | state machine |
| `StringLib`, `FormatLib` | `string.c`, `strtol.c`, `strtoul.c`, `div64.c`; `doprnt.c`, `printf.c`, `sprintf.c` | operators |
| `GdbPacket`, `GdbMemory`, `EarlyMM` | `getpacket` and `putfrags` byte by byte; the copies through the page tables; `early_mm.c` | operators |
| `Library`, `LibraryProperties` | calls of these operators on bounded inputs; what each promises | state machine; properties |
| `GdbCommands` | what `gdb_serial_converse` does of each command | operators |
| `GdbSession` | trap handler, stub, line and gdb | composition |
| `MCLibraries`, `MCTerminal`, `MCGdbSession` | TLC's instances: queue, hash table, heap and library; keyboard and console; a session | |
| `HashFunctions` | the two hash functions, which use bitwise operators | operators; TLC's instance gives their values to `Hash` |
| `PrioQueueProofs`, `LinkQueueProofs` | | proofs about the queue |
| `HashProofs` | | proofs about the hash table |
| `GdbSessionProofs` | | proofs about a session |
| `ProcessProofs` | | proofs about the scheduler |
| `SemProofs` | | proofs about the semaphores and the lock |
| `HeapProofs` | | proofs about the heap |
| `TerminalProofs` | | proofs about the console and the keyboard driver |

### Correspondence with the code

`Process` has one variable per C object the primitives read: `pidmax`,
`chosen`, the fields `state`, `prio`, `retval`, `children` of the table indexed
by pid, `process_list` as a sequence (head first, so the process to run next is
the last), and `toKill_list` as a set, since the code only searches it. `IFLAG`
is the interrupt flag. What is on the stacks is three variables: `pc[p]` says
where `p` continues when it has the processor, `local[p]` what its suspended
primitive remembers (the child of `start`, the pid awaited by `waitpid`, the
semaphore of `wait`), and `interrupted[p]` that it is inside the clock handler
on top of that. `halted` records a failed assertion or a fault.

One action is the code a process executes between two points where another
context may run: a primitive up to its return or to the `ctx_sw` inside
`ordonnance`, the rest of a primitive after the switch back (`StartReturn`,
`KillReturn`, `ChprioReturn`, `SignalReturn`), one turn of the loop of `waitpid`
(`WaitpidSpin`, then `WaitpidReap` or `WaitpidPanic`), the handler up to its
`ctx_sw` (`Tick`) and its end (`TickReturn`). The code's early returns are the
`...Refused` actions; they matter because several of them change the interrupt
flag (`KillRefused`, `ChprioRefused`, `WaitpidRefused`). `Ordonnance(l, st, pr)`
is the whole of `ordonnance`, given the queue, states and priorities its caller
has just made, and is used by every caller.

Details worth knowing when reading it:

* `start` adds the child to the parent's children and the child to the queue,
  and gives up the processor only when the child's priority is higher.
* `kill` searches `process_list`, so it finds neither its caller nor a blocked
  process; the victim's suspended primitive never continues (its `pc`, `local`
  and `interrupted` are reset).
* `chprio` puts its caller into the queue for the search, moves the target, and
  takes the caller out again; the priority is written before the state is
  looked at.
* `waitpid` on pid >= 0 accepts any process that is in one of the lists once
  its caller has any child: the comparison with the children is commented out.
* A return value that only goes back to the caller is not state. The ones
  properties are about are operators (`StartResult`, `getprio`).
* idle runs a loop of `sti; hlt; cli`; its `cli` is merged into `Sti`.
* `Cli` and `Sti` are the calls ordinary processes make in their own code.
* A stack that cannot be allocated (`StartNoStack`) leaves the pid used up. The
  two allocations of `start` that are not tested (the process, `process.c:87`, and
  the node for the list of children, 117) stop the machine when they fail
  (`StartFault`).

`Sem` splits `wait`, `try_wait`, `signal` and `signaln`, which mask no interrupt, at
every access to the counter that another process may have changed, so the clock can
take the processor away between any two: the call with its test (`Wait`, `TryWait`,
`Signaln`), the other tests of `try_wait` (`TryGoesOn`, `TryMisses`), the load and the
store of `val--` or `val++` (`SemLoad`, `SemStore`; the kernel is built without
optimisation, so they are different instructions), the test of the result
(`WaitPass`, `WaitBlock`, `SignalCheck`, one per increment), and the call of
`ordonnance` (`SignalYield`). `pc` says which comes next, `local` on which semaphore,
and `frame` what the primitive holds: its name, the counter it loaded, and the
increments left to it. Two adjacent reads that end in the same place (the tests of
`try_wait` at 193 and 195) are one. `torn` is a history variable: some process has lost
the processor between two of these steps. `screate`, `sdelete` and `sreset` are one
step each.

`Sem` keeps `sems` as the sequence of nodes in creation order, with the list of
blocked processes of each. The code builds the node for a blocking process and
never attaches it, so `add_proc_bloque(b, pid) == b`; the list is modelled, and
`signaln`, `sdelete` and `sreset` do use it, so that the model follows if the
code does. `passe_activable` changes the state of those it finds in
`process_list` and does not queue them. A primitive that uses the null pointer
of `sem_courant` sets `halted` to `"fault"`, and so does one whose node `mem_alloc` has
no room for (`ScreateFault`, `WaitFault`).

`LinkQueue` has `next` and `prev` for heads and elements, with a null value
before the first insertion and after a removal, the elements' priorities,
whether an assertion failed, and what the last `queue_out` returned. The priority
of an element changes while it is in no queue (`SetPrio`): `chprio` writes that of a
queued one just before it takes it out and adds it again, which comes to the same,
but leaves a zombie where it is; that case is in `Process`, where `OnlyZombiesUnsort` is
about it.

`Hash` has the map of the code (`table`, `mask`, `fill`, `count`; a slot is its
mode, hash, key and value), the answer of the last call and two facts the
properties need: that a resize was refused, and that a lookup would not end. A
key is an address; with `hash_init_string` two addresses can hold equal strings.
Memory never suffices for more than `MAXSIZE` slots, and a smaller allocation
may fail or not.

`Malloc` has the `malloc_state` of the code (fastbins, bins as sequences, the
binmap, `top`, `last_remainder`, the two flags of `max_fast`) and the headers of
the chunks, indexed by address. The header of a chunk that is swallowed by
another is dropped, and a caller's last word may overwrite the `prev_size` of the
chunk behind, as the code allows. Sizes and addresses are bytes; the word is
`ULONG` values wide.

`Console` takes one memory access per step, because the kernel is built without
optimisation and each statement loads `lig` and `col` anew: `reg` is what a writer
has loaded. Scrolling, clearing, the two ports of the cursor, and the load of `lig` with
the write of a cell (`console.c:32-36`) are one step.
The paper is a history variable: the text as it should look.

`Keyboard` keeps the driver's variables in the record `kb`; `HandleByte` is one
`do_scancode`, bottom half included. What is handed to `keyboard_data` since the
last byte is `kb.out`. The keyboard sends the bytes of a key (one to six) and
waits until they are read or lost. An escaped key may be wrapped in a false
Shift, as keyboards do in their own NumLock state.

`Library` has one variable, the last call with its arguments and its result. A
string is a sequence of character codes, a pointer into it a position. The direction
flag, which `memmove` may leave set, is not part of it: `memcpy`, `memmove` and `memset`
clear it before they use it (`string.c:108`, 136 and 172).

`GdbSession` has `pc` for what the machine does (`run`, `get`, `ack`, `dump`, `off`),
the registers in the task segment (`t`) and the stub's copy with memory, signal
and `connected` (`s`), `do_debug`, whether the stub is installed, and the two
directions of the line as sequences of packets and acknowledgements. The packet
that waits for an acknowledgement is kept with what follows it. gdb is external:
it sends a command, waits for `+` and then for the reply, acknowledges what it
reads, and sends again on `-` or when its timer ends; its packets' numbers, what
it believes, how often a command was executed and whether the line lost the last
acknowledgement of a gdb that has left (`goodbyeLost`) are history variables.
A `P` whose value is malformed has written part of the register when it is refused, as
in the code (`hex2bin` converts as it goes).
`putfrags` compares every character with `+`, so a packet that comes while it
waits makes it send the reply again (`COPIES` times, where the code does it once
per character).

## 3. The runs

Bounds are the constants of each `.cfg`. Deadlock is not checked where the
machine can stop on an assertion, a fault or with interrupts off and nobody to
enable them, which all these modules include.

| Run | What it asks | Instance | Distinct states |
|---|---|---|---|
| `libraries` | queue: `LinksTyped`, `OneQueueEach`, `HighestFirstCome`, `ImplementsQueue`; hash: `Counted`, `EndsUnlessRefused`, `ImplementsMap`; heap: `BlocksAreWhole`, `HeapIsConsistent`, `RefusesOnlyWhenFull`, `BestFit`; functions: `StringsConform`, `NumbersConform`, `PacketsConform`, `MemoryConforms` | below | 165,593 |
| `process` | `TypeOK`, `Conservation`, `IdleReady`, `DeadForever`, `OnlyZombiesUnsort` | idle and 3 processes, 2 priorities | 444,889 |
| `fair` | `HighestRuns`, `FewWaitpidEnds` under the fairness below | two programs: idle and 3 processes with 2 priorities, idle and 2 processes with 3 priorities that end | 24,239 |
| `sem` | `SemTypeOK`, `Conservation`, `DebtIsBlocked`, `CollectsTheDead`, `ImplementsLifecycle` | idle and 2 processes, a semaphore, values -2..2, two `screate` | 929,728 |
| `mutex` | `MutualExclusion` | idle and 3 processes, one lock, states that are not torn | 181,565 |
| `terminal` | keyboard: `DriverFollowsKeys`, `PadIsDelivered`, `OnlyPressesCount`, `TypesWhatIsHeld`; console: `TextIsShown`, `FaultsAreRaces` | below | 2,596,307 |
| `gdb` | `CommandsPairUp`, `BeliefsHold`, `HeldForGdbOnly`, `ResumesAsMeant`, `Answered`, `Released` | 2 commands of 23, one fault, 2 traps, one report | 134,499 |
| `double_wait`, `stale_pid`, `nested_wait`, `lost_wakeup`, `torn_lock` | one claim each, refuted | see section 6 | |

Why the bounds are enough: three processes besides idle give a parent, a child
and a grandchild, or a running process, a zombie in the queue and a ready
process behind it, or two waiters for the same process; the cases of
`queue_add` (below, equal, above) need two priorities, and idle holds the
lowest. Two priorities also make ties. `PROCESS_TABLE_SIZE` bounds the pids in the code itself: a
pid is never reused, so the state space is finite without any other bound in
`Process`. In `Sem`, `MAXCREATE` bounds the calls of `screate` (`nb_sem` has no
limit in the code), and the limits of a `short` are scaled down to
`VAL_MIN`..`VAL_MAX`, which are the constants the primitives test. `mutex` does not
go on from a state that is torn (`Untorn`), of which `MutualExclusion` says nothing;
`torn_lock` has no such constraint. `sem` does not go on from
a state that is torn once a second `screate` was refused (`RefusedWhileUntorn`): the
call only adds to `nb_sem`, which lets one more number pass for a semaphore.
The safety theorems of section 5 hold without
these bounds.

`libraries` runs one part to a behaviour, so that the instances add and do not
multiply. The queue has four elements, two heads and two priorities: ties,
insertions at both ends and in the middle, and an element that changes lists
all happen. The hash table has four addresses, three of which share a slot in a
table of 4 or of 8 and two of which point to equal strings, so tables fill with
active and with deleted slots, grow, shrink and fail to. The heap has 220 bytes
in pages of 64, words of 512 values and lengths of one fastbin, one small bin,
the large bins, more than is left and one that wraps; four blocks out and five
successful calls are enough to split, to merge on both sides, to fill and
empty the fastbins, to grow `top` and to try to trim it (each of these steps has
been seen to be taken). The functions run on every string of up to five letters of
two, every area of five bytes, every number of a word of 5 bits (double words
of 10 for the division, whose divisors are those around the powers of two and
the word), packets of up to three characters in a buffer of 8, and pages of two
bytes.

`terminal` has a letter, the six modifier keys in use (two of them for Shift, two
escaped), CapsLock, NumLock, a key of the keypad, End and Pause; three are down
at once, one of which is not a modifier, so two keys of one modifier with a
third key, and sets of modifiers without a map, occur. One byte is lost:
more would only repeat it. An `int` has 16 values and a `char` 8, so that two
digits on the keypad overflow both. The screen has two lines of three columns:
four characters wrap, scroll, tabulate and overlap in all ways of two writers.

In `gdb` a second command can meet the resent reply of the first, one fault
damages or loses any packet or acknowledgement, and the second trap comes after
the program was resumed. A page is one byte, so an access of two crosses. One value
is enough for `eax` at a trap (0), since what gdb writes is 1.

The process arguments (`PrioArg`, `PidArg`, `SidArg`, `COUNTS`) range over valid
values and over values just outside the valid range on both sides.

### Fairness

`ProcessFair` assumes strong fairness of `Tick` (the PIT raises an interrupt
periodically; whenever the flag is set again and again one is taken), weak
fairness of `Sti` for a process in its own code with the flag clear (the loops
of the kernel's programs call `sti`; idle does at every turn) and weak fairness
of `Resume` (code that runs with the flag clear runs on). `EndsInTime`, for
`WaitpidEnds`, adds that a process gets out of the handler and of its primitive,
and exits, if it gets the processor often enough: without it nothing awaited need
end. `MCPrograms` runs two programs, one to a behaviour: the many, who may run for
ever and of whom only `HighestRuns` speaks, and the few, a parent and a child, for
whom `EndsInTime` is assumed. With a third process nested waits need not end
(`nested_wait`). Processes do not call `chprio` in these runs, since one that
requeues itself or the others at each turn can starve them by design.

`GdbSession` assumes `WF_vars(Stub)`, `WF_vars(GdbReads)` and `WF_vars(Silence)`: the
stub polls the serial line in a loop with interrupts off, gdb reads what arrives,
and gdb's timer ends. Nothing is assumed of traps, keys, the program or of gdb
attaching. `Answered` therefore excepts a program that runs for ever. Faults of the
line are not assumed to stop: there are finitely many in a run, which is what lets
a reply get through.

## 4. The properties

* `Conservation`: the ready processes are in `process_list` exactly once, with
  none but zombies beside them; `toKill_list` holds zombies that are nowhere
  else; exactly `chosen` is `CHOSEN`.
* `IdleReady`: whenever another process runs, idle is ready. `ordonnance` returns
  into its caller when it finds nobody, and `exit` and `wait` rely on it not
  doing so.
* `DeadForever`: no step revives a zombie or changes the value it died with.
* `OnlyZombiesUnsort`: a step that finds the queue sorted leaves it sorted,
  unless it changes the priority of a zombie.
* `ImplementsLifecycle`: each step is one of `ProcessLifecycle`. In particular
  only a ready process is killed, whoever dies or blocks hands over to a ready
  process in the same step, a zombie is collected at most once, and there is no
  way out of "blocked".
* `HighestRuns`, `WaitpidEnds` (`FewWaitpidEnds` for the few): see Fairness.
* `DebtIsBlocked`: a counter below zero is backed by processes that blocked on
  that semaphore, or are past the decrement and about to, whatever resets, overflows
  and failed `try_wait`s came between, until a process loses the processor inside
  `wait`, `try_wait` or `signal`. Then it does not hold of the code: of two decrements one
  can be lost, or a process killed before it blocks leaves a unit nobody owes.
* `CollectsTheDead`: `waitpid` never unlinks a process that is only blocked,
  although blocking ends its loop.
* `MutualExclusion`: a semaphore made with 1 is a lock, also when its holder
  is preempted in its section, killed or exits, for callers that do not lose the
  processor inside `wait`, `try_wait` or `signal` (because they mask the interrupts, or
  by chance). For the others it is not, see `torn_lock` in section 6.
* `HighestFirstCome`, `OneQueueEach`, `LinksTyped`, `ImplementsQueue`: the list
  macros.
* `ImplementsMap`: every operation of the hash table answers as a map would, also
  after refused resizes; `Counted`: `fill` and `count`, on which resizing rests, are
  exact; `EndsUnlessRefused`: a lookup ends unless memory was refused before.
* `HeapIsConsistent`: the chunks tile the heap, the boundary tags tell the truth,
  no memory is lost or in two lists, no two free chunks touch, and each is where
  the search looks. `BlocksAreWhole`: a block lies in a chunk of its own.
  `RefusesOnlyWhenFull`: with the fastbins merged there is no room.
  `BestFit`: of the free chunks that fit, a smallest is given, the last remainder
  alone among the unsorted excepted.
* `TextIsShown`: while writers do not overlap the screen shows the end of the text;
  a form feed restores this. `FaultsAreRaces`: only overlapping writers reach the
  null pointer (they do reach it, see section 6).
* `DriverFollowsKeys`: keys down, modifiers and lights agree with the keyboard, and
  after a lost byte in all but the named ways. `PadIsDelivered`: a code typed on
  the keypad is sent when the modifiers are up. `OnlyPressesCount`: neither
  repeats nor releases count as presses. `TypesWhatIsHeld`: Shift and CapsLock
  cancel, and a set of modifiers without a map types nothing.
* `CommandsPairUp`: the reply gdb takes is the one to its command, and a command is
  executed twice only if an acknowledgement was damaged or gdb was too early.
  `BeliefsHold`: what gdb believes of registers and memory is so.
  `HeldForGdbOnly`: the program is held, with the interrupts masked, only for an
  acknowledgement that a gdb busy with the session has still to give, or that a gdb
  that has left has sent, unless the line has lost that one. `ResumesAsMeant`: it
  resumes with the registers gdb means it to have. `Answered`, `Released`: neither
  side waits for the other for ever, with the same exception.
* `StringsConform`, `NumbersConform`, `PacketsConform`, `MemoryConforms`:
  conjunctions of one property per function or pair of functions, each stated
  above its definition in `LibraryProperties`.

## 5. The proofs

The theorems about the scheduler assume `ConstantsAssumption`: at least two pids (idle and one
more), at least two priorities (`kernel_start` starts the first process above
idle's), integer return values. Those about semaphores also assume
`SemConstants`: fewer semaphores than processes (`NBSEMS` is 5 in `sem.h`, and the
model allows any number below the size of the table), counters and counts
between `VAL_MIN` and `VAL_MAX` (a C `short`), and a bound on the calls of
`screate`, any natural number. They hold for every value of the constants
allowed by these.

| Theorem | Module | Says |
|---|---|---|
| `TypeCorrect` | `ProcessProofs` | `Spec => []TypeOK` |
| `ConservationHolds` | `ProcessProofs` | `Spec => []Conservation` |
| `IdleAlwaysReady` | `ProcessProofs` | `Spec => []IdleReady` |
| `DeadStayDead` | `ProcessProofs` | `Spec => DeadForever` |
| `OrderKept` | `ProcessProofs` | `Spec => OnlyZombiesUnsort` |
| `LifecycleImplemented` | `ProcessProofs` | `Spec => ImplementsLifecycle` |
| `SemTypeCorrect` | `SemProofs` | `SemSpec => []SemTypeOK` |
| `SemConservation` | `SemProofs` | `SemSpec => []Conservation` |
| `DebtsAreBlocked` | `SemProofs` | `SemSpec => []DebtIsBlocked` |
| `OnlyTheDeadCollected` | `SemProofs` | `SemSpec => CollectsTheDead` |
| `LockExcludes` | `SemProofs` | `MutexSpec => []MutualExclusion` |
| `SemLifecycleImplemented` | `SemProofs` | `SemSpec => ImplementsLifecycle` |
| `QueueImplemented` | `LinkQueueProofs` | `LinkSpec => ImplementsQueue` |
| `EachInOneQueue` | `LinkQueueProofs` | `LinkSpec => []OneQueueEach` |
| `LinksLeadBack` | `LinkQueueProofs` | `LinkSpec => []LinksTyped` |
| `HighestFirst` | `LinkQueueProofs` | `LinkSpec => []HighestFirstCome` |
| `TableKept` | `HashProofs` | `TableSpec => []HashInv`, the invariant of the table |
| `HashCounted` | `HashProofs` | `TableSpec => []Counted` |
| `LookupsEnd` | `HashProofs` | `TableSpec => []EndsUnlessRefused` |
| `MapImplemented` | `HashProofs` | `TableSpec => ImplementsMap` |
| `PairsUp` | `GdbSessionProofs` | `Spec => []CommandsPairUp` |
| `Believed` | `GdbSessionProofs` | `Spec => []BeliefsHold` |
| `HeldForGdb` | `GdbSessionProofs` | `Spec => []HeldForGdbOnly` |
| `GoesOnWithItsRegisters` | `GdbSessionProofs` | `Spec => ResumesAsMeant` |
| `OnlyRacesFault` | `TerminalProofs` | `ConsoleSpec => []FaultsAreRaces` |
| `PrintedIsShown` | `TerminalProofs` | `ConsoleSpec => []TextIsShown` |
| `FollowsTheKeys` | `TerminalProofs` | `KeyboardSpec => []DriverFollowsKeys` |
| `PadIsSent` | `TerminalProofs` | `KeyboardSpec => []PadIsDelivered` |
| `ReleasesAreSilent` | `TerminalProofs` | `KeyboardSpec => OnlyPressesCount` |
| `LettersAreTyped` | `TerminalProofs` | `KeyboardSpec => TypesWhatIsHeld` |
| `BlocksStayWhole` | `HeapProofs` | `HeapSpec => []BlocksAreWhole` |
| `HeapStaysConsistent` | `HeapProofs` | `HeapSpec => []HeapIsConsistent` |
| `RefusalsAreRight` | `HeapProofs` | `HeapSpec => []RefusesOnlyWhenFull` |
| `MallocFitsBest` | `HeapProofs` | `HeapSpec => []BestFit` |

**Inductive invariant.** `IInv == TypeOK /\ Conservation /\ IdleReady /\ Fresh`.
`Conservation` is not inductive alone: `start` writes the table entry
`pidmax + 1` and queues it, which would duplicate a process if that entry were
in use, and `Boot` runs while idle has the processor. `Fresh` says that pids
above `pidmax` are `NONE` and that idle is untouched until it has booted.
`IdleReady` and `Conservation` need each other: that `ordonnance` finds somebody
is what keeps `chosen` the only `CHOSEN` process.

**Argument.** All the callers of `ordonnance` meet one obligation, `Callable(l,
st)`: the list holds each ready process once and otherwise zombies, never the
caller, and idle is ready unless it calls. `LeaverCalls`, `KillerCalls`,
`StarterCalls`, `ChprioCalls` show it for each caller, and `OrdonnanceConserves`
shows that a call under `Callable` re-establishes `Conservation` and
`IdleReady`. `ElectedStops` says what the loop over zombies returns. Below
these, `PrioQueueProofs` says what `queue_add` and `queue_del` do to the
elements, to injectivity and to the order of a sequence; these lemmas are
about any set of elements and any sequence.

`OrderKept` uses that zombies keep the priority they are sorted by. The
refinement proof writes the mapping as a function `Status` of the states and
the set of linked processes (`InLists`), shows in `SwitchImplements` what one
call of `ordonnance` does to `Status` (the caller's new status, the elected
process running, every zombie as linked as it was), and then matches each
action with a step of `ProcessLifecycle` or a stutter: `Start` and `Boot` with
`Create` or `CreateAndSwitch`, `Exit` with `Die`, `Kill` with `KillAndSwitch`,
`Chprio` and `Tick` with `Yield` or a stutter, `WaitpidReap` with `Collect`.
`IInv` supplies that the killed process is ready and that the collected one is
a linked zombie.

**Semaphores.** The invariant is
`SemInv == IInv /\ SemTyped /\ Shape /\ Alone /\ Accounts /\ DebtIsBlocked`: the
scheduler's, and five parts about the semaphores. `SemTyped` strengthens the type
invariant by what `SemTypeOK` leaves open and everything hinges on: the lists of
blocked processes are always empty, because `add_proc_bloque` never attaches the
node it fills. Hence `passe_activable` is called for nobody (`WakesNobody`), and a
primitive touches the scheduler only through `ordonnance`, under the same
`Callable` as before. `Shape` says what goes with each point of a primitive: a
semaphore that exists, a primitive that has this point, an increment to make. These
two hold however the primitives are torn, and with `IInv` they give `SemTypeCorrect`,
`SemConservation`, `OnlyTheDeadCollected` and the refinement.

The other three are about the runs up to the first tear. `Alone`: only the running
process is between two accesses to a counter. `Accounts`: what that process has
found of the counter is still true of it: what it loaded is what is there, and the
step it is on its way to does not go round the ends of the `short`. So the store
changes the counter by exactly one. `DebtIsBlocked` is then kept for two reasons:
`NextKeepsBlocked` shows that no step of the scheduler moves a blocked process
(so the set that backs a counter never shrinks), and a counter only goes below
zero in the store of a `wait`, whose process is counted from there (`Owing`) and blocks
at its next step. The others raise a counter, set it to a count that is not
negative, or take a unit only when one is left. `NBSEMS` is below the size of the
table because `local` holds the position in `sems` that a process works on or
remembers, as a number of the same range as the pids.

`LockInv` says that, untorn, the counter of the lock, the number of processes inside
and the units in flight add up to at most 1 (`Shared`). A unit is in flight
(`Pending`) when it has left the counter and the process that took it has not yet
passed its last test, or when a process has left the section and not yet stored its
increment. Dying inside keeps the unit. The refinement reuses
`SwitchImplements`: `WaitBlock` is the `Block` step, `SignalYield` a `Yield` or a stutter,
and the rest leave `Status` alone.

**Queue.** The theorems about `LinkQueue` assume `LinkConstants`: heads, elements and
the null pointer are different, and there are finitely many elements. The
invariant is `LinkInv`: `Laid(Queues, next, prev)`, where `Queues` is what following
the pointers from each head finds and `Laid(Q, nx, pv)` says that the pointers
are the circles of the sequences `Q` and of nothing else. `FindsQueue` shows that
pointers laid out for `Q` are followed to `Q` (a queue has at most as many elements
as there are, which is what bounds the walk), so a step is dealt with by laying
out its pointers: `InsertLays` for `queue_add`, at the place where `InsertsWhere` says
its scan stops, and `RemoveLays` for `queue_out` and `queue_del`. With the lemmas of
`PrioQueueProofs` this gives the step of `QueueSpec`. The theorems about the
scheduler are about the sequences; this one ties the sequences to the
pointers. `HighestFirst` needs more, because a scan that removes an element of
the middle and one that inserts before equals would both keep the pointers right:
`FifoInv` adds that `arrivals` has exactly the queued elements, each once
(`Records`), and that of two neighbours in a queue the one nearer to its end has
the higher priority or came first (`Ranked`).

**Hash table.** The theorems assume `HashAssumption`: sizes are powers of two up to
`MAXSIZE`, a hash is a word of 32 bits, and equal strings have equal hashes, which
is all that hash.c asks of its two functions. `HashInv` says of every table
(`TableInv`) that its active slots hold different keys, that each of them is found
by the probe sequence of its hash with no empty slot on the way (`AllPlaced`), that
`fill` and `count` are exact, and that an empty slot is left unless a larger table
was refused. The last two conjuncts need each other: the counters decide when
to resize, the resize keeps the empty slot, and the empty slot is what ends a
lookup, provided that the probe sequence meets it. That it does is the part
about numbers: `perturb` is 0 after 7 turns (`ProbeSettles`), and from then on
`i -> 5i + 1` runs through every index of a table whose size is a power of two, by
doubling (`JumpsAll`, `MetAll`): `s` turns, which come back to the same index modulo
`s`, move it by an odd multiple of `s` modulo `2s`, so that `2s` turns meet both
halves. `LookupIs` then says what a lookup returns, `StoredKeeps` and `DeletedKeeps`
what the writes do to a table, and `CopyKeeps` that a resize copies the contents,
slot by slot: an induction on numbers is written as the least counterexample
(`LeastOf`), since the induction theorems of the library cannot be used here.

**Debugging session.** The theorems assume `SessionConstants`: gdb looks at one cell
of the memory, which a memory command starts at and touches once, and a `G` that
is well formed gives as many registers as the stub has. Any set of commands of
this kind, any number of faults, traps, reports and copies of a reply, any values.
`CommandsPairUp` and the others say nothing by themselves of what is on the line, so
`SessionInv` adds it. `TurnInv`: at most one command is on its way to the stub or one
verdict on it (`+` or `-`) is on its way to gdb, never both, and the command is the
one gdb waits for. `ReplyInv`: among the packets to gdb, those that come after the
`+` of a command are its own or plain reports of the program (`Fits`), and the
machine is then serving that command (`Serves`). This is where the number of copies
of an old reply does not matter: they are all before the `+`. `OnceInv`: a command
that was executed has its `+` on the line, if no acknowledgement was damaged.
`BeliefInv`: what gdb believes is so and it believes nothing of a program that runs;
`MeantInv`: what gdb meant for the registers is so until its command lets the
program go. `HeldInv` is about the machine that waits for an acknowledgement without
being in a command: the program runs on, as far as the stub knows, only under a gdb
that is busy letting it run, so the report it makes finds gdb there. It needs
`Timely`, a part of `Fits` and `Serves`: while the program runs and the stub takes itself
to be connected, nothing on the line ends the command of gdb, since a report of the
end disconnects the stub first; and when gdb takes that report or the reply to a
detach, it leaves, and its `+` is on the line until a fault takes it. `EnteredInv` is
about the installation and the attaching. All but the types and
`EnteredInv` hold as long as gdb is patient: with `early` a second copy of a command
may be behind its own verdict, and nothing on the line tells its reply from that
of the next one. `HaltedTells` and `ResumingGoes` say what each of the 20 commands does
to the registers and the cell, and there is one lemma `...Patient` for each action.

**Console.** The theorems assume `ConsoleAssumption`: the screen has a line and a
column, a tabulation ends on the screen (72 + 4 < 80), lines and columns are
below the width of `lig` and `col`, and so is every position the card is told
(25 * 80 <= 2^16); the number of characters is not bounded by anything.
`CInv` says that while no two characters have overlapped at most one writer is
busy and the cursor is on the screen, and where that writer stands: past each
test of `traite_car`, the cursor is where the statements after the test rely on it
(`Reached`). This gives `OnlyRacesFault`. For the text, a busy writer has already
changed the paper and not yet the screen, so `DInv` adds what is owed: `Promised(w)`
says, at each place of `traite_car`, that doing the statements that are left makes
the screen show the paper. `BeginPromises` shows that a character makes the
promise, one lemma for each change of the paper (`PutDisplayed`,
`NextLineDisplayed`, `MoveDisplayed`); `StepPromises` that each access keeps it; and
at rest nothing is owed, which is `TextIsShown`. What the clock writes into its
corner is carried along (`Overwritten`): no promise speaks of the corner's cells.

**Keyboard.** The theorems assume `KeysAssumption`: the keys are among those the model
has of each map, one of every kind of key, `NR_KEYS`. Any set of them, any number
held together, any number of bytes lost, at any place. The properties of the driver
say nothing of the bytes that are still on their way, so `KInv` adds it: while no
byte was lost, the line and the prefix remembered by `translate` are what is left of
one key (`OnItsWay`), and reading them turns the keys the driver holds down into the
keys that are down. `LeftGoesOn` and the lemmas after it show that a byte goes on
with that key and with no other, the padding around `END` and the six bytes of
`PAUSE` included. `Counted(kb, exact)` says that a modifier is on exactly when its
count is above zero and, when `exact`, that the count is the number of its keys
that are down. It is carried for both values of `exact`, since what the driver does
of an event is the same whether bytes were lost before it or not; without `exact` a
count may be too low, and too high only for a modifier with an escaped key, whose
release is taken for a press when the press was lost (`unexpected_up`). For the code
of the keypad it matters that a release under modifiers that have no map does not
reach `do_shift`: what saves it is that those sets have at least two modifiers, so one
release cannot empty them (`PadIsDelivered`). The maps enter the proofs as tables:
each key of each map is looked up once, in a lemma.

**Heap.** The theorems assume `HeapAssumption`: sizes and addresses are positive, the
kernel lies below its heap (32 bytes of it are enough), the heap ends in the lower half
of the unsigned longs (`mem_heap_end` is 0x4000000, `kernel/build/kernel.lds:103`; sYSMALLOc
reads a difference of them as a signed long), a page and the smallest large size are
multiples of 8, and the number of words is a multiple of the page. `LengthsAssumption` says that a
length is an unsigned long. The addresses, the page, the thresholds, the lengths and the
number of blocks and of calls are otherwise any.

The invariant is `HeapInv`. Its core is `HeapOK(h, U, P)`, which says of a heap at any
place of malloc or free that `U` are the chunks handed out and `P` those on their way
between two lists: the lists are sequences without repetition (`Shaped`), the chunks tile
the memory, with tags that tell the free from those in use (`Laid`, `Tiled`), and each list
holds its own sizes, the bins the largest first and marked (`Sorted`, `FastSorted`).
Chunks of the fastbins count as in use there, which is what their tags say, and this is
how free, consolidation and malloc can be treated alike. `Known` adds the two flags.
The properties alone are not inductive: that a
free chunk borders no free chunk rests on the tag of the next one, which rests on the tiling,
and that `unlink` takes a chunk out of the right bin rests on its being in one list once.

Each change of the headers has a lemma about the tiling (`TakenIsTiled`,
`FreedIsTiled`, `ForwardIsTiled`, `BackwardIsTiled`, `TopIsTiled`, `SplitIsTiled`,
`UsedTopIsTiled`, `GrownIsTiled`, `FirstIsTiled`, `LentIsTiled`), each change of a list one
about lists (`ListGains`, `ListLoses`, `ListUnlinks`, `InsertedDescends`), and each routine of
`Malloc` one that says what it leaves (`ConsolidatedIsOK`, `SortIsOK`, `CarveIsOK`,
`BestChunkIsOK`, `MoreCoreIsOK`, ..., `fREeIsOK`, `mALLOcIsOK`). The loops of
`malloc_consolidate` and of the sorting of the unsorted chunks are recursive functions of
the number of turns; the lemmas show that such a function exists (`TurnsExist`) and that
no turn is the first to break what the loop keeps (`LeastOf`), which is an
induction the provers can follow. That `largebin_index` grows with the size
(`LargeGrows`, `BinGrows`) makes the first marked bin above hold the smallest chunk
that fits (`HigherIsLarger`, `ScanMapIs`); so a search that finds nothing leaves `NoFit`,
which gives `RefusesOnlyWhenFull`, and one that finds a chunk gives `Fits`, the last
remainder excepted, which is `BestFit`. The address where memory begins need not be
aligned: `FirstTop` is proved for any.

**Only model-checked.** The liveness properties (fairness and ENABLED are out of
TLAPS's reach) and the functions of the libraries. `StringLib`, `FormatLib` and
`GdbPacket` are recursive by nature, like the loops they model: the SMT backend is not
available there, and what a recursive definition computes for every input is an
induction over data.

## 6. Where code and documentation disagree

Each of the following has a run whose trace shows it.

* `double_wait` (`QueueDelNeverFails`): two processes wait for the same one; the
  second to leave its loop unlinks an element already unlinked, on which
  `queue.h:158` asserts.
* `stale_pid` (`StartNamesItsChild`): `start` returns `pidmax`, read after the child
  has run; if the child started a process, the parent gets the grandchild's
  pid, against `test8.c`.
* `nested_wait` (`WaitpidEnds`): a parent and its child of equal priority both
  in `waitpid`, with a grandchild of lower priority: the busy loops hand the
  processor to each other for ever.
* `lost_wakeup` (`SignalWakes`): `signal` on a semaphore with a blocked process
  makes nobody ready, against `sem.c:124`.
* `torn_lock` (`OneInside`): `wait` masks no interrupt around `val--` and reads the counter
  again after it (`sem.c:208-215`). A process preempted between the load and the store
  of the decrement lets another pass with the same unit, then stores the same 0 and
  passes too: two are in the section that `tests/test20/test20.c:18` calls "semaphore
  d'exclusion mutuelle" and on which `tests/test11/proc_mutex.c:34` asserts. It takes
  callers with the interrupts on; with them masked `MutualExclusion` holds.

Met while modelling and read off the code, without a run:

* `waitpid` accepts a process that is not a child (`process.c:297-306` is
  commented out; the comment at 328-329 says otherwise).
* `kill(getpid())` is refused because the caller is not in `process_list`
  (`process.c:228`); test 8 and test 12 have processes kill themselves.
* `try_wait` fails when the counter is 1 (`sem.c:189`); test 13 expects success.
* `getprio` and `chprio` do not find a blocked process (`process.c:400-412`).
* `kill(0)` returns with interrupts off (`process.c:226`).
* A failed `screate` still counts in `nb_sem`; a failed stack allocation in
  `start` still uses up a pid.
* The branch of `waitpid` for pid < 0 (`process.c:253-276`) is not valid C.
* `SLEEPING` is never set; `unblock`, `block_send` and `block_recv` are only used by
  the message queues, whose first successful `pcreate` writes through an
  unallocated pointer.
* `masque_IRQ(n, true)` clears bit n and sets bit 0 (`time.c:110-113`): the mask is not
  shifted to the interrupt it is for.
* `chprio` of a zombie still in the queue writes its priority (`process.c:374`) and
  returns -1 without moving it. A later `queue_add` stops its scan there, and a
  process is queued above one of higher priority, against `queue.h:9-12`.
  `OnlyZombiesUnsort` is what remains true.
* A primitive on a deleted semaphore uses the null pointer `sem_courant` returns
  (`sem.c:118`), where the test of semaphores expects -1 (`SemFault`).
* `message_queue.c:32`: see section 7.
* Console: `display_corner` writes over the program's text, and its caller's buffer
  (`time.c:42`) is one byte too short for what `sprintf` puts there. Two writers
  preempted in `traite_car` leave the cursor anywhere until a form feed, and can
  have `ptr_mem` return a null pointer, which is written.
* Keyboard: the release of an escaped key whose press was lost is taken for a
  press (`kbd_unexpected_up`); a code typed on the keypad that comes to FFFFFFFF is
  the mark for "no code"; the scroll lock light is never set, although the
  comment at `keyboard.c:461-463` says so; no error code of the keyboard gets past
  `do_scancode`, so the code that handles them is never used.
* GDB: the count of a run of seven characters is sent as `#` and of eight as `$`
  (`gdb_serial.c:191`), which end and start packets; the length of an X command
  counts escaped bytes twice (418-421); `m addr,0` sends the command back;
  acknowledgements bear no number; the last acknowledgement of a gdb that leaves, once
  lost, leaves the machine in `putfrags` with the interrupts off for ever
  (`gdb_serial.c:221`; `goodbyeLost` in `HeldForGdbOnly` and `Released`); the tests of a
  register number and of lengths go round (`(reg+1)*4` at 341 for 3fffffff, `len*2` at 371
  and 400), which the model folds into whether a command is well formed; a packet of less than three bytes is tested
  against what the one before left (`:` in `buffer[2]`); `regs_changed` is never
  read; `gdb_serial_puts`, `_putchar` and `_killed` have no callers.
* Heap: the kernel's `sbrk` refuses a negative increment, so trimming never gives
  memory back; the branches for a foreign `sbrk` cannot be reached; `mem_free` with
  a wrong length other than 0 stops the machine in `mem_bug`.
* C library: `vsnprintf` writes its final zero one byte past the size it is given;
  a string cut by its precision and padded on the right is one character short;
  `strrchr(s, 0)` gives a null pointer and so does `strstr` with an empty needle;
  `do_div64` traps when the divisor, shifted to a word, is all ones; `memmove` can
  return with the direction flag set, which compiled C takes to be clear.
* `early_mm_check` looks at `.data` twice and never at `.bss` (`early_mm.c:119-122`).
* `hash_set` and `hash_del` return -1 when the resize after them failed although the
  change was made.

## 7. What is not modelled, and the plan

In this order:

1. **Preemption inside the other primitives.** `wait`, `try_wait`, `signal` and `signaln` can
   be preempted at each access to a counter. Elsewhere an interrupt is only taken
   between the steps of `Process`. `start`, `exit`, `screate`, `sdelete`, `sreset` and the
   handler (which calls `sti` before `ordonnance`, `time.c:43`) can be interrupted between
   two queue operations, and `start` and `screate` in the allocator, which is not
   reentrant. A module with these steps one by one, checked against `Process`: its
   state space is the obstacle.
2. The rest of `malloc.c` (`realloc`, `memalign`, `calloc`, the statistics and the
   tuning), which no code of the kernel calls.

Not modelled, for these reasons:

* Message queues: the first `pcreate` that passes its tests writes through
  `queues[nb_queue]`, which nothing has allocated; no state of a queue is
  reachable, and what the write does is undefined.
* `waitpid` for pid < 0, which is not C.
* Keyboard: the raw and Unicode modes, dead keys, sticky keys, compose and the
  `ioctl` interface, which no code and no key of the map sets; the interrupt and
  the ports of the controller.
* GDB: thirteen of the sixteen registers, which are treated as the three that
  are kept; the picture of the register dump.
* Formats of floating point numbers (compiled out); clock settings; descriptor
  tables and the assembly around them, which are data and hardware setup.
* `user/`: stubs.
