# A TLA+ verification of AVOS

AVOS is a small x86 operating system: a boot loader for BIOS machines (two
boot sectors, a 16-bit stage and a 32-bit multiboot stage) and a symmetric
multiprocessor kernel with processes, a preemptive scheduler, spin, sleep and
IRQ locks, a buddy allocator, page tables and a few devices. This directory
holds TLA+ models of it, the configurations that check them with TLC, and proofs
that TLAPS checks. `PROJECT.json` lists which definition models which lines,
the runs, the hazards, the mutated definitions each property is tested against,
and the theorems.

    tlc -workers 2 -config MCScheduler.cfg MCScheduler     # one run
    tlapm SchedulerProofs.tla                              # one proof module

## 1. The system: components, state, operations

| Component | State | Operations | Interacts with | What makes it correct |
|---|---|---|---|---|
| Scheduler, context switch (`core/taskmaster/scheduler.c`, `state.c`, `arch/tasking`) | process table (`status`, `wakeup_on`), `Process_lock`, per stack `preemption_vetos`, `kernel_task`, per CPU TSS `esp0`, `start_time` | `Schedule`, `Process_Preempt`, `Process_SleepOn`, `Scheduler_RaiseAlarm`, `KContext_Switch` | every CPU runs `Schedule()`; interrupts enter through `Interrupt_Return` | the lock is held across a switch and released by *another* context; a stack runs on one CPU; a process returns to the CPU it is on |
| Interrupt and system call entry (`arch/tasking/interrupt.*`) | interrupt flag, interrupt frames | `Interrupt_Handle`, `Interrupt_Return`, vector 0x80 | calls the scheduler | preemption only where no veto stands |
| Processes (`core/taskmaster/process.c`) | pid, parent/child/sibling lists, kernel stack, end points | `Process_Fork`, `Process_Wait`, `Process_Terminate`, `Process_ShiftEndPoint` | scheduler, page allocator, paging | one owner per booked slot, consistent families, no shared stack |
| Spin lock, IRQ lock, sleep lock (`core/synch`) | a flag; a remembered interrupt priority; a flag guarded by a spin lock | acquire, release | used by everything; sleep locks use the scheduler | exclusion; interrupts given back; sleepers woken |
| Timer, PIT (`core/timer`, `devices/pit`) | `seq_counter` (`size_t`, 32 bits), `ticks` (`clock_t`, 64 bits) | `Timer_Increment`, `Timer_GetTicks`, `PIT_Delay` | interrupt handler against lock-free readers | consistent reads; delays long enough, and finite |
| Page allocator (`core/memory/physmem.c`) | free lists and bitmap per order, `Page_operation_lock` | `Page_BuddyMaps_Initialize`, `Page_Acquire`, `Page_Release` | processes, paging | no frame twice, none lost, bitmaps agree with lists |
| Paging (`arch/paging`) | page directories and tables, a process's end point | map, unmap, clone, release, `Process_ShiftEndPoint` | page allocator, processes | address spaces own their frames; the heap is mapped up to its end |
| Start-up (`arch/initialize`, `arch/apic`, `arch/acpi`) | boot stack, `Kernel_numcpus_online`, identity mapping, APIC and MADT data | `Initialize_System`, `Initialize_CPU`, `StartAP` | boot processor starts the others by IPI | one processor at a time on the boot stack; nobody needs the identity mapping after its removal |
| Console, keyboard (`devices/console`, `devices/keyboard`) | `Console_pos`, `Console_lock`, the static `shift` | `Console_Print`, `Console_PrintChar`, `Keyboard_GetChar` and the handler | the handler prints without the lock | the cursor stays on the screen; no modifier gets stuck |
| CPU primitives, C library | – | single instructions, `memcpy`, formatting | everything | – |
| Boot loader, 16-bit stages (`bootloader/initial`) | registers, stack, disk address packet, A20 line, PS/2 controller | partition choice, block list loading, A20, entry to protected mode | BIOS, controller, keyboard interrupt | the right boot sector is executed, loaded without gaps, information is passed on |
| Boot loader console (`multiboot/console.c`) | the buffer, and the cursor's line and column | `Console_ReadCommand` | the user; the multiboot stage passes the command on | the two places of the editor stay in step; the buffer is not overrun |
| Boot memory map (`multiboot/memory.c`) | the BIOS table and the table derived from it | `Memory_StoreInfo`, `Memory_FindBlockAddress` | multiboot stage | blocks disjoint, available, aligned, nothing lost |
| Boot loader, multiboot stage (`bootloader/multiboot`) | multiboot information, kernel file, kernel image | `Multiboot_SaveMemoryMaps`, `LoadKernelFile`, `LoadKernel`, `LoadModules`, `SaveInfo`, `SaveGraphicsInfo` | BIOS, memory map; the kernel reads the record | the kernel lies in available memory, intact although it may overlap its file; the record is whole and has what was asked for |

Behaviour that is hard to test: the process lock that changes owner in the middle of its
critical section; interrupts that nest on a stack and meet the same lock; a counter of
vetos that wraps; a test that is stale by the time the process sleeps on it; slots,
stacks and list links that are reused; a lock-free counter that wraps; an error path
that keeps a lock; processors that start on one shared stack; a PS/2 controller that
shares its buffer with the keyboard; segment arithmetic that overflows 16 bits; a kernel
that is moved over the file it is taken from; output from an interrupt handler in the
middle of a printed character; a fork that runs out of memory half way through an
address space. `hazards` in `PROJECT.json` lists each at its line.

## 2. Modules

    ProcessTable  <-- implemented by --  Scheduler
                                          |-- Processes          (EXTENDS)
                                          `-- SleepLock          (EXTENDS)
                                                                 all three  <-- SchedulerProofs
    IRQLock  <-- implemented by --  PageAllocator                (EXTENDS)  <-- PageAllocatorProofs
    A20  <-- BootChain  <-- BootChainProofs                      (EXTENDS)
    Timer  <-- TimerProofs
    Startup  <-- StartupProofs
    Paging  <-- PagingProofs
    BootInfo, MemoryMap, CommandLine  <-- Multiboot              (EXTENDS)  <-- MultibootProofs
    Console, Keyboard  <-- Terminal                              (EXTENDS)  <-- TerminalProofs

Each `MC…` module extends one of these, names sets for the `.cfg` and gives the symmetry.
SchedulerProofs extends SleepLock and Processes, whose proofs use the lemmas about the
steps they take over from the scheduler.

**ProcessTable** is the abstract specification of the scheduler: a slot is IDLE,
BOOKED, RUNNABLE, RUNNING, ASLEEP or DEAD, and a CPU has a current process or
none. It knows no lock, no stack and no interrupt.

**Scheduler.** A *context* is a kernel stack with its `struct State`: one per CPU
(the thread in `Schedule()`) and one per slot. `on[c]` is the context CPU `c`
executes, and `KContext_Switch` is a change of `on`. A context has a base frame
and, when it is interrupted, an interrupt frame above it. The phase of a frame (`ph`)
says where it is in its use of `Process_lock`: `SpinEnter` (veto), `SpinTake`
(test-and-set), the body, `SpinDrop` (clear), `SpinLeave` (veto back) are
separate steps, so an interrupt or another CPU fits between any two of them.
The bodies, each under the lock and therefore one step, are `Dispatch`/`PassOver` (one
round of `Schedule()`), `Process_Preempt`, `Process_SleepOn` with the code after
its return (`Process_Woken`), and `Scheduler_RaiseAlarm`. `Interrupt`, `Iret`,
`Interrupt_Return` and `SysCall` are the entry code. Vetos count modulo
`VetoSize` (2^32 in the code): a new process releases a veto its stack never
took, so the count of a process is off by one for ever, and wraps.
Registers, and the user code itself, are left out.

**Processes** adds fork, wait and terminate. Fork is four steps, as in the code: book
under the lock, initialise without it, link into the family, publish under the lock.
Page_Acquire can fail, and then leaves its lock held: the caller's own error path spins.
Terminate is three steps: the children lose their parent and the address space and the
kernel stack go back to the allocator (process.c:153-164); the status becomes DEAD; and
the caller, external, gives up the CPU. Process_lock is held throughout, but the allocator
and `Process_Initialize` do not take it, so that a fork on another CPU may be given the
stack between any two of these steps. `State` is at the top of a stack, not in the slot:
the variable `process` has `State.process` by stack, and `State_Initialize` also
overwrites the vetos of whoever still executes there. Leaving a CPU saves the stack
pointer into the process that `State.process` names (`SavesContext`), which is then the
new process and not the dead one. The model goes on until a CPU resumes a process in the
frames of another (`Wild`), which does happen, and ends there, since what is on that stack
by then is not modelled. **SleepLock** adds acquire and release with their access lock, so
two spin locks nest. Nothing in the repository calls either of them yet, as the system
call table is empty, and so the caller is external.

**IRQLock** models the lock step by step, with the three places through which the
interrupt flag passes. **PageAllocator** has the frames as numbers, a list as a sequence,
a bitmap as a set of bits. It starts from the boot loader's memory map: chunks are cut off
at 4 GB (`Truncated`) and into blocks by the recursion of `Page_MapMemoryChunk`. The
kernel's mapping of memory and the arrays of `Page_maps` end earlier, at 1.75 GB
(`VirtualEnd`), and the code compares only the start of a chunk, or of a part of one, with
it. A chunk that crosses `VirtualEnd` may therefore put frames on the lists whose links
are written past the mapping and whose bits lie past the end of an array
(physmem.c:115-144). Such a machine is in a state `wild` from the start (`OutsideWindow`):
neighbouring data has been overwritten, and the model does not say which. The map is in
order and its chunks do not touch (`MapAssumption`), which is what `BlocksSound` shows of
the loader for a BIOS table that is sorted. Two chunks that touch would give two free
buddies at the start, for which physmem.c:144 sets their common bit where a toggle is
needed. The body of a call is one step under the lock. A release that merges an unaligned
page twice computes the wrong buddy and unlinks a frame that is in no list; what it then
writes depends on memory the allocator does not own, and the model stops in a state `wild`
here too.

**Paging** is the user half of each address space: a directory that names page tables,
tables that are the contents of frames, and a frame that was never written, which holds
anything (`Junk`). Mapping and unmapping a page, cloning a page or a table, and
releasing one are steps, so that calls of two processes interleave at every call of the
allocator, and every `Page_Acquire` may be the one that finds nothing. The code runs
into memory it should not touch in four ways, which end a behaviour with `wild` saying
which: a frame released twice, one released through an entry that was never written,
frame 0 released while in use, and an entry of the kernel's half written. The model
takes `cr3` for the kernel address of the directory, as all of paging.c does (its line
126 stores such an address, which the context switch loads as a physical one).
Translations a CPU has cached are left out: nothing flushes them when a page is unmapped
(paging.c:63-64), and `Process_Terminate` frees the directory that is loaded
(paging.c:139).

**Timer** has every load of `Timer_GetTicks` and every store of
`Timer_Increment` as a step. The kernel is built without optimisation, so the
loops reload the counters. The sequence and the argument of `PIT_Delay` have 32 bits
(`SeqSize`), the ticks 64 (`TickSize`), so that a delay may be any value of its type and
the difference of two counts still tells how long it has lasted. An access to the ticks is
one step: they are `_Atomic`, and a compiler reads or writes them by an
instruction for 64 bits.

**Startup** follows the boot processor through `Initialize_System` and every other
processor from its INIT to `Schedule()`. `Kernel_numcpus_online` is loaded and stored in
two steps, as `Kernel_numcpus_online++` is not locked. Whether the magic number and the
tables are valid, which processors of the MADT answer and whether there is memory for a
stack of each, is left open. `Initialize_Stack` does not look at whether `Page_Acquire`
has found any: the processor then runs on a stack pointer that has wrapped (`lost`), which
ends it. Without a MADT, `IOAPIC_EnableInterrupt` reads one through a null pointer, and
goes on or does not (`stuck`). The *wiring* is any of a set: the IOAPICs with their first
line and number of lines, the MADT's overrides of legacy lines, and the id of the boot
processor's APIC. `IOAPIC_EnableInterrupt` follows the last override of the PIT's line to
the IOAPIC that has it; without one the delays of `StartAP` never end. The destination it
writes is shifted into the wrong byte (ioapic.c:80), so the interrupt arrives only where
the boot processor has id 0.

**BootChain** and **A20** run from the master boot record to the call of
`Multiboot_Boot`: the registers the BIOS passes on go through two stacks; each BIOS read
may fail; addresses are segment and offset modulo the word size `B`, with paragraphs of
size `P`. In A20 the controller, the keyboard and the BIOS's keyboard interrupt take
steps of their own.

**MemoryMap** is `Memory_StoreE820Info`, which drops the BIOS's last entry when the BIOS
marks it with EBX = 0, and the three loops of `Memory_StoreInfo` (collect, align, remove
empty entries), one action per round. **CommandLine** is the editor of
`Console_ReadCommand`, which keeps the place in the buffer and the place of the cursor
apart.

**BootInfo** is the multiboot information record: the headers of its tags by address,
the total size, the walk to a tag or to the place for a new one, and
`Multiboot_TerminateTag`, which ends the list behind a tag or takes the tag back.
**Multiboot** is `Multiboot_Boot`, from the empty record to the point where the kernel
is entered; its first steps ask for a command and store the memory map. Memory is an
array of cells, each of which holds a cell of the kernel file, 0, or something else, so
that copies which overlap really overwrite each other; addresses wrap. The machine and
the kernel are a *scenario*: memory map, blocks of the file, the header's tags, ELF
segments, information requests, what the BIOS has. The search for free memory
(`Memory_FindBlockAddress`), the reading of the header's tags, the choice of a place,
the copy (flat or segment by segment), the clean-up and each information tag are steps,
and every read may fail. Where the loader continues with memory it has overwritten, or
never ends, the model is in a state `wild` without successor.

**Console** has every load and store of `Console_pos` in `Console_PrintChar` as a step
(the kernel is built without optimisation). Printers on several CPUs take
`Console_lock`, the keyboard's handler does not. Kernel messages have no backspaces in
them. **Keyboard** is `Keyboard_GetChar` over codes that the keyboard, external, sends
for the keys that go down and up: a code, alone or after an escape, and the sequences of
pause and print screen (`KeysAssumption`); a handler may find the buffer empty.
**Terminal** puts both together: processors announce themselves while the keyboard
interrupts the boot processor wherever it is.

## 3. Runs

Bounds are in the `.cfg` files. "May stop" says why deadlock is not reported as an error.

| Run | Instance | Shows |
|---|---|---|
| `scheduler` | 2 CPUs, 2 slots, 1 alarm, interrupts on both, time slice 1, vetos modulo 4 | `LockHandover`, `OneCPUPerContext`, `HomeCPU`, `ParkedInCriticalSection`, `VetoBalance`, and refinement of ProcessTable (`TableSpec`) |
| `processes` | 2 CPUs, 3 slots, 3 stacks, pids to 5, no interrupts (440,353 states) | `BookedExclusive`, `FamilyTree`, `StackExclusive`, `ReapedByParent` |
| `sleeplock` | 2 CPUs, 2 processes, 1 lock, interrupts on one CPU, fair | `MutualExclusion`, `ProcessLockReleased`, `SleeperWoken` |
| `timer` | 1 reader, delays 0, 1 and 5, sequence modulo 6 and ticks modulo 12, 2 increments per read; deadlock checked (654,142 states) | `SettledRead`, `DelayLongEnough`, `DelayEnds` |
| `page_allocator` | 2 CPUs, orders 0–2, 16 frames of which 8 are mapped, requests of order 0 and 1, three memory maps (598,505 states) | `BlocksDisjoint`, `BitmapAgrees`, `NothingLeaks`, `WildOnlyOffBoundary`, `SectionExclusive`, `InterruptsRestored` |
| `startup` | boot processor and 3 others, in a MADT that lists it second; 18 wirings (11,104 states) | `BootStackExclusive`, `NoFault`, `CountExact`, `AllWork` |
| `boot_chain` | 2 partitions, 3 blocks of 0, 2 or 4 sectors, 3 sectors per call, words modulo 16, ES 0 or 3, 2 keys | `FirstActiveLaunched`, `ContiguousLoad`, `HandedOver`, `BootEnds` |
| `boot_block_list` | the same | `LoadedAsListed` is violated (section 5) |
| `boot_pointers` | the same | `PointersPassed` is violated (section 5) |
| `multiboot` | 16 addresses, high memory from 4, loader in 0–1, files of 2–4 cells in 1 or 2 blocks: relocatable, fixed and ELF kernels on 3 maps; all pairs of 14 requests on 5 machines; every BIOS table of up to 3 entries of size up to 3; commands of up to 8 characters on lines of 4 | `BlocksSound`, `NothingLost`, `WellPlaced`, `KernelInPlace`, `CommandInStep`, `InfoComplete` |
| `paging` | 2 processes, 6 frames, 2 tables of 2 pages, shifts by -8, -5, -2, 1 and 3 bytes with pages of 2, past either end of the user half, 5 calls | `FrameOwnership`, `HeapMapped` |
| `terminal` | 2 printing CPUs with 2 messages each, 4 × 4 screen in a buffer of 12 lines, 8 keys of which 2 are held, 2 key events and 2 nested interrupts while messages are printed, 1 race | `CursorOnScreen`, `ModifiersReleased` |

Why the bounds are enough for the cases of interest. Two CPUs and two processes give every
pairwise race: a process that moves between CPUs, both CPUs at the lock, an alarm against
a sleeper, an interrupt on either. Three slots are needed for families, where a child and
a grandchild, or two siblings, exist while a slot is reused; pids to 5 let every slot be
reused, and three stacks let one be given out again before and after its owner's death.
`VetoSize` 4 leaves room for the nesting that occurs (two) and makes the wrap visible. A
sequence of six values wraps several times during one delay, and 5 is the longest delay
its width can express. Twelve ticks are twice that, as little as `SizeAssumption` allows
(the code has 2^32 times as many), and wrap in the middle of a delay, for a model cannot
count to 2^64; `MaxOverlap` bounds how often the handler interrupts one read (the code
relies on the same: 2^31 increments during one read would be missed). Eight mapped frames
of orders 0–2 allow two merges in a row, which is where the buddy computation goes wrong;
one map is a chunk cut at both ends; one has an empty chunk, one below what is managed,
one across the end of the window whose part beyond it is passed over, and ones behind the
window and behind 4 GB; one is a chunk that puts a block beyond the window. A fourth
processor changes nothing `startup` could not show with three, since only one is ever on
its way. `B = 16`, `P = 4` keep the code's relation (part of `BootAssumption`) that a
segment shifted by the word size is a whole number of words (2^16 is a multiple of 16²).
Three entries of a BIOS table give overlap, nesting, adjacency and a reserved entry
between two available ones. In `multiboot`, files of up to four cells in eleven cells of
high memory meet the kernel in every way: below, above, nested, shifted by less than its
length in both directions, at the start and end of a block, across a hole and at the
limit; a pair of requests has a tag taken back between two that stay, and the same request
twice, once mandatory. `MaxTags` is the number of types a tag may have, which no record
exceeds (`TagsAssumption`). Eight characters on lines of four cross the end of a line
twice in both directions. In `paging` six frames give a process a directory, tables and
pages and leave too few for a fork to finish in every state, so that memory runs out at
each of its steps; free frames are offered from the two ends of the numbering only, which
is enough to have any frame reused. The shift by -8 is half the address space, as the
least `int32_t` is. A 4 × 4 screen scrolls before the last of four messages ends; a
message is a glyph and an end of line, and tabs and backspaces are typed.
`ConsoleAssumption` asks for three lines and a cell for every interrupt during one
character, and for two lines of the buffer behind the screen; the code has 25 lines of 80
cells in a buffer of 204. `MaxRaces` is a bound the property depends on: two CPUs that
store a position each from a load before the other's scroll lose a line, and each further
such race may lose one more.

Where the system may stop (`CHECK_DEADLOCK FALSE`): with a veto count that has wrapped,
an interrupt inside a section of `Process_lock` spins on its own lock (`scheduler`,
`sleeplock`); a failed `Page_Acquire` keeps its lock (`page_allocator`, `processes`,
`paging`); start-up, boot and `multiboot` end in a halt or with their work done;
`paging` and `terminal` stop at their bounds.

Symmetry is used for CPUs and alarms or stacks, which no definition orders (slots are
ordered, and are not permuted), and never in a run with a liveness property.

### Fairness

* `sleeplock`: weak fairness of each CPU's kernel steps: a CPU that can
  execute does. No fairness of the spin lock is assumed, and none of the client.
  Calls of the client into the lock, and interrupts, are not fair.
* `timer`: the PIT keeps interrupting (it is programmed periodically in
  `PIT_Set`) and a reader keeps executing.
* `startup`: each processor executes; a processor that is there gets its
  STARTUP message.
* `boot_chain`: the processor executes and the PS/2 controller serves its
  input. `BootEnds` is stated for a machine with a controller only: without one the wait
  loops of `a20.asm` have no time-out.

## 4. Theorems

All theorems hold for every value of the constants that satisfies the named
`ASSUME`s of the module.

**SchedulerProofs** (assumes at least one slot, slots, CPUs and alarms distinct from
each other and from `Null`, a natural time slice, a counter with at least one value).
None of the safety properties is inductive alone: that the context switched to releases
the lock needs that it was parked inside, that it was parked inside needs that the one
who parked it held the lock, and that needs that no stack is on two CPUs. The invariant
`Inv` is their conjunction with `TypeOK`, `FrameLabels` (which code runs in which frame)
and `OneSection` (the base and the interrupt frame of a process are never both inside).
There is a lemma per action; actions that only move a frame outside the lock share
`LocalStep`, and the two that switch back share `SwitchBack`. From it follow `Typing`,
`LockIsHandedOver`, `NoStackOnTwoCPUs`, `ReturnsHome`, `SwitchTargetsParked`, and
`ImplementsProcessTable`, whose step lemma maps every action to a step of ProcessTable
or a stutter.

`VetosBalance` adds the counter of vetos, for any width: every step changes the number
of frames inside a section and the counter by the same amount, and the rest is
arithmetic modulo `VetoSize` (`ModSum`, `ModWrap`, `CountsDown`). A process starts with
a section it never entered, which is the one that is missing for ever.

*Processes* (the same module; a natural bound on pids in addition). `ProcInv` is the
scheduler's `Inv` and the books of process.c: a dead process still on its CPU is at its
last switch and holds the lock (`Leaving`, without which `Inv` is lost at
`Process_Terminate`), and a process that has released its stack and is not dead yet is
RUNNING and holds it too (`Burying`); a slot is BOOKED for exactly one live process that
is in `Process_Fork` with it (`Forking`); a prepared slot is parked where the dispatcher
expects it (`Prepared`); a kernel stack belongs to one slot, live and not past the release
(`Stays`) or prepared, which the `State` on it names (`StacksUsed`). The argument for the
window between release and death is the lock: whoever is given the stack needs it to
publish the new process, and by then the old one is dead. From it follow
`SlotsBookedOnce`, `StacksNotShared` and `LockSurvivesExit`, up to the first switch into
the frames of a dead process (`Wild`). `FamilyInv` is about the linked lists: for every
live process there *is* a sequence of distinct slots, of length `num_children`, that
`child` and `sibling` spell out and whose members name it as their parent (`Families`). A
walk along the list says where it goes only once one knows that it does not run in a
circle, so the list appears as a witness that each action rebuilds: shifted by one when
`Process_Fork` links a child in front, without the member `Process_Wait` cuts out, and for
`Process_Terminate` dropped with its owner, whose children lose their parent (and nobody
else's do). A slot in the middle of a fork is on a list only once it is linked (`Linked`),
and has no children before it is published (`Childless`). `FamiliesWhole` compares the
witness with what the walk of the property yields, by induction along the list; that
`num_children` stays below the number of slots is the pigeonhole principle.
`OnlyParentsReap` is the action property: the CPU whose `Process_Wait` takes the step
executes the parent.

*Sleep locks* (the same module). `SleepInv` is `Inv` with the exclusion of the access
lock, the points of the code where it is held (`AccessPoints`), and `Ownership`, which
says of every set lock that somebody owns it. `LockExcludes` follows; where there is no
lock at all the property is void, and its proof treats that case apart.

**TimerProofs** (an even width of the sequence and at least twice that for the ticks;
fewer increments during one read than bring the sequence round; a delay is any value of
the sequence's width). `TimerInv`: the sequence is even exactly while no increment is
under way (`Parity`); while a reader is between its loads the sequence has run at most two
per increment it can overlap with, so that if it is the same it has not moved (`Round`);
the distance of the ticks, modulo their own width, from where the delay started is what
has passed (`Elapsed`), which cannot wrap during a delay because a read is overlapped by
fewer increments than the two widths differ by. `ReadsSettle` and `DelaysLast`.

**BootChainProofs** (the sizes are positive, a word is a whole number of squares of a
paragraph, and what the BIOS passes in ES:DI are words). `BootInv` says for each stage
where the drive, ES:DI and the partition are: in registers, at which depth of the stack,
in `Kernel_Info` (`Carried`), that a failed read does not reach the check of the
signature (`Chosen`), and that nothing switches the A20 line off once it was found on
(`LineOn`). `LaunchesFirstActive`, `HandsOver`. `LoadInv` is about the read loop of
vbr.asm. The list in memory is the one on disk less what was read, so that what was read
is known from the list alone (`ListInv`, with sums over lists as recursive functions);
as long as the list ends below the addressable memory, the packet's segment and offset
stand for the address that follows on (`Straight`), and memory is filled up to there.
The step that proves this (`NextIsStraight`) is the code's segment arithmetic: the carry
of the offset is shifted into the segment and the doubled segment vanishes because a
word is a multiple of a paragraph squared. `ShippedInv` adds the contents for a list of
one short block. `LoadsContiguously` follows.

**MultibootProofs** (a page size, a width of the screen and a buffer of at least one, a
prompt that fits on its line; the BIOS's entries, the file's blocks and segments and the
header's tags are made of naturals and words, `ScenarioAssumption`; high memory starts
inside the address space; `MaxTags` as above; address 0, where the interrupt vectors are,
belongs to the loader; a segment has no more cells in the file than in memory; an ELF
file is no shorter than its headers). `CommandStaysInStep`: the place on the
screen and the place in the buffer are related by division (`CellUnique`), and with the
ranges of the editor's variables this is inductive. `MapInv` follows `Memory_StoreInfo`
through its loops. While it collects: the blocks are ordered, end before the place where
the search goes on, and consist of available memory; from a sorted table, every
available entry that the search has passed is whole in one block and no available
address touches a block from outside (`Gathered`). That is what the alignment needs: a
page all of which is available cannot straddle two blocks, so it is within one, and
shrinking a block to its whole pages keeps it (`Shrunk`); removing an empty block cannot
take it away (`Kept`). What one pass over the table yields (`Grown`), and what is stored
of the BIOS's entries (`StoredEntries`), is induction over a recursive function, whose
existence has to be shown first (`Iteration`). `MapIsSound` needs no sorted table;
`MapIsComplete` does, since one pass over an unsorted one may miss an entry.

`KernelIsWellPlaced`: what `Memory_FindBlockAddress` returns, searching up or down in
arithmetic that wraps, is aligned, on the right side of the bound and has room in a block
of available memory, or is nothing (`FoundAbove`, `FoundBelow` and the lemmas about
`Memory_AlignAddress`); with the types of the loader's locals this makes the placement of
file and kernel inductive.

`KernelIsInPlace` is about what memory holds then. `ImageInv` follows it through
`Multiboot_LoadKernelFile` and `Multiboot_LoadKernel`: once the file is read its cells are
where they were read to and nowhere else; while segments are copied, those before the
current one are in place and the rest of the file's cells are still in the file; after
that only kernel and file hold any. A kernel is seen as *pieces*, each with its place, the
part of the file it comes from and its length with the zeros behind it: one piece for a
flat kernel, one for each segment of an ELF file. That `memmove` carries a piece over the
file it is read from is induction over the cells moved, once for each direction, with the
invariant that the cells still to be read have not been written to; this is where the
direction matters. Clearing the uninitialised data and then the rest of the file leaves
the pieces as they are, and so nothing of the file is left elsewhere. The theorem keeps
the conditions of the property itself: a file of one block, a kernel within its file and
away from the loader, and an ELF kernel clear of its file.

`InfoIsComplete` is about the information record. `RecordInv`: the tags lie end to end
from the start of the record to its end tag, and no type is there twice. The loader's and
the kernel's walks are recursive functions that stop after `MaxTags` steps; by the
pigeonhole principle they have ended by then (`WalkEnds`, `WholeList`), so that a walk
finds a tag if it is there and the end tag otherwise. `AddTagKeeps` is that a tag is put
in or taken back without harm. `InfoInv` then says at every point of `Multiboot_Boot`
which types are in the record: those of the memory maps already stored, of the requests
dealt with so far among those the machine can answer, and of the graphics the header asked
for. It rests on `MapInvariance` and `CommandInvariance`.

**PageAllocatorProofs** (no assumption on the set of CPUs; natural numbers of frames and
orders; a window that ends on a boundary of twice the largest block and not after the last
frame; memory maps in order whose chunks do not touch): `LockInv` adds to exclusion that
what the holder remembers, in whichever of the three places it is at that point, is the
flag it came with. `SectionIsExclusive` and the action property `InterruptsAreRestored`
follow. Every step of the allocator is a step of the lock or leaves it alone
(`StepsOfTheLock`), hence `ImplementsIRQLock`, and through it `CallsAreExclusive` and
`CallsRestoreInterrupts`, for any memory map and any number of CPUs.

`AllocInv` is about the blocks: those on the lists, those in the hands of callers and
those on their way back lie on the boundaries of their orders and inside the mapped window
(`WellFormed`, `InWindow`) and are disjoint, no list has a block twice, no block is
accounted for twice (`NothingShared`), and a bit is set exactly while one of two buddies
is free, and never are both (`BitsAgree`). Each needs the others: a merge keeps blocks
disjoint only because the bit says that the buddy is free as a whole, and the bit stays
right only because the blocks are disjoint. That the first state has it is an induction
over the sizes of chunks, since `Page_MapMemoryChunk` calls itself for the two ends of a
chunk, with powers of two and the remainders that go with them. A state that is wild from
the start is excluded (`AllocInvariance` is `[](~wild => AllocInv /\ InWindow)`); if no
block starts beyond the window none ends beyond it, since its end is a boundary of every
order. A release whose page does not start the block it has merged so far ends the
behaviour; up to there `BlocksAreDisjoint`, `BitmapIsRight`, and the action properties
`NoFrameLeaks` and `WildIsOffBoundary` hold.

**PagingProofs** (a first process, positive sizes, more than two frames; the allocator
offers only free frames and, if there is one, some). `FrameOwnership` counts the places
that name a frame, and is proved from a function `Names` from places (a directory, a table
of a directory, a page of a table, the frame a call holds) to frames: the function is
injective where there is a frame, and its range, the free and the lost frames divide the
frames among them (`Own`). Every step changes `Names` in a set of places
(`NamesElsewhere`). What else is needed is where a call is: a slot that is not in use
names nothing, page tables of a process that ends are gone below the one it is at
(`SpaceOf`), a child has one parent (`OneParent`), and a clone overwrites no entry that
names a frame (`Copying`). `FramesAreOwned` follows; all of it holds until `wild` is set,
and no frame is ever released twice. `HeapInv` is on top of it: while the end point has
never left the user half, the pages below it, or below what a call has mapped or left so
far, are mapped (`Inside`), and the child of a clone has what was passed (`Copied`). The
arithmetic is that addresses in the user half do not wrap (`Below`), for any shift.
`HeapsAreMapped` follows.

**TerminalProofs** (`KeysAssumption`, `ConsoleAssumption`, `MessageAssumption`).
`KeyboardInv` says which codes may still be on their way and what their prefix has done:
in the middle of a key's codes an escape is pending or not, and every modifier's bit that
is set belongs to a key that is down or to one whose last code comes (`Coming`).
`NoModifierStuck` follows. `CursorInv`: the lock keeps printers apart (`OnePrinter`), and
as long as no two CPUs have printed at once, every position that is loaded or stored is
where its point of the code allows (`Places`). The handler runs from its first to its last
load inside one character of the processor it interrupts. It may move the position below
the screen back by a line, or by a cell with a backspace; a printer that has found the
position below the screen and is about to load it again finds it at most a line and as
many cells further back as there were interrupts (`LineBack`), which is why the screen
needs room for them. `InterruptsDoNoHarm` is `CursorOnScreen` while no two CPUs race.

**StartupProofs** (the boot processor is not among the others; the MADT lists each
processor once): `StartInv` says that only the processor `Initialize_CPU` was called
for is on its way, that the count tells the boot processor so, and where the boot stack
and the identity mapping are used. `BootStackIsExclusive` and
`NoProcessorFaults` follow. `CountInv` adds that the count is the number of
processors online, that a processor between its load and its store has the value that is
there still, and which entries of the MADT have been dealt with; `CountIsExact` follows.

The provers cannot instantiate the library's induction schemes, which take an operator.
Induction is done here over a *set* of naturals instead (`Induction`, `InductionTo`,
from the least element of its complement), which is enough for statements about one
recursive function at a time.

Only model-checked:

* all liveness (`SleeperWoken`, `ProcessLockReleased`, `DelayEnds`, `AllWork`,
  `BootEnds`): fairness and ENABLED are beyond the prover;
* the part of `CursorOnScreen` about CPUs that race, which counts the lines a race may
  cost. Where a stale store lies is bounded by the races so far, and an inductive form of
  that would have to follow every pair of loads and stores of two CPUs.

## 5. Where the code and its comments disagree

* `boot_block_list` (vbr.asm:144): the start sector of the disk address packet
  is added to and never cleared, so every BIOS call after the first reads from the sum
  of the blocks' addresses. The list that is shipped needs one call only, which
  the last part of `ContiguousLoad` shows to work.
* `boot_pointers` (bootloader.asm:87): the segment of `ES:DI` is added to
  ESI instead of EDI. Without effect where the BIOS passes ES = 0 (`HandedOver`).

The models contain, as behaviours and not as findings, other things a reader of the
properties should know: a veto count that starts one below zero; an interrupt in a section
of `Process_lock` that spins for ever; a sleep lock freed between the test and the sleep,
which leaves the process asleep until the next release; a parent in `Process_Wait` that
nobody wakes; orphans that nobody reaps; `Process_Terminate`, which frees the stack it
runs on, so that a new process may be resumed in the frames of a dead one; chunks of
memory that cross 1.75 GB; `Page_Acquire`, which returns with its lock held when there is
no memory; `Page_Release`, which picks a wrong buddy from its second merge on; a listed
processor that does not exist, for which the boot processor waits for ever; interrupts
left disabled when there is no IOAPIC; one of two adjacent empty entries of the memory
map, which is skipped by the loop that removes them (memory.c:138); every block of the
kernel file read to the same address, so that only files of one block arrive whole
(multiboot.c:137); room for the kernel looked for by the length of its file
(multiboot.c:262); ELF headers read again from a file that may have been overwritten;
modules that are placed over the kernel and a name loop that does not end
(multiboot.c:321, 334); the last entry of a BIOS table that ends with EBX = 0, which is
dropped; an interrupt destination in the wrong byte (ioapic.c:80), a trigger mode taken
from the polarity bits, and a count of processors compared with the number of IOAPICs
(apic.c:56); the frame of a page whose PRESENT flag was taken away, which is never
released; a mandatory request for anything but EFI, network and graphics that is passed
over when the BIOS has no answer. The properties are stated so that they say what holds
all the same.

## 6. Not modelled

CPU primitives, C library and ELF constants: single instructions, formatting and
sequential code without shared state. Of paging, `Paging_Copy` and the
`Paging_GetHigherHalfAddress` it calls (no one calls either from elsewhere) and the
contents of pages. Of the console, `Console_Panic`, which stops the machine, the
banner's text and the conversions of `Console_VPrint`; of the keyboard, the maps of
printable characters. The functions of pic.c, which nothing calls, and the register
writes and the arithmetic of lapic.c. `Keyboard_Initialize` leaves a code that arrived
earlier in the controller, which is the state `Terminal` starts without. Of the boot
loader's console, output. In the multiboot stage, the contents of information tags, ELF
section headers (the scenarios' files have none), the choice among video modes, and the
switch to real mode for a BIOS call. User programs and their memory. The order of memory
accesses as x86 defines it is taken as sequential: every shared location but
`Console_pos` is written under a lock or by one writer at a time, and x86 keeps a
processor's stores in order.

## 7. Plan

Done: scheduler and its abstract specification; processes; sleep locks; timer; IRQ lock
and page allocator; start-up with the interrupt wiring; memory map; 16-bit boot stages;
multiboot stage with its command line; paging; console and keyboard. Eight proof modules
state every safety property of the runs as a theorem, but for the racing part of
`CursorOnScreen`.

Left: the racing part of `CursorOnScreen`, and liveness. A lock for `Console_pos` in the
code would make the former void. Should the system call table be filled, its handlers
replace the external callers of `Processes`, `SleepLock` and `Paging`.
