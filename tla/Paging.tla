------------------------------- MODULE Paging -------------------------------
(***************************************************************************)
(* The address spaces of processes (src/kernel/arch/paging/src/paging.c)   *)
(* and the calls of process.c that change them: Process_Fork, which clones *)
(* one, Process_ShiftEndPoint, which moves the end of the heap, and        *)
(* Process_Terminate.  Processes on different CPUs share the allocator.    *)
(*                                                                         *)
(* An address space is a directory whose user half names page tables; the  *)
(* kernel half is the same everywhere and present (Initialize_Memory).     *)
(* What pages hold is left out.  A page table is the contents of a frame,  *)
(* and a new frame holds anything: Junk is an entry that was never         *)
(* written.  As all of paging.c does, the model takes task_context->cr3    *)
(* for the kernel address of the directory.                                *)
(*                                                                         *)
(* The allocator is seen through its calls of order 0.  An acquire that    *)
(* finds nothing leaves Page_operation_lock held for ever, and nobody gets *)
(* past a later acquire or release.  Frame 0 belongs to low memory and is  *)
(* not the allocator's until Paging_Terminate releases it.  A release of a *)
(* frame that is already free, of Junk, or of frame 0 while an address     *)
(* space uses it, and a page table entry written into the kernel's memory  *)
(* end the behaviour: wild tells which it was.                             *)
(***************************************************************************)
EXTENDS Integers, FiniteSets, FiniteSetsExt, Functions

CONSTANTS Procs,      \* slots for processes
          First,      \* the process that exists at the start
          Frames,     \* the numbers of the frames the allocator has
          Dirs,       \* user entries of a directory (512)
          Tabs,       \* entries of a page table (1024)
          PageSize,   \* bytes of a page (4096)
          Shifts,     \* arguments of Process_ShiftEndPoint
          Offered(_), \* which of the free frames Page_Acquire may return
          MaxCalls    \* bound: how many calls are started

Low == 0
Absent == -1   \* no frame
Junk == -2     \* the frame of an entry that was never written

ASSUME PagingAssumption ==
    /\ First \in Procs
    /\ Frames \subseteq Nat \ {Low} /\ Frames # {} /\ \A d, t \in Frames : Frames # {d, t}
    /\ {Dirs, Tabs, PageSize} \subseteq Nat \ {0}
    /\ Shifts \subseteq Int \ {0} /\ MaxCalls \in Nat
    /\ \A S \in SUBSET (Frames \cup {Low}) : Offered(S) \subseteq S /\ (Offered(S) = {} => S = {})

Pages == 0 .. Dirs * Tabs - 1              \* below KERNEL_MMAP_VIRTUAL_START
KERNEL_MMAP_VIRTUAL_START == Dirs * Tabs * PageSize
Address(n) == n % (2 * KERNEL_MMAP_VIRTUAL_START)   \* uintptr_t

VARIABLES directory,   \* task_context->cr3: the frame of the directory
          dir,         \* its user half: the frames of the page tables
          tab,         \* the entries of the frames that are page tables
          endpoint,    \* Process.endpoint
          call,        \* what each process is doing
          calls,       \* how many calls have been started
          free,        \* what Page_Acquire(0) can still return
          page_lock,   \* Page_operation_lock left held by a failed Page_Acquire
          wild,
          outside,     \* history: the end point has left the user half, up or down
          lost         \* history: pages whose entry had lost its PRESENT flag
                       \* when the address space ended

spaces == <<directory, dir, tab>>
history == <<outside, lost>>
vars == <<spaces, endpoint, call, calls, free, page_lock, wild, history>>

(* Page table entries: a frame, and whether PRESENT is set.                *)
Zero == <<Absent, FALSE>>
Garbage == {Zero, <<Junk, TRUE>>, <<Junk, FALSE>>}

PAGEDIRIDX(v) == v \div Tabs
PAGETABIDX(v) == v % Tabs
Page(a) == Address(a) \div PageSize

Entry(p, v) ==
    LET t == dir[p][PAGEDIRIDX(v)]
    IN  IF t = Absent THEN Zero ELSE tab[t][PAGETABIDX(v)]

Paging_IsPageMapped(p, v) == Entry(p, v) # Zero

At(p, label) == wild = "no" /\ call[p].at = label
InUser == [at |-> "user"]
Goto(p, step) == call' = [call EXCEPT ![p] = step] /\ UNCHANGED calls

(* A process in user mode makes a call.                                    *)
Call(p) == At(p, "user") /\ calls < MaxCalls /\ calls' = calls + 1
Enter(p, step) == Call(p) /\ call' = [call EXCEPT ![p] = step]

-----------------------------------------------------------------------------
(* Page_Acquire(0) and Page_Release(frame, 0) as their callers see them.   *)

Acquires(f) == ~page_lock /\ f \in free /\ free' = free \ {f} /\ UNCHANGED <<page_lock, wild>>
OutOfMemory == ~page_lock /\ free = {} /\ page_lock' = TRUE /\ UNCHANGED <<free, wild>>

(* Frame 0 is on loan to an address space.                                 *)
LowInUse == \E p \in Procs :
    \/ directory[p] = Low \/ Low \in Range(dir[p])
    \/ "page" \in DOMAIN call[p] /\ call[p].page = Low
    \/ \E v \in Pages : Entry(p, v)[1] = Low

Page_Release(f) ==
    /\ ~page_lock
    /\ free' = IF f = Junk THEN free ELSE free \cup {f}
    /\ wild' = IF f = Junk THEN "junk"
               ELSE IF f \in free THEN IF f = Low THEN "low" ELSE "double"
               ELSE wild
    /\ UNCHANGED page_lock

-----------------------------------------------------------------------------
(* Process_ShiftEndPoint upwards: Paging_MapPages from the page of the old *)
(* end point to the page of the last new byte, one page per round.         *)

Grow(p, shift) ==
    /\ shift > 0
    /\ Enter(p, [at |-> "map", va |-> Page(endpoint[p]), end |-> Page(endpoint[p] + shift - 1),
                new |-> Address(endpoint[p] + shift)])
    /\ UNCHANGED <<spaces, endpoint, free, page_lock, wild, history>>

SetEndPoint(p, end) ==
    /\ endpoint' = [endpoint EXCEPT ![p] = end]
    /\ outside' = [outside EXCEPT ![p] = \/ @ \/ end > KERNEL_MMAP_VIRTUAL_START
                                         \/ call[p].at = "unmap" /\ end > endpoint[p]]
    /\ Goto(p, InUser)

(* Paging_MapPages returns with n pages mapped: the end point stops there. *)
Reached_AsAsked(p, n) == call[p].new
Reached(p, n) ==
    LET top == Address((Page(endpoint[p]) + n) * PageSize)
    IN  IF top < call[p].new THEN top ELSE call[p].new

Mapped(p) == (call[p].va - Page(endpoint[p])) % (2 * Dirs * Tabs)

MapAcquire(p, f) ==
    /\ At(p, "map")
    /\ Acquires(f)
    /\ Goto(p, [at |-> "enter", va |-> call[p].va, end |-> call[p].end, new |-> call[p].new, page |-> f])
    /\ UNCHANGED <<spaces, endpoint, history>>

(* The break of line 79: the call returns with the lock held.              *)
MapOutOfMemory(p) ==
    /\ At(p, "map")
    /\ OutOfMemory
    /\ SetEndPoint(p, Reached(p, Mapped(p)))
    /\ UNCHANGED <<spaces, lost>>

(* The loop's test after a page has been entered.                          *)
NextPage(p) ==
    LET c == call[p] IN
    IF c.va = c.end
    THEN SetEndPoint(p, Reached(p, Mapped(p) + 1))
    ELSE /\ Goto(p, [at |-> "map", va |-> Page((c.va + 1) * PageSize), end |-> c.end, new |-> c.new])
         /\ UNCHANGED <<endpoint, outside>>

New(p) == <<call[p].page, TRUE>>

(* Paging_MapPage: a page table is there and its entry is free ...         *)
Paging_MapPage(p) ==
    LET v == call[p].va IN
    /\ At(p, "enter")
    /\ v \in Pages /\ dir[p][PAGEDIRIDX(v)] # Absent
    /\ Entry(p, v) = Zero
    /\ tab' = [tab EXCEPT ![dir[p][PAGEDIRIDX(v)]][PAGETABIDX(v)] = New(p)]
    /\ NextPage(p)
    /\ UNCHANGED <<directory, dir, free, page_lock, wild, lost>>

(* ... or there is no page table yet: a frame is cleared and becomes one.  *)
FreshTable == [j \in 0 .. Tabs - 1 |-> Zero]

MapTable(p, f) ==
    LET v == call[p].va IN
    /\ At(p, "enter")
    /\ v \in Pages /\ dir[p][PAGEDIRIDX(v)] = Absent
    /\ Acquires(f)
    /\ dir' = [dir EXCEPT ![p][PAGEDIRIDX(v)] = f]
    /\ tab' = [tab EXCEPT ![f] = [FreshTable EXCEPT ![PAGETABIDX(v)] = New(p)]]
    /\ NextPage(p)
    /\ UNCHANGED <<directory, lost>>

(* Paging_MapPage fails for want of a page table; Paging_MapPages gives    *)
(* the page back and spins on the lock that Page_Acquire has left held.    *)
MapTableOutOfMemory(p) ==
    LET v == call[p].va IN
    /\ At(p, "enter")
    /\ v \in Pages /\ dir[p][PAGEDIRIDX(v)] = Absent
    /\ OutOfMemory
    /\ Goto(p, [at |-> "stuck", page |-> call[p].page])
    /\ UNCHANGED <<spaces, endpoint, history>>

(* The entry is in use, or, beyond the user half, the first words of the   *)
(* kernel's large page are taken for one: the page goes back.              *)
GiveBack_Omitted(p) == UNCHANGED <<free, page_lock, wild>>
GiveBack(p) == Page_Release(call[p].page)

MapRefused(p) ==
    LET v == call[p].va IN
    /\ At(p, "enter")
    /\ v \in Pages => Entry(p, v) # Zero
    /\ GiveBack(p)
    /\ SetEndPoint(p, Reached(p, Mapped(p)))
    /\ UNCHANGED <<spaces, lost>>

(* The word of the kernel's memory happens to be zero and is overwritten.  *)
MapKernel(p) ==
    /\ At(p, "enter")
    /\ call[p].va \notin Pages
    /\ wild' = "kernel"
    /\ UNCHANGED <<spaces, endpoint, call, calls, free, page_lock, history>>

-----------------------------------------------------------------------------
(* Process_ShiftEndPoint downwards and Paging_Terminate: Paging_UnmapPages *)
(* from the first whole page to the page of the last byte.                 *)

Shrink(p, shift) ==
    /\ shift < 0
    /\ Enter(p, [at |-> "unmap", va |-> Page(endpoint[p] + shift + PageSize - 1),
                end |-> Page(endpoint[p] - 1), new |-> Address(endpoint[p] + shift)])
    /\ UNCHANGED <<spaces, endpoint, free, page_lock, wild, history>>

Process_Terminate(p) ==
    /\ Enter(p, [at |-> "unmap", va |-> 0, end |-> Dirs * Tabs - 1, new |-> Absent])
    /\ UNCHANGED <<spaces, endpoint, free, page_lock, wild, history>>

(* Pages without an entry, or with one that is not PRESENT, are passed     *)
(* over, and the kernel's half ends the loop.                              *)
Present(p) == {v \in Pages : call[p].va <= v /\ v <= call[p].end /\ Entry(p, v)[2]}

(* Paging_UnmapPage releases the frame first and clears the entry then.    *)
UnmapRelease(p) ==
    LET v == Min(Present(p)) IN
    /\ At(p, "unmap")
    /\ Present(p) # {}
    /\ Page_Release(Entry(p, v)[1])
    /\ Goto(p, [call[p] EXCEPT !.at = "clear", !.va = v])
    /\ UNCHANGED <<spaces, endpoint, history>>

UnmapClear(p) ==
    LET v == call[p].va IN
    /\ At(p, "clear")
    /\ tab' = [tab EXCEPT ![dir[p][PAGEDIRIDX(v)]][PAGETABIDX(v)] = Zero]
    /\ Goto(p, [call[p] EXCEPT !.at = "unmap", !.va = v + 1])
    /\ UNCHANGED <<directory, dir, endpoint, free, page_lock, wild, history>>

UnmapDone(p) ==
    /\ At(p, "unmap")
    /\ Present(p) = {}
    /\ IF call[p].new = Absent
       THEN Goto(p, [at |-> "tables", i |-> 0]) /\ UNCHANGED <<endpoint, outside>>
       ELSE SetEndPoint(p, call[p].new)
    /\ UNCHANGED <<spaces, free, page_lock, wild, lost>>

(* The second loop of Paging_Terminate: every user entry of the directory, *)
(* present or not, is taken for the address of a page table.  (A frame     *)
(* that is no page table keeps a cleared one in tab: nobody reads it.)     *)
ReleaseLow == IF LowInUse THEN ~page_lock /\ wild' = "low" /\ UNCHANGED <<free, page_lock>>
              ELSE Page_Release(Low)

TerminateTable(p) ==
    LET i == call[p].i
        t == dir[p][i] IN
    /\ At(p, "tables")
    /\ i < Dirs
    /\ IF t = Absent THEN ReleaseLow ELSE Page_Release(t)
    /\ lost' = lost \cup (IF t = Absent THEN {} ELSE {tab[t][j][1] : j \in 0 .. Tabs - 1} \cap Frames)
    /\ dir' = [dir EXCEPT ![p][i] = Absent]
    /\ tab' = IF t = Absent THEN tab ELSE [tab EXCEPT ![t] = FreshTable]
    /\ Goto(p, [at |-> "tables", i |-> i + 1])
    /\ UNCHANGED <<directory, endpoint, outside>>

(* The directory, on which the CPU still runs, goes last.                  *)
TerminateDirectory(p) ==
    /\ At(p, "tables")
    /\ call[p].i = Dirs
    /\ Page_Release(directory[p])
    /\ directory' = [directory EXCEPT ![p] = Absent]
    /\ Goto(p, [at |-> "none"])
    /\ UNCHANGED <<dir, tab, endpoint, history>>

-----------------------------------------------------------------------------
(* Process_Fork: Paging_Initialize for the child k and Paging_Clone.       *)

Fork(p, k) ==
    /\ Call(p) /\ At(k, "none")
    /\ call' = [call EXCEPT ![p] = [at |-> "fork", kid |-> k], ![k] = [at |-> "booked"]]
    /\ UNCHANGED <<spaces, endpoint, free, page_lock, wild, history>>

Paging_Initialize(p, f) ==
    LET k == call[p].kid IN
    /\ At(p, "fork")
    /\ Acquires(f)
    /\ directory' = [directory EXCEPT ![k] = f]
    /\ dir' = [dir EXCEPT ![k] = [i \in 0 .. Dirs - 1 |-> Absent]]
    /\ Goto(p, [at |-> "clone", kid |-> k, va |-> 0])
    /\ UNCHANGED <<tab, endpoint, history>>

(* What the clone still lacks: pages of the page table it has last got,    *)
(* then the next page table.                                               *)
PagesLeft(p) == {v \in Pages : /\ v >= call[p].va
                               /\ dir[call[p].kid][PAGEDIRIDX(v)] # Absent
                               /\ Paging_IsPageMapped(p, v)}
TablesLeft(p) == {i \in 0 .. Dirs - 1 : dir[p][i] # Absent /\ dir[call[p].kid][i] = Absent}

ClonePage(p, f) ==
    LET k == call[p].kid
        v == Min(PagesLeft(p)) IN
    /\ At(p, "clone")
    /\ PagesLeft(p) # {}
    /\ Acquires(f)
    /\ tab' = [tab EXCEPT ![dir[k][PAGEDIRIDX(v)]][PAGETABIDX(v)] = <<f, Entry(p, v)[2]>>]
    /\ Goto(p, [call[p] EXCEPT !.va = v + 1])
    /\ UNCHANGED <<directory, dir, endpoint, history>>

(* The frame is not cleared: entries the parent does not have keep what    *)
(* the frame held before.  The others are written before anyone looks.     *)
CloneTable(p, f) ==
    LET k == call[p].kid
        i == Min(TablesLeft(p)) IN
    /\ At(p, "clone")
    /\ PagesLeft(p) = {} /\ TablesLeft(p) # {}
    /\ Acquires(f)
    /\ dir' = [dir EXCEPT ![k][i] = f]
    /\ \E held \in [0 .. Tabs - 1 -> Garbage] :
          /\ \A j \in 0 .. Tabs - 1 : tab[dir[p][i]][j] # Zero => held[j] = Zero
          /\ tab' = [tab EXCEPT ![f] = held]
    /\ Goto(p, [call[p] EXCEPT !.va = i * Tabs])
    /\ UNCHANGED <<directory, endpoint, history>>

(* Every error path of Process_Fork starts with a Page_Release.            *)
ForkOutOfMemory(p) ==
    /\ \/ At(p, "fork")
       \/ At(p, "clone") /\ PagesLeft(p) \cup TablesLeft(p) # {}
    /\ OutOfMemory
    /\ Goto(p, [at |-> "stuck", page |-> Absent])
    /\ UNCHANGED <<spaces, endpoint, history>>

ForkDone(p) ==
    LET k == call[p].kid IN
    /\ At(p, "clone")
    /\ PagesLeft(p) \cup TablesLeft(p) = {}
    /\ endpoint' = [endpoint EXCEPT ![k] = endpoint[p]]
    /\ outside' = [outside EXCEPT ![k] = outside[p]]
    /\ call' = [call EXCEPT ![p] = InUser, ![k] = InUser]
    /\ UNCHANGED <<spaces, calls, free, page_lock, wild, lost>>

-----------------------------------------------------------------------------
(* Paging_SetFlags and Paging_UnsetFlags with PRESENT, of the flags the    *)
(* one that changes what the other functions do.  Nothing calls them yet.  *)
SetPresent(p, v, present) ==
    /\ Call(p)
    /\ Paging_IsPageMapped(p, v)
    /\ tab' = [tab EXCEPT ![dir[p][PAGEDIRIDX(v)]][PAGETABIDX(v)][2] = present]
    /\ UNCHANGED <<directory, dir, endpoint, call, free, page_lock, wild, history>>

-----------------------------------------------------------------------------
(* The first process, made outside the repository's code, has one page in  *)
(* its first page table.                                                   *)
Init ==
    /\ LET d == Min(Frames)
           t == Min(Frames \ {d})
           g == Min(Frames \ {d, t}) IN
       /\ directory = [p \in Procs |-> IF p = First THEN d ELSE Absent]
       /\ dir = [p \in Procs |-> [i \in 0 .. Dirs - 1 |-> IF p = First /\ i = 0 THEN t ELSE Absent]]
       /\ tab = [f \in Frames \cup {Low} |->
                    IF f = t THEN [FreshTable EXCEPT ![0] = <<g, TRUE>>] ELSE FreshTable]
       /\ free = Frames \ {d, t, g}
    /\ endpoint = [p \in Procs |-> IF p = First THEN PageSize ELSE 0]
    /\ call = [p \in Procs |-> IF p = First THEN InUser ELSE [at |-> "none"]]
    /\ calls = 0
    /\ page_lock = FALSE
    /\ wild = "no"
    /\ outside = [p \in Procs |-> FALSE]
    /\ lost = {}

ShiftStep(p) ==
    \/ \E shift \in Shifts : Grow(p, shift) \/ Shrink(p, shift)
    \/ \E f \in Offered(free) : MapAcquire(p, f) \/ MapTable(p, f)
    \/ MapOutOfMemory(p) \/ MapTableOutOfMemory(p)
    \/ Paging_MapPage(p) \/ MapRefused(p) \/ MapKernel(p)
    \/ UnmapRelease(p) \/ UnmapClear(p) \/ UnmapDone(p)

TerminateStep(p) == Process_Terminate(p) \/ TerminateTable(p) \/ TerminateDirectory(p)

ForkStep(p) ==
    \/ \E k \in Procs : Fork(p, k)
    \/ \E f \in Offered(free) : Paging_Initialize(p, f) \/ ClonePage(p, f) \/ CloneTable(p, f)
    \/ ForkOutOfMemory(p) \/ ForkDone(p)

Next == \E p \in Procs :
    \/ ShiftStep(p) \/ TerminateStep(p) \/ ForkStep(p)
    \/ \E v \in Pages, present \in BOOLEAN : SetPresent(p, v, present)

Spec == Init /\ [][Next]_vars

-----------------------------------------------------------------------------
(* Properties                                                              *)

(* The places that name a frame: directories, page tables, entries, and    *)
(* the page a call is about to enter or gives back in vain.  The entry     *)
(* whose frame Paging_UnmapPage has just released does not count.          *)
Places == UNION {Procs \X {"directory", "call"} \X {0}, Procs \X {"table"} \X (0 .. Dirs - 1),
                 Procs \X {"page"} \X Pages}

FrameAt(place) ==
    LET p == place[1]
        n == place[3] IN
    CASE place[2] = "directory" -> directory[p]
      [] place[2] = "table" -> dir[p][n]
      [] place[2] = "page" -> IF call[p].at = "clear" /\ call[p].va = n THEN Absent ELSE Entry(p, n)[1]
      [] place[2] = "call" -> IF "page" \in DOMAIN call[p] THEN call[p].page ELSE Absent

(* Every frame the allocator started with is free, or named in exactly one *)
(* place, or lost with an entry that was not PRESENT: no frame serves two  *)
(* address spaces, is released twice, or leaks on an error path, whatever  *)
(* calls interleave.  Frame 0 and entries never written are the exception. *)
FrameOwnership ==
    /\ wild # "double"
    /\ wild = "no" =>
         \A f \in Frames :
             LET named == Cardinality({pl \in Places : FrameAt(pl) = f}) IN
             IF f \in free \cup lost THEN named = 0 ELSE named = 1

(* Every page below the end point of a process has an entry, after any     *)
(* sequence of shifts, refused ones and ones cut short included, and in a  *)
(* fork's child too, while no shift has taken the end point out of the     *)
(* user half.                                                              *)
HeapMapped ==
    \A p \in Procs : At(p, "user") /\ ~outside[p] =>
        \A v \in Pages : (v + 1) * PageSize <= endpoint[p] => Paging_IsPageMapped(p, v)
=============================================================================
