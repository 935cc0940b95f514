--------------------------- MODULE PageAllocator ---------------------------
(***************************************************************************)
(* The buddy allocator of page frames                                      *)
(* (src/kernel/core/memory/src/physmem.c): free lists and a bitmap per     *)
(* order, guarded by an IRQLock, used by all CPUs.                         *)
(*                                                                         *)
(* Addresses are frame numbers.  A list threaded through the free frames   *)
(* is a sequence of frames, head first; the bitmap of an order is the set  *)
(* of its set bits.  The body of a call runs under Page_operation_lock and *)
(* is one step.                                                            *)
(*                                                                         *)
(* The kernel reaches frame a at KERNEL_HIGHER_HALF_OFFSET + a, and both   *)
(* this window and the arrays of Page_maps end at frame VirtualEnd (1.75   *)
(* GB), up to which the conversion is one to one.  Page_MapMemoryChunk     *)
(* looks only at where a chunk starts: of a chunk that crosses VirtualEnd  *)
(* it also puts frames beyond on the lists, writing their links into the   *)
(* device window or over low memory, and their bits behind Page_maps.      *)
(*                                                                         *)
(* Page_Release unlinks a buddy by the links stored in it.  When it picks  *)
(* a frame that is not in the list, what it reads is whatever the owner of *)
(* the frame left there, and it writes through it.  In both cases the      *)
(* kernel's state is arbitrary from then on.  This is the state "wild",    *)
(* which has no successors.                                                *)
(***************************************************************************)
EXTENDS IRQLock, Sequences, SequencesExt, FiniteSets, FiniteSetsExt

CONSTANTS PAGE_MAX_ORDER,
          Frames,       \* frames are 0 .. Frames - 1; 0x100000000 as a frame number
          LowEnd,       \* KERNEL_MMAP_LOWMEM_END as a frame number
          VirtualEnd,   \* KERNEL_MMAP_VIRTUAL_END as a frame number
          MemoryMaps,   \* memory maps the kernel may be given
          Requests      \* orders the kernel asks for

Orders == 0 .. PAGE_MAX_ORDER

ASSUME AllocatorAssumption ==
    /\ PAGE_MAX_ORDER \in Nat
    /\ {Frames, LowEnd, VirtualEnd} \subseteq Nat
    /\ VirtualEnd <= Frames
    /\ VirtualEnd % 2^(PAGE_MAX_ORDER + 1) = 0
    /\ Requests \subseteq Orders

(* What BlocksSound (MemoryMap) says of the boot loader's list when the    *)
(* BIOS's table is sorted by base: blocks are in ascending order and do    *)
(* not touch.  Empty ones may be left anywhere.                            *)
ASSUME MapAssumption ==
    \A map \in MemoryMaps :
        /\ map \in Seq([base : Nat, size : Nat])
        /\ \A k, l \in DOMAIN map :
              k < l /\ map[k].size > 0 /\ map[l].size > 0 => map[k].base + map[k].size < map[l].base

VARIABLES Page_lists, Page_maps,
          op,        \* the call a CPU is in: <<>>, <<order>> or <<order, frame>>
          owned,     \* blocks <<frame, order>> in the hands of callers
          wild

allocvars == <<Page_lists, Page_maps, op, owned, wild>>
allvars == <<lockvars, allocvars>>

-----------------------------------------------------------------------------
(* The macros of physmem.h                                                 *)

PAGE_SIZE_AT_ORDER(k) == 2^k

Block(a, k) == a .. a + PAGE_SIZE_AT_ORDER(k) - 1

PAGE_MAP_BIT(a, k) == a \div PAGE_SIZE_AT_ORDER(k + 1)

PAGE_BUDDY_Above(a, k) == a + PAGE_SIZE_AT_ORDER(k)
PAGE_BUDDY(a, k) ==
    IF a % PAGE_SIZE_AT_ORDER(k + 1) = 0 THEN a + PAGE_SIZE_AT_ORDER(k) ELSE a - PAGE_SIZE_AT_ORDER(k)

Toggle(set, x) == IF x \in set THEN set \ {x} ELSE set \cup {x}

Toggled_NotTop(a, lo, hi) ==
    [k \in Orders |-> IF k \in lo .. hi - 1 THEN Toggle(Page_maps[k], PAGE_MAP_BIT(a, k)) ELSE Page_maps[k]]
Toggled(a, lo, hi) ==
    [k \in Orders |-> IF k \in lo .. hi THEN Toggle(Page_maps[k], PAGE_MAP_BIT(a, k)) ELSE Page_maps[k]]

-----------------------------------------------------------------------------
(* Putting a block at the head of a list, and taking one out of it.        *)

Push_Alone(page, list) == <<page>>
Push(page, list) == <<page>> \o list

Unlink(page, list) == RemoveAt(list, CHOOSE p \in DOMAIN list : list[p] = page)

-----------------------------------------------------------------------------
(* Page_MapMemoryChunk: the blocks a chunk is cut into, in the order they  *)
(* are put on the lists.  The part above the last boundary of the largest  *)
(* order comes first, the part below the first boundary last.              *)

LargestOrder(size) == Max({k \in Orders : k = 0 \/ PAGE_SIZE_AT_ORDER(k) <= size})

Chunks == {c \in (0 .. Frames) \X (0 .. Frames) : c[1] + c[2] <= Frames}

Page_MapMemoryChunk[c \in Chunks] ==
    LET base == c[1]
        size == c[2]
        max_order == LargestOrder(size)
        unit == PAGE_SIZE_AT_ORDER(max_order)
        low == (unit - (base % unit)) % unit
        top == ((base + size) \div unit) * unit
        count == (top - (base + low)) \div unit
    IN  IF size = 0 \/ base < LowEnd \/ base >= VirtualEnd THEN <<>>
        ELSE Page_MapMemoryChunk[<<top, base + size - top>>]
             \o [i \in 1 .. count |-> <<top - i * unit, max_order>>]
             \o Page_MapMemoryChunk[<<base, low>>]

(* A chunk ends at 4 GB, and is passed over if it starts beyond.           *)
Truncated(chunk) ==
    IF chunk.base >= Frames THEN <<Frames, 0>>
    ELSE <<chunk.base, IF chunk.base + chunk.size > Frames THEN Frames - chunk.base ELSE chunk.size>>

(* Page_BuddyMaps_Initialize: the chunks of the map, last one first.       *)
Page_BuddyMaps_Initialize(map) ==
    LET mapped[n \in 0 .. Len(map)] ==
            IF n = 0 THEN <<>>
            ELSE mapped[n - 1] \o Page_MapMemoryChunk[Truncated(map[Len(map) + 1 - n])]
    IN  mapped[Len(map)]

(* The list of order k when the blocks have been put on the lists.         *)
ListOf(blocks, k) ==
    LET list[n \in 0 .. Len(blocks)] ==
            IF n = 0 THEN <<>>
            ELSE IF blocks[n][2] = k THEN Push(blocks[n][1], list[n - 1])
            ELSE list[n - 1]
    IN  list[Len(blocks)]

(* Something was written outside the window.                               *)
OutsideWindow(blocks) == \E b \in Range(blocks) : b[1] >= VirtualEnd

AllocInit ==
    /\ LockInit
    /\ \E map \in MemoryMaps :
          LET blocks == Page_BuddyMaps_Initialize(map) IN
          /\ Page_lists = [k \in Orders |-> ListOf(blocks, k)]
          /\ Page_maps = [k \in Orders |->
                             {PAGE_MAP_BIT(b[1], k) : b \in {d \in Range(blocks) : d[2] = k}}]
          /\ wild = OutsideWindow(blocks)
    /\ op = [c \in CPUs |-> <<>>]
    /\ owned = {}

-----------------------------------------------------------------------------
(* Page_Acquire                                                            *)

NonEmpty(order) == {k \in order .. PAGE_MAX_ORDER : Page_lists[k] # <<>>}

(* The upper half of every block that is split goes on the list of its     *)
(* order, which was empty.                                                 *)
Split(page, k) == page + PAGE_SIZE_AT_ORDER(k)

Page_Acquire(c) ==
    LET order == op[c][1]
        i == Min(NonEmpty(order))
        page == Head(Page_lists[i]) IN
    /\ Len(op[c]) = 1
    /\ NonEmpty(order) # {}
    /\ Use(c)
    /\ Page_lists' = [k \in Orders |-> IF k = i THEN Tail(Page_lists[k])
                                       ELSE IF k \in order .. i - 1 THEN <<Split(page, k)>>
                                       ELSE Page_lists[k]]
    /\ Page_maps' = Toggled(page, order, i)
    /\ owned' = owned \cup {<<page, order>>}
    /\ op' = [op EXCEPT ![c] = <<>>]
    /\ UNCHANGED wild

(* The early return when there is no memory left: the lock stays held.     *)
Page_Acquire_Exhausted(c) ==
    /\ Len(op[c]) = 1
    /\ NonEmpty(op[c][1]) = {}
    /\ Abandon(c)
    /\ op' = [op EXCEPT ![c] = <<>>]
    /\ UNCHANGED <<Page_lists, Page_maps, owned, wild>>

-----------------------------------------------------------------------------
(* Page_Release: the block is merged up to the first order whose bit tells *)
(* that the buddy is not free, each buddy on the way unlinked.             *)

MergesTo(page, order) ==
    Min({k \in order .. PAGE_MAX_ORDER :
            k = PAGE_MAX_ORDER \/ PAGE_MAP_BIT(page, k) \notin Page_maps[k]})

Buddies(page, order) == [k \in order .. MergesTo(page, order) - 1 |-> PAGE_BUDDY(page, k)]

Linked(buddies) == \A k \in DOMAIN buddies : buddies[k] \in Range(Page_lists[k])

Merged_Unaligned(page, i) == page
Merged(page, i) == page - (page % PAGE_SIZE_AT_ORDER(i))

Page_Release(c) ==
    LET order == op[c][1]
        page == op[c][2]
        i == MergesTo(page, order)
        buddies == Buddies(page, order) IN
    /\ Len(op[c]) = 2
    /\ Linked(buddies)
    /\ Use(c)
    /\ Page_lists' = [k \in Orders |-> IF k = i THEN Push(Merged(page, i), Page_lists[k])
                                       ELSE IF k \in DOMAIN buddies THEN Unlink(buddies[k], Page_lists[k])
                                       ELSE Page_lists[k]]
    /\ Page_maps' = Toggled(page, order, i)
    /\ op' = [op EXCEPT ![c] = <<>>]
    /\ UNCHANGED <<owned, wild>>

Page_Release_Wild(c) ==
    /\ Len(op[c]) = 2
    /\ ~Linked(Buddies(op[c][2], op[c][1]))
    /\ Use(c)
    /\ wild' = TRUE
    /\ UNCHANGED <<Page_lists, Page_maps, op, owned>>

-----------------------------------------------------------------------------
(* Callers: process.c and paging.c acquire blocks and release them once,   *)
(* with the order they were acquired with.                                 *)

CallAcquire(c, order) ==
    /\ op[c] = <<>>
    /\ Mask(c)
    /\ op' = [op EXCEPT ![c] = <<order>>]
    /\ UNCHANGED <<Page_lists, Page_maps, owned, wild>>

CallRelease(c, block) ==
    /\ op[c] = <<>>
    /\ Mask(c)
    /\ op' = [op EXCEPT ![c] = <<block[2], block[1]>>]
    /\ owned' = owned \ {block}
    /\ UNCHANGED <<Page_lists, Page_maps, wild>>

LockOnly(c) ==
    /\ Take(c) \/ Record(c) \/ Restore(c) \/ Unlock(c) \/ Enable(c) \/ FlagChanges(c)
    /\ UNCHANGED allocvars

AllocStep(c) ==
    \/ \E order \in Requests : CallAcquire(c, order)
    \/ \E block \in owned : CallRelease(c, block)
    \/ Page_Acquire(c)
    \/ Page_Acquire_Exhausted(c)
    \/ Page_Release(c)
    \/ Page_Release_Wild(c)
    \/ LockOnly(c)

AllocNext == ~wild /\ \E c \in CPUs : AllocStep(c)

AllocSpec == AllocInit /\ [][AllocNext]_allvars

-----------------------------------------------------------------------------
(* Properties                                                              *)

Free == {b \in (0 .. Frames - 1) \X Orders : b[1] \in Range(Page_lists[b[2]])}
Returning == {<<op[c][2], op[c][1]>> : c \in {d \in CPUs : Len(op[d]) = 2}}
Managed == UNION {Block(b[1], b[2]) : b \in Free \cup owned \cup Returning}

(* No frame is handed out twice: the blocks on the lists, in the hands of  *)
(* callers and on their way back are disjoint, each on a boundary of its   *)
(* size and wholly inside the window above low memory, and no list has a   *)
(* block twice.                                                            *)
BlocksDisjoint ==
    ~wild =>
        LET blocks == Free \cup owned \cup Returning IN
        /\ \A b \in blocks : /\ b[1] % PAGE_SIZE_AT_ORDER(b[2]) = 0
                             /\ Block(b[1], b[2]) \subseteq LowEnd .. VirtualEnd - 1
        /\ \A b, d \in blocks : b # d => Block(b[1], b[2]) \cap Block(d[1], d[2]) = {}
        /\ \A k \in Orders : IsInjective(Page_lists[k])

(* No frame is lost: splitting, which overwrites the heads of lists, and   *)
(* merging keep every frame the kernel started with.                       *)
NothingLeaks == [][~wild' => Managed' = Managed]_allvars

(* A bit tells whether exactly one of two buddies is free, and two buddies *)
(* are never both free below the largest order: freed memory merges as far *)
(* as it can.  Every bit that is set lies inside the array of its order.   *)
BitmapAgrees ==
    ~wild =>
        /\ \A k \in 0 .. PAGE_MAX_ORDER - 1 :
              \A a \in 0 .. VirtualEnd - 1 : a % PAGE_SIZE_AT_ORDER(k + 1) = 0 =>
                LET free == {a, a + PAGE_SIZE_AT_ORDER(k)} \cap Range(Page_lists[k]) IN
                /\ Cardinality(free) < 2
                /\ (PAGE_MAP_BIT(a, k) \in Page_maps[k]) <=> (Cardinality(free) = 1)
        /\ \A k \in Orders : Page_maps[k] \subseteq 0 .. VirtualEnd \div PAGE_SIZE_AT_ORDER(k + 1) - 1

(* Page_Release goes wild only when it merges at least twice and the page  *)
(* it was given does not start the block it has merged so far.             *)
WildOnlyOffBoundary ==
    [][\A c \in CPUs : Page_Release_Wild(c) =>
          LET page == op[c][2]  order == op[c][1] IN
          page % PAGE_SIZE_AT_ORDER(MergesTo(page, order) - 1) # 0]_allvars
=============================================================================
