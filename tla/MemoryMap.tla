----------------------------- MODULE MemoryMap -----------------------------
(***************************************************************************)
(* src/bootloader/multiboot/src/memory.c: the boot loader asks the BIOS    *)
(* for its memory map (Memory_StoreE820Info) and turns that into the list  *)
(* of available blocks it hands to the kernel, with and without aligning   *)
(* the blocks to pages (Memory_StoreInfo).  One action per round of each   *)
(* loop of the latter.                                                     *)
(*                                                                         *)
(* No entry of the BIOS ends beyond the last address, so that base + size  *)
(* does not wrap.  acpi3 and type are one Boolean: whether the entry       *)
(* counts as available.                                                    *)
(***************************************************************************)
EXTENDS Integers, Sequences, SequencesExt, FiniteSetsExt

CONSTANT PageSize      \* 0x1000 in the code

ASSUME PageAssumption == PageSize \in Nat \ {0}

VARIABLES E820_Table,   \* the BIOS table
          page_align,   \* the argument of the same name
          table,        \* the blocks stored so far
          address,      \* where the search for the next block starts
          index,        \* of the alignment and clean-up loops
          stage         \* where Memory_StoreInfo is

storevars == <<E820_Table, page_align, table, address, index, stage>>

(* struct Multiboot_E820_Entry.                                            *)
E820_Entry == [base : Nat, size : Nat, available : BOOLEAN]

(* A BIOS ends its list with an error after the last entry (carry) or with *)
(* a zero in ebx along with the last entry, which then is not kept.  Nor   *)
(* is an entry without any memory.                                         *)
Memory_StoreE820Info(bios, ends) ==
    LET last == IF ends = "ebx" /\ bios # << >> THEN Len(bios) - 1 ELSE Len(bios)
        stored[k \in 0 .. last] ==
            IF k = 0 THEN << >>
            ELSE IF bios[k].size > 0 THEN Append(stored[k - 1], bios[k]) ELSE stored[k - 1]
    IN  stored[last]

EndOf(block) == block.address + block.size

Idle ==
    /\ page_align = FALSE
    /\ table = << >>
    /\ address = 0
    /\ index = 1
    /\ stage = "idle"

Memory_StoreInfo(align) ==
    /\ page_align' = align
    /\ table' = << >>
    /\ address' = 0
    /\ index' = 1
    /\ stage' = "collect"
    /\ UNCHANGED E820_Table

-----------------------------------------------------------------------------
(* Collecting: the closest available entry that does not start before the  *)
(* end of the last block, then one pass over the table that extends the    *)
(* block by every entry touching it.                                       *)

Counts(e) == e.available

Ahead == {e.base : e \in {x \in Range(E820_Table) : Counts(x) /\ x.base >= address}}

Extends_Apart(e, end) == e.base + e.size >= end
Extends(e, end) == e.base + e.size >= end /\ e.base <= end

(* GrownEnd(b)[k]: the end of the block at b after k entries of the pass.  *)
GrownEnd(b) ==
    LET end[k \in 0 .. Len(E820_Table)] ==
            IF k = 0 THEN b
            ELSE IF Counts(E820_Table[k]) /\ Extends(E820_Table[k], end[k - 1])
                 THEN E820_Table[k].base + E820_Table[k].size
                 ELSE end[k - 1]
    IN  end

(* Where the search for the next block starts: the end of this one.        *)
Resume(b, end) == end

Collect ==
    LET b == Min(Ahead)
        end == GrownEnd(b)[Len(E820_Table)] IN
    /\ stage = "collect"
    /\ Ahead # {}
    /\ table' = Append(table, [address |-> b, size |-> end - b])
    /\ address' = Resume(b, end)
    /\ UNCHANGED <<E820_Table, page_align, index, stage>>

Collected ==
    /\ stage = "collect"
    /\ Ahead = {}
    /\ stage' = IF page_align THEN "align" ELSE "prune"
    /\ UNCHANGED <<E820_Table, page_align, table, address, index>>

-----------------------------------------------------------------------------
(* Aligning: a block shrinks to its whole pages, to <0, 0> if it has none. *)

Down(a) == a - (a % PageSize)
Up(a) == IF Down(a) < a THEN Down(a) + PageSize ELSE Down(a)

WholePages(block) ==
    LET lo == Up(block.address)
        hi == Down(EndOf(block)) IN
    IF hi > lo THEN [address |-> lo, size |-> hi - lo] ELSE [address |-> 0, size |-> 0]

Align ==
    /\ stage = "align" /\ index <= Len(table)
    /\ table' = [table EXCEPT ![index] = WholePages(@)]
    /\ index' = index + 1
    /\ UNCHANGED <<E820_Table, page_align, address, stage>>

Aligned ==
    /\ stage = "align" /\ index > Len(table)
    /\ stage' = "prune"
    /\ index' = 1
    /\ UNCHANGED <<E820_Table, page_align, table, address>>

-----------------------------------------------------------------------------
(* Removing empty entries: the index moves on whether or not the entries   *)
(* behind it have moved up.                                                *)

Empty_Small(block) == block.size <= PageSize
Empty(block) == block.size = 0

Prune ==
    /\ stage = "prune" /\ index <= Len(table)
    /\ table' = IF Empty(table[index]) THEN RemoveAt(table, index) ELSE table
    /\ index' = index + 1
    /\ UNCHANGED <<E820_Table, page_align, address, stage>>

Pruned ==
    /\ stage = "prune" /\ index > Len(table)
    /\ stage' = "done"
    /\ UNCHANGED <<E820_Table, page_align, table, address, index>>

StoreStep == Collect \/ Collected \/ Align \/ Aligned \/ Prune \/ Pruned

-----------------------------------------------------------------------------
(* Properties of the table Memory_StoreInfo leaves behind.                 *)

Bytes(b, size) == b .. b + size - 1
Listed(k) == Bytes(table[k].address, table[k].size)
AllListed == UNION {Listed(k) : k \in DOMAIN table}

Covered(entries) == UNION {Bytes(e.base, e.size) : e \in entries}
Available == Covered({e \in Range(E820_Table) : e.available})

Sorted == \A k, l \in DOMAIN E820_Table : k < l => E820_Table[k].base <= E820_Table[l].base
Precedes(block, next) ==
    EndOf(block) <= next.address /\ (Sorted => EndOf(block) # next.address)

(* What the table lists is usable as it stands, from overlapping, nested,  *)
(* adjacent and unordered entries too: no address is in two blocks, blocks *)
(* with anything in them are in ascending order and, from a table sorted   *)
(* by base, do not touch, every listed address is in an available entry,   *)
(* and with page_align every block is whole pages.                         *)
BlocksSound ==
    stage = "done" =>
        /\ \A k, l \in DOMAIN table :
             k < l /\ table[k].size > 0 /\ table[l].size > 0 => Precedes(table[k], table[l])
        /\ AllListed \subseteq Available
        /\ page_align => \A k \in DOMAIN table : table[k].address % PageSize = 0 /\ table[k].size % PageSize = 0

PageOf(a) == Bytes(Down(a), PageSize)

(* From a table sorted by base nothing is lost: every available address is *)
(* listed, or with page_align every available page.                        *)
NothingLost ==
    stage = "done" /\ Sorted =>
        \A a \in Available : (page_align => PageOf(a) \subseteq Available) => a \in AllListed
=============================================================================
