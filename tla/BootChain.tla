----------------------------- MODULE BootChain -----------------------------
(***************************************************************************)
(* The 16-bit boot stages (src/bootloader/initial/src): the master boot    *)
(* record finds the active partition and loads its boot sector over the    *)
(* place it was itself loaded to; that sector (VBR) reads the boot loader  *)
(* as its block list says; the boot loader (BOOT) enables the A20 line,    *)
(* enters protected mode and calls Multiboot_Boot with Kernel_Info.  The   *)
(* registers the BIOS passed in travel along on the stack.                 *)
(*                                                                         *)
(* Memory is divided into sectors, and a register holds B values.  A real  *)
(* mode address is segment * P + offset (B = 2^16 and P = 16 in the code). *)
(* External is the BIOS: any disk read may fail, and leave junk behind.    *)
(***************************************************************************)
EXTENDS A20

CONSTANTS NumEntries,          \* entries of the partition table
          Slots,               \* entries of the block list
          Blocks,              \* the block list entries: records lba, num_sectors
          MaxRead,             \* sectors one BIOS call reads, 0x7F
          Sector_Size,
          BOOTLOADER_ADDRESS,
          B, P,
          PnP                  \* what the BIOS passes in ES:DI: records es, di

Partitions == 1 .. NumEntries

MBRSector == 0     \* the master boot record is sector 0 of the disk
Junk == -1

ASSUME BootAssumption ==
    /\ {NumEntries, Slots, MaxRead, Sector_Size, B, P} \subseteq Nat \ {0}
    /\ B % (P * P) = 0
    /\ BOOTLOADER_ADDRESS \in 0 .. B - 1
    /\ Blocks \subseteq [lba : Nat, num_sectors : Nat]
    /\ PnP \subseteq [es : 0 .. B - 1, di : 0 .. B - 1]

VARIABLES table,        \* the partitions whose status byte is 0x80
          signed,       \* the partitions whose boot sector ends in 0xAA55
          extensions,   \* the BIOS reads by LBA
          given,        \* ES:DI as the BIOS passed it
          regs, stack,
          boot_sector,  \* what is at VBR_ADDRESS
          listed,       \* the block list on disk
          blocks,       \* the block list in memory, which the VBR counts down
          dap,          \* the disk address packet
          memory,       \* the sectors at BOOTLOADER_ADDRESS and above
          info          \* esi, edi and ebx, then Kernel_Info

disk == <<table, signed, extensions, given, listed>>
bootvars == <<regs, stack, boot_sector, blocks, dap, memory, info>>
vars == <<pc, a20vars, disk, bootvars>>

Halt(from) == pc = from /\ pc' = "Halt" /\ UNCHANGED <<a20vars, disk, bootvars>>

-----------------------------------------------------------------------------
(* mbr.asm                                                                 *)

MBR ==
    /\ pc = "MBR"
    /\ stack' = <<regs.dx, regs.es, regs.di>>
    /\ regs' = [regs EXCEPT !.es = 0, !.di = 0]
    /\ pc' = "GetActivePartition"
    /\ UNCHANGED <<a20vars, disk, boot_sector, blocks, dap, memory, info>>

(* The address of an entry in the relocated table, and the sector it names *)
(* (in both its fields, CHS and LBA): its number stands for either.        *)
First == CHOOSE p \in table : \A q \in table : p <= q

GetActivePartition ==
    /\ pc = "GetActivePartition" /\ table # {}
    /\ stack' = Append(stack, First)
    /\ dap' = [dap EXCEPT !.start = First]
    /\ pc' = IF extensions THEN "DiskReadUsingLBA" ELSE "DiskReadUsingCHS"
    /\ UNCHANGED <<a20vars, disk, regs, boot_sector, blocks, memory, info>>

NoActivePartition == Halt("GetActivePartition") /\ table = {}

AfterCHS_Always(ok) == "CheckVBR"
AfterCHS(ok) == IF ok THEN "CheckVBR" ELSE "Halt"
AfterLBA(ok) == IF ok THEN "CheckVBR" ELSE "DiskReadUsingCHS"

ReadVBR(sector, ok) ==
    /\ boot_sector' \in IF ok THEN {sector} ELSE {boot_sector, Junk}
    /\ UNCHANGED <<a20vars, disk, regs, stack, blocks, dap, memory, info>>

DiskReadUsingLBA ==
    /\ pc = "DiskReadUsingLBA"
    /\ \E ok \in BOOLEAN : ReadVBR(dap.start, ok) /\ pc' = AfterLBA(ok)

DiskReadUsingCHS ==
    /\ pc = "DiskReadUsingCHS"
    /\ \E ok \in BOOLEAN : ReadVBR(stack[4], ok) /\ pc' = AfterCHS(ok)

(* The master boot record, which was at VBR_ADDRESS before, is signed too. *)
Signature == boot_sector = MBRSector \/ boot_sector \in signed

InvalidVBR == Halt("CheckVBR") /\ ~Signature

VBR_DAP == [start |-> 0, offset |-> BOOTLOADER_ADDRESS, segment |-> 0]

LaunchVBR ==
    /\ pc = "CheckVBR" /\ Signature
    /\ regs' = [dx |-> stack[1], es |-> stack[2], di |-> stack[3], si |-> stack[4]]
    /\ stack' = << >>
    /\ blocks' = listed
    /\ dap' = VBR_DAP
    /\ pc' = "VBR"
    /\ UNCHANGED <<a20vars, disk, boot_sector, memory, info>>

-----------------------------------------------------------------------------
(* vbr.asm                                                                 *)

(* DS is 0 here and stays 0.                                               *)
VBR ==
    /\ pc = "VBR" /\ extensions
    /\ stack' = <<regs.dx, regs.es, regs.di, 0, regs.si>>
    /\ regs' = [regs EXCEPT !.es = 0, !.di = 1]
    /\ pc' = "ReadLoop"
    /\ UNCHANGED <<a20vars, disk, boot_sector, blocks, dap, memory, info>>

(* No extensions, no geometry, or another sector size than the list's.     *)
UnknownDisk == Halt("VBR")

EndOfBlockList == regs.di > Slots
Entry == blocks[regs.di]

Overrun == Halt("ReadLoop") /\ EndOfBlockList

Chunk == IF Entry.num_sectors > MaxRead THEN MaxRead ELSE Entry.num_sectors

(* The block's LBA is added to the packet's start sector, not stored.      *)
StartSector == dap.start + Entry.lba

Linear(d) == d.segment * P + d.offset

(* ReadLoopCheck loads 32 bits at Memory_Offset, which takes in            *)
(* Memory_Segment as the upper half.                                       *)
NextAddress == dap.segment * P + (dap.segment * B + dap.offset) + Chunk * Sector_Size
NextSegment_Unshifted(eax) == (eax \div B) % B
NextSegment(eax) == ((eax \div B) * (B \div P)) % B

DiskRead ==
    /\ pc = "ReadLoop" /\ ~EndOfBlockList /\ Entry.num_sectors # 0
    /\ LET at == Linear(dap) IN
        memory' = [a \in DOMAIN memory \cup {at + j * Sector_Size : j \in 0 .. Chunk - 1} |->
                      IF a < at \/ a >= at + Chunk * Sector_Size THEN memory[a]
                      ELSE StartSector + (a - at) \div Sector_Size]
    /\ dap' = [start |-> StartSector, offset |-> NextAddress % B, segment |-> NextSegment(NextAddress)]
    /\ blocks' = [blocks EXCEPT ![regs.di] = [lba |-> @.lba + Chunk, num_sectors |-> @.num_sectors - Chunk]]
    /\ regs' = [regs EXCEPT !.di = IF Entry.num_sectors = Chunk THEN @ + 1 ELSE @]
    /\ UNCHANGED <<pc, a20vars, disk, stack, boot_sector, info>>

DiskReadFails == Halt("ReadLoop") /\ ~EndOfBlockList /\ Entry.num_sectors # 0

Popped_Swapped(s) == [dx |-> s[1], es |-> s[2], di |-> s[5], si |-> s[3]]
Popped(s) == [dx |-> s[1], es |-> s[2], di |-> s[3], si |-> s[5]]

LaunchBootloader ==
    /\ pc = "ReadLoop" /\ ~EndOfBlockList /\ Entry.num_sectors = 0
    /\ regs' = Popped(stack)
    /\ stack' = << >>
    /\ pc' = "BOOT"
    /\ UNCHANGED <<a20vars, disk, boot_sector, blocks, dap, memory, info>>

-----------------------------------------------------------------------------
(* bootloader.asm                                                          *)

(* The segment of ES:DI is added to ESI.                                   *)
BOOT ==
    /\ pc = "BOOT"
    /\ info' = [drive |-> 0, partition |-> regs.si + regs.es * P, pnpbios |-> regs.di, blocklist |-> BOOTLOADER_ADDRESS]
    /\ pc' = "A20_Enable"
    /\ UNCHANGED <<a20vars, disk, regs, stack, boot_sector, blocks, dap, memory>>

A20EnableErr == Halt("A20_Return") /\ ~al

EnablePMode ==
    /\ pc = "A20_Return" /\ al
    /\ info' = [info EXCEPT !.drive = regs.dx]
    /\ pc' = "Multiboot_Boot"
    /\ UNCHANGED <<a20vars, disk, regs, stack, boot_sector, blocks, dap, memory>>

Multiboot_Boot ==
    /\ pc = "Multiboot_Boot"
    /\ pc' \in {"Kernel", "Halt"}
    /\ UNCHANGED <<a20vars, disk, bootvars>>

-----------------------------------------------------------------------------
Drive == 128

Init ==
    /\ pc = "MBR"
    /\ A20Init
    /\ table \in SUBSET Partitions
    /\ signed \in SUBSET Partitions
    /\ extensions \in BOOLEAN
    /\ given \in PnP
    /\ listed \in [1 .. Slots -> Blocks]
    /\ regs = [dx |-> Drive, es |-> given.es, di |-> given.di, si |-> 0]
    /\ stack = << >>
    /\ boot_sector = MBRSector
    /\ blocks = listed
    /\ dap = VBR_DAP
    /\ memory = [a \in {} |-> 0]
    /\ info = [drive |-> 0, partition |-> 0, pnpbios |-> 0, blocklist |-> 0]

CPUStep == \/ MBR \/ GetActivePartition \/ NoActivePartition
           \/ DiskReadUsingLBA \/ DiskReadUsingCHS \/ InvalidVBR \/ LaunchVBR
           \/ VBR \/ UnknownDisk \/ Overrun \/ DiskRead \/ DiskReadFails \/ LaunchBootloader
           \/ BOOT \/ A20EnableErr \/ EnablePMode \/ Multiboot_Boot
           \/ A20Step /\ UNCHANGED <<disk, bootvars>>

Environment == (Controller \/ KeyPressed \/ KeyboardInterrupt) /\ UNCHANGED <<disk, bootvars>>

Next == CPUStep \/ Environment

Spec == Init /\ [][Next]_vars

(* The processor executes, and the controller serves its input buffer.     *)
FairSpec == Spec /\ WF_vars(CPUStep) /\ WF_vars(Controller /\ UNCHANGED <<disk, bootvars>>)

-----------------------------------------------------------------------------
(* Properties                                                              *)

Loaded == {"BOOT", "A20_Return", "Multiboot_Boot", "Kernel"} \cup
          {"A20_Enable", "A20_BIOS", "A20_Check2", "A20_PS2", "A20_Check3", "A20_FastGate", "A20_Check4"}

(* The sums of the first k - 1 of as many numbers as the list has entries. *)
Sums(n) == LET f[k \in 1 .. Slots + 1] == IF k = 1 THEN 0 ELSE f[k - 1] + n[k - 1] IN f

(* The sectors of the list's entries before k, as the disk has it.         *)
Before == Sums([k \in 1 .. Slots |-> listed[k].num_sectors])

(* The sectors that have been read.                                        *)
Read == Sums([k \in 1 .. Slots |-> listed[k].num_sectors - blocks[k].num_sectors])[Slots + 1]

(* What is listed ends below what a segment and an offset can address.     *)
Addressable == BOOTLOADER_ADDRESS + Before[Slots + 1] * Sector_Size < B * P

(* Whatever went wrong before, the boot sector that is executed is the one *)
(* of the first active partition and carries the signature: never the      *)
(* master boot record, which is at the same place with the same signature, *)
(* and never what a failed read left there (mbr.asm, LoadVBR to LaunchVBR).*)
FirstActiveLaunched == pc \in Loaded \cup {"VBR", "ReadLoop"} => boot_sector = First /\ First \in signed

(* Every sector of the block list up to its first empty entry is in its    *)
(* place when the boot loader is entered.                                  *)
LoadedAsListed ==
    pc \in Loaded =>
        \A k \in 1 .. Slots :
            (\A l \in 1 .. k : listed[l].num_sectors # 0) =>
                \A j \in 0 .. listed[k].num_sectors - 1 :
                    memory[BOOTLOADER_ADDRESS + (Before[k] + j) * Sector_Size] = listed[k].lba + j

(* Consecutive reads of the boot loader leave no gap and overwrite         *)
(* nothing, across segments too, although vbr.asm adds the segment twice,  *)
(* when there is room for what is listed; and the list as it is shipped,   *)
(* one block that one BIOS call can read, is loaded completely.            *)
ContiguousLoad ==
    /\ Addressable =>
        /\ DOMAIN memory = {BOOTLOADER_ADDRESS + j * Sector_Size : j \in 0 .. Read - 1}
        /\ pc = "ReadLoop" => Linear(dap) = BOOTLOADER_ADDRESS + Read * Sector_Size
    /\ listed[1].num_sectors <= MaxRead /\ (Slots > 1 => listed[2].num_sectors = 0) => LoadedAsListed

(* Multiboot_Boot is called with the line enabled, the boot drive, the     *)
(* address of the block list, the active partition's entry and the PnP     *)
(* structure, which went through two stacks while every register was in    *)
(* use; the last two where the BIOS passed a zero ES.                      *)
HandedOver ==
    pc = "Multiboot_Boot" =>
        /\ a20
        /\ info.drive = Drive
        /\ info.blocklist = BOOTLOADER_ADDRESS
        /\ given.es = 0 => info.partition = First /\ info.pnpbios = given.di

(* Kernel_Info points to the partition entry and to the PnP structure.     *)
PointersPassed ==
    pc = "Multiboot_Boot" => info.partition = First /\ info.pnpbios = given.es * P + given.di

(* Booting ends, in the kernel or with a message: the processor is never   *)
(* stuck in a wait for the PS/2 controller, whose answer the keyboard's    *)
(* interrupt handler must not take (a20.asm), where there is one.          *)
BootEnds == controller => <>(pc \in {"Halt", "Kernel"})
=============================================================================
