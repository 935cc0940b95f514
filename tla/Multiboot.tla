----------------------------- MODULE Multiboot -----------------------------
(***************************************************************************)
(* Multiboot_Boot (src/bootloader/multiboot): the memory maps, the kernel  *)
(* file read into free memory, the kernel put in place from it, modules,   *)
(* and the information the kernel asked for.                               *)
(*                                                                         *)
(* Memory is divided into cells; addresses are unsigned and wrap at        *)
(* AddressSpace (2^32).                                                    *)
(* The cells of the kernel file are numbered from 1; a cell of memory      *)
(* holds one of them, 0, or something else (Other).  What differs from     *)
(* machine to machine and from kernel to kernel is the scenario:           *)
(*   bios       the memory map of the BIOS, from which MemoryMap makes the *)
(*              list of available blocks                                   *)
(*   ends       how the BIOS tells that the map is complete                *)
(*   blocks     the lengths of the kernel file's blocks on the disk (none: *)
(*              there is no kernel)                                        *)
(*   header     the cell of the file where the multiboot header is         *)
(*   tags       the tags of that header that tell how to load the kernel   *)
(*   segments   the loadable segments of an ELF file (none: not ELF)       *)
(*   module     the length of a module (0: there is none)                  *)
(*   requests   the information the header asks for, each with the flag    *)
(*              that it is mandatory                                       *)
(*   console    the header requires a console                              *)
(*   has        the information the BIOS has                               *)
(* ELF files have no section headers.  Where the loader goes on with       *)
(* memory it has overwritten, or never ends, anything may happen: this is  *)
(* the label "wild", which has no successor.                               *)
(***************************************************************************)
EXTENDS BootInfo, MemoryMap, CommandLine

CONSTANTS AddressSpace,
          MEMORY_HIGH_START,
          Loader,            \* where loader, stack, MBI and the BIOS's data are
          HeaderLimit,       \* how far Multiboot_GetHeader looks, 32 KB
          ElfHeaders,        \* length of the ELF and program headers
          Lengths,           \* of the SMBIOS tables
          Scenarios

ASSUME MultibootAssumption ==
    /\ AddressSpace \in Nat
    /\ MEMORY_HIGH_START \in 1 .. AddressSpace - 1
    /\ Loader \subseteq 0 .. MEMORY_HIGH_START - 1 /\ 0 \in Loader
    /\ {HeaderLimit, ElfHeaders} \subseteq Nat \ {0}
    /\ Lengths \subseteq Nat

(* The information the loader has itself, and what the BIOS's tables hold. *)
Supplied == {"CMDLINE", "BOOT_LOADER_NAME", "BASIC_MEMINFO", "LOAD_BASE_ADDR"}
FromBIOS == {"APM", "SMBIOS", "ACPI_OLD", "ACPI_NEW"}
MapTags == {"MMAP", "RAM_INFO", "RAM_INFO_PAGE_ALIGNED"}

(* The types of tags there may be in the record.                           *)
TagTypes == MapTags \cup Supplied \cup FromBIOS \cup {"BOOTDEV", "VBE", "FRAMEBUFFER", "ELF_SECTIONS"}

ASSUME TagsAssumption == MaxTags \in Nat /\ Cardinality(TagTypes) <= MaxTags

LIMIT == AddressSpace - 1   \* MEMORY_32BIT_LIMIT, and MEMORY_NULL_PTR
Word == 0 .. LIMIT          \* uint32_t

HeaderTag ==
    [type : {"RELOCATABLE"}, min_addr : Word, max_addr : Word, preference : Word, align : Word]
    \cup [type : {"ADDRESS"}, header_addr : Word, load_addr : Word, load_end_addr : Word, bss_end_addr : Word]
    \cup [type : {"ENTRY_ADDRESS"}, entry_addr : Word]

(* The sum of the first n values of f.                                     *)
SumTo(f, n) == LET sum[k \in 0 .. n] == IF k = 0 THEN 0 ELSE sum[k - 1] + f[k] IN sum[n]

ASSUME ScenarioAssumption ==
    \A s \in Scenarios :
        /\ s.bios \in Seq(E820_Entry)
        /\ s.blocks \in Seq(Nat)
        /\ s.tags \in Seq(HeaderTag)
        /\ s.segments \in Seq([offset : Nat, filesz : Nat, memsz : Nat])
        /\ \A k \in DOMAIN s.segments : s.segments[k].filesz <= s.segments[k].memsz
        /\ s.segments # << >> => ElfHeaders <= SumTo(s.blocks, Len(s.blocks))
        /\ s.requests \in Seq([type : STRING, mandatory : BOOLEAN])
        /\ s.has \subseteq FromBIOS \cup {"BOOTDEV", "VBE"}

VARIABLES pc, i,         \* control point, and the loop index there
          scenario,
          mmap,          \* the available blocks, as RAM_INFO has them
          memory,
          kernel_info,   \* struct BootInfo_KernelInfo
          load           \* the locals of Multiboot_LoadKernel

list == <<mbi, total_size>>
given == <<scenario, mmap, storevars, command>>
vars == <<pc, i, given, memory, kernel_info, load, list>>

Other == -1
U32(n) == n % AddressSpace

segments == scenario.segments
FileSize == SumTo(scenario.blocks, Len(scenario.blocks))

-----------------------------------------------------------------------------
(* memory.c: the search for free memory                                    *)

Memory_AlignAddress(addr, align, above) ==
    IF align <= 1 \/ addr % align = 0 THEN addr
    ELSE U32(align * ((IF above THEN 1 ELSE 0) + addr \div align))

(* The part of a block below the limit.                                    *)
Length(b) == IF b.address + b.size > LIMIT THEN LIMIT - b.address ELSE b.size
Top(b) == b.address + Length(b)

(* Below an address, the highest place in the block is wanted.             *)
ShiftedBase(b, above, size, target) ==
    IF above THEN b.address
    ELSE IF Top(b) - size >= target THEN target ELSE Top(b) - size

Holds_Start(b, target, size) == b.address <= target /\ Top(b) > target
Holds(b, target, size) == b.address <= target /\ Top(b) > U32(target + size)

Memory_FindBlockAddress(addr, above, size, align) ==
    LET target == Memory_AlignAddress(IF above THEN addr ELSE addr - size, align, above)
        At(b) == Memory_AlignAddress(ShiftedBase(b, above, size, target), align, above)
        usable == {b \in Range(mmap) : /\ b.address < LIMIT /\ Length(b) >= size
                                       /\ At(b) \in b.address .. Top(b) - 1}
        roomy == {At(b) : b \in {u \in usable : Top(u) - At(u) >= size}}
        others == {a \in roomy : IF above THEN a >= addr ELSE a < addr /\ a > 0}
    IN  IF \/ size = 0
           \/ above /\ (addr = LIMIT \/ U32(addr + size) < addr)
           \/ ~above /\ (addr = 0 \/ addr < size)
        THEN LIMIT
        ELSE IF \E b \in usable : Holds(b, target, size) THEN target
        ELSE IF others = {} THEN LIMIT
        ELSE IF above THEN Min(others) ELSE Max(others)

-----------------------------------------------------------------------------
(* string.c, on memory as a value                                          *)

Write(m, to, cells) ==
    [a \in DOMAIN m |-> IF U32(a - to) < Len(cells) THEN cells[U32(a - to) + 1] ELSE m[a]]

memset(m, to, n) == Write(m, to, [k \in 1 .. n |-> 0])

(* One cell after the other, in the direction that lets the two overlap.   *)
Copy(m, to, from, order) ==
    LET after[k \in 0 .. Len(order)] ==
            IF k = 0 THEN m
            ELSE [after[k - 1] EXCEPT ![U32(to + order[k])] = after[k - 1][U32(from + order[k])]]
    IN  after[Len(order)]
Upwards(n) == [k \in 1 .. n |-> k - 1]
Downwards(n) == [k \in 1 .. n |-> n - k]

memmove_Upwards(m, to, from, n) == Copy(m, to, from, Upwards(n))
memmove(m, to, from, n) == Copy(m, to, from, IF to < from THEN Upwards(n) ELSE Downwards(n))

Overwrites(to, n) == \E a \in Loader : U32(a - to) < n

(* The header's magic number in a stretch of memory.                       *)
Multiboot_GetHeader(m, start, size) ==
    LET found == {k \in 0 .. size - 1 : k < HeaderLimit /\ m[U32(start + k)] = scenario.header}
    IN  IF found = {} THEN 0 ELSE U32(start + Min(found))

-----------------------------------------------------------------------------
Fails(from) == pc = from /\ pc' = "fail" /\ UNCHANGED <<i, given, memory, kernel_info, load, list>>

CreateEmptyMBI ==
    /\ pc = "start"
    /\ Multiboot_CreateEmptyMBI
    /\ pc' = "mmap"
    /\ UNCHANGED <<i, given, memory, kernel_info, load>>

(* Multiboot_SaveMemoryMaps: three tags of a header and entries, the first *)
(* with the entries of the BIOS, of which there may be none, the others    *)
(* with what Memory_StoreInfo makes of them.                               *)
MapTag(from, type, size, to) ==
    /\ pc = from
    /\ HasPlace(type)
    /\ AddTag(type, 16 + size)
    /\ pc' = to
    /\ UNCHANGED <<i, scenario, command, memory, kernel_info, load>>

SaveE820Map ==
    /\ MapTag("mmap", "MMAP", 24 * Len(E820_Table), IF E820_Table = << >> THEN "fail" ELSE "ram")
    /\ Memory_StoreInfo(FALSE)
    /\ UNCHANGED mmap

StoreMap ==
    /\ pc \in {"ram", "pages"}
    /\ StoreStep
    /\ UNCHANGED <<pc, i, scenario, mmap, command, memory, kernel_info, load, list>>

SaveRAMMap ==
    /\ stage = "done"
    /\ MapTag("ram", "RAM_INFO", 16 * Len(table), "pages")
    /\ mmap' = table
    /\ Memory_StoreInfo(TRUE)

SavePagesMap ==
    /\ stage = "done"
    /\ MapTag("pages", "RAM_INFO_PAGE_ALIGNED", 16 * Len(table), "list")
    /\ UNCHANGED <<mmap, storevars>>

-----------------------------------------------------------------------------
(* Multiboot_LoadKernelFile                                                *)

(* The list of blocks has no kernel, or a part of it cannot be read, which *)
(* may be a part behind the kernel's.                                      *)
NoKernelFile == Fails("list") \/ (i > Len(scenario.blocks) /\ Fails("file"))

FindKernelFile ==
    LET a == Memory_FindBlockAddress(MEMORY_HIGH_START, TRUE, FileSize, 1) IN
    /\ pc = "list"
    /\ kernel_info' = [kernel_info EXCEPT !.file_addr = a, !.file_size = FileSize]
    /\ pc' = IF a = LIMIT THEN "fail" ELSE "file"
    /\ UNCHANGED <<i, given, memory, load, list>>

(* DiskIO_ReadFromDisk copies sectors one by one, until one cannot be      *)
(* read.  Every block goes to the start of the file.                       *)
ReadBlock ==
    LET before == SumTo(scenario.blocks, i - 1)
        length == scenario.blocks[i] IN
    /\ pc = "file" /\ i <= Len(scenario.blocks)
    /\ \E n \in 0 .. length :
        /\ memory' = Write(memory, kernel_info.file_addr, [k \in 1 .. n |-> before + k])
        /\ pc' = IF n = length THEN "file" ELSE "fail"
    /\ i' = i + 1
    /\ UNCHANGED <<given, kernel_info, load, list>>

(* Section headers are saved only if the request is mandatory, and then    *)
(* the kernel is refused.                                                  *)
WantsSections == \E r \in Range(scenario.requests) : r.type = "ELF_SECTIONS" /\ r.mandatory

KernelFileLoaded ==
    /\ pc = "file" /\ i > Len(scenario.blocks)
    /\ i' = 1
    /\ IF Multiboot_GetHeader(memory, kernel_info.file_addr, FileSize) = 0
       THEN pc' = "fail" /\ UNCHANGED list
       ELSE IF WantsSections /\ HasPlace("ELF_SECTIONS")
       THEN pc' = "fail" /\ AddTag("ELF_SECTIONS", 16)
       ELSE pc' = "kernel" /\ UNCHANGED list
    /\ UNCHANGED <<given, memory, kernel_info, load>>

-----------------------------------------------------------------------------
(* Multiboot_LoadKernel                                                    *)

(* Elf32_IsValidiStaticExecutable, on the headers as they are in memory.   *)
IsELF(m) ==
    /\ segments # << >>
    /\ \A k \in 0 .. ElfHeaders - 1 : m[U32(kernel_info.file_addr + k)] = k + 1

(* Elf32_StaticExecutableLoadSize of the first n segments.                 *)
SizeOf(n) == SumTo([k \in DOMAIN segments |-> segments[k].memsz], n)
BSSLike == SumTo([k \in DOMAIN segments |-> IF segments[k].filesz = 0 THEN segments[k].memsz ELSE 0], Len(segments))

LoadKernel ==
    /\ pc = "kernel"
    /\ kernel_info' = [kernel_info EXCEPT !.size = IF IsELF(memory) THEN SizeOf(Len(segments)) ELSE FileSize,
                                          !.bss_size = IF IsELF(memory) THEN BSSLike ELSE 0]
    /\ load' = [reloc |-> FALSE, start_min |-> kernel_info.start, end_max |-> kernel_info.start + FileSize,
                load_pref |-> 0, start_align |-> PageSize,
                load_info |-> FALSE, load_start |-> kernel_info.file_addr, entry |-> LIMIT]
    /\ pc' = "tags"
    /\ UNCHANGED <<i, given, memory, list>>

RelocatableTag(t) ==
    /\ t.type = "RELOCATABLE"
    /\ load' = [load EXCEPT !.reloc = TRUE, !.start_min = t.min_addr, !.end_max = t.max_addr,
                            !.load_pref = t.preference, !.start_align = t.align]
    /\ pc' = pc
    /\ UNCHANGED kernel_info

(* A load_addr of -1 says that the file is loaded from its start.          *)
AddressTag(t) ==
    LET header == Multiboot_GetHeader(memory, kernel_info.file_addr, FileSize)
        whole == t.load_addr = LIMIT
        start == IF whole THEN U32(t.header_addr - (header - kernel_info.file_addr)) ELSE t.load_addr
        size == IF t.load_end_addr = 0 THEN FileSize ELSE U32(t.load_end_addr - start)
        bss == IF t.bss_end_addr = 0 THEN 0 ELSE U32(t.bss_end_addr - (start + size))
    IN
    /\ t.type = "ADDRESS"
    /\ IF \/ t.load_addr > t.header_addr
          \/ t.load_end_addr # 0 /\ t.load_end_addr < start
          \/ t.bss_end_addr # 0 /\ t.bss_end_addr < U32(start + size)
       THEN pc' = "fail" /\ UNCHANGED <<kernel_info, load>>
       ELSE /\ kernel_info' = [kernel_info EXCEPT !.start = start, !.size = U32(size + bss), !.bss_size = bss]
            /\ load' = [load EXCEPT !.load_info = TRUE,
                                    !.load_start = IF whole THEN kernel_info.file_addr
                                                   ELSE U32(header - (t.header_addr - t.load_addr))]
            /\ pc' = pc

(* Tags after the entry address are not read.                              *)
EntryTag(t) ==
    /\ t.type = "ENTRY_ADDRESS"
    /\ load' = [load EXCEPT !.entry = t.entry_addr]
    /\ pc' = "place"
    /\ UNCHANGED kernel_info

ReadTag ==
    /\ pc = "tags" /\ i <= Len(scenario.tags)
    /\ \/ RelocatableTag(scenario.tags[i])
       \/ AddressTag(scenario.tags[i])
       \/ EntryTag(scenario.tags[i])
    /\ i' = i + 1
    /\ UNCHANGED <<given, memory, list>>

NoMoreTags ==
    /\ pc = "tags" /\ i > Len(scenario.tags)
    /\ pc' = "place"
    /\ UNCHANGED <<i, given, memory, kernel_info, load, list>>

Moves == load.reloc /\ ~load.load_info
Lowest == Moves /\ load.load_pref \in {0, 1}
Highest == Moves /\ load.load_pref = 2

(* The search is for file_size cells, whatever the size of the kernel.     *)
Start == IF Lowest THEN Memory_FindBlockAddress(load.start_min, TRUE, kernel_info.file_size, load.start_align)
         ELSE IF Highest THEN Memory_FindBlockAddress(load.end_max, FALSE, kernel_info.file_size, load.start_align)
         ELSE kernel_info.start

OutsideWindow_Unchecked(start) == start = LIMIT
OutsideWindow(start) ==
    \/ Lowest /\ (start = LIMIT \/ U32(start + kernel_info.size) > load.end_max)
    \/ Highest /\ (start = LIMIT \/ start < load.start_min)

PlaceKernel ==
    /\ pc = "place"
    /\ kernel_info' = [kernel_info EXCEPT !.start = Start]
    /\ pc' = IF \/ kernel_info.size = 0
                \/ load.reloc /\ U32(load.end_max - load.start_min) < kernel_info.size
                \/ OutsideWindow(Start)
                \/ Memory_FindBlockAddress(Start, TRUE, kernel_info.file_size, 1) # Start
             THEN "fail" ELSE "copy"
    /\ i' = 1
    /\ UNCHANGED <<given, memory, load, list>>

AsELF == ~load.load_info /\ IsELF(memory)

MoveKernel ==
    LET start == kernel_info.start
        bss == kernel_info.bss_size
        size == U32(kernel_info.size - bss) IN
    /\ pc = "copy" /\ ~AsELF
    /\ memory' = memset(memmove(memory, start, load.load_start, size), start + size, bss)
    /\ pc' = IF Overwrites(start, size + bss) THEN "wild" ELSE "clean"
    /\ UNCHANGED <<i, given, kernel_info, load, list>>

(* Elf32_LoadStaticExecutable: the headers are read again, from the image, *)
(* before every segment.                                                   *)
LoadSegment ==
    LET s == segments[i]
        to == U32(kernel_info.start + SizeOf(i - 1)) IN
    /\ pc = "copy" /\ AsELF /\ i <= Len(segments)
    /\ memory' = memset(memmove(memory, to, U32(kernel_info.file_addr + s.offset), s.filesz),
                        U32(to + s.filesz), s.memsz - s.filesz)
    /\ pc' = IF ~IsELF(memory') \/ Overwrites(to, s.memsz) THEN "wild" ELSE "copy"
    /\ i' = i + 1
    /\ UNCHANGED <<given, kernel_info, load, list>>

SegmentsLoaded ==
    /\ pc = "copy" /\ AsELF /\ i > Len(segments)
    /\ pc' = "clean"
    /\ UNCHANGED <<i, given, memory, kernel_info, load, list>>

CleanupStart_File(end, file_addr) == file_addr
CleanupStart(end, file_addr) == IF end > file_addr THEN end ELSE file_addr

CleanUp ==
    LET start == kernel_info.start
        file == kernel_info.file_addr
        after == CleanupStart(U32(start + kernel_info.size), file)
        fileEnd == file + kernel_info.file_size
        m1 == IF after < fileEnd THEN memset(memory, after, fileEnd - after) ELSE memory
        m2 == IF file < start THEN memset(m1, file, Min({start - file, kernel_info.file_size})) ELSE m1
    IN
    /\ pc = "clean"
    /\ memory' = m2
    /\ kernel_info' = [kernel_info EXCEPT !.entry = IF load.entry = LIMIT THEN start ELSE load.entry,
                                          !.multiboot_header = Multiboot_GetHeader(m2, start, kernel_info.size)]
    /\ pc' = "modules"
    /\ UNCHANGED <<i, given, load, list>>

-----------------------------------------------------------------------------
(* Multiboot_LoadModules                                                   *)

(* The header is not in the part that was loaded: the functions that read  *)
(* it take what is at address 0 for it, and the last of them gives up.     *)
NoHeader ==
    /\ pc = "modules" /\ kernel_info.multiboot_header = 0
    /\ pc' \in {"fail", "wild"}
    /\ UNCHANGED <<i, given, memory, kernel_info, load, list>>

(* The list of modules cannot be read.                                     *)
NoModuleList == Fails("modules")

NoModules ==
    /\ pc = "modules" /\ kernel_info.multiboot_header # 0 /\ scenario.module = 0
    /\ pc' = "info"
    /\ i' = 1
    /\ UNCHANGED <<given, memory, kernel_info, load, list>>

(* The search is for file_size cells from the start of the kernel, so it   *)
(* finds the kernel.  The loop that copies the module's name never ends.   *)
LoadModule ==
    /\ pc = "modules" /\ kernel_info.multiboot_header # 0 /\ scenario.module > 0
    /\ \E align \in {1, PageSize} :
        LET a == Memory_FindBlockAddress(kernel_info.start, TRUE, kernel_info.file_size, align) IN
        IF a = LIMIT THEN pc' = "fail" /\ UNCHANGED memory
        ELSE \E n \in 0 .. scenario.module :
            /\ memory' = Write(memory, a, [k \in 1 .. n |-> Other])
            /\ pc' = IF n = scenario.module THEN "wild" ELSE "fail"
    /\ UNCHANGED <<i, given, kernel_info, load, list>>

-----------------------------------------------------------------------------
(* Multiboot_SaveInfo                                                      *)

Refused == {"EFI", "NETWORK"}   \* the EFI requests, and the EFI tags of the header

Request == scenario.requests[i]

(* The SMBIOS tables are padded to a multiple of 8.                        *)
Sizes(type) ==
    CASE type = "SMBIOS" -> {Padded(16 + n) : n \in Lengths}
      [] type \in {"BOOT_LOADER_NAME", "BASIC_MEMINFO", "LOAD_BASE_ADDR"} -> {16}
      [] type = "BOOTDEV" -> {24}
      [] type \in {"APM", "ACPI_OLD"} -> {32}
      [] type = "ACPI_NEW" -> {48}

(* Whether the BIOS's tables are found (System_Store...Info), and whether  *)
(* the boot partition is in the partition table.                           *)
Stored(type) == type \in scenario.has

(* What is not found is written and taken back; the boot device is looked  *)
(* up first.                                                               *)
SaveTag(type) ==
    \E size \in Sizes(type) : AddTag(type, IF type \in Supplied \/ Stored(type) THEN size ELSE 0)

SaveBootDevice ==
    IF Stored("BOOTDEV") THEN SaveTag("BOOTDEV") ELSE UNCHANGED list

SaveInfo ==
    LET r == Request IN
    /\ pc = "info" /\ i <= Len(scenario.requests)
    /\ r.type = "CMDLINE" => ~HasPlace(r.type)
    /\ pc' = IF r.type \in Refused /\ r.mandatory THEN "fail" ELSE "info"
    /\ CASE r.type \in (Supplied \cup FromBIOS) \ {"CMDLINE"} /\ HasPlace(r.type) -> SaveTag(r.type)
         [] r.type = "BOOTDEV" /\ HasPlace(r.type) -> SaveBootDevice
         [] OTHER -> UNCHANGED list
    /\ i' = i + 1
    /\ UNCHANGED <<given, memory, kernel_info, load>>

(* Multiboot_SaveBootCommand: the line is edited in its place in the tag   *)
(* until enter is pressed, and padded to a multiple of 8.                  *)
AskCommand ==
    /\ pc = "info" /\ i <= Len(scenario.requests)
    /\ Request.type = "CMDLINE" /\ HasPlace("CMDLINE")
    /\ pc' = "command"
    /\ command' = EmptyCommand
    /\ UNCHANGED <<i, scenario, mmap, storevars, memory, kernel_info, load, list>>

EditCommand ==
    /\ pc = "command"
    /\ Console_ReadCommand
    /\ UNCHANGED <<pc, i, scenario, mmap, storevars, memory, kernel_info, load, list>>

SaveCommand ==
    /\ pc = "command"
    /\ AddTag("CMDLINE", Padded(8 + command.pos + 1))
    /\ pc' = "info"
    /\ i' = i + 1
    /\ command' = EmptyCommand
    /\ UNCHANGED <<scenario, mmap, storevars, memory, kernel_info, load>>

-----------------------------------------------------------------------------
(* Multiboot_SaveGraphicsInfo                                              *)

Requests(type) == {k \in DOMAIN scenario.requests : scenario.requests[k].type = type}
Requested(type) == Requests(type) # {}
(* The last request decides.                                               *)
Mandatory(type) == Requested(type) /\ scenario.requests[Max(Requests(type))].mandatory

GraphicsRequired == scenario.console \/ Mandatory("VBE") \/ Mandatory("FRAMEBUFFER")

NoGraphics ==
    /\ pc = "info" /\ i > Len(scenario.requests)
    /\ ~scenario.console /\ ~Requested("VBE") /\ ~Requested("FRAMEBUFFER")
    /\ pc' = "entry"
    /\ UNCHANGED <<i, given, memory, kernel_info, load, list>>

VBE_StoreInfo == "VBE" \in scenario.has

(* Whether a mode is found: preferred_mode is used uninitialised unless    *)
(* text modes are asked for, then the modes of the BIOS are searched, and  *)
(* the BIOS may not know the one that is preferred in the end.             *)
ModeFound == BOOLEAN

SaveVBE ==
    /\ pc = "info" /\ i > Len(scenario.requests)
    /\ scenario.console \/ Requested("VBE") \/ Requested("FRAMEBUFFER")
    /\ HasPlace("VBE")
    /\ \E mode \in ModeFound :
        LET found == VBE_StoreInfo /\ mode IN
        /\ AddTag("VBE", IF found THEN 784 ELSE 0)
        /\ pc' = IF found THEN IF scenario.console \/ Requested("FRAMEBUFFER") THEN "framebuffer" ELSE "entry"
                 ELSE IF GraphicsRequired THEN "fail" ELSE "entry"
    /\ UNCHANGED <<i, given, memory, kernel_info, load>>

(* Setting the mode may fail.                                              *)
SaveFramebuffer ==
    /\ pc = "framebuffer"
    /\ HasPlace("FRAMEBUFFER")
    /\ AddTag("FRAMEBUFFER", 40)
    /\ pc' \in {"entry", "fail"}
    /\ UNCHANGED <<i, given, memory, kernel_info, load>>

-----------------------------------------------------------------------------
Init ==
    /\ pc = "start" /\ i = 1
    /\ scenario \in Scenarios
    /\ E820_Table = Memory_StoreE820Info(scenario.bios, scenario.ends) /\ Idle
    /\ mmap = << >> /\ command = EmptyCommand
    /\ memory = [a \in 0 .. LIMIT |-> Other]
    /\ kernel_info = [start |-> 0, size |-> 0, bss_size |-> 0, multiboot_header |-> 0, entry |-> 0,
                      file_addr |-> 0, file_size |-> 0]
    /\ load = << >>
    /\ mbi = << >> /\ total_size = 0

Next == \/ CreateEmptyMBI \/ SaveE820Map \/ StoreMap \/ SaveRAMMap \/ SavePagesMap
        \/ NoKernelFile \/ FindKernelFile \/ ReadBlock \/ KernelFileLoaded
        \/ LoadKernel \/ ReadTag \/ NoMoreTags \/ PlaceKernel
        \/ MoveKernel \/ LoadSegment \/ SegmentsLoaded \/ CleanUp
        \/ NoHeader \/ NoModuleList \/ NoModules \/ LoadModule
        \/ SaveInfo \/ AskCommand \/ EditCommand \/ SaveCommand \/ NoGraphics \/ SaveVBE \/ SaveFramebuffer

Spec == Init /\ [][Next]_vars

-----------------------------------------------------------------------------
(* Properties                                                              *)

Free(a) == \E b \in Range(mmap) : a \in b.address .. b.address + b.size - 1
Region(start, size) == start .. start + size - 1
File == Region(kernel_info.file_addr, kernel_info.file_size)
Kernel == Region(kernel_info.start, kernel_info.size)

Placed == pc \in {"copy", "clean", "modules", "info", "command", "framebuffer", "entry"}

(* The kernel is not larger than its file, for which alone the loader      *)
(* looks for room, and does not start at the address that means failure.   *)
Fits == kernel_info.size <= kernel_info.file_size /\ kernel_info.start # LIMIT

(* Rounding start_min up does not wrap.                                    *)
NoWrap == load.start_min + load.start_align <= LIMIT

(* Whatever the memory map and the kernel's header say, the kernel file    *)
(* and the kernel lie in available memory, and a kernel that is relocated  *)
(* lies in the window it asked for, aligned: Memory_FindBlockAddress with  *)
(* its clipped blocks, its strict comparison, and both directions.         *)
WellPlaced ==
    /\ pc \in {"file", "kernel", "tags", "place"} => \A a \in File : Free(a)
    /\ Placed /\ Fits => \A a \in Kernel : Free(a)
    /\ Placed /\ Fits /\ ((Lowest /\ NoWrap) \/ Highest) =>
        /\ kernel_info.start >= load.start_min
        /\ kernel_info.start + kernel_info.size <= load.end_max
        /\ Memory_AlignAddress(kernel_info.start, load.start_align, FALSE) = kernel_info.start

(* The kernel consists of pieces, one behind the other: length cells of    *)
(* the file, and zeros up to total.                                        *)
Piece(at, from, length, total) == [at |-> at, from |-> from, length |-> length, total |-> total]
SegmentPiece(k) == Piece(SizeOf(k - 1), segments[k].offset, segments[k].filesz, segments[k].memsz)
Pieces ==
    IF load.load_info
    THEN {Piece(0, load.load_start - kernel_info.file_addr, kernel_info.size - kernel_info.bss_size, kernel_info.size)}
    ELSE IF segments # << >> THEN {SegmentPiece(k) : k \in DOMAIN segments}
    ELSE {Piece(0, 0, kernel_info.size, kernel_info.size)}

CellOf(p, k) == IF k < p.length THEN p.from + k + 1 ELSE 0
InPlace(p) == \A k \in 0 .. p.total - 1 : memory[kernel_info.start + p.at + k] = CellOf(p, k)

(* The file is in one block, the pieces consist of cells of the file, the  *)
(* kernel stays clear of the loader, and an ELF kernel clear of its file.  *)
Ordinary ==
    /\ Len(scenario.blocks) = 1
    /\ \A p \in Pieces : p.length > 0 => p.from >= 0 /\ p.from + p.length <= FileSize
    /\ Kernel \cap Loader = {}
    /\ segments # << >> /\ ~load.load_info => Kernel \cap File = {}

HeaderIn(p) == \E k \in 0 .. p.total - 1 : p.at + k < HeaderLimit /\ CellOf(p, k) = scenario.header

(* The kernel is put in place intact although the regions of the kernel    *)
(* and of its file may overlap in any way, and nothing of the file is left *)
(* anywhere else: memmove, the clearing of the uninitialised data, and the *)
(* removal of the file's traces do not disturb one another.  The loader    *)
(* keeps control, if the header is in the part of it that is searched.     *)
KernelInPlace ==
    /\ pc \in {"modules", "info", "command", "framebuffer", "entry"} /\ Fits /\ Ordinary =>
        /\ \A p \in Pieces : InPlace(p)
        /\ \A a \in 0 .. LIMIT \ Kernel : memory[a] \in {0, Other}
    /\ pc = "wild" /\ Fits /\ Ordinary => scenario.module > 0 \/ \A p \in Pieces : ~HeaderIn(p)

(* The list of tags is whole after every call, the ones that give up or    *)
(* take a tag back included, and the kernel is entered only with the       *)
(* information it asked for: every tag that could be supplied and no       *)
(* other, however often it was asked for; and graphics if they were        *)
(* required, by any of the three ways to require them.                     *)
InfoComplete ==
    /\ TagList
    /\ pc = "entry" =>
        /\ Types \ {"VBE", "FRAMEBUFFER"} =
              MapTags \cup {t \in Supplied \cup (scenario.has \ {"VBE"}) : Requested(t)}
        /\ \A r \in Range(scenario.requests) : r.mandatory => r.type \notin Refused
        /\ scenario.console \/ Mandatory("VBE") \/ Mandatory("FRAMEBUFFER") => "VBE" \in Types
        /\ "VBE" \in Types => ("FRAMEBUFFER" \in Types <=> scenario.console \/ Requested("FRAMEBUFFER"))
=============================================================================
