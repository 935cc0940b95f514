---------------------------- MODULE MCMultiboot ----------------------------
(* Scenarios for TLC: kernels of every kind on several memory maps, one    *)
(* kernel with many information requests, and many memory maps.            *)
EXTENDS Multiboot

Block(a, n) == [base |-> a, size |-> n, available |-> TRUE]

(* Low memory ends before MEMORY_HIGH_START; high memory is one block with *)
(* memory above the limit behind it, or two with a hole, or reaches it.    *)
Maps == { << Block(0, 3), Block(4, 8), Block(18, 4) >>,
          << Block(0, 3), Block(4, 3), Block(9, 5) >>,
          << Block(0, 3), Block(5, 11) >> }

Relocatable(lo, hi, pref, align) ==
    [type |-> "RELOCATABLE", min_addr |-> lo, max_addr |-> hi, preference |-> pref, align |-> align]
Address(h, l, e, b) ==
    [type |-> "ADDRESS", header_addr |-> h, load_addr |-> l, load_end_addr |-> e, bss_end_addr |-> b]
Entry(a) == [type |-> "ENTRY_ADDRESS", entry_addr |-> a]

Windows == {<<Relocatable(lo, hi, p, al)>> : lo \in {0, 4, 6, 13}, hi \in {9, 15}, p \in 0 .. 3, al \in {1, 4}}

(* The loaded part starts before cells before the header and has length n  *)
(* (0: the file's), and bss cells follow.                                  *)
Parts == {<<Address(a + before, a, IF n = 0 THEN 0 ELSE a + n, IF bss = 0 THEN 0 ELSE a + n + bss), Entry(a)>> :
            a \in {2, 4, 5, 7, 15}, before \in {0, 1}, n \in {0, 1, 2}, bss \in {0, 2}}
Addresses == {t \in Parts : t[1] \in HeaderTag}

(* Load addresses that contradict one another, tags that the entry address *)
(* hides, a window that the load address ignores, and no tag at all.       *)
Odd == { <<Address(4, 5, 0, 0)>>, <<Address(5, 5, 4, 0)>>, <<Address(5, 5, 7, 6)>>,
         <<Address(5, 5, 5, 5)>>, <<Entry(5), Address(5, 5, 0, 0)>>,
         <<Address(5, 5, 0, 0), Relocatable(5, 6, 0, 1)>>, << >> }

Segment(o, f, m) == [offset |-> o, filesz |-> f, memsz |-> m]
ELFs == { <<Segment(0, 2, 2), Segment(2, 1, 1)>>, <<Segment(1, 1, 2), Segment(2, 1, 1)>>, <<Segment(1, 2, 2)>>,
          <<Segment(0, 2, 2), Segment(2, 0, 2)>> }

Kernels ==
    [bios : Maps, blocks : {<<2>>, <<4>>}, header : {1, 2, 4},
     tags : Windows \cup Addresses \cup Odd, segments : {<< >>}]
    \cup [bios : Maps, blocks : {<<1, 2>>}, header : {2, 3},
          tags : {<<Address(5, 5, 0, 0)>>} \cup Odd, segments : {<< >>} \cup ELFs]
    \cup [bios : Maps, blocks : {<<3>>}, header : {2}, tags : Windows, segments : ELFs]

(* The last entry is the one that is needed, or none, or an empty one is   *)
(* in between.                                                             *)
LastDropped == { << >>, << Block(0, 3), Block(4, 8) >>, << Block(0, 3), Block(4, 8), Block(12, 0) >>,
                 << Block(0, 3), Block(3, 0), Block(4, 8), Block(18, 4) >> }

(* As the AVOS kernel: linked to MEMORY_HIGH_START, header first.          *)
AVOS == [bios |-> << Block(0, 3), Block(4, 8) >>, blocks |-> <<3>>, header |-> 1,
         tags |-> <<Address(4, 4, 6, 7), Entry(5)>>, segments |-> << >>]

Requesting(t) == {[type |-> t, mandatory |-> m] : m \in BOOLEAN}
Asked == UNION {Requesting(t) : t \in {"CMDLINE", "SMBIOS", "ACPI_NEW", "BOOTDEV", "VBE", "FRAMEBUFFER", "EFI"}}
Optional(types) == [k \in DOMAIN types |-> [type |-> types[k], mandatory |-> FALSE]]
Lists == { Optional(<<"BOOT_LOADER_NAME", "BASIC_MEMINFO", "BOOTDEV", "MMAP", "VBE", "FRAMEBUFFER", "APM", "SMBIOS",
                      "ACPI_OLD", "ACPI_NEW", "LOAD_BASE_ADDR", "RAM_INFO_PAGE_ALIGNED">>),
           <<[type |-> "ELF_SECTIONS", mandatory |-> TRUE]>> }
         \cup UNION {[1 .. n -> Asked] : n \in 0 .. 2}
Machines == {{}, {"VBE"}, {"SMBIOS", "BOOTDEV"}, {"APM", "ACPI_OLD"}, {"VBE", "ACPI_NEW", "ACPI_OLD"}}

Plain == [ends |-> "carry", module |-> 0, requests |-> << >>, console |-> FALSE, has |-> {}]

(* Every memory map of up to MaxEntries entries below MaxAddress, of which *)
(* MaxReserved are not available, on a disk without a kernel.              *)
MaxAddress == 5
MaxSize == 3
MaxEntries == 3
MaxReserved == 1
Entries == {e \in [base : 0 .. MaxAddress - 1, size : 1 .. MaxSize, available : BOOLEAN] :
               e.base + e.size <= MaxAddress}
BIOSMaps == {m \in BoundedSeq(Entries, MaxEntries) :
                Cardinality({k \in DOMAIN m : ~m[k].available}) <= MaxReserved}
NoKernel == [blocks |-> << >>, header |-> 1, tags |-> << >>, segments |-> << >>]

TheScenarios ==
    {k @@ Plain : k \in Kernels}
    \cup {AVOS @@ [Plain EXCEPT !.module = m] : m \in {1, 4}}
    \cup {[AVOS EXCEPT !.bios = m] @@ [Plain EXCEPT !.ends = "ebx"] : m \in LastDropped}
    \cup {AVOS @@ [Plain EXCEPT !.requests = q, !.console = c, !.has = h] : q \in Lists, c \in BOOLEAN, h \in Machines}
    \cup {[bios |-> m] @@ NoKernel @@ Plain : m \in BIOSMaps}
=============================================================================
