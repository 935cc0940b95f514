------------------------------ MODULE Startup ------------------------------
(***************************************************************************)
(* How the processors come up (src/kernel/arch/initialize): the boot       *)
(* processor runs Start and Initialize_System, which starts the others one *)
(* by one; each of them runs StartAP.  Until it has a stack of its own,    *)
(* every processor uses the same boot stack, and until it has jumped to    *)
(* the higher half it needs the identity mapping in                        *)
(* Kernel_pagedirectory[0], which the boot processor removes at the end.   *)
(*                                                                         *)
(* External is the hardware: an INIT makes a processor wait for a STARTUP  *)
(* message; a processor that waits starts on it, any other ignores it.     *)
(* The first of the two STARTUP messages may be lost.  What the firmware   *)
(* tables hold is left open by Init; a processor they list need not be     *)
(* there.                                                                  *)
(***************************************************************************)
EXTENDS Integers, Sequences, FiniteSets, FiniteSetsExt

CONSTANTS BSP,               \* the boot processor
          APs,               \* the other processors
          LocalAPIC_Infos,   \* LocalAPIC_InfoPtrs: the processors the MADT lists, in order
          PIT_IRQLINE,       \* the line of the PIT (0)
          Wirings            \* how interrupt lines may reach the boot processor

CPUs == APs \cup {BSP}

ASSUME BSPAssumption == BSP \notin APs
ASSUME InfosAssumption == /\ LocalAPIC_Infos \in Seq(CPUs)
                          /\ \A k, l \in DOMAIN LocalAPIC_Infos :
                                LocalAPIC_Infos[k] = LocalAPIC_Infos[l] => k = l

(* A wiring: the local APIC's id of the boot processor, the IOAPICs of the *)
(* MADT, each with its first line, the number of its last, and whether it  *)
(* identifies as the MADT says, and the lines the MADT moves elsewhere.    *)
ASSUME WiringAssumption ==
    \A w \in Wirings :
        /\ w.apic_id \in 0 .. 255
        /\ w.ioapics \in Seq([base : Nat, last : Nat, matches : BOOLEAN])
        /\ w.overrides \in Seq([irq : Nat, global : Nat])

VARIABLES pc,
          esp,         \* the stack each processor uses: none, boot or own
          register,    \* the value Kernel_numcpus_online++ has loaded
          Kernel_numcpus_online,
          identity,    \* Kernel_pagedirectory[0] is mapped
          boot_code,   \* StartAP has been copied to KERNEL_AP_BOOT_START_ADDR
          ticking,     \* PIT interrupts reach the boot processor
          inumcpus,    \* Initialize_CPU's local
          i,           \* the loop index of Initialize_System
          magic,       \* Start found the multiboot2 magic number in eax
          tables,      \* APIC_SaveInfo found a valid MADT (a failure is one
                       \* before LocalAPIC_Num is stored: not the address override)
          wiring,
          responding,  \* the processors that are really there
          enough       \* there is memory for a stack of every processor

machine == <<magic, tables, wiring, responding, enough>>
bspvars == <<boot_code, ticking, inumcpus, i>>
vars == <<pc, esp, register, Kernel_numcpus_online, identity, bspvars, machine>>

Goto(c, label) == pc' = [pc EXCEPT ![c] = label]

-----------------------------------------------------------------------------
(* What all processors execute.                                            *)

(* Initialize_HigherHalf turns paging on while it still runs at a physical *)
(* address.                                                                *)
Initialize_HigherHalf(c) ==
    /\ pc[c] = "higher_half"
    /\ Goto(c, IF ~identity THEN "fault" ELSE IF c = BSP THEN "memory" ELSE "stack")
    /\ UNCHANGED <<esp, register, Kernel_numcpus_online, identity, bspvars, machine>>

(* Initialize_Stack calls Page_Acquire on the boot stack and leaves it.    *)
(* It does not look at the result: when no memory is left the stack        *)
(* pointer wraps into the first pages of memory ("lost").                  *)
Initialize_Stack(c) ==
    /\ pc[c] = "stack"
    /\ \/ esp' = [esp EXCEPT ![c] = "own"] /\ Goto(c, "processor")
       \/ ~enough /\ esp' = [esp EXCEPT ![c] = "none"] /\ Goto(c, "lost")
    /\ UNCHANGED <<register, Kernel_numcpus_online, identity, bspvars, machine>>

(* Initialize_ThisProcessor up to its last statement: paging, State, GDT,  *)
(* IDT and TSS at the base of the stack, and the local APIC.               *)
Initialize_ThisProcessor(c) ==
    /\ pc[c] = "processor"
    /\ Goto(c, "load")
    /\ UNCHANGED <<esp, register, Kernel_numcpus_online, identity, bspvars, machine>>

(* Kernel_numcpus_online++, a load and a store.                            *)
LoadCount(c) ==
    /\ pc[c] = "load"
    /\ register' = [register EXCEPT ![c] = Kernel_numcpus_online]
    /\ Goto(c, "store")
    /\ UNCHANGED <<esp, Kernel_numcpus_online, identity, bspvars, machine>>

StoreCount(c) ==
    /\ pc[c] = "store"
    /\ Kernel_numcpus_online' = register[c] + 1
    /\ Goto(c, IF c = BSP THEN "ioapic" ELSE "work")
    /\ UNCHANGED <<esp, register, identity, bspvars, machine>>

(* GetToWork: LocalAPIC_Initialize_Timer measures the local timer against  *)
(* PIT_Delay, then Schedule() is entered for good.  Without tables the     *)
(* local APIC is looked for at address 0, which is not mapped any more: a  *)
(* page fault stops the processor here, if not the delay.                  *)
GetToWork(c) ==
    /\ pc[c] = "work"
    /\ ticking
    /\ Goto(c, "schedule")
    /\ UNCHANGED <<esp, register, Kernel_numcpus_online, identity, bspvars, machine>>

-----------------------------------------------------------------------------
(* The other processors.                                                   *)

(* StartAP: protected mode and the boot stack.                             *)
StartAP(c) ==
    /\ pc[c] = "real"
    /\ esp' = [esp EXCEPT ![c] = "boot"]
    /\ Goto(c, IF boot_code THEN "higher_half" ELSE "fault")
    /\ UNCHANGED <<register, Kernel_numcpus_online, identity, bspvars, machine>>

-----------------------------------------------------------------------------
(* The boot processor.                                                     *)

At(label) == pc[BSP] = label

Start ==
    /\ At("start")
    /\ Goto(BSP, IF magic THEN "higher_half" ELSE "halt")
    /\ esp' = [esp EXCEPT ![BSP] = IF magic THEN "boot" ELSE @]
    /\ UNCHANGED <<register, Kernel_numcpus_online, identity, bspvars, machine>>

Initialize_Memory ==
    /\ At("memory")
    /\ Goto(BSP, "stack")
    /\ UNCHANGED <<esp, register, Kernel_numcpus_online, identity, bspvars, machine>>

(* IOAPIC_Initialize returns before it enables interrupts when an IOAPIC   *)
(* does not identify itself, and nobody looks at its result.               *)
IOAPIC_Initialize == \A k \in DOMAIN wiring.ioapics : wiring.ioapics[k].matches

(* IOAPIC_EnableInterrupt: of the overrides of a line the last counts; an  *)
(* IOAPIC that has the line gets it.  The id of the processor is written   *)
(* to the lowest byte of the upper half of the IOAPIC's entry, of which    *)
(* the highest byte is the destination: processor 0, whichever boots.      *)
Overrides(irq) == {k \in DOMAIN wiring.overrides : wiring.overrides[k].irq = irq}
GlobalInterrupt(irq) ==
    IF Overrides(irq) = {} THEN irq ELSE wiring.overrides[Max(Overrides(irq))].global
HasLine(ioapic, line) == line \in ioapic.base .. ioapic.base + ioapic.last
Destination(id) == id \div 2^24

IOAPIC_EnableInterrupt(irq) ==
    /\ \E k \in DOMAIN wiring.ioapics : HasLine(wiring.ioapics[k], GlobalInterrupt(irq))
    /\ Destination(wiring.apic_id) = wiring.apic_id

(* IOAPIC_Initialize, Console_Initialize, PIT_Initialize, which needs the  *)
(* MADT to route its line, Keyboard_Initialize and Scheduler_Initialize.   *)
(* Without tables IOAPIC_EnableInterrupt takes what is at address 0 for    *)
(* the MADT, and may never find its end, or fault on the way ("stuck").    *)
Initialize_Devices ==
    /\ At("ioapic")
    /\ ticking' = (tables /\ IOAPIC_Initialize /\ IOAPIC_EnableInterrupt(PIT_IRQLINE))
    /\ \E label \in IF tables THEN {"copy"} ELSE {"copy", "stuck"} : Goto(BSP, label)
    /\ UNCHANGED <<esp, register, Kernel_numcpus_online, identity, boot_code, inumcpus, i, machine>>

CopyBootCode ==
    /\ At("copy")
    /\ boot_code' = TRUE
    /\ Goto(BSP, "next")
    /\ UNCHANGED <<esp, register, Kernel_numcpus_online, identity, ticking, inumcpus, i, machine>>

LocalAPIC_Num == IF tables THEN Len(LocalAPIC_Infos) ELSE 0

(* The loop over the processors of the MADT, which leaves itself out.      *)
NextCPU ==
    /\ At("next") /\ i <= LocalAPIC_Num
    /\ IF LocalAPIC_Infos[i] = BSP
       THEN i' = i + 1 /\ UNCHANGED <<pc, inumcpus>>
       ELSE inumcpus' = Kernel_numcpus_online /\ Goto(BSP, "init") /\ UNCHANGED i
    /\ UNCHANGED <<esp, register, Kernel_numcpus_online, identity, boot_code, ticking, machine>>

(* Initialize_CPU: INIT, then STARTUP twice, with PIT_Delay after each.    *)
Target == LocalAPIC_Infos[i]

SendInit ==
    /\ At("init")
    /\ pc' = [pc EXCEPT ![BSP] = "deassert",
                        ![Target] = IF Target \in responding THEN "wait" ELSE @]
    /\ UNCHANGED <<esp, register, Kernel_numcpus_online, identity, bspvars, machine>>

Deassert ==
    /\ At("deassert") /\ ticking
    /\ Goto(BSP, "startup1")
    /\ UNCHANGED <<esp, register, Kernel_numcpus_online, identity, bspvars, machine>>

Startup_Again(label) == IF label = "off" THEN label ELSE "real"
Startup(label) == IF label = "wait" THEN "real" ELSE label

SendStartup(from, to, maylose) ==
    /\ At(from) /\ ticking
    /\ \/ pc' = [pc EXCEPT ![BSP] = to, ![Target] = Startup(@)]
       \/ maylose /\ Goto(BSP, to)
    /\ UNCHANGED <<esp, register, Kernel_numcpus_online, identity, bspvars, machine>>

CameOnline_NotAwaited == TRUE
CameOnline_OffByOne == Kernel_numcpus_online > inumcpus + 1
CameOnline == Kernel_numcpus_online # inumcpus

AwaitOnline ==
    /\ At("await") /\ ticking
    /\ CameOnline
    /\ i' = i + 1
    /\ Goto(BSP, "next")
    /\ UNCHANGED <<esp, register, Kernel_numcpus_online, identity, boot_code, ticking, inumcpus, machine>>

Unmap ==
    /\ At("next") /\ i > LocalAPIC_Num
    /\ identity' = FALSE
    /\ Goto(BSP, "work")
    /\ UNCHANGED <<esp, register, Kernel_numcpus_online, bspvars, machine>>

-----------------------------------------------------------------------------
Init ==
    /\ pc = [c \in CPUs |-> IF c = BSP THEN "start" ELSE "off"]
    /\ esp = [c \in CPUs |-> "none"]
    /\ register = [c \in CPUs |-> 0]
    /\ Kernel_numcpus_online = 0
    /\ identity = TRUE
    /\ boot_code = FALSE
    /\ ticking = FALSE
    /\ inumcpus = 0
    /\ i = 1
    /\ magic \in BOOLEAN
    /\ tables \in BOOLEAN
    /\ wiring \in Wirings
    /\ responding \in SUBSET APs
    /\ enough \in BOOLEAN

(* A processor that is lost writes to memory that is not its own: nothing  *)
(* is said about what follows.                                             *)
Sound == \A c \in CPUs : pc[c] # "lost"

Common(c) == \/ Initialize_HigherHalf(c)
             \/ Initialize_Stack(c)
             \/ Initialize_ThisProcessor(c)
             \/ LoadCount(c)
             \/ StoreCount(c)
             \/ GetToWork(c)

BSPStep == Sound /\ \/ Start \/ Initialize_Memory \/ Initialize_Devices \/ CopyBootCode
                    \/ NextCPU \/ SendInit \/ Deassert
                    \/ SendStartup("startup1", "startup2", TRUE)
                    \/ SendStartup("startup2", "await", FALSE)
                    \/ AwaitOnline \/ Unmap
                    \/ Common(BSP)

APStep(c) == Sound /\ (StartAP(c) \/ Common(c))

Next == BSPStep \/ \E c \in APs : APStep(c)

Spec == Init /\ [][Next]_vars

(* Processors execute; a second STARTUP reaches a processor that is there. *)
FairSpec == Spec /\ WF_vars(BSPStep) /\ \A c \in APs : WF_vars(APStep(c))

-----------------------------------------------------------------------------
(* Properties                                                              *)

Online == {"ioapic", "stuck", "copy", "next", "init", "deassert", "startup1", "startup2", "await", "work", "schedule"}
Booting == {"real", "higher_half", "memory", "stack", "processor", "load", "store"}

(* Every variable has its type.                                            *)
StartTypeOK ==
    /\ pc \in [CPUs -> Online \cup Booting \cup {"off", "wait", "start", "halt", "fault", "lost"}]
    /\ esp \in [CPUs -> {"none", "boot", "own"}]
    /\ register \in [CPUs -> 0 .. Cardinality(CPUs)]
    /\ {Kernel_numcpus_online, inumcpus} \subseteq 0 .. Cardinality(CPUs)
    /\ {identity, boot_code, ticking, magic, tables, enough} \subseteq BOOLEAN
    /\ wiring \in Wirings
    /\ i \in 1 .. Len(LocalAPIC_Infos) + 1
    /\ responding \subseteq APs

(* No two processors are on the boot stack, which all of them start on:    *)
(* Initialize_CPU does not return before the processor it started has a    *)
(* stack of its own.                                                       *)
BootStackExclusive == \A c, d \in CPUs : esp[c] = "boot" /\ esp[d] = "boot" => c = d

(* No processor turns paging on after the boot processor has removed the   *)
(* identity mapping, or executes boot code that is not there.              *)
NoFault == \A c \in CPUs : pc[c] # "fault"

(* The unsynchronised Kernel_numcpus_online counts the processors that     *)
(* have come online: no increment is lost, and when Initialize_System ends *)
(* every processor of the MADT is counted.                                 *)
CountExact ==
    /\ Kernel_numcpus_online = Cardinality({c \in CPUs : pc[c] \in Online})
    /\ ~identity /\ tables => \A k \in DOMAIN LocalAPIC_Infos : pc[LocalAPIC_Infos[k]] \in Online

(* Some IOAPIC has the line of the PIT, wherever the MADT has moved it.    *)
Wired == \E k \in DOMAIN wiring.ioapics : HasLine(wiring.ioapics[k], GlobalInterrupt(PIT_IRQLINE))

AsExpected ==
    /\ magic /\ tables /\ enough
    /\ \A k \in DOMAIN wiring.ioapics : wiring.ioapics[k].matches
    /\ Wired /\ wiring.apic_id = 0
    /\ \A k \in DOMAIN LocalAPIC_Infos : LocalAPIC_Infos[k] \in responding \cup {BSP}

(* Where the tables are as expected, there is memory for the stacks, every *)
(* listed processor is there, and the one that boots has id 0, all of them *)
(* enter Schedule(): no message that is lost or comes late, and no delay   *)
(* on a line that was not enabled, leaves one behind.                      *)
AllWork == AsExpected => <>(\A k \in DOMAIN LocalAPIC_Infos : pc[LocalAPIC_Infos[k]] = "schedule")
=============================================================================
