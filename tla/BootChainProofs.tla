-------------------------- MODULE BootChainProofs --------------------------
(***************************************************************************)
(* Proofs, for any partition table, block list and BIOS, that the 16-bit   *)
(* stages launch the first active partition's boot sector, that what the   *)
(* BIOS passed reaches Multiboot_Boot through two stacks, and that the     *)
(* boot loader is read into consecutive memory.                            *)
(***************************************************************************)
EXTENDS BootChain, SequenceTheorems, WellFoundedInduction, TLAPS

Enabling == {"A20_Enable", "A20_BIOS", "A20_Check2", "A20_PS2", "A20_Check3", "A20_FastGate", "A20_Check4"}
Reading == {"DiskReadUsingLBA", "DiskReadUsingCHS"}
Executed == Loaded \cup {"VBR", "ReadLoop"}

(* What the boot sector and the boot loader are entered with.              *)
Registers == [dx |-> Drive, es |-> given.es, di |-> given.di, si |-> First]
KernelInfo(drive) == [drive |-> drive, partition |-> First + given.es * P,
                      pnpbios |-> given.di, blocklist |-> BOOTLOADER_ADDRESS]

(* The drive, ES:DI and the partition are where the next stage takes them  *)
(* from: in registers, on the stack, in Kernel_Info.                       *)
Carried ==
    /\ pc = "MBR" => regs = [dx |-> Drive, es |-> given.es, di |-> given.di, si |-> 0]
    /\ pc \in {"MBR", "GetActivePartition"} => dap = VBR_DAP
    /\ pc = "GetActivePartition" => stack = <<Drive, given.es, given.di>>
    /\ pc \in Reading \cup {"CheckVBR"} => stack = <<Drive, given.es, given.di, First>>
    /\ pc = "DiskReadUsingLBA" => dap.start = First
    /\ pc \in {"VBR", "BOOT", "A20_Return"} \cup Enabling => regs = Registers
    /\ pc = "ReadLoop" => stack = <<Drive, given.es, given.di, 0, First>>
    /\ pc \in Enabling \cup {"A20_Return"} => info = KernelInfo(0)
    /\ pc = "Multiboot_Boot" => info = KernelInfo(Drive)

(* A read that failed never gets as far as the check of the signature.     *)
Chosen ==
    /\ table \subseteq Partitions
    /\ pc \in Reading \cup {"CheckVBR"} \cup Executed => table # {}
    /\ pc = "CheckVBR" => boot_sector = First
    /\ FirstActiveLaunched

(* A20_IsEnabled said yes, and nothing disables the line again.            *)
LineOn == /\ al \in BOOLEAN /\ a20 \in BOOLEAN
          /\ pc = "A20_Return" /\ al => a20
          /\ pc = "Multiboot_Boot" => a20

BootInv == Carried /\ Chosen /\ LineOn

(* The first active partition is one of the table's, never the sector of   *)
(* the master boot record.                                                 *)
LEMMA FirstIsPartition ==
  ASSUME table \subseteq Partitions, table # {}
  PROVE  First \in table /\ First # MBRSector
<1>. DEFINE R == OpToRel(<, Nat)
<1>0. table \subseteq Nat /\ 0 \notin table
  BY DEF Partitions
<1>1. IsWellFoundedOn(R, Nat)
  BY NatLessThanWellFounded
<1>2. \A x, y \in Nat : y < x => <<y, x>> \in R
  BY DEF OpToRel
<1>. HIDE DEF R
<1>3. PICK x \in table : \A y \in table : ~ (<<y, x>> \in R)
  BY <1>0, <1>1, WFMin
<1>4. \A y \in table : x <= y
  <2>. TAKE y \in table
  <2>1. x \in Nat /\ y \in Nat /\ ~(y < x)
    BY <1>0, <1>2, <1>3
  <2>. QED  BY <2>1
<1>5. First \in table
  BY <1>3, <1>4 DEF First
<1>. QED  BY <1>0, <1>5 DEF MBRSector

(* Pushing a fourth value.                                                 *)
LEMMA Push ==
  ASSUME NEW a, NEW b, NEW c, NEW d
  PROVE  Append(<<a, b, c>>, d) = <<a, b, c, d>>
<1>. DEFINE s == Append(<<a, b, c>>, d)
            t == <<a, b, c, d>>
            S == {a, b, c, d}
<1>1. <<a, b, c>> \in Seq(S) /\ d \in S /\ Len(<<a, b, c>>) = 3
  OBVIOUS
<1>2. s \in Seq(S) /\ Len(s) = 4 /\ s[1] = a /\ s[2] = b /\ s[3] = c /\ s[4] = d
  BY <1>1, AppendProperties
<1>3. t \in Seq(S) /\ Len(t) = 4 /\ t[1] = a /\ t[2] = b /\ t[3] = c /\ t[4] = d
  OBVIOUS
<1>. HIDE DEF s, t
<1>4. \A i \in 1 .. Len(s) : s[i] = t[i]
  BY <1>2, <1>3
<1>5. s = t
  BY <1>2, <1>3, <1>4, SeqEqual
<1>. QED  BY <1>5 DEF s, t

(* The registers as the BIOS sets them satisfy the invariant.              *)
LEMMA BootInit == Init => BootInv
BY DEF Init, A20Init, BootInv, Carried, Chosen, LineOn, FirstActiveLaunched, Executed, Loaded, Reading, Enabling,
       VBR_DAP, KernelInfo

(* The master boot record saves registers and looks for a partition.       *)
LEMMA MBRStep ==
  ASSUME BootInv, MBR \/ GetActivePartition
  PROVE  BootInv'
<1>. USE DEF BootInv, Chosen, LineOn, FirstActiveLaunched, Executed, Loaded, Reading, Enabling, disk, a20vars
<1>1. CASE MBR
  <2>1. Carried'
    <3>1. First' = First /\ pc = "MBR" /\ pc' = "GetActivePartition" /\ UNCHANGED <<given, dap>>
      BY <1>1 DEF MBR, First
    <3>2. stack' = <<Drive, given.es, given.di>>
      BY <1>1, <3>1 DEF MBR, Carried
    <3>. QED  BY <3>1, <3>2 DEF Carried
  <2>. QED  BY <1>1, <2>1 DEF MBR, First
<1>2. CASE GetActivePartition
  <2>1. First' = First /\ pc' \in Reading /\ given' = given
    BY <1>2 DEF GetActivePartition, First
  <2>2. stack' = <<Drive, given.es, given.di, First>> /\ dap'.start = First
    <3>1. stack' = Append(stack, First) /\ stack = <<Drive, given.es, given.di>>
      BY <1>2 DEF GetActivePartition, Carried
    <3>2. dap' = [dap EXCEPT !.start = First] /\ dap = VBR_DAP
      BY <1>2 DEF GetActivePartition, Carried
    <3>. QED  BY <3>1, <3>2, Push DEF VBR_DAP
  <2>3. Carried'
    BY <2>1, <2>2 DEF Carried
  <2>. QED  BY <1>2, <2>1, <2>3 DEF GetActivePartition
<1>. QED  BY <1>1, <1>2

(* Reading the boot sector: only a read that succeeds is followed by the   *)
(* check.                                                                  *)
LEMMA ReadStep ==
  ASSUME BootInv, DiskReadUsingLBA \/ DiskReadUsingCHS
  PROVE  BootInv'
<1>. USE DEF BootInv, Chosen, LineOn, FirstActiveLaunched, Executed, Loaded, Reading, Enabling, disk, a20vars
<1>1. /\ First' = First /\ pc \in Reading /\ UNCHANGED <<disk, al, a20, regs, stack, dap>>
      /\ pc' \in {"CheckVBR", "DiskReadUsingCHS", "Halt"}
      /\ pc' = "CheckVBR" => boot_sector' = First
  <2>1. CASE DiskReadUsingLBA
    BY <2>1 DEF DiskReadUsingLBA, ReadVBR, AfterLBA, Carried, First
  <2>2. CASE DiskReadUsingCHS
    BY <2>2 DEF DiskReadUsingCHS, ReadVBR, AfterCHS, Carried, First
  <2>. QED  BY <2>1, <2>2
<1>2. Carried'
  BY <1>1 DEF Carried
<1>. QED  BY <1>1, <1>2

(* The boot sector, the boot loader and the call of Multiboot_Boot.        *)
LEMMA LaunchStep ==
  ASSUME BootInv, LaunchVBR \/ VBR \/ DiskRead \/ LaunchBootloader \/ BOOT \/ EnablePMode \/ Multiboot_Boot
  PROVE  BootInv'
<1>. USE DEF BootInv, LineOn, Executed, Loaded, Reading, Enabling, disk, a20vars, bootvars
<1>1. CASE LaunchVBR
  <2>1. First' = First /\ given' = given /\ pc = "CheckVBR" /\ pc' = "VBR" /\ boot_sector' = First /\ signed' = signed
    BY <1>1 DEF LaunchVBR, First, Chosen
  <2>2. regs' = Registers
    BY <1>1, <2>1 DEF LaunchVBR, Carried, Registers
  <2>3. Carried'
    BY <2>1, <2>2 DEF Carried, Registers
  <2>4. First \in signed
    BY <1>1, <2>1, FirstIsPartition DEF LaunchVBR, Signature, Chosen
  <2>. QED  BY <1>1, <2>1, <2>3, <2>4 DEF LaunchVBR, Chosen, FirstActiveLaunched
<1>2. CASE VBR
  <2>1. First' = First /\ given' = given /\ pc = "VBR" /\ pc' = "ReadLoop" /\ regs = Registers
    BY <1>2 DEF VBR, First, Carried
  <2>2. stack' = <<Drive, given.es, given.di, 0, First>>
    BY <1>2, <2>1 DEF VBR, Registers
  <2>3. Carried'
    BY <2>1, <2>2 DEF Carried
  <2>. QED  BY <1>2, <2>1, <2>3 DEF VBR, Chosen, FirstActiveLaunched
<1>3. CASE DiskRead
  <2>1. First' = First /\ pc = "ReadLoop" /\ UNCHANGED <<pc, a20vars, disk, stack, boot_sector>>
    BY <1>3 DEF DiskRead, First
  <2>2. Carried'
    BY <2>1 DEF Carried
  <2>. QED  BY <2>1, <2>2 DEF Chosen, FirstActiveLaunched
<1>4. CASE LaunchBootloader
  <2>1. First' = First /\ given' = given /\ pc = "ReadLoop" /\ pc' = "BOOT"
    BY <1>4 DEF LaunchBootloader, First
  <2>2. regs' = Registers
    BY <1>4 DEF LaunchBootloader, Carried, Popped, Registers
  <2>3. Carried'
    BY <2>1, <2>2 DEF Carried, Registers
  <2>. QED  BY <1>4, <2>1, <2>3 DEF LaunchBootloader, Chosen, FirstActiveLaunched
<1>5. CASE BOOT
  <2>1. First' = First /\ given' = given /\ pc = "BOOT" /\ pc' = "A20_Enable" /\ regs = Registers /\ regs' = regs
    BY <1>5 DEF BOOT, First, Carried
  <2>2. info' = KernelInfo(0)
    BY <1>5, <2>1 DEF BOOT, KernelInfo, Registers
  <2>3. Carried'
    BY <2>1, <2>2 DEF Carried, Registers, KernelInfo
  <2>. QED  BY <1>5, <2>1, <2>3 DEF BOOT, Chosen, FirstActiveLaunched
<1>6. CASE EnablePMode
  <2>1. First' = First /\ given' = given /\ pc = "A20_Return" /\ pc' = "Multiboot_Boot"
    BY <1>6 DEF EnablePMode, First
  <2>2. info' = KernelInfo(Drive)
    BY <1>6 DEF EnablePMode, Carried, KernelInfo, Registers
  <2>3. Carried'
    BY <2>1, <2>2 DEF Carried, KernelInfo
  <2>. QED  BY <1>6, <2>1, <2>3 DEF EnablePMode, Chosen, FirstActiveLaunched
<1>7. CASE Multiboot_Boot
  <2>1. First' = First /\ pc' \in {"Kernel", "Halt"} /\ pc = "Multiboot_Boot"
        /\ UNCHANGED <<disk, al, a20, boot_sector>>
    BY <1>7 DEF Multiboot_Boot, First
  <2>2. Carried'
    BY <2>1 DEF Carried
  <2>. QED  BY <2>1, <2>2 DEF Chosen, FirstActiveLaunched
<1>. QED  BY <1>1, <1>2, <1>3, <1>4, <1>5, <1>6, <1>7

(* Every error path ends the boot without executing anything.              *)
LEMMA HaltStep ==
  ASSUME BootInv, NEW from, Halt(from)
  PROVE  BootInv'
<1>1. First' = First /\ pc' = "Halt" /\ UNCHANGED disk
  BY DEF Halt, First, disk
<1>2. al' = al /\ a20' = a20
  BY DEF Halt, a20vars
<1>. QED
  BY <1>1, <1>2 DEF BootInv, Carried, Chosen, LineOn, FirstActiveLaunched, Executed, Loaded, Reading, Enabling, disk

(* Enabling the A20 line, with the controller and the keyboard at work at  *)
(* the same time, touches none of what is carried; the line, once on,      *)
(* stays on.                                                               *)
LEMMA A20Inv ==
  ASSUME BootInv, A20Step \/ Controller \/ KeyPressed \/ KeyboardInterrupt, UNCHANGED <<disk, bootvars>>
  PROVE  BootInv'
<1>1. First' = First
  BY DEF First, disk
<1>2. \/ pc' = pc
      \/ pc \in Enabling /\ pc' \in Enabling \cup {"A20_Return"}
  <2>1. ASSUME A20Step PROVE pc \in Enabling /\ pc' \in Enabling \cup {"A20_Return"}
    BY <2>1 DEF A20Step, Check, A20_EnableWithBIOS, A20_EnableWithFastGate, Try, PS2Write, PS2Read,
                PS2Advance, Enabling
  <2>. QED  BY <2>1 DEF Controller, KeyPressed, KeyboardInterrupt
<1>3. Carried'
  BY <1>1, <1>2 DEF BootInv, Carried, Enabling, Reading, Registers, KernelInfo, disk, bootvars
<1>4. Chosen'
  BY <1>1, <1>2 DEF BootInv, Chosen, FirstActiveLaunched, Executed, Loaded, Enabling, Reading, disk, bootvars
<1>5. LineOn'
  <2>1. ASSUME Controller \/ KeyPressed \/ KeyboardInterrupt PROVE LineOn'
    <3>1. pc' = pc /\ al' = al /\ a20' \in {a20, TRUE}
      BY <2>1 DEF Controller, KeyPressed, KeyboardInterrupt
    <3>. QED  BY <3>1 DEF BootInv, LineOn
  <2>2. ASSUME A20Step PROVE LineOn'
    <3>1. CASE \E from, else \in Enabling \cup {"A20_Return"} : Check(from, else)
      <4>1. PICK from, else \in Enabling \cup {"A20_Return"} : Check(from, else)
        BY <3>1
      <4>2. al' = A20_IsEnabled /\ a20' = a20 /\ pc' # "Multiboot_Boot"
        BY <4>1 DEF Check, Enabling
      <4>3. A20_IsEnabled \in BOOLEAN /\ (A20_IsEnabled => a20)
        BY DEF A20_IsEnabled
      <4>. QED  BY <4>2, <4>3 DEF BootInv, LineOn
    <3>2. CASE A20_EnableWithBIOS \/ A20_EnableWithFastGate \/ PS2Write \/ PS2Read
      BY <3>2 DEF A20_EnableWithBIOS, A20_EnableWithFastGate, Try, PS2Write, PS2Read, PS2Advance, BootInv, LineOn
    <3>. QED  BY <2>2, <3>1, <3>2 DEF A20Step, Enabling
  <2>. QED  BY <2>1, <2>2
<1>. QED  BY <1>3, <1>4, <1>5 DEF BootInv

(* Every step of the boot stages keeps the invariant.                      *)
LEMMA BootNext == BootInv /\ [Next]_vars => BootInv'
<1>. SUFFICES ASSUME BootInv, [Next]_vars PROVE BootInv'
  OBVIOUS
<1>1. CASE UNCHANGED vars
  <2>1. First' = First /\ UNCHANGED <<pc, al, a20, disk, regs, stack, boot_sector, dap, info>>
    BY <1>1 DEF vars, disk, bootvars, a20vars, First
  <2>. QED
    BY <2>1 DEF BootInv, Carried, Chosen, LineOn, FirstActiveLaunched, Registers, KernelInfo, disk
<1>2. CASE Environment
  BY <1>2, A20Inv DEF Environment
<1>3. CASE CPUStep
  <2>1. CASE NoActivePartition \/ InvalidVBR \/ UnknownDisk \/ Overrun \/ DiskReadFails \/ A20EnableErr
    BY <2>1, HaltStep DEF NoActivePartition, InvalidVBR, UnknownDisk, Overrun, DiskReadFails, A20EnableErr
  <2>2. CASE A20Step /\ UNCHANGED <<disk, bootvars>>
    BY <2>2, A20Inv
  <2>. QED  BY <1>3, <2>1, <2>2, MBRStep, ReadStep, LaunchStep DEF CPUStep
<1>. QED  BY <1>1, <1>2, <1>3 DEF Next

(* What the boot stages carry along is where the next stage looks for it,  *)
(* whatever the BIOS answers and however the keyboard interferes.          *)
THEOREM BootInvariance == Spec => []BootInv
BY BootInit, BootNext, PTL DEF Spec

(* The boot sector that is executed is the signed one of the first active  *)
(* partition (mbr.asm, LoadVBR to LaunchVBR).                              *)
THEOREM LaunchesFirstActive == Spec => []FirstActiveLaunched
<1>1. BootInv => FirstActiveLaunched
  BY DEF BootInv, Chosen
<1>. QED  BY <1>1, BootInvariance, PTL

(* Multiboot_Boot is called with the A20 line on, the boot drive and the   *)
(* block list; with the partition's entry and the PnP structure where the  *)
(* BIOS passed a zero ES (bootloader.asm).                                 *)
THEOREM HandsOver == Spec => []HandedOver
<1>1. BootInv => HandedOver
  <2>. SUFFICES ASSUME BootInv, pc = "Multiboot_Boot"
                PROVE  /\ a20
                       /\ info.drive = Drive
                       /\ info.blocklist = BOOTLOADER_ADDRESS
                       /\ given.es = 0 => info.partition = First /\ info.pnpbios = given.di
    BY DEF HandedOver
  <2>1. info = KernelInfo(Drive) /\ a20
    BY DEF BootInv, Carried, LineOn
  <2>2. First \in Nat
    <3>1. table \subseteq Partitions /\ table # {}
      BY DEF BootInv, Chosen, Executed, Loaded
    <3>2. First \in table
      BY <3>1, FirstIsPartition
    <3>. QED  BY <3>1, <3>2 DEF Partitions
  <2>3. P \in Nat
    BY BootAssumption
  <2>. QED  BY <2>1, <2>2, <2>3 DEF KernelInfo
<1>. QED  BY <1>1, BootInvariance, PTL

-----------------------------------------------------------------------------
(* The boot loader's sectors.                                              *)

(* Induction up to n, over a set of numbers.                               *)
LEMMA InductionTo ==
  ASSUME NEW n \in Nat, NEW S \in SUBSET Nat, 0 \in S, \A k \in S : k < n => k + 1 \in S
  PROVE  0 .. n \subseteq S
<1>1. SUFFICES ASSUME (0 .. n) \ S # {} PROVE FALSE
  OBVIOUS
<1>. DEFINE R == OpToRel(<, Nat)
            T == (0 .. n) \ S
<1>2. IsWellFoundedOn(R, Nat)
  BY NatLessThanWellFounded
<1>3. \A x, y \in Nat : y < x => <<y, x>> \in R
  BY DEF OpToRel
<1>4. T \subseteq Nat /\ T # {}
  BY <1>1
<1>5. 0 \notin T /\ \A k \in Nat : k < n /\ k + 1 \in T => k \in T
  OBVIOUS
<1>6. \A k \in T : k <= n
  OBVIOUS
<1>. HIDE DEF R, T
<1>7. PICK x \in T : \A y \in T : ~ (<<y, x>> \in R)
  BY <1>2, <1>4, WFMin
<1>8. x \in Nat /\ x # 0 /\ x <= n
  BY <1>4, <1>5, <1>6, <1>7
<1>9. x - 1 \in Nat /\ x - 1 < n /\ (x - 1) + 1 = x /\ x - 1 < x
  BY <1>8
<1>10. x - 1 \in T
  BY <1>5, <1>7, <1>9
<1>. QED  BY <1>3, <1>7, <1>8, <1>9, <1>10

Counts == [1 .. Slots -> Nat]

(* The sums are what they are meant to be.                                 *)
LEMMA SumsDef ==
  ASSUME NEW n \in Counts
  PROVE  /\ Sums(n) \in [1 .. Slots + 1 -> Nat]
         /\ Sums(n)[1] = 0
         /\ \A k \in 1 .. Slots : Sums(n)[k + 1] = Sums(n)[k] + n[k]
<1>0. Slots \in Nat \ {0}
  BY BootAssumption
<1>. DEFINE Sum(f, m) == f[1] = 0 /\ \A k \in 1 .. m : f[k + 1] = f[k] + n[k]
            S == {m \in Nat : m <= Slots => \E f \in [1 .. m + 1 -> Nat] : Sum(f, m)}
<1>1. 0 \in S
  <2>1. [k \in 1 .. 0 + 1 |-> 0] \in [1 .. 0 + 1 -> Nat] /\ Sum([k \in 1 .. 0 + 1 |-> 0], 0)
    OBVIOUS
  <2>. QED  BY <2>1
<1>2. ASSUME NEW m \in S, m < Slots PROVE m + 1 \in S
  <2>1. PICK f \in [1 .. m + 1 -> Nat] : Sum(f, m)
    BY <1>0, <1>2
  <2>. DEFINE g == [k \in 1 .. (m + 1) + 1 |-> IF k = m + 2 THEN f[m + 1] + n[m + 1] ELSE f[k]]
  <2>2. m + 1 \in 1 .. Slots /\ m + 1 \in 1 .. m + 1
    BY <1>0, <1>2
  <2>3. f[m + 1] + n[m + 1] \in Nat
    BY <2>2 DEF Counts
  <2>4. \A k \in 1 .. (m + 1) + 1 : k # m + 2 => k \in 1 .. m + 1
    OBVIOUS
  <2>5. g \in [1 .. (m + 1) + 1 -> Nat]
    BY <2>3, <2>4
  <2>6. g[1] = 0
    BY <2>1
  <2>7. ASSUME NEW k \in 1 .. m + 1 PROVE g[k + 1] = g[k] + n[k]
    <3>1. g[k] = f[k] /\ k \in 1 .. m + 1
      OBVIOUS
    <3>2. CASE k = m + 1
      BY <3>1, <3>2
    <3>3. CASE k # m + 1
      <4>1. k \in 1 .. m /\ k + 1 # m + 2 /\ k + 1 \in 1 .. (m + 1) + 1
        BY <3>3
      <4>. QED  BY <2>1, <3>1, <4>1
    <3>. QED  BY <3>2, <3>3
  <2>. HIDE DEF g
  <2>8. Sum(g, m + 1)
    BY <2>6, <2>7
  <2>. HIDE DEF Sum
  <2>. QED  BY <2>5, <2>8
<1>3. Slots \in S
  <2>. HIDE DEF S
  <2>1. S \in SUBSET Nat
    BY DEF S
  <2>2. 0 .. Slots \subseteq S
    BY <1>0, <1>1, <1>2, <2>1, InductionTo
  <2>. QED  BY <1>0, <2>2
<1>4. PICK f \in [1 .. Slots + 1 -> Nat] : Sum(f, Slots)
  BY <1>0, <1>3
<1>. DEFINE F(g) == [k \in 1 .. Slots + 1 |-> IF k = 1 THEN 0 ELSE g[k - 1] + n[k - 1]]
<1>5. f = F(f)
  <2>1. \A k \in 1 .. Slots + 1 : k # 1 => k - 1 \in 1 .. Slots /\ (k - 1) + 1 = k
    BY <1>0
  <2>2. \A k \in 1 .. Slots + 1 : f[k] = F(f)[k]
    BY <1>4, <2>1
  <2>. QED  BY <2>2
<1>6. Sums(n) = F(Sums(n))
  <2>1. Sums(n) = CHOOSE g : g = F(g)
    BY DEF Sums
  <2>. HIDE DEF F
  <2>. QED  BY <1>5, <2>1
<1>. DEFINE s == Sums(n)
<1>. HIDE DEF s
<1>7. s = F(s)
  BY <1>6 DEF s
<1>8. s[1] = 0 /\ \A k \in 1 .. Slots : s[k + 1] = s[k] + n[k]
  <2>1. 1 \in 1 .. Slots + 1
    BY <1>0
  <2>2. s[1] = F(s)[1] /\ F(s)[1] = 0
    BY <1>7, <2>1
  <2>3. ASSUME NEW k \in 1 .. Slots PROVE s[k + 1] = s[k] + n[k]
    <3>1. k + 1 \in 1 .. Slots + 1 /\ k + 1 # 1 /\ (k + 1) - 1 = k
      BY <1>0
    <3>2. s[k + 1] = F(s)[k + 1]
      BY <1>7, <3>1
    <3>. QED  BY <3>1, <3>2
  <2>. QED  BY <2>2, <2>3
<1>9. ASSUME NEW k \in 1 .. Slots + 1 PROVE s[k] \in Nat
  <2>. DEFINE T == {m \in Nat : m <= Slots => s[m + 1] \in Nat}
  <2>1. 0 \in T
    BY <1>8
  <2>2. ASSUME NEW m \in T, m < Slots PROVE m + 1 \in T
    <3>1. m + 1 \in 1 .. Slots /\ s[m + 1] \in Nat /\ n[m + 1] \in Nat
      BY <1>0, <2>2 DEF Counts
    <3>. QED  BY <1>8, <3>1
  <2>3. 0 .. Slots \subseteq T
    <3>. HIDE DEF T
    <3>1. T \in SUBSET Nat
      BY DEF T
    <3>. QED  BY <1>0, <2>1, <2>2, <3>1, InductionTo
  <2>4. k - 1 \in 0 .. Slots /\ (k - 1) + 1 = k
    BY <1>0
  <2>5. k - 1 \in T
    BY <2>3, <2>4
  <2>. QED  BY <2>4, <2>5
<1>10. s \in [1 .. Slots + 1 -> Nat]
  BY <1>7, <1>9
<1>. QED  BY <1>8, <1>10 DEF s

(* Adding to one number adds as much to the sum.                           *)
LEMMA SumsGrow ==
  ASSUME NEW n \in Counts, NEW m \in Counts, NEW d \in 1 .. Slots, NEW c \in Nat,
         m[d] = n[d] + c, \A k \in 1 .. Slots : k # d => m[k] = n[k]
  PROVE  Sums(m)[Slots + 1] = Sums(n)[Slots + 1] + c
<1>0. Slots \in Nat \ {0}
  BY BootAssumption
<1>. DEFINE s == Sums(n)
            t == Sums(m)
<1>1. /\ s \in [1 .. Slots + 1 -> Nat] /\ s[1] = 0 /\ \A k \in 1 .. Slots : s[k + 1] = s[k] + n[k]
      /\ t \in [1 .. Slots + 1 -> Nat] /\ t[1] = 0 /\ \A k \in 1 .. Slots : t[k + 1] = t[k] + m[k]
  BY SumsDef
<1>. HIDE DEF s, t
<1>. DEFINE T == {k \in Nat : k <= Slots => t[k + 1] = s[k + 1] + IF d <= k THEN c ELSE 0}
<1>2. 0 \in T
  BY <1>0, <1>1
<1>3. ASSUME NEW k \in T, k < Slots PROVE k + 1 \in T
  <2>1. k + 1 \in 1 .. Slots /\ k + 1 \in 1 .. Slots + 1
    BY <1>0, <1>3
  <2>2. s[k + 1] \in Nat /\ t[k + 1] \in Nat /\ n[k + 1] \in Nat /\ m[k + 1] \in Nat
    BY <1>1, <2>1 DEF Counts
  <2>3. t[k + 1] = s[k + 1] + IF d <= k THEN c ELSE 0
    BY <1>0, <1>3
  <2>4. s[k + 1 + 1] = s[k + 1] + n[k + 1] /\ t[k + 1 + 1] = t[k + 1] + m[k + 1]
    BY <1>1, <2>1
  <2>5. CASE k + 1 = d
    BY <2>2, <2>3, <2>4, <2>5
  <2>6. CASE k + 1 # d
    <3>1. m[k + 1] = n[k + 1] /\ (d <= k + 1 <=> d <= k)
      BY <2>1, <2>6
    <3>. QED  BY <2>2, <2>3, <2>4, <3>1
  <2>. QED  BY <2>5, <2>6
<1>4. Slots \in T
  <2>. HIDE DEF T
  <2>1. T \in SUBSET Nat
    BY DEF T
  <2>2. 0 .. Slots \subseteq T
    BY <1>0, <1>2, <1>3, <2>1, InductionTo
  <2>. QED  BY <1>0, <2>2
<1>5. t[Slots + 1] = s[Slots + 1] + c
  BY <1>0, <1>4
<1>. QED  BY <1>5 DEF s, t

(* Larger numbers have a larger sum.                                       *)
LEMMA SumsOrder ==
  ASSUME NEW n \in Counts, NEW m \in Counts, \A k \in 1 .. Slots : n[k] <= m[k]
  PROVE  Sums(n)[Slots + 1] <= Sums(m)[Slots + 1]
<1>0. Slots \in Nat \ {0}
  BY BootAssumption
<1>. DEFINE s == Sums(n)
            t == Sums(m)
<1>1. /\ s \in [1 .. Slots + 1 -> Nat] /\ s[1] = 0 /\ \A k \in 1 .. Slots : s[k + 1] = s[k] + n[k]
      /\ t \in [1 .. Slots + 1 -> Nat] /\ t[1] = 0 /\ \A k \in 1 .. Slots : t[k + 1] = t[k] + m[k]
  BY SumsDef
<1>. HIDE DEF s, t
<1>. DEFINE T == {k \in Nat : k <= Slots => s[k + 1] <= t[k + 1]}
<1>2. 0 \in T
  BY <1>0, <1>1
<1>3. ASSUME NEW k \in T, k < Slots PROVE k + 1 \in T
  <2>1. k + 1 \in 1 .. Slots /\ k + 1 \in 1 .. Slots + 1
    BY <1>0, <1>3
  <2>2. s[k + 1] \in Nat /\ t[k + 1] \in Nat /\ n[k + 1] \in Nat /\ m[k + 1] \in Nat
    BY <1>1, <2>1 DEF Counts
  <2>3. s[k + 1] <= t[k + 1] /\ n[k + 1] <= m[k + 1]
    BY <1>0, <1>3, <2>1
  <2>4. s[k + 1 + 1] = s[k + 1] + n[k + 1] /\ t[k + 1 + 1] = t[k + 1] + m[k + 1]
    BY <1>1, <2>1
  <2>. QED  BY <2>2, <2>3, <2>4
<1>4. Slots \in T
  <2>. HIDE DEF T
  <2>1. T \in SUBSET Nat
    BY DEF T
  <2>2. 0 .. Slots \subseteq T
    BY <1>0, <1>2, <1>3, <2>1, InductionTo
  <2>. QED  BY <1>0, <2>2
<1>5. s[Slots + 1] <= t[Slots + 1]
  BY <1>0, <1>4
<1>. QED  BY <1>5 DEF s, t

(* A sum of zeros.                                                         *)
LEMMA SumsZero ==
  ASSUME NEW n \in Counts, \A k \in 1 .. Slots : n[k] = 0
  PROVE  Sums(n)[Slots + 1] = 0
<1>0. Slots \in Nat \ {0}
  BY BootAssumption
<1>. DEFINE s == Sums(n)
<1>1. s[1] = 0 /\ \A k \in 1 .. Slots : s[k + 1] = s[k] + n[k]
  BY SumsDef
<1>. HIDE DEF s
<1>. DEFINE T == {k \in Nat : k <= Slots => s[k + 1] = 0}
<1>2. 0 \in T
  BY <1>1
<1>3. ASSUME NEW k \in T, k < Slots PROVE k + 1 \in T
  <2>1. k + 1 \in 1 .. Slots /\ s[k + 1] = 0
    BY <1>0, <1>3
  <2>2. s[k + 1 + 1] = 0 + 0
    BY <1>1, <2>1
  <2>. QED  BY <2>2
<1>4. Slots \in T
  <2>. HIDE DEF T
  <2>1. T \in SUBSET Nat
    BY DEF T
  <2>2. 0 .. Slots \subseteq T
    BY <1>0, <1>2, <1>3, <2>1, InductionTo
  <2>. QED  BY <1>0, <2>2
<1>5. s[Slots + 1] = 0
  BY <1>0, <1>4
<1>. QED  BY <1>5 DEF s

(* Quotient and remainder.                                                 *)
LEMMA Division ==
  ASSUME NEW e \in Nat, NEW a \in Nat, NEW b \in Nat \ {0}, NEW c \in 0 .. b - 1, e = a * b + c
  PROVE  e \div b = a /\ e % b = c
<1>. DEFINE d == e \div b
            r == e % b
<1>1. d \in Int /\ r \in 0 .. b - 1 /\ e = d * b + r
  OBVIOUS
<1>. HIDE DEF d, r
<1>2. (a - d) * b = r - c
  BY <1>1
<1>3. CASE a > d
  <2>1. (a - d) * b >= b
    BY <1>1, <1>3
  <2>. QED  BY <1>1, <1>2, <2>1
<1>4. CASE a < d
  <2>1. (a - d) * b <= 0 - b
    BY <1>1, <1>4
  <2>. QED  BY <1>1, <1>2, <2>1
<1>. QED  BY <1>1, <1>2, <1>3, <1>4 DEF d, r

(* How a segment becomes an address twice: with B a multiple of P * P, the *)
(* second time it is a multiple of the word size and drops out.            *)
LEMMA NextIsStraight ==
  ASSUME NEW m \in Nat, NEW offset \in 0 .. B - 1, NEW n \in Nat,
         m * B + offset + n < B * P
  PROVE  LET segment == m * (B \div P)
             eax == segment * P + (segment * B + offset) + n
             k == m + (offset + n) \div B
         IN  /\ k \in 0 .. P - 1
             /\ NextSegment(eax) = k * (B \div P)
             /\ eax % B \in 0 .. B - 1
             /\ k * B + (eax % B) = m * B + offset + n
<1>. DEFINE segment == m * (B \div P)
            x == offset + n
            q == x \div B
            r == x % B
            eax == segment * P + (segment * B + offset) + n
            k == m + q
<1>1. B \in Nat \ {0} /\ P \in Nat \ {0} /\ B % (P * P) = 0
  BY BootAssumption
<1>2. PICK z \in Nat : B = (P * P) * z
  <2>1. P * P \in Nat \ {0}
    BY <1>1
  <2>2. \A a \in Nat, b \in Nat \ {0} : a % b = 0 => a = b * (a \div b) /\ a \div b \in Nat
    OBVIOUS
  <2>. QED  BY <1>1, <2>1, <2>2
<1>3. B \div P = P * z /\ (P * z) * P = B
  <2>1. B = P * (P * z) /\ P * z \in Nat
    BY <1>1, <1>2
  <2>2. \A a \in Nat \ {0}, b \in Nat : (a * b) \div a = b
    OBVIOUS
  <2>. QED  BY <1>1, <2>1, <2>2
<1>4. x \in Nat /\ q \in Nat /\ r \in 0 .. B - 1 /\ x = q * B + r
  BY <1>1
<1>. DEFINE Q == P * z
<1>5. Q \in Nat /\ Q * P = B /\ Q * Q = B * z /\ segment = m * Q
  <2>1. Q * Q = (Q * P) * z
    BY <1>1
  <2>. QED  BY <1>1, <1>3, <2>1
<1>. HIDE DEF Q, q, r, x
<1>6. eax = (k + m * Q) * B + r
  <2>1. segment * P = m * B
    BY <1>1, <1>5
  <2>2. segment * B = (m * Q) * B
    BY <1>5
  <2>3. eax = m * B + (m * Q) * B + x
    <3>. DEFINE u == m * B
                v == (m * Q) * B
    <3>1. u \in Int /\ v \in Int /\ offset \in Int /\ n \in Int
      BY <1>1, <1>5
    <3>2. eax = u + (v + offset) + n
      BY <2>1, <2>2
    <3>. HIDE DEF u, v, eax
    <3>3. eax = u + v + (offset + n)
      BY <3>1, <3>2
    <3>. QED  BY <3>3 DEF u, v, x
  <2>4. (k + m * Q) * B = m * B + q * B + (m * Q) * B
    BY <1>1, <1>4, <1>5
  <2>. QED  BY <1>1, <1>4, <1>5, <2>3, <2>4
<1>7. k + m * Q \in Nat /\ k \in Nat
  BY <1>4, <1>5
<1>. HIDE DEF eax
<1>8. eax \div B = k + m * Q /\ eax % B = r
  <2>. DEFINE v == k + m * Q
  <2>1. v \in Nat /\ eax = v * B + r
    BY <1>6, <1>7
  <2>. HIDE DEF v
  <2>2. eax \in Nat
    BY <1>1, <1>4, <2>1
  <2>3. eax \div B = v /\ eax % B = r
    BY <1>1, <1>4, <2>1, <2>2, Division
  <2>. QED  BY <2>3 DEF v
<1>9. k * B + r = m * B + offset + n
  <2>1. k * B = m * B + q * B
    BY <1>1, <1>4
  <2>. QED  BY <1>1, <1>4, <2>1 DEF x
<1>10. k < P
  <2>1. k * B < P * B
    BY <1>1, <1>4, <1>7, <1>9
  <2>2. \A a, b \in Nat : a * B < b * B => a < b
    <3>. SUFFICES ASSUME NEW a \in Nat, NEW b \in Nat, a >= b PROVE a * B >= b * B
      BY <1>1
    <3>1. (a - b) * B >= 0
      BY <1>1
    <3>. QED  BY <1>1, <3>1
  <2>. QED  BY <1>1, <1>7, <2>1, <2>2
<1>11. NextSegment(eax) = k * Q
  <2>1. NextSegment(eax) = ((k + m * Q) * Q) % B
    BY <1>3, <1>8 DEF NextSegment, Q
  <2>2. (k + m * Q) * Q = (m * z) * B + k * Q
    <3>1. (k + m * Q) * Q = k * Q + m * (Q * Q)
      BY <1>5, <1>7
    <3>2. m * (B * z) = (m * z) * B
      BY <1>1
    <3>3. (k + m * Q) * Q = k * Q + (m * z) * B
      BY <1>5, <3>1, <3>2
    <3>4. k * Q \in Int /\ (m * z) * B \in Int
      BY <1>1, <1>5, <1>7
    <3>. QED  BY <3>3, <3>4
  <2>3. k * Q \in 0 .. B - 1
    <3>1. k * Q \in Nat /\ (P - k) * Q \in Nat
      BY <1>1, <1>5, <1>7, <1>10
    <3>2. (P - k) * Q = P * Q - k * Q
      BY <1>1, <1>5, <1>7
    <3>3. Q # 0
      BY <1>1, <1>5
    <3>4. (P - k) * Q # 0
      BY <1>1, <1>5, <1>7, <1>10, <3>3
    <3>. QED  BY <1>1, <1>5, <3>1, <3>2, <3>4
  <2>4. m * z \in Nat
    OBVIOUS
  <2>. DEFINE u == k * Q
              v == m * z
              w == (k + m * Q) * Q
  <2>5. u \in 0 .. B - 1 /\ v \in Nat /\ NextSegment(eax) = w % B /\ w = v * B + u /\ w \in Nat
    BY <1>5, <1>7, <2>1, <2>2, <2>3, <2>4
  <2>. HIDE DEF u, v, w
  <2>6. NextSegment(eax) = u
    BY <1>1, <2>5, Division
  <2>. QED  BY <2>6 DEF u
<1>12. k \in 0 .. P - 1 /\ eax % B \in 0 .. B - 1 /\ k * B + (eax % B) = m * B + offset + n
  <2>1. k \in 0 .. P - 1
    <3>. HIDE DEF k
    <3>. QED  BY <1>1, <1>7, <1>10
  <2>2. eax % B = r /\ r \in 0 .. B - 1
    BY <1>4, <1>8
  <2>. HIDE DEF k
  <2>. QED  BY <1>9, <2>1, <2>2, Zenon
<1>13. NextSegment(eax) = k * (B \div P)
  BY <1>3, <1>11 DEF Q
<1>. QED  BY <1>12, <1>13 DEF eax, x, q

Entries == [lba : Nat, num_sectors : Nat]
Early == {"MBR", "GetActivePartition", "CheckVBR", "VBR"} \cup Reading

Untouched == blocks = listed /\ DOMAIN memory = {}
Fetched == [k \in 1 .. Slots |-> listed[k].num_sectors - blocks[k].num_sectors]
Filled == {BOOTLOADER_ADDRESS + j * Sector_Size : j \in 0 .. Read - 1}

(* The packet's segment is a multiple of the one that stands for a word's  *)
(* worth of bytes, and its address is where the next sector belongs.       *)
Straight == \E m \in 0 .. P - 1 :
                /\ dap.segment = m * (B \div P) /\ dap.offset \in 0 .. B - 1
                /\ m * B + dap.offset = BOOTLOADER_ADDRESS + Read * Sector_Size

Shipped == listed[1].num_sectors <= MaxRead /\ (Slots > 1 => listed[2].num_sectors = 0)
InPlace == \A j \in 0 .. listed[1].num_sectors - 1 :
               memory[BOOTLOADER_ADDRESS + j * Sector_Size] = listed[1].lba + j

(* The block list in memory is the one on disk, less what has been read.   *)
ListInv ==
    /\ listed \in [1 .. Slots -> Entries] /\ blocks \in [1 .. Slots -> Entries]
    /\ \A k \in 1 .. Slots : blocks[k].num_sectors <= listed[k].num_sectors

PacketInv ==
    /\ pc \in Early => Untouched
    /\ pc = "VBR" => dap = VBR_DAP
    /\ pc = "ReadLoop" => "di" \in DOMAIN regs /\ regs.di \in 1 .. Slots + 1
    /\ Addressable => DOMAIN memory = Filled
    /\ pc = "ReadLoop" /\ Addressable => Straight

ShippedInv ==
    Shipped =>
        /\ pc = "ReadLoop" => \/ regs.di = 1 /\ Untouched /\ dap = VBR_DAP
                              \/ regs.di = 2 /\ InPlace /\ (Slots > 1 => blocks[2].num_sectors = 0)
        /\ pc \in Loaded /\ listed[1].num_sectors # 0 => InPlace

LoadInv == ListInv /\ PacketInv /\ ShippedInv

(* No more is read than is listed, and nothing at first.                   *)
LEMMA ReadBounds ==
  ASSUME ListInv
  PROVE  /\ Fetched \in Counts /\ Read = Sums(Fetched)[Slots + 1] /\ Read \in Nat
         /\ Before[Slots + 1] \in Nat /\ Read <= Before[Slots + 1]
         /\ Untouched => Read = 0
<1>. DEFINE n == [k \in 1 .. Slots |-> listed[k].num_sectors]
<1>0. Slots \in Nat \ {0}
  BY BootAssumption
<1>1. \A k \in 1 .. Slots : /\ listed[k].num_sectors \in Nat /\ blocks[k].num_sectors \in Nat
                            /\ blocks[k].num_sectors <= listed[k].num_sectors
  BY DEF ListInv, Entries
<1>2. Fetched \in Counts /\ n \in Counts
  BY <1>1 DEF Counts, Fetched
<1>3. Read = Sums(Fetched)[Slots + 1] /\ Before = Sums(n)
  BY DEF Read, Fetched, Before
<1>4. \A k \in 1 .. Slots : Fetched[k] <= n[k]
  BY <1>1 DEF Fetched
<1>. HIDE DEF n
<1>5. Read \in Nat /\ Before[Slots + 1] \in Nat
  <2>1. Slots + 1 \in 1 .. Slots + 1
    BY <1>0
  <2>2. Sums(Fetched) \in [1 .. Slots + 1 -> Nat] /\ Sums(n) \in [1 .. Slots + 1 -> Nat]
    BY <1>2, SumsDef
  <2>. QED  BY <1>3, <2>1, <2>2
<1>6. Read <= Before[Slots + 1]
  BY <1>2, <1>3, <1>4, SumsOrder
<1>7. ASSUME Untouched PROVE Read = 0
  <2>1. \A k \in 1 .. Slots : Fetched[k] = 0
    BY <1>1, <1>7 DEF Fetched, Untouched
  <2>. QED  BY <1>2, <1>3, <2>1, SumsZero
<1>. QED  BY <1>2, <1>3, <1>5, <1>6, <1>7

(* Before the first read, the memory holds as much as has been read.       *)
LEMMA UntouchedIsFilled ==
  ASSUME ListInv, Untouched
  PROVE  DOMAIN memory = Filled /\ Read = 0
<1>1. Read = 0 /\ 0 .. Read - 1 = {}
  BY ReadBounds
<1>. QED  BY <1>1 DEF Filled, Untouched

(* At the start nothing has been loaded.                                   *)
LEMMA LoadInit == Init => LoadInv
<1>. SUFFICES ASSUME Init PROVE LoadInv
  OBVIOUS
<1>1. Slots \in Nat \ {0} /\ Blocks \subseteq Entries
  BY BootAssumption DEF Entries
<1>2. ListInv
  <2>1. listed \in [1 .. Slots -> Entries] /\ blocks = listed
    BY <1>1 DEF Init
  <2>2. \A k \in 1 .. Slots : listed[k].num_sectors <= listed[k].num_sectors
    BY <2>1 DEF Entries
  <2>. QED  BY <2>1, <2>2 DEF ListInv
<1>3. Untouched /\ pc = "MBR"
  BY DEF Init, Untouched
<1>4. PacketInv
  BY <1>2, <1>3, UntouchedIsFilled DEF PacketInv
<1>5. ShippedInv
  BY <1>3 DEF ShippedInv, Loaded
<1>. QED  BY <1>2, <1>4, <1>5 DEF LoadInv

(* Steps that leave the lists and the memory alone and do not enter the    *)
(* loop or the boot loader.                                                *)
LEMMA LoadKept ==
  ASSUME LoadInv, UNCHANGED <<listed, blocks, memory>>,
         pc' \in Early => pc \in Early,
         pc' \in {"VBR", "ReadLoop"} => UNCHANGED <<pc, regs, dap>>,
         pc' \in Loaded => pc \in Loaded
  PROVE  LoadInv'
<1>1. /\ Untouched' = Untouched /\ Fetched' = Fetched /\ Read' = Read /\ Before' = Before
      /\ Shipped' = Shipped /\ InPlace' = InPlace
  BY DEF Untouched, Fetched, Read, Before, Shipped, InPlace
<1>2. Filled' = Filled /\ Addressable' = Addressable /\ DOMAIN memory' = DOMAIN memory
  BY <1>1 DEF Filled, Addressable
<1>3. ListInv'
  BY DEF LoadInv, ListInv
<1>4. PacketInv'
  <2>1. pc' \in {"VBR", "ReadLoop"} => Straight' = Straight
    BY <1>1 DEF Straight
  <2>. QED  BY <1>1, <1>2, <2>1 DEF LoadInv, PacketInv, Early
<1>5. ShippedInv'
  BY <1>1 DEF LoadInv, ShippedInv
<1>. QED  BY <1>3, <1>4, <1>5 DEF LoadInv

(* The boot sector starts with the list as it is on disk.                  *)
LEMMA LoadStarts ==
  ASSUME BootInv, LoadInv, LaunchVBR \/ VBR
  PROVE  LoadInv'
<1>0. Slots \in Nat \ {0} /\ B \in Nat \ {0} /\ P \in Nat \ {0} /\ BOOTLOADER_ADDRESS \in 0 .. B - 1
      /\ Sector_Size \in Nat
  BY BootAssumption
<1>1. CASE LaunchVBR
  <2>1. /\ pc = "CheckVBR" /\ pc' = "VBR" /\ listed' = listed /\ blocks' = listed /\ memory' = memory
        /\ dap' = VBR_DAP /\ Untouched
    BY <1>1 DEF LaunchVBR, disk, LoadInv, PacketInv, Early
  <2>2. Untouched' /\ ListInv'
    BY <2>1 DEF Untouched, ListInv, LoadInv
  <2>3. (DOMAIN memory = Filled)'
    BY <2>2, UntouchedIsFilled, PTL
  <2>4. PacketInv'
    BY <2>1, <2>2, <2>3 DEF PacketInv, VBR_DAP
  <2>5. ShippedInv'
    BY <2>1 DEF ShippedInv, Loaded
  <2>. QED  BY <2>2, <2>4, <2>5 DEF LoadInv
<1>2. CASE VBR
  <2>1. /\ pc = "VBR" /\ pc' = "ReadLoop" /\ listed' = listed /\ blocks' = blocks /\ memory' = memory
        /\ dap' = VBR_DAP /\ Untouched
    BY <1>2 DEF VBR, disk, LoadInv, PacketInv, Early
  <2>2. Untouched' /\ ListInv'
    BY <2>1 DEF Untouched, ListInv, LoadInv
  <2>3. (DOMAIN memory = Filled)' /\ (Read = 0)'
    BY <2>2, UntouchedIsFilled, PTL
  <2>4. "di" \in DOMAIN regs' /\ regs'.di = 1
    <3>1. regs = Registers
      BY <2>1 DEF BootInv, Carried
    <3>2. regs' = [regs EXCEPT !.es = 0, !.di = 1]
      BY <1>2 DEF VBR
    <3>. QED  BY <3>1, <3>2 DEF Registers
  <2>5. Straight'
    <3>1. dap'.segment = 0 * (B \div P) /\ dap'.offset = BOOTLOADER_ADDRESS
      BY <1>0, <2>1 DEF VBR_DAP
    <3>2. 0 * B + dap'.offset = BOOTLOADER_ADDRESS + Read' * Sector_Size
      BY <1>0, <2>3, <3>1
    <3>3. 0 \in 0 .. P - 1
      BY <1>0
    <3>. QED  BY <1>0, <3>1, <3>2, <3>3 DEF Straight
  <2>6. PacketInv'
    BY <1>0, <2>1, <2>2, <2>3, <2>4, <2>5 DEF PacketInv, Early, Reading
  <2>7. ShippedInv'
    BY <2>1, <2>2, <2>4 DEF ShippedInv, Loaded
  <2>. QED  BY <2>2, <2>6, <2>7 DEF LoadInv
<1>. QED  BY <1>1, <1>2

(* What a read does to the list in memory.                                 *)
LEMMA ReadCounts ==
  ASSUME LoadInv, DiskRead
  PROVE  /\ regs.di \in 1 .. Slots /\ Chunk \in Nat \ {0} /\ Chunk <= Entry.num_sectors
         /\ ListInv' /\ Read' = Read + Chunk /\ Before' = Before
<1>. DEFINE d == regs.di
            c == Chunk
<1>0. Slots \in Nat \ {0} /\ MaxRead \in Nat \ {0}
  BY BootAssumption
<1>1. d \in 1 .. Slots /\ pc = "ReadLoop" /\ Entry.num_sectors # 0
  BY <1>0 DEF DiskRead, EndOfBlockList, LoadInv, PacketInv
<1>2. blocks \in [1 .. Slots -> Entries] /\ listed \in [1 .. Slots -> Entries] /\ listed' = listed
  BY DEF LoadInv, ListInv, DiskRead, disk
<1>3. Entry \in Entries /\ Entry = blocks[d]
  BY <1>1, <1>2 DEF Entry
<1>4. c \in Nat \ {0} /\ c <= Entry.num_sectors
  BY <1>0, <1>1, <1>3 DEF Chunk, Entries
<1>5. blocks' = [blocks EXCEPT ![d] = [lba |-> @.lba + c, num_sectors |-> @.num_sectors - c]]
  BY DEF DiskRead
<1>. HIDE DEF c, d
<1>6. blocks' \in [1 .. Slots -> Entries] /\ blocks'[d].num_sectors = blocks[d].num_sectors - c
      /\ \A k \in 1 .. Slots : k # d => blocks'[k] = blocks[k]
  <2>1. blocks[d].lba + c \in Nat /\ blocks[d].num_sectors - c \in Nat
    BY <1>3, <1>4 DEF Entries
  <2>2. [lba |-> blocks[d].lba + c, num_sectors |-> blocks[d].num_sectors - c] \in Entries
    BY <2>1 DEF Entries
  <2>. QED  BY <1>1, <1>2, <1>5, <2>2
<1>7. \A k \in 1 .. Slots : blocks[k].num_sectors \in Nat /\ listed[k].num_sectors \in Nat
                            /\ blocks[k].num_sectors <= listed[k].num_sectors
  BY <1>2 DEF LoadInv, ListInv, Entries
<1>8. ListInv'
  <2>1. \A k \in 1 .. Slots : blocks'[k].num_sectors <= listed'[k].num_sectors
    <3>. TAKE k \in 1 .. Slots
    <3>1. CASE k = d
      BY <1>1, <1>2, <1>4, <1>6, <1>7, <3>1
    <3>2. CASE k # d
      BY <1>2, <1>6, <1>7, <3>2
    <3>. QED  BY <3>1, <3>2
  <2>. QED  BY <1>2, <1>6, <2>1 DEF ListInv
<1>9. Fetched \in Counts /\ Read = Sums(Fetched)[Slots + 1]
  BY ReadBounds DEF LoadInv
<1>10. (Fetched \in Counts)' /\ (Read = Sums(Fetched)[Slots + 1])'
  BY <1>8, ReadBounds, PTL
<1>11. Counts' = Counts
  BY DEF Counts
<1>12. Sums(Fetched)' = Sums(Fetched')
  BY DEF Sums
<1>13. Fetched'[d] = Fetched[d] + c
  <2>1. Fetched[d] = listed[d].num_sectors - blocks[d].num_sectors
    BY <1>1 DEF Fetched
  <2>2. Fetched'[d] = listed[d].num_sectors - blocks'[d].num_sectors
    BY <1>1, <1>2 DEF Fetched
  <2>. QED  BY <1>1, <1>4, <1>6, <1>7, <2>1, <2>2
<1>14. \A k \in 1 .. Slots : k # d => Fetched'[k] = Fetched[k]
  BY <1>2, <1>6 DEF Fetched
<1>. DEFINE m == Fetched'
<1>15. m \in Counts /\ m[d] = Fetched[d] + c /\ \A k \in 1 .. Slots : k # d => m[k] = Fetched[k]
  BY <1>10, <1>11, <1>13, <1>14
<1>16. Read' = Sums(m)[Slots + 1]
  BY <1>10, <1>12
<1>. HIDE DEF m
<1>17. Sums(m)[Slots + 1] = Sums(Fetched)[Slots + 1] + c
  BY <1>1, <1>4, <1>9, <1>15, SumsGrow
<1>18. Before' = Before
  BY <1>2 DEF Before
<1>. QED  BY <1>1, <1>4, <1>8, <1>9, <1>16, <1>17, <1>18 DEF c, d

(* A multiple of the segment that stands for a word's worth of bytes.      *)
LEMMA Segments ==
  ASSUME NEW m \in Nat
  PROVE  (m * (B \div P)) * P = m * B
<1>. DEFINE Q == B \div P
<1>0. B \in Nat \ {0} /\ P \in Nat \ {0} /\ B % (P * P) = 0
  BY BootAssumption
<1>1. Q * P = B /\ Q \in Nat
  <2>1. P * P \in Nat \ {0}
    BY <1>0
  <2>2. \A a \in Nat, b \in Nat \ {0} : a % b = 0 => a = b * (a \div b) /\ a \div b \in Nat
    OBVIOUS
  <2>3. PICK z \in Nat : B = (P * P) * z
    BY <1>0, <2>1, <2>2
  <2>4. B = P * (P * z) /\ P * z \in Nat
    BY <1>0, <2>3
  <2>5. \A a \in Nat \ {0}, b \in Nat : (a * b) \div a = b
    OBVIOUS
  <2>. QED  BY <1>0, <2>4, <2>5
<1>. HIDE DEF Q
<1>2. (m * Q) * P = m * B
  BY <1>0, <1>1
<1>. QED  BY <1>2 DEF Q

(* A read fills the place behind the last one, and the packet moves on by  *)
(* as much.                                                                *)
LEMMA ReadGoesOn ==
  ASSUME BootInv, LoadInv, DiskRead
  PROVE  PacketInv'
<1>. DEFINE c == Chunk
<1>0. /\ Slots \in Nat \ {0} /\ B \in Nat \ {0} /\ P \in Nat \ {0} /\ BOOTLOADER_ADDRESS \in Nat
      /\ Sector_Size \in Nat \ {0}
  BY BootAssumption
<1>1. /\ regs.di \in 1 .. Slots /\ c \in Nat \ {0} /\ ListInv' /\ Read' = Read + c /\ Before' = Before
      /\ pc = "ReadLoop" /\ pc' = pc
  BY ReadCounts DEF DiskRead
<1>2. Read \in Nat /\ Before[Slots + 1] \in Nat
  BY ReadBounds DEF LoadInv
<1>3. Read' <= Before[Slots + 1]
  <2>1. (Read <= Before[Slots + 1])'
    BY <1>1, ReadBounds, PTL
  <2>. QED  BY <1>1, <2>1
<1>4. "di" \in DOMAIN regs' /\ regs'.di \in 1 .. Slots + 1
  <2>1. regs' = [regs EXCEPT !.di = IF Entry.num_sectors = c THEN regs.di + 1 ELSE regs.di]
    BY DEF DiskRead
  <2>2. "di" \in DOMAIN regs
    BY <1>1 DEF LoadInv, PacketInv
  <2>. QED  BY <1>0, <1>1, <2>1, <2>2
<1>5. Addressable' = Addressable
  BY <1>1 DEF Addressable
<1>6. ASSUME Addressable PROVE Straight' /\ DOMAIN memory' = Filled'
  <2>1. PICK m \in 0 .. P - 1 :
            /\ dap.segment = m * (B \div P) /\ dap.offset \in 0 .. B - 1
            /\ m * B + dap.offset = BOOTLOADER_ADDRESS + Read * Sector_Size
    BY <1>1, <1>6 DEF LoadInv, PacketInv, Straight
  <2>. DEFINE o == dap.offset
              n == c * Sector_Size
  <2>2. n \in Nat /\ m \in Nat /\ o \in 0 .. B - 1
    BY <1>0, <1>1, <2>1
  <2>3. BOOTLOADER_ADDRESS + Read * Sector_Size + n = BOOTLOADER_ADDRESS + Read' * Sector_Size
    <3>1. (Read + c) * Sector_Size = Read * Sector_Size + c * Sector_Size
      BY <1>0, <1>1, <1>2
    <3>2. Read * Sector_Size \in Nat
      BY <1>0, <1>2
    <3>. QED  BY <1>0, <1>1, <2>2, <3>1, <3>2
  <2>4. m * B + o + n = BOOTLOADER_ADDRESS + Read' * Sector_Size
    BY <2>1, <2>3
  <2>5. m * B + o + n < B * P
    <3>1. Read' * Sector_Size <= Before[Slots + 1] * Sector_Size
      <4>1. \A a, b \in Nat : a <= b => a * Sector_Size <= b * Sector_Size
        <5>. SUFFICES ASSUME NEW a \in Nat, NEW b \in Nat, a <= b PROVE a * Sector_Size <= b * Sector_Size
          OBVIOUS
        <5>1. (b - a) * Sector_Size >= 0
          BY <1>0
        <5>. QED  BY <1>0, <5>1
      <4>2. Read' \in Nat
        BY <1>1, <1>2
      <4>. QED  BY <1>2, <1>3, <4>1, <4>2
    <3>2. BOOTLOADER_ADDRESS + Before[Slots + 1] * Sector_Size < B * P
      BY <1>6 DEF Addressable
    <3>3. /\ Read' * Sector_Size \in Nat /\ Before[Slots + 1] * Sector_Size \in Nat /\ B * P \in Nat
      BY <1>0, <1>1, <1>2
    <3>. QED  BY <1>0, <2>4, <3>1, <3>2, <3>3
  <2>. DEFINE s == m * (B \div P)
              eax == s * P + (s * B + o) + n
              k == m + (o + n) \div B
  <2>. HIDE DEF o, n
  <2>6. /\ k \in 0 .. P - 1 /\ NextSegment(eax) = k * (B \div P) /\ eax % B \in 0 .. B - 1
        /\ k * B + (eax % B) = m * B + o + n
    BY <2>2, <2>5, NextIsStraight
  <2>7. NextAddress = eax
    BY <2>1 DEF NextAddress, o, n
  <2>8. dap'.segment = NextSegment(NextAddress) /\ dap'.offset = NextAddress % B
    BY DEF DiskRead
  <2>. HIDE DEF eax, k
  <2>9. Straight'
    <3>1. dap'.segment = k * (B \div P) /\ dap'.offset \in 0 .. B - 1
          /\ k * B + dap'.offset = BOOTLOADER_ADDRESS + Read' * Sector_Size
      BY <2>4, <2>6, <2>7, <2>8
    <3>. QED  BY <2>6, <3>1 DEF Straight
  <2>10. Linear(dap) = BOOTLOADER_ADDRESS + Read * Sector_Size
    <3>1. (m * (B \div P)) * P = m * B
      BY <2>2, Segments
    <3>. QED  BY <2>1, <3>1 DEF Linear
  <2>11. DOMAIN memory = Filled
    BY <1>6 DEF LoadInv, PacketInv
  <2>12. DOMAIN memory' = DOMAIN memory \cup {Linear(dap) + j * Sector_Size : j \in 0 .. c - 1}
    BY DEF DiskRead
  <2>13. {Linear(dap) + j * Sector_Size : j \in 0 .. c - 1} =
         {BOOTLOADER_ADDRESS + j * Sector_Size : j \in Read .. Read + c - 1}
    <3>1. \A j \in Int : Linear(dap) + j * Sector_Size = BOOTLOADER_ADDRESS + (Read + j) * Sector_Size
      <4>. TAKE j \in Int
      <4>1. (Read + j) * Sector_Size = Read * Sector_Size + j * Sector_Size
        BY <1>0, <1>2
      <4>2. Read * Sector_Size \in Int /\ j * Sector_Size \in Int
        BY <1>0, <1>2
      <4>. QED  BY <1>0, <2>10, <4>1, <4>2
    <3>2. \A j \in 0 .. c - 1 : Read + j \in Read .. Read + c - 1
      BY <1>1, <1>2
    <3>3. \A j \in Read .. Read + c - 1 : j - Read \in 0 .. c - 1 /\ Read + (j - Read) = j
      BY <1>1, <1>2
    <3>. HIDE DEF c
    <3>4. ASSUME NEW j \in 0 .. c - 1
          PROVE  Linear(dap) + j * Sector_Size \in {BOOTLOADER_ADDRESS + l * Sector_Size : l \in Read .. Read + c - 1}
      BY <3>1, <3>2
    <3>5. ASSUME NEW j \in Read .. Read + c - 1
          PROVE  BOOTLOADER_ADDRESS + j * Sector_Size \in {Linear(dap) + l * Sector_Size : l \in 0 .. c - 1}
      <4>1. j - Read \in 0 .. c - 1 /\ Read + (j - Read) = j
        BY <3>3
      <4>2. Linear(dap) + (j - Read) * Sector_Size = BOOTLOADER_ADDRESS + j * Sector_Size
        BY <3>1, <4>1
      <4>. QED  BY <4>1, <4>2
    <3>. QED  BY <3>4, <3>5
  <2>14. 0 .. Read' - 1 = (0 .. Read - 1) \cup (Read .. Read + c - 1)
    BY <1>1, <1>2
  <2>15. DOMAIN memory' = Filled'
    <3>1. Filled' = {BOOTLOADER_ADDRESS + j * Sector_Size : j \in 0 .. Read' - 1}
      BY DEF Filled
    <3>. QED  BY <2>11, <2>12, <2>13, <2>14, <3>1 DEF Filled
  <2>. QED  BY <2>9, <2>15
<1>. QED  BY <1>1, <1>4, <1>5, <1>6 DEF PacketInv, Early, Reading

(* The list as it is shipped needs one call of the BIOS.                   *)
LEMMA ReadShipped ==
  ASSUME LoadInv, DiskRead
  PROVE  ShippedInv'
<1>. SUFFICES ASSUME Shipped' PROVE ShippedInv'
  BY DEF ShippedInv
<1>0. Slots \in Nat \ {0} /\ MaxRead \in Nat /\ BOOTLOADER_ADDRESS \in Nat /\ Sector_Size \in Nat \ {0} /\ P \in Nat
  BY BootAssumption
<1>1. /\ regs.di \in 1 .. Slots /\ ListInv' /\ pc = "ReadLoop" /\ pc' = pc /\ listed' = listed
      /\ Entry.num_sectors # 0 /\ Shipped
  BY ReadCounts DEF DiskRead, disk, Shipped
<1>2. regs.di = 1 /\ Untouched /\ dap = VBR_DAP
  <2>1. ASSUME regs.di = 2, Slots > 1 => blocks[2].num_sectors = 0 PROVE FALSE
    BY <1>0, <1>1, <2>1 DEF Entry
  <2>. QED  BY <1>1, <2>1 DEF LoadInv, ShippedInv
<1>3. Entry = listed[1] /\ listed[1] \in Entries
  BY <1>0, <1>2 DEF Entry, Untouched, LoadInv, ListInv
<1>. DEFINE c == listed[1].num_sectors
<1>4. Chunk = c /\ c \in Nat \ {0}
  BY <1>0, <1>1, <1>3 DEF Chunk, Shipped, Entries
<1>5. "di" \in DOMAIN regs' /\ regs'.di = 2
  <2>1. regs' = [regs EXCEPT !.di = IF Entry.num_sectors = Chunk THEN regs.di + 1 ELSE regs.di]
    BY DEF DiskRead
  <2>2. "di" \in DOMAIN regs
    BY <1>1 DEF LoadInv, PacketInv
  <2>. QED  BY <1>2, <1>3, <1>4, <2>1, <2>2
<1>6. Slots > 1 => blocks'[2].num_sectors = 0
  <2>. SUFFICES ASSUME Slots > 1 PROVE blocks'[2].num_sectors = 0
    OBVIOUS
  <2>1. blocks = listed /\ 2 \in 1 .. Slots /\ blocks \in [1 .. Slots -> Entries]
    BY <1>0, <1>2 DEF Untouched, LoadInv, ListInv
  <2>2. blocks' = [blocks EXCEPT ![1] = [lba |-> @.lba + Chunk, num_sectors |-> @.num_sectors - Chunk]]
    BY <1>2 DEF DiskRead
  <2>3. blocks'[2] = blocks[2]
    BY <2>1, <2>2
  <2>. QED  BY <1>1, <2>1, <2>3 DEF Shipped
<1>7. InPlace'
  <2>. SUFFICES ASSUME NEW j \in 0 .. c - 1
                PROVE  memory'[BOOTLOADER_ADDRESS + j * Sector_Size] = listed[1].lba + j
    BY <1>1 DEF InPlace
  <2>. DEFINE at == Linear(dap)
              a == BOOTLOADER_ADDRESS + j * Sector_Size
  <2>1. at = BOOTLOADER_ADDRESS
    BY <1>0, <1>2 DEF Linear, VBR_DAP
  <2>2. StartSector = listed[1].lba /\ listed[1].lba \in Nat
    BY <1>2, <1>3 DEF StartSector, VBR_DAP, Entries
  <2>3. memory' = [b \in DOMAIN memory \cup {at + l * Sector_Size : l \in 0 .. Chunk - 1} |->
                      IF b < at \/ b >= at + Chunk * Sector_Size THEN memory[b]
                      ELSE StartSector + (b - at) \div Sector_Size]
    BY DEF DiskRead
  <2>4. j \in Nat /\ j * Sector_Size \in Nat /\ j < c
    BY <1>0, <1>4
  <2>5. j * Sector_Size < c * Sector_Size
    <3>1. (c - j) * Sector_Size > 0
      BY <1>0, <1>4, <2>4
    <3>2. (c - j) * Sector_Size = c * Sector_Size - j * Sector_Size
      BY <1>0, <1>4, <2>4
    <3>. QED  BY <1>0, <1>4, <2>4, <3>1, <3>2
  <2>6. (a - at) \div Sector_Size = j
    <3>1. a - at = j * Sector_Size + 0 /\ a - at \in Nat
      BY <1>0, <2>1, <2>4
    <3>2. 0 \in 0 .. Sector_Size - 1
      BY <1>0
    <3>. HIDE DEF a, at
    <3>. QED  BY <1>0, <2>4, <3>1, <3>2, Division
  <2>7. a \in {at + l * Sector_Size : l \in 0 .. Chunk - 1} /\ ~(a < at) /\ ~(a >= at + Chunk * Sector_Size)
    <3>1. c * Sector_Size \in Nat
      BY <1>0, <1>4
    <3>. QED  BY <1>0, <1>4, <2>1, <2>4, <2>5, <3>1
  <2>8. memory'[a] = StartSector + (a - at) \div Sector_Size
    <3>. HIDE DEF a, at
    <3>. QED  BY <2>3, <2>7
  <2>. QED  BY <2>2, <2>6, <2>8
<1>. QED  BY <1>1, <1>5, <1>6, <1>7 DEF ShippedInv, Loaded

(* The boot loader is launched at the first empty entry of the list.       *)
LEMMA LoadLaunch ==
  ASSUME LoadInv, LaunchBootloader
  PROVE  LoadInv'
<1>0. Slots \in Nat \ {0}
  BY BootAssumption
<1>1. /\ pc = "ReadLoop" /\ pc' = "BOOT" /\ UNCHANGED <<listed, blocks, memory>>
      /\ Entry.num_sectors = 0 /\ regs.di \in 1 .. Slots
  BY <1>0 DEF LaunchBootloader, EndOfBlockList, disk, LoadInv, PacketInv
<1>2. /\ Fetched' = Fetched /\ Read' = Read /\ Before' = Before
      /\ Shipped' = Shipped /\ InPlace' = InPlace
  BY <1>1 DEF Fetched, Read, Before, Shipped, InPlace
<1>3. Filled' = Filled /\ Addressable' = Addressable /\ DOMAIN memory' = DOMAIN memory
  BY <1>1, <1>2 DEF Filled, Addressable
<1>4. ListInv'
  BY <1>1 DEF LoadInv, ListInv
<1>5. PacketInv'
  BY <1>1, <1>3 DEF LoadInv, PacketInv, Early, Reading
<1>6. ASSUME Shipped, listed[1].num_sectors # 0 PROVE InPlace
  BY <1>1, <1>6 DEF LoadInv, ShippedInv, Untouched, Entry
<1>7. ShippedInv'
  BY <1>1, <1>2, <1>6 DEF ShippedInv
<1>. QED  BY <1>4, <1>5, <1>7 DEF LoadInv

(* Every step keeps what has been loaded in place.                         *)
LEMMA LoadNext == BootInv /\ LoadInv /\ [Next]_vars => LoadInv'
<1>. SUFFICES ASSUME BootInv, LoadInv, [Next]_vars PROVE LoadInv'
  OBVIOUS
<1>. DEFINE Leaves == /\ UNCHANGED <<listed, blocks, memory>>
                      /\ pc' \in Early => pc \in Early
                      /\ pc' \in {"VBR", "ReadLoop"} => UNCHANGED <<pc, regs, dap>>
                      /\ pc' \in Loaded => pc \in Loaded
<1>1. ASSUME Leaves PROVE LoadInv'
  BY <1>1, LoadKept
<1>2. CASE UNCHANGED vars
  BY <1>1, <1>2 DEF vars, disk, bootvars
<1>3. CASE Environment
  <2>1. pc' = pc /\ UNCHANGED <<disk, bootvars>>
    BY <1>3 DEF Environment, Controller, KeyPressed, KeyboardInterrupt
  <2>. QED  BY <1>1, <2>1 DEF disk, bootvars
<1>4. CASE CPUStep
  <2>1. CASE NoActivePartition \/ InvalidVBR \/ UnknownDisk \/ Overrun \/ DiskReadFails \/ A20EnableErr
    <3>1. pc' = "Halt" /\ UNCHANGED <<disk, bootvars>>
      BY <2>1 DEF NoActivePartition, InvalidVBR, UnknownDisk, Overrun, DiskReadFails, A20EnableErr, Halt
    <3>. QED  BY <1>1, <3>1 DEF disk, bootvars, Early, Reading, Loaded
  <2>2. CASE A20Step /\ UNCHANGED <<disk, bootvars>>
    <3>1. pc \in Enabling /\ pc' \in Enabling \cup {"A20_Return"}
      BY <2>2 DEF A20Step, Check, A20_EnableWithBIOS, A20_EnableWithFastGate, Try, PS2Write, PS2Read,
                  PS2Advance, Enabling
    <3>. QED  BY <1>1, <2>2, <3>1 DEF disk, bootvars, Enabling, Early, Reading, Loaded
  <2>3. CASE MBR \/ GetActivePartition \/ DiskReadUsingLBA \/ DiskReadUsingCHS
    <3>1. UNCHANGED <<listed, blocks, memory>>
      BY <2>3 DEF MBR, GetActivePartition, DiskReadUsingLBA, DiskReadUsingCHS, ReadVBR, disk
    <3>2. pc \in Early /\ pc' \in {"GetActivePartition", "DiskReadUsingLBA", "DiskReadUsingCHS", "CheckVBR", "Halt"}
      BY <2>3 DEF MBR, GetActivePartition, DiskReadUsingLBA, DiskReadUsingCHS, AfterLBA, AfterCHS, Early, Reading
    <3>. QED  BY <1>1, <3>1, <3>2 DEF Early, Reading, Loaded
  <2>4. CASE BOOT \/ EnablePMode \/ Multiboot_Boot
    <3>1. /\ UNCHANGED <<listed, blocks, memory>>
          /\ pc \in Loaded /\ pc' \in {"A20_Enable", "Multiboot_Boot", "Kernel", "Halt"}
      BY <2>4 DEF BOOT, EnablePMode, Multiboot_Boot, disk, bootvars, Loaded
    <3>. QED  BY <1>1, <3>1 DEF Early, Reading, Loaded
  <2>5. CASE DiskRead
    BY <2>5, ReadCounts, ReadGoesOn, ReadShipped DEF LoadInv
  <2>. QED  BY <1>4, <2>1, <2>2, <2>3, <2>4, <2>5, LoadStarts, LoadLaunch DEF CPUStep
<1>. QED  BY <1>2, <1>3, <1>4 DEF Next

(* The boot loader's sectors lie one after the other from its address on,  *)
(* as many as the block list in memory has been counted down by, and the   *)
(* packet names the place for the next.                                    *)
THEOREM LoadInvariance == Spec => []LoadInv
BY LoadInit, LoadNext, BootInvariance, PTL DEF Spec

(* Reads leave no gap and overwrite nothing, across segments too, and the  *)
(* list as it is shipped is loaded completely (vbr.asm, ReadLoop).         *)
THEOREM LoadsContiguously == Spec => []ContiguousLoad
<1>1. LoadInv => ContiguousLoad
  <2>. SUFFICES ASSUME LoadInv PROVE ContiguousLoad
    OBVIOUS
  <2>0. /\ Slots \in Nat \ {0} /\ B \in Nat \ {0} /\ P \in Nat \ {0} /\ BOOTLOADER_ADDRESS \in Nat
        /\ Sector_Size \in Nat
    BY BootAssumption
  <2>1. ASSUME Addressable PROVE DOMAIN memory = Filled
    BY <2>1 DEF LoadInv, PacketInv
  <2>2. ASSUME Addressable, pc = "ReadLoop" PROVE Linear(dap) = BOOTLOADER_ADDRESS + Read * Sector_Size
    <3>1. PICK m \in 0 .. P - 1 :
            /\ dap.segment = m * (B \div P) /\ dap.offset \in 0 .. B - 1
            /\ m * B + dap.offset = BOOTLOADER_ADDRESS + Read * Sector_Size
      BY <2>2 DEF LoadInv, PacketInv, Straight
    <3>2. (m * (B \div P)) * P = m * B
      BY <3>1, Segments
    <3>. QED  BY <3>1, <3>2 DEF Linear
  <2>3. ASSUME Shipped PROVE LoadedAsListed
    <3>. SUFFICES ASSUME pc \in Loaded, NEW k \in 1 .. Slots,
                         \A l \in 1 .. k : listed[l].num_sectors # 0,
                         NEW j \in 0 .. listed[k].num_sectors - 1
                  PROVE  memory[BOOTLOADER_ADDRESS + (Before[k] + j) * Sector_Size] = listed[k].lba + j
      BY DEF LoadedAsListed
    <3>1. k = 1 /\ listed[1].num_sectors # 0
      <4>1. CASE k > 1
        <5>1. 2 \in 1 .. k /\ Slots > 1
          BY <2>0, <4>1
        <5>. QED  BY <2>3, <5>1 DEF Shipped
      <4>. QED  BY <4>1
    <3>2. InPlace
      BY <2>3, <3>1 DEF LoadInv, ShippedInv
    <3>3. Before[1] = 0
      <4>. DEFINE n == [l \in 1 .. Slots |-> listed[l].num_sectors]
      <4>1. n \in Counts
        BY DEF LoadInv, ListInv, Entries, Counts
      <4>2. Before = Sums(n)
        BY DEF Before
      <4>. HIDE DEF n
      <4>. QED  BY <4>1, <4>2, SumsDef
    <3>4. Before[k] + j = j
      BY <3>1, <3>3
    <3>. QED  BY <3>1, <3>2, <3>4 DEF InPlace
  <2>. QED  BY <2>1, <2>2, <2>3 DEF ContiguousLoad, Shipped, Filled
<1>. QED  BY <1>1, LoadInvariance, PTL
=============================================================================
