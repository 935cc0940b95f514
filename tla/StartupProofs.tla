--------------------------- MODULE StartupProofs ---------------------------
(***************************************************************************)
(* Proofs, for any number of processors and any MADT, that processors come *)
(* up one at a time.                                                       *)
(***************************************************************************)
EXTENDS Startup, FiniteSetTheorems, TLAPS

USE BSPAssumption, InfosAssumption

(* Where the boot processor may be while another one is on its way.        *)
Starting == {"deassert", "startup1", "startup2", "await"}
InFlight == {"wait", "real", "higher_half", "stack", "lost", "processor", "load", "store"}
Labels == Online \cup Booting \cup {"off", "wait", "start", "halt", "fault", "lost"}

Types == /\ pc \in [CPUs -> Labels]
         /\ esp \in [CPUs -> {"none", "boot", "own"}]
         /\ i \in Nat \ {0}
         /\ identity \in BOOLEAN

(* Only the processor Initialize_CPU was called for is on its way, and it  *)
(* is past the boot stack before the count changes.                        *)
OneInFlight == \A c \in APs : pc[c] \in InFlight => pc[BSP] \in Starting /\ c = Target

TargetValid == pc[BSP] \in Starting \cup {"init"} => i \in DOMAIN LocalAPIC_Infos /\ Target \in APs

CountTells ==
    /\ pc[BSP] = "init" => Kernel_numcpus_online = inumcpus
    /\ pc[BSP] \in Starting /\ pc[Target] \in InFlight => Kernel_numcpus_online = inumcpus

(* The boot stack is used between the first instructions and               *)
(* Initialize_Stack.                                                       *)
StackUse == \A c \in CPUs : esp[c] = "boot" => pc[c] \in {"higher_half", "memory", "stack"}

(* What the boot processor has set up and not yet torn down.               *)
MappedUntilWork ==
    /\ ~identity => pc[BSP] \in {"work", "schedule"}
    /\ pc[BSP] \in Starting \cup {"next", "init"} => boot_code

APLabels == \A c \in APs : pc[c] \in InFlight \cup {"off", "work", "schedule"}
BSPLabels == pc[BSP] \notin {"off", "wait", "real", "fault"}

StartInv == /\ Types /\ OneInFlight /\ TargetValid /\ CountTells
            /\ StackUse /\ MappedUntilWork /\ APLabels /\ BSPLabels

(* The machine as it is before Start satisfies the invariant.              *)
LEMMA StartInitInv == Init => StartInv
BY DEF Init, StartInv, Types, OneInFlight, TargetValid, CountTells, StackUse, MappedUntilWork,
       APLabels, BSPLabels, Starting, InFlight, Labels, Online, Booting, CPUs

(* No step of any processor breaks the invariant.                          *)
LEMMA StartNextInv == StartInv /\ [Next]_vars => StartInv'
<1>. SUFFICES ASSUME StartInv, [Next]_vars PROVE StartInv'
  OBVIOUS
<1>. USE DEF StartInv, CPUs
<1>0. CASE UNCHANGED vars
  BY <1>0 DEF vars, bspvars, machine, Types, OneInFlight, TargetValid, CountTells, StackUse, MappedUntilWork,
              APLabels, BSPLabels, Target
<1>1. ASSUME NEW c \in APs, APStep(c) PROVE StartInv'
  <2>1. pc[c] \in InFlight \cup {"work"} /\ pc'[c] \in InFlight \cup {"work", "schedule"} /\ pc'[c] # "wait"
    BY <1>1 DEF APStep, StartAP, Common, Initialize_HigherHalf, Initialize_Stack, Initialize_ThisProcessor,
                LoadCount, StoreCount, GetToWork, Goto, InFlight, Types, MappedUntilWork, OneInFlight, Starting
  <2>2. pc' = [pc EXCEPT ![c] = pc'[c]] /\ UNCHANGED <<identity, bspvars, machine>> /\ pc'[BSP] = pc[BSP] /\ Target' = Target
    BY <1>1 DEF APStep, StartAP, Common, Initialize_HigherHalf, Initialize_Stack, Initialize_ThisProcessor,
                LoadCount, StoreCount, GetToWork, Goto, Types, Target, bspvars
  <2>3. pc'[c] \in InFlight => pc[c] \in InFlight
    BY <1>1 DEF APStep, StartAP, Common, Initialize_HigherHalf, Initialize_Stack, Initialize_ThisProcessor,
                LoadCount, StoreCount, GetToWork, Goto, InFlight, Types
  <2>4. Types'
    <3>1. esp' \in [CPUs -> {"none", "boot", "own"}]
      BY <1>1 DEF APStep, StartAP, Common, Initialize_HigherHalf, Initialize_Stack, Initialize_ThisProcessor,
                  LoadCount, StoreCount, GetToWork, Types
    <3>2. pc' \in [CPUs -> Labels]
      BY <2>1, <2>2 DEF Types, Labels, InFlight, Online, Booting
    <3>. QED  BY <3>1, <3>2, <2>2 DEF Types, bspvars
  <2>5. OneInFlight' /\ APLabels' /\ BSPLabels'
    BY <2>1, <2>2, <2>3 DEF OneInFlight, APLabels, BSPLabels, Types
  <2>6. TargetValid' /\ MappedUntilWork'
    BY <2>2 DEF TargetValid, MappedUntilWork, bspvars
  <2>7. CountTells'
    <3>1. CASE pc[c] = "store"
      <4>1. pc'[c] = "work" /\ c = Target
        BY <1>1, <3>1 DEF APStep, StartAP, Common, Initialize_HigherHalf, Initialize_Stack, Initialize_ThisProcessor,
                  LoadCount, StoreCount, GetToWork, Goto, Types, OneInFlight, InFlight
      <4>2. pc[BSP] \in Starting
        BY <3>1 DEF OneInFlight, InFlight
      <4>. QED  BY <4>1, <4>2, <2>2 DEF CountTells, InFlight, Starting
    <3>2. CASE pc[c] # "store"
      <4>1. Kernel_numcpus_online' = Kernel_numcpus_online
        BY <1>1, <3>2 DEF APStep, StartAP, Common, Initialize_HigherHalf, Initialize_Stack, Initialize_ThisProcessor,
                  LoadCount, StoreCount, GetToWork
      <4>. QED  BY <4>1, <2>2, <2>3 DEF CountTells, bspvars, TargetValid, Types
    <3>. QED  BY <3>1, <3>2
  <2>8. StackUse'
    BY <1>1 DEF APStep, StartAP, Common, Initialize_HigherHalf, Initialize_Stack, Initialize_ThisProcessor,
                LoadCount, StoreCount, GetToWork, Goto, StackUse, Types, MappedUntilWork, OneInFlight,
                InFlight, Starting
  <2>. QED  BY <2>4, <2>5, <2>6, <2>7, <2>8
<1>2. CASE Common(BSP)
  <2>1. pc[BSP] \in {"higher_half", "stack", "processor", "load", "store", "work"}
        /\ pc'[BSP] \in {"memory", "lost", "processor", "load", "store", "ioapic", "schedule"}
        /\ (pc'[BSP] = "schedule" <=> pc[BSP] = "work")
    BY <1>2 DEF Common, Initialize_HigherHalf, Initialize_Stack, Initialize_ThisProcessor,
                LoadCount, StoreCount, GetToWork, Goto, Types, MappedUntilWork
  <2>2. pc' = [pc EXCEPT ![BSP] = pc'[BSP]] /\ UNCHANGED <<identity, bspvars, machine>>
    BY <1>2 DEF Common, Initialize_HigherHalf, Initialize_Stack, Initialize_ThisProcessor,
                LoadCount, StoreCount, GetToWork, Goto, Types
  <2>3. Types'
    <3>1. esp' \in [CPUs -> {"none", "boot", "own"}]
      BY <1>2 DEF Common, Initialize_HigherHalf, Initialize_Stack, Initialize_ThisProcessor,
                  LoadCount, StoreCount, GetToWork, Types
    <3>. QED  BY <3>1, <2>1, <2>2 DEF Types, Labels, Online, Booting, bspvars
  <2>4. OneInFlight' /\ APLabels' /\ BSPLabels' /\ TargetValid' /\ MappedUntilWork' /\ CountTells'
    BY <2>1, <2>2 DEF OneInFlight, APLabels, BSPLabels, TargetValid, MappedUntilWork, CountTells, Starting, Types
  <2>5. StackUse'
    BY <1>2 DEF Common, Initialize_HigherHalf, Initialize_Stack, Initialize_ThisProcessor,
                LoadCount, StoreCount, GetToWork, Goto, StackUse, Types, MappedUntilWork
  <2>. QED  BY <2>3, <2>4, <2>5
<1>3. CASE Start \/ Initialize_Memory \/ Initialize_Devices \/ CopyBootCode
  <2>1. \A c \in APs : pc[c] \notin InFlight
    BY <1>3 DEF Start, Initialize_Memory, Initialize_Devices, CopyBootCode, At, OneInFlight, Starting
  <2>2. Types' /\ StackUse'
    <3>1. CASE Start
      BY <3>1 DEF Start, At, Goto, bspvars, Types, StackUse, Labels, Booting
    <3>2. CASE Initialize_Memory
      BY <3>2 DEF Initialize_Memory, At, Goto, bspvars, Types, StackUse, Labels, Booting
    <3>3. CASE Initialize_Devices \/ CopyBootCode
      BY <3>3 DEF Initialize_Devices, CopyBootCode, At, Goto, Types, StackUse, Labels, Online
    <3>. QED  BY <1>3, <3>1, <3>2, <3>3
  <2>3. MappedUntilWork' /\ APLabels' /\ BSPLabels' /\ TargetValid' /\ CountTells'
    BY <1>3 DEF Start, Initialize_Memory, Initialize_Devices, CopyBootCode, At, Goto, Types,
                MappedUntilWork, APLabels, BSPLabels, TargetValid, CountTells, Starting
  <2>4. OneInFlight'
    BY <1>3, <2>1 DEF Start, Initialize_Memory, Initialize_Devices, CopyBootCode, At, Goto, Types, OneInFlight
  <2>. QED  BY <2>2, <2>3, <2>4
<1>4. CASE NextCPU
  <2>1. \A c \in APs : pc[c] \notin InFlight
    BY <1>4 DEF NextCPU, At, OneInFlight, Starting
  <2>2. i \in DOMAIN LocalAPIC_Infos /\ LocalAPIC_Infos[i] \in CPUs
    BY <1>4 DEF NextCPU, LocalAPIC_Num, Types
  <2>3. Types' /\ StackUse'
    BY <1>4 DEF NextCPU, At, Goto, Types, StackUse, Labels, Online
  <2>4. MappedUntilWork' /\ APLabels' /\ BSPLabels'
    BY <1>4 DEF NextCPU, At, Goto, Types, MappedUntilWork, APLabels, BSPLabels, Starting
  <2>5. TargetValid' /\ CountTells' /\ OneInFlight'
    BY <1>4, <2>1, <2>2 DEF NextCPU, At, Goto, Types, TargetValid, CountTells, OneInFlight, Target, Starting
  <2>. QED  BY <2>3, <2>4, <2>5
<1>5. CASE SendInit
  <2>1. \A c \in APs : pc[c] \notin InFlight
    BY <1>5 DEF SendInit, At, OneInFlight, Starting
  <2>2. Target \in APs /\ i \in DOMAIN LocalAPIC_Infos /\ Target' = Target
    BY <1>5 DEF SendInit, At, TargetValid, Target, bspvars
  <2>3. pc'[BSP] = "deassert" /\ pc'[Target] \in {"wait", pc[Target]}
        /\ \A c \in CPUs : c # BSP /\ c # Target => pc'[c] = pc[c]
    BY <1>5, <2>2 DEF SendInit, Types
  <2>4. Types' /\ StackUse'
    <3>1. esp[Target] # "boot" /\ esp[BSP] # "boot"
      BY <1>5, <2>1, <2>2 DEF SendInit, At, StackUse, APLabels, InFlight
    <3>2. Types'
      BY <1>5, <2>2 DEF SendInit, Types, Labels, Online, bspvars
    <3>. QED  BY <1>5, <2>3, <3>1, <3>2 DEF SendInit, StackUse
  <2>5. MappedUntilWork' /\ APLabels' /\ BSPLabels'
    BY <1>5, <2>2, <2>3 DEF SendInit, At, MappedUntilWork, APLabels, BSPLabels, Starting, InFlight, bspvars
  <2>6. TargetValid' /\ CountTells' /\ OneInFlight'
    BY <1>5, <2>1, <2>2, <2>3 DEF SendInit, At, TargetValid, CountTells, OneInFlight, Starting, bspvars
  <2>. QED  BY <2>4, <2>5, <2>6
<1>6. CASE Deassert \/ SendStartup("startup1", "startup2", TRUE) \/ SendStartup("startup2", "await", FALSE)
  <2>1. pc[BSP] \in Starting /\ pc'[BSP] \in Starting /\ Target \in APs /\ Target' = Target
    BY <1>6 DEF Deassert, SendStartup, At, Goto, Starting, TargetValid, Target, bspvars, Types
  <2>2. /\ \A c \in CPUs : c # BSP /\ c # Target => pc'[c] = pc[c]
        /\ pc'[Target] = pc[Target] \/ (pc[Target] = "wait" /\ pc'[Target] = "real")
    BY <1>6, <2>1 DEF Deassert, SendStartup, Goto, Startup, Types
  <2>3. UNCHANGED <<esp, Kernel_numcpus_online, identity, bspvars>> /\ DOMAIN pc' = CPUs /\ pc' = [c \in CPUs |-> pc'[c]]
    BY <1>6 DEF Deassert, SendStartup, Goto, Types
  <2>4. Types'
    BY <2>1, <2>2, <2>3 DEF Types, Labels, Online, Booting, Starting, bspvars
  <2>5. StackUse' /\ MappedUntilWork' /\ APLabels' /\ BSPLabels'
    BY <2>1, <2>2, <2>3 DEF StackUse, MappedUntilWork, APLabels, BSPLabels, Starting, InFlight, bspvars
  <2>6. TargetValid' /\ CountTells' /\ OneInFlight'
    BY <2>1, <2>2, <2>3 DEF TargetValid, CountTells, OneInFlight, Starting, InFlight, bspvars
  <2>. QED  BY <2>4, <2>5, <2>6
<1>7. CASE AwaitOnline
  <2>1. \A c \in APs : pc[c] \notin InFlight
    BY <1>7 DEF AwaitOnline, CameOnline, At, OneInFlight, CountTells, Starting
  <2>2. Types' /\ StackUse'
    BY <1>7 DEF AwaitOnline, At, Goto, Types, StackUse, Labels, Online
  <2>3. MappedUntilWork' /\ APLabels' /\ BSPLabels' /\ TargetValid' /\ CountTells' /\ OneInFlight'
    BY <1>7, <2>1 DEF AwaitOnline, At, Goto, Types, MappedUntilWork, APLabels, BSPLabels, TargetValid,
                      CountTells, OneInFlight, Starting
  <2>. QED  BY <2>2, <2>3
<1>8. CASE Unmap
  <2>1. \A c \in APs : pc[c] \notin InFlight
    BY <1>8 DEF Unmap, At, OneInFlight, Starting
  <2>2. Types' /\ StackUse'
    BY <1>8 DEF Unmap, At, Goto, Types, StackUse, Labels, Online, bspvars
  <2>3. MappedUntilWork' /\ APLabels' /\ BSPLabels' /\ TargetValid' /\ CountTells' /\ OneInFlight'
    BY <1>8, <2>1 DEF Unmap, At, Goto, Types, MappedUntilWork, APLabels, BSPLabels, TargetValid,
                      CountTells, OneInFlight, Starting
  <2>. QED  BY <2>2, <2>3
<1>. QED
  BY <1>0, <1>1, <1>2, <1>3, <1>4, <1>5, <1>6, <1>7, <1>8 DEF Next, BSPStep

(* Start-up keeps the invariant in every behaviour.                        *)
THEOREM StartInvariance == Spec => []StartInv
BY StartInitInv, StartNextInv, PTL DEF Spec

(* However many processors there are, one at a time uses the boot stack.   *)
THEOREM BootStackIsExclusive == Spec => []BootStackExclusive
<1>1. StartInv => BootStackExclusive
  BY DEF StartInv, StackUse, APLabels, OneInFlight, BootStackExclusive, CPUs, InFlight, Starting
<1>. QED  BY <1>1, StartInvariance, PTL

(* No processor turns paging on without the identity mapping.              *)
THEOREM NoProcessorFaults == Spec => []NoFault
<1>1. StartInv => NoFault
  BY DEF StartInv, APLabels, BSPLabels, NoFault, CPUs, InFlight
<1>. QED  BY <1>1, StartInvariance, PTL

-----------------------------------------------------------------------------
(* The count of the processors.                                            *)

OnlineSet(f) == {c \in CPUs : f[c] \in Online}

Counted == /\ IsFiniteSet(OnlineSet(pc))
           /\ Kernel_numcpus_online = Cardinality(OnlineSet(pc))

(* Between a processor's load of the count and its store nobody else       *)
(* stores.                                                                 *)
RegisterFresh ==
    /\ register \in [CPUs -> Int]
    /\ \A c \in CPUs : pc[c] = "store" => register[c] = Kernel_numcpus_online

(* Initialize_System has started the processors before entry i of the      *)
(* MADT and none after it, whose number no other entry has.                *)
Entries ==
    \A k \in DOMAIN LocalAPIC_Infos :
        /\ k < i => pc[LocalAPIC_Infos[k]] \in Online
        /\ k > i \/ (k = i /\ pc[BSP] \notin Starting) =>
               LocalAPIC_Infos[k] = BSP \/ pc[LocalAPIC_Infos[k]] = "off"

(* A processor that has not heard its INIT has not been counted, and the   *)
(* identity mapping goes only at the end of the MADT.                      *)
NotYetThere ==
    /\ pc[BSP] \in Starting /\ pc[Target] = "off" => Kernel_numcpus_online = inumcpus
    /\ ~identity => i > LocalAPIC_Num

CountInv == Counted /\ RegisterFresh /\ Entries /\ NotYetThere

(* A processor that comes online adds one, and any other step none.        *)
LEMMA OnlineAdd ==
  ASSUME NEW f, NEW g, NEW c \in CPUs, f[c] \notin Online, g[c] \in Online,
         \A d \in CPUs \ {c} : g[d] \in Online <=> f[d] \in Online,
         IsFiniteSet(OnlineSet(f))
  PROVE  /\ IsFiniteSet(OnlineSet(g))
         /\ Cardinality(OnlineSet(g)) = Cardinality(OnlineSet(f)) + 1
<1>1. OnlineSet(g) = OnlineSet(f) \cup {c} /\ c \notin OnlineSet(f)
  BY DEF OnlineSet
<1>. QED  BY <1>1, FS_AddElement

(* A step that brings no processor online leaves their number.             *)
LEMMA OnlineSame ==
  ASSUME NEW f, NEW g, \A d \in CPUs : g[d] \in Online <=> f[d] \in Online
  PROVE  OnlineSet(g) = OnlineSet(f)
BY DEF OnlineSet

(* Nobody is online before Start.                                          *)
LEMMA CountInit == Init => CountInv
<1>. SUFFICES ASSUME Init PROVE CountInv
  OBVIOUS
<1>1. OnlineSet(pc) = {}
  BY DEF Init, OnlineSet, Online
<1>2. Counted
  BY <1>1, FS_EmptySet DEF Init, Counted
<1>3. RegisterFresh
  BY DEF Init, RegisterFresh
<1>4. Entries
  <2>1. \A k \in DOMAIN LocalAPIC_Infos : k >= 1 /\ LocalAPIC_Infos[k] \in CPUs
    OBVIOUS
  <2>. QED  BY <2>1 DEF Init, Entries
<1>5. NotYetThere
  BY DEF Init, NotYetThere, Starting, CPUs
<1>. QED  BY <1>2, <1>3, <1>4, <1>5 DEF CountInv

(* Only one processor at a time is between its load and its store.         *)
LEMMA OneStores ==
  ASSUME StartInv, NEW c \in CPUs, NEW d \in CPUs, pc[c] \in {"load", "store"}, pc[d] \in {"load", "store"}
  PROVE  c = d
BY DEF StartInv, OneInFlight, InFlight, Starting, CPUs

(* Kernel_numcpus_online++ in any processor.                               *)
LEMMA StoreCounts ==
  ASSUME StartInv, CountInv, NEW c \in CPUs, StoreCount(c)
  PROVE  Counted' /\ RegisterFresh' /\ Kernel_numcpus_online' = Kernel_numcpus_online + 1
<1>. USE DEF StoreCount, Goto
<1>1. Kernel_numcpus_online' = Kernel_numcpus_online + 1
  BY DEF CountInv, RegisterFresh
<1>2. /\ pc[c] \notin Online /\ pc'[c] \in Online
      /\ \A d \in CPUs \ {c} : pc'[d] = pc[d]
  BY DEF StartInv, Types, Online
<1>3. Counted'
  <2>0. IsFiniteSet(OnlineSet(pc)) /\ \A d \in CPUs \ {c} : pc'[d] \in Online <=> pc[d] \in Online
    BY <1>2 DEF CountInv, Counted
  <2>1. IsFiniteSet(OnlineSet(pc')) /\ Cardinality(OnlineSet(pc')) = Cardinality(OnlineSet(pc)) + 1
    BY <1>2, <2>0, OnlineAdd
  <2>. QED  BY <1>1, <2>1 DEF CountInv, Counted, OnlineSet
<1>4. RegisterFresh'
  <2>1. \A d \in CPUs : pc'[d] # "store"
    BY <1>2, OneStores DEF Online
  <2>. QED  BY <2>1 DEF CountInv, RegisterFresh
<1>. QED  BY <1>1, <1>3, <1>4

(* The other steps of a processor, which neither count nor touch a count   *)
(* that somebody has loaded.                                               *)
LEMMA OthersCount ==
  ASSUME StartInv, CountInv,
         \A d \in CPUs : /\ pc'[d] \in Online <=> pc[d] \in Online
                         /\ pc'[d] = "store" => pc[d] = "store",
         UNCHANGED <<register, Kernel_numcpus_online>>
  PROVE  Counted' /\ RegisterFresh'
<1>1. OnlineSet(pc') = OnlineSet(pc)
  BY OnlineSame
<1>. QED  BY <1>1 DEF CountInv, Counted, RegisterFresh, OnlineSet

(* The load of the count leaves it, and remembers it.                      *)
LEMMA LoadCounts ==
  ASSUME StartInv, CountInv, NEW c \in CPUs, LoadCount(c)
  PROVE  Counted' /\ RegisterFresh'
<1>. USE DEF LoadCount, Goto
<1>1. \A d \in CPUs : pc'[d] \in Online <=> pc[d] \in Online
  BY DEF StartInv, Types, Online
<1>2. OnlineSet(pc') = OnlineSet(pc)
  BY <1>1, OnlineSame
<1>3. Kernel_numcpus_online \in Int
  BY FS_CardinalityType DEF CountInv, Counted
<1>4. RegisterFresh'
  <2>1. \A d \in CPUs : pc'[d] = "store" => d = c \/ pc[d] = "store"
    BY DEF StartInv, Types
  <2>2. \A d \in CPUs : pc'[d] = "store" => d = c
    BY <2>1, OneStores
  <2>. QED  BY <1>3, <2>2 DEF CountInv, RegisterFresh
<1>. QED  BY <1>2, <1>4 DEF CountInv, Counted, OnlineSet

(* A step of another processor.                                            *)
LEMMA APCount ==
  ASSUME StartInv, CountInv, NEW c \in APs, APStep(c)
  PROVE  CountInv'
<1>. USE DEF CPUs
<1>1. Counted' /\ RegisterFresh'
  <2>1. CASE StoreCount(c)
    BY <2>1, StoreCounts
  <2>2. CASE LoadCount(c)
    BY <2>2, LoadCounts
  <2>3. CASE ~StoreCount(c) /\ ~LoadCount(c)
    <3>0. /\ \A d \in CPUs \ {c} : pc'[d] = pc[d]
          /\ pc'[c] \in Online <=> pc[c] \in Online
          /\ pc'[c] # "store"
      <4>1. PICK l : /\ pc' = [pc EXCEPT ![c] = l]
                     /\ l \in Online <=> pc[c] \in Online
                     /\ l # "store"
        BY <2>3 DEF APStep, StartAP, Common, Initialize_HigherHalf, Initialize_Stack, Initialize_ThisProcessor,
                    GetToWork, Goto, Online
      <4>. QED  BY <4>1 DEF StartInv, Types
    <3>1. \A d \in CPUs : /\ pc'[d] \in Online <=> pc[d] \in Online
                          /\ pc'[d] = "store" => pc[d] = "store"
      BY <3>0
    <3>2. UNCHANGED <<register, Kernel_numcpus_online>>
      BY <2>3 DEF APStep, StartAP, Common, Initialize_HigherHalf, Initialize_Stack, Initialize_ThisProcessor,
                  GetToWork
    <3>. QED  BY <3>1, <3>2, OthersCount
  <2>. QED  BY <2>1, <2>2, <2>3
<1>2. /\ pc[c] \in InFlight \cup {"work"} /\ pc'[c] # "off"
      /\ pc[c] \in Online => pc'[c] \in Online
      /\ \A d \in CPUs \ {c} : pc'[d] = pc[d]
      /\ UNCHANGED <<identity, i, inumcpus, tables>>
  BY DEF APStep, StartAP, Common, Initialize_HigherHalf, Initialize_Stack, Initialize_ThisProcessor,
         LoadCount, StoreCount, GetToWork, Goto, StartInv, Types, InFlight, Online, bspvars, machine
<1>3. pc'[BSP] = pc[BSP]
  BY <1>2
<1>4. Entries'
  <2>. SUFFICES ASSUME NEW k \in DOMAIN LocalAPIC_Infos
                PROVE  /\ k < i => pc'[LocalAPIC_Infos[k]] \in Online
                       /\ k > i \/ (k = i /\ pc[BSP] \notin Starting) =>
                              LocalAPIC_Infos[k] = BSP \/ pc'[LocalAPIC_Infos[k]] = "off"
    BY <1>2, <1>3 DEF Entries
  <2>1. CASE LocalAPIC_Infos[k] = c
    BY <1>2, <2>1 DEF CountInv, Entries, InFlight
  <2>2. CASE LocalAPIC_Infos[k] # c
    <3>1. pc'[LocalAPIC_Infos[k]] = pc[LocalAPIC_Infos[k]]
      BY <1>2, <2>2
    <3>. QED  BY <3>1 DEF CountInv, Entries
  <2>. QED  BY <2>1, <2>2
<1>5. NotYetThere'
  <2>1. Target' = Target /\ LocalAPIC_Num' = LocalAPIC_Num
    BY <1>2 DEF Target, LocalAPIC_Num
  <2>2. ASSUME pc[BSP] \in Starting, pc'[Target] = "off"
        PROVE  pc[Target] = "off" /\ Kernel_numcpus_online' = Kernel_numcpus_online
    <3>1. Target \in APs /\ Target # c
      BY <1>2, <2>2 DEF StartInv, TargetValid
    <3>2. pc[Target] = "off"
      BY <1>2, <2>2, <3>1
    <3>3. pc[c] # "store"
      BY <3>1 DEF StartInv, OneInFlight, InFlight
    <3>. QED
      BY <3>2, <3>3 DEF APStep, StartAP, Common, Initialize_HigherHalf, Initialize_Stack, Initialize_ThisProcessor,
         LoadCount, StoreCount, GetToWork
  <2>. QED  BY <1>2, <1>3, <2>1, <2>2 DEF CountInv, NotYetThere
<1>. QED  BY <1>1, <1>4, <1>5 DEF CountInv

(* A step of the boot processor outside its loop over the MADT.            *)
LEMMA BSPCount ==
  ASSUME StartInv, CountInv,
         \/ Common(BSP) \/ Start \/ Initialize_Memory \/ Initialize_Devices \/ CopyBootCode \/ Unmap
  PROVE  CountInv'
<1>. USE DEF CPUs
<1>1. Counted' /\ RegisterFresh'
  <2>1. CASE StoreCount(BSP)
    BY <2>1, StoreCounts
  <2>2. CASE LoadCount(BSP)
    BY <2>2, LoadCounts
  <2>3. CASE ~StoreCount(BSP) /\ ~LoadCount(BSP)
    <3>0. PICK l : /\ pc' = [pc EXCEPT ![BSP] = l]
                   /\ l \in Online <=> pc[BSP] \in Online
                   /\ l # "store"
      BY <2>3 DEF Common, Initialize_HigherHalf, Initialize_Stack, Initialize_ThisProcessor, GetToWork,
                  Start, Initialize_Memory, Initialize_Devices, CopyBootCode, Unmap, At, Goto, Online
    <3>1. \A d \in CPUs : /\ pc'[d] \in Online <=> pc[d] \in Online
                          /\ pc'[d] = "store" => pc[d] = "store"
      BY <3>0 DEF StartInv, Types
    <3>2. UNCHANGED <<register, Kernel_numcpus_online>>
      BY <2>3 DEF Common, Initialize_HigherHalf, Initialize_Stack, Initialize_ThisProcessor, GetToWork,
                  Start, Initialize_Memory, Initialize_Devices, CopyBootCode, Unmap
    <3>. QED  BY <3>1, <3>2, OthersCount
  <2>. QED  BY <2>1, <2>2, <2>3
<1>2. /\ pc[BSP] \notin Starting /\ pc'[BSP] \notin Starting
      /\ pc[BSP] \in Online => pc'[BSP] \in Online
      /\ \A d \in APs : pc'[d] = pc[d]
      /\ UNCHANGED <<i, tables>>
  BY DEF Common, Initialize_HigherHalf, Initialize_Stack, Initialize_ThisProcessor, LoadCount, StoreCount,
         GetToWork, Start, Initialize_Memory, Initialize_Devices, CopyBootCode, Unmap, At, Goto, Online,
         StartInv, Types, Starting, bspvars, machine
<1>3. Entries'
  BY <1>2 DEF CountInv, Entries
<1>4. NotYetThere'
  <2>1. LocalAPIC_Num' = LocalAPIC_Num
    BY <1>2 DEF LocalAPIC_Num
  <2>2. ~identity' => i > LocalAPIC_Num
    BY DEF Common, Initialize_HigherHalf, Initialize_Stack, Initialize_ThisProcessor, LoadCount, StoreCount,
           GetToWork, Start, Initialize_Memory, Initialize_Devices, CopyBootCode, Unmap, CountInv, NotYetThere
  <2>. QED  BY <1>2, <2>1, <2>2 DEF NotYetThere
<1>. QED  BY <1>1, <1>3, <1>4 DEF CountInv

(* A turn of the loop over the MADT.                                       *)
LEMMA LoopCount ==
  ASSUME StartInv, CountInv, NextCPU \/ AwaitOnline
  PROVE  CountInv'
<1>. USE DEF CPUs
<1>0. /\ pc[BSP] \in {"next", "await"} /\ pc'[BSP] \in {"next", "init"}
      /\ \A d \in APs : pc'[d] = pc[d]
      /\ UNCHANGED <<register, Kernel_numcpus_online, identity, tables>>
  BY DEF NextCPU, AwaitOnline, At, Goto, StartInv, Types, machine
<1>1. \A d \in CPUs : /\ pc'[d] \in Online <=> pc[d] \in Online
                      /\ pc'[d] = "store" => pc[d] = "store"
  BY <1>0 DEF Online
<1>2. Counted' /\ RegisterFresh'
  BY <1>0, <1>1, OthersCount
<1>3. /\ i \in DOMAIN LocalAPIC_Infos
      /\ \/ i' = i /\ pc[BSP] = "next"
         \/ i' = i + 1 /\ pc[LocalAPIC_Infos[i]] \in Online
  <2>1. CASE NextCPU
    BY <2>1 DEF NextCPU, At, LocalAPIC_Num, StartInv, Types, Online
  <2>2. CASE AwaitOnline
    <3>1. i \in DOMAIN LocalAPIC_Infos /\ Target \in APs
      BY <2>2 DEF AwaitOnline, At, StartInv, TargetValid, Starting
    <3>2. pc[Target] \notin InFlight \cup {"off"}
      BY <2>2 DEF AwaitOnline, At, CameOnline, CountInv, NotYetThere, StartInv, CountTells, Starting
    <3>. QED  BY <2>2, <3>1, <3>2 DEF AwaitOnline, StartInv, APLabels, Online, Target
  <2>. QED  BY <2>1, <2>2
<1>4. \A d \in CPUs : pc[d] \in Online => pc'[d] \in Online
  BY <1>1
<1>5. Entries'
  <2>. SUFFICES ASSUME NEW k \in DOMAIN LocalAPIC_Infos
                PROVE  /\ k < i' => pc'[LocalAPIC_Infos[k]] \in Online
                       /\ k >= i' => LocalAPIC_Infos[k] = BSP \/ pc'[LocalAPIC_Infos[k]] = "off"
    BY <1>0, <1>3 DEF Entries, Starting, StartInv, Types
  <2>1. LocalAPIC_Infos[k] \in CPUs /\ k \in Int /\ i \in Int
    BY DEF StartInv, Types
  <2>2. k < i' => pc'[LocalAPIC_Infos[k]] \in Online
    BY <1>3, <1>4, <2>1 DEF CountInv, Entries
  <2>3. k >= i' => LocalAPIC_Infos[k] = BSP \/ pc'[LocalAPIC_Infos[k]] = "off"
    BY <1>0, <1>3, <2>1 DEF CountInv, Entries, Starting
  <2>. QED  BY <2>2, <2>3
<1>6. NotYetThere'
  <2>1. identity
    BY <1>0 DEF StartInv, MappedUntilWork
  <2>. QED  BY <1>0, <2>1 DEF NotYetThere, Starting
<1>. QED  BY <1>2, <1>5, <1>6 DEF CountInv

(* The messages of Initialize_CPU: they reach only a processor that has    *)
(* not started.                                                            *)
LEMMA MessageCount ==
  ASSUME StartInv, CountInv,
         \/ SendInit \/ Deassert
         \/ SendStartup("startup1", "startup2", TRUE) \/ SendStartup("startup2", "await", FALSE)
  PROVE  CountInv'
<1>. USE DEF CPUs
<1>0. /\ pc[BSP] \in Starting \cup {"init"} /\ pc'[BSP] \in Starting
      /\ Target \in APs /\ i \in DOMAIN LocalAPIC_Infos
      /\ UNCHANGED <<register, Kernel_numcpus_online, identity, i, inumcpus, tables>>
  BY DEF SendInit, Deassert, SendStartup, At, Goto, Starting, StartInv, TargetValid, Types, bspvars, machine
<1>1. pc[BSP] = "init" => pc[Target] = "off"
  BY <1>0 DEF CountInv, Entries, Target, Starting
<1>2. /\ \A d \in APs \ {Target} : pc'[d] = pc[d]
      /\ pc'[Target] \in {pc[Target], "wait", "real"}
      /\ pc'[Target] # pc[Target] => pc[Target] \in {"off", "wait"}
  <2>1. CASE SendInit
    BY <1>0, <1>1, <2>1 DEF SendInit, At, StartInv, Types
  <2>2. CASE ~SendInit
    BY <1>0, <2>2 DEF Deassert, SendStartup, Goto, Startup, StartInv, Types
  <2>. QED  BY <2>1, <2>2
<1>3. \A d \in CPUs : /\ pc'[d] \in Online <=> pc[d] \in Online
                      /\ pc'[d] = "store" => pc[d] = "store"
  BY <1>0, <1>2 DEF Online, Starting
<1>4. Counted' /\ RegisterFresh'
  BY <1>0, <1>3, OthersCount
<1>5. Entries'
  <2>. SUFFICES ASSUME NEW k \in DOMAIN LocalAPIC_Infos
                PROVE  /\ k < i => pc'[LocalAPIC_Infos[k]] \in Online
                       /\ k > i => LocalAPIC_Infos[k] = BSP \/ pc'[LocalAPIC_Infos[k]] = "off"
    BY <1>0 DEF Entries
  <2>1. LocalAPIC_Infos[k] \in CPUs /\ k \in Int /\ i \in Int
    BY <1>0
  <2>2. k < i => pc'[LocalAPIC_Infos[k]] \in Online
    BY <1>3, <2>1 DEF CountInv, Entries
  <2>3. k > i => LocalAPIC_Infos[k] \in APs \ {Target} \/ LocalAPIC_Infos[k] = BSP
    BY <1>0, <2>1 DEF Target
  <2>. QED  BY <1>2, <2>2, <2>3 DEF CountInv, Entries
<1>6. NotYetThere'
  <2>1. Target' = Target /\ LocalAPIC_Num' = LocalAPIC_Num
    BY <1>0 DEF Target, LocalAPIC_Num
  <2>2. pc'[Target] = "off" => pc[Target] = "off"
    BY <1>2
  <2>3. pc[Target] = "off" => Kernel_numcpus_online = inumcpus
    BY <1>0 DEF CountInv, NotYetThere, StartInv, CountTells
  <2>. QED  BY <1>0, <2>1, <2>2, <2>3 DEF CountInv, NotYetThere
<1>. QED  BY <1>4, <1>5, <1>6 DEF CountInv

(* However many processors there are and whatever messages are lost, no    *)
(* increment of the unsynchronised count is lost, and every processor of   *)
(* the MADT is counted when the identity mapping goes.                     *)
THEOREM CountIsExact == Spec => []CountExact
<1>1. StartInv /\ CountInv /\ [Next]_vars => CountInv'
  <2>1. ASSUME StartInv, CountInv, Next PROVE CountInv'
    BY <2>1, APCount, BSPCount, LoopCount, MessageCount DEF Next, BSPStep
  <2>2. ASSUME StartInv, CountInv, UNCHANGED vars PROVE CountInv'
    BY <2>2 DEF vars, bspvars, machine, CountInv, Counted, RegisterFresh, Entries, NotYetThere, OnlineSet,
                Target, LocalAPIC_Num
  <2>. QED  BY <2>1, <2>2
<1>2. StartInv /\ CountInv => CountExact
  <2>. SUFFICES ASSUME StartInv, CountInv PROVE CountExact
    OBVIOUS
  <2>1. Kernel_numcpus_online = Cardinality({c \in CPUs : pc[c] \in Online})
    BY DEF CountInv, Counted, OnlineSet
  <2>2. ASSUME ~identity, tables, NEW k \in DOMAIN LocalAPIC_Infos PROVE pc[LocalAPIC_Infos[k]] \in Online
    <3>1. k \in Int /\ i \in Int /\ k <= Len(LocalAPIC_Infos) /\ i > Len(LocalAPIC_Infos)
      BY <2>2 DEF CountInv, NotYetThere, LocalAPIC_Num, StartInv, Types
    <3>. QED  BY <3>1 DEF CountInv, Entries
  <2>. QED  BY <2>1, <2>2 DEF CountExact
<1>. QED  BY <1>1, <1>2, CountInit, StartInvariance, PTL DEF Spec
=============================================================================
