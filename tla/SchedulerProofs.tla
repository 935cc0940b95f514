-------------------------- MODULE SchedulerProofs --------------------------
(***************************************************************************)
(* Proofs, for any number of CPUs, slots and alarms, that the scheduler    *)
(* hands Process_lock over correctly and never runs a process twice; for   *)
(* any number of locks, that a sleep lock on top of it excludes; and, for  *)
(* any number of stacks, that forks, waits and exits share out the slots   *)
(* and the kernel stacks.                                                  *)
(***************************************************************************)
EXTENDS SleepLock, Processes, FiniteSetTheorems, WellFoundedInduction, TLAPS

USE DEF Base, Intr

Inside == {"held", "done"}

(* Where the base frame of a process can be.                               *)
CallLabels == Labels \ {"preempt", "iret", "schedule"}

(* Interrupt frames run Process_Preempt and nothing else, and base frames  *)
(* of processes never do.                                                  *)
FrameLabels ==
    \A s \in Slots : /\ pc[Base(s)] \notin {"preempt", "iret", "schedule"}
                     /\ ph[Intr(s)] # "off" => pc[Intr(s)] \in {"preempt", "iret"}

(* A process is in one critical section at a time: its interrupt frame     *)
(* gets the lock only when its base frame does not hold it.                *)
OneSection == \A s \in Slots : ~(ph[Base(s)] \in Inside /\ ph[Intr(s)] \in Inside)

(* No stack is on two CPUs, a RUNNING slot is on one, and a slot that is   *)
(* on one is RUNNING, or DEAD after Process_Terminate (in Processes).      *)
Located ==
    /\ \A c, d \in CPUs : on[c] = on[d] => c = d
    /\ \A s \in Slots : status[s] = "RUNNING" => \E c \in CPUs : on[c] = s
    /\ \A c \in CPUs : on[c] \in Slots => status[on[c]] \in {"RUNNING", "DEAD"}

Inv == /\ TypeOK
       /\ FrameLabels
       /\ OneSection
       /\ LockHandover
       /\ Located
       /\ HomeCPU
       /\ ParkedInCriticalSection

USE MaxProcsAssumption, ContextAssumption, NullAssumption, VetoSizeAssumption, RunTimeAssumption

(* Counting vetos up or down modulo VetoSize stays in range.               *)
LEMMA VetoTypes == \A v \in 0 .. VetoSize - 1 :
                      Increment(v) \in 0 .. VetoSize - 1 /\ Decrement(v) \in 0 .. VetoSize - 1
BY DEF Increment, Decrement

(* The state the CPUs enter Schedule() with satisfies the invariant.       *)
LEMMA InitInv == Init => Inv
<1>. SUFFICES ASSUME Init PROVE Inv
  OBVIOUS
<1>0. PICK published \in SUBSET Slots : InitWith(published)
  BY DEF Init
<1>. USE <1>0
<1>1. TypeOK
  <2>1. ph \in [Frames -> Phases]
    BY DEF InitWith, Phases, NewPhase
  <2>2. pc \in [Frames -> Labels]
    BY DEF InitWith, NewLabel, Labels
  <2>3. \A x \in Contexts : ph[Base(x)] # "off"
    BY DEF InitWith, Contexts, Frames, NewPhase
  <2>4. \A x \in CPUs : ph[Intr(x)] = "off" /\ pc[Base(x)] = "schedule"
    BY DEF InitWith, Contexts, Frames, NewPhase
  <2>5. status \in [Slots -> Status] /\ spent \in [Slots -> 0 .. RunTime + 1] /\ iproc \in [CPUs -> Slots]
    BY DEF InitWith, Slots, Status
  <2>6. vetos \in [Contexts -> 0 .. VetoSize - 1] /\ on \in [CPUs -> Contexts]
    BY DEF InitWith, Contexts, NewVetos
  <2>. QED
    BY <2>1, <2>2, <2>3, <2>4, <2>5, <2>6 DEF InitWith, TypeOK
<1>2. FrameLabels /\ OneSection
  BY DEF InitWith, FrameLabels, OneSection, Inside, Slots, Contexts, Frames, NewPhase, NewLabel
<1>3. LockHandover
  BY DEF InitWith, LockHandover, Holds, Contexts, Frames, NewPhase
<1>4. Located /\ HomeCPU
  BY DEF InitWith, Located, HomeCPU, Contexts
<1>5. ParkedInCriticalSection
  BY DEF InitWith, ParkedInCriticalSection, Contexts, Frames, NewPhase, Top
<1>. QED
  BY <1>1, <1>2, <1>3, <1>4, <1>5 DEF Inv

(* Schedule()'s index wraps to the start of the process table.             *)
LEMMA NextSlotType == \A i \in Slots : NextSlot(i) \in Slots
BY DEF NextSlot, Slots

(* The step leaves the phases of both frames of x alone.                   *)
FramesKept(x) == ph'[Base(x)] = ph[Base(x)] /\ ph'[Intr(x)] = ph[Intr(x)]

(* The scheduler threads keep their shape when a process's frame moves.    *)
LEMMA ThreadsKept ==
  ASSUME TypeOK, NEW c \in CPUs, on[c] \in Slots,
         \A x \in Contexts \ {on[c]} : FramesKept(x),
         \A x \in Contexts \ {on[c]} : pc'[Base(x)] = pc[Base(x)],
         ph'[Base(on[c])] # "off"
  PROVE  /\ \A x \in Contexts : ph'[Base(x)] # "off"
         /\ \A x \in CPUs : ph'[Intr(x)] = "off" /\ pc'[Base(x)] = "schedule"
<1>1. \A x \in CPUs : x \in Contexts \ {on[c]}
  BY DEF Contexts
<1>. QED
  BY <1>1 DEF TypeOK, FramesKept

(* A step of CPU c that leaves the frames of the other contexts alone      *)
(* does not change which of the contexts on other CPUs hold the lock.      *)
LEMMA OthersHold ==
  ASSUME TypeOK, Located, NEW c \in CPUs,
         \A d \in CPUs \ {c} : on'[d] = on[d],
         \A x \in Contexts \ {on[c]} : FramesKept(x)
  PROVE  \A d \in CPUs \ {c} : Holds(on[d])' <=> Holds(on[d])
<1>1. \A d \in CPUs \ {c} : on[d] \in Contexts \ {on[c]}
  BY DEF TypeOK, Located
<1>2. \A d \in CPUs \ {c} : FramesKept(on[d])
  BY <1>1
<1>. QED
  BY <1>2 DEF Holds, FramesKept

(* The process on a CPU and the labels it can be at.                       *)
LEMMA TopFrame ==
  ASSUME Inv, NEW c \in CPUs
  PROVE  /\ on[c] \in Contexts
         /\ Top(on[c]) \in Frames
         /\ pc[Top(on[c])] \in {"preempt", "iret"} => on[c] \in Slots /\ Top(on[c]) = Intr(on[c])
         /\ pc[Top(on[c])] \notin {"preempt", "iret", "schedule"} =>
                on[c] \in Slots /\ Top(on[c]) = Base(on[c]) /\ ph[Intr(on[c])] = "off"
         /\ on[c] \in CPUs => on[c] = c /\ Top(on[c]) = Base(on[c])
<1>1. on[c] \in Contexts /\ Top(on[c]) \in Frames
  BY DEF Inv, TypeOK, Top, Frames
<1>2. on[c] \in CPUs => /\ on[c] = c /\ Top(on[c]) = Base(on[c])
                       /\ pc[Top(on[c])] = "schedule"
  BY DEF Inv, TypeOK, HomeCPU, Top
<1>3. on[c] \in Slots => \/ Top(on[c]) = Base(on[c]) /\ ph[Intr(on[c])] = "off"
                             /\ pc[Top(on[c])] \notin {"preempt", "iret", "schedule"}
                         \/ Top(on[c]) = Intr(on[c]) /\ pc[Top(on[c])] \in {"preempt", "iret"}
  BY DEF Inv, FrameLabels, Top
<1>. QED
  BY <1>1, <1>2, <1>3 DEF Contexts

(* What a step of CPU c has to show when it does not switch contexts: the  *)
(* frames it touches are those of its own context, it keeps every slot     *)
(* running or parked, and the lock flag follows what its context holds.    *)
LEMMA LocalStep ==
  ASSUME Inv, NEW c \in CPUs,
         UNCHANGED <<on, kernel_task, esp0>>,
         \A s \in Slots : /\ status'[s] = "RUNNING" => status[s] = "RUNNING"
                          /\ status[s] \in {"RUNNING", "DEAD"} => status'[s] \in {"RUNNING", "DEAD"}
                          /\ status'[s] \in {"RUNNABLE", "ASLEEP"} => status[s] \in {"RUNNABLE", "ASLEEP"},
         \A x \in Contexts \ {on[c]} : FramesKept(x),
         \/ UNCHANGED Process_lock /\ (Holds(on[c])' <=> Holds(on[c]))
         \/ ~Process_lock /\ Process_lock' = TRUE /\ Holds(on[c])'
         \/ Holds(on[c]) /\ Process_lock' = FALSE /\ ~Holds(on[c])',
         TypeOK', FrameLabels', OneSection'
  PROVE  Inv'
<1>. USE DEF Inv
<1>1. \A d \in CPUs \ {c} : Holds(on[d])' <=> Holds(on[d])
  BY OthersHold
<1>2. LockHandover'
  BY <1>1 DEF LockHandover
<1>3. Located' /\ HomeCPU'
  BY DEF Located, HomeCPU
<1>4. \A s \in Slots : status'[s] \in {"RUNNABLE", "ASLEEP"} => ph'[Top(s)'] \in {"held", "done"}
  <2>. SUFFICES ASSUME NEW s \in Slots, status'[s] \in {"RUNNABLE", "ASLEEP"}
                PROVE  ph'[Top(s)'] \in {"held", "done"}
    OBVIOUS
  <2>1. s # on[c] /\ s \in Contexts
    BY DEF Located, Contexts
  <2>2. FramesKept(s)
    BY <2>1
  <2>. QED
    BY <2>2 DEF ParkedInCriticalSection, FramesKept, Top
<1>5. \A d \in CPUs : on'[d] \in Slots => ph'[Base(d)] = "done"
  <2>. SUFFICES ASSUME NEW d \in CPUs, on[d] \in Slots PROVE ph'[Base(d)] = "done"
    OBVIOUS
  <2>1. d # on[c] /\ d \in Contexts
    BY DEF HomeCPU, Contexts
  <2>. QED
    BY <2>1 DEF ParkedInCriticalSection, FramesKept
<1>. QED
  BY <1>2, <1>3, <1>4, <1>5 DEF ParkedInCriticalSection

(* Taking a veto in SpinLock_Acquire changes nobody's hold on the lock.    *)
LEMMA SpinEnterInv ==
  ASSUME Inv, NEW c \in CPUs, NEW labels, SpinEnter(c, labels)
  PROVE  Inv'
<1>. USE DEF Inv, SpinEnter
<1>0. /\ on[c] \in Contexts /\ Top(on[c]) \in Frames
      /\ on[c] \in CPUs => on[c] = c /\ Top(on[c]) = Base(on[c])
  BY TopFrame
<1>1. TypeOK'
  BY <1>0, VetoTypes DEF TypeOK, Contexts, Frames, Phases
<1>2. \A x \in Contexts \ {on[c]} : FramesKept(x)
  BY <1>0 DEF TypeOK, FramesKept, Top, Frames
<1>3. Holds(on[c])' <=> Holds(on[c])
  BY <1>0 DEF TypeOK, Holds, Top, Frames, Contexts
<1>4. FrameLabels'
  BY <1>0 DEF TypeOK, FrameLabels, Top, Frames, Contexts
<1>5. OneSection'
  BY <1>0, <1>2, <1>3 DEF TypeOK, OneSection, Inside, Holds, FramesKept, Top, Frames, Contexts
<1>. QED
  BY <1>0, <1>1, <1>2, <1>3, <1>4, <1>5, LocalStep DEF TypeOK, Contexts

(* The test-and-set succeeds only when no executing context holds the lock.*)
LEMMA SpinTakeInv ==
  ASSUME Inv, NEW c \in CPUs, SpinTake(c)
  PROVE  Inv'
<1>. USE DEF Inv, SpinTake, TestAndSet
<1>0. /\ on[c] \in Contexts /\ Top(on[c]) \in Frames
      /\ on[c] \in CPUs => on[c] = c /\ Top(on[c]) = Base(on[c])
  BY TopFrame
<1>1. TypeOK'
  BY <1>0 DEF TypeOK, Contexts, Frames, Phases
<1>2. \A x \in Contexts \ {on[c]} : FramesKept(x)
  BY <1>0 DEF TypeOK, FramesKept, Top, Frames
<1>3. ~Holds(on[c]) /\ Holds(on[c])'
  <2>1. ~Holds(on[c])
    BY DEF LockHandover
  <2>2. ph'[Top(on[c])] = "held"
    BY <1>0 DEF TypeOK
  <2>. QED
    BY <2>1, <2>2 DEF Holds, Top
<1>4. FrameLabels'
  BY <1>0 DEF TypeOK, FrameLabels, Top, Frames, Contexts
<1>5. OneSection'
  BY <1>0, <1>2, <1>3 DEF TypeOK, OneSection, Inside, Holds, FramesKept, Top, Frames, Contexts
<1>. QED
  BY <1>0, <1>1, <1>2, <1>3, <1>4, <1>5, LocalStep DEF TypeOK, Contexts

(* The context that clears the flag was the holder, in one frame only.     *)
LEMMA SpinDropInv ==
  ASSUME Inv, NEW c \in CPUs, SpinDrop(c)
  PROVE  Inv'
<1>. USE DEF Inv, SpinDrop
<1>0. /\ on[c] \in Contexts /\ Top(on[c]) \in Frames
      /\ on[c] \in CPUs => on[c] = c /\ Top(on[c]) = Base(on[c])
  BY TopFrame
<1>1. TypeOK'
  BY <1>0 DEF TypeOK, Contexts, Frames, Phases
<1>2. \A x \in Contexts \ {on[c]} : FramesKept(x)
  BY <1>0 DEF TypeOK, FramesKept, Top, Frames
<1>3. Holds(on[c]) /\ ~Holds(on[c])'
  <2>1. Holds(on[c])
    BY DEF Holds, Top
  <2>2. ~Holds(on[c])'
    BY <1>0 DEF TypeOK, OneSection, Inside, Holds, Top, Frames, Contexts
  <2>. QED
    BY <2>1, <2>2
<1>4. FrameLabels'
  BY <1>0 DEF TypeOK, FrameLabels, Top, Frames, Contexts
<1>5. OneSection'
  BY <1>0, <1>2, <1>3 DEF TypeOK, OneSection, Inside, Holds, FramesKept, Top, Frames, Contexts
<1>. QED
  BY <1>0, <1>1, <1>2, <1>3, <1>4, <1>5, LocalStep DEF TypeOK, Contexts

(* Giving the veto back changes nobody's hold on the lock.                 *)
LEMMA SpinLeaveInv ==
  ASSUME Inv, NEW c \in CPUs, SpinLeave(c)
  PROVE  Inv'
<1>. USE DEF Inv, SpinLeave
<1>0. /\ on[c] \in Contexts /\ Top(on[c]) \in Frames
      /\ on[c] \in CPUs => on[c] = c /\ Top(on[c]) = Base(on[c])
  BY TopFrame
<1>1. TypeOK'
  BY <1>0, VetoTypes, NextSlotType DEF TypeOK, Contexts, Frames, Phases
<1>2. \A x \in Contexts \ {on[c]} : FramesKept(x)
  BY <1>0 DEF TypeOK, FramesKept, Top, Frames
<1>3. Holds(on[c])' <=> Holds(on[c])
  BY <1>0 DEF TypeOK, Holds, Top, Frames, Contexts
<1>4. FrameLabels'
  BY <1>0 DEF TypeOK, FrameLabels, Top, Frames, Contexts
<1>5. OneSection'
  BY <1>0, <1>2, <1>3 DEF TypeOK, OneSection, Inside, Holds, FramesKept, Top, Frames, Contexts
<1>. QED
  BY <1>0, <1>1, <1>2, <1>3, <1>4, <1>5, LocalStep DEF TypeOK, Contexts

(* Schedule() passes over a slot it may not run and keeps the lock.        *)
LEMMA PassOverInv ==
  ASSUME Inv, NEW c \in CPUs, PassOver(c)
  PROVE  Inv'
<1>. USE DEF Inv, PassOver
<1>0. /\ on[c] \in Contexts /\ Top(on[c]) \in Frames
      /\ on[c] \in CPUs => on[c] = c /\ Top(on[c]) = Base(on[c])
  BY TopFrame
<1>1. TypeOK'
  BY <1>0 DEF TypeOK, Contexts, Frames, Phases
<1>2. \A x \in Contexts \ {on[c]} : FramesKept(x)
  BY <1>0 DEF TypeOK, FramesKept, Top, Frames
<1>3. Holds(on[c])' <=> Holds(on[c])
  BY <1>0 DEF TypeOK, Holds, Top, Frames, Contexts
<1>4. FrameLabels'
  BY <1>0 DEF TypeOK, FrameLabels, Top, Frames, Contexts
<1>5. OneSection'
  BY <1>0, <1>2, <1>3 DEF TypeOK, OneSection, Inside, Holds, FramesKept, Top, Frames, Contexts
<1>. QED
  BY <1>0, <1>1, <1>2, <1>3, <1>4, <1>5, LocalStep DEF TypeOK, Contexts

(* Schedule() switches to a parked slot, which takes over the lock.        *)
LEMMA DispatchInv ==
  ASSUME Inv, NEW c \in CPUs, Dispatch(c)
  PROVE  Inv'
<1>. DEFINE s == iproc[c]
<1>. USE DEF Inv, Dispatch, Ready, MarkRunning, Context_SetupProcess
<1>1. /\ on[c] = c /\ s \in Slots /\ c \in Contexts /\ s \in Contexts
      /\ status[s] = "RUNNABLE" /\ ph[Base(c)] = "held" /\ c # s
  BY DEF TypeOK, HomeCPU, Contexts
<1>2. \A d \in CPUs : on[d] # s
  BY <1>1 DEF Located
<1>3. /\ \A d \in CPUs \ {c} : on'[d] = on[d] /\ on'[c] = s
      /\ \A d \in CPUs \ {c} : on[d] # c
  BY <1>1 DEF TypeOK, HomeCPU, Located
<1>4. TypeOK'
  BY <1>1 DEF TypeOK, Contexts, Frames, Phases, Status
<1>5. \A x \in Contexts \ {on[c]} : FramesKept(x)
  BY <1>1 DEF TypeOK, FramesKept, Frames
<1>6. \A d \in CPUs \ {c} : Holds(on[d])' <=> Holds(on[d])
  BY <1>3, <1>5, OthersHold
<1>7. Holds(on[c]) /\ Holds(on[c])'
  <2>1. Holds(on[c])
    BY <1>1 DEF Holds
  <2>2. ph[Top(s)] \in {"held", "done"}
    BY <1>1 DEF ParkedInCriticalSection
  <2>3. \E l \in {"base", "intr"} : ph'[<<s, l>>] \in {"held", "done"}
    BY <1>1, <1>5, <2>2 DEF Top, FramesKept
  <2>. QED
    BY <1>3, <2>1, <2>3 DEF Holds
<1>8. FrameLabels' /\ OneSection'
  BY <1>1, <1>5 DEF TypeOK, FrameLabels, OneSection, Inside, FramesKept, Contexts
<1>9. LockHandover'
  BY <1>6, <1>7 DEF LockHandover
<1>10. Located'
  BY <1>1, <1>2, <1>3 DEF TypeOK, Located
<1>11. HomeCPU'
  BY <1>1, <1>2, <1>3 DEF TypeOK, HomeCPU
<1>12. ParkedInCriticalSection'
  <2>1. ph'[Base(c)] = "done"
    BY <1>1 DEF TypeOK, Frames
  <2>2. \A d \in CPUs : on'[d] \in Slots => ph'[Base(d)] = "done"
    BY <1>1, <1>3, <1>5, <2>1 DEF ParkedInCriticalSection, FramesKept, Contexts
  <2>3. \A t \in Slots : Top(t)' = Top(t) /\ ph'[Top(t)] = ph[Top(t)]
    BY <1>1, <1>5 DEF Top, FramesKept, Contexts
  <2>4. \A t \in Slots : status'[t] \in {"RUNNABLE", "ASLEEP"} => status[t] \in {"RUNNABLE", "ASLEEP"}
    BY <1>1 DEF TypeOK
  <2>. QED
    BY <2>2, <2>3, <2>4 DEF ParkedInCriticalSection
<1>. QED
  BY <1>4, <1>8, <1>9, <1>10, <1>11, <1>12

(* An interrupt adds a frame that is in no critical section.               *)
LEMMA InterruptInv ==
  ASSUME Inv, NEW c \in CPUs, NEW ticks \in {0, 1}, Interrupt(c, ticks)
  PROVE  Inv'
<1>. USE DEF Inv, Interrupt, Move
<1>0. /\ on[c] \in Slots /\ on[c] \in Contexts
      /\ Base(on[c]) \in Frames /\ Intr(on[c]) \in Frames
  BY DEF TypeOK, Contexts, Frames
<1>1. spent' \in [Slots -> 0 .. RunTime + 1]
  BY <1>0 DEF TypeOK
<1>2. intr' \in [CPUs -> BOOLEAN]
  BY DEF TypeOK
<1>3. CASE vetos[on[c]] = 0
  <2>. USE <1>3
  <2>1. /\ ph' = [ph EXCEPT ![Intr(on[c])] = "out"]
        /\ pc' = [pc EXCEPT ![Intr(on[c])] = "preempt"]
        /\ ph[Intr(on[c])] \in {"off", "out"}
    OBVIOUS
  <2>2. ph' \in [Frames -> Phases] /\ pc' \in [Frames -> Labels]
    BY <1>0, <2>1 DEF TypeOK, Phases, Labels
  <2>3. \A x \in Contexts \ {on[c]} : FramesKept(x) /\ pc'[Base(x)] = pc[Base(x)] /\ pc'[Intr(x)] = pc[Intr(x)]
    BY <1>0, <2>1 DEF TypeOK, FramesKept, Frames
  <2>4. /\ ph'[Base(on[c])] = ph[Base(on[c])] /\ ph'[Intr(on[c])] = "out"
        /\ pc'[Base(on[c])] = pc[Base(on[c])] /\ pc'[Intr(on[c])] = "preempt"
    BY <1>0, <2>1 DEF TypeOK
  <2>5. TypeOK'
    <3>1. ph'[Base(on[c])] # "off"
      BY <1>0, <2>4 DEF TypeOK
    <3>. QED
      BY <1>0, <1>1, <1>2, <2>2, <2>3, <3>1, ThreadsKept DEF TypeOK
  <2>6. Holds(on[c])' <=> Holds(on[c])
    BY <2>1, <2>4 DEF Holds
  <2>7. FrameLabels' /\ OneSection'
    BY <2>3, <2>4 DEF FrameLabels, OneSection, Inside, FramesKept, Contexts
  <2>. QED
    BY <2>3, <2>5, <2>6, <2>7, LocalStep
<1>4. CASE vetos[on[c]] # 0
  <2>1. UNCHANGED <<ph, pc, intr>>
    BY <1>4
  <2>2. TypeOK' /\ FrameLabels' /\ OneSection'
    BY <1>1, <2>1 DEF TypeOK, FrameLabels, OneSection
  <2>3. (\A x \in Contexts : FramesKept(x)) /\ (Holds(on[c])' <=> Holds(on[c]))
    BY <2>1 DEF FramesKept, Holds
  <2>. QED
    BY <2>2, <2>3, LocalStep
<1>. QED
  BY <1>3, <1>4

(* Returning from an interrupt drops a frame outside its section.          *)
LEMMA IretInv ==
  ASSUME Inv, NEW c \in CPUs, Iret(c)
  PROVE  Inv'
<1>. USE DEF Inv, Iret, At
<1>0. /\ on[c] \in Slots /\ Top(on[c]) = Intr(on[c])
      /\ Base(on[c]) \in Frames /\ Intr(on[c]) \in Frames /\ on[c] \in Contexts
  BY TopFrame DEF Frames
<1>1. TypeOK'
  BY <1>0 DEF TypeOK, Contexts, Frames, Phases
<1>2. \A x \in Contexts \ {on[c]} : FramesKept(x)
  BY <1>0 DEF TypeOK, FramesKept, Top, Frames
<1>3. Holds(on[c])' <=> Holds(on[c])
  BY <1>0 DEF TypeOK, Holds, Top, Frames, Contexts
<1>4. FrameLabels'
  BY <1>0 DEF TypeOK, FrameLabels, Top, Frames, Contexts
<1>5. OneSection'
  BY <1>0, <1>2, <1>3 DEF TypeOK, OneSection, Inside, Holds, FramesKept, Top, Frames, Contexts
<1>. QED
  BY <1>0, <1>1, <1>2, <1>3, <1>4, <1>5, LocalStep DEF TypeOK, Contexts

(* A system call returns through Process_Preempt or straight to user mode. *)
LEMMA Interrupt_ReturnInv ==
  ASSUME Inv, NEW c \in CPUs, Interrupt_Return(c)
  PROVE  Inv'
<1>. USE DEF Inv, Interrupt_Return, At
<1>0. /\ on[c] \in Slots /\ Top(on[c]) = Base(on[c]) /\ ph[Intr(on[c])] = "off"
      /\ Base(on[c]) \in Frames /\ Intr(on[c]) \in Frames /\ on[c] \in Contexts
  BY TopFrame DEF Frames
<1>1. pc' \in [Frames -> Labels] /\ intr' \in [CPUs -> BOOLEAN]
  BY <1>0 DEF TypeOK, Labels
<1>2. /\ pc'[Base(on[c])] = "user" /\ pc'[Intr(on[c])] = "preempt"
      /\ \A x \in Contexts \ {on[c]} : pc'[Base(x)] = pc[Base(x)] /\ pc'[Intr(x)] = pc[Intr(x)]
  BY <1>0 DEF TypeOK, Frames
<1>3. \/ ph' = [ph EXCEPT ![Intr(on[c])] = "out"]
      \/ ph' = ph
  OBVIOUS
<1>4. ph' \in [Frames -> Phases]
  BY <1>0, <1>3 DEF TypeOK, Phases
<1>5. /\ \A x \in Contexts \ {on[c]} : FramesKept(x)
      /\ ph'[Base(on[c])] = ph[Base(on[c])] /\ ph'[Intr(on[c])] \in {"off", "out"}
  BY <1>0, <1>3 DEF TypeOK, FramesKept, Frames
<1>6. TypeOK'
  <2>1. ph'[Base(on[c])] # "off"
    BY <1>0, <1>5 DEF TypeOK
  <2>. QED
    BY <1>0, <1>1, <1>2, <1>4, <1>5, <2>1, ThreadsKept DEF TypeOK
<1>7. Holds(on[c])' <=> Holds(on[c])
  BY <1>0, <1>5 DEF Holds
<1>8. FrameLabels' /\ OneSection'
  BY <1>2, <1>5 DEF FrameLabels, OneSection, Inside, FramesKept, Contexts
<1>. QED
  BY <1>5, <1>6, <1>7, <1>8, LocalStep

(* A process goes on to another point of its call; its vetos may change,   *)
(* as they do when it takes or frees another spin lock.                    *)
LEMMA CallStepInv ==
  ASSUME Inv, NEW c \in CPUs, on[c] \in Slots, Top(on[c]) = Base(on[c]), NEW label \in CallLabels,
         pc' = [pc EXCEPT ![Base(on[c])] = label],
         vetos' \in [Contexts -> 0 .. VetoSize - 1],
         UNCHANGED <<status, wakeup_on, Process_lock, on, kernel_task, esp0, intr, iproc, spent, ph>>
  PROVE  Inv'
<1>. USE DEF Inv, CallLabels
<1>0. /\ ph[Intr(on[c])] = "off"
      /\ Base(on[c]) \in Frames /\ Intr(on[c]) \in Frames /\ on[c] \in Contexts
  BY DEF Frames, Contexts, Top
<1>1. TypeOK'
  BY <1>0 DEF TypeOK, Contexts, Frames, Phases, Labels
<1>2. \A x \in Contexts \ {on[c]} : FramesKept(x)
  BY <1>0 DEF TypeOK, FramesKept, Top, Frames
<1>3. Holds(on[c])' <=> Holds(on[c])
  BY <1>0 DEF TypeOK, Holds, Top, Frames, Contexts
<1>4. FrameLabels'
  BY <1>0 DEF TypeOK, FrameLabels, Top, Frames, Contexts
<1>5. OneSection'
  BY <1>0, <1>2, <1>3 DEF TypeOK, OneSection, Inside, Holds, FramesKept, Top, Frames, Contexts
<1>. QED
  BY <1>0, <1>1, <1>2, <1>3, <1>4, <1>5, LocalStep DEF TypeOK, Contexts

(* A system call moves a base frame to a kernel operation.                 *)
LEMMA SysCallInv ==
  ASSUME Inv, NEW c \in CPUs, NEW operation \in CallLabels, SysCall(c, operation)
  PROVE  Inv'
<1>1. on[c] \in Slots /\ Top(on[c]) = Base(on[c])
  BY TopFrame DEF SysCall, At
<1>2. vetos' \in [Contexts -> 0 .. VetoSize - 1]
  BY DEF SysCall, Inv, TypeOK
<1>. QED
  BY <1>1, <1>2, CallStepInv DEF SysCall

(* A woken process goes on to release the lock it was handed.              *)
LEMMA Process_WokenInv ==
  ASSUME Inv, NEW c \in CPUs, NEW label \in CallLabels, Process_Woken(c, label)
  PROVE  Inv'
<1>. USE DEF Inv, Process_Woken, At, Move, CallLabels
<1>0. /\ on[c] \in Slots /\ Top(on[c]) = Base(on[c]) /\ ph[Intr(on[c])] = "off"
      /\ Base(on[c]) \in Frames /\ Intr(on[c]) \in Frames /\ on[c] \in Contexts
  BY TopFrame DEF Frames
<1>1. TypeOK'
  BY <1>0 DEF TypeOK, Contexts, Frames, Phases, Labels
<1>2. \A x \in Contexts \ {on[c]} : FramesKept(x)
  BY <1>0 DEF TypeOK, FramesKept, Top, Frames
<1>3. Holds(on[c])' <=> Holds(on[c])
  BY <1>0 DEF TypeOK, Holds, Top, Frames, Contexts
<1>4. FrameLabels'
  BY <1>0 DEF TypeOK, FrameLabels, Top, Frames, Contexts
<1>5. OneSection'
  BY <1>0, <1>2, <1>3 DEF TypeOK, OneSection, Inside, Holds, FramesKept, Top, Frames, Contexts
<1>. QED
  BY <1>0, <1>1, <1>2, <1>3, <1>4, <1>5, LocalStep DEF TypeOK, Contexts

(* Sleepers made RUNNABLE were parked in a critical section already.       *)
LEMMA Scheduler_RaiseAlarmInv ==
  ASSUME Inv, NEW c \in CPUs, NEW alarm, NEW label \in CallLabels, Scheduler_RaiseAlarm(c, alarm, label)
  PROVE  Inv'
<1>. USE DEF Inv, Scheduler_RaiseAlarm, At, Move, Sleepers, CallLabels
<1>0. /\ on[c] \in Slots /\ Top(on[c]) = Base(on[c]) /\ ph[Intr(on[c])] = "off"
      /\ Base(on[c]) \in Frames /\ Intr(on[c]) \in Frames /\ on[c] \in Contexts
  BY TopFrame DEF Frames
<1>1. TypeOK'
  <2>1. status' \in [Slots -> Status] /\ wakeup_on' \in [Slots -> Alarms \cup {Null}]
    BY DEF TypeOK, Status
  <2>. QED
    BY <1>0, <2>1 DEF TypeOK, Contexts, Frames, Phases, Labels
<1>2. \A x \in Contexts \ {on[c]} : FramesKept(x)
  BY <1>0 DEF TypeOK, FramesKept, Top, Frames
<1>3. Holds(on[c])' <=> Holds(on[c])
  BY <1>0 DEF TypeOK, Holds, Top, Frames, Contexts
<1>4. FrameLabels'
  BY <1>0 DEF TypeOK, FrameLabels, Top, Frames, Contexts
<1>5. OneSection'
  BY <1>0, <1>2, <1>3 DEF TypeOK, OneSection, Inside, Holds, FramesKept, Top, Frames, Contexts
<1>. QED
  BY <1>0, <1>1, <1>2, <1>3, <1>4, <1>5, LocalStep DEF TypeOK, Contexts

(* The context x is in a critical section after the step.                  *)
LeftInside(x) ==
    LET frame == IF ph'[Intr(x)] = "off" THEN Base(x) ELSE Intr(x) IN ph'[frame] \in Inside

(* SCHEDULER_RETURN: a process leaves its CPU inside its critical section, *)
(* and the scheduler thread it hands the CPU to was parked in one.         *)
LEMMA SwitchBack ==
  ASSUME Inv, NEW c \in CPUs, on[c] \in Slots,
         SCHEDULER_RETURN(c),
         UNCHANGED <<kernel_task, esp0, Process_lock>>,
         status'[on[c]] \in {"RUNNABLE", "ASLEEP", "DEAD"},
         \A s \in Slots \ {on[c]} : status'[s] = status[s],
         \A x \in Contexts \ {on[c]} : FramesKept(x),
         Holds(on[c]), LeftInside(on[c]),
         TypeOK', FrameLabels', OneSection'
  PROVE  Inv'
<1>. USE DEF Inv
<1>1. /\ on[c] # c /\ c \in Contexts /\ on[c] \in Contexts
      /\ on'[c] = c /\ \A d \in CPUs \ {c} : on'[d] = on[d]
  BY DEF SCHEDULER_RETURN, TypeOK, HomeCPU, Contexts
<1>2. \A d \in CPUs \ {c} : on[d] # c /\ on[d] # on[c]
  BY DEF HomeCPU, Located
<1>3. \A d \in CPUs \ {c} : Holds(on[d])' <=> Holds(on[d])
  BY <1>1, OthersHold
<1>4. ph'[Base(c)] = "done"
  BY <1>1 DEF ParkedInCriticalSection, FramesKept
<1>5. Holds(on[c])'
  BY <1>1, <1>4 DEF Holds
<1>6. LockHandover'
  BY <1>3, <1>5 DEF LockHandover
<1>7. HomeCPU'
  BY <1>1 DEF HomeCPU
<1>8. Located'
  <2>1. \A d, e \in CPUs : on'[d] = on'[e] => d = e
    BY <1>1, <1>2 DEF Located
  <2>2. \A d \in CPUs : on'[d] # on[c]
    BY <1>1, <1>2
  <2>3. \A s \in Slots \ {on[c]} : (\E d \in CPUs : on'[d] = s) <=> (\E d \in CPUs : on[d] = s)
    BY <1>1
  <2>. QED
    BY <2>1, <2>2, <2>3 DEF Located
<1>9. \A s \in Slots : status'[s] \in {"RUNNABLE", "ASLEEP"} => ph'[Top(s)'] \in {"held", "done"}
  <2>. SUFFICES ASSUME NEW s \in Slots, s # on[c], status[s] \in {"RUNNABLE", "ASLEEP"}
                PROVE  ph'[Top(s)'] \in {"held", "done"}
    BY DEF LeftInside, Inside, Top
  <2>1. FramesKept(s)
    BY DEF Contexts
  <2>. QED
    BY <2>1 DEF ParkedInCriticalSection, FramesKept, Top
<1>10. \A d \in CPUs : on'[d] \in Slots => ph'[Base(d)] = "done"
  <2>. SUFFICES ASSUME NEW d \in CPUs, d # c, on[d] \in Slots PROVE ph'[Base(d)] = "done"
    BY <1>1, <1>4
  <2>1. d # on[c] /\ d \in Contexts
    BY DEF Contexts
  <2>. QED
    BY <2>1 DEF ParkedInCriticalSection, FramesKept
<1>. QED
  BY <1>6, <1>7, <1>8, <1>9, <1>10 DEF ParkedInCriticalSection

(* Process_Preempt keeps its CPU or hands it and the lock back.            *)
LEMMA Process_PreemptInv ==
  ASSUME Inv, NEW c \in CPUs, Process_Preempt(c)
  PROVE  Inv'
<1>. USE DEF Inv, Process_Preempt, At, Move
<1>0. /\ on[c] \in Slots /\ Top(on[c]) = Intr(on[c])
      /\ Base(on[c]) \in Frames /\ Intr(on[c]) \in Frames /\ on[c] \in Contexts
  BY TopFrame DEF Frames
<1>1. /\ ph' = [ph EXCEPT ![Intr(on[c])] = "done"] /\ pc' = [pc EXCEPT ![Intr(on[c])] = "iret"]
      /\ ph[Intr(on[c])] = "held"
  BY <1>0
<1>2. ph' \in [Frames -> Phases] /\ pc' \in [Frames -> Labels]
  BY <1>0, <1>1 DEF TypeOK, Phases, Labels
<1>3. \A x \in Contexts \ {on[c]} : FramesKept(x) /\ pc'[Base(x)] = pc[Base(x)] /\ pc'[Intr(x)] = pc[Intr(x)]
  BY <1>0, <1>1 DEF TypeOK, FramesKept, Frames
<1>4. /\ ph'[Base(on[c])] = ph[Base(on[c])] /\ ph'[Intr(on[c])] = "done"
      /\ pc'[Base(on[c])] = pc[Base(on[c])] /\ pc'[Intr(on[c])] = "iret"
  BY <1>0, <1>1 DEF TypeOK
<1>5. status' \in [Slots -> Status] /\ on' \in [CPUs -> Contexts]
  BY <1>0 DEF TypeOK, Status, SCHEDULER_RETURN, HomeCPU, Contexts
<1>6. TypeOK'
  BY <1>0, <1>2, <1>3, <1>4, <1>5 DEF TypeOK, FramesKept, Contexts
<1>7. FrameLabels' /\ OneSection'
  BY <1>1, <1>3, <1>4 DEF FrameLabels, OneSection, Inside, FramesKept, Contexts
<1>8. Holds(on[c]) /\ LeftInside(on[c])
  BY <1>0, <1>1, <1>4 DEF Holds, LeftInside, Inside
<1>9. CASE Scheduler_Preempt(on[c])
  BY <1>0, <1>3, <1>6, <1>7, <1>8, <1>9, SwitchBack DEF TypeOK
<1>10. CASE ~Scheduler_Preempt(on[c])
  <2>1. UNCHANGED <<status, on>>
    BY <1>10
  <2>2. Holds(on[c])'
    BY <1>4, <2>1 DEF Holds
  <2>. QED
    BY <1>3, <1>6, <1>7, <1>8, <2>1, <2>2, LocalStep
<1>. QED
  BY <1>9, <1>10

(* Process_SleepOn hands its CPU and the lock back.                        *)
LEMMA Process_SleepOnInv ==
  ASSUME Inv, NEW c \in CPUs, NEW alarm \in Alarms, Process_SleepOn(c, alarm)
  PROVE  Inv'
<1>. USE DEF Inv, Process_SleepOn, At
<1>0. /\ on[c] \in Slots /\ Top(on[c]) = Base(on[c]) /\ ph[Intr(on[c])] = "off"
      /\ Base(on[c]) \in Frames /\ Intr(on[c]) \in Frames /\ on[c] \in Contexts
  BY TopFrame DEF Frames
<1>1. ph[Base(on[c])] = "held" /\ ph' = ph
  BY <1>0
<1>2. status' \in [Slots -> Status] /\ on' \in [CPUs -> Contexts] /\ wakeup_on' \in [Slots -> Alarms \cup {Null}]
  BY <1>0 DEF TypeOK, Status, SCHEDULER_RETURN, HomeCPU, Contexts
<1>3. TypeOK'
  BY <1>0, <1>1, <1>2 DEF TypeOK, Contexts, Frames, Labels
<1>4. FrameLabels' /\ OneSection'
  BY <1>0, <1>1 DEF TypeOK, FrameLabels, OneSection, Frames
<1>5. \A x \in Contexts : FramesKept(x)
  BY <1>1 DEF FramesKept
<1>6. Holds(on[c]) /\ LeftInside(on[c])
  BY <1>0, <1>1 DEF Holds, LeftInside, Inside
<1>. QED
  BY <1>0, <1>1, <1>3, <1>4, <1>5, <1>6, SwitchBack DEF TypeOK

(* The steps every client of the scheduler shares keep the invariant.      *)
LEMMA CPUStepInv ==
  ASSUME Inv, NEW c \in CPUs, NEW labels, CPUStep(c, labels)
  PROVE  Inv'
BY SpinEnterInv, SpinTakeInv, SpinDropInv, SpinLeaveInv, DispatchInv, PassOverInv,
   InterruptInv, Process_PreemptInv, IretInv, Interrupt_ReturnInv DEF CPUStep

(* A stuttering step keeps the invariant.                                  *)
LEMMA StutterInv == Inv /\ UNCHANGED vars => Inv'
<1>. SUFFICES ASSUME Inv, UNCHANGED vars PROVE Inv'
  OBVIOUS
<1>. USE DEF Inv, vars
<1>1. TypeOK' /\ FrameLabels' /\ OneSection'
  BY DEF TypeOK, FrameLabels, OneSection
<1>2. LockHandover' /\ Located' /\ HomeCPU'
  BY DEF LockHandover, Holds, Located, HomeCPU
<1>3. ParkedInCriticalSection'
  BY DEF ParkedInCriticalSection, Top
<1>. QED
  BY <1>1, <1>2, <1>3

(* The invariant is inductive: one case for every action.                  *)
LEMMA NextInv == Inv /\ [Next]_vars => Inv'
<1>. SUFFICES ASSUME Inv, Next PROVE Inv'
  BY StutterInv
<1>0. PICK c \in CPUs :
        \/ CPUStep(c, {"schedule", "preempt", "sleep", "alarm"})
        \/ \E operation \in {"sleep", "alarm"} : SysCall(c, operation)
        \/ \E alarm \in Alarms : \/ Process_SleepOn(c, alarm)
                                 \/ Scheduler_RaiseAlarm(c, alarm, "return")
        \/ Process_Woken(c, "return")
  BY DEF Next
<1>1. CASE CPUStep(c, {"schedule", "preempt", "sleep", "alarm"})
  BY <1>1, CPUStepInv
<1>2. CASE \E operation \in {"sleep", "alarm"} : SysCall(c, operation)
  BY <1>2, SysCallInv DEF CallLabels, Labels
<1>3. CASE \E alarm \in Alarms : \/ Process_SleepOn(c, alarm)
                                 \/ Scheduler_RaiseAlarm(c, alarm, "return")
  BY <1>3, Process_SleepOnInv, Scheduler_RaiseAlarmInv DEF CallLabels, Labels
<1>4. CASE Process_Woken(c, "return")
  BY <1>4, Process_WokenInv DEF CallLabels, Labels
<1>. QED
  BY <1>0, <1>1, <1>2, <1>3, <1>4

(* Every reachable state of the scheduler satisfies the inductive          *)
(* invariant.                                                              *)
THEOREM Invariance == Spec => []Inv
BY InitInv, NextInv, PTL DEF Spec

NoneDead == \A s \in Slots : status[s] # "DEAD"

(* Without Process_Terminate no slot is DEAD.                              *)
LEMMA NobodyDies == Spec => []NoneDead
<1>1. Init => NoneDead
  BY DEF Init, InitWith, NoneDead
<1>2. Inv /\ NoneDead /\ [Next]_vars => NoneDead'
  <2>. SUFFICES ASSUME Inv, NoneDead, [Next]_vars, ~UNCHANGED status PROVE NoneDead'
    BY DEF NoneDead
  <2>1. PICK c \in CPUs :
          \/ Dispatch(c) \/ Process_Preempt(c)
          \/ \E alarm \in Alarms : Process_SleepOn(c, alarm) \/ Scheduler_RaiseAlarm(c, alarm, "return")
    BY DEF Next, vars, CPUStep, SpinEnter, SpinTake, SpinDrop, SpinLeave, PassOver, Interrupt, Iret,
           Interrupt_Return, SysCall, Process_Woken
  <2>2. \A s \in Slots : status'[s] # status[s] => status'[s] \in {"RUNNABLE", "RUNNING", "ASLEEP"}
    BY <2>1 DEF Inv, TypeOK, Dispatch, MarkRunning, Process_Preempt, Process_SleepOn, Scheduler_RaiseAlarm
  <2>. QED
    BY <2>2 DEF NoneDead
<1>. QED
  BY <1>1, <1>2, Invariance, PTL DEF Spec

(* The scheduler's state keeps its types, for any number of CPUs and slots *)
(* (in particular Schedule()'s index never leaves the process table).      *)
THEOREM Typing == Spec => []TypeOK
<1>1. Inv => TypeOK
  BY DEF Inv
<1>. QED
  BY <1>1, Invariance, PTL

(* Process_lock is handed over across KContext_Switch: it is set exactly   *)
(* while one executing context, and only one, is in its critical section.  *)
THEOREM LockIsHandedOver == Spec => []LockHandover
<1>1. Inv => LockHandover
  BY DEF Inv
<1>. QED
  BY <1>1, Invariance, PTL

(* Schedule() never runs one kernel stack on two CPUs.                     *)
THEOREM NoStackOnTwoCPUs == Spec => []OneCPUPerContext
<1>1. Inv /\ NoneDead => OneCPUPerContext
  BY DEF Inv, NoneDead, Located, OneCPUPerContext, TypeOK
<1>. QED
  BY <1>1, Invariance, NobodyDies, PTL

(* SCHEDULER_RETURN takes a process back to the scheduler thread of the    *)
(* CPU it runs on.                                                         *)
THEOREM ReturnsHome == Spec => []HomeCPU
<1>1. Inv => HomeCPU
  BY DEF Inv
<1>. QED
  BY <1>1, Invariance, PTL

(* Every context the CPUs may switch to releases Process_lock next.        *)
THEOREM SwitchTargetsParked == Spec => []ParkedInCriticalSection
<1>1. Inv => ParkedInCriticalSection
  BY DEF Inv
<1>. QED
  BY <1>1, Invariance, PTL

-----------------------------------------------------------------------------
(* The veto count.                                                         *)

Taking == {"spin", "held", "done", "freed"}
Count(f, x) == (IF f[Base(x)] \in Taking THEN 1 ELSE 0) + (IF f[Intr(x)] \in Taking THEN 1 ELSE 0)

(* A number is its quotient by VetoSize and its remainder.                 *)
LEMMA Quotient ==
  /\ \A n \in Int : n \div VetoSize \in Int /\ n % VetoSize \in 0 .. VetoSize - 1
                    /\ n = VetoSize * (n \div VetoSize) + (n % VetoSize)
  /\ \A n, k \in Int : \A r \in 0 .. VetoSize - 1 : n = VetoSize * k + r => n % VetoSize = r
OBVIOUS

(* Reducing before an addition or after it is the same.                    *)
LEMMA ModSum == \A n, m \in Int : ((n % VetoSize) + m) % VetoSize = (n + m) % VetoSize
<1>. TAKE n, m \in Int
<1>. DEFINE q == n \div VetoSize
            r == n % VetoSize
<1>1. q \in Int /\ r \in 0 .. VetoSize - 1 /\ n = VetoSize * q + r
  BY Quotient
<1>. HIDE DEF q, r
<1>. DEFINE p == (r + m) \div VetoSize
            s == (r + m) % VetoSize
<1>2. r + m \in Int
  BY <1>1
<1>3. p \in Int /\ s \in 0 .. VetoSize - 1 /\ r + m = VetoSize * p + s
  BY <1>2, Quotient
<1>. HIDE DEF p, s
<1>4. n + m = VetoSize * (q + p) + s
  BY <1>1, <1>3
<1>5. (n + m) % VetoSize = s
  BY <1>1, <1>3, <1>4, Quotient
<1>. QED
  BY <1>5 DEF s, r

(* Adding VetoSize changes nothing.                                        *)
LEMMA ModWrap == \A m \in Int : (VetoSize + m) % VetoSize = m % VetoSize
<1>. TAKE m \in Int
<1>1. VetoSize \in Int /\ VetoSize % VetoSize = 0
  OBVIOUS
<1>2. ((VetoSize % VetoSize) + m) % VetoSize = (VetoSize + m) % VetoSize
  BY <1>1, ModSum
<1>3. (VetoSize % VetoSize) + m = m
  BY <1>1
<1>. QED
  BY <1>2, <1>3

(* The two macros count in steps of one, whatever the width.               *)
LEMMA CountsUp == \A n \in Int : Increment(n % VetoSize) = (n + 1) % VetoSize
<1>. TAKE n \in Int
<1>1. 1 \in Int
  OBVIOUS
<1>. QED
  BY <1>1, ModSum, Zenon DEF Increment

(* Taking a veto back is subtraction modulo VetoSize.                      *)
LEMMA CountsDown == \A n \in Int : Decrement(n % VetoSize) = (n - 1) % VetoSize
<1>. TAKE n \in Int
<1>1. VetoSize - 1 \in Int /\ n - 1 \in Int /\ n % VetoSize \in Int
  BY Quotient
<1>2. ((n % VetoSize) + (VetoSize - 1)) % VetoSize = (n + (VetoSize - 1)) % VetoSize
  BY <1>1, ModSum, Zenon
<1>3. (VetoSize + (n - 1)) % VetoSize = (n - 1) % VetoSize
  BY <1>1, ModWrap, Zenon
<1>. HIDE VetoSizeAssumption
<1>4. (n % VetoSize) + VetoSize - 1 = (n % VetoSize) + (VetoSize - 1)
  BY <1>1, VetoSizeAssumption
<1>5. n + (VetoSize - 1) = VetoSize + (n - 1)
  BY <1>1, VetoSizeAssumption
<1>. QED
  BY <1>2, <1>3, <1>4, <1>5, Zenon DEF Decrement

(* VetoesTaken counts the two frames.                                      *)
LEMMA CountTaken ==
  ASSUME NEW f, NEW x
  PROVE  Cardinality({l \in {"base", "intr"} : f[<<x, l>>] \in Taking}) = Count(f, x)
<1>. DEFINE S == {l \in {"base", "intr"} : f[<<x, l>>] \in Taking}
<1>2. /\ Cardinality({}) = 0 /\ Cardinality({"base"}) = 1 /\ Cardinality({"intr"}) = 1
      /\ Cardinality({"base"} \cup {"intr"}) = 2
  <2>1. Cardinality({}) = 0
    BY FS_EmptySet
  <2>2. IsFiniteSet({"base"}) /\ Cardinality({"base"}) = 1 /\ Cardinality({"intr"}) = 1
    BY FS_Singleton
  <2>3. Cardinality({"base"} \cup {"intr"}) = Cardinality({"base"}) + 1
    BY <2>2, FS_AddElement
  <2>. QED
    BY <2>1, <2>2, <2>3
<1>3. /\ S \subseteq {"base", "intr"}
      /\ "base" \in S <=> f[Base(x)] \in Taking
      /\ "intr" \in S <=> f[Intr(x)] \in Taking
  OBVIOUS
<1>. SUFFICES Cardinality(S) = Count(f, x)
  OBVIOUS
<1>. HIDE DEF S
<1>4. CASE f[Base(x)] \in Taking /\ f[Intr(x)] \in Taking
  <2>1. S = {"base"} \cup {"intr"}
    BY <1>3, <1>4
  <2>. QED
    BY <1>2, <1>4, <2>1 DEF Count
<1>5. CASE f[Base(x)] \in Taking /\ f[Intr(x)] \notin Taking
  <2>1. S = {"base"}
    BY <1>3, <1>5
  <2>. QED
    BY <1>2, <1>5, <2>1 DEF Count
<1>6. CASE f[Base(x)] \notin Taking /\ f[Intr(x)] \in Taking
  <2>1. S = {"intr"}
    BY <1>3, <1>6
  <2>. QED
    BY <1>2, <1>6, <2>1 DEF Count
<1>7. CASE f[Base(x)] \notin Taking /\ f[Intr(x)] \notin Taking
  <2>1. S = {}
    BY <1>3, <1>7
  <2>. QED
    BY <1>2, <1>7, <2>1 DEF Count
<1>. QED
  BY <1>4, <1>5, <1>6, <1>7

(* A step that counts the vetos of context x as its frames take them and   *)
(* give them back keeps the balance.                                       *)
LEMMA VetoStep ==
  ASSUME TypeOK, VetoBalance, NEW x \in Contexts,
         \A y \in Contexts \ {x} : FramesKept(y) /\ vetos'[y] = vetos[y],
         \/ Count(ph', x) = Count(ph, x) /\ vetos'[x] = vetos[x]
         \/ Count(ph', x) = Count(ph, x) + 1 /\ vetos'[x] = Increment(vetos[x])
         \/ Count(ph', x) = Count(ph, x) - 1 /\ vetos'[x] = Decrement(vetos[x])
  PROVE  VetoBalance'
<1>1. \A y : VetoesTaken(y) = Count(ph, y) /\ VetoesTaken(y)' = Count(ph', y)
  BY CountTaken DEF VetoesTaken, Taking
<1>2. \A y \in Contexts \ {x} : Count(ph', y) = Count(ph, y) /\ vetos'[y] = vetos[y]
  BY DEF FramesKept, Count
<1>. DEFINE n == Count(ph, x)
            m == Count(ph', x)
<1>3. n \in 0 .. 2 /\ m \in 0 .. 2
  BY DEF Count
<1>4. \/ m = n /\ vetos'[x] = vetos[x]
      \/ m = n + 1 /\ vetos'[x] = Increment(vetos[x])
      \/ m = n - 1 /\ vetos'[x] = Decrement(vetos[x])
  OBVIOUS
<1>. HIDE DEF n, m
<1>5. \A k \in Int : vetos[x] = (n + k) % VetoSize => vetos'[x] = (m + k) % VetoSize
  <2>. TAKE k \in Int
  <2>. HAVE vetos[x] = (n + k) % VetoSize
  <2>0. n + k \in Int
    BY <1>3
  <2>1. CASE m = n + 1 /\ vetos'[x] = Increment(vetos[x])
    <3>1. vetos'[x] = ((n + k) + 1) % VetoSize
      BY <2>0, <2>1, CountsUp, Zenon
    <3>2. (n + k) + 1 = m + k
      BY <1>3, <2>1
    <3>. QED
      BY <3>1, <3>2, Zenon
  <2>2. CASE m = n - 1 /\ vetos'[x] = Decrement(vetos[x])
    <3>1. vetos'[x] = ((n + k) - 1) % VetoSize
      BY <2>0, <2>2, CountsDown, Zenon
    <3>2. (n + k) - 1 = m + k
      BY <1>3, <2>2
    <3>. QED
      BY <3>1, <3>2, Zenon
  <2>3. CASE m = n /\ vetos'[x] = vetos[x]
    BY <2>3, Zenon
  <2>. QED
    BY <1>4, <2>1, <2>2, <2>3
<1>6. /\ 0 \in Int /\ VetoSize - 1 \in Int
      /\ n + 0 = n /\ m + 0 = m
      /\ n + VetoSize - 1 = n + (VetoSize - 1) /\ m + VetoSize - 1 = m + (VetoSize - 1)
  BY <1>3
<1>7. x \in CPUs => vetos'[x] = m % VetoSize
  <2>1. x \in CPUs => vetos[x] = (n + 0) % VetoSize
    BY <1>1, <1>6, Zenon DEF VetoBalance, n
  <2>. QED
    BY <1>5, <1>6, <2>1, Zenon
<1>8. x \in Slots => vetos'[x] = (m + VetoSize - 1) % VetoSize
  <2>1. x \in Slots => vetos[x] = (n + (VetoSize - 1)) % VetoSize
    BY <1>1, <1>6, Zenon DEF VetoBalance, n
  <2>. QED
    BY <1>5, <1>6, <2>1, Zenon
<1>9. \A c \in CPUs : vetos'[c] = VetoesTaken(c)' % VetoSize
  <2>. TAKE c \in CPUs
  <2>1. CASE c = x
    BY <1>1, <1>7, <2>1, Zenon DEF m
  <2>2. CASE c # x
    BY <1>1, <1>2, <2>2, Zenon DEF VetoBalance, Contexts
  <2>. QED
    BY <2>1, <2>2
<1>10. \A s \in Slots : vetos'[s] = (VetoesTaken(s)' + VetoSize - 1) % VetoSize
  <2>. TAKE s \in Slots
  <2>1. CASE s = x
    BY <1>1, <1>8, <2>1, Zenon DEF m
  <2>2. CASE s # x
    BY <1>1, <1>2, <2>2, Zenon DEF VetoBalance, Contexts
  <2>. QED
    BY <2>1, <2>2
<1>. QED
  BY <1>9, <1>10, Zenon DEF VetoBalance

(* A step that neither counts nor moves a frame into or out of a section   *)
(* keeps the balance.                                                      *)
LEMMA VetoKept ==
  ASSUME VetoBalance, UNCHANGED vetos,
         \A f \in Frames : ph'[f] \in Taking <=> ph[f] \in Taking
  PROVE  VetoBalance'
<1>1. \A x \in Contexts : VetoesTaken(x)' = VetoesTaken(x)
  <2>. SUFFICES ASSUME NEW x \in Contexts PROVE VetoesTaken(x)' = VetoesTaken(x)
    OBVIOUS
  <2>1. \A l \in {"base", "intr"} : ph'[<<x, l>>] \in Taking <=> ph[<<x, l>>] \in Taking
    BY DEF Frames
  <2>. QED
    BY <2>1 DEF VetoesTaken, Taking
<1>. QED
  BY <1>1, Zenon DEF VetoBalance, Contexts

(* SpinLock_Acquire and SpinLock_Release are the only ones that count.     *)
LEMMA SpinEnterVeto ==
  ASSUME Inv, VetoBalance, NEW c \in CPUs, NEW labels, SpinEnter(c, labels)
  PROVE  VetoBalance'
<1>. USE DEF Inv, SpinEnter
<1>0. on[c] \in Contexts /\ Top(on[c]) \in Frames
  BY TopFrame
<1>1. \A y \in Contexts \ {on[c]} : FramesKept(y) /\ vetos'[y] = vetos[y]
  BY <1>0 DEF TypeOK, FramesKept, Top, Frames
<1>2. vetos'[on[c]] = Increment(vetos[on[c]])
  BY <1>0 DEF TypeOK
<1>3. Count(ph', on[c]) = Count(ph, on[c]) + 1
  <2>1. CASE ph[Intr(on[c])] = "off"
    BY <1>0, <2>1 DEF TypeOK, Count, Taking, Top, Frames
  <2>2. CASE ph[Intr(on[c])] # "off"
    BY <1>0, <2>2 DEF TypeOK, Count, Taking, Top, Frames
  <2>. QED
    BY <2>1, <2>2
<1>. QED
  BY <1>0, <1>1, <1>2, <1>3, VetoStep

(* SpinLock_Release takes back the veto that its acquire set.              *)
LEMMA SpinLeaveVeto ==
  ASSUME Inv, VetoBalance, NEW c \in CPUs, SpinLeave(c)
  PROVE  VetoBalance'
<1>. USE DEF Inv, SpinLeave
<1>0. on[c] \in Contexts /\ Top(on[c]) \in Frames
  BY TopFrame
<1>1. \A y \in Contexts \ {on[c]} : FramesKept(y) /\ vetos'[y] = vetos[y]
  BY <1>0 DEF TypeOK, FramesKept, Top, Frames
<1>2. vetos'[on[c]] = Decrement(vetos[on[c]])
  BY <1>0 DEF TypeOK
<1>3. Count(ph', on[c]) = Count(ph, on[c]) - 1
  <2>1. CASE ph[Intr(on[c])] = "off"
    BY <1>0, <2>1 DEF TypeOK, Count, Taking, Top, Frames
  <2>2. CASE ph[Intr(on[c])] # "off"
    BY <1>0, <2>2 DEF TypeOK, Count, Taking, Top, Frames
  <2>. QED
    BY <2>1, <2>2
<1>. QED
  BY <1>0, <1>1, <1>2, <1>3, VetoStep

(* Every other step of a CPU leaves the balance alone.                     *)
LEMMA OthersVeto ==
  ASSUME Inv, VetoBalance, NEW c \in CPUs,
         \/ SpinTake(c) \/ SpinDrop(c) \/ Dispatch(c) \/ PassOver(c)
         \/ \E ticks \in {0, 1} : Interrupt(c, ticks)
         \/ Process_Preempt(c) \/ Iret(c) \/ Interrupt_Return(c)
         \/ \E operation \in {"sleep", "alarm"} : SysCall(c, operation)
         \/ \E alarm \in Alarms : \/ Process_SleepOn(c, alarm)
                                  \/ Scheduler_RaiseAlarm(c, alarm, "return")
         \/ Process_Woken(c, "return")
  PROVE  VetoBalance'
<1>1. UNCHANGED vetos
  BY DEF SpinTake, SpinDrop, Dispatch, PassOver, Interrupt, Process_Preempt, Iret, Interrupt_Return,
         SysCall, Process_SleepOn, Scheduler_RaiseAlarm, Process_Woken
<1>2. \A f \in Frames : ph'[f] \in Taking <=> ph[f] \in Taking
  <2>0. ph \in [Frames -> Phases] /\ Top(on[c]) \in Frames
    BY TopFrame DEF Inv, TypeOK
  <2>1. CASE SpinTake(c) \/ SpinDrop(c)
    BY <2>0, <2>1 DEF SpinTake, SpinDrop, Taking
  <2>2. CASE Dispatch(c) \/ PassOver(c)
    BY <2>0, <2>2 DEF Dispatch, PassOver, Taking
  <2>3. CASE \E ticks \in {0, 1} : Interrupt(c, ticks)
    BY <2>0, <2>3 DEF Interrupt, Move, Taking
  <2>4. CASE Process_Preempt(c)
    <3>1. Top(on[c]) = Intr(on[c])
      BY <2>4, TopFrame DEF Process_Preempt, At
    <3>. QED
      BY <2>0, <2>4, <3>1 DEF Process_Preempt, At, Move, Taking
  <2>5. CASE Iret(c)
    <3>1. Top(on[c]) = Intr(on[c])
      BY <2>5, TopFrame DEF Iret, At
    <3>. QED
      BY <2>0, <2>5, <3>1 DEF Iret, At, Taking
  <2>6. CASE Interrupt_Return(c)
    <3>1. ph[Intr(on[c])] = "off"
      BY <2>6, TopFrame DEF Interrupt_Return, At
    <3>. QED
      BY <2>0, <2>6, <3>1 DEF Interrupt_Return, Taking
  <2>7. CASE (\E operation \in {"sleep", "alarm"} : SysCall(c, operation))
             \/ \E alarm \in Alarms : Process_SleepOn(c, alarm)
    BY <2>7 DEF SysCall, Process_SleepOn
  <2>8. CASE Process_Woken(c, "return") \/ \E alarm \in Alarms : Scheduler_RaiseAlarm(c, alarm, "return")
    <3>1. Top(on[c]) = Base(on[c])
      BY <2>8, TopFrame DEF Process_Woken, Scheduler_RaiseAlarm, At
    <3>. QED
      BY <2>0, <2>8, <3>1 DEF Process_Woken, Scheduler_RaiseAlarm, At, Move, Taking
  <2>. QED
    BY <2>1, <2>2, <2>3, <2>4, <2>5, <2>6, <2>7, <2>8
<1>. QED
  BY <1>1, <1>2, VetoKept

(* The counters start in balance: a new process owes one veto.             *)
LEMMA InitVeto == Init => VetoBalance
<1>. SUFFICES ASSUME Init PROVE VetoBalance
  OBVIOUS
<1>0. PICK published \in SUBSET Slots : InitWith(published)
  BY DEF Init
<1>1. \A x : VetoesTaken(x) = Count(ph, x)
  BY CountTaken DEF VetoesTaken, Taking
<1>2. \A c \in CPUs : vetos[c] = 0 /\ Count(ph, c) = 0
  BY <1>0 DEF InitWith, NewVetos, NewPhase, Contexts, Frames, Count, Taking
<1>3. \A s \in Slots : vetos[s] = 0 /\ Count(ph, s) = 1
  BY <1>0 DEF InitWith, NewVetos, NewPhase, Contexts, Frames, Count, Taking
<1>4. 0 % VetoSize = 0 /\ (1 + VetoSize - 1) % VetoSize = 0
  OBVIOUS
<1>. QED
  BY <1>1, <1>2, <1>3, <1>4, Zenon DEF VetoBalance

(* The veto counters balance for every number of CPUs and slots, every     *)
(* width of the counter included: a scheduler thread's is the number of    *)
(* spin locks it is in, a process's is one less.                           *)
THEOREM VetosBalance == Spec => []VetoBalance
<1>1. Inv /\ VetoBalance /\ [Next]_vars => VetoBalance'
  <2>1. ASSUME Inv, VetoBalance, Next PROVE VetoBalance'
    BY <2>1, SpinEnterVeto, SpinLeaveVeto, OthersVeto DEF Next, CPUStep
  <2>2. ASSUME VetoBalance, UNCHANGED vars PROVE VetoBalance'
    BY <2>2, VetoKept DEF vars
  <2>. QED
    BY <2>1, <2>2
<1>. QED
  BY <1>1, InitVeto, Invariance, PTL DEF Spec

-----------------------------------------------------------------------------
(* The refinement of ProcessTable.                                         *)

(* The scheduler starts in a state the table allows.                       *)
LEMMA TableInit == Init => Table!Init
<1>. SUFFICES ASSUME Init PROVE Table!Init
  OBVIOUS
<1>0. PICK published \in SUBSET Slots : InitWith(published)
  BY DEF Init
<1>1. status \in [Slots -> {"IDLE", "RUNNABLE"}]
  BY <1>0 DEF InitWith
<1>2. Current = [c \in CPUs |-> Null]
  BY <1>0 DEF InitWith, Current
<1>. QED
  BY <1>1, <1>2 DEF Table!Init

(* Schedule() picking a slot is the table's Dispatch.                      *)
LEMMA DispatchTable ==
  ASSUME Inv, NEW c \in CPUs, Dispatch(c)
  PROVE  Table!Next
<1>. DEFINE s == iproc[c]
<1>1. on[c] = c /\ s \in Slots /\ s = iproc[on[c]] /\ c \notin Slots
  BY DEF Inv, TypeOK, HomeCPU, Dispatch
<1>2. on' = [on EXCEPT ![c] = s] /\ status' = [status EXCEPT ![s] = "RUNNING"] /\ status[s] = "RUNNABLE"
  BY <1>1 DEF Dispatch, Ready, MarkRunning
<1>3. Current[c] = Null
  BY <1>1 DEF Current
<1>4. Current' = [Current EXCEPT ![c] = s]
  BY <1>1, <1>2 DEF Current, Inv, TypeOK
<1>5. Table!Dispatch(c, s)
  BY <1>2, <1>3, <1>4 DEF Table!Dispatch
<1>. QED
  BY <1>1, <1>5 DEF Table!Next

(* SCHEDULER_RETURN after a change of status is the table's Suspend.       *)
LEMMA SwitchTable ==
  ASSUME Inv, NEW c \in CPUs, on[c] \in Slots, SCHEDULER_RETURN(c),
         status[on[c]] = "RUNNING", NEW st \in {"RUNNABLE", "ASLEEP"}, status' = [status EXCEPT ![on[c]] = st]
  PROVE  Table!Next
<1>1. on' = [on EXCEPT ![c] = c] /\ c \notin Slots
  BY DEF SCHEDULER_RETURN, Inv, HomeCPU
<1>2. Current[c] = on[c]
  BY DEF Current
<1>3. Current' = [Current EXCEPT ![c] = Null]
  BY <1>1 DEF Current, Inv, TypeOK
<1>4. Table!Suspend(c, on[c])
  BY <1>2, <1>3 DEF Table!Suspend
<1>. QED
  BY <1>4 DEF Table!Next

(* Scheduler_RaiseAlarm is the table's Wake of all its sleepers.           *)
LEMMA RaiseAlarmTable ==
  ASSUME NEW c \in CPUs, NEW alarm \in Alarms, Scheduler_RaiseAlarm(c, alarm, "return")
  PROVE  Table!Next
<1>1. Sleepers(alarm) \in SUBSET Slots
  BY DEF Sleepers
<1>2. Current' = Current
  BY DEF Scheduler_RaiseAlarm, Current
<1>3. \A s \in Sleepers(alarm) : status[s] = "ASLEEP"
  BY DEF Sleepers
<1>4. Table!Wake(Sleepers(alarm))
  BY <1>2, <1>3 DEF Table!Wake, Scheduler_RaiseAlarm
<1>. QED
  BY <1>1, <1>4 DEF Table!Next

(* Every step of the scheduler is a step of the table or stutters.         *)
LEMMA TableStep == Inv /\ NoneDead /\ [Next]_vars => [Table!Next]_(Table!vars)
<1>. SUFFICES ASSUME Inv, NoneDead, [Next]_vars, ~UNCHANGED <<status, on>> PROVE Table!Next
  BY DEF Table!vars, Current
<1>0. PICK c \in CPUs :
        \/ CPUStep(c, {"schedule", "preempt", "sleep", "alarm"})
        \/ \E operation \in {"sleep", "alarm"} : SysCall(c, operation)
        \/ \E alarm \in Alarms : \/ Process_SleepOn(c, alarm)
                                 \/ Scheduler_RaiseAlarm(c, alarm, "return")
        \/ Process_Woken(c, "return")
  BY DEF Next, vars
<1>1. \/ Dispatch(c) \/ Process_Preempt(c)
      \/ \E alarm \in Alarms : Process_SleepOn(c, alarm)
      \/ \E alarm \in Alarms : Scheduler_RaiseAlarm(c, alarm, "return")
  BY <1>0 DEF CPUStep, SpinEnter, SpinTake, SpinDrop, SpinLeave, PassOver, Interrupt, Iret,
              Interrupt_Return, SysCall, Process_Woken
<1>2. CASE Dispatch(c)
  BY <1>2, DispatchTable
<1>3. CASE Process_Preempt(c)
  <2>1. on[c] \in Slots /\ SCHEDULER_RETURN(c) /\ status' = [status EXCEPT ![on[c]] = "RUNNABLE"]
        /\ status[on[c]] = "RUNNING"
    BY <1>3 DEF Process_Preempt, Scheduler_Preempt
  <2>. QED
    BY <2>1, SwitchTable
<1>4. CASE \E alarm \in Alarms : Process_SleepOn(c, alarm)
  <2>1. on[c] \in Slots
    BY <1>4, TopFrame DEF Process_SleepOn, At
  <2>3. status[on[c]] = "RUNNING"
    BY <2>1 DEF Inv, Located, NoneDead
  <2>2. SCHEDULER_RETURN(c) /\ status' = [status EXCEPT ![on[c]] = "ASLEEP"]
    BY <1>4 DEF Process_SleepOn
  <2>. QED
    BY <2>1, <2>2, <2>3, SwitchTable
<1>5. CASE \E alarm \in Alarms : Scheduler_RaiseAlarm(c, alarm, "return")
  BY <1>5, RaiseAlarmTable
<1>. QED
  BY <1>1, <1>2, <1>3, <1>4, <1>5

(* The scheduler implements ProcessTable: whatever the CPUs, locks and     *)
(* interrupts do, slots only go through the life cycle of the table.       *)
THEOREM ImplementsProcessTable == Spec => TableSpec
BY TableInit, TableStep, Invariance, NobodyDies, PTL DEF Spec, TableSpec, Table!Spec

-----------------------------------------------------------------------------
(* SleepLock: a sleep lock excludes.  The scheduler's inductive invariant  *)
(* carries over, because every step here is one of the scheduler's or      *)
(* moves one process to another point of its call.                         *)

At0(p) == pc[Base(p)]

SleepTypes ==
    /\ locked \in [Alarms -> BOOLEAN]
    /\ access_lock \in [Alarms -> BOOLEAN]
    /\ lock \in [Slots -> Alarms]
    /\ access \in [Slots -> Phases \ {"off"}]

(* The access lock of a sleep lock excludes.                               *)
AccessHeld(p) == access[p] \in Inside
AccessExclusive ==
    /\ \A p, q \in Slots : AccessHeld(p) /\ AccessHeld(q) /\ lock[p] = lock[q] => p = q
    /\ \A p \in Slots : AccessHeld(p) => access_lock[lock[p]]

(* Where the code uses the access lock, and where it does not any more.    *)
PointsOf(p) ==
    /\ At0(p) = "take" => access[p] = "held" /\ ~locked[lock[p]]
    /\ At0(p) = "alarm" => access[p] = "held"
    /\ At0(p) \in {"user", "woken"} => access[p] = "out"
    /\ At0(p) = "sleep" /\ access[p] # "out" => ph[Base(p)] = "out"
AccessPoints == \A p \in Slots : PointsOf(p)

(* A process that owns a lock has set it, and nobody else owns it.         *)
Owns(p) == At0(p) \in {"inside", "release"}
Ownership ==
    /\ \A p \in Slots : Owns(p) => locked[lock[p]]
    /\ \A p, q \in Slots : Owns(p) /\ Owns(q) /\ lock[p] = lock[q] => p = q
    /\ \A a \in Alarms : locked[a] => \E p \in Slots : Owns(p) /\ lock[p] = a

SleepInv == Inv /\ SleepTypes /\ AccessExclusive /\ AccessPoints /\ Ownership

Kept(q) == /\ pc'[Base(q)] = pc[Base(q)] /\ ph'[Base(q)] = ph[Base(q)]
           /\ access'[q] = access[q] /\ lock'[q] = lock[q]

-----------------------------------------------------------------------------
(* What the kinds of steps have to show.                                   *)

(* The steps of the scheduler that leave every process at its point of its *)
(* call, and in no section of Process_lock where its code still has the    *)
(* access lock to free.                                                    *)
LEMMA SchedulerStep ==
  ASSUME SleepInv, Inv', UNCHANGED sleepvars,
         \A p \in Slots : /\ pc'[Base(p)] = pc[Base(p)]
                          /\ At0(p) = "sleep" /\ access[p] # "out" => ph'[Base(p)] = "out"
  PROVE  SleepInv'
<1>. USE DEF SleepInv, sleepvars, At0
<1>1. SleepTypes' /\ AccessExclusive'
  BY DEF SleepTypes, AccessExclusive, AccessHeld
<1>2. AccessPoints'
  BY DEF AccessPoints, PointsOf
<1>3. Ownership'
  BY DEF Ownership, Owns
<1>. QED  BY <1>1, <1>2, <1>3

(* The steps of one process that change no lock, and neither whether it    *)
(* holds its access lock nor whether it owns its lock.                     *)
LEMMA PointStep ==
  ASSUME SleepInv, Inv', NEW p \in Slots, SleepTypes',
         \A q \in Slots \ {p} : Kept(q),
         UNCHANGED <<locked, access_lock, lock>>,
         AccessHeld(p)' <=> AccessHeld(p), Owns(p)' <=> Owns(p), PointsOf(p)'
  PROVE  SleepInv'
<1>. USE DEF SleepInv, At0
<1>1. \A q \in Slots : AccessHeld(q)' <=> AccessHeld(q)
  BY DEF Kept, AccessHeld
<1>2. AccessExclusive'
  BY <1>1 DEF AccessExclusive
<1>3. AccessPoints'
  <2>1. ASSUME NEW q \in Slots \ {p} PROVE PointsOf(q)'
    BY <2>1 DEF AccessPoints, PointsOf, Kept
  <2>. QED  BY <2>1 DEF AccessPoints
<1>4. \A q \in Slots : Owns(q)' <=> Owns(q)
  BY DEF Kept, Owns
<1>5. Ownership'
  BY <1>4 DEF Ownership
<1>. QED  BY <1>2, <1>3, <1>5

(* The process in a call, and what a step that only moves it changes.      *)
LEMMA Caller ==
  ASSUME SleepInv, NEW c \in CPUs, NEW label, NEW phase, Calls(c, label, phase)
  PROVE  /\ on[c] \in Slots /\ Top(on[c]) = Base(on[c]) /\ Base(on[c]) \in Frames
         /\ At0(on[c]) = label /\ ph[Base(on[c])] = "out" /\ access[on[c]] = phase
         /\ lock[on[c]] \in Alarms
BY DEF Calls, At, At0, Frames, Contexts, SleepInv, SleepTypes

(* Moving the process on CPU c to a label keeps the scheduler's invariant. *)
LEMMA GotoInv ==
  ASSUME Inv, NEW c \in CPUs, on[c] \in Slots, Top(on[c]) = Base(on[c]), NEW label \in CallLabels,
         Goto(on[c], label),
         UNCHANGED <<status, wakeup_on, vetos, Process_lock, on, kernel_task, esp0, intr, iproc, spent, ph>>
  PROVE  /\ Inv'
         /\ pc'[Base(on[c])] = label
         /\ \A q \in Slots \ {on[c]} : pc'[Base(q)] = pc[Base(q)]
<1>1. Inv'
  BY CallStepInv DEF Goto, Inv, TypeOK
<1>. QED  BY <1>1 DEF Goto, Inv, TypeOK, Frames, Contexts

(* Counting a veto of the access lock keeps the scheduler's invariant.     *)
LEMMA VetoInv ==
  ASSUME Inv, NEW c \in CPUs, on[c] \in Slots, Top(on[c]) = Base(on[c]),
         vetos' \in [Contexts -> 0 .. VetoSize - 1],
         UNCHANGED <<status, wakeup_on, Process_lock, on, kernel_task, esp0, intr, iproc, spent, ph, pc>>
  PROVE  Inv'
<1>1. pc[Base(on[c])] \in CallLabels
  BY DEF Inv, TypeOK, FrameLabels, CallLabels, Frames, Contexts
<1>2. pc' = [pc EXCEPT ![Base(on[c])] = pc[Base(on[c])]]
  BY DEF Inv, TypeOK
<1>. QED  BY <1>1, <1>2, CallStepInv

-----------------------------------------------------------------------------
(* The access lock.                                                        *)

(* A process sets its veto for the access lock.                            *)
LEMMA AccessEnterInv ==
  ASSUME SleepInv, NEW c \in CPUs, AccessEnter(c)
  PROVE  SleepInv'
<1>. USE DEF SleepInv, AccessEnter, Access
<1>0. /\ on[c] \in Slots /\ Top(on[c]) = Base(on[c])
      /\ At0(on[c]) \in {"acquire", "release"} /\ access[on[c]] = "out"
  BY Caller
<1>1. vetos' \in [Contexts -> 0 .. VetoSize - 1]
  BY <1>0, VetoTypes DEF Inv, TypeOK, Contexts
<1>2. Inv'
  BY <1>0, <1>1, VetoInv
<1>3. SleepTypes' /\ access'[on[c]] = "spin" /\ \A q \in Slots \ {on[c]} : Kept(q)
  BY <1>0 DEF SleepTypes, Phases, Kept
<1>. QED
  BY <1>0, <1>2, <1>3, PointStep DEF AccessHeld, Inside, Owns, PointsOf, At0

(* The access lock is taken only when it is free.                          *)
LEMMA AccessTakeInv ==
  ASSUME SleepInv, NEW c \in CPUs, AccessTake(c)
  PROVE  SleepInv'
<1>. DEFINE p == on[c]
<1>. USE DEF SleepInv, AccessTake, AccessFree, Access
<1>0. /\ p \in Slots /\ lock[p] \in Alarms
      /\ At0(p) \in {"acquire", "release"} /\ access[p] = "spin"
  BY Caller
<1>1. Inv'
  BY StutterInv
<1>2. SleepTypes' /\ access'[p] = "held" /\ access_lock'[lock[p]] /\ \A q \in Slots \ {p} : Kept(q)
  BY <1>0 DEF SleepTypes, Phases, Kept, vars
<1>3. \A q \in Slots : ~(AccessHeld(q) /\ lock[q] = lock[p])
  BY <1>0 DEF AccessExclusive
<1>4. AccessExclusive'
  <2>1. \A q \in Slots : AccessHeld(q)' => q = p \/ AccessHeld(q)
    BY <1>2 DEF Kept, AccessHeld
  <2>2. \A a \in Alarms : access_lock[a] => access_lock'[a]
    BY <1>0 DEF SleepTypes
  <2>3. \A q \in Slots : lock[q] \in Alarms
    BY DEF SleepTypes
  <2>. QED  BY <1>0, <1>2, <1>3, <2>1, <2>2, <2>3 DEF AccessExclusive
<1>5. AccessPoints'
  BY <1>0, <1>2 DEF AccessPoints, PointsOf, At0, Kept, vars
<1>6. Ownership'
  BY DEF Ownership, Owns, At0, vars
<1>. QED  BY <1>1, <1>2, <1>4, <1>5, <1>6

(* The holder of the access lock clears it.                                *)
LEMMA AccessDropInv ==
  ASSUME SleepInv, NEW c \in CPUs, AccessDrop(c)
  PROVE  SleepInv'
<1>. DEFINE p == on[c]
<1>. USE DEF SleepInv, AccessDrop, Access
<1>0. /\ p \in Slots /\ lock[p] \in Alarms
      /\ At0(p) \in {"sleep", "inside", "return"} /\ access[p] = "done" /\ ph[Base(p)] = "out"
  BY Caller
<1>1. Inv'
  BY StutterInv
<1>2. SleepTypes' /\ access'[p] = "freed" /\ \A q \in Slots \ {p} : Kept(q)
  BY <1>0 DEF SleepTypes, Phases, Kept, vars
<1>3. \A q \in Slots : AccessHeld(q)' => q # p /\ AccessHeld(q)
  BY <1>0, <1>2 DEF Kept, AccessHeld, Inside
<1>4. \A q \in Slots : AccessHeld(q) /\ q # p => lock[q] # lock[p]
  BY <1>0 DEF AccessExclusive, AccessHeld, Inside
<1>5. AccessExclusive'
  <2>1. \A a \in Alarms : a # lock[p] => access_lock'[a] = access_lock[a]
    BY <1>0 DEF SleepTypes
  <2>2. \A q \in Slots : lock[q] \in Alarms
    BY DEF SleepTypes
  <2>. QED  BY <1>3, <1>4, <2>1, <2>2 DEF AccessExclusive
<1>6. AccessPoints'
  BY <1>0, <1>2 DEF AccessPoints, PointsOf, At0, Kept, vars
<1>7. Ownership'
  BY DEF Ownership, Owns, At0, vars
<1>. QED  BY <1>1, <1>2, <1>5, <1>6, <1>7

(* A process takes its veto for the access lock back.                      *)
LEMMA AccessLeaveInv ==
  ASSUME SleepInv, NEW c \in CPUs, AccessLeave(c)
  PROVE  SleepInv'
<1>. USE DEF SleepInv, AccessLeave, Access
<1>0. /\ on[c] \in Slots /\ Top(on[c]) = Base(on[c])
      /\ At0(on[c]) \in {"sleep", "inside", "return"} /\ access[on[c]] = "freed"
  BY Caller
<1>1. vetos' \in [Contexts -> 0 .. VetoSize - 1]
  BY <1>0, VetoTypes DEF Inv, TypeOK, Contexts
<1>2. Inv'
  BY <1>0, <1>1, VetoInv
<1>3. SleepTypes' /\ access'[on[c]] = "out" /\ \A q \in Slots \ {on[c]} : Kept(q)
  BY <1>0 DEF SleepTypes, Phases, Kept
<1>. QED
  BY <1>0, <1>2, <1>3, PointStep DEF AccessHeld, Inside, Owns, PointsOf, At0

-----------------------------------------------------------------------------
(* SleepLock_Acquire and SleepLock_Release.                                *)

(* SleepLock_Acquire looks at locked under the access lock.                *)
LEMMA SleepLock_TestInv ==
  ASSUME SleepInv, NEW c \in CPUs, SleepLock_Test(c)
  PROVE  SleepInv'
<1>. DEFINE p == on[c]
<1>. USE DEF SleepInv, SleepLock_Test, Access
<1>0. /\ p \in Slots /\ Top(p) = Base(p)
      /\ At0(p) = "acquire" /\ access[p] = "held" /\ ph[Base(p)] = "out"
  BY Caller
<1>1. PICK label \in {"sleep", "take"} :
        /\ Goto(p, label)
        /\ label = "sleep" => Access(p, "done")
        /\ label = "take" => access' = access /\ ~locked[lock[p]]
  OBVIOUS
<1>2. Inv' /\ pc'[Base(p)] = label /\ \A q \in Slots \ {p} : pc'[Base(q)] = pc[Base(q)]
  BY <1>0, <1>1, GotoInv DEF CallLabels, Labels
<1>3. /\ SleepTypes' /\ \A q \in Slots \ {p} : Kept(q)
      /\ access'[p] = IF label = "sleep" THEN "done" ELSE "held"
  BY <1>0, <1>1, <1>2 DEF SleepTypes, Phases, Kept
<1>. QED
  BY <1>0, <1>1, <1>2, <1>3, PointStep DEF AccessHeld, Inside, Owns, PointsOf, At0

(* Only a process that holds the access lock of a free lock takes it.      *)
LEMMA SleepLock_TakeInv ==
  ASSUME SleepInv, NEW c \in CPUs, SleepLock_Take(c)
  PROVE  SleepInv'
<1>. DEFINE p == on[c]
<1>. USE DEF SleepInv, SleepLock_Take
<1>0. /\ p \in Slots /\ Top(p) = Base(p) /\ lock[p] \in Alarms
      /\ At0(p) = "take" /\ access[p] = "held"
  BY Caller
<1>1. Inv' /\ pc'[Base(p)] = "inside" /\ \A q \in Slots \ {p} : pc'[Base(q)] = pc[Base(q)]
  BY <1>0, GotoInv DEF CallLabels, Labels
<1>2. /\ SleepTypes' /\ access'[p] = "done" /\ \A q \in Slots \ {p} : Kept(q)
      /\ locked'[lock[p]] /\ \A a \in Alarms \ {lock[p]} : locked'[a] = locked[a]
  BY <1>0, <1>1 DEF SleepTypes, Phases, Kept, Access
<1>3. ~locked[lock[p]] /\ \A q \in Slots : Owns(q) => lock[q] # lock[p]
  BY <1>0 DEF AccessPoints, PointsOf, Ownership
<1>4. AccessExclusive'
  <2>1. \A q \in Slots : AccessHeld(q)' <=> AccessHeld(q)
    BY <1>0, <1>2 DEF Kept, AccessHeld, Inside
  <2>. QED  BY <2>1 DEF AccessExclusive
<1>5. AccessPoints'
  <2>1. \A q \in Slots \ {p} : At0(q) = "take" => lock[q] # lock[p]
    BY <1>0 DEF AccessPoints, PointsOf, AccessExclusive, AccessHeld, Inside
  <2>2. \A q \in Slots : lock[q] \in Alarms
    BY DEF SleepTypes
  <2>3. ASSUME NEW q \in Slots \ {p} PROVE PointsOf(q)'
    BY <1>2, <2>1, <2>2, <2>3 DEF AccessPoints, PointsOf, Kept, At0
  <2>. QED  BY <1>1, <2>3 DEF AccessPoints, PointsOf, At0
<1>6. Ownership'
  <2>1. \A q \in Slots : Owns(q)' <=> q = p \/ Owns(q)
    BY <1>0, <1>1 DEF Owns, At0
  <2>2. \A q \in Slots : lock[q] \in Alarms
    BY DEF SleepTypes
  <2>3. \A q \in Slots : Owns(q)' => locked'[lock[q]]
    BY <1>2, <1>3, <2>1, <2>2 DEF Ownership
  <2>4. \A q, r \in Slots : Owns(q)' /\ Owns(r)' /\ lock[q] = lock[r] => q = r
    BY <1>3, <2>1 DEF Ownership
  <2>5. \A a \in Alarms : locked'[a] => \E q \in Slots : Owns(q)' /\ lock[q] = a
    BY <1>0, <1>2, <2>1 DEF Ownership
  <2>. QED  BY <2>3, <2>4, <2>5 DEF Ownership
<1>. QED  BY <1>1, <1>2, <1>4, <1>5, <1>6

(* The owner clears locked under the access lock.                          *)
LEMMA SleepLock_ReleaseInv ==
  ASSUME SleepInv, NEW c \in CPUs, SleepLock_Release(c)
  PROVE  SleepInv'
<1>. DEFINE p == on[c]
<1>. USE DEF SleepInv, SleepLock_Release
<1>0. /\ p \in Slots /\ Top(p) = Base(p) /\ lock[p] \in Alarms
      /\ At0(p) = "release" /\ access[p] = "held"
  BY Caller
<1>1. Inv' /\ pc'[Base(p)] = "alarm" /\ \A q \in Slots \ {p} : pc'[Base(q)] = pc[Base(q)]
  BY <1>0, GotoInv DEF CallLabels, Labels
<1>2. /\ SleepTypes' /\ \A q \in Slots \ {p} : Kept(q)
      /\ ~locked'[lock[p]] /\ \A a \in Alarms \ {lock[p]} : locked'[a] = locked[a]
  BY <1>0, <1>1 DEF SleepTypes, Kept
<1>3. AccessExclusive'
  BY DEF AccessExclusive, AccessHeld
<1>4. AccessPoints'
  <2>2. \A q \in Slots : lock[q] \in Alarms
    BY DEF SleepTypes
  <2>3. ASSUME NEW q \in Slots \ {p} PROVE PointsOf(q)'
    BY <1>2, <2>2, <2>3 DEF AccessPoints, PointsOf, Kept, At0
  <2>. QED  BY <1>0, <1>1, <2>3 DEF AccessPoints, PointsOf, At0
<1>5. Ownership'
  <2>0. Owns(p)
    BY <1>0 DEF Owns
  <2>1. \A q \in Slots : Owns(q)' <=> q # p /\ Owns(q)
    BY <1>0, <1>1 DEF Owns, At0
  <2>2. \A q \in Slots : lock[q] \in Alarms
    BY DEF SleepTypes
  <2>3. \A q \in Slots : Owns(q)' => lock[q] # lock[p] /\ locked'[lock[q]]
    BY <1>0, <1>2, <2>0, <2>1, <2>2 DEF Ownership
  <2>4. \A q, r \in Slots : Owns(q)' /\ Owns(r)' /\ lock[q] = lock[r] => q = r
    BY <2>1 DEF Ownership
  <2>5. \A a \in Alarms : locked'[a] => \E q \in Slots : Owns(q)' /\ lock[q] = a
    BY <1>0, <1>2, <2>1 DEF Ownership
  <2>. QED  BY <2>3, <2>4, <2>5 DEF Ownership
<1>. QED  BY <1>1, <1>2, <1>3, <1>4, <1>5

(* Sleeping, waking and raising the alarm move one process of the          *)
(* scheduler's and change no lock.                                         *)
LEMMA SleepOnInv ==
  ASSUME SleepInv, NEW c \in CPUs, SleepOn(c)
  PROVE  SleepInv'
<1>. DEFINE p == on[c]
<1>. USE DEF SleepInv, SleepOn, Process_SleepOn, At
<1>0. /\ p \in Slots /\ Top(p) = Base(p) /\ lock[p] \in Alarms
  BY TopFrame DEF SleepTypes
<1>1. Inv'
  BY <1>0, Process_SleepOnInv
<1>2. pc'[Base(p)] = "woken" /\ \A q \in Slots \ {p} : pc'[Base(q)] = pc[Base(q)]
  BY <1>0 DEF Inv, TypeOK, Frames, Contexts
<1>3. SleepTypes' /\ \A q \in Slots \ {p} : Kept(q)
  BY <1>2 DEF SleepTypes, Kept, sleepvars
<1>4. At0(p) = "sleep" /\ access[p] = "out" /\ access' = access
  BY <1>0 DEF AccessPoints, PointsOf, At0, sleepvars
<1>. QED
  BY <1>0, <1>1, <1>2, <1>3, <1>4, PointStep DEF AccessHeld, Owns, PointsOf, At0, sleepvars

(* A woken process goes back to the access lock.                           *)
LEMMA WokenInv ==
  ASSUME SleepInv, NEW c \in CPUs, Woken(c)
  PROVE  SleepInv'
<1>. DEFINE p == on[c]
<1>. USE DEF SleepInv, Woken, Process_Woken, At, Move
<1>0. p \in Slots /\ Top(p) = Base(p) /\ At0(p) = "woken"
  BY TopFrame DEF At0
<1>1. Inv'
  BY Process_WokenInv DEF CallLabels, Labels
<1>2. /\ pc'[Base(p)] = "acquire"
      /\ \A q \in Slots \ {p} : pc'[Base(q)] = pc[Base(q)] /\ ph'[Base(q)] = ph[Base(q)]
  BY <1>0 DEF Inv, TypeOK, Frames, Contexts
<1>3. SleepTypes' /\ \A q \in Slots \ {p} : Kept(q)
  BY <1>2 DEF SleepTypes, Kept, sleepvars
<1>. QED
  BY <1>0, <1>1, <1>2, <1>3, PointStep DEF AccessHeld, Owns, PointsOf, At0, sleepvars

(* The alarm of a release leaves the locks alone.                          *)
LEMMA RaiseAlarmInv ==
  ASSUME SleepInv, NEW c \in CPUs, RaiseAlarm(c)
  PROVE  SleepInv'
<1>. DEFINE p == on[c]
<1>. USE DEF SleepInv, RaiseAlarm, Scheduler_RaiseAlarm, At, Move
<1>0. p \in Slots /\ Top(p) = Base(p) /\ At0(p) = "alarm"
  BY TopFrame DEF At0
<1>1. Inv'
  BY Scheduler_RaiseAlarmInv DEF CallLabels, Labels
<1>2. /\ pc'[Base(p)] = "return"
      /\ \A q \in Slots \ {p} : pc'[Base(q)] = pc[Base(q)] /\ ph'[Base(q)] = ph[Base(q)]
  BY <1>0 DEF Inv, TypeOK, Frames, Contexts
<1>3. SleepTypes' /\ access'[p] = "done" /\ \A q \in Slots \ {p} : Kept(q)
  BY <1>0, <1>2 DEF SleepTypes, Phases, Kept, Access
<1>4. access[p] = "held"
  BY <1>0 DEF AccessPoints, PointsOf
<1>. QED
  BY <1>0, <1>1, <1>2, <1>3, <1>4, PointStep DEF AccessHeld, Inside, Owns, PointsOf, At0

-----------------------------------------------------------------------------
(* The client.                                                             *)

(* An owner begins its release.                                            *)
LEMMA ClientReleasesInv ==
  ASSUME SleepInv, NEW c \in CPUs, ClientReleases(c)
  PROVE  SleepInv'
<1>. DEFINE p == on[c]
<1>. USE DEF SleepInv, ClientReleases
<1>0. p \in Slots /\ Top(p) = Base(p) /\ At0(p) = "inside" /\ access[p] = "out"
  BY Caller
<1>1. Inv' /\ pc'[Base(p)] = "release" /\ \A q \in Slots \ {p} : pc'[Base(q)] = pc[Base(q)]
  BY <1>0, GotoInv DEF CallLabels, Labels
<1>2. SleepTypes' /\ \A q \in Slots \ {p} : Kept(q)
  BY <1>1 DEF SleepTypes, Kept, sleepvars
<1>. QED
  BY <1>0, <1>1, <1>2, PointStep DEF AccessHeld, Owns, PointsOf, At0, sleepvars

(* A process that goes for a lock has and owns none.                       *)
LEMMA ClientAcquiresInv ==
  ASSUME SleepInv, NEW c \in CPUs, ClientAcquires(c)
  PROVE  SleepInv'
<1>. DEFINE p == on[c]
<1>. USE DEF SleepInv, ClientAcquires
<1>0. p \in Slots /\ Top(p) = Base(p) /\ At0(p) = "user"
  BY TopFrame DEF SysCall, At, At0
<1>1. Inv'
  BY SysCallInv DEF CallLabels, Labels
<1>2. /\ pc'[Base(p)] = "acquire" /\ UNCHANGED <<ph, locked, access_lock, access>>
      /\ \A q \in Slots \ {p} : pc'[Base(q)] = pc[Base(q)]
  BY <1>0 DEF SysCall, Inv, TypeOK, Frames, Contexts
<1>3. SleepTypes' /\ \A q \in Slots \ {p} : Kept(q)
  BY <1>0, <1>2 DEF SleepTypes, Kept
<1>4. access[p] = "out"
  BY <1>0 DEF AccessPoints, PointsOf
<1>5. AccessExclusive'
  <2>1. \A q \in Slots : AccessHeld(q)' => q # p /\ AccessHeld(q)
    BY <1>2, <1>4 DEF AccessHeld, Inside
  <2>. QED  BY <1>2, <1>3, <2>1 DEF AccessExclusive, Kept
<1>6. AccessPoints'
  <2>1. ASSUME NEW q \in Slots \ {p} PROVE PointsOf(q)'
    BY <1>2, <1>3, <2>1 DEF AccessPoints, PointsOf, Kept, At0
  <2>. QED  BY <1>2, <2>1 DEF AccessPoints, PointsOf, At0
<1>7. Ownership'
  <2>1. \A q \in Slots : (Owns(q)' <=> Owns(q)) /\ (Owns(q) => q # p)
    BY <1>0, <1>2 DEF Owns, At0
  <2>. QED  BY <1>2, <1>3, <2>1 DEF Ownership, Kept
<1>. QED  BY <1>1, <1>3, <1>5, <1>6, <1>7

-----------------------------------------------------------------------------
(* The scheduler's steps.                                                  *)

(* A process goes for Process_lock in "sleep" only without its access      *)
(* lock.                                                                   *)
LEMMA SpinEnterSleep ==
  ASSUME SleepInv, NEW c \in CPUs, SpinEnter(c, SleepPoints(c)), UNCHANGED sleepvars
  PROVE  SleepInv'
<1>. USE DEF SleepInv, SpinEnter
<1>0. on[c] \in Contexts /\ Top(on[c]) \in Frames
  BY TopFrame
<1>1. Inv'
  BY SpinEnterInv
<1>2. ASSUME NEW p \in Slots, At0(p) = "sleep", access[p] # "out" PROVE ph'[Base(p)] = "out"
  <2>1. ph[Base(p)] = "out" /\ Base(p) \in Frames
    BY <1>2 DEF AccessPoints, PointsOf, Frames, Contexts
  <2>2. CASE Top(on[c]) = Base(p)
    <3>1. on[c] = p
      BY <2>2 DEF Top
    <3>. QED  BY <1>2, <2>2, <3>1 DEF SleepPoints, At0
  <2>3. CASE Top(on[c]) # Base(p)
    BY <1>0, <2>1, <2>3 DEF Inv, TypeOK
  <2>. QED  BY <2>2, <2>3
<1>. QED  BY <1>1, <1>2, SchedulerStep

(* The phases that the other steps of the scheduler change are those of a  *)
(* frame that is in a section, or of an interrupt frame.                   *)
LEMMA OthersSleep ==
  ASSUME SleepInv, NEW c \in CPUs, UNCHANGED sleepvars,
         \/ SpinTake(c) \/ SpinDrop(c) \/ SpinLeave(c) \/ Dispatch(c) \/ PassOver(c)
         \/ Process_Preempt(c) \/ Iret(c)
         \/ \E ticks \in {0, 1} : Interrupt(c, ticks)
  PROVE  SleepInv'
<1>1. Inv'
  BY SpinTakeInv, SpinDropInv, SpinLeaveInv, DispatchInv, PassOverInv, InterruptInv, Process_PreemptInv,
     IretInv DEF SleepInv
<1>2. ph \in [Frames -> Phases] /\ pc \in [Frames -> Labels] /\ Top(on[c]) \in Frames
      /\ \A s \in Slots : Base(s) \in Frames
  BY TopFrame DEF SleepInv, Inv, TypeOK, Frames, Contexts
<1>3. \A s \in Slots : pc'[Base(s)] = pc[Base(s)]
  BY <1>2 DEF SpinTake, SpinDrop, SpinLeave, Dispatch, PassOver, Interrupt, Process_Preempt, Iret, Move
<1>4. \A s \in Slots : ph[Base(s)] = "out" => ph'[Base(s)] = "out"
  <2>1. CASE SpinTake(c) \/ SpinDrop(c) \/ SpinLeave(c)
    BY <1>2, <2>1 DEF SpinTake, SpinDrop, SpinLeave
  <2>2. CASE Dispatch(c) \/ PassOver(c)
    BY <1>2, <2>2 DEF Dispatch, PassOver
  <2>3. CASE Process_Preempt(c) \/ Iret(c) \/ \E ticks \in {0, 1} : Interrupt(c, ticks)
    BY <1>2, <2>3 DEF Process_Preempt, Iret, Interrupt, Move
  <2>. QED  BY <2>1, <2>2, <2>3
<1>. QED  BY <1>1, <1>3, <1>4, SchedulerStep DEF SleepInv, AccessPoints, PointsOf

(* A process that has just been started goes on to its own code.           *)
LEMMA ReturningInv ==
  ASSUME SleepInv, NEW c \in CPUs, Returning(c), UNCHANGED sleepvars
  PROVE  SleepInv'
<1>. DEFINE p == on[c]
<1>. USE DEF SleepInv, Returning, Interrupt_Return, At
<1>0. p \in Slots /\ Top(p) = Base(p) /\ At0(p) = "return" /\ access[p] = "out"
  BY TopFrame DEF At0
<1>1. Inv'
  BY Interrupt_ReturnInv
<1>2. /\ pc'[Base(p)] = "user"
      /\ \A q \in Slots \ {p} : pc'[Base(q)] = pc[Base(q)] /\ ph'[Base(q)] = ph[Base(q)]
  BY <1>0 DEF Inv, TypeOK, Frames, Contexts
<1>3. SleepTypes' /\ \A q \in Slots \ {p} : Kept(q)
  BY <1>2 DEF SleepTypes, Kept, sleepvars
<1>. QED
  BY <1>0, <1>1, <1>2, <1>3, PointStep DEF AccessHeld, Owns, PointsOf, At0, sleepvars

-----------------------------------------------------------------------------
(* No lock is taken at the start.                                          *)
LEMMA SleepInitInv == Alarms # {} /\ SleepInit => SleepInv
<1>. SUFFICES ASSUME Alarms # {}, SleepInit PROVE SleepInv
  OBVIOUS
<1>. USE DEF SleepInit
<1>1. Inv
  BY InitInv DEF Init
<1>2. SleepTypes
  BY DEF SleepTypes, Phases
<1>3. \A p \in Slots : At0(p) = "return"
  BY DEF InitWith, At0, NewLabel, Frames, Contexts
<1>4. AccessExclusive /\ AccessPoints /\ Ownership
  BY <1>3 DEF AccessExclusive, AccessHeld, Inside, AccessPoints, PointsOf, Ownership, Owns
<1>. QED  BY <1>1, <1>2, <1>4 DEF SleepInv

(* One case for every action.                                              *)
LEMMA SleepNextInv == SleepInv /\ [SleepNext]_lockvars => SleepInv'
<1>1. ASSUME SleepInv, NEW c \in CPUs, KernelStep(c) PROVE SleepInv'
  BY <1>1, SpinEnterSleep, OthersSleep, ReturningInv, AccessEnterInv, AccessTakeInv, AccessDropInv,
     AccessLeaveInv, SleepLock_TestInv, SleepLock_TakeInv, SleepOnInv, WokenInv, SleepLock_ReleaseInv,
     RaiseAlarmInv, ClientReleasesInv DEF KernelStep
<1>2. ASSUME SleepInv, SleepNext PROVE SleepInv'
  BY <1>1, <1>2, ClientAcquiresInv, OthersSleep DEF SleepNext
<1>3. ASSUME SleepInv, UNCHANGED lockvars PROVE SleepInv'
  <2>1. Inv'
    BY <1>3, StutterInv DEF SleepInv, lockvars
  <2>. QED
    BY <1>3, <2>1, SchedulerStep DEF SleepInv, AccessPoints, PointsOf, lockvars, vars
<1>. QED  BY <1>2, <1>3

(* The scheduler's invariant and the lock's hold in every behaviour.       *)
THEOREM SleepInvariance == Alarms # {} /\ SleepSpec => []SleepInv
BY SleepInitInv, SleepNextInv, PTL DEF SleepSpec

(* A sleep lock excludes, across sleeping, waking, preemption and          *)
(* migration, for any number of CPUs, processes and locks: locked is set   *)
(* exactly while one process owns the lock.                                *)
THEOREM LockExcludes == SleepSpec => []MutualExclusion
<1>1. SleepInv => MutualExclusion
  <2>. SUFFICES ASSUME SleepInv, NEW a \in Alarms
                PROVE  IF locked[a] THEN Cardinality(Owners(a)) = 1 ELSE Owners(a) = {}
    BY DEF MutualExclusion
  <2>1. CASE locked[a]
    <3>1. PICK p \in Slots : Owns(p) /\ lock[p] = a
      BY <2>1 DEF SleepInv, Ownership
    <3>2. Owners(a) = {p}
      BY <3>1 DEF Owners, Owns, At0, SleepInv, Ownership
    <3>. QED  BY <2>1, <3>2, FS_Singleton
  <2>2. CASE ~locked[a]
    BY <2>2 DEF Owners, Owns, At0, SleepInv, Ownership
  <2>. QED  BY <2>1, <2>2
<1>2. CASE Alarms # {}
  BY <1>1, <1>2, SleepInvariance, PTL
<1>3. CASE Alarms = {}
  <2>1. MutualExclusion
    BY <1>3 DEF MutualExclusion
  <2>. QED  BY <1>3, <2>1, PTL
<1>. QED  BY <1>2, <1>3

-----------------------------------------------------------------------------
(* Processes.  The scheduler's inductive invariant carries over: what is   *)
(* new are a process that has given its stack back, or is DEAD, and still  *)
(* on its CPU, and a slot that somebody else prepares.                     *)

Forks == {"initialize", "page_spin", "link", "publish"}
Prepares == {"link", "publish"}
Lives(s) == status[s] \in {"RUNNABLE", "RUNNING", "ASLEEP"}

OwnTypes ==
    /\ forked \in [Slots -> Slots \cup {Null}]
    /\ kernel_stack \in [Slots -> Stacks \cup {Null}]
    /\ process \in [Stacks -> Slots \cup {Null}]
    /\ free_stacks \subseteq Stacks

(* A dead process that is still on its CPU holds Process_lock and is about *)
(* to leave; no live one is there.                                         *)
Leaving ==
    /\ \A c \in CPUs : on[c] \in Slots /\ status[on[c]] = "DEAD" =>
           At0(on[c]) = "leave" /\ ph[Base(on[c])] = "held"
    /\ \A s \in Slots : Lives(s) => At0(s) # "leave"

(* A slot is BOOKED for the one live process that is in Process_Fork with  *)
(* it.                                                                     *)
Forking ==
    /\ \A p \in Slots : forked[p] # Null <=> At0(p) \in Forks
    /\ \A p \in Slots : forked[p] # Null => Lives(p) /\ status[forked[p]] = "BOOKED"
    /\ \A p, q \in Slots : forked[p] # Null /\ forked[p] = forked[q] => p = q
    /\ \A s \in Slots : status[s] = "BOOKED" => \E p \in Slots : forked[p] = s

(* Process_Initialize has left the slot parked at its first release of the *)
(* lock.                                                                   *)
Prepared ==
    \A p \in Slots : At0(p) \in Prepares =>
        /\ ph[Base(forked[p])] = "done" /\ ph[Intr(forked[p])] = "off"
        /\ At0(forked[p]) = "return"

(* The slots whose kernel stack is in use: the live ones, unless they have *)
(* given it back, and those that have been prepared.                       *)
Stays(s) == Lives(s) /\ At0(s) # "bury"
Housed(s) == Stays(s) \/ \E p \in Slots : forked[p] = s /\ At0(p) \in Prepares
StacksUsed ==
    /\ \A s \in Slots : Housed(s) => /\ kernel_stack[s] \in Stacks \ free_stacks
                                     /\ process[kernel_stack[s]] = s
    /\ \A s, t \in Slots : Housed(s) /\ Housed(t) /\ kernel_stack[s] = kernel_stack[t] => s = t

(* A process that has given its stack back and is not DEAD yet runs and    *)
(* holds Process_lock; so long, its stack may be taken, but not by a live  *)
(* process.                                                                *)
Burying ==
    /\ \A s \in Slots : At0(s) = "bury" => status[s] = "RUNNING" /\ ph[Base(s)] = "held"
    /\ \A s, t \in Slots : At0(s) = "bury" /\ Lives(t) /\ s # t => kernel_stack[s] # kernel_stack[t]

ProcInv == Inv /\ OwnTypes /\ Leaving /\ Forking /\ Prepared /\ StacksUsed /\ Burying

(* The running process, where it is not about to leave.                    *)
LEMMA Running ==
  ASSUME ProcInv, NEW c \in CPUs, NEW label, NEW phase, At(c, label, phase),
         label \notin {"preempt", "iret", "schedule", "leave"}
  PROVE  /\ on[c] \in Slots /\ on[c] \in Contexts /\ Top(on[c]) = Base(on[c]) /\ ph[Intr(on[c])] = "off"
         /\ At0(on[c]) = label /\ ph[Base(on[c])] = phase
         /\ Base(on[c]) \in Frames /\ Intr(on[c]) \in Frames
         /\ status[on[c]] = "RUNNING"
<1>1. /\ on[c] \in Slots /\ Top(on[c]) = Base(on[c]) /\ ph[Intr(on[c])] = "off"
  BY TopFrame DEF ProcInv, At
<1>2. At0(on[c]) = label /\ ph[Base(on[c])] = phase
  BY <1>1 DEF At, At0
<1>3. status[on[c]] = "RUNNING"
  BY <1>1, <1>2 DEF ProcInv, Inv, Located, Leaving
<1>. QED  BY <1>1, <1>2, <1>3 DEF Frames, Contexts

(* A BOOKED slot is on no CPU.                                             *)
LEMMA BookedOff ==
  ASSUME ProcInv, NEW s \in Slots, status[s] \in {"BOOKED", "IDLE"}
  PROVE  \A c \in CPUs : on[c] # s
BY DEF ProcInv, Inv, Located

(* Between the release of its stack and its death, a process has the lock  *)
(* to itself.                                                              *)
LEMMA BuryAlone ==
  ASSUME ProcInv, NEW s \in Slots, At0(s) = "bury", NEW c \in CPUs, on[c] \in Slots,
         ph[Base(on[c])] = "held"
  PROVE  on[c] = s
<1>1. status[s] = "RUNNING" /\ ph[Base(s)] = "held"
  BY DEF ProcInv, Burying
<1>2. PICK d \in CPUs : on[d] = s
  BY <1>1 DEF ProcInv, Inv, Located
<1>3. Holds(on[d]) /\ Holds(on[c])
  BY <1>1, <1>2 DEF Holds
<1>. QED  BY <1>2, <1>3 DEF ProcInv, Inv, LockHandover

-----------------------------------------------------------------------------
(* Steps that neither book, prepare, publish nor end a process.            *)
LEMMA QuietStep ==
  ASSUME ProcInv, Inv', UNCHANGED <<forked, kernel_stack, process, free_stacks>>,
         \A s \in Slots : /\ status'[s] = "BOOKED" <=> status[s] = "BOOKED"
                          /\ Lives(s)' <=> Lives(s)
                          /\ At0(s)' \in Forks <=> At0(s) \in Forks
                          /\ At0(s)' \in Prepares <=> At0(s) \in Prepares
                          /\ status[s] = "BOOKED" => FramesKept(s) /\ At0(s)' = At0(s)
                          /\ At0(s)' = "bury" <=> At0(s) = "bury"
                          /\ At0(s) = "bury" => status'[s] = "RUNNING" /\ ph'[Base(s)] = "held",
         Leaving'
  PROVE  ProcInv'
<1>. USE DEF ProcInv
<1>1. OwnTypes'
  BY DEF OwnTypes
<1>2. Forking'
  <2>1. \A p \in Slots : forked[p] # Null => forked[p] \in Slots
    BY DEF OwnTypes
  <2>. QED  BY <2>1 DEF Forking
<1>3. Prepared'
  <2>1. \A p \in Slots : At0(p) \in Prepares => forked[p] \in Slots /\ status[forked[p]] = "BOOKED"
    BY DEF Forking, Prepares, Forks, OwnTypes
  <2>. QED  BY <2>1 DEF Prepared, FramesKept
<1>4. StacksUsed'
  <2>1. \A s \in Slots : Housed(s)' <=> Housed(s)
    BY DEF Housed, Stays
  <2>. QED  BY <2>1 DEF StacksUsed
<1>5. Burying'
  <2>1. \A s \in Slots : At0(s)' = "bury" => status'[s] = "RUNNING" /\ ph'[Base(s)] = "held"
    OBVIOUS
  <2>2. \A s, t \in Slots : At0(s)' = "bury" /\ Lives(t)' /\ s # t => kernel_stack'[s] # kernel_stack'[t]
    BY DEF Burying
  <2>. QED  BY <2>1, <2>2 DEF Burying
<1>. QED  BY <1>1, <1>2, <1>3, <1>4, <1>5

(* What the scheduler's own steps do to processes.                         *)
LEMMA CPUStepFrame ==
  ASSUME Inv, NEW c \in CPUs, NEW labels, CPUStep(c, labels)
  PROVE  /\ \A s \in Slots : At0(s)' = At0(s) \/ (At0(s) = "return" /\ At0(s)' = "user")
         /\ \A s \in Slots : ph[Base(s)] = "held" => ph'[Base(s)] = "held"
         /\ \A s \in Slots : (\A d \in CPUs : on[d] # s) => FramesKept(s) /\ At0(s)' = At0(s)
         /\ \A s \in Slots : status'[s] = status[s] \/ {status[s], status'[s]} \subseteq {"RUNNABLE", "RUNNING"}
         /\ \A s \in Slots : status[s] = "RUNNING" /\ ph[Base(s)] = "held" => status'[s] = "RUNNING"
         /\ \A d \in CPUs : on'[d] = on[d] \/ on'[d] \in CPUs \/ (on'[d] \in Slots /\ status'[on'[d]] = "RUNNING")
<1>0. /\ ph \in [Frames -> Phases] /\ pc \in [Frames -> Labels] /\ Top(on[c]) \in Frames /\ on[c] \in Contexts
      /\ status \in [Slots -> Status] /\ on \in [CPUs -> Contexts] /\ iproc \in [CPUs -> Slots]
      /\ \A s \in Slots : Base(s) \in Frames /\ Intr(s) \in Frames
  BY TopFrame DEF Inv, TypeOK, Frames, Contexts
<1>1. Top(on[c]) \in {Base(on[c]), Intr(on[c])}
  BY DEF Top
<1>2. CASE SpinEnter(c, labels) \/ SpinTake(c) \/ SpinDrop(c) \/ SpinLeave(c)
  <2>1. UNCHANGED <<status, on, pc>>
    BY <1>2 DEF SpinEnter, SpinTake, SpinDrop, SpinLeave
  <2>2. \A s \in Slots : ph[Base(s)] = "held" => ph'[Base(s)] = "held"
    BY <1>0, <1>2 DEF SpinEnter, SpinTake, SpinDrop, SpinLeave
  <2>3. \A s \in Slots : on[c] # s => FramesKept(s)
    BY <1>0, <1>1, <1>2 DEF SpinEnter, SpinTake, SpinDrop, SpinLeave, FramesKept
  <2>. QED  BY <2>1, <2>2, <2>3 DEF At0
<1>3. CASE PassOver(c)
  BY <1>0, <1>3 DEF PassOver, FramesKept, At0
<1>4. CASE Dispatch(c)
  <2>. USE <1>4 DEF Dispatch, Ready, MarkRunning
  <2>1. iproc[on[c]] \in Slots /\ status[iproc[on[c]]] = "RUNNABLE" /\ on[c] \in CPUs /\ UNCHANGED pc
    BY <1>0
  <2>2. \A s \in Slots : FramesKept(s)
    BY <1>0, <2>1 DEF FramesKept
  <2>3. \A s \in Slots : status'[s] = status[s] \/ {status[s], status'[s]} \subseteq {"RUNNABLE", "RUNNING"}
    BY <1>0, <2>1
  <2>4. \A d \in CPUs : on'[d] = on[d] \/ (on'[d] \in Slots /\ status'[on'[d]] = "RUNNING")
    BY <1>0, <2>1
  <2>5. \A s \in Slots : status[s] = "RUNNING" => status'[s] = "RUNNING"
    BY <1>0, <2>1
  <2>. QED  BY <2>1, <2>2, <2>3, <2>4, <2>5 DEF FramesKept, At0
<1>5. CASE \E ticks \in {0, 1} : Interrupt(c, ticks)
  <2>1. UNCHANGED <<status, on>>
    BY <1>5 DEF Interrupt
  <2>2. \A s \in Slots : pc'[Base(s)] = pc[Base(s)] /\ ph'[Base(s)] = ph[Base(s)]
    BY <1>0, <1>5 DEF Interrupt, Move
  <2>3. \A s \in Slots : on[c] # s => FramesKept(s)
    BY <1>0, <1>5 DEF Interrupt, Move, FramesKept
  <2>. QED  BY <2>1, <2>2, <2>3 DEF At0
<1>6. CASE Process_Preempt(c)
  <2>. USE <1>6 DEF Process_Preempt, Move
  <2>1. on[c] \in Slots
    OBVIOUS
  <2>2. \A s \in Slots : pc'[Base(s)] = pc[Base(s)] /\ ph'[Base(s)] = ph[Base(s)]
    BY <1>0
  <2>3. \A s \in Slots : on[c] # s => FramesKept(s)
    BY <1>0 DEF FramesKept
  <2>4. \A s \in Slots : status'[s] = status[s] \/ {status[s], status'[s]} \subseteq {"RUNNABLE", "RUNNING"}
    BY <1>0 DEF Scheduler_Preempt
  <2>5. \A d \in CPUs : on'[d] = on[d] \/ on'[d] \in CPUs
    BY <1>0, <2>1 DEF SCHEDULER_RETURN, Inv, HomeCPU
  <2>6. \A s \in Slots : status[s] = "RUNNING" /\ ph[Base(s)] = "held" => status'[s] = "RUNNING"
    <3>1. on[c] \in Contexts /\ Top(on[c]) \in {Base(on[c]), Intr(on[c])}
      BY <1>0, <1>1
    <3>2. ph[Intr(on[c])] \in Inside
      BY <2>1, <1>0, TopFrame DEF At, Inside, Inv, FrameLabels, Top
    <3>3. ph[Base(on[c])] # "held"
      BY <3>1, <3>2 DEF Inv, OneSection, Inside
    <3>. QED  BY <1>0, <3>3
  <2>. QED  BY <2>2, <2>3, <2>4, <2>5, <2>6 DEF At0
<1>7. CASE Iret(c)
  <2>1. UNCHANGED <<status, on, pc>>
    BY <1>7 DEF Iret
  <2>2. \A s \in Slots : ph'[Base(s)] = ph[Base(s)]
    BY <1>0, <1>7 DEF Iret
  <2>3. \A s \in Slots : on[c] # s => FramesKept(s)
    BY <1>0, <1>7 DEF Iret, FramesKept
  <2>. QED  BY <2>1, <2>2, <2>3 DEF At0
<1>8. CASE Interrupt_Return(c)
  <2>0. on[c] \in Slots /\ Top(on[c]) = Base(on[c]) /\ pc[Base(on[c])] = "return"
    BY <1>8, TopFrame DEF Interrupt_Return, At
  <2>1. UNCHANGED <<status, on>>
    BY <1>8 DEF Interrupt_Return
  <2>2. \A s \in Slots : ph'[Base(s)] = ph[Base(s)] /\ pc'[Base(s)] = IF s = on[c] THEN "user" ELSE pc[Base(s)]
    BY <1>0, <2>0, <1>8 DEF Interrupt_Return
  <2>3. \A s \in Slots : on[c] # s => FramesKept(s)
    BY <1>0, <1>8 DEF Interrupt_Return, FramesKept
  <2>. QED  BY <2>0, <2>1, <2>2, <2>3 DEF At0
<1>. QED
  BY <1>2, <1>3, <1>4, <1>5, <1>6, <1>7, <1>8 DEF CPUStep

(* The scheduler's steps keep the invariant.                               *)
LEMMA CPUStepProc ==
  ASSUME ProcInv, NEW c \in CPUs, NEW labels, CPUStep(c, labels), UNCHANGED own
  PROVE  ProcInv'
<1>1. Inv'
  BY CPUStepInv DEF ProcInv
<1>2. \A s \in Slots : At0(s)' = At0(s) \/ (At0(s) = "return" /\ At0(s)' = "user")
  BY CPUStepFrame DEF ProcInv
<1>3. \A s \in Slots : status'[s] = status[s] \/ {status[s], status'[s]} \subseteq {"RUNNABLE", "RUNNING"}
  BY CPUStepFrame DEF ProcInv
<1>4. \A s \in Slots : status[s] = "BOOKED" => FramesKept(s) /\ At0(s)' = At0(s)
  BY CPUStepFrame, BookedOff DEF ProcInv
<1>5. Leaving'
  <2>1. ASSUME NEW d \in CPUs, on'[d] \in Slots, status'[on'[d]] = "DEAD"
        PROVE  pc'[Base(on'[d])] = "leave" /\ ph'[Base(on'[d])] = "held"
    <3>1. on'[d] = on[d] /\ status[on[d]] = "DEAD" /\ on[d] \in Slots
      BY <1>3, <2>1, CPUStepFrame DEF ProcInv
    <3>2. At0(on[d]) = "leave" /\ ph[Base(on[d])] = "held"
      BY <3>1 DEF ProcInv, Leaving
    <3>3. pc'[Base(on[d])] = pc[Base(on[d])] /\ ph'[Base(on[d])] = "held"
      BY <1>2, <3>1, <3>2, CPUStepFrame DEF ProcInv, At0
    <3>. QED  BY <3>1, <3>2, <3>3 DEF At0
  <2>2. \A s \in Slots : Lives(s)' => At0(s)' # "leave"
    BY <1>2, <1>3 DEF ProcInv, Leaving, Lives
  <2>. QED  BY <2>1, <2>2 DEF Leaving, At0
<1>6. \A s \in Slots : /\ At0(s)' = "bury" <=> At0(s) = "bury"
                       /\ At0(s) = "bury" => status'[s] = "RUNNING" /\ ph'[Base(s)] = "held"
  BY <1>2, CPUStepFrame DEF ProcInv, Burying
<1>. QED
  BY <1>1, <1>2, <1>3, <1>4, <1>5, <1>6, QuietStep DEF Lives, Forks, Prepares, own, memory

-----------------------------------------------------------------------------
(* A step in which the process on c moves its own base frame and other     *)
(* slots may change status, provided none starts or stops RUNNING and the  *)
(* ones made RUNNABLE are parked inside a critical section.                *)
LEMMA OwnStep ==
  ASSUME Inv, NEW c \in CPUs, on[c] \in Slots, Top(on[c]) = Base(on[c]),
         NEW label \in CallLabels, NEW phase \in Phases \ {"off"},
         phase \in Inside <=> ph[Base(on[c])] \in Inside,
         ph' = [ph EXCEPT ![Base(on[c])] = phase],
         pc' = [pc EXCEPT ![Base(on[c])] = label],
         status' \in [Slots -> Status], intr' \in [CPUs -> BOOLEAN],
         \A s \in Slots : status'[s] = "RUNNING" => status[s] = "RUNNING",
         \A d \in CPUs : on[d] \in Slots => status'[on[d]] \in {"RUNNING", "DEAD"},
         \A s \in Slots : status'[s] \in {"RUNNABLE", "ASLEEP"} => ph[Top(s)] \in Inside,
         UNCHANGED <<wakeup_on, vetos, Process_lock, on, kernel_task, esp0, iproc, spent>>
  PROVE  Inv'
<1>. USE DEF Inv, CallLabels
<1>0. /\ ph[Intr(on[c])] = "off"
      /\ Base(on[c]) \in Frames /\ Intr(on[c]) \in Frames /\ on[c] \in Contexts
  BY DEF Frames, Contexts, Top
<1>1. TypeOK'
  BY <1>0 DEF TypeOK, Contexts, Frames, Phases, Labels
<1>2. \A x \in Contexts \ {on[c]} : FramesKept(x)
  BY <1>0 DEF TypeOK, FramesKept, Frames
<1>3. /\ ph'[Base(on[c])] = phase /\ ph'[Intr(on[c])] = "off"
  BY <1>0 DEF TypeOK
<1>4. \A d \in CPUs : Holds(on[d])' <=> Holds(on[d])
  <2>1. Holds(on[c])' <=> Holds(on[c])
    BY <1>0, <1>3 DEF Holds, Inside
  <2>. QED  BY <1>2, <2>1, OthersHold
<1>5. FrameLabels'
  BY <1>0 DEF TypeOK, FrameLabels, Frames, Contexts
<1>6. OneSection'
  BY <1>2, <1>3 DEF OneSection, Inside, FramesKept, Contexts
<1>7. LockHandover' /\ Located' /\ HomeCPU'
  BY <1>4 DEF LockHandover, Located, HomeCPU
<1>8. ParkedInCriticalSection'
  <2>1. ASSUME NEW s \in Slots, status'[s] \in {"RUNNABLE", "ASLEEP"}
        PROVE  ph'[Top(s)'] \in {"held", "done"}
    <3>1. s \in Contexts \ {on[c]}
      BY <2>1 DEF Contexts
    <3>2. FramesKept(s) /\ ph[Top(s)] \in Inside
      BY <1>2, <2>1, <3>1
    <3>. QED  BY <3>2 DEF FramesKept, Top, Inside
  <2>2. \A d \in CPUs : on[d] \in Slots => ph'[Base(d)] = "done"
    BY <1>2 DEF ParkedInCriticalSection, FramesKept, Contexts
  <2>. QED  BY <2>1, <2>2 DEF ParkedInCriticalSection
<1>. QED  BY <1>1, <1>5, <1>6, <1>7, <1>8

(* What such a step leaves alone.                                          *)
LEMMA OwnFrames ==
  ASSUME Inv, NEW c \in CPUs, on[c] \in Slots, NEW label, NEW phase,
         ph' = [ph EXCEPT ![Base(on[c])] = phase],
         pc' = [pc EXCEPT ![Base(on[c])] = label]
  PROVE  /\ \A s \in Slots \ {on[c]} : FramesKept(s) /\ At0(s)' = At0(s)
         /\ ph'[Base(on[c])] = phase /\ pc'[Base(on[c])] = label
<1>1. /\ ph \in [Frames -> Phases] /\ pc \in [Frames -> Labels]
      /\ \A s \in Slots : Base(s) \in Frames /\ Intr(s) \in Frames
  BY DEF Inv, TypeOK, Frames, Contexts
<1>. QED  BY <1>1 DEF FramesKept, At0

(* Such a step keeps the invariant when the process stays RUNNING and      *)
(* enters or leaves no part of Process_Fork, and no slot is booked,        *)
(* published or ended.                                                     *)
LEMMA OwnQuiet ==
  ASSUME ProcInv, Inv', NEW c \in CPUs, on[c] \in Slots, status[on[c]] = "RUNNING",
         NEW label \in CallLabels \ {"leave", "bury"}, NEW phase,
         At0(on[c]) # "bury",
         label \in Forks <=> At0(on[c]) \in Forks,
         label \in Prepares <=> At0(on[c]) \in Prepares,
         ph' = [ph EXCEPT ![Base(on[c])] = phase],
         pc' = [pc EXCEPT ![Base(on[c])] = label],
         status'[on[c]] = "RUNNING",
         \A s \in Slots : status'[s] = status[s] \/ (status[s] = "DEAD" /\ status'[s] = "IDLE"),
         UNCHANGED <<on, forked, kernel_stack, process, free_stacks>>
  PROVE  ProcInv'
<1>1. /\ \A s \in Slots \ {on[c]} : FramesKept(s) /\ At0(s)' = At0(s)
      /\ pc'[Base(on[c])] = label
  BY OwnFrames DEF ProcInv
<1>2. \A s \in Slots : s = on[c] => At0(s)' = label
  BY <1>1 DEF At0
<1>3. Leaving'
  <2>1. ASSUME NEW d \in CPUs, on[d] \in Slots, status'[on[d]] = "DEAD"
        PROVE  pc'[Base(on[d])] = "leave" /\ ph'[Base(on[d])] = "held"
    <3>1. on[d] # on[c] /\ status[on[d]] = "DEAD"
      BY <2>1
    <3>. QED  BY <1>1, <2>1, <3>1 DEF ProcInv, Leaving, FramesKept, At0
  <2>2. \A s \in Slots : Lives(s)' => At0(s)' # "leave"
    BY <1>1, <1>2 DEF ProcInv, Leaving, Lives
  <2>. QED  BY <2>1, <2>2 DEF Leaving, At0
<1>4. \A s \in Slots : /\ At0(s)' \in Forks <=> At0(s) \in Forks
                       /\ At0(s)' \in Prepares <=> At0(s) \in Prepares
  BY <1>1, <1>2
<1>5. \A s \in Slots : /\ At0(s)' = "bury" <=> At0(s) = "bury"
                       /\ At0(s) = "bury" => status'[s] = "RUNNING" /\ ph'[Base(s)] = "held"
  <2>1. \A s \in Slots : At0(s)' = "bury" <=> At0(s) = "bury"
    BY <1>1, <1>2
  <2>2. ASSUME NEW s \in Slots, At0(s) = "bury" PROVE status'[s] = "RUNNING" /\ ph'[Base(s)] = "held"
    <3>1. s # on[c] /\ status[s] = "RUNNING" /\ ph[Base(s)] = "held"
      BY <2>2 DEF ProcInv, Burying
    <3>. QED  BY <1>1, <3>1 DEF FramesKept
  <2>. QED  BY <2>1, <2>2
<1>. QED  BY <1>1, <1>3, <1>4, <1>5, QuietStep DEF Lives

(* A frame that keeps its phase, written as an assignment.                 *)
LEMMA SamePhase ==
  ASSUME Inv, NEW s \in Slots, UNCHANGED ph
  PROVE  ph' = [ph EXCEPT ![Base(s)] = ph[Base(s)]]
BY DEF Inv, TypeOK, Frames, Contexts

(* A system call only chooses what to do next.                             *)
LEMMA SysCallProc ==
  ASSUME ProcInv, NEW c \in CPUs, NEW operation \in {"book", "wait", "exit"},
         SysCall(c, operation), UNCHANGED own
  PROVE  ProcInv'
<1>1. /\ on[c] \in Slots /\ At0(on[c]) = "user" /\ status[on[c]] = "RUNNING"
  BY Running DEF SysCall
<1>2. Inv'
  BY SysCallInv DEF ProcInv, CallLabels, Labels
<1>3. ph' = [ph EXCEPT ![Base(on[c])] = ph[Base(on[c])]]
  BY <1>1, SamePhase DEF SysCall, ProcInv
<1>. QED
  BY <1>1, <1>2, <1>3, OwnQuiet
     DEF SysCall, Forks, Prepares, CallLabels, Labels, own, memory

(* Process_Wait without children, and a Scheduler_Book that finds no slot. *)
LEMMA EmptyHanded ==
  ASSUME ProcInv, NEW c \in CPUs, NEW from \in {"book", "wait"}, NEW label \in {"book", "return"},
         At(c, from, "held"), Move(Base(on[c]), label, "done"),
         UNCHANGED <<status, wakeup_on, vetos, Process_lock, on, kernel_task, esp0, intr, iproc,
                     spent, forked, kernel_stack, process, free_stacks>>
  PROVE  ProcInv'
<1>1. /\ on[c] \in Slots /\ At0(on[c]) = from /\ status[on[c]] = "RUNNING"
      /\ Top(on[c]) = Base(on[c]) /\ ph[Base(on[c])] = "held"
  BY Running
<1>2. /\ status' \in [Slots -> Status] /\ intr' \in [CPUs -> BOOLEAN]
      /\ \A d \in CPUs : on[d] \in Slots => status'[on[d]] \in {"RUNNING", "DEAD"}
      /\ \A s \in Slots : status'[s] \in {"RUNNABLE", "ASLEEP"} => ph[Top(s)] \in Inside
  BY DEF ProcInv, Inv, TypeOK, Located, ParkedInCriticalSection, Inside
<1>3. Inv'
  BY <1>1, <1>2, OwnStep DEF ProcInv, Move, CallLabels, Labels, Phases, Inside
<1>. QED
  BY <1>1, <1>3, OwnQuiet DEF Move, Forks, Prepares, CallLabels, Labels

(* The least of some naturals is one of them.                              *)
LEMMA MinOf == ASSUME NEW S \in SUBSET Nat, S # {} PROVE Min(S) \in S /\ \A n \in S : Min(S) <= n
<1>. DEFINE R == OpToRel(<, Nat)
<1>1. IsWellFoundedOn(R, Nat)
  BY NatLessThanWellFounded
<1>2. \A x, y \in Nat : y < x => <<y, x>> \in R
  BY DEF OpToRel
<1>. HIDE DEF R
<1>3. PICK x \in S : \A y \in S : ~ (<<y, x>> \in R)
  BY <1>1, WFMin
<1>4. \A y \in S : x <= y
  <2>. TAKE y \in S
  <2>1. x \in Nat /\ y \in Nat /\ ~(y < x)
    BY <1>2, <1>3
  <2>. QED  BY <2>1
<1>. QED  BY <1>3, <1>4 DEF Min

(* Process_Wait reclaims a slot that has left its CPU: a dead process that *)
(* has not holds Process_lock, and so does the caller.                     *)
LEMMA WaitReapProc ==
  ASSUME ProcInv, NEW c \in CPUs, WaitReap(c)
  PROVE  ProcInv'
<1>1. /\ on[c] \in Slots /\ At0(on[c]) = "wait" /\ status[on[c]] = "RUNNING"
      /\ Top(on[c]) = Base(on[c]) /\ ph[Base(on[c])] = "held"
  <2>1. At(c, "wait", "held")
    BY DEF WaitReap
  <2>. QED  BY <2>1, Running DEF At
<1>. DEFINE p == on[c]
            n == Min(DeadKids(p))
            k == Kid(p)[n]
<1>2. status[k] = "DEAD"
  <2>1. DeadKids(p) \in SUBSET Nat /\ DeadKids(p) # {}
    BY DEF DeadKids, WaitReap
  <2>2. n \in DeadKids(p)
    BY <2>1, MinOf
  <2>. QED  BY <2>2 DEF DeadKids, Dead
<1>. HIDE DEF n, k
<1>3. \A d \in CPUs : on[d] \in Slots => on[d] # k
  <2>1. SUFFICES ASSUME NEW d \in CPUs, on[d] \in Slots, on[d] = k PROVE FALSE
    OBVIOUS
  <2>2. Holds(on[d]) /\ Holds(on[c])
    BY <1>1, <1>2, <2>1 DEF ProcInv, Leaving, Holds
  <2>3. d = c
    BY <2>2 DEF ProcInv, Inv, LockHandover
  <2>. QED  BY <1>1, <1>2, <2>1, <2>3
<1>4. PICK label \in {"return", "wait_sleep"}, phase \in {"done", "held"} : Move(Base(p), label, phase)
  <2>1. Move(Base(p), "return", "done") \/ Move(Base(p), "wait_sleep", "held")
    BY DEF WaitReap
  <2>. QED  BY <2>1
<1>5. /\ status' = [status EXCEPT ![k] = "IDLE"] /\ status \in [Slots -> Status]
      /\ UNCHANGED <<wakeup_on, vetos, Process_lock, on, kernel_task, esp0, intr, iproc, spent,
                     kernel_stack, process, free_stacks, forked>>
  BY DEF WaitReap, ProcInv, Inv, TypeOK, n, k, memory
<1>6. \A s \in Slots : status'[s] = status[s] \/ (s = k /\ status[s] = "DEAD" /\ status'[s] = "IDLE")
  BY <1>2, <1>5
<1>7. /\ status' \in [Slots -> Status] /\ intr' \in [CPUs -> BOOLEAN]
      /\ \A d \in CPUs : on[d] \in Slots => status'[on[d]] \in {"RUNNING", "DEAD"}
      /\ \A s \in Slots : status'[s] \in {"RUNNABLE", "ASLEEP"} => ph[Top(s)] \in Inside
  BY <1>3, <1>5, <1>6 DEF ProcInv, Inv, TypeOK, Located, ParkedInCriticalSection, Inside, Status
<1>8. Inv'
  BY <1>1, <1>4, <1>5, <1>6, <1>7, OwnStep DEF ProcInv, Move, CallLabels, Labels, Phases, Inside
<1>. QED
  BY <1>1, <1>2, <1>4, <1>5, <1>6, <1>8, OwnQuiet DEF Move, Forks, Prepares, CallLabels, Labels

(* Linking the child into the list, or failing to get a page: the process  *)
(* stays in the same half of Process_Fork.                                 *)
LEMMA ForkGoesOn ==
  ASSUME ProcInv, NEW c \in CPUs, NEW from, NEW label, At(c, from, "out"),
         <<from, label>> \in {<<"link", "publish">>, <<"initialize", "page_spin">>},
         pc' = [pc EXCEPT ![Base(on[c])] = label], intr' \in [CPUs -> BOOLEAN],
         UNCHANGED <<status, wakeup_on, vetos, Process_lock, on, kernel_task, esp0, iproc,
                     spent, ph, forked, kernel_stack, process, free_stacks>>
  PROVE  ProcInv'
<1>0. from \in {"link", "initialize"} /\ label \in {"publish", "page_spin"}
  OBVIOUS
<1>1. /\ on[c] \in Slots /\ At0(on[c]) = from /\ status[on[c]] = "RUNNING"
      /\ Top(on[c]) = Base(on[c]) /\ ph[Base(on[c])] = "out"
  BY <1>0, Running DEF At
<1>2. /\ status' \in [Slots -> Status]
      /\ \A d \in CPUs : on[d] \in Slots => status'[on[d]] \in {"RUNNING", "DEAD"}
      /\ \A s \in Slots : status'[s] \in {"RUNNABLE", "ASLEEP"} => ph[Top(s)] \in Inside
  BY DEF ProcInv, Inv, TypeOK, Located, ParkedInCriticalSection, Inside
<1>3. ph' = [ph EXCEPT ![Base(on[c])] = "out"]
  BY <1>1, SamePhase DEF ProcInv
<1>4. label \in CallLabels
  BY <1>0 DEF CallLabels, Labels
<1>5. Inv'
  BY <1>1, <1>2, <1>3, <1>4, OwnStep DEF ProcInv, Phases, Inside
<1>. QED
  BY <1>0, <1>1, <1>3, <1>4, <1>5, OwnQuiet DEF Forks, Prepares

(* A process that gives its CPU up inside a critical section, to sleep or, *)
(* once DEAD, for good.                                                    *)
LEMMA GivesUp ==
  ASSUME ProcInv, NEW c \in CPUs, NEW from \in {"wait", "wait_sleep", "leave"}, At(c, from, "held"),
         NEW label \in {"wait", "leave"}, pc' = [pc EXCEPT ![Base(on[c])] = label],
         label = "leave" <=> from = "leave",
         NEW new \in {"ASLEEP", "DEAD"}, status' = [status EXCEPT ![on[c]] = new],
         status[on[c]] # "DEAD" => new = "ASLEEP" /\ label = "wait",
         status[on[c]] = "DEAD" => new = "DEAD",
         SCHEDULER_RETURN(c),
         UNCHANGED <<wakeup_on, vetos, Process_lock, kernel_task, esp0, intr, iproc, spent, ph,
                     forked, kernel_stack, process, free_stacks>>
  PROVE  ProcInv'
<1>1. /\ on[c] \in Slots /\ At0(on[c]) = from
      /\ Top(on[c]) = Base(on[c]) /\ ph[Base(on[c])] = "held" /\ ph[Intr(on[c])] = "off"
      /\ Base(on[c]) \in Frames /\ on[c] \in Contexts
  BY TopFrame DEF ProcInv, At, At0, Frames, Contexts
<1>2. status[on[c]] \in {"RUNNING", "DEAD"}
  BY <1>1 DEF ProcInv, Inv, Located
<1>3. /\ on'[c] = c /\ \A d \in CPUs \ {c} : on'[d] = on[d] /\ on[d] # on[c]
  BY <1>1 DEF SCHEDULER_RETURN, ProcInv, Inv, TypeOK, HomeCPU, Located
<1>4. /\ status'[on[c]] = new /\ \A s \in Slots \ {on[c]} : status'[s] = status[s]
      /\ status' \in [Slots -> Status]
  BY <1>1 DEF ProcInv, Inv, TypeOK, Status
<1>5. \A s \in Slots : s # on[c] => At0(s)' = At0(s)
  BY <1>1 DEF ProcInv, Inv, TypeOK, At0, Frames, Contexts
<1>6. At0(on[c]) = from /\ pc'[Base(on[c])] = label
  BY <1>1 DEF ProcInv, Inv, TypeOK
<1>7. Inv'
  <2>1. TypeOK'
    <3>1. on' \in [CPUs -> Contexts]
      BY <1>1 DEF SCHEDULER_RETURN, ProcInv, Inv, TypeOK, HomeCPU, Contexts
    <3>. QED
      BY <1>1, <1>4, <3>1 DEF ProcInv, Inv, TypeOK, Contexts, Frames, Labels
  <2>2. FrameLabels' /\ OneSection'
    BY <1>1 DEF ProcInv, Inv, TypeOK, FrameLabels, OneSection, Frames
  <2>3. \A x \in Contexts : FramesKept(x)
    BY DEF FramesKept
  <2>4. Holds(on[c]) /\ LeftInside(on[c])
    BY <1>1 DEF Holds, LeftInside, Inside
  <2>. QED
    BY <1>1, <1>4, <2>1, <2>2, <2>3, <2>4, SwitchBack DEF ProcInv
<1>8. Leaving'
  <2>1. ASSUME NEW d \in CPUs, on'[d] \in Slots, status'[on'[d]] = "DEAD"
        PROVE  pc'[Base(on'[d])] = "leave" /\ ph'[Base(on'[d])] = "held"
    <3>1. on'[d] = on[d] /\ on[d] # on[c]
      BY <1>3, <2>1
    <3>. QED  BY <1>4, <1>5, <2>1, <3>1 DEF ProcInv, Leaving, At0
  <2>2. ASSUME NEW s \in Slots, Lives(s)' PROVE At0(s)' # "leave"
    <3>1. CASE s = on[c]
      <4>1. new = "ASLEEP"
        BY <1>4, <2>2, <3>1 DEF Lives
      <4>2. label = "wait"
        BY <1>2, <4>1
      <4>. QED  BY <1>6, <3>1, <4>2 DEF At0
    <3>2. CASE s # on[c]
      BY <1>4, <1>5, <2>2, <3>2 DEF ProcInv, Leaving, Lives
    <3>. QED  BY <3>1, <3>2
  <2>. QED  BY <2>1, <2>2 DEF Leaving, At0
<1>9. \A s \in Slots : /\ At0(s)' \in Forks <=> At0(s) \in Forks
                       /\ At0(s)' \in Prepares <=> At0(s) \in Prepares
  BY <1>5, <1>6 DEF Forks, Prepares, At0
<1>10. \A s \in Slots : /\ status'[s] = "BOOKED" <=> status[s] = "BOOKED"
                        /\ Lives(s)' <=> Lives(s)
  BY <1>1, <1>2, <1>4 DEF Lives
<1>11. \A s \in Slots : status[s] = "BOOKED" => FramesKept(s) /\ At0(s)' = At0(s)
  BY <1>2, <1>5 DEF FramesKept
<1>12. \A s \in Slots : /\ At0(s)' = "bury" <=> At0(s) = "bury"
                        /\ At0(s) = "bury" => status'[s] = "RUNNING" /\ ph'[Base(s)] = "held"
  <2>1. \A s \in Slots : s = on[c] => At0(s)' # "bury" /\ At0(s) # "bury"
    BY <1>6 DEF At0
  <2>. QED  BY <1>4, <1>5, <2>1 DEF ProcInv, Burying
<1>. QED  BY <1>7, <1>8, <1>9, <1>10, <1>11, <1>12, QuietStep

(* Process_Wait goes to sleep.                                             *)
LEMMA WaitSleepProc ==
  ASSUME ProcInv, NEW c \in CPUs, WaitSleep(c)
  PROVE  ProcInv'
<1>1. PICK from \in {"wait", "wait_sleep"} : At(c, from, "held")
  BY DEF WaitSleep
<1>2. status[on[c]] = "RUNNING"
  BY <1>1, Running DEF At
<1>. QED
  BY <1>1, <1>2, GivesUp DEF WaitSleep, own, memory

(* A process that has terminated leaves its CPU.                           *)
LEMMA LeaveProc ==
  ASSUME ProcInv, NEW c \in CPUs, Leave(c)
  PROVE  ProcInv'
<1>1. /\ on[c] \in Slots /\ At0(on[c]) = "leave" /\ Base(on[c]) \in Frames
  BY TopFrame DEF ProcInv, Leave, At, At0, Frames, Contexts
<1>2. status[on[c]] = "DEAD"
  BY <1>1 DEF ProcInv, Inv, Located, Leaving, Lives
<1>3. /\ pc' = [pc EXCEPT ![Base(on[c])] = "leave"]
      /\ status' = [status EXCEPT ![on[c]] = "DEAD"]
  BY <1>1, <1>2 DEF ProcInv, Inv, TypeOK, Leave, At0
<1>. QED
  BY <1>2, <1>3, GivesUp DEF Leave, own, memory

-----------------------------------------------------------------------------
(* The steps that change who owns a slot or a stack.                       *)

(* Scheduler_Book finds an IDLE slot for a process that had none.          *)
LEMMA BookProc ==
  ASSUME ProcInv, NEW c \in CPUs, Scheduler_Book(c)
  PROVE  ProcInv'
<1>0. At(c, "book", "held")
  BY DEF Scheduler_Book
<1>1. /\ on[c] \in Slots /\ At0(on[c]) = "book" /\ status[on[c]] = "RUNNING"
      /\ Top(on[c]) = Base(on[c]) /\ ph[Base(on[c])] = "held"
  BY <1>0, Running DEF At
<1>2. CASE Idle = {}
  <2>1. /\ Move(Base(on[c]), "book", "done")
        /\ UNCHANGED <<status, wakeup_on, vetos, Process_lock, on, kernel_task, esp0, intr, iproc,
                       spent, forked, kernel_stack, process, free_stacks>>
    BY <1>2 DEF Scheduler_Book, memory
  <2>. QED  BY <1>0, <2>1, EmptyHanded
<1>3. CASE Idle # {}
  <2>. DEFINE s == Min(Idle)
              p == on[c]
  <2>1. s \in Slots /\ status[s] = "IDLE"
    <3>1. Idle \in SUBSET Nat
      BY DEF Idle, Slots
    <3>. QED  BY <1>3, <3>1, MinOf DEF Idle
  <2>2. /\ status' = [status EXCEPT ![s] = "BOOKED"]
        /\ forked' = [forked EXCEPT ![p] = s]
        /\ ph' = [ph EXCEPT ![Base(p)] = "done"] /\ pc' = [pc EXCEPT ![Base(p)] = "initialize"]
        /\ UNCHANGED <<wakeup_on, vetos, Process_lock, on, kernel_task, esp0, intr, iproc, spent,
                       kernel_stack, process, free_stacks>>
    BY <1>3 DEF Scheduler_Book, Move, memory
  <2>. HIDE DEF s
  <2>3. /\ status'[s] = "BOOKED" /\ \A t \in Slots \ {s} : status'[t] = status[t]
        /\ status' \in [Slots -> Status] /\ intr' \in [CPUs -> BOOLEAN]
    BY <2>1, <2>2 DEF ProcInv, Inv, TypeOK, Status
  <2>4. \A d \in CPUs : on[d] # s
    BY <2>1, BookedOff
  <2>5. Inv'
    <3>1. \A d \in CPUs : on[d] \in Slots => status'[on[d]] \in {"RUNNING", "DEAD"}
      BY <2>3, <2>4 DEF ProcInv, Inv, Located
    <3>2. \A t \in Slots : status'[t] \in {"RUNNABLE", "ASLEEP"} => ph[Top(t)] \in Inside
      BY <2>3 DEF ProcInv, Inv, ParkedInCriticalSection, Inside
    <3>. QED
      BY <1>1, <2>2, <2>3, <3>1, <3>2, OwnStep DEF ProcInv, CallLabels, Labels, Phases, Inside
  <2>6. /\ \A t \in Slots \ {p} : FramesKept(t) /\ At0(t)' = At0(t)
        /\ pc'[Base(p)] = "initialize"
    BY <1>1, <2>2, OwnFrames DEF ProcInv
  <2>7. /\ forked \in [Slots -> Slots \cup {Null}] /\ forked[p] = Null /\ forked'[p] = s
        /\ \A q \in Slots \ {p} : forked'[q] = forked[q]
        /\ \A q \in Slots : forked[q] # s /\ forked[q] # p
    BY <1>1, <2>1, <2>2 DEF ProcInv, OwnTypes, Forking, Forks
  <2>8. OwnTypes'
    BY <2>1, <2>2 DEF ProcInv, OwnTypes
  <2>9. Leaving'
    <3>1. ASSUME NEW d \in CPUs, on[d] \in Slots, status'[on[d]] = "DEAD"
          PROVE  pc'[Base(on[d])] = "leave" /\ ph'[Base(on[d])] = "held"
      <4>1. on[d] # p /\ status[on[d]] = "DEAD"
        BY <1>1, <2>1, <2>3, <3>1
      <4>. QED  BY <2>6, <3>1, <4>1 DEF ProcInv, Leaving, FramesKept, At0
    <3>2. \A t \in Slots : Lives(t)' => At0(t)' # "leave"
      BY <1>1, <2>1, <2>3, <2>6 DEF ProcInv, Leaving, Lives, At0
    <3>. QED  BY <2>2, <3>1, <3>2 DEF Leaving, At0
  <2>10. \A t \in Slots : Lives(t)' <=> Lives(t)
    BY <2>1, <2>3 DEF Lives
  <2>11. Forking'
    <3>1. \A q \in Slots : forked'[q] # Null <=> At0(q)' \in Forks
      <4>1. \A q \in Slots \ {p} : forked'[q] # Null <=> At0(q)' \in Forks
        BY <2>6, <2>7 DEF ProcInv, Forking
      <4>2. forked'[p] # Null /\ pc'[Base(p)] \in Forks
        BY <2>1, <2>6, <2>7 DEF Forks
      <4>. QED  BY <4>1, <4>2 DEF At0
    <3>2. \A q \in Slots : forked'[q] # Null => Lives(q)' /\ status'[forked'[q]] = "BOOKED"
      BY <1>1, <2>1, <2>3, <2>7, <2>10 DEF ProcInv, Forking, Lives
    <3>3. \A q, r \in Slots : forked'[q] # Null /\ forked'[q] = forked'[r] => q = r
      BY <2>7 DEF ProcInv, Forking
    <3>4. \A t \in Slots : status'[t] = "BOOKED" => \E q \in Slots : forked'[q] = t
      BY <1>1, <2>3, <2>7 DEF ProcInv, Forking
    <3>. QED  BY <3>1, <3>2, <3>3, <3>4 DEF Forking
  <2>12. \A q \in Slots : At0(q)' \in Prepares => q # p /\ At0(q) \in Prepares
    BY <2>6 DEF Prepares, At0
  <2>13. Prepared'
    <3>. SUFFICES ASSUME NEW q \in Slots, At0(q)' \in Prepares
                  PROVE  /\ ph'[Base(forked'[q])] = "done" /\ ph'[Intr(forked'[q])] = "off"
                         /\ pc'[Base(forked'[q])] = "return"
      BY DEF Prepared, At0
    <3>1. q # p /\ At0(q) \in Prepares /\ forked'[q] = forked[q] /\ forked[q] \in Slots \ {p}
      BY <2>7, <2>12 DEF ProcInv, Forking, Prepares, Forks
    <3>. QED  BY <2>6, <3>1 DEF ProcInv, Prepared, FramesKept, At0
  <2>14. StacksUsed'
    <3>1. \A t \in Slots : Housed(t)' <=> Housed(t)
      <4>1. \A q \in Slots : At0(q)' \in Prepares <=> At0(q) \in Prepares
        BY <1>1, <2>6, <2>12 DEF Prepares
      <4>2. \A q \in Slots : At0(q) \in Prepares => forked'[q] = forked[q]
        BY <1>1, <2>7 DEF Prepares
      <4>3. \A q \in Slots : At0(q)' = "bury" <=> At0(q) = "bury"
        BY <1>1, <2>6 DEF At0
      <4>. QED  BY <2>10, <4>1, <4>2, <4>3 DEF Housed, Stays
    <3>. QED  BY <2>2, <3>1 DEF ProcInv, StacksUsed
  <2>15. Burying'
    <3>1. \A t \in Slots : At0(t)' = "bury" => t # p /\ At0(t) = "bury"
      BY <1>1, <2>6 DEF At0
    <3>2. ASSUME NEW t \in Slots, At0(t)' = "bury" PROVE status'[t] = "RUNNING" /\ ph'[Base(t)] = "held"
      <4>1. t # p /\ t # s /\ status[t] = "RUNNING" /\ ph[Base(t)] = "held"
        BY <2>1, <3>1, <3>2 DEF ProcInv, Burying
      <4>. QED  BY <2>3, <2>6, <4>1 DEF FramesKept
    <3>3. \A t, u \in Slots : At0(t)' = "bury" /\ Lives(u)' /\ t # u => kernel_stack'[t] # kernel_stack'[u]
      BY <2>2, <2>10, <3>1 DEF ProcInv, Burying
    <3>. QED  BY <3>2, <3>3 DEF Burying
  <2>. QED  BY <2>5, <2>8, <2>9, <2>11, <2>13, <2>14, <2>15 DEF ProcInv
<1>. QED  BY <1>2, <1>3

(* Process_Publish makes RUNNABLE a slot that has been prepared.           *)
LEMMA PublishProc ==
  ASSUME ProcInv, NEW c \in CPUs, Process_Publish(c)
  PROVE  ProcInv'
<1>. DEFINE p == on[c]
            f == forked[p]
<1>0. At(c, "publish", "held")
  BY DEF Process_Publish
<1>1. /\ p \in Slots /\ At0(p) = "publish" /\ status[p] = "RUNNING"
      /\ Top(p) = Base(p) /\ ph[Base(p)] = "held"
  BY <1>0, Running DEF At
<1>2. /\ f \in Slots /\ status[f] = "BOOKED" /\ At0(f) = "return" /\ f # p
      /\ ph[Base(f)] = "done" /\ ph[Intr(f)] = "off"
  BY <1>1 DEF ProcInv, OwnTypes, Forking, Forks, Prepared, Prepares
<1>3. /\ status' = [status EXCEPT ![f] = "RUNNABLE"]
      /\ forked' = [forked EXCEPT ![p] = Null]
      /\ ph' = [ph EXCEPT ![Base(p)] = "done"] /\ pc' = [pc EXCEPT ![Base(p)] = "return"]
      /\ UNCHANGED <<wakeup_on, vetos, Process_lock, on, kernel_task, esp0, intr, iproc, spent,
                     kernel_stack, process, free_stacks>>
  BY DEF Process_Publish, Move, memory
<1>4. /\ status'[f] = "RUNNABLE" /\ \A t \in Slots \ {f} : status'[t] = status[t]
      /\ status' \in [Slots -> Status] /\ intr' \in [CPUs -> BOOLEAN]
  BY <1>2, <1>3 DEF ProcInv, Inv, TypeOK, Status
<1>5. \A d \in CPUs : on[d] # f
  BY <1>2, BookedOff
<1>6. Inv'
  <2>1. \A d \in CPUs : on[d] \in Slots => status'[on[d]] \in {"RUNNING", "DEAD"}
    BY <1>4, <1>5 DEF ProcInv, Inv, Located
  <2>2. \A t \in Slots : status'[t] \in {"RUNNABLE", "ASLEEP"} => ph[Top(t)] \in Inside
    BY <1>2, <1>4 DEF ProcInv, Inv, ParkedInCriticalSection, Inside, Top
  <2>. QED
    BY <1>1, <1>3, <1>4, <2>1, <2>2, OwnStep DEF ProcInv, CallLabels, Labels, Phases, Inside
<1>7. /\ \A t \in Slots \ {p} : FramesKept(t) /\ At0(t)' = At0(t)
      /\ pc'[Base(p)] = "return"
  BY <1>1, <1>3, OwnFrames DEF ProcInv
<1>8. /\ forked'[p] = Null /\ \A q \in Slots \ {p} : forked'[q] = forked[q] /\ forked[q] # f
      /\ \A q \in Slots : forked[q] # p
  BY <1>1, <1>2, <1>3 DEF ProcInv, OwnTypes, Forking
<1>9. OwnTypes'
  BY <1>3 DEF ProcInv, OwnTypes
<1>10. Leaving'
  <2>1. ASSUME NEW d \in CPUs, on[d] \in Slots, status'[on[d]] = "DEAD"
        PROVE  pc'[Base(on[d])] = "leave" /\ ph'[Base(on[d])] = "held"
    <3>1. on[d] # p /\ status[on[d]] = "DEAD"
      BY <1>1, <1>2, <1>4, <2>1
    <3>. QED  BY <1>7, <2>1, <3>1 DEF ProcInv, Leaving, FramesKept, At0
  <2>2. \A t \in Slots : Lives(t)' => At0(t)' # "leave"
    BY <1>1, <1>2, <1>4, <1>7 DEF ProcInv, Leaving, Lives, At0
  <2>. QED  BY <1>3, <2>1, <2>2 DEF Leaving, At0
<1>11. \A t \in Slots : Lives(t)' <=> Lives(t) \/ t = f
  BY <1>2, <1>4 DEF Lives
<1>12. Forking'
  <2>1. \A q \in Slots : forked'[q] # Null <=> At0(q)' \in Forks
    <3>1. \A q \in Slots \ {p} : forked'[q] # Null <=> At0(q)' \in Forks
      BY <1>7, <1>8 DEF ProcInv, Forking
    <3>2. forked'[p] = Null /\ pc'[Base(p)] \notin Forks
      BY <1>7, <1>8 DEF Forks
    <3>. QED  BY <3>1, <3>2 DEF At0
  <2>2. \A q \in Slots : forked'[q] # Null => Lives(q)' /\ status'[forked'[q]] = "BOOKED"
    BY <1>4, <1>8, <1>11 DEF ProcInv, Forking, OwnTypes
  <2>3. \A q, r \in Slots : forked'[q] # Null /\ forked'[q] = forked'[r] => q = r
    BY <1>8 DEF ProcInv, Forking
  <2>4. \A t \in Slots : status'[t] = "BOOKED" => \E q \in Slots : forked'[q] = t
    BY <1>1, <1>4, <1>8 DEF ProcInv, Forking
  <2>. QED  BY <2>1, <2>2, <2>3, <2>4 DEF Forking
<1>13. \A q \in Slots : At0(q)' \in Prepares => q # p /\ At0(q) \in Prepares
  BY <1>7 DEF Prepares, At0
<1>14. Prepared'
  <2>. SUFFICES ASSUME NEW q \in Slots, At0(q)' \in Prepares
                PROVE  /\ ph'[Base(forked'[q])] = "done" /\ ph'[Intr(forked'[q])] = "off"
                       /\ pc'[Base(forked'[q])] = "return"
    BY DEF Prepared, At0
  <2>1. q # p /\ At0(q) \in Prepares /\ forked'[q] = forked[q] /\ forked[q] \in Slots \ {p}
    BY <1>8, <1>13 DEF ProcInv, OwnTypes, Forking, Prepares, Forks
  <2>. QED  BY <1>7, <2>1 DEF ProcInv, Prepared, FramesKept, At0
<1>15. \A t \in Slots : At0(t)' # "bury" /\ At0(t) # "bury"
  <2>1. \A t \in Slots : At0(t)' = "bury" => t # p /\ At0(t) = "bury"
    BY <1>7 DEF At0
  <2>2. ASSUME NEW t \in Slots, At0(t) = "bury" PROVE FALSE
    BY <1>1, <2>2, BuryAlone
  <2>. QED  BY <2>1, <2>2
<1>16. Burying'
  BY <1>15 DEF Burying
<1>17. StacksUsed'
  <2>1. Housed(f)
    BY <1>1 DEF Housed, Prepares
  <2>2. \A t \in Slots : Housed(t)' <=> Housed(t)
    <3>1. \A q \in Slots \ {p} : /\ At0(q)' \in Prepares <=> At0(q) \in Prepares
                                 /\ forked'[q] = forked[q]
      BY <1>7, <1>8
    <3>2. \A t \in Slots : Housed(t)' => Housed(t)
      BY <1>11, <1>13, <1>15, <2>1, <3>1 DEF Housed, Stays
    <3>3. ASSUME NEW t \in Slots, Housed(t) PROVE Housed(t)'
      <4>1. CASE Lives(t) \/ t = f
        BY <1>11, <1>15, <4>1 DEF Housed, Stays
      <4>2. CASE ~Lives(t) /\ t # f
        <5>1. PICK q \in Slots : forked[q] = t /\ At0(q) \in Prepares
          BY <3>3, <4>2 DEF Housed, Stays
        <5>2. q # p
          BY <4>2, <5>1
        <5>. QED  BY <3>1, <5>1, <5>2 DEF Housed
      <4>. QED  BY <4>1, <4>2
    <3>. QED  BY <3>2, <3>3
  <2>. QED  BY <1>3, <2>2 DEF ProcInv, StacksUsed
<1>. QED  BY <1>6, <1>9, <1>10, <1>12, <1>14, <1>16, <1>17 DEF ProcInv

(* Process_Initialize prepares a slot that nobody executes or houses, on a *)
(* stack that was free.                                                    *)
LEMMA InitializeProc ==
  ASSUME ProcInv, NEW c \in CPUs, Process_Initialize(c)
  PROVE  ProcInv'
<1>. DEFINE p == on[c]
            f == forked[p]
<1>0. At(c, "initialize", "out")
  BY DEF Process_Initialize
<1>1. /\ p \in Slots /\ At0(p) = "initialize" /\ status[p] = "RUNNING"
      /\ Top(p) = Base(p) /\ ph[Base(p)] = "out" /\ ph[Intr(p)] = "off"
  BY <1>0, Running DEF At
<1>2. f \in Slots /\ status[f] = "BOOKED" /\ f # p
  BY <1>1 DEF ProcInv, OwnTypes, Forking, Forks
<1>3. /\ ph' = [ph EXCEPT ![Base(f)] = "done", ![Intr(f)] = "off"]
      /\ pc' = [pc EXCEPT ![Base(f)] = "return", ![Base(p)] = "link"]
      /\ UNCHANGED <<status, wakeup_on, Process_lock, on, kernel_task, esp0, intr, iproc, spent, forked>>
  BY DEF Process_Initialize, Context_Initialize, NewPhase, NewLabel
<1>4. PICK k \in free_stacks : /\ kernel_stack' = [kernel_stack EXCEPT ![f] = k]
                               /\ free_stacks' = free_stacks \ {k}
                               /\ process' = [process EXCEPT ![k] = f]
                               /\ vetos' = [x \in Contexts |->
                                              IF x = f \/ (x \in Slots /\ kernel_stack[x] = k)
                                              THEN 0 ELSE vetos[x]]
  BY DEF Process_Initialize, TakeStack, State_Initialize, NewVetos
<1>. HIDE DEF f
<1>5. /\ ph \in [Frames -> Phases] /\ pc \in [Frames -> Labels]
      /\ \A x \in Contexts : Base(x) \in Frames /\ Intr(x) \in Frames
      /\ f \in Contexts /\ p \in Contexts
  BY <1>1, <1>2 DEF ProcInv, Inv, TypeOK, Frames, Contexts
<1>6. /\ \A x \in Contexts \ {f} : FramesKept(x)
      /\ ph'[Base(f)] = "done" /\ ph'[Intr(f)] = "off"
  BY <1>3, <1>5 DEF FramesKept
<1>7. /\ \A x \in Contexts \ {f, p} : pc'[Base(x)] = pc[Base(x)]
      /\ \A x \in Contexts : pc'[Intr(x)] = pc[Intr(x)]
      /\ pc'[Base(f)] = "return" /\ pc'[Base(p)] = "link"
  BY <1>2, <1>3, <1>5
<1>8. \A d \in CPUs : on[d] \in Contexts \ {f} /\ d \in Contexts \ {f}
  BY <1>2, BookedOff DEF ProcInv, Inv, TypeOK, Contexts
<1>9. Inv'
  <2>. USE DEF ProcInv, Inv
  <2>1. TypeOK'
    <3>1. vetos' \in [Contexts -> 0 .. VetoSize - 1]
      <4>1. /\ vetos \in [Contexts -> 0 .. VetoSize - 1]
            /\ vetos' = [x \in Contexts |-> IF x = f \/ (x \in Slots /\ kernel_stack[x] = k)
                                            THEN 0 ELSE vetos[x]]
        BY <1>4 DEF TypeOK
      <4>2. 0 \in 0 .. VetoSize - 1
        OBVIOUS
      <4>. QED  BY <4>1, <4>2
    <3>2. ph' \in [Frames -> Phases] /\ pc' \in [Frames -> Labels]
      BY <1>3, <1>5 DEF Phases, Labels
    <3>3. \A x \in Contexts : ph'[Base(x)] # "off"
      BY <1>6 DEF TypeOK, FramesKept
    <3>4. \A x \in CPUs : ph'[Intr(x)] = "off" /\ pc'[Base(x)] = "schedule"
      <4>1. \A x \in CPUs : x \in Contexts \ {f, p}
        BY <1>1, <1>8
      <4>2. \A x \in CPUs : ph'[Intr(x)] = ph[Intr(x)] /\ pc'[Base(x)] = pc[Base(x)]
        BY <1>6, <1>7, <4>1 DEF FramesKept
      <4>. QED  BY <4>2 DEF TypeOK
    <3>. QED  BY <1>3, <3>1, <3>2, <3>3, <3>4 DEF TypeOK
  <2>2. FrameLabels' /\ OneSection'
    BY <1>6, <1>7 DEF FrameLabels, OneSection, Inside, FramesKept, Contexts
  <2>3. LockHandover'
    <3>1. \A d \in CPUs : Holds(on[d])' <=> Holds(on[d])
      BY <1>3, <1>6, <1>8 DEF Holds, FramesKept
    <3>. QED  BY <1>3, <3>1 DEF LockHandover
  <2>4. Located' /\ HomeCPU'
    BY <1>3 DEF Located, HomeCPU
  <2>5. ParkedInCriticalSection'
    <3>1. ASSUME NEW s \in Slots, status[s] \in {"RUNNABLE", "ASLEEP"}
          PROVE  ph'[Top(s)'] \in {"held", "done"}
      <4>1. s \in Contexts \ {f}
        BY <1>2, <3>1 DEF Contexts
      <4>2. FramesKept(s) /\ ph[Top(s)] \in {"held", "done"}
        BY <1>6, <3>1, <4>1 DEF ParkedInCriticalSection
      <4>. QED  BY <4>2 DEF FramesKept, Top
    <3>2. \A d \in CPUs : on[d] \in Slots => ph'[Base(d)] = "done"
      BY <1>6, <1>8 DEF ParkedInCriticalSection, FramesKept
    <3>. QED  BY <1>3, <3>1, <3>2 DEF ParkedInCriticalSection
  <2>. QED  BY <2>1, <2>2, <2>3, <2>4, <2>5
<1>10. OwnTypes'
  BY <1>2, <1>3, <1>4 DEF ProcInv, OwnTypes
<1>11. \A s \in Slots \ {f, p} : FramesKept(s) /\ At0(s)' = At0(s)
  BY <1>6, <1>7 DEF At0, Contexts
<1>12. \A s \in Slots : (Lives(s)' <=> Lives(s)) /\ (Lives(s) => s # f)
  BY <1>2, <1>3 DEF Lives
<1>13. Leaving'
  <2>1. ASSUME NEW d \in CPUs, on[d] \in Slots, status[on[d]] = "DEAD"
        PROVE  pc'[Base(on[d])] = "leave" /\ ph'[Base(on[d])] = "held"
    <3>1. on[d] \in Slots \ {f, p}
      BY <1>1, <1>2, <2>1
    <3>. QED  BY <1>11, <2>1, <3>1 DEF ProcInv, Leaving, FramesKept, At0
  <2>2. \A s \in Slots : Lives(s)' => At0(s)' # "leave"
    BY <1>7, <1>11, <1>12 DEF ProcInv, Leaving, At0
  <2>. QED  BY <1>3, <2>1, <2>2 DEF Leaving, At0
<1>14. /\ \A q \in Slots : forked[q] # p /\ (forked[q] = f => q = p)
       /\ forked[f] = Null /\ forked[p] = f /\ f # Null /\ At0(f) \notin Forks
  <2>1. forked[f] = Null
    BY <1>2 DEF ProcInv, Forking, Lives
  <2>. QED  BY <1>1, <1>2, <2>1 DEF ProcInv, Forking, f
<1>15. \A q \in Slots : /\ At0(q)' \in Forks <=> At0(q) \in Forks
                        /\ At0(q)' \in Prepares <=> At0(q) \in Prepares \/ q = p
  <2>1. \A q \in Slots \ {f, p} : At0(q)' = At0(q)
    BY <1>11
  <2>2. At0(p) \in Forks /\ pc'[Base(p)] \in Prepares /\ pc'[Base(p)] \in Forks
    BY <1>1, <1>7 DEF Forks, Prepares
  <2>3. At0(f) \notin Forks /\ At0(f) \notin Prepares /\ pc'[Base(f)] \notin Forks /\ pc'[Base(f)] \notin Prepares
    BY <1>7, <1>14 DEF Forks, Prepares
  <2>. QED  BY <1>2, <2>1, <2>2, <2>3 DEF At0
<1>16. Forking'
  BY <1>3, <1>12, <1>15 DEF ProcInv, Forking
<1>17. Prepared'
  <2>. SUFFICES ASSUME NEW q \in Slots, At0(q)' \in Prepares
                PROVE  /\ ph'[Base(forked[q])] = "done" /\ ph'[Intr(forked[q])] = "off"
                       /\ pc'[Base(forked[q])] = "return"
    BY <1>3 DEF Prepared, At0
  <2>1. CASE q = p
    BY <1>6, <1>7, <1>14, <2>1
  <2>2. CASE q # p
    <3>1. At0(q) \in Prepares /\ forked[q] \in Slots \ {f, p}
      BY <1>14, <1>15, <2>2 DEF ProcInv, OwnTypes, Forking, Prepares, Forks
    <3>. QED  BY <1>11, <3>1 DEF ProcInv, Prepared, FramesKept, At0
  <2>. QED  BY <2>1, <2>2
<1>18. /\ At0(f) # "bury" /\ \A s \in Slots : At0(s)' = "bury" <=> At0(s) = "bury"
  <2>1. \A s \in Slots \ {f, p} : At0(s)' = At0(s)
    BY <1>11
  <2>2. At0(f) # "bury"
    BY <1>2 DEF ProcInv, Burying
  <2>. QED  BY <1>1, <1>7, <2>1, <2>2 DEF At0
<1>19. StacksUsed'
  <2>1. ~Housed(f)
    BY <1>1, <1>2, <1>14 DEF Housed, Stays, Lives, Prepares
  <2>2. \A s \in Slots : Housed(s)' => Housed(s) \/ s = f
    BY <1>3, <1>12, <1>14, <1>15, <1>18 DEF Housed, Stays
  <2>3. /\ kernel_stack'[f] = k /\ process'[k] = f
        /\ \A j \in Stacks \ {k} : process'[j] = process[j]
        /\ \A s \in Slots \ {f} : kernel_stack'[s] = kernel_stack[s]
    BY <1>2, <1>4 DEF ProcInv, OwnTypes
  <2>4. k \in Stacks /\ \A s \in Slots \ {f} : Housed(s) => kernel_stack[s] # k
    BY DEF ProcInv, OwnTypes, StacksUsed
  <2>5. \A s \in Slots : Housed(s)' => /\ kernel_stack'[s] \in Stacks \ free_stacks'
                                      /\ process'[kernel_stack'[s]] = s
    BY <1>4, <2>2, <2>3, <2>4 DEF ProcInv, StacksUsed
  <2>6. \A s, t \in Slots : Housed(s)' /\ Housed(t)' /\ kernel_stack'[s] = kernel_stack'[t] => s = t
    BY <2>2, <2>3, <2>4 DEF ProcInv, StacksUsed
  <2>. QED  BY <2>5, <2>6 DEF StacksUsed
<1>20. Burying'
  <2>1. ASSUME NEW s \in Slots, At0(s)' = "bury"
        PROVE  status[s] = "RUNNING" /\ ph'[Base(s)] = "held" /\ At0(s) = "bury" /\ s # f
    <3>1. s # f /\ s \in Contexts /\ At0(s) = "bury"
      BY <1>18, <2>1 DEF Contexts
    <3>. QED  BY <1>6, <3>1 DEF ProcInv, Burying, FramesKept
  <2>2. \A s \in Slots \ {f} : kernel_stack'[s] = kernel_stack[s]
    BY <1>2, <1>4 DEF ProcInv, OwnTypes
  <2>3. ASSUME NEW s \in Slots, NEW t \in Slots, At0(s)' = "bury", Lives(t)', s # t
        PROVE  kernel_stack'[s] # kernel_stack'[t]
    <3>1. At0(s) = "bury" /\ s # f /\ Lives(t) /\ t # f
      BY <1>12, <2>1, <2>3
    <3>2. kernel_stack[s] # kernel_stack[t]
      BY <2>3, <3>1 DEF ProcInv, Burying
    <3>. QED  BY <2>2, <3>1, <3>2
  <2>. QED  BY <1>3, <2>1, <2>3 DEF Burying
<1>. QED  BY <1>9, <1>10, <1>13, <1>16, <1>17, <1>19, <1>20 DEF ProcInv

(* Process_Terminate gives back the stack of a process nobody else shares  *)
(* it with.                                                                *)
LEMMA TerminateProc ==
  ASSUME ProcInv, NEW c \in CPUs, Process_Terminate(c)
  PROVE  ProcInv'
<1>0. At(c, "exit", "held")
  BY DEF Process_Terminate
<1>1. /\ on[c] \in Slots /\ At0(on[c]) = "exit" /\ status[on[c]] = "RUNNING"
      /\ Top(on[c]) = Base(on[c]) /\ ph[Base(on[c])] = "held"
  BY <1>0, Running DEF At
<1>. DEFINE p == on[c]
<1>2. /\ free_stacks' = free_stacks \cup {kernel_stack[p]}
      /\ pc' = [pc EXCEPT ![Base(p)] = "bury"]
      /\ UNCHANGED <<status, wakeup_on, vetos, Process_lock, on, kernel_task, esp0, intr, iproc, spent,
                     ph, forked, kernel_stack, process>>
  BY DEF Process_Terminate, GiveStack
<1>3. ph' = [ph EXCEPT ![Base(p)] = "held"]
  BY <1>1, <1>2, SamePhase DEF ProcInv
<1>4. Inv'
  <2>1. /\ \A d \in CPUs : on[d] \in Slots => status'[on[d]] \in {"RUNNING", "DEAD"}
        /\ status' \in [Slots -> Status] /\ intr' \in [CPUs -> BOOLEAN]
    BY <1>2 DEF ProcInv, Inv, Located, TypeOK
  <2>2. \A t \in Slots : status'[t] \in {"RUNNABLE", "ASLEEP"} => ph[Top(t)] \in Inside
    BY <1>2 DEF ProcInv, Inv, ParkedInCriticalSection, Inside
  <2>. QED
    BY <1>1, <1>2, <1>3, <2>1, <2>2, OwnStep DEF ProcInv, CallLabels, Labels, Phases, Inside
<1>5. /\ \A t \in Slots \ {p} : FramesKept(t) /\ At0(t)' = At0(t)
      /\ ph'[Base(p)] = "held" /\ pc'[Base(p)] = "bury"
  <2>1. pc' = [pc EXCEPT ![Base(p)] = "bury"] /\ Inv
    BY <1>2 DEF ProcInv
  <2>. QED  BY <1>1, <1>3, <2>1, OwnFrames
<1>6. \A q \in Slots : /\ At0(q)' \in Forks <=> At0(q) \in Forks
                       /\ At0(q)' \in Prepares <=> At0(q) \in Prepares
  BY <1>1, <1>5 DEF Forks, Prepares, At0
<1>7. /\ \A t \in Slots : Lives(t)' <=> Lives(t)
      /\ forked[p] = Null /\ \A q \in Slots : forked[q] # p
  BY <1>1, <1>2 DEF ProcInv, Forking, Forks, Lives
<1>8. Stays(p) /\ Housed(p) /\ kernel_stack[p] \in Stacks
  BY <1>1 DEF ProcInv, Housed, Stays, Lives, StacksUsed
<1>9. OwnTypes'
  BY <1>2, <1>8 DEF ProcInv, OwnTypes
<1>10. Leaving'
  <2>1. ASSUME NEW d \in CPUs, on[d] \in Slots, status[on[d]] = "DEAD"
        PROVE  pc'[Base(on[d])] = "leave" /\ ph'[Base(on[d])] = "held"
    <3>1. on[d] # p
      BY <1>1, <2>1
    <3>. QED  BY <1>5, <2>1, <3>1 DEF ProcInv, Leaving, FramesKept, At0
  <2>2. \A t \in Slots : Lives(t)' => At0(t)' # "leave"
    BY <1>5, <1>7 DEF ProcInv, Leaving, At0
  <2>. QED  BY <1>2, <2>1, <2>2 DEF Leaving, At0
<1>11. Forking'
  BY <1>2, <1>6, <1>7 DEF ProcInv, Forking
<1>12. Prepared'
  <2>. SUFFICES ASSUME NEW q \in Slots, At0(q) \in Prepares
                PROVE  /\ ph'[Base(forked[q])] = "done" /\ ph'[Intr(forked[q])] = "off"
                       /\ pc'[Base(forked[q])] = "return"
    BY <1>2, <1>6 DEF Prepared, At0
  <2>1. forked[q] \in Slots \ {p}
    BY <1>7 DEF ProcInv, OwnTypes, Forking, Prepares, Forks
  <2>. QED  BY <1>5, <2>1 DEF ProcInv, Prepared, FramesKept, At0
<1>13. \A s \in Slots \ {p} : Housed(s) => kernel_stack[s] # kernel_stack[p]
  BY <1>1, <1>8 DEF ProcInv, StacksUsed
<1>14. StacksUsed'
  <2>1. \A s \in Slots : Stays(s)' => Stays(s) /\ s # p
    BY <1>5, <1>7 DEF Stays, At0
  <2>2. \A s \in Slots : Housed(s)' => Housed(s) /\ s # p
    BY <1>2, <1>6, <1>7, <2>1 DEF Housed
  <2>. QED  BY <1>2, <1>13, <2>2 DEF ProcInv, StacksUsed
<1>15. Burying'
  <2>1. \A s \in Slots : At0(s)' = "bury" <=> s = p
    <3>1. ASSUME NEW s \in Slots, At0(s) = "bury" PROVE FALSE
      BY <1>1, <3>1, BuryAlone
    <3>. QED  BY <1>5, <3>1 DEF At0
  <2>2. \A t \in Slots : Lives(t) /\ t # p => Housed(t)
    <3>1. ASSUME NEW t \in Slots, At0(t) = "bury" PROVE FALSE
      BY <1>1, <3>1, BuryAlone
    <3>. QED  BY <3>1 DEF Housed, Stays
  <2>. QED  BY <1>1, <1>2, <1>5, <1>7, <1>13, <2>1, <2>2 DEF Burying
<1>. QED  BY <1>4, <1>9, <1>10, <1>11, <1>12, <1>14, <1>15 DEF ProcInv

(* The process is DEAD and still on its CPU.                               *)
LEMMA BuryProc ==
  ASSUME ProcInv, NEW c \in CPUs, Process_Bury(c)
  PROVE  ProcInv'
<1>0. At(c, "bury", "held")
  BY DEF Process_Bury
<1>1. /\ on[c] \in Slots /\ At0(on[c]) = "bury" /\ status[on[c]] = "RUNNING"
      /\ Top(on[c]) = Base(on[c]) /\ ph[Base(on[c])] = "held"
  BY <1>0, Running DEF At
<1>. DEFINE p == on[c]
<1>2. /\ status' = [status EXCEPT ![p] = "DEAD"]
      /\ pc' = [pc EXCEPT ![Base(p)] = "leave"]
      /\ UNCHANGED <<wakeup_on, vetos, Process_lock, on, kernel_task, esp0, intr, iproc, spent,
                     ph, forked, kernel_stack, process, free_stacks>>
  BY DEF Process_Bury, own, memory
<1>3. ph' = [ph EXCEPT ![Base(p)] = "held"]
  BY <1>1, <1>2, SamePhase DEF ProcInv
<1>4. /\ status'[p] = "DEAD" /\ \A t \in Slots \ {p} : status'[t] = status[t]
      /\ status' \in [Slots -> Status] /\ intr' \in [CPUs -> BOOLEAN]
  BY <1>1, <1>2 DEF ProcInv, Inv, TypeOK, Status
<1>5. Inv'
  <2>1. \A d \in CPUs : on[d] \in Slots => status'[on[d]] \in {"RUNNING", "DEAD"}
    BY <1>4 DEF ProcInv, Inv, Located
  <2>2. \A t \in Slots : status'[t] \in {"RUNNABLE", "ASLEEP"} => ph[Top(t)] \in Inside
    BY <1>4 DEF ProcInv, Inv, ParkedInCriticalSection, Inside
  <2>. QED
    BY <1>1, <1>2, <1>3, <1>4, <2>1, <2>2, OwnStep DEF ProcInv, CallLabels, Labels, Phases, Inside
<1>6. /\ \A t \in Slots \ {p} : FramesKept(t) /\ At0(t)' = At0(t)
      /\ ph'[Base(p)] = "held" /\ pc'[Base(p)] = "leave"
  <2>1. pc' = [pc EXCEPT ![Base(p)] = "leave"] /\ Inv
    BY <1>2 DEF ProcInv
  <2>. QED  BY <1>1, <1>3, <2>1, OwnFrames
<1>7. forked[p] = Null /\ \A q \in Slots : forked[q] # p
  BY <1>1 DEF ProcInv, Forking, Forks
<1>8. \A t \in Slots : Lives(t)' <=> Lives(t) /\ t # p
  BY <1>1, <1>4 DEF Lives
<1>9. \A q \in Slots : /\ At0(q)' \in Forks <=> At0(q) \in Forks
                       /\ At0(q)' \in Prepares <=> At0(q) \in Prepares
  BY <1>1, <1>6 DEF Forks, Prepares, At0
<1>10. OwnTypes'
  BY <1>2 DEF ProcInv, OwnTypes
<1>11. Leaving'
  <2>1. ASSUME NEW d \in CPUs, on[d] \in Slots, status'[on[d]] = "DEAD"
        PROVE  pc'[Base(on[d])] = "leave" /\ ph'[Base(on[d])] = "held"
    <3>1. CASE on[d] = p
      BY <1>6, <3>1
    <3>2. CASE on[d] # p
      BY <1>4, <1>6, <2>1, <3>2 DEF ProcInv, Leaving, FramesKept, At0
    <3>. QED  BY <3>1, <3>2
  <2>2. \A t \in Slots : Lives(t)' => At0(t)' # "leave"
    BY <1>6, <1>8 DEF ProcInv, Leaving
  <2>. QED  BY <1>2, <2>1, <2>2 DEF Leaving, At0
<1>12. Forking'
  <2>1. \A q \in Slots : forked[q] # Null => Lives(q)' /\ status'[forked[q]] = "BOOKED"
    BY <1>4, <1>7, <1>8 DEF ProcInv, Forking, OwnTypes
  <2>2. \A t \in Slots : status'[t] = "BOOKED" => \E q \in Slots : forked[q] = t
    BY <1>4 DEF ProcInv, Forking
  <2>. QED  BY <1>2, <1>9, <2>1, <2>2 DEF ProcInv, Forking
<1>13. Prepared'
  <2>. SUFFICES ASSUME NEW q \in Slots, At0(q) \in Prepares
                PROVE  /\ ph'[Base(forked[q])] = "done" /\ ph'[Intr(forked[q])] = "off"
                       /\ pc'[Base(forked[q])] = "return"
    BY <1>2, <1>9 DEF Prepared, At0
  <2>1. forked[q] \in Slots \ {p}
    BY <1>7 DEF ProcInv, OwnTypes, Forking, Prepares, Forks
  <2>. QED  BY <1>6, <2>1 DEF ProcInv, Prepared, FramesKept, At0
<1>14. \A s \in Slots : At0(s)' # "bury"
  <2>1. ASSUME NEW s \in Slots, s # p, At0(s) = "bury" PROVE FALSE
    BY <1>1, <2>1, BuryAlone
  <2>. QED  BY <1>6, <2>1 DEF At0
<1>15. StacksUsed'
  <2>1. \A s \in Slots : Stays(s)' => Stays(s)
    BY <1>6, <1>8 DEF Stays
  <2>2. \A s \in Slots : Housed(s)' => Housed(s)
    BY <1>2, <1>9, <2>1 DEF Housed
  <2>. QED  BY <1>2, <2>2 DEF ProcInv, StacksUsed
<1>16. Burying'
  BY <1>14 DEF Burying
<1>. QED  BY <1>5, <1>10, <1>11, <1>12, <1>13, <1>15, <1>16 DEF ProcInv

-----------------------------------------------------------------------------
(* The first process alone satisfies the invariant.                        *)
LEMMA ProcInitInv == ProcInit => ProcInv
<1>. SUFFICES ASSUME ProcInit PROVE ProcInv
  OBVIOUS
<1>0. 0 \in Slots
  BY DEF Slots
<1>1. Inv
  <2>1. Init
    BY <1>0 DEF ProcInit, Init
  <2>. QED  BY <2>1, InitInv
<1>2. /\ \A s \in Slots : forked[s] = Null /\ At0(s) = "return"
      /\ \A s \in Slots : status[s] = IF s = 0 THEN "RUNNABLE" ELSE "IDLE"
      /\ \A d \in CPUs : on[d] \notin Slots
  <2>1. \A s \in Slots : Base(s) \in Frames
    BY DEF Frames, Contexts
  <2>. QED  BY <2>1 DEF ProcInit, InitWith, At0, NewLabel
<1>3. PICK k \in Stacks : /\ kernel_stack = [s \in Slots |-> IF s = 0 THEN k ELSE Null]
                          /\ process = [j \in Stacks |-> IF j = k THEN 0 ELSE Null]
                          /\ free_stacks = Stacks \ {k}
  BY DEF ProcInit
<1>4. OwnTypes
  BY <1>0, <1>3 DEF ProcInit, OwnTypes
<1>5. Leaving /\ Forking /\ Prepared /\ Burying
  BY <1>2 DEF Leaving, Forking, Prepared, Forks, Prepares, Burying
<1>6. StacksUsed
  <2>1. \A s \in Slots : Housed(s) => s = 0
    BY <1>2 DEF Housed, Stays, Lives, Prepares
  <2>. QED  BY <1>0, <1>3, <2>1 DEF StacksUsed
<1>. QED  BY <1>1, <1>4, <1>5, <1>6 DEF ProcInv

(* Every step of every CPU keeps the invariant.                            *)
LEMMA ProcNextInv == ProcInv /\ [ProcNext]_allvars => ProcInv'
<1>. SUFFICES ASSUME ProcInv, [ProcNext]_allvars PROVE ProcInv'
  OBVIOUS
<1>1. CASE UNCHANGED allvars
  <2>1. UNCHANGED <<status, on, ph, pc, forked, kernel_stack, process, free_stacks>>
    BY <1>1 DEF allvars, vars, own, memory
  <2>2. Inv'
    BY <1>1, StutterInv DEF allvars, ProcInv
  <2>3. Leaving'
    BY <2>1 DEF ProcInv, Leaving, Lives, At0
  <2>. QED  BY <2>1, <2>2, <2>3, QuietStep DEF ProcInv, Burying, Lives, At0, FramesKept
<1>2. CASE ProcNext
  <2>1. PICK c \in CPUs :
           \/ CPUStep(c, LockPoints) /\ UNCHANGED own
           \/ SysCall(c, "book") /\ UNCHANGED own
           \/ \E operation \in {"wait", "exit"} : SysCall(c, operation) /\ UNCHANGED own
           \/ Scheduler_Book(c) \/ Process_Initialize(c) \/ Page_Acquire_Fails(c)
           \/ Process_Link(c) \/ Process_Publish(c)
           \/ WaitNoChild(c) \/ WaitReap(c) \/ WaitSleep(c)
           \/ Process_Terminate(c) \/ Process_Bury(c) \/ Leave(c)
    BY <1>2 DEF ProcNext, ProcStep
  <2>2. CASE CPUStep(c, LockPoints) /\ UNCHANGED own
    BY <2>2, CPUStepProc
  <2>3. CASE SysCall(c, "book") /\ UNCHANGED own
    BY <2>3, SysCallProc
  <2>4. CASE \E operation \in {"wait", "exit"} : SysCall(c, operation) /\ UNCHANGED own
    BY <2>4, SysCallProc
  <2>5. CASE Page_Acquire_Fails(c)
    <3>1. intr' \in [CPUs -> BOOLEAN]
      BY <2>5 DEF Page_Acquire_Fails, ProcInv, Inv, TypeOK
    <3>. QED  BY <2>5, <3>1, ForkGoesOn DEF Page_Acquire_Fails
  <2>6. CASE Process_Link(c)
    <3>1. intr' \in [CPUs -> BOOLEAN]
      BY <2>6 DEF Process_Link, ProcInv, Inv, TypeOK
    <3>. QED  BY <2>6, <3>1, ForkGoesOn DEF Process_Link, memory
  <2>7. CASE WaitNoChild(c)
    BY <2>7, EmptyHanded DEF WaitNoChild, own, memory
  <2>. QED
    BY <2>1, <2>2, <2>3, <2>4, <2>5, <2>6, <2>7, BookProc, InitializeProc, PublishProc,
       WaitReapProc, WaitSleepProc, TerminateProc, BuryProc, LeaveProc
<1>. QED  BY <1>1, <1>2

(* With forks, waits and exits from any number of processes on any number  *)
(* of CPUs, the scheduler's invariant and the books on slots and kernel    *)
(* stacks hold in every reachable state, the ones between the release of a *)
(* dying process's stack, its death and its last switch included, up to    *)
(* and including the first in which a CPU resumes a process in the frames  *)
(* of a dead one (Wild), where the model ends.                             *)
THEOREM ProcInvariance == ProcSpec => []ProcInv
BY ProcInitInv, ProcNextInv, PTL DEF ProcSpec

(* The hand-over of Process_lock across KContext_Switch survives processes *)
(* that die while they hold it (Process_Terminate), also when another CPU  *)
(* writes a new State under them before they have left; a CPU that is then *)
(* switched into their frames still holds the lock, and ends the model.    *)
THEOREM LockSurvivesExit == ProcSpec => []LockHandover
<1>1. ProcInv => LockHandover
  BY DEF ProcInv, Inv
<1>. QED  BY <1>1, ProcInvariance, PTL

(* Scheduler_Book gives a slot to one caller only, and every BOOKED slot   *)
(* has a live process that will publish it.                                *)
THEOREM SlotsBookedOnce == ProcSpec => []BookedExclusive
<1>1. ProcInv => BookedExclusive
  <2>. SUFFICES ASSUME ProcInv, NEW s \in Slots
                PROVE  (status[s] = "BOOKED") <=> Cardinality({p \in Alive : forked[p] = s}) = 1
    BY DEF BookedExclusive
  <2>. DEFINE P == {p \in Alive : forked[p] = s}
  <2>1. ASSUME status[s] = "BOOKED" PROVE Cardinality(P) = 1
    <3>1. PICK p \in Slots : forked[p] = s
      BY <2>1 DEF ProcInv, Forking
    <3>2. forked[p] # Null
      BY <3>1
    <3>3. P = {p}
      BY <3>1, <3>2 DEF ProcInv, Forking, Alive, Lives
    <3>. QED  BY <3>3, FS_Singleton
  <2>2. ASSUME Cardinality(P) = 1 PROVE status[s] = "BOOKED"
    <3>1. P # {}
      BY <2>2, FS_EmptySet
    <3>2. PICK p \in Slots : forked[p] = s
      BY <3>1 DEF Alive
    <3>3. forked[p] # Null
      BY <3>2
    <3>. QED  BY <3>2, <3>3 DEF ProcInv, Forking
  <2>. QED  BY <2>1, <2>2
<1>. QED  BY <1>1, ProcInvariance, PTL

(* No two live processes share a kernel stack, although Process_Terminate  *)
(* gives the stack back before the process is DEAD: whoever is given it is *)
(* not published in time.  Before that, Page_Acquire cannot hand out the   *)
(* stack of a live process, and the State on it names that process.        *)
THEOREM StacksNotShared == ProcSpec => []StackExclusive
<1>1. ProcInv => StackExclusive
  <2>. SUFFICES ASSUME ProcInv, NEW s \in Slots, Lives(s)
                PROVE  /\ \A t \in Slots : Lives(t) /\ t # s => kernel_stack[t] # kernel_stack[s]
                       /\ ~Dying(s) => /\ kernel_stack[s] \in Stacks \ free_stacks
                                       /\ process[kernel_stack[s]] = s
    BY DEF StackExclusive, Alive, Lives
  <2>1. \A t \in Slots : Lives(t) => Housed(t) \/ At0(t) = "bury"
    BY DEF Housed, Stays
  <2>2. \A t \in Slots : Lives(t) /\ t # s => kernel_stack[t] # kernel_stack[s]
    BY <2>1 DEF ProcInv, StacksUsed, Burying
  <2>3. ~Dying(s) => Housed(s)
    BY <2>1 DEF Dying, At0
  <2>. QED  BY <2>2, <2>3 DEF ProcInv, StacksUsed
<1>. QED  BY <1>1, ProcInvariance, PTL

-----------------------------------------------------------------------------
(* Families.  The list of a live process is a function g: its children at  *)
(* 0 .. n - 1, each once, and Null from n on.                              *)

IsList(p, g, n) ==
    /\ n \in 0 .. MaxProcs
    /\ \A i \in 0 .. n - 1 : g[i] \in Slots
    /\ \A i \in n .. MaxProcs : g[i] = Null
    /\ \A i, j \in 0 .. n - 1 : g[i] = g[j] => i = j
    /\ g[0] = child[p]
    /\ \A i \in 0 .. n - 1 : g[i + 1] = sibling[g[i]]

(* A slot that is being forked is on a list only once it has been linked.  *)
Linked(s) == status[s] = "BOOKED" => \E q \in Slots : forked[q] = s /\ At0(q) = "publish"

OwnKids(p, g, n) ==
    \A i \in 0 .. n - 1 : parent[g[i]] = p /\ status[g[i]] # "IDLE" /\ Linked(g[i])

FamilyTypes ==
    /\ {parent, child, sibling} \subseteq [Slots -> Slots \cup {Null}]
    /\ num_children \in [Slots -> 0 .. MaxProcs]

(* A slot that is about to be published has no children yet.               *)
Childless ==
    \A q \in Slots : At0(q) = "publish" => child[forked[q]] = Null /\ num_children[forked[q]] = 0

Lists == [0 .. MaxProcs -> Slots \cup {Null}]
Families ==
    \A p \in Slots : Stays(p) =>
        \E g \in Lists : IsList(p, g, num_children[p]) /\ OwnKids(p, g, num_children[p])

FamilyInv == ProcInv /\ FamilyTypes /\ Childless /\ Families

(* Induction, for sets of naturals.                                        *)
LEMMA Induction ==
  ASSUME NEW S \in SUBSET Nat, 0 \in S, \A n \in S : n + 1 \in S
  PROVE  S = Nat
<1>1. SUFFICES ASSUME Nat \ S # {} PROVE FALSE
  OBVIOUS
<1>. DEFINE n == Min(Nat \ S)
<1>2. n \in Nat \ S /\ \A m \in Nat \ S : n <= m
  BY <1>1, MinOf
<1>. HIDE DEF n
<1>3. n # 0 /\ n - 1 \in Nat
  BY <1>2
<1>4. n - 1 \in S
  BY <1>2, <1>3
<1>. QED  BY <1>2, <1>3, <1>4

(* The walk that Process_Wait and Process_Terminate make along the list    *)
(* meets exactly the elements of g.                                        *)
LEMMA KidIs ==
  ASSUME NEW p, NEW n, NEW g \in Lists, IsList(p, g, n)
  PROVE  Kid(p) = g
<1>. DEFINE Walk(f) == [m \in 0 .. MaxProcs |->
                          IF m = 0 THEN child[p]
                          ELSE IF f[m - 1] = Null THEN Null ELSE sibling[f[m - 1]]]
            k == Kid(p)
<1>1. g = Walk(g)
  <2>1. \A m \in 0 .. MaxProcs : g[m] = Walk(g)[m]
    <3>. TAKE m \in 0 .. MaxProcs
    <3>1. CASE m = 0
      BY <3>1 DEF IsList
    <3>2. CASE m \in 1 .. n
      <4>1. m - 1 \in 0 .. n - 1 /\ m = (m - 1) + 1
        BY <3>2 DEF IsList
      <4>2. g[m - 1] # Null /\ g[m] = sibling[g[m - 1]]
        BY <4>1 DEF IsList
      <4>. QED  BY <3>2, <4>2
    <3>3. CASE m \in n + 1 .. MaxProcs
      <4>1. m - 1 \in n .. MaxProcs /\ m \in n .. MaxProcs
        BY <3>3 DEF IsList
      <4>2. g[m - 1] = Null /\ g[m] = Null
        BY <4>1 DEF IsList
      <4>. QED  BY <3>3, <4>2 DEF IsList
    <3>. QED  BY <3>1, <3>2, <3>3 DEF IsList
  <2>. QED  BY <2>1 DEF Lists
<1>2. k = Walk(k)
  <2>1. \E f : f = Walk(f)
    BY <1>1
  <2>. QED  BY <2>1 DEF Kid
<1>. HIDE DEF k
<1>3. \A m \in 0 .. MaxProcs : k[m] = g[m]
  <2>. DEFINE S == {m \in Nat : m \in 0 .. MaxProcs => k[m] = g[m]}
  <2>1. 0 \in S
    BY <1>1, <1>2
  <2>2. ASSUME NEW m \in S PROVE m + 1 \in S
    <3>. SUFFICES ASSUME m + 1 \in 0 .. MaxProcs PROVE k[m + 1] = g[m + 1]
      OBVIOUS
    <3>1. k[m] = g[m] /\ (m + 1) - 1 = m /\ m + 1 # 0
      OBVIOUS
    <3>2. k[m + 1] = Walk(k)[m + 1] /\ g[m + 1] = Walk(g)[m + 1]
      BY <1>1, <1>2
    <3>. QED  BY <3>1, <3>2
  <2>3. S = Nat
    BY <2>1, <2>2, Induction
  <2>. QED  BY <2>3
<1>4. k = [m \in 0 .. MaxProcs |-> k[m]]
  BY <1>2
<1>. QED  BY <1>3, <1>4 DEF Lists, k

HasList(p) == \E g \in Lists : IsList(p, g, num_children[p]) /\ OwnKids(p, g, num_children[p])

(* The list of r stays what it is if a step leaves r's head and the links  *)
(* of the slots that can be on it alone.                                   *)
LEMMA ListKept ==
  ASSUME NEW r \in Slots, HasList(r), child'[r] = child[r], num_children'[r] = num_children[r],
         \A s \in Slots : parent[s] = r /\ status[s] # "IDLE" /\ Linked(s) =>
             sibling'[s] = sibling[s] /\ parent'[s] = r /\ status'[s] # "IDLE" /\ Linked(s)'
  PROVE  HasList(r)'
<1>1. PICK g \in Lists : IsList(r, g, num_children[r]) /\ OwnKids(r, g, num_children[r])
  BY DEF HasList
<1>. DEFINE n == num_children[r]
<1>2. \A i \in 0 .. n - 1 : g[i] \in Slots
  BY <1>1 DEF IsList
<1>3. \A i \in 0 .. n - 1 : /\ sibling'[g[i]] = sibling[g[i]]
                            /\ parent'[g[i]] = r /\ status'[g[i]] # "IDLE" /\ Linked(g[i])'
  BY <1>1, <1>2 DEF OwnKids
<1>4. IsList(r, g, n)'
  BY <1>1, <1>3 DEF IsList
<1>5. OwnKids(r, g, n)'
  BY <1>3 DEF OwnKids
<1>. QED  BY <1>4, <1>5 DEF HasList

(* Steps that leave all links alone and make nobody live.                  *)
LEMMA FamilyQuiet ==
  ASSUME FamilyInv, ProcInv', UNCHANGED family,
         \A s \in Slots : Stays(s)' => Stays(s),
         \A s \in Slots : status'[s] = "IDLE" => status[s] = "IDLE",
         \A s \in Slots : status'[s] = "BOOKED" => status[s] \in {"BOOKED", "IDLE"},
         \A q \in Slots : At0(q)' = "publish" <=> At0(q) = "publish",
         \A q \in Slots : At0(q) = "publish" => forked'[q] = forked[q]
  PROVE  FamilyInv'
<1>. USE DEF FamilyInv, family
<1>1. FamilyTypes'
  BY DEF FamilyTypes
<1>2. Childless'
  BY DEF Childless
<1>3. \A s \in Slots : status[s] # "IDLE" /\ Linked(s) => Linked(s)'
  BY DEF Linked
<1>4. Families'
  <2>1. ASSUME NEW r \in Slots, Stays(r)' PROVE HasList(r)'
    <3>1. HasList(r)
      BY <2>1 DEF Families, HasList
    <3>. QED  BY <1>3, <3>1, ListKept
  <2>. QED  BY <2>1 DEF Families, HasList
<1>. QED  BY <1>1, <1>2, <1>4

(* Such steps in which one process moves on.                               *)
LEMMA FamilyOwn ==
  ASSUME FamilyInv, ProcInv', UNCHANGED family, NEW c \in CPUs, on[c] \in Slots,
         NEW label, label # "publish", At0(on[c]) \notin {"publish", "bury"},
         pc' = [pc EXCEPT ![Base(on[c])] = label],
         \A q \in Slots \ {on[c]} : forked'[q] = forked[q],
         \A s \in Slots : Lives(s)' => Lives(s),
         \A s \in Slots : status'[s] = "IDLE" => status[s] = "IDLE",
         \A s \in Slots : status'[s] = "BOOKED" => status[s] \in {"BOOKED", "IDLE"}
  PROVE  FamilyInv'
<1>1. \A q \in Slots : Base(q) \in Frames
  BY DEF Frames, Contexts
<1>2. \A q \in Slots : At0(q)' = IF q = on[c] THEN label ELSE At0(q)
  BY <1>1 DEF FamilyInv, ProcInv, Inv, TypeOK, At0
<1>3. \A s \in Slots : Stays(s)' => Stays(s)
  BY <1>2 DEF Stays
<1>. QED  BY <1>2, <1>3, FamilyQuiet

(* Process_Link: the new child, which is on no list, becomes the head.     *)
LEMMA LinkFamily ==
  ASSUME FamilyInv, ProcInv', NEW c \in CPUs, Process_Link(c)
  PROVE  FamilyInv'
<1>0. At(c, "link", "out")
  BY DEF Process_Link
<1>1. PICK p \in Slots : on[c] = p /\ At0(p) = "link" /\ status[p] = "RUNNING" /\ Stays(p)
  BY <1>0, Running DEF At, FamilyInv, Lives, Stays
<1>2. PICK f \in Slots : forked[p] = f /\ status[f] = "BOOKED" /\ f # p
  BY <1>1 DEF FamilyInv, ProcInv, OwnTypes, Forking, Forks
<1>3. /\ parent' = [parent EXCEPT ![f] = p]
      /\ sibling' = [sibling EXCEPT ![f] = child[p]]
      /\ child' = [child EXCEPT ![f] = Null, ![p] = f]
      /\ num_children' = [num_children EXCEPT ![f] = 0, ![p] = @ + 1]
      /\ pc' = [pc EXCEPT ![Base(p)] = "publish"]
      /\ UNCHANGED <<status, forked>>
  BY <1>1, <1>2 DEF Process_Link, NewHead
<1>4. /\ {parent, child, sibling} \subseteq [Slots -> Slots \cup {Null}]
      /\ num_children \in [Slots -> 0 .. MaxProcs]
  BY DEF FamilyInv, FamilyTypes
<1>. PICK n \in 0 .. MaxProcs : num_children[p] = n
  BY <1>4
<1>5. /\ parent'[f] = p /\ sibling'[f] = child[p] /\ child'[f] = Null /\ child'[p] = f
      /\ num_children'[f] = 0 /\ num_children'[p] = n + 1
      /\ \A s \in Slots \ {f} : parent'[s] = parent[s] /\ sibling'[s] = sibling[s]
      /\ \A s \in Slots \ {f, p} : child'[s] = child[s] /\ num_children'[s] = num_children[s]
  BY <1>1, <1>2, <1>3, <1>4
<1>6. At0(p)' = "publish" /\ \A q \in Slots \ {p} : At0(q)' = At0(q)
  <2>1. \A q \in Slots : Base(q) \in Frames
    BY DEF Frames, Contexts
  <2>. QED  BY <1>1, <1>3, <2>1 DEF FamilyInv, ProcInv, Inv, TypeOK, At0
<1>7. ~Linked(f) /\ \A q \in Slots \ {p} : forked[q] # f /\ forked[q] # p
  BY <1>1, <1>2 DEF FamilyInv, ProcInv, Forking, Linked
<1>8. \A s \in Slots : Linked(s) => Linked(s)'
  BY <1>1, <1>3, <1>6 DEF Linked
<1>9. \A r \in Slots \ {p} : Stays(r)' => HasList(r)'
  <2>. TAKE r \in Slots \ {p}
  <2>1. SUFFICES ASSUME Stays(r)' PROVE HasList(r)'
    OBVIOUS
  <2>2. r # f /\ HasList(r)
    BY <1>2, <1>3, <1>6, <2>1 DEF Lives, Stays, FamilyInv, Families, HasList
  <2>3. \A s \in Slots : Linked(s) => s # f
    BY <1>7
  <2>. QED  BY <1>3, <1>5, <1>8, <2>2, <2>3, ListKept
<1>10. PICK g \in Lists : IsList(p, g, n) /\ OwnKids(p, g, n)
  BY <1>1, <1>2 DEF FamilyInv, Families
<1>11. \A i \in 0 .. n - 1 : g[i] \in Slots \ {f}
  BY <1>7, <1>10 DEF IsList, OwnKids
<1>12. n + 1 \in 0 .. MaxProcs
  <2>1. n \in 0 .. MaxProcs
    OBVIOUS
  <2>2. SUFFICES ASSUME n = MaxProcs PROVE FALSE
    BY <2>1
  <2>. DEFINE h == [i \in 0 .. n - 1 |-> g[i]]
  <2>3. h \in [0 .. n - 1 -> Slots \ {f}]
    BY <1>11
  <2>4. IsFiniteSet(0 .. n - 1) /\ Cardinality(0 .. n - 1) = n
    BY <2>2, FS_Interval
  <2>5. IsFiniteSet(Slots) /\ Cardinality(Slots) = n
    <3>1. Slots = 0 .. n - 1
      BY <2>2 DEF Slots
    <3>. QED  BY <2>4, <3>1
  <2>6. IsFiniteSet(Slots \ {f}) /\ Cardinality(Slots \ {f}) = n - 1
    BY <1>2, <2>5, FS_RemoveElement
  <2>7. Cardinality(Slots \ {f}) < Cardinality(0 .. n - 1)
    BY <2>1, <2>4, <2>6
  <2>8. PICK i, j \in 0 .. n - 1 : i # j /\ h[i] = h[j]
    <3>. HIDE DEF h
    <3>. QED  BY <2>3, <2>4, <2>6, <2>7, FS_PigeonHole
  <2>. QED  BY <1>10, <2>8 DEF IsList
<1>13. HasList(p)'
  <2>. DEFINE h == [i \in 0 .. MaxProcs |-> IF i = 0 THEN f ELSE g[i - 1]]
  <2>1. n \in Nat /\ \A i \in 1 .. MaxProcs : i - 1 \in 0 .. MaxProcs /\ h[i] = g[i - 1]
    BY <1>10 DEF IsList
  <2>2. h \in Lists /\ h[0] = f
    BY <1>2, <2>1 DEF Lists
  <2>. HIDE DEF h
  <2>3. \A i \in 0 .. n : i = 0 \/ (i \in 1 .. MaxProcs /\ i - 1 \in 0 .. n - 1)
    BY <1>12, <2>1
  <2>4. \A i \in 0 .. n : h[i] \in Slots
    BY <1>2, <1>11, <2>1, <2>2, <2>3
  <2>5. \A i \in n + 1 .. MaxProcs : h[i] = Null
    <3>. TAKE i \in n + 1 .. MaxProcs
    <3>1. i \in 1 .. MaxProcs /\ i - 1 \in n .. MaxProcs
      BY <2>1
    <3>. QED  BY <1>10, <2>1, <3>1 DEF IsList
  <2>6. \A i, j \in 0 .. n : h[i] = h[j] => i = j
    <3>. SUFFICES ASSUME NEW i \in 0 .. n, NEW j \in 0 .. n, h[i] = h[j] PROVE i = j
      OBVIOUS
    <3>1. CASE i = 0 \/ j = 0
      BY <1>11, <2>1, <2>2, <2>3, <3>1
    <3>2. CASE i # 0 /\ j # 0
      <4>1. i - 1 \in 0 .. n - 1 /\ j - 1 \in 0 .. n - 1 /\ g[i - 1] = g[j - 1]
        BY <2>1, <2>3, <3>2
      <4>2. i - 1 = j - 1
        BY <1>10, <4>1 DEF IsList
      <4>. QED  BY <2>1, <4>2
    <3>. QED  BY <3>1, <3>2
  <2>7. \A i \in 0 .. n : h[i + 1] = sibling'[h[i]]
    <3>. TAKE i \in 0 .. n
    <3>0. i + 1 \in 1 .. MaxProcs /\ h[i + 1] = g[i]
      BY <1>12, <2>1
    <3>1. CASE i = 0
      BY <1>5, <1>10, <2>2, <3>0, <3>1 DEF IsList
    <3>2. CASE i # 0
      <4>1. i - 1 \in 0 .. n - 1 /\ h[i] = g[i - 1] /\ (i - 1) + 1 = i
        BY <2>1, <2>3, <3>2
      <4>2. g[i] = sibling[g[i - 1]]
        BY <1>10, <4>1 DEF IsList
      <4>. QED  BY <1>5, <1>11, <3>0, <4>1, <4>2
    <3>. QED  BY <3>1, <3>2
  <2>8. (n + 1) - 1 = n
    BY <2>1
  <2>9. IsList(p, h, num_children[p])'
    BY <1>3, <1>5, <1>12, <2>2, <2>4, <2>5, <2>6, <2>7, <2>8 DEF IsList
  <2>10. \A i \in 0 .. n : parent'[h[i]] = p /\ status'[h[i]] # "IDLE" /\ Linked(h[i])'
    <3>. TAKE i \in 0 .. n
    <3>1. CASE i = 0
      <4>1. Linked(f)'
        BY <1>1, <1>2, <1>3, <1>6 DEF Linked
      <4>. QED  BY <1>2, <1>3, <1>5, <2>2, <3>1, <4>1
    <3>2. CASE i # 0
      <4>1. i - 1 \in 0 .. n - 1 /\ h[i] = g[i - 1] /\ g[i - 1] \in Slots \ {f}
        BY <1>11, <2>1, <2>3, <3>2
      <4>2. parent[g[i - 1]] = p /\ status[g[i - 1]] # "IDLE" /\ Linked(g[i - 1])
        BY <1>10, <4>1 DEF OwnKids
      <4>. QED  BY <1>3, <1>5, <1>8, <4>1, <4>2
    <3>. QED  BY <3>1, <3>2
  <2>. QED  BY <1>3, <1>5, <2>2, <2>8, <2>9, <2>10 DEF HasList, OwnKids
<1>14. Families'
  BY <1>9, <1>13 DEF Families, HasList
<1>15. FamilyTypes'
  <2>1. num_children' \in [Slots -> 0 .. MaxProcs]
    BY <1>1, <1>2, <1>3, <1>4, <1>12
  <2>2. child[p] \in Slots \cup {Null}
    BY <1>1, <1>4
  <2>. QED  BY <1>1, <1>2, <1>3, <1>4, <2>1, <2>2 DEF FamilyTypes
<1>16. Childless'
  <2>1. ASSUME NEW q \in Slots, q # p, At0(q) = "publish"
        PROVE  child'[forked[q]] = Null /\ num_children'[forked[q]] = 0
    <3>1. forked[q] \in Slots \ {f, p}
      BY <1>7, <2>1 DEF FamilyInv, ProcInv, Forking, Forks, OwnTypes
    <3>. QED  BY <1>5, <2>1, <3>1 DEF FamilyInv, Childless
  <2>2. forked' = forked
    BY <1>3
  <2>3. ASSUME NEW q \in Slots, At0(q)' = "publish"
        PROVE  child'[forked'[q]] = Null /\ num_children'[forked'[q]] = 0
    <3>1. CASE q = p
      BY <1>2, <1>5, <2>2, <3>1
    <3>2. CASE q # p
      BY <1>6, <2>1, <2>2, <2>3, <3>2
    <3>. QED  BY <3>1, <3>2
  <2>. QED  BY <2>3 DEF Childless
<1>. QED  BY <1>14, <1>15, <1>16 DEF FamilyInv

(* Process_Publish: the new process starts with an empty list.             *)
LEMMA PublishFamily ==
  ASSUME FamilyInv, ProcInv', NEW c \in CPUs, Process_Publish(c)
  PROVE  FamilyInv'
<1>0. At(c, "publish", "held")
  BY DEF Process_Publish
<1>1. PICK p \in Slots : on[c] = p /\ At0(p) = "publish" /\ status[p] = "RUNNING"
  BY <1>0, Running DEF At, FamilyInv
<1>2. PICK f \in Slots : forked[p] = f /\ status[f] = "BOOKED" /\ f # p
  BY <1>1 DEF FamilyInv, ProcInv, OwnTypes, Forking, Forks
<1>3. /\ status' = [status EXCEPT ![f] = "RUNNABLE"] /\ forked' = [forked EXCEPT ![p] = Null]
      /\ pc' = [pc EXCEPT ![Base(p)] = "return"] /\ UNCHANGED family
  BY <1>1, <1>2 DEF Process_Publish, Move
<1>4. UNCHANGED <<parent, child, sibling, num_children>>
  BY <1>3 DEF family
<1>5. /\ At0(p)' = "return" /\ \A q \in Slots \ {p} : At0(q)' = At0(q)
      /\ status'[f] = "RUNNABLE" /\ \A s \in Slots \ {f} : status'[s] = status[s]
      /\ \A q \in Slots \ {p} : forked'[q] = forked[q]
  <2>1. \A q \in Slots : Base(q) \in Frames
    BY DEF Frames, Contexts
  <2>2. pc \in [Frames -> Labels] /\ status \in [Slots -> Status] /\ forked \in [Slots -> Slots \cup {Null}]
    BY DEF FamilyInv, ProcInv, Inv, TypeOK, OwnTypes
  <2>. QED  BY <1>1, <1>2, <1>3, <2>1, <2>2 DEF At0
<1>6. FamilyTypes'
  BY <1>4 DEF FamilyInv, FamilyTypes
<1>7. Childless'
  BY <1>4, <1>5 DEF FamilyInv, Childless
<1>8. \A s \in Slots : Linked(s) => Linked(s)'
  <2>. SUFFICES ASSUME NEW s \in Slots, Linked(s), status'[s] = "BOOKED"
                PROVE  \E q \in Slots : forked'[q] = s /\ At0(q)' = "publish"
    BY DEF Linked
  <2>1. s # f /\ status[s] = "BOOKED"
    BY <1>5
  <2>2. PICK q \in Slots : forked[q] = s /\ At0(q) = "publish"
    BY <2>1 DEF Linked
  <2>3. q # p
    BY <1>2, <2>1, <2>2
  <2>. QED  BY <1>5, <2>2, <2>3
<1>9. HasList(f)'
  <2>. DEFINE g == [i \in 0 .. MaxProcs |-> Null]
  <2>1. child'[f] = Null /\ num_children'[f] = 0
    BY <1>1, <1>2, <1>4 DEF FamilyInv, Childless
  <2>2. g \in Lists /\ 0 .. 0 - 1 = {} /\ 0 \in 0 .. MaxProcs
    BY DEF Lists
  <2>3. IsList(f, g, 0)' /\ OwnKids(f, g, 0)'
    BY <2>1, <2>2 DEF IsList, OwnKids
  <2>. QED  BY <2>1, <2>2, <2>3 DEF HasList
<1>10. ASSUME NEW r \in Slots, r # f, Stays(r)' PROVE HasList(r)'
  <2>1. Stays(r)
    BY <1>1, <1>5, <1>10 DEF Lives, Stays
  <2>2. HasList(r)
    BY <2>1 DEF FamilyInv, Families, HasList
  <2>3. \A s \in Slots : status[s] # "IDLE" => status'[s] # "IDLE"
    BY <1>5
  <2>. QED  BY <1>4, <1>8, <2>2, <2>3, ListKept
<1>11. Families'
  BY <1>9, <1>10 DEF Families, HasList
<1>. QED  BY <1>6, <1>7, <1>11 DEF FamilyInv

(* Process_Terminate: the children it orphans are on no other list.        *)
LEMMA TerminateFamily ==
  ASSUME FamilyInv, ProcInv', NEW c \in CPUs, Process_Terminate(c)
  PROVE  FamilyInv'
<1>0. At(c, "exit", "held")
  BY DEF Process_Terminate
<1>1. PICK p \in Slots : on[c] = p /\ At0(p) = "exit" /\ status[p] = "RUNNING"
  BY <1>0, Running DEF At, FamilyInv
<1>. PICK n \in 0 .. MaxProcs : num_children[p] = n
  BY DEF FamilyInv, FamilyTypes
<1>2. PICK g \in Lists : IsList(p, g, n) /\ OwnKids(p, g, n)
  BY <1>1 DEF FamilyInv, Families, Lives, Stays
<1>3. /\ parent' = [s \in Slots |-> IF \E i \in 0 .. MaxProcs : g[i] = s THEN Null ELSE parent[s]]
      /\ pc' = [pc EXCEPT ![Base(p)] = "bury"]
      /\ UNCHANGED <<status, child, sibling, num_children, forked>>
  <2>1. Kid(p) = g
    BY <1>2, KidIs
  <2>. QED  BY <1>1, <2>1 DEF Process_Terminate
<1>4. At0(p)' = "bury" /\ \A q \in Slots \ {p} : At0(q)' = At0(q)
  <2>1. \A q \in Slots : Base(q) \in Frames
    BY DEF Frames, Contexts
  <2>2. pc \in [Frames -> Labels]
    BY DEF FamilyInv, ProcInv, Inv, TypeOK
  <2>. QED  BY <1>1, <1>3, <2>1, <2>2 DEF At0
<1>5. FamilyTypes'
  BY <1>3 DEF FamilyInv, FamilyTypes
<1>6. Childless'
  BY <1>3, <1>4 DEF FamilyInv, Childless
<1>7. \A s \in Slots : Linked(s) => Linked(s)'
  BY <1>1, <1>3, <1>4 DEF Linked
<1>8. \A s \in Slots : parent[s] # p => parent'[s] = parent[s]
  <2>1. \A i \in 0 .. MaxProcs : i \in 0 .. n - 1 \/ i \in n .. MaxProcs
    OBVIOUS
  <2>2. \A i \in 0 .. MaxProcs : g[i] \in Slots => parent[g[i]] = p
    BY <1>2, <2>1 DEF IsList, OwnKids
  <2>. QED  BY <1>3, <2>2
<1>9. ASSUME NEW r \in Slots, Stays(r)' PROVE HasList(r)'
  <2>1. r # p /\ Stays(r)
    BY <1>3, <1>4, <1>9 DEF Lives, Stays
  <2>2. HasList(r)
    BY <2>1 DEF FamilyInv, Families, HasList
  <2>3. \A s \in Slots : status[s] # "IDLE" => status'[s] # "IDLE"
    BY <1>3
  <2>. QED  BY <1>3, <1>7, <1>8, <2>1, <2>2, <2>3, ListKept
<1>10. Families'
  BY <1>9 DEF Families, HasList
<1>. QED  BY <1>5, <1>6, <1>10 DEF FamilyInv

(* Process_Initialize works on a slot that is not forking itself.          *)
LEMMA InitializeFamily ==
  ASSUME FamilyInv, ProcInv', NEW c \in CPUs, Process_Initialize(c)
  PROVE  FamilyInv'
<1>0. At(c, "initialize", "out")
  BY DEF Process_Initialize
<1>1. PICK p \in Slots : on[c] = p /\ At0(p) = "initialize" /\ status[p] = "RUNNING"
  BY <1>0, Running DEF At, FamilyInv
<1>2. PICK f \in Slots : forked[p] = f /\ status[f] = "BOOKED" /\ f # p
  BY <1>1 DEF FamilyInv, ProcInv, OwnTypes, Forking, Forks
<1>3. /\ pc' = [pc EXCEPT ![Base(f)] = "return", ![Base(p)] = "link"]
      /\ UNCHANGED <<status, forked>> /\ UNCHANGED family
  BY <1>1, <1>2 DEF Process_Initialize, NewLabel
<1>4. At0(f) # "publish"
  BY <1>2 DEF FamilyInv, ProcInv, Forking, Forks, Lives
<1>5. At0(p)' = "link" /\ At0(f)' = "return" /\ \A q \in Slots \ {f, p} : At0(q)' = At0(q)
  <2>1. \A q \in Slots : Base(q) \in Frames
    BY DEF Frames, Contexts
  <2>2. pc \in [Frames -> Labels]
    BY DEF FamilyInv, ProcInv, Inv, TypeOK
  <2>. QED  BY <1>2, <1>3, <2>1, <2>2 DEF At0
<1>6. \A q \in Slots : At0(q)' = "publish" <=> At0(q) = "publish"
  BY <1>1, <1>4, <1>5
<1>7. \A s \in Slots : Stays(s)' => Stays(s)
  BY <1>1, <1>2, <1>3, <1>5 DEF Lives, Stays
<1>. QED  BY <1>3, <1>6, <1>7, FamilyQuiet

(* Process_Wait: element m of the caller's list becomes IDLE and is taken  *)
(* out of the list; no other list holds it or its predecessor.             *)
LEMMA WaitReapFamily ==
  ASSUME FamilyInv, ProcInv', NEW c \in CPUs, WaitReap(c)
  PROVE  FamilyInv'
<1>0. At(c, "wait", "held")
  BY DEF WaitReap
<1>1. PICK p \in Slots : on[c] = p /\ At0(p) = "wait" /\ status[p] = "RUNNING"
  BY <1>0, Running DEF At, FamilyInv
<1>2. /\ {parent, child, sibling} \subseteq [Slots -> Slots \cup {Null}]
      /\ num_children \in [Slots -> 0 .. MaxProcs]
  BY DEF FamilyInv, FamilyTypes
<1>. PICK n \in 0 .. MaxProcs : num_children[p] = n
  BY <1>2
<1>3. PICK g \in Lists : IsList(p, g, n) /\ OwnKids(p, g, n)
  BY <1>1 DEF FamilyInv, Families, Lives, Stays
<1>4. Kid(p) = g
  BY <1>3, KidIs
<1>5. DeadKids(p) \in SUBSET Nat /\ DeadKids(p) # {}
  BY <1>1 DEF WaitReap, DeadKids
<1>6. PICK m \in 0 .. MaxProcs : m = Min(DeadKids(p)) /\ g[m] # Null /\ status[g[m]] = "DEAD"
  BY <1>4, <1>5, MinOf DEF DeadKids, Dead
<1>7. m \in 0 .. n - 1 /\ n \in 1 .. MaxProcs
  <2>1. m \notin n .. MaxProcs
    BY <1>3, <1>6 DEF IsList
  <2>. QED  BY <2>1
<1>8. PICK s \in Slots : s = g[m] /\ status[s] = "DEAD" /\ parent[s] = p /\ sibling[s] = g[m + 1]
  BY <1>3, <1>6, <1>7 DEF IsList, OwnKids
<1>9. PICK label \in {"return", "wait_sleep"} : pc' = [pc EXCEPT ![Base(p)] = label]
  BY <1>1 DEF WaitReap, Move
<1>10. /\ status' = [status EXCEPT ![s] = "IDLE"]
       /\ num_children' = [num_children EXCEPT ![p] = @ - 1]
       /\ IF m = 0 THEN child' = [child EXCEPT ![p] = sibling[s]] /\ UNCHANGED sibling
                   ELSE sibling' = [sibling EXCEPT ![g[m - 1]] = sibling[s]] /\ UNCHANGED child
       /\ UNCHANGED <<parent, forked>>
  BY <1>1, <1>4, <1>6, <1>8 DEF WaitReap, Unlink
<1>11. \A i \in 0 .. n - 1 : g[i] \in Slots /\ g[i + 1] = sibling[g[i]] /\ parent[g[i]] = p
  BY <1>3 DEF IsList, OwnKids
<1>12. m # 0 => m - 1 \in 0 .. n - 1 /\ g[m - 1] \in Slots /\ parent[g[m - 1]] = p
  <2>1. m # 0 => m - 1 \in 0 .. n - 1
    BY <1>7
  <2>. QED  BY <1>11, <2>1
<1>13. /\ \A q \in Slots : At0(q)' = "publish" <=> At0(q) = "publish"
       /\ \A q \in Slots \ {p} : At0(q)' = At0(q)
       /\ status'[s] = "IDLE" /\ \A t \in Slots \ {s} : status'[t] = status[t]
  <2>1. \A q \in Slots : Base(q) \in Frames
    BY DEF Frames, Contexts
  <2>2. pc \in [Frames -> Labels] /\ status \in [Slots -> Status]
    BY DEF FamilyInv, ProcInv, Inv, TypeOK
  <2>3. At0(p)' = label /\ \A q \in Slots \ {p} : At0(q)' = At0(q)
    BY <1>9, <2>1, <2>2 DEF At0
  <2>. QED  BY <1>1, <1>8, <1>10, <2>2, <2>3
<1>14. /\ num_children'[p] = n - 1 /\ \A r \in Slots \ {p} : num_children'[r] = num_children[r]
       /\ \A r \in Slots \ {p} : child'[r] = child[r]
       /\ child'[p] = IF m = 0 THEN g[1] ELSE child[p]
       /\ \A t \in Slots : (m = 0 \/ t # g[m - 1]) => sibling'[t] = sibling[t]
       /\ m # 0 => sibling'[g[m - 1]] = g[m + 1]
  <2>1. CASE m = 0
    BY <1>1, <1>2, <1>8, <1>10, <2>1
  <2>2. CASE m # 0
    BY <1>1, <1>2, <1>8, <1>10, <1>12, <2>2
  <2>. QED  BY <2>1, <2>2
<1>15. \A t \in Slots : Linked(t) => Linked(t)'
  BY <1>10, <1>13 DEF Linked
<1>16. ASSUME NEW r \in Slots, r # p, Stays(r)' PROVE HasList(r)'
  <2>1. Stays(r)
    BY <1>13, <1>16 DEF Lives, Stays
  <2>2. HasList(r)
    BY <2>1 DEF FamilyInv, Families, HasList
  <2>3. \A t \in Slots : parent[t] = r => /\ sibling'[t] = sibling[t] /\ parent'[t] = r
                                           /\ status'[t] = status[t]
    BY <1>8, <1>10, <1>12, <1>13, <1>14, <1>16
  <2>. QED  BY <1>14, <1>15, <1>16, <2>2, <2>3, ListKept
<1>17. HasList(p)'
  <2>. DEFINE h == [i \in 0 .. MaxProcs |-> IF i < m THEN g[i] ELSE IF i = MaxProcs THEN Null ELSE g[i + 1]]
  <2>1. h \in Lists
    <3>1. \A i \in 0 .. MaxProcs : i # MaxProcs => i + 1 \in 0 .. MaxProcs
      OBVIOUS
    <3>. QED  BY <3>1 DEF Lists
  <2>2. \A i \in 0 .. n - 1 : h[i] = IF i < m THEN g[i] ELSE g[i + 1]
    BY <1>7
  <2>3. \A i \in n - 1 .. MaxProcs : h[i] = Null
    <3>. TAKE i \in n - 1 .. MaxProcs
    <3>1. i \in 0 .. MaxProcs /\ ~(i < m) /\ (i = MaxProcs \/ i + 1 \in n .. MaxProcs)
      BY <1>7
    <3>2. \A j \in n .. MaxProcs : g[j] = Null
      BY <1>3 DEF IsList
    <3>. QED  BY <3>1, <3>2
  <2>. HIDE DEF h
  <2>4. \A i \in 0 .. n - 2 : /\ i \in 0 .. n - 1 /\ i + 1 \in 0 .. n - 1
                              /\ i < m => h[i] = g[i]
                              /\ ~(i < m) => h[i] = g[i + 1]
    BY <1>7, <2>2
  <2>5. \A i \in 0 .. n - 2 : h[i] \in Slots
    BY <1>11, <2>4
  <2>6. \A i, j \in 0 .. n - 1 : g[i] = g[j] => i = j
    BY <1>3 DEF IsList
  <2>7. \A i, j \in 0 .. n - 2 : h[i] = h[j] => i = j
    <3>. SUFFICES ASSUME NEW i \in 0 .. n - 2, NEW j \in 0 .. n - 2, h[i] = h[j] PROVE i = j
      OBVIOUS
    <3>. DEFINE x == IF i < m THEN i ELSE i + 1
                y == IF j < m THEN j ELSE j + 1
    <3>1. x \in 0 .. n - 1 /\ y \in 0 .. n - 1 /\ h[i] = g[x] /\ h[j] = g[y]
      BY <2>4
    <3>2. x = y
      BY <2>6, <3>1
    <3>. QED  BY <1>7, <3>2
  <2>8. h[0] = child'[p]
    <3>1. 0 \in 0 .. n - 1 /\ g[0] = child[p] /\ 0 + 1 = 1
      BY <1>3, <1>7 DEF IsList
    <3>2. h[0] = IF 0 < m THEN g[0] ELSE g[1]
      BY <2>2, <3>1
    <3>. QED  BY <1>7, <1>14, <3>1, <3>2
  <2>9. \A i \in 0 .. n - 2 : h[i + 1] = sibling'[h[i]]
    <3>. TAKE i \in 0 .. n - 2
    <3>0. i \in Nat /\ i + 1 \in 0 .. n - 1 /\ m \in Nat /\ i \in 0 .. n - 1 /\ (i + 1) + 1 = i + 2
      BY <1>7, <2>4
    <3>1. h[i + 1] = IF i + 1 < m THEN g[i + 1] ELSE g[i + 2]
      BY <2>2, <3>0
    <3>2. g[i + 1] = sibling[g[i]] /\ g[i + 2] = sibling[g[i + 1]] /\ g[i] \in Slots /\ g[i + 1] \in Slots
      BY <1>11, <3>0
    <3>3. CASE i + 1 < m
      <4>1. m # 0 /\ m - 1 \in 0 .. n - 1 /\ i # m - 1 /\ i < m
        BY <1>7, <3>0, <3>3
      <4>2. g[i] # g[m - 1] /\ h[i] = g[i]
        BY <2>4, <2>6, <3>0, <4>1
      <4>. QED  BY <1>14, <3>1, <3>2, <3>3, <4>2
    <3>4. CASE i + 1 = m
      <4>1. m # 0 /\ m - 1 = i /\ i < m /\ m + 1 = i + 2
        BY <3>0, <3>4
      <4>2. h[i] = g[i] /\ h[i + 1] = g[i + 2]
        BY <2>4, <3>1, <3>4, <4>1
      <4>. QED  BY <1>14, <4>1, <4>2
    <3>5. CASE i + 1 > m
      <4>1. ~(i < m) /\ ~(i + 1 < m) /\ (m # 0 => m - 1 \in 0 .. n - 1 /\ i + 1 # m - 1)
        BY <1>7, <3>0, <3>5
      <4>2. h[i] = g[i + 1] /\ h[i + 1] = g[i + 2]
        BY <2>4, <3>1, <4>1
      <4>3. m = 0 \/ g[i + 1] # g[m - 1]
        BY <2>6, <3>0, <4>1
      <4>. QED  BY <1>14, <3>2, <4>2, <4>3
    <3>. QED  BY <3>0, <3>3, <3>4, <3>5
  <2>10. (n - 1) - 1 = n - 2 /\ n - 1 \in 0 .. MaxProcs
    BY <1>7
  <2>11. IsList(p, h, num_children[p])'
    BY <1>14, <2>3, <2>5, <2>7, <2>8, <2>9, <2>10 DEF IsList
  <2>12. \A i \in 0 .. n - 2 : parent'[h[i]] = p /\ status'[h[i]] # "IDLE" /\ Linked(h[i])'
    <3>. TAKE i \in 0 .. n - 2
    <3>1. PICK j \in 0 .. n - 1 : h[i] = g[j] /\ j # m
      <4>1. CASE i < m
        BY <1>7, <2>4, <4>1
      <4>2. CASE ~(i < m)
        <5>1. i + 1 # m /\ i + 1 \in 0 .. n - 1
          BY <1>7, <2>4, <4>2
        <5>. QED  BY <2>4, <4>2, <5>1
      <4>. QED  BY <4>1, <4>2
    <3>2. g[j] # s /\ g[j] \in Slots
      BY <1>7, <1>8, <1>11, <2>6, <3>1
    <3>3. parent[g[j]] = p /\ status[g[j]] # "IDLE" /\ Linked(g[j])
      BY <1>3, <3>1 DEF OwnKids
    <3>. QED  BY <1>10, <1>13, <1>15, <3>1, <3>2, <3>3
  <2>. QED  BY <1>14, <2>1, <2>10, <2>11, <2>12 DEF HasList, OwnKids
<1>18. Families'
  BY <1>16, <1>17 DEF Families, HasList
<1>19. FamilyTypes'
  <2>1. num_children' \in [Slots -> 0 .. MaxProcs]
    <3>1. n - 1 \in 0 .. MaxProcs
      BY <1>7
    <3>. QED  BY <1>1, <1>2, <1>10, <3>1
  <2>2. sibling[s] \in Slots \cup {Null}
    BY <1>2, <1>8
  <2>3. {child', sibling'} \subseteq [Slots -> Slots \cup {Null}]
    BY <1>2, <1>10, <2>2
  <2>. QED  BY <1>2, <1>10, <2>1, <2>3 DEF FamilyTypes
<1>20. Childless'
  <2>1. \A q \in Slots : At0(q) = "publish" => forked[q] \in Slots \ {p}
    BY <1>1 DEF FamilyInv, ProcInv, OwnTypes, Forking, Forks
  <2>2. forked' = forked
    BY <1>10
  <2>. QED  BY <1>13, <1>14, <2>1, <2>2 DEF FamilyInv, Childless
<1>. QED  BY <1>18, <1>19, <1>20 DEF FamilyInv

(* Everything else leaves the lists alone.                                 *)
LEMMA OtherFamily ==
  ASSUME FamilyInv, ProcInv', NEW c \in CPUs,
         \/ CPUStep(c, LockPoints) /\ UNCHANGED own
         \/ \E operation \in {"book", "wait", "exit"} : SysCall(c, operation) /\ UNCHANGED own
         \/ Scheduler_Book(c) \/ Page_Acquire_Fails(c) \/ WaitNoChild(c) \/ WaitSleep(c)
         \/ Process_Bury(c) \/ Leave(c)
  PROVE  FamilyInv'
<1>0. status \in [Slots -> Status] /\ forked \in [Slots -> Slots \cup {Null}]
  BY DEF FamilyInv, ProcInv, Inv, TypeOK, OwnTypes
<1>1. CASE CPUStep(c, LockPoints) /\ UNCHANGED own
  <2>1. /\ \A s \in Slots : At0(s)' = At0(s) \/ (At0(s) = "return" /\ At0(s)' = "user")
        /\ \A s \in Slots : status'[s] = status[s] \/ {status[s], status'[s]} \subseteq {"RUNNABLE", "RUNNING"}
    BY <1>1, CPUStepFrame DEF FamilyInv, ProcInv
  <2>2. UNCHANGED family /\ UNCHANGED forked
    BY <1>1 DEF own
  <2>3. \A q \in Slots : At0(q)' = "publish" <=> At0(q) = "publish"
    BY <2>1
  <2>4. \A s \in Slots : /\ Stays(s)' => Stays(s)
                         /\ status'[s] = "IDLE" => status[s] = "IDLE"
                         /\ status'[s] = "BOOKED" => status[s] \in {"BOOKED", "IDLE"}
    BY <2>1 DEF Lives, Stays
  <2>. QED  BY <2>2, <2>3, <2>4, FamilyQuiet
<1>2. CASE \E operation \in {"book", "wait", "exit"} : SysCall(c, operation) /\ UNCHANGED own
  <2>1. PICK operation \in {"book", "wait", "exit"} : SysCall(c, operation) /\ UNCHANGED own
    BY <1>2
  <2>2. on[c] \in Slots /\ At0(on[c]) = "user"
    BY <2>1, Running DEF SysCall, FamilyInv
  <2>3. /\ pc' = [pc EXCEPT ![Base(on[c])] = operation]
        /\ UNCHANGED <<status, forked>> /\ UNCHANGED family
    BY <2>1 DEF SysCall, own
  <2>. QED  BY <2>2, <2>3, FamilyOwn DEF Lives
<1>3. CASE Scheduler_Book(c)
  <2>1. on[c] \in Slots /\ At0(on[c]) = "book"
    <3>1. At(c, "book", "held")
      BY <1>3 DEF Scheduler_Book
    <3>. QED  BY <3>1, Running DEF At, FamilyInv
  <2>2. UNCHANGED family
    BY <1>3 DEF Scheduler_Book
  <2>3. CASE Idle = {}
    <3>1. pc' = [pc EXCEPT ![Base(on[c])] = "book"] /\ UNCHANGED <<status, forked>>
      BY <1>3, <2>3 DEF Scheduler_Book, Move
    <3>. QED  BY <2>1, <2>2, <3>1, FamilyOwn DEF Lives
  <2>4. CASE Idle # {}
    <3>1. PICK s \in Slots : status[s] = "IDLE" /\ s = Min(Idle)
      <4>1. Idle \in SUBSET Nat
        BY DEF Idle, Slots
      <4>. QED  BY <2>4, <4>1, MinOf DEF Idle
    <3>2. /\ pc' = [pc EXCEPT ![Base(on[c])] = "initialize"]
          /\ status' = [status EXCEPT ![s] = "BOOKED"]
          /\ forked' = [forked EXCEPT ![on[c]] = s]
      BY <1>3, <2>4, <3>1 DEF Scheduler_Book, Move
    <3>3. \A t \in Slots : /\ Lives(t)' => Lives(t)
                           /\ status'[t] = "IDLE" => status[t] = "IDLE"
                           /\ status'[t] = "BOOKED" => status[t] \in {"BOOKED", "IDLE"}
      BY <1>0, <3>1, <3>2 DEF Lives
    <3>4. \A q \in Slots \ {on[c]} : forked'[q] = forked[q]
      BY <1>0, <3>2
    <3>. QED  BY <2>1, <2>2, <3>2, <3>3, <3>4, FamilyOwn
  <2>. QED  BY <2>3, <2>4
<1>4. CASE Page_Acquire_Fails(c)
  <2>1. on[c] \in Slots /\ At0(on[c]) = "initialize"
    <3>1. At(c, "initialize", "out")
      BY <1>4 DEF Page_Acquire_Fails
    <3>. QED  BY <3>1, Running DEF At, FamilyInv
  <2>2. /\ pc' = [pc EXCEPT ![Base(on[c])] = "page_spin"]
        /\ UNCHANGED <<status, forked>> /\ UNCHANGED family
    BY <1>4 DEF Page_Acquire_Fails
  <2>. QED  BY <2>1, <2>2, FamilyOwn DEF Lives
<1>5. CASE WaitNoChild(c)
  <2>1. on[c] \in Slots /\ At0(on[c]) = "wait"
    <3>1. At(c, "wait", "held")
      BY <1>5 DEF WaitNoChild
    <3>. QED  BY <3>1, Running DEF At, FamilyInv
  <2>2. /\ pc' = [pc EXCEPT ![Base(on[c])] = "return"]
        /\ UNCHANGED <<status, forked>> /\ UNCHANGED family
    BY <1>5 DEF WaitNoChild, Move, own
  <2>. QED  BY <2>1, <2>2, FamilyOwn DEF Lives
<1>6. CASE WaitSleep(c)
  <2>1. on[c] \in Slots /\ At0(on[c]) \in {"wait", "wait_sleep"} /\ status[on[c]] = "RUNNING"
    <3>1. PICK from \in {"wait", "wait_sleep"} : At(c, from, "held")
      BY <1>6 DEF WaitSleep
    <3>. QED  BY <3>1, Running DEF At, FamilyInv
  <2>2. /\ pc' = [pc EXCEPT ![Base(on[c])] = "wait"]
        /\ status' = [status EXCEPT ![on[c]] = "ASLEEP"]
        /\ UNCHANGED forked /\ UNCHANGED family
    BY <1>6 DEF WaitSleep, own
  <2>3. \A t \in Slots : /\ Lives(t)' => Lives(t)
                         /\ status'[t] = "IDLE" => status[t] = "IDLE"
                         /\ status'[t] = "BOOKED" => status[t] \in {"BOOKED", "IDLE"}
    BY <1>0, <2>1, <2>2 DEF Lives
  <2>. QED  BY <2>1, <2>2, <2>3, FamilyOwn
<1>7. CASE Leave(c)
  <2>1. UNCHANGED <<pc, status, forked>> /\ UNCHANGED family
    BY <1>7 DEF Leave, own
  <2>. QED  BY <2>1, FamilyQuiet DEF Lives, Stays, At0
<1>8. CASE Process_Bury(c)
  <2>1. PICK p \in Slots : on[c] = p /\ At0(p) = "bury" /\ status[p] = "RUNNING"
    <3>1. At(c, "bury", "held")
      BY <1>8 DEF Process_Bury
    <3>. QED  BY <3>1, Running DEF At, FamilyInv
  <2>2. /\ pc' = [pc EXCEPT ![Base(p)] = "leave"] /\ status' = [status EXCEPT ![p] = "DEAD"]
        /\ UNCHANGED forked /\ UNCHANGED family
    BY <1>8, <2>1 DEF Process_Bury, own
  <2>3. /\ \A q \in Slots : At0(q)' = IF q = p THEN "leave" ELSE At0(q)
        /\ \A s \in Slots : status'[s] = IF s = p THEN "DEAD" ELSE status[s]
    <3>1. \A q \in Slots : Base(q) \in Frames
      BY DEF Frames, Contexts
    <3>2. pc \in [Frames -> Labels]
      BY DEF FamilyInv, ProcInv, Inv, TypeOK
    <3>. QED  BY <1>0, <2>1, <2>2, <3>1, <3>2 DEF At0
  <2>4. \A s \in Slots : /\ Stays(s)' => Stays(s)
                         /\ status'[s] = "IDLE" => status[s] = "IDLE"
                         /\ status'[s] = "BOOKED" => status[s] \in {"BOOKED", "IDLE"}
    BY <2>3 DEF Lives, Stays
  <2>. QED  BY <2>1, <2>2, <2>3, <2>4, FamilyQuiet
<1>. QED  BY <1>1, <1>2, <1>3, <1>4, <1>5, <1>6, <1>7, <1>8

(* At first nobody has a child.                                            *)
LEMMA FamilyInit == ProcInit => FamilyInv
<1>. SUFFICES ASSUME ProcInit PROVE FamilyInv
  OBVIOUS
<1>1. /\ parent = [s \in Slots |-> Null] /\ child = [s \in Slots |-> Null]
      /\ sibling = [s \in Slots |-> Null] /\ num_children = [s \in Slots |-> 0]
  BY DEF ProcInit
<1>2. ProcInv
  BY ProcInitInv
<1>3. FamilyTypes
  BY <1>1 DEF FamilyTypes
<1>4. Childless
  BY <1>1, <1>2 DEF Childless, ProcInv, OwnTypes, Forking, Forks
<1>5. Families
  <2>. SUFFICES ASSUME NEW p \in Slots PROVE HasList(p)
    BY DEF Families, HasList
  <2>. DEFINE g == [i \in 0 .. MaxProcs |-> Null]
  <2>1. child[p] = Null /\ num_children[p] = 0
    BY <1>1
  <2>2. g \in Lists /\ 0 .. 0 - 1 = {} /\ 0 \in 0 .. MaxProcs
    BY DEF Lists
  <2>3. IsList(p, g, 0) /\ OwnKids(p, g, 0)
    BY <2>1, <2>2 DEF IsList, OwnKids
  <2>. QED  BY <2>1, <2>2, <2>3 DEF HasList
<1>. QED  BY <1>2, <1>3, <1>4, <1>5 DEF FamilyInv

(* Every step keeps the lists whole.                                       *)
LEMMA FamilyNext == FamilyInv /\ [ProcNext]_allvars => FamilyInv'
<1>. SUFFICES ASSUME FamilyInv, [ProcNext]_allvars PROVE FamilyInv'
  OBVIOUS
<1>0. ProcInv'
  BY ProcNextInv DEF FamilyInv
<1>1. CASE UNCHANGED allvars
  <2>1. UNCHANGED <<pc, status, forked>> /\ UNCHANGED family
    BY <1>1 DEF allvars, vars, own
  <2>. QED  BY <1>0, <2>1, FamilyQuiet DEF Lives, Stays, At0
<1>2. CASE ProcNext
  <2>1. PICK c \in CPUs :
           \/ CPUStep(c, LockPoints) /\ UNCHANGED own
           \/ \E operation \in {"book", "wait", "exit"} : SysCall(c, operation) /\ UNCHANGED own
           \/ Scheduler_Book(c) \/ Process_Initialize(c) \/ Page_Acquire_Fails(c)
           \/ Process_Link(c) \/ Process_Publish(c)
           \/ WaitNoChild(c) \/ WaitReap(c) \/ WaitSleep(c)
           \/ Process_Terminate(c) \/ Process_Bury(c) \/ Leave(c)
    BY <1>2 DEF ProcNext, ProcStep
  <2>. QED
    BY <1>0, <2>1, OtherFamily, InitializeFamily, LinkFamily, PublishFamily, WaitReapFamily, TerminateFamily
<1>. QED  BY <1>1, <1>2

(* The family lists of live processes are whole in every reachable state,  *)
(* although Process_Fork links the child without Process_lock.             *)
THEOREM FamilyInvariance == ProcSpec => []FamilyInv
BY FamilyInit, FamilyNext, PTL DEF ProcSpec

(* The list that Process_Wait and Process_Terminate walk ends, has         *)
(* num_children elements and holds only used slots whose parent field      *)
(* names its owner.                                                        *)
THEOREM FamiliesWhole == ProcSpec => []FamilyTree
<1>1. FamilyInv => FamilyTree
  <2>. SUFFICES ASSUME FamilyInv, NEW p \in Alive, ~Dying(p)
                PROVE  LET kids == {Kid(p)[i] : i \in 0 .. MaxProcs} \ {Null} IN
                       /\ Kid(p)[MaxProcs] = Null
                       /\ Cardinality(kids) = num_children[p]
                       /\ \A k \in kids : parent[k] = p /\ status[k] # "IDLE"
    BY DEF FamilyTree
  <2>. PICK n \in 0 .. MaxProcs : num_children[p] = n
    BY DEF FamilyInv, FamilyTypes, Alive
  <2>1. PICK g \in Lists : IsList(p, g, n) /\ OwnKids(p, g, n)
    BY DEF FamilyInv, Families, Lives, Stays, Alive, Dying, At0
  <2>2. Kid(p) = g
    BY <2>1, KidIs
  <2>. DEFINE kids == {g[i] : i \in 0 .. MaxProcs} \ {Null}
              h == [i \in 0 .. n - 1 |-> g[i]]
  <2>3. \A k \in kids : \E i \in 0 .. n - 1 : k = g[i]
    <3>1. \A i \in 0 .. MaxProcs : i \in 0 .. n - 1 \/ i \in n .. MaxProcs
      OBVIOUS
    <3>. QED  BY <2>1, <3>1 DEF IsList
  <2>4. \A i \in 0 .. n - 1 : g[i] \in kids
    <3>1. \A i \in 0 .. n - 1 : i \in 0 .. MaxProcs /\ g[i] # Null
      BY <2>1 DEF IsList
    <3>. QED  BY <3>1
  <2>5. g[MaxProcs] = Null
    BY <2>1 DEF IsList
  <2>6. Cardinality(kids) = n
    <3>1. h \in Surjection(0 .. n - 1, kids)
      BY <2>3, <2>4 DEF Surjection
    <3>2. h \in Injection(0 .. n - 1, kids)
      BY <2>1, <2>4 DEF Injection, IsInjective, IsList
    <3>3. IsFiniteSet(0 .. n - 1) /\ Cardinality(0 .. n - 1) = n
      BY FS_Interval
    <3>. HIDE DEF kids, h
    <3>. QED  BY <3>1, <3>2, <3>3, FS_Surjection
  <2>7. \A k \in kids : parent[k] = p /\ status[k] # "IDLE"
    BY <2>1, <2>3 DEF OwnKids
  <2>. QED  BY <2>2, <2>5, <2>6, <2>7
<1>. QED  BY <1>1, FamilyInvariance, PTL

(* Only Process_Wait makes a DEAD slot IDLE, and only one from the list of *)
(* the process on the CPU that takes the step.                             *)
LEMMA ReapStep ==
  ASSUME FamilyInv, ProcNext, NEW s \in Slots, status[s] = "DEAD", status'[s] = "IDLE"
  PROVE  \E c \in CPUs : /\ on[c] = parent[s] /\ At(c, "wait", "held")
                         /\ ~At(c, "wait", "held")'
<1>0. status \in [Slots -> Status] /\ forked \in [Slots -> Slots \cup {Null}]
  BY DEF FamilyInv, ProcInv, Inv, TypeOK, OwnTypes
<1>1. PICK c \in CPUs :
         \/ CPUStep(c, LockPoints) /\ UNCHANGED own
         \/ \E operation \in {"book", "wait", "exit"} : SysCall(c, operation) /\ UNCHANGED own
         \/ Scheduler_Book(c) \/ Process_Initialize(c) \/ Page_Acquire_Fails(c)
         \/ Process_Link(c) \/ Process_Publish(c)
         \/ WaitNoChild(c) \/ WaitReap(c) \/ WaitSleep(c)
         \/ Process_Terminate(c) \/ Process_Bury(c) \/ Leave(c)
  BY DEF ProcNext, ProcStep
<1>2. ~CPUStep(c, LockPoints)
  BY CPUStepFrame DEF FamilyInv, ProcInv
<1>3. ~ \/ \E operation \in {"book", "wait", "exit"} : SysCall(c, operation) /\ UNCHANGED own
        \/ Process_Initialize(c) \/ Page_Acquire_Fails(c) \/ Process_Link(c)
        \/ WaitNoChild(c) \/ Process_Terminate(c) \/ Leave(c)
  BY DEF SysCall, Process_Initialize, Page_Acquire_Fails, Process_Link, WaitNoChild,
         Process_Terminate, Leave
<1>4. ~ (Process_Publish(c) \/ WaitSleep(c) \/ Process_Bury(c))
  BY <1>0 DEF Process_Publish, WaitSleep, Process_Bury
<1>5. ~Scheduler_Book(c)
  <2>. SUFFICES ASSUME Scheduler_Book(c) PROVE FALSE
    OBVIOUS
  <2>1. PICK t : status' = [status EXCEPT ![t] = "BOOKED"]
    <3>1. status' # status
      OBVIOUS
    <3>. QED  BY <3>1 DEF Scheduler_Book
  <2>. QED  BY <1>0, <2>1
<1>6. WaitReap(c)
  BY <1>1, <1>2, <1>3, <1>4, <1>5
<1>7. PICK p \in Slots : /\ on[c] = p /\ status[p] = "RUNNING" /\ At0(p) = "wait"
                        /\ At(c, "wait", "held") /\ Base(p) \in Frames /\ Intr(p) \in Frames
                        /\ ph[Intr(p)] = "off"
  <2>1. At(c, "wait", "held")
    BY <1>6 DEF WaitReap
  <2>. QED  BY <2>1, Running DEF FamilyInv
<1>. PICK n \in 0 .. MaxProcs : num_children[p] = n
  BY DEF FamilyInv, FamilyTypes
<1>8. PICK g \in Lists : IsList(p, g, n) /\ OwnKids(p, g, n)
  BY <1>7 DEF FamilyInv, Families, Lives, Stays
<1>9. Kid(p) = g
  BY <1>8, KidIs
<1>10. DeadKids(p) \in SUBSET Nat /\ DeadKids(p) # {}
  BY <1>6, <1>7 DEF WaitReap, DeadKids
<1>11. PICK m \in 0 .. MaxProcs : m = Min(DeadKids(p)) /\ g[m] # Null
  BY <1>9, <1>10, MinOf DEF DeadKids, Dead
<1>12. status' = [status EXCEPT ![g[m]] = "IDLE"]
  BY <1>6, <1>7, <1>9, <1>11 DEF WaitReap
<1>13. s = g[m]
  BY <1>0, <1>12
<1>14. m \in 0 .. n - 1
  <2>1. m \notin n .. MaxProcs
    BY <1>8, <1>11 DEF IsList
  <2>. QED  BY <2>1
<1>15. parent[s] = p
  BY <1>8, <1>13, <1>14 DEF OwnKids
<1>16. ~At(c, "wait", "held")'
  <2>1. on'[c] = p /\ (Move(Base(p), "return", "done") \/ Move(Base(p), "wait_sleep", "held"))
    BY <1>6, <1>7 DEF WaitReap
  <2>2. ph \in [Frames -> Phases] /\ pc \in [Frames -> Labels]
    BY DEF FamilyInv, ProcInv, Inv, TypeOK
  <2>3. ph'[Intr(p)] = "off" /\ pc'[Base(p)] # "wait"
    BY <1>7, <2>1, <2>2 DEF Move
  <2>. QED  BY <2>1, <2>3 DEF At, Top
<1>. QED  BY <1>7, <1>15, <1>16

(* A dead process is reclaimed by the parent that forked it, on the CPU    *)
(* whose Process_Wait takes the step, for all interleavings of             *)
(* Process_Fork, Process_Wait and Process_Terminate.                       *)
THEOREM OnlyParentsReap == ProcSpec => ReapedByParent
<1>. DEFINE Reap == \A s \in Slots : status[s] = "DEAD" /\ status'[s] = "IDLE" =>
                        \E c \in CPUs : /\ on[c] = parent[s] /\ At(c, "wait", "held")
                                        /\ ~At(c, "wait", "held")'
<1>1. FamilyInv /\ [ProcNext]_allvars => [Reap]_allvars
  <2>1. FamilyInv /\ ProcNext => Reap
    BY ReapStep
  <2>. QED  BY <2>1
<1>. QED  BY <1>1, FamilyInvariance, PTL DEF ProcSpec, ReapedByParent
=============================================================================
