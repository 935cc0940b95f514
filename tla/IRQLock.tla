------------------------------ MODULE IRQLock ------------------------------
(***************************************************************************)
(* IRQLock (src/kernel/core/synch/src/irqlock.c): a spin lock held with    *)
(* the interrupts of the holder's CPU disabled, which remembers whether    *)
(* they were enabled.  One lock, used by all CPUs.                         *)
(*                                                                         *)
(* The memory of the interrupt flag goes through three places: a local of  *)
(* IRQLock_Acquire, a field of the lock that every holder overwrites, and  *)
(* a field of the State at the base of the caller's stack.  The counting   *)
(* of preemption vetos in SpinLock_Acquire and SpinLock_Release is left    *)
(* out: it has no effect while interrupts are off, and interrupts are off  *)
(* from the first step of an acquire to the last of a release.             *)
(***************************************************************************)
EXTENDS Integers

CONSTANT CPUs

VARIABLES pc,          \* where the CPU is in its use of the lock
          intr,        \* the interrupt flag of the CPU
          intr_prio,   \* the local variable of IRQLock_Acquire
          flag,        \* the spin lock
          previous_interrupt_priority,   \* field of the lock
          interrupt_priority             \* field of the State the CPU uses

lockvars == <<pc, intr, intr_prio, flag, previous_interrupt_priority, interrupt_priority>>

AllMasked == 255   \* 0xFF
Priorities == {0, AllMasked}
Labels == {"idle", "spin", "record", "inside", "restore", "unlock", "enable"}

Goto(c, label) == pc' = [pc EXCEPT ![c] = label]

-----------------------------------------------------------------------------
(* IRQLock_Acquire                                                         *)

PriorityOf(enabled) == IF enabled THEN 0 ELSE AllMasked

Mask(c) ==
    /\ pc[c] = "idle"
    /\ intr_prio' = [intr_prio EXCEPT ![c] = PriorityOf(intr[c])]
    /\ intr' = [intr EXCEPT ![c] = FALSE]
    /\ Goto(c, "spin")
    /\ UNCHANGED <<flag, previous_interrupt_priority, interrupt_priority>>

FlagClear_Ignored == TRUE
FlagClear == ~flag

Take(c) ==
    /\ pc[c] = "spin"
    /\ FlagClear
    /\ flag' = TRUE
    /\ Goto(c, "record")
    /\ UNCHANGED <<intr, intr_prio, previous_interrupt_priority, interrupt_priority>>

Recorded_Omitted(c) == previous_interrupt_priority
Recorded(c) == intr_prio[c]

Record(c) ==
    /\ pc[c] = "record"
    /\ previous_interrupt_priority' = Recorded(c)
    /\ interrupt_priority' = [interrupt_priority EXCEPT ![c] = AllMasked]
    /\ Goto(c, "inside")
    /\ UNCHANGED <<intr, intr_prio, flag>>

-----------------------------------------------------------------------------
(* The caller's critical section, which does not touch the lock, and the   *)
(* caller that returns without calling IRQLock_Release.                    *)

Use(c) ==
    /\ pc[c] = "inside"
    /\ Goto(c, "restore")
    /\ UNCHANGED <<intr, intr_prio, flag, previous_interrupt_priority, interrupt_priority>>

Abandon(c) ==
    /\ pc[c] = "inside"
    /\ Goto(c, "idle")
    /\ UNCHANGED <<intr, intr_prio, flag, previous_interrupt_priority, interrupt_priority>>

-----------------------------------------------------------------------------
(* IRQLock_Release                                                         *)

Restore(c) ==
    /\ pc[c] = "restore"
    /\ interrupt_priority' = [interrupt_priority EXCEPT ![c] = previous_interrupt_priority]
    /\ Goto(c, "unlock")
    /\ UNCHANGED <<intr, intr_prio, flag, previous_interrupt_priority>>

Unlock(c) ==
    /\ pc[c] = "unlock"
    /\ flag' = FALSE
    /\ Goto(c, "enable")
    /\ UNCHANGED <<intr, intr_prio, previous_interrupt_priority, interrupt_priority>>

Remembered_InLock(c) == previous_interrupt_priority
Remembered(c) == interrupt_priority[c]

Enable(c) ==
    /\ pc[c] = "enable"
    /\ intr' = [intr EXCEPT ![c] = Remembered(c) # AllMasked]
    /\ Goto(c, "idle")
    /\ UNCHANGED <<intr_prio, flag, previous_interrupt_priority, interrupt_priority>>

-----------------------------------------------------------------------------
(* Outside the lock, the flag of a CPU changes with what it executes: an   *)
(* interrupt gate clears it, iret and sti set it.                          *)

FlagChanges(c) ==
    /\ pc[c] = "idle"
    /\ intr' = [intr EXCEPT ![c] = ~@]
    /\ UNCHANGED <<pc, intr_prio, flag, previous_interrupt_priority, interrupt_priority>>

LockInit ==
    /\ pc = [c \in CPUs |-> "idle"]
    /\ intr \in [CPUs -> BOOLEAN]
    /\ intr_prio = [c \in CPUs |-> 0]
    /\ flag = FALSE
    /\ previous_interrupt_priority = 0
    /\ interrupt_priority = [c \in CPUs |-> 0]

(* Every step of the lock's own code, the caller's section excepted.       *)
LockStep(c) == \/ Mask(c) \/ Take(c) \/ Record(c)
               \/ Restore(c) \/ Unlock(c) \/ Enable(c)
               \/ FlagChanges(c)

LockNext == \E c \in CPUs : LockStep(c) \/ Use(c) \/ Abandon(c)

LockSpec == LockInit /\ [][LockNext]_lockvars

-----------------------------------------------------------------------------
LockTypeOK ==
    /\ pc \in [CPUs -> Labels]
    /\ intr \in [CPUs -> BOOLEAN]
    /\ intr_prio \in [CPUs -> Priorities]
    /\ flag \in BOOLEAN
    /\ previous_interrupt_priority \in Priorities
    /\ interrupt_priority \in [CPUs -> Priorities]

Holding == {"record", "inside", "restore", "unlock"}

(* At most one CPU is between taking and clearing the flag, the flag is    *)
(* set meanwhile, and no CPU in an acquire or a release can be             *)
(* interrupted: a handler that allocates pages would spin on its own CPU.  *)
SectionExclusive ==
    /\ \A c, d \in CPUs : pc[c] \in Holding /\ pc[d] \in Holding => c = d
    /\ \A c \in CPUs : pc[c] \in Holding => flag
    /\ \A c \in CPUs : pc[c] # "idle" => ~intr[c]

(* IRQLock_Release leaves the CPU with interrupts as they were when it     *)
(* called IRQLock_Acquire, whatever other CPUs did to the lock's field     *)
(* before, between and after.                                              *)
InterruptsRestored ==
    [][\A c \in CPUs : pc[c] = "enable" /\ pc'[c] = "idle" => intr'[c] = (intr_prio[c] = 0)]_lockvars

(* The invariant behind InterruptsRestored: where the memory of the flag   *)
(* is at each point of the section.                                        *)
FlagRemembered ==
    \A c \in CPUs :
        /\ pc[c] \in {"inside", "restore", "unlock"} => previous_interrupt_priority = intr_prio[c]
        /\ pc[c] \in {"unlock", "enable"} => interrupt_priority[c] = intr_prio[c]
=============================================================================
