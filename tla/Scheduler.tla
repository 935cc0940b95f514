----------------------------- MODULE Scheduler -----------------------------
(***************************************************************************)
(* The scheduler of src/kernel/core/taskmaster together with the parts of  *)
(* src/kernel/arch/tasking and src/kernel/core/synch it stands on.         *)
(*                                                                         *)
(* A context is a kernel stack with its struct State: one per CPU (the     *)
(* base thread in Schedule()) and one per process slot.  on[c] is the      *)
(* context CPU c executes; KContext_Switch changes it.  Every context has  *)
(* a "base" frame and, while an interrupt is being returned from through   *)
(* Process_Preempt, an "intr" frame above it.                              *)
(*                                                                         *)
(* Process_lock is one flag.  It stays set across KContext_Switch, so who  *)
(* must clear it changes hands: Schedule() sets it, the process switched   *)
(* to clears it, and the other way round.  A frame is in one of the phases *)
(*   out    not using Process_lock                                         *)
(*   spin   SpinLock_Acquire has taken its veto and is at the test-and-set *)
(*   held   inside the critical section                                    *)
(*   done   at SpinLock_Release                                            *)
(*   freed  SpinLock_Release has cleared the flag, its veto is still there *)
(* and pc is the critical section or step the frame is at.                 *)
(***************************************************************************)
EXTENDS Integers, FiniteSets

CONSTANTS CPUs,       \* the processors, and the names of their base threads
          MaxProcs,   \* KERNEL_MAX_PROCS
          Alarms,     \* addresses a process can sleep on
          Null,       \* PROCESS_NULL, PROCESS_ALARM_OFF, an unset pointer
          Ticking,    \* the CPUs that receive interrupts: their local timer runs,
                      \* or a device line is routed to them
          RunTime,    \* run_time of every process, in timer ticks
          VetoSize    \* preemption_vetos counts modulo VetoSize (2^32 in the code)

Slots == 0 .. MaxProcs - 1
Contexts == CPUs \cup Slots
Frames == Contexts \X {"base", "intr"}

ASSUME MaxProcsAssumption == MaxProcs \in Nat \ {0}
ASSUME ContextAssumption == CPUs \cap Slots = {}
ASSUME NullAssumption == Null \notin CPUs \cup Slots \cup Alarms
ASSUME TickingAssumption == Ticking \subseteq CPUs
ASSUME RunTimeAssumption == RunTime \in Nat
ASSUME VetoSizeAssumption == VetoSize \in Nat \ {0}

VARIABLES status,        \* Process.status
          wakeup_on,     \* Process.wakeup_on
          vetos,         \* State.preemption_vetos of every context
          Process_lock,  \* the flag of the process lock
          on,            \* the context each CPU executes
          kernel_task,   \* State.kernel_task of every slot, as a CPU name
          esp0,          \* the slot whose stack each CPU's TSS points to
          intr,          \* the interrupt flag (EFLAGS.IF) of each CPU
          iproc,         \* Schedule()'s loop index on each CPU
          spent,         \* ticks since start_time, saturating at RunTime + 1
          ph, pc         \* phase and control point of every frame

vars == <<status, wakeup_on, vetos, Process_lock, on, kernel_task, esp0, intr,
          iproc, spent, ph, pc>>

Status == {"IDLE", "BOOKED", "RUNNABLE", "RUNNING", "ASLEEP", "DEAD"}
Phases == {"off", "out", "spin", "held", "done", "freed"}

(* Control points: of the scheduler, of Processes, and of SleepLock.       *)
Labels == {"schedule", "preempt", "iret", "return", "user", "sleep", "woken", "alarm"}
          \cup {"book", "initialize", "page_spin", "link", "publish",
                "wait", "wait_sleep", "exit", "bury", "leave"}
          \cup {"acquire", "take", "inside", "release"}

Base(x) == <<x, "base">>
Intr(x) == <<x, "intr">>

(* The frame a context executes in: the interrupt frame if there is one.   *)
Top(x) == IF ph[Intr(x)] = "off" THEN Base(x) ELSE Intr(x)

(* CPU c executes at this label, in this phase.                            *)
At(c, label, phase) == ph[Top(on[c])] = phase /\ pc[Top(on[c])] = label

Move(f, label, phase) == /\ ph' = [ph EXCEPT ![f] = phase]
                         /\ pc' = [pc EXCEPT ![f] = label]

(* STATE_INCREMENT_PREEMPTION_VETO and STATE_DECREMENT_PREEMPTION_VETO.    *)
Increment(v) == (v + 1) % VetoSize
Decrement_Omitted(v) == v
Decrement(v) == (v + VetoSize - 1) % VetoSize

(* Process_Initialize's view of a new process: State_Initialize clears the *)
(* vetos, Context_Initialize aims the first switch at                      *)
(* Process_FirstEntryToUserSpace, which only releases the process lock and *)
(* returns through Interrupt_Return.                                       *)
NewVetos == 0
NewPhase_NoRelease == "out"
NewPhase == "done"
NewLabel == "return"

-----------------------------------------------------------------------------
(* SpinLock_Acquire(&Process_lock): the veto, then the test-and-set.       *)

SpinEnter(c, labels) ==
    LET f == Top(on[c]) IN
    /\ ph[f] = "out"
    /\ pc[f] \in labels
    /\ ph' = [ph EXCEPT ![f] = "spin"]
    /\ vetos' = [vetos EXCEPT ![on[c]] = Increment(@)]
    /\ UNCHANGED <<status, wakeup_on, Process_lock, on, kernel_task, esp0, intr,
                   iproc, spent, pc>>

TestAndSet_NoTest == Process_lock' = TRUE
TestAndSet == ~Process_lock /\ Process_lock' = TRUE

SpinTake(c) ==
    LET f == Top(on[c]) IN
    /\ ph[f] = "spin"
    /\ TestAndSet
    /\ ph' = [ph EXCEPT ![f] = "held"]
    /\ UNCHANGED <<status, wakeup_on, vetos, on, kernel_task, esp0, intr, iproc,
                   spent, pc>>

(* SpinLock_Release(&Process_lock): clear the flag, then give the veto     *)
(* back.  In Schedule() the loop index moves on after it.                  *)
SpinDrop(c) ==
    LET f == Top(on[c]) IN
    /\ ph[f] = "done"
    /\ Process_lock' = FALSE
    /\ ph' = [ph EXCEPT ![f] = "freed"]
    /\ UNCHANGED <<status, wakeup_on, vetos, on, kernel_task, esp0, intr, iproc,
                   spent, pc>>

NextSlot(i) == IF i = MaxProcs - 1 THEN 0 ELSE i + 1

SpinLeave(c) ==
    LET x == on[c] IN
    /\ ph[Top(x)] = "freed"
    /\ ph' = [ph EXCEPT ![Top(x)] = "out"]
    /\ vetos' = [vetos EXCEPT ![x] = Decrement(@)]
    /\ iproc' = IF x \in CPUs THEN [iproc EXCEPT ![x] = NextSlot(@)] ELSE iproc
    /\ UNCHANGED <<status, wakeup_on, Process_lock, on, kernel_task, esp0, intr,
                   spent, pc>>

-----------------------------------------------------------------------------
(* The body of Schedule()'s loop.                                          *)

Ready_OrAsleep(s) == status[s] \in {"RUNNABLE", "ASLEEP"}
Ready(s) == status[s] = "RUNNABLE"

MarkRunning_Omitted(s) == UNCHANGED status
MarkRunning(s) == status' = [status EXCEPT ![s] = "RUNNING"]

(* The process is tied to the kernel task of this CPU, traps from user     *)
(* mode land on its stack, and its time slice starts.                      *)
Context_SetupProcess_FirstTimeOnly(x, s) ==
    /\ kernel_task' = [kernel_task EXCEPT ![s] = IF @ = Null THEN x ELSE @]
    /\ esp0' = [esp0 EXCEPT ![x] = s]
    /\ spent' = [spent EXCEPT ![s] = 0]
Context_SetupProcess(x, s) ==
    /\ kernel_task' = [kernel_task EXCEPT ![s] = x]
    /\ esp0' = [esp0 EXCEPT ![x] = s]
    /\ spent' = [spent EXCEPT ![s] = 0]

(* A RUNNABLE slot: SCHEDULER_SWITCH takes the CPU to its saved context.   *)
Dispatch(c) ==
    LET x == on[c]
        s == iproc[x] IN
    /\ x \in CPUs
    /\ ph[Base(x)] = "held"
    /\ Ready(s)
    /\ MarkRunning(s)
    /\ Context_SetupProcess(x, s)
    /\ ph' = [ph EXCEPT ![Base(x)] = "done"]
    /\ on' = [on EXCEPT ![c] = s]
    /\ UNCHANGED <<wakeup_on, vetos, Process_lock, intr, iproc, pc>>

PassOver(c) ==
    LET x == on[c] IN
    /\ x \in CPUs
    /\ ph[Base(x)] = "held"
    /\ ~Ready(iproc[x])
    /\ ph' = [ph EXCEPT ![Base(x)] = "done"]
    /\ UNCHANGED <<status, wakeup_on, vetos, Process_lock, on, kernel_task, esp0,
                   intr, iproc, spent, pc>>

(* SCHEDULER_RETURN: the CPU resumes the base thread of the kernel task    *)
(* recorded in the process's State.  The interrupt flag is not part of a   *)
(* KContext and stays as it is.                                            *)
SCHEDULER_RETURN(c) == on' = [on EXCEPT ![c] = kernel_task[on[c]]]

-----------------------------------------------------------------------------
(* Interrupts: every handler ends in Interrupt_Return, which calls         *)
(* Process_Preempt; a timer interrupt has counted a tick before.  With a   *)
(* veto Process_Preempt returns at once.  An interrupt frame that is       *)
(* interrupted outside its critical section starts over: the nested run    *)
(* leaves nothing for the interrupted one to do.                           *)

Interrupt(c, ticks) ==
    LET p == on[c] IN
    /\ p \in Slots
    /\ c \in Ticking /\ intr[c]
    /\ spent' = [spent EXCEPT ![p] = IF @ + ticks > RunTime THEN RunTime + 1 ELSE @ + ticks]
    /\ IF vetos[p] = 0
       THEN /\ ph[Intr(p)] \in {"off", "out"}
            /\ Move(Intr(p), "preempt", "out")
            /\ intr' = [intr EXCEPT ![c] = FALSE]
       ELSE UNCHANGED <<ph, pc, intr>>
    /\ UNCHANGED <<status, wakeup_on, vetos, Process_lock, on, kernel_task, esp0,
                   iproc>>

Scheduler_Preempt(p) == status[p] = "RUNNING" /\ spent[p] > RunTime

(* The critical section of Process_Preempt.                                *)
Process_Preempt(c) ==
    LET p == on[c] IN
    /\ p \in Slots
    /\ At(c, "preempt", "held")
    /\ Move(Intr(p), "iret", "done")
    /\ IF Scheduler_Preempt(p)
       THEN /\ status' = [status EXCEPT ![p] = "RUNNABLE"]
            /\ SCHEDULER_RETURN(c)
       ELSE UNCHANGED <<status, on>>
    /\ UNCHANGED <<wakeup_on, vetos, Process_lock, kernel_task, esp0, intr, iproc,
                   spent>>

(* iret to the interrupted code, which ran with interrupts enabled.        *)
Iret(c) ==
    LET p == on[c] IN
    /\ At(c, "iret", "out")
    /\ ph' = [ph EXCEPT ![Intr(p)] = "off"]
    /\ intr' = [intr EXCEPT ![c] = TRUE]
    /\ UNCHANGED <<status, wakeup_on, vetos, Process_lock, on, kernel_task, esp0,
                   iproc, spent, pc>>

(* The way out of a system call, and of Process_FirstEntryToUserSpace: the *)
(* same Interrupt_Return, then iret to user code.  The gate of vector 0x80 *)
(* is a trap gate, so the interrupt flag has not been cleared.             *)
Interrupt_Return(c) ==
    LET p == on[c] IN
    /\ At(c, "return", "out")
    /\ pc' = [pc EXCEPT ![Base(p)] = "user", ![Intr(p)] = "preempt"]
    /\ IF vetos[p] = 0
       THEN ph' = [ph EXCEPT ![Intr(p)] = "out"] /\ UNCHANGED intr
       ELSE intr' = [intr EXCEPT ![c] = TRUE] /\ UNCHANGED ph
    /\ UNCHANGED <<status, wakeup_on, vetos, Process_lock, on, kernel_task, esp0,
                   iproc, spent>>

(* A system call (vector 0x80) starts a kernel operation.                  *)
SysCall(c, operation) ==
    LET p == on[c] IN
    /\ At(c, "user", "out")
    /\ pc' = [pc EXCEPT ![Base(p)] = operation]
    /\ UNCHANGED <<status, wakeup_on, vetos, Process_lock, on, kernel_task, esp0,
                   intr, iproc, spent, ph>>

-----------------------------------------------------------------------------
(* Sleeping and waking.                                                    *)

Process_SleepOn(c, alarm) ==
    LET p == on[c] IN
    /\ At(c, "sleep", "held")
    /\ wakeup_on' = [wakeup_on EXCEPT ![p] = alarm]
    /\ status' = [status EXCEPT ![p] = "ASLEEP"]
    /\ SCHEDULER_RETURN(c)
    /\ pc' = [pc EXCEPT ![Base(p)] = "woken"]
    /\ UNCHANGED <<vetos, Process_lock, kernel_task, esp0, intr, iproc, spent, ph>>

(* Back from SCHEDULER_RETURN; next is the caller's release of the lock.   *)
Process_Woken(c, label) ==
    LET p == on[c] IN
    /\ At(c, "woken", "held")
    /\ wakeup_on' = [wakeup_on EXCEPT ![p] = Null]
    /\ Move(Base(p), label, "done")
    /\ UNCHANGED <<status, vetos, Process_lock, on, kernel_task, esp0, intr, iproc,
                   spent>>

Sleepers_NotLast(alarm) ==
    {s \in 0 .. MaxProcs - 2 : status[s] = "ASLEEP" /\ wakeup_on[s] = alarm}
Sleepers(alarm) == {s \in Slots : status[s] = "ASLEEP" /\ wakeup_on[s] = alarm}

Scheduler_RaiseAlarm(c, alarm, label) ==
    LET p == on[c] IN
    /\ At(c, "alarm", "held")
    /\ status' = [s \in Slots |-> IF s \in Sleepers(alarm) THEN "RUNNABLE" ELSE status[s]]
    /\ wakeup_on' = [s \in Slots |-> IF s \in Sleepers(alarm) THEN Null ELSE wakeup_on[s]]
    /\ Move(Base(p), label, "done")
    /\ UNCHANGED <<vetos, Process_lock, on, kernel_task, esp0, intr, iproc, spent>>

-----------------------------------------------------------------------------
(* Scheduler_Initialize and the state each CPU enters Schedule() with, the *)
(* published slots having been through Process_Initialize.  Which CPUs run  *)
(* with interrupts enabled is left open.                                   *)
InitWith(published) ==
    /\ status = [s \in Slots |-> IF s \in published THEN "RUNNABLE" ELSE "IDLE"]
    /\ wakeup_on = [s \in Slots |-> Null]
    /\ vetos = [x \in Contexts |-> NewVetos]
    /\ Process_lock = FALSE
    /\ on = [c \in CPUs |-> c]
    /\ kernel_task = [s \in Slots |-> Null]
    /\ esp0 = [c \in CPUs |-> Null]
    /\ intr \in [CPUs -> BOOLEAN]
    /\ iproc = [c \in CPUs |-> 0]
    /\ spent = [s \in Slots |-> 0]
    /\ ph = [f \in Frames |-> IF f[2] = "intr" THEN "off"
                              ELSE IF f[1] \in Slots THEN NewPhase ELSE "out"]
    /\ pc = [f \in Frames |-> IF f[1] \in Slots THEN NewLabel ELSE "schedule"]

Init == \E published \in SUBSET Slots : InitWith(published)

(* The steps every kernel client of the scheduler shares; labels are the   *)
(* points at which its code acquires the process lock.                     *)
CPUStep(c, labels) ==
    \/ SpinEnter(c, labels)
    \/ SpinTake(c)
    \/ SpinDrop(c)
    \/ SpinLeave(c)
    \/ Dispatch(c)
    \/ PassOver(c)
    \/ \E ticks \in {0, 1} : Interrupt(c, ticks)
    \/ Process_Preempt(c)
    \/ Iret(c)
    \/ Interrupt_Return(c)

Next == \E c \in CPUs :
    \/ CPUStep(c, {"schedule", "preempt", "sleep", "alarm"})
    \/ \E operation \in {"sleep", "alarm"} : SysCall(c, operation)
    \/ \E alarm \in Alarms : \/ Process_SleepOn(c, alarm)
                             \/ Scheduler_RaiseAlarm(c, alarm, "return")
    \/ Process_Woken(c, "return")

Spec == Init /\ [][Next]_vars

-----------------------------------------------------------------------------
(* Properties                                                              *)

Holds(x) == \E l \in {"base", "intr"} : ph[<<x, l>>] \in {"held", "done"}

(* Every variable has its type; base frames exist for ever, base threads   *)
(* are never interrupted into Process_Preempt, and a CPU's own thread is   *)
(* always at Schedule().                                                   *)
TypeOK ==
    /\ status \in [Slots -> Status]
    /\ wakeup_on \in [Slots -> Alarms \cup {Null}]
    /\ vetos \in [Contexts -> 0 .. VetoSize - 1]
    /\ Process_lock \in BOOLEAN
    /\ on \in [CPUs -> Contexts]
    /\ kernel_task \in [Slots -> CPUs \cup {Null}]
    /\ esp0 \in [CPUs -> Slots \cup {Null}]
    /\ intr \in [CPUs -> BOOLEAN]
    /\ iproc \in [CPUs -> Slots]
    /\ spent \in [Slots -> 0 .. RunTime + 1]
    /\ ph \in [Frames -> Phases]
    /\ pc \in [Frames -> Labels]
    /\ \A x \in Contexts : ph[Base(x)] # "off"
    /\ \A x \in CPUs : ph[Intr(x)] = "off" /\ pc[Base(x)] = "schedule"

(* The hand-over of Process_lock across KContext_Switch (Schedule(),       *)
(* Process_SleepOn, Process_Preempt, Process_FirstEntryToUserSpace): the   *)
(* flag is set exactly while one executing context is between its acquire  *)
(* and its release, and never two.                                         *)
LockHandover ==
    /\ Process_lock <=> \E c \in CPUs : Holds(on[c])
    /\ \A c, d \in CPUs : Holds(on[c]) /\ Holds(on[d]) => c = d

(* No stack is executed by two CPUs at once, and a slot is RUNNING exactly *)
(* while some CPU executes it (Schedule() picks only RUNNABLE slots).      *)
OneCPUPerContext ==
    /\ \A c, d \in CPUs : on[c] = on[d] => c = d
    /\ \A s \in Slots : status[s] = "RUNNING" <=> \E c \in CPUs : on[c] = s

(* A process that moves between CPUs returns to the scheduler thread of    *)
(* the CPU it is on, reads that CPU's timer, and traps onto its own stack  *)
(* (Context_SetupProcess, SCHEDULER_RETURN).                               *)
HomeCPU ==
    \A c \in CPUs :
        /\ on[c] \in CPUs => on[c] = c
        /\ on[c] \in Slots => kernel_task[on[c]] = c /\ esp0[c] = on[c]

(* Whatever Schedule() may switch to was left inside a critical section of *)
(* Process_lock, so that the lock Schedule() took is released by it; and   *)
(* the scheduler thread of a CPU that runs a process waits to release too. *)
ParkedInCriticalSection ==
    /\ \A s \in Slots : status[s] \in {"RUNNABLE", "ASLEEP"} => ph[Top(s)] \in {"held", "done"}
    /\ \A c \in CPUs : on[c] \in Slots => ph[Base(c)] = "done"

(* Frames that have taken a veto of Process_lock and not given it back.    *)
VetoesTaken(x) ==
    Cardinality({l \in {"base", "intr"} : ph[<<x, l>>] \in {"spin", "held", "done", "freed"}})

(* The veto count of a scheduler thread is the number of spin locks it is  *)
(* acquiring, holding or releasing; that of a process is one less, modulo  *)
(* the width of the counter, because Process_FirstEntryToUserSpace gives   *)
(* back a veto its stack never took.                                       *)
VetoBalance ==
    /\ \A c \in CPUs : vetos[c] = VetoesTaken(c) % VetoSize
    /\ \A s \in Slots : vetos[s] = (VetoesTaken(s) + VetoSize - 1) % VetoSize

Current == [c \in CPUs |-> IF on[c] \in Slots THEN on[c] ELSE Null]
Table == INSTANCE ProcessTable WITH current <- Current

(* The process table behaves as ProcessTable says: every step of every CPU *)
(* is one step of a slot's life cycle or changes nothing in the table.     *)
TableSpec == Table!Spec
=============================================================================
