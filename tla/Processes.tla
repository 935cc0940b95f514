----------------------------- MODULE Processes -----------------------------
(***************************************************************************)
(* The life of processes on top of the scheduler: Process_Fork with        *)
(* Scheduler_Book, Process_Wait and Process_Terminate                      *)
(* (src/kernel/core/taskmaster/src/process.c and scheduler.c), the family  *)
(* tree they keep in child/sibling/num_children, and the kernel stacks     *)
(* they take from and give back to the page allocator.                     *)
(*                                                                         *)
(* No system call handler is registered in the repository, so the way user *)
(* code reaches these functions is external: a process in user mode makes  *)
(* any of the three calls.  The allocator is seen through its two calls:   *)
(* Page_Acquire hands out a free stack or fails, and when it fails it      *)
(* returns with Page_operation_lock held and interrupts disabled, so that  *)
(* the Page_Release on the caller's error path spins for ever.             *)
(*                                                                         *)
(* struct State lives at the top of a kernel stack.  Scheduler keys its    *)
(* fields by slot; here the one that outlives its owner, State.process, is *)
(* keyed by the stack, because Process_Terminate gives the stack it runs   *)
(* on back to the allocator: until the process has left the CPU, another   *)
(* CPU's Process_Initialize can be given that stack and write a new State  *)
(* under it.  The old process then saves its context into the new one      *)
(* (SCHEDULER_RETURN goes through State.process).  The model follows this  *)
(* up to the moment a CPU resumes a process in the frames of a dead one,   *)
(* and ends there (Wild): what such a CPU executes next is not modelled.   *)
(***************************************************************************)
EXTENDS Scheduler, FiniteSetsExt

CONSTANTS Stacks,   \* the kernel stacks the page allocator can supply
          MaxPid    \* bound: no fork is started once Process_next_pid exceeds it

ASSUME MaxPidAssumption == MaxPid \in Nat

VARIABLES id, parent, child, sibling, num_children,   \* fields of struct Process
          kernel_stack,                               \* kernel_stack.base
          task_context,  \* the slot whose frames Process.task_context points into
          process,       \* State.process of every kernel stack
          Process_next_pid,
          forked,        \* Process_Fork's local forked_proc
          free_stacks,   \* what Page_Acquire can still return
          page_lock      \* Page_operation_lock left held by a failed Page_Acquire

family == <<parent, child, sibling, num_children>>
memory == <<kernel_stack, process, free_stacks, page_lock>>
own == <<id, family, memory, Process_next_pid, forked>>
allvars == <<vars, own, task_context>>

-----------------------------------------------------------------------------
(* Process_Fork.                                                           *)

Idle_OrBooked == {s \in Slots : status[s] \in {"IDLE", "BOOKED"}}
Idle == {s \in Slots : status[s] = "IDLE"}

NextPid(pid) == pid + 1

(* Scheduler_Book: one pass of its loop under the lock.                    *)
Scheduler_Book(c) ==
    LET p == on[c] IN
    /\ At(c, "book", "held")
    /\ IF Idle = {}
       THEN /\ Move(Base(p), "book", "done")
            /\ UNCHANGED <<status, id, Process_next_pid, forked>>
       ELSE LET s == Min(Idle) IN
            /\ status' = [status EXCEPT ![s] = "BOOKED"]
            /\ id' = [id EXCEPT ![s] = Process_next_pid]
            /\ Process_next_pid' = NextPid(Process_next_pid)
            /\ forked' = [forked EXCEPT ![p] = s]
            /\ Move(Base(p), "initialize", "done")
    /\ UNCHANGED <<wakeup_on, vetos, Process_lock, on, kernel_task, esp0, intr,
                   iproc, spent, family, memory>>

(* External: what Page_Acquire and Page_Release do with a kernel stack.    *)
TakeStack_StillFree(f, k) == /\ kernel_stack' = [kernel_stack EXCEPT ![f] = k]
                             /\ UNCHANGED free_stacks
TakeStack(f, k) == /\ kernel_stack' = [kernel_stack EXCEPT ![f] = k]
                   /\ free_stacks' = free_stacks \ {k}
GiveStack(p) == free_stacks' = free_stacks \cup {kernel_stack[p]}

(* The State at the top of stack k is written for f: a process that is     *)
(* still executing on k reads the new fields from now on.                  *)
State_Initialize(f, k) ==
    /\ process' = [process EXCEPT ![k] = f]
    /\ vetos' = [x \in Contexts |-> IF x = f \/ (x \in Slots /\ kernel_stack[x] = k)
                                   THEN NewVetos ELSE vetos[x]]

Context_Initialize(f) ==
    /\ task_context' = [task_context EXCEPT ![f] = f]
    /\ ph' = [ph EXCEPT ![Base(f)] = NewPhase, ![Intr(f)] = "off"]

(* Process_Initialize (stack, State_Initialize, Context_Initialize and     *)
(* Paging_Initialize) and Paging_Clone, all pages obtained.                *)
Process_Initialize(c) ==
    LET p == on[c]
        f == forked[p] IN
    /\ At(c, "initialize", "out")
    /\ ~page_lock
    /\ \E k \in free_stacks : TakeStack(f, k) /\ State_Initialize(f, k)
    /\ Context_Initialize(f)
    /\ pc' = [pc EXCEPT ![Base(f)] = NewLabel, ![Base(p)] = "link"]
    /\ UNCHANGED <<status, wakeup_on, Process_lock, on, kernel_task, esp0, intr,
                   iproc, spent, id, family, page_lock, Process_next_pid, forked>>

(* One of the Page_Acquire calls fails.  It returns without releasing      *)
(* Page_operation_lock, and the first thing every error path does is a     *)
(* Page_Release: the CPU spins there with interrupts disabled.             *)
Page_Acquire_Fails(c) ==
    LET p == on[c] IN
    /\ At(c, "initialize", "out")
    /\ ~page_lock
    /\ page_lock' = TRUE
    /\ intr' = [intr EXCEPT ![c] = FALSE]
    /\ pc' = [pc EXCEPT ![Base(p)] = "page_spin"]
    /\ UNCHANGED <<status, wakeup_on, vetos, Process_lock, on, kernel_task, esp0,
                   iproc, spent, ph, id, family, kernel_stack, process, free_stacks,
                   Process_next_pid, forked>>

NewHead_StaleChild(p, f) == child' = [child EXCEPT ![p] = f]
NewHead(p, f) == child' = [child EXCEPT ![f] = Null, ![p] = f]

(* The child is put in front of the parent's list, without the lock.       *)
Process_Link(c) ==
    LET p == on[c]
        f == forked[p] IN
    /\ At(c, "link", "out")
    /\ parent' = [parent EXCEPT ![f] = p]
    /\ sibling' = [sibling EXCEPT ![f] = child[p]]
    /\ NewHead(p, f)
    /\ num_children' = [num_children EXCEPT ![f] = 0, ![p] = @ + 1]
    /\ pc' = [pc EXCEPT ![Base(p)] = "publish"]
    /\ UNCHANGED <<status, wakeup_on, vetos, Process_lock, on, kernel_task, esp0,
                   intr, iproc, spent, ph, id, memory, Process_next_pid, forked>>

Process_Publish(c) ==
    LET p == on[c] IN
    /\ At(c, "publish", "held")
    /\ status' = [status EXCEPT ![forked[p]] = "RUNNABLE"]
    /\ forked' = [forked EXCEPT ![p] = Null]
    /\ Move(Base(p), "return", "done")
    /\ UNCHANGED <<wakeup_on, vetos, Process_lock, on, kernel_task, esp0, intr,
                   iproc, spent, id, family, memory, Process_next_pid>>

-----------------------------------------------------------------------------
(* Process_Wait: one round of its loop under the lock.                     *)

(* Kid(p)[n]: the n-th element of p's list of children, Null past its end. *)
Kid(p) ==
    LET kid[n \in 0 .. MaxProcs] ==
            IF n = 0 THEN child[p]
            ELSE IF kid[n - 1] = Null THEN Null ELSE sibling[kid[n - 1]]
    IN  kid

Dead(s) == s # Null /\ status[s] = "DEAD"
DeadKids(p) == {n \in 0 .. MaxProcs : Dead(Kid(p)[n])}

WaitNoChild(c) ==
    LET p == on[c] IN
    /\ At(c, "wait", "held")
    /\ num_children[p] = 0
    /\ Move(Base(p), "return", "done")
    /\ UNCHANGED <<status, wakeup_on, vetos, Process_lock, on, kernel_task, esp0,
                   intr, iproc, spent, own>>

(* The n-th child s of p leaves p's list.                                  *)
Unlink_Omitted(p, n, s) == UNCHANGED <<num_children, child, sibling>>
Unlink(p, n, s) ==
    /\ num_children' = [num_children EXCEPT ![p] = @ - 1]
    /\ IF n = 0
       THEN child' = [child EXCEPT ![p] = sibling[s]] /\ UNCHANGED sibling
       ELSE sibling' = [sibling EXCEPT ![Kid(p)[n - 1]] = sibling[s]] /\ UNCHANGED child

(* The first dead child on the list becomes IDLE.  Only if it is the head  *)
(* does the function return; the break after a sibling leaves the inner    *)
(* loop alone, and the caller goes to sleep all the same.                  *)
WaitReap(c) ==
    LET p == on[c]
        n == Min(DeadKids(p))
        s == Kid(p)[n] IN
    /\ At(c, "wait", "held")
    /\ num_children[p] # 0 /\ DeadKids(p) # {}
    /\ status' = [status EXCEPT ![s] = "IDLE"]
    /\ Unlink(p, n, s)
    /\ IF n = 0 THEN Move(Base(p), "return", "done")
                ELSE Move(Base(p), "wait_sleep", "held")
    /\ UNCHANGED <<wakeup_on, vetos, Process_lock, on, kernel_task, esp0, intr,
                   iproc, spent, id, parent, memory, Process_next_pid, forked>>

WaitSleep(c) ==
    LET p == on[c] IN
    /\ \/ At(c, "wait_sleep", "held")
       \/ At(c, "wait", "held") /\ num_children[p] # 0 /\ DeadKids(p) = {}
    /\ status' = [status EXCEPT ![p] = "ASLEEP"]
    /\ SCHEDULER_RETURN(c)
    /\ pc' = [pc EXCEPT ![Base(p)] = "wait"]
    /\ UNCHANGED <<wakeup_on, vetos, Process_lock, kernel_task, esp0, intr, iproc,
                   spent, ph, own>>

-----------------------------------------------------------------------------
(* Process_Terminate, called by a process for itself under the lock.  Its  *)
(* children lose their parent but stay where they are; the address space   *)
(* and the kernel stack it runs on go back to the allocator, which takes   *)
(* its own lock and no other, while the process is still RUNNING.          *)
Process_Terminate(c) ==
    LET p == on[c] IN
    /\ At(c, "exit", "held")
    /\ ~page_lock
    /\ parent' = [s \in Slots |-> IF \E n \in 0 .. MaxProcs : Kid(p)[n] = s
                                  THEN Null ELSE parent[s]]
    /\ GiveStack(p)
    /\ pc' = [pc EXCEPT ![Base(p)] = "bury"]
    /\ UNCHANGED <<status, wakeup_on, vetos, Process_lock, on, kernel_task, esp0, intr,
                   iproc, spent, ph, id, child, sibling, num_children,
                   kernel_stack, process, page_lock, Process_next_pid, forked>>

(* Its last assignment.                                                    *)
Process_Bury(c) ==
    LET p == on[c] IN
    /\ At(c, "bury", "held")
    /\ status' = [status EXCEPT ![p] = "DEAD"]
    /\ pc' = [pc EXCEPT ![Base(p)] = "leave"]
    /\ UNCHANGED <<wakeup_on, vetos, Process_lock, on, kernel_task, esp0, intr,
                   iproc, spent, ph, own>>

(* External: the caller of Process_Terminate gives the CPU up for good.    *)
Leave(c) ==
    /\ At(c, "leave", "held")
    /\ SCHEDULER_RETURN(c)
    /\ UNCHANGED <<status, wakeup_on, vetos, Process_lock, kernel_task, esp0, intr,
                   iproc, spent, ph, pc, own>>

-----------------------------------------------------------------------------
(* KContext_Switch of a process that leaves its CPU: the stack pointer is  *)
(* stored in the task_context of the process its State names.              *)
SavesContext(c) ==
    LET p == on[c] IN
    task_context' = IF p \in Slots /\ on'[c] # p
                    THEN [task_context EXCEPT ![process[kernel_stack[p]]] = p]
                    ELSE task_context

(* A CPU has resumed a process in the frames of another one.               *)
Wild == \E c \in CPUs : on[c] \in Slots /\ task_context[on[c]] # on[c]

-----------------------------------------------------------------------------
(* The first process, created outside the repository's code, has been      *)
(* booked, initialized and published in slot 0.                            *)
ProcInit ==
    /\ InitWith({0})
    /\ id = [s \in Slots |-> IF s = 0 THEN 1 ELSE 0]
    /\ parent = [s \in Slots |-> Null]
    /\ child = [s \in Slots |-> Null]
    /\ sibling = [s \in Slots |-> Null]
    /\ num_children = [s \in Slots |-> 0]
    /\ \E k \in Stacks : /\ kernel_stack = [s \in Slots |-> IF s = 0 THEN k ELSE Null]
                         /\ process = [j \in Stacks |-> IF j = k THEN 0 ELSE Null]
                         /\ free_stacks = Stacks \ {k}
    /\ task_context = [s \in Slots |-> s]
    /\ Process_next_pid = 2
    /\ forked = [s \in Slots |-> Null]
    /\ page_lock = FALSE

LockPoints == {"schedule", "preempt", "book", "publish", "wait", "exit"}

ProcStep(c) ==
    \/ CPUStep(c, LockPoints) /\ UNCHANGED own
    \/ Process_next_pid <= MaxPid /\ SysCall(c, "book") /\ UNCHANGED own
    \/ \E operation \in {"wait", "exit"} : SysCall(c, operation) /\ UNCHANGED own
    \/ Scheduler_Book(c)
    \/ Page_Acquire_Fails(c)
    \/ Process_Link(c)
    \/ Process_Publish(c)
    \/ WaitNoChild(c)
    \/ WaitReap(c)
    \/ WaitSleep(c)
    \/ Process_Terminate(c)
    \/ Process_Bury(c)
    \/ Leave(c)

ProcNext == ~Wild /\ \E c \in CPUs : \/ Process_Initialize(c)
                                     \/ ProcStep(c) /\ SavesContext(c)

ProcSpec == ProcInit /\ [][ProcNext]_allvars

-----------------------------------------------------------------------------
(* Properties                                                              *)

(* Every variable of this module has its type.                             *)
ProcTypeOK ==
    /\ TypeOK
    /\ id \in [Slots -> Nat] /\ Process_next_pid \in Nat
    /\ {parent, child, sibling, forked} \subseteq [Slots -> Slots \cup {Null}]
    /\ task_context \in [Slots -> Slots]
    /\ process \in [Stacks -> Slots \cup {Null}]
    /\ num_children \in [Slots -> 0 .. MaxProcs]
    /\ kernel_stack \in [Slots -> Stacks \cup {Null}]
    /\ free_stacks \in SUBSET Stacks
    /\ page_lock \in BOOLEAN

Alive == {s \in Slots : status[s] \in {"RUNNABLE", "RUNNING", "ASLEEP"}}

(* Process_Terminate has given the stack of s back and s is not DEAD yet.  *)
Dying(s) == pc[Base(s)] = "bury"

(* Scheduler_Book gives a slot to one caller: a slot is BOOKED exactly     *)
(* while one live process is between booking it and publishing it, however *)
(* forks on several CPUs interleave with each other and with Process_Wait. *)
BookedExclusive ==
    \A s \in Slots :
        (status[s] = "BOOKED") <=> Cardinality({p \in Alive : forked[p] = s}) = 1

(* The list a live process walks in Process_Wait and Process_Terminate has *)
(* num_children elements, ends, and holds only slots that are still in use *)
(* and know this process as their parent.                                  *)
FamilyTree ==
    \A p \in Alive :
        LET kids == {Kid(p)[n] : n \in 0 .. MaxProcs} \ {Null} IN
        ~Dying(p) =>
            /\ Kid(p)[MaxProcs] = Null
            /\ Cardinality(kids) = num_children[p]
            /\ \A k \in kids : parent[k] = p /\ status[k] # "IDLE"

(* Two live processes never share a kernel stack, not even while one of    *)
(* them is between the Page_Release of its stack and its death: the fork   *)
(* that is given the stack needs Process_lock to publish its process.      *)
(* Until its owner has released it, a live process's stack is not on offer *)
(* to Process_Initialize and the State on it is the owner's.               *)
StackExclusive ==
    \A s \in Alive :
        /\ \A t \in Alive \ {s} : kernel_stack[t] # kernel_stack[s]
        /\ ~Dying(s) => /\ kernel_stack[s] \in Stacks \ free_stacks
                        /\ process[kernel_stack[s]] = s

(* A dead process is reclaimed only by the parent that forked it, never by *)
(* a process that inherited a stale list (Process_Wait after slot reuse):  *)
(* the CPU whose Process_Wait moves on in this step executes the parent.   *)
ReapedByParent ==
    [][\A s \in Slots : status[s] = "DEAD" /\ status'[s] = "IDLE" =>
          \E c \in CPUs : /\ on[c] = parent[s] /\ At(c, "wait", "held")
                          /\ ~At(c, "wait", "held")']_allvars
=============================================================================
