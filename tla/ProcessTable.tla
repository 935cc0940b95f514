--------------------------- MODULE ProcessTable ---------------------------
(***************************************************************************)
(* What the taskmaster promises about the process table                    *)
(* (src/kernel/core/taskmaster): a slot goes round the life cycle          *)
(*                                                                         *)
(*   IDLE -> BOOKED -> RUNNABLE <-> RUNNING -> ASLEEP -> RUNNABLE          *)
(*                                  RUNNING -> DEAD   -> IDLE              *)
(*                                                                         *)
(* one atomic step at a time, and a CPU executes a slot only between the   *)
(* step that makes it RUNNING and the step that suspends or buries it.     *)
(* There are no locks, stacks or interrupts here: the detailed module      *)
(* Scheduler is shown to implement this one.                               *)
(***************************************************************************)
CONSTANTS CPUs,     \* the processors that run Schedule()
          Slots,    \* indices of Scheduler_processes[]
          Null      \* PROCESS_NULL, "no process"

VARIABLES status,   \* status of every slot
          current   \* current[c]: the slot CPU c executes, or Null

vars == <<status, current>>

Status == {"IDLE", "BOOKED", "RUNNABLE", "RUNNING", "ASLEEP", "DEAD"}

Init == /\ status \in [Slots -> {"IDLE", "RUNNABLE"}]
        /\ current = [c \in CPUs |-> Null]

Dispatch(c, s) == /\ current[c] = Null
                  /\ status[s] = "RUNNABLE"
                  /\ status' = [status EXCEPT ![s] = "RUNNING"]
                  /\ current' = [current EXCEPT ![c] = s]

(* The process gives its CPU up: preempted (RUNNABLE) or going to sleep.   *)
Suspend(c, s) == /\ current[c] = s
                 /\ status[s] = "RUNNING"
                 /\ \E st \in {"RUNNABLE", "ASLEEP"} :
                       status' = [status EXCEPT ![s] = st]
                 /\ current' = [current EXCEPT ![c] = Null]

Wake(S) == /\ \A s \in S : status[s] = "ASLEEP"
           /\ status' = [s \in Slots |-> IF s \in S THEN "RUNNABLE" ELSE status[s]]
           /\ UNCHANGED current

Book(s) == /\ status[s] = "IDLE"
           /\ status' = [status EXCEPT ![s] = "BOOKED"]
           /\ UNCHANGED current

Publish(s) == /\ status[s] = "BOOKED"
              /\ status' = [status EXCEPT ![s] = "RUNNABLE"]
              /\ UNCHANGED current

Die(c, s) == /\ current[c] = s
             /\ status[s] = "RUNNING"
             /\ status' = [status EXCEPT ![s] = "DEAD"]
             /\ UNCHANGED current

(* A dead process leaves the CPU it died on.                               *)
Leave(c, s) == /\ current[c] = s
               /\ status[s] = "DEAD"
               /\ current' = [current EXCEPT ![c] = Null]
               /\ UNCHANGED status

(* Only a corpse that no CPU executes any more is reclaimed.               *)
Reap(s) == /\ status[s] = "DEAD"
           /\ \A c \in CPUs : current[c] # s
           /\ status' = [status EXCEPT ![s] = "IDLE"]
           /\ UNCHANGED current

Next == \/ \E c \in CPUs, s \in Slots : \/ Dispatch(c, s)
                                        \/ Suspend(c, s)
                                        \/ Die(c, s)
                                        \/ Leave(c, s)
        \/ \E S \in SUBSET Slots : Wake(S)
        \/ \E s \in Slots : Book(s) \/ Publish(s) \/ Reap(s)

Spec == Init /\ [][Next]_vars
=============================================================================
