------------------------------- MODULE Timer -------------------------------
(***************************************************************************)
(* The tick counters of src/kernel/core/timer and the busy wait built on   *)
(* the one of the PIT (src/kernel/devices/pit).                            *)
(*                                                                         *)
(* One interrupt handler increments the timer: seq_counter to an odd       *)
(* value, ticks, seq_counter to an even value, each an atomic step that    *)
(* any CPU may see (the 64-bit accesses to ticks are single instructions). *)
(* Readers are the threads in PIT_Delay; every load of Timer_GetTicks is a *)
(* step.  The handler runs on one CPU with interrupts off, so increments   *)
(* do not overlap.  The sequence is a size_t and wraps at SeqSize (2^32 in *)
(* the code); ticks is a clock_t and wraps at TickSize (2^64); a delay is  *)
(* a uint32_t, so any count below SeqSize.                                 *)
(***************************************************************************)
EXTENDS Integers

CONSTANTS Readers,      \* threads that call PIT_Delay
          Delays,       \* the arguments they call it with
          SeqSize,      \* values of a size_t, and of a uint32_t
          TickSize,     \* values of a clock_t
          MaxOverlap    \* bound: increments that begin during one Timer_GetTicks

ASSUME SizeAssumption == /\ {SeqSize, TickSize} \subseteq Nat
                         /\ SeqSize % 2 = 0 /\ 2 * SeqSize <= TickSize
ASSUME OverlapAssumption == MaxOverlap \in Nat \ {0} /\ 2 * MaxOverlap < SeqSize
ASSUME DelayAssumption == Delays \subseteq 0 .. SeqSize - 1

VARIABLES seq_counter, ticks,    \* struct Timer
          wpc,                   \* where the interrupt handler is
          pc,                    \* where each reader is
          tickseq0, value,       \* Timer_GetTicks's locals
          iticks, delay,         \* PIT_Delay's local and argument
          first,                 \* the call of Timer_GetTicks that sets iticks
          seen,                  \* ticks at the load of tickseq0
          passed,                \* ticks counted since the load that set iticks
          overlap                \* increments begun since the last accepted read

readers == <<pc, tickseq0, value, iticks, delay, first, seen>>
vars == <<seq_counter, ticks, wpc, readers, passed, overlap>>

(* atomic_fetch_add on a counter that wraps.                               *)
Bump(n, size) == (n + 1) % size

-----------------------------------------------------------------------------
(* Timer_Increment, called by PIT_HandleInterrupt.                         *)

OpenIncrement ==
    /\ wpc = "idle"
    /\ \A r \in Readers : overlap[r] < MaxOverlap
    /\ seq_counter' = Bump(seq_counter, SeqSize)
    /\ overlap' = [r \in Readers |-> IF pc[r] = "idle" THEN 0 ELSE overlap[r] + 1]
    /\ wpc' = "ticks"
    /\ UNCHANGED <<ticks, readers, passed>>

CountTick ==
    /\ wpc = "ticks"
    /\ ticks' = Bump(ticks, TickSize)
    /\ passed' = [r \in Readers |-> IF passed[r] < TickSize THEN passed[r] + 1 ELSE TickSize]
    /\ wpc' = "close"
    /\ UNCHANGED <<seq_counter, readers, overlap>>

Close_Omitted(seq) == seq
Close(seq) == Bump(seq, SeqSize)

CloseIncrement ==
    /\ wpc = "close"
    /\ seq_counter' = Close(seq_counter)
    /\ wpc' = "idle"
    /\ UNCHANGED <<ticks, readers, passed, overlap>>

-----------------------------------------------------------------------------
(* Timer_GetTicks: three loads, and the test of the loop.                  *)

LoadSeq0(r) ==
    /\ pc[r] = "seq0"
    /\ tickseq0' = [tickseq0 EXCEPT ![r] = seq_counter]
    /\ seen' = [seen EXCEPT ![r] = ticks]
    /\ pc' = [pc EXCEPT ![r] = "ticks"]
    /\ UNCHANGED <<seq_counter, ticks, wpc, value, iticks, delay, first, passed, overlap>>

LoadTicks(r) ==
    /\ pc[r] = "ticks"
    /\ value' = [value EXCEPT ![r] = ticks]
    /\ passed' = [passed EXCEPT ![r] = IF first[r] THEN 0 ELSE @]
    /\ pc' = [pc EXCEPT ![r] = "seq1"]
    /\ UNCHANGED <<seq_counter, ticks, wpc, tickseq0, iticks, delay, first, seen, overlap>>

Accept_EvenOnly(seq0, seq1) == seq0 % 2 = 0
Accept(seq0, seq1) == seq0 = seq1 /\ seq0 % 2 = 0

LoadSeq1(r) ==
    /\ pc[r] = "seq1"
    /\ IF Accept(tickseq0[r], seq_counter)
       THEN /\ pc' = [pc EXCEPT ![r] = "got"]
            /\ overlap' = [overlap EXCEPT ![r] = 0]
       ELSE /\ pc' = [pc EXCEPT ![r] = "seq0"]
            /\ UNCHANGED overlap
    /\ UNCHANGED <<seq_counter, ticks, wpc, tickseq0, value, iticks, delay, first, seen, passed>>

-----------------------------------------------------------------------------
(* PIT_Delay.                                                              *)

PIT_Delay(r, d) ==
    /\ pc[r] = "idle"
    /\ pc' = [pc EXCEPT ![r] = "seq0"]
    /\ delay' = [delay EXCEPT ![r] = d]
    /\ first' = [first EXCEPT ![r] = TRUE]
    /\ overlap' = [overlap EXCEPT ![r] = 0]
    /\ UNCHANGED <<seq_counter, ticks, wpc, tickseq0, value, iticks, seen, passed>>

StartsAt(r) ==
    /\ pc[r] = "got" /\ first[r]
    /\ iticks' = [iticks EXCEPT ![r] = value[r]]
    /\ first' = [first EXCEPT ![r] = FALSE]
    /\ pc' = [pc EXCEPT ![r] = "seq0"]
    /\ UNCHANGED <<seq_counter, ticks, wpc, tickseq0, value, delay, seen, passed, overlap>>

(* The subtraction of clock_t counts wraps; delay is widened to compare.   *)
Waits_OneLess(now, start, d) == (now - start) % TickSize < d
Waits(now, start, d) == (now - start) % TickSize <= d

Polls(r) ==
    /\ pc[r] = "got" /\ ~first[r]
    /\ pc' = [pc EXCEPT ![r] = IF Waits(value[r], iticks[r], delay[r]) THEN "seq0" ELSE "done"]
    /\ UNCHANGED <<seq_counter, ticks, wpc, tickseq0, value, iticks, delay, first, seen,
                   passed, overlap>>

Returns(r) ==
    /\ pc[r] = "done"
    /\ pc' = [pc EXCEPT ![r] = "idle"]
    /\ overlap' = [overlap EXCEPT ![r] = 0]
    /\ UNCHANGED <<seq_counter, ticks, wpc, tickseq0, value, iticks, delay, first, seen,
                   passed>>

-----------------------------------------------------------------------------
(* PIT_Initialize has run: PIT_Set cleared the counters.  The line was     *)
(* enabled before, so an interrupt may have fallen between PIT_Set's two   *)
(* assignments and left the sequence at 2.                                 *)
Init ==
    /\ seq_counter \in {0, 2 % SeqSize}
    /\ ticks = 0
    /\ wpc = "idle"
    /\ pc = [r \in Readers |-> "idle"]
    /\ tickseq0 = [r \in Readers |-> 0]
    /\ value = [r \in Readers |-> 0]
    /\ iticks = [r \in Readers |-> 0]
    /\ delay = [r \in Readers |-> 0]
    /\ first = [r \in Readers |-> TRUE]
    /\ seen = [r \in Readers |-> 0]
    /\ passed = [r \in Readers |-> 0]
    /\ overlap = [r \in Readers |-> 0]

Timer_Increment == OpenIncrement \/ CountTick \/ CloseIncrement

Reads(r) == LoadSeq0(r) \/ LoadTicks(r) \/ LoadSeq1(r) \/ StartsAt(r) \/ Polls(r) \/ Returns(r)

Next == \/ Timer_Increment
        \/ \E r \in Readers : Reads(r) \/ \E d \in Delays : PIT_Delay(r, d)

Spec == Init /\ [][Next]_vars

(* The PIT keeps interrupting, and a reader keeps executing its loop.      *)
FairSpec == /\ Spec
            /\ WF_vars(Timer_Increment)
            /\ \A r \in Readers : WF_vars(Reads(r))

-----------------------------------------------------------------------------
(* Properties                                                              *)

(* Timer_GetTicks returns a count that stood for the whole of its last     *)
(* round: no increment was half done at the first load or since, even when *)
(* the sequence wraps.                                                     *)
SettledRead == \A r \in Readers : pc[r] = "got" => value[r] = seen[r]

(* PIT_Delay(d) returns after more than d ticks, so never before d whole   *)
(* periods of the PIT, for every d the argument can hold and wherever in a *)
(* period the call falls.                                                  *)
DelayLongEnough == \A r \in Readers : pc[r] = "done" => passed[r] > delay[r]

(* PIT_Delay returns, as long as the PIT interrupts.                       *)
DelayEnds == \A r \in Readers : pc[r] # "idle" ~> pc[r] = "idle"
=============================================================================
