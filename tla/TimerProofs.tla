---------------------------- MODULE TimerProofs ----------------------------
(***************************************************************************)
(* Proofs, for every width of the sequence and of the ticks, any number of *)
(* readers and every delay that fits its argument, that Timer_GetTicks     *)
(* returns a settled count and PIT_Delay waits long enough.                *)
(***************************************************************************)
EXTENDS Timer, TLAPS

USE SizeAssumption, OverlapAssumption

Counter(size) == 0 .. size - 1
Seqs == Counter(SeqSize)
Ticks == Counter(TickSize)

(* How far a counter has run from b to a.                                  *)
Distance(a, b, size) == IF a >= b THEN a - b ELSE a - b + size
SeqDistance(a, b) == Distance(a, b, SeqSize)
TickDistance(a, b) == Distance(a, b, TickSize)

Points == {"idle", "seq0", "ticks", "seq1", "got", "done"}
Even(n) == n % 2 = 0

Types ==
    /\ seq_counter \in Seqs /\ ticks \in Ticks
    /\ wpc \in {"idle", "ticks", "close"}
    /\ pc \in [Readers -> Points]
    /\ tickseq0 \in [Readers -> Seqs] /\ value \in [Readers -> Ticks]
    /\ iticks \in [Readers -> Ticks] /\ seen \in [Readers -> Ticks]
    /\ delay \in [Readers -> Nat]
    /\ first \in [Readers -> BOOLEAN]
    /\ passed \in [Readers -> 0 .. TickSize]
    /\ overlap \in [Readers -> 0 .. MaxOverlap]

(* The sequence is even exactly while no increment is under way.           *)
Parity == Even(seq_counter) <=> wpc = "idle"

(* A reader that has loaded an even sequence sees it again only if no      *)
(* increment began since: each one moves it by two, and too few can fit    *)
(* into a call for it to come round.                                       *)
Round(r) ==
    pc[r] \in {"ticks", "seq1"} /\ Even(tickseq0[r]) =>
        /\ SeqDistance(seq_counter, tickseq0[r]) <= 2 * overlap[r]
        /\ seq_counter = tickseq0[r] => ticks = seen[r] /\ (pc[r] = "seq1" => value[r] = seen[r])

Settled(r) == pc[r] = "got" => value[r] = seen[r]

(* The distance of ticks from the start of a delay is what has passed,     *)
(* until the counter has come round once.                                  *)
Elapsed(r) ==
    /\ pc[r] # "idle" => delay[r] \in Delays
    /\ first[r] /\ pc[r] \in {"seq1", "got"} => passed[r] = TickSize \/ TickDistance(ticks, value[r]) = passed[r]
    /\ pc[r] \notin {"idle", "done"} /\ ~first[r] => passed[r] = TickSize \/ TickDistance(ticks, iticks[r]) = passed[r]
    /\ ~first[r] /\ pc[r] \in {"seq1", "got"} => TickDistance(value[r], iticks[r]) <= passed[r]
    /\ pc[r] = "done" => passed[r] > delay[r]

TimerInv == /\ Types /\ Parity
            /\ \A r \in Readers : Round(r) /\ Settled(r) /\ Elapsed(r)

-----------------------------------------------------------------------------
(* Counting with wrap-around.                                              *)

(* An increment wraps at the width of the counter.                         *)
LEMMA BumpWraps ==
  ASSUME NEW size \in Nat \ {0}, NEW n \in Counter(size)
  PROVE  /\ Bump(n, size) = IF n = size - 1 THEN 0 ELSE n + 1
         /\ Bump(n, size) \in Counter(size)
BY DEF Bump, Counter

(* An increment changes the parity, because the width is even.             *)
LEMMA BumpParity == \A n \in Seqs : Even(Bump(n, SeqSize)) <=> ~Even(n)
<1>. TAKE n \in Seqs
<1>0. SeqSize \in Nat \ {0} /\ n \in Counter(SeqSize)
  BY DEF Seqs
<1>1. CASE n = SeqSize - 1
  <2>1. SeqSize \in Int /\ SeqSize % 2 = 0 /\ n = SeqSize - 1 /\ Bump(n, SeqSize) = 0
    BY <1>0, <1>1, BumpWraps
  <2>. QED  BY <2>1 DEF Even
<1>2. CASE n # SeqSize - 1
  <2>1. n \in Int /\ Bump(n, SeqSize) = n + 1
    BY <1>0, <1>2, BumpWraps DEF Counter
  <2>. QED  BY <2>1 DEF Even
<1>. QED  BY <1>1, <1>2

(* The unsigned subtraction of PIT_Delay is the distance.                  *)
LEMMA Subtraction == \A a, b \in Ticks : (a - b) % TickSize = TickDistance(a, b)
<1>. TAKE a, b \in Ticks
<1>. USE DEF Ticks, TickDistance
<1>1. CASE a >= b
  <2>1. a - b \in 0 .. TickSize - 1
    BY <1>1 DEF Counter
  <2>2. (a - b) % TickSize = a - b
    BY <2>1
  <2>. QED  BY <1>1, <2>2 DEF Distance
<1>2. CASE ~(a >= b)
  <2>1. a - b + TickSize \in 0 .. TickSize - 1 /\ a - b \in Int
    BY <1>2 DEF Counter
  <2>2. (a - b) % TickSize = a - b + TickSize
    <3>. DEFINE x == a - b
    <3>1. x \in Int /\ x + TickSize \in 0 .. TickSize - 1
      BY <2>1
    <3>. HIDE DEF x
    <3>2. x % TickSize = x + TickSize
      BY <3>1
    <3>. QED  BY <3>2 DEF x
  <2>. QED  BY <1>2, <2>2 DEF Distance
<1>. QED  BY <1>1, <1>2

(* One more increment is one more step of distance, or the full round.     *)
LEMMA DistanceGrows ==
  ASSUME NEW size \in Nat \ {0}, NEW a \in Counter(size), NEW b \in Counter(size)
  PROVE  /\ Bump(a, size) \in Counter(size)
         /\ Distance(a, b, size) \in 0 .. size - 1
         /\ Distance(a, b, size) = 0 <=> a = b
         /\ Distance(Bump(a, size), b, size) =
               IF Distance(a, b, size) = size - 1 THEN 0 ELSE Distance(a, b, size) + 1
<1>1. /\ a \in Int /\ b \in Int /\ size \in Int
      /\ 0 <= a /\ a < size /\ 0 <= b /\ b < size
  BY DEF Counter
<1>2. Bump(a, size) = IF a = size - 1 THEN 0 ELSE a + 1
  BY BumpWraps
<1>3. Distance(a, b, size) \in 0 .. size - 1 /\ (Distance(a, b, size) = 0 <=> a = b)
  BY <1>1 DEF Distance
<1>4. Distance(Bump(a, size), b, size) =
        IF Distance(a, b, size) = size - 1 THEN 0 ELSE Distance(a, b, size) + 1
  BY <1>1, <1>2 DEF Distance
<1>. QED  BY <1>3, <1>4, BumpWraps

(* The same for the sequence.                                              *)
LEMMA SeqGrows ==
  \A a, b \in Seqs :
      /\ Bump(a, SeqSize) \in Seqs
      /\ SeqDistance(a, b) \in 0 .. SeqSize - 1
      /\ SeqDistance(a, b) = 0 <=> a = b
      /\ SeqDistance(Bump(a, SeqSize), b) =
            IF SeqDistance(a, b) = SeqSize - 1 THEN 0 ELSE SeqDistance(a, b) + 1
<1>1. SeqSize \in Nat \ {0}
  OBVIOUS
<1>. QED  BY <1>1, DistanceGrows DEF Seqs, SeqDistance

(* The same for the ticks.                                                 *)
LEMMA TickGrows ==
  \A a, b \in Ticks :
      /\ Bump(a, TickSize) \in Ticks
      /\ TickDistance(a, b) \in 0 .. TickSize - 1
      /\ TickDistance(a, b) = 0 <=> a = b
      /\ TickDistance(Bump(a, TickSize), b) =
            IF TickDistance(a, b) = TickSize - 1 THEN 0 ELSE TickDistance(a, b) + 1
<1>1. TickSize \in Nat \ {0}
  OBVIOUS
<1>. QED  BY <1>1, DistanceGrows DEF Ticks, TickDistance

(* Values of the sequence of different parity are an odd distance apart.   *)
LEMMA DistanceParity ==
  \A a, b \in Seqs : Even(b) => (Even(SeqDistance(a, b)) <=> Even(a))
<1>. TAKE a, b \in Seqs
<1>. HAVE Even(b)
<1>1. a \in Int /\ b \in Int /\ SeqSize \in Int /\ SeqSize % 2 = 0 /\ b % 2 = 0
  BY DEF Seqs, Counter, Even
<1>. QED  BY <1>1 DEF SeqDistance, Distance, Even

-----------------------------------------------------------------------------
(* The handler's steps.                                                    *)

(* The first increment of the sequence moves it away from what readers     *)
(* loaded.                                                                 *)
LEMMA OpenInv == TimerInv /\ OpenIncrement => TimerInv'
<1>. SUFFICES ASSUME TimerInv, OpenIncrement PROVE TimerInv'
  OBVIOUS
<1>. USE DEF TimerInv, OpenIncrement, readers
<1>1. Types'
  <2>1. overlap' \in [Readers -> 0 .. MaxOverlap]
    BY DEF Types
  <2>. QED  BY <2>1, SeqGrows DEF Types
<1>2. Parity'
  BY BumpParity DEF Parity, Types
<1>3. ASSUME NEW r \in Readers PROVE Round(r)'
  <2>. SUFFICES ASSUME pc[r] \in {"ticks", "seq1"}, Even(tickseq0[r])
                PROVE  /\ SeqDistance(seq_counter', tickseq0[r]) <= 2 * overlap'[r]
                       /\ seq_counter' # tickseq0[r]
    BY DEF Round
  <2>. DEFINE d == SeqDistance(seq_counter, tickseq0[r])
  <2>0. d \in Int /\ 0 <= d /\ d <= 2 * overlap[r]
    BY <1>3, SeqGrows DEF Round, Types, Seqs
  <2>1. d \in Int /\ d <= 2 * overlap[r] /\ overlap[r] \in Int /\ overlap[r] < MaxOverlap
        /\ overlap'[r] = overlap[r] + 1 /\ 0 <= d
    BY <2>0 DEF Types
  <2>2. SeqDistance(seq_counter', tickseq0[r]) = IF d = SeqSize - 1 THEN 0 ELSE d + 1
    BY SeqGrows DEF Types
  <2>. HIDE DEF d
  <2>3. d + 1 < SeqSize
    BY <2>1
  <2>4. SeqDistance(seq_counter', tickseq0[r]) = d + 1
    BY <2>1, <2>2, <2>3
  <2>5. SeqDistance(seq_counter', tickseq0[r]) # 0
    BY <2>1, <2>4
  <2>6. seq_counter' \in Seqs /\ tickseq0[r] \in Seqs
    BY <1>1 DEF Types
  <2>7. seq_counter' # tickseq0[r]
    BY <2>5, <2>6, SeqGrows
  <2>8. d + 1 <= 2 * (overlap[r] + 1)
    BY <2>1
  <2>. QED  BY <2>1, <2>4, <2>7, <2>8
<1>4. \A r \in Readers : Settled(r)' /\ Elapsed(r)'
  BY DEF Settled, Elapsed
<1>. QED  BY <1>1, <1>2, <1>3, <1>4

(* The tick is counted while the sequence is odd, so that no reader with   *)
(* an even one can still accept its round.                                 *)
LEMMA TickInv == TimerInv /\ CountTick => TimerInv'
<1>. SUFFICES ASSUME TimerInv, CountTick PROVE TimerInv'
  OBVIOUS
<1>. USE DEF TimerInv, CountTick, readers
<1>1. Types'
  <2>1. passed' \in [Readers -> 0 .. TickSize]
    BY DEF Types
  <2>. QED  BY <2>1, TickGrows DEF Types
<1>2. Parity'
  BY DEF Parity
<1>3. ASSUME NEW r \in Readers PROVE Round(r)' /\ Settled(r)'
  <2>1. Even(tickseq0[r]) => seq_counter # tickseq0[r]
    BY DEF Parity
  <2>. QED  BY <1>3, <2>1 DEF Round, Settled
<1>4. ASSUME NEW r \in Readers PROVE Elapsed(r)'
  <2>1. /\ passed[r] \in 0 .. TickSize /\ passed'[r] = IF passed[r] < TickSize THEN passed[r] + 1 ELSE TickSize
        /\ value[r] \in Ticks /\ iticks[r] \in Ticks /\ ticks \in Ticks
    BY DEF Types
  <2>2. \A b \in Ticks : passed[r] = TickSize \/ TickDistance(ticks, b) = passed[r]
                           => passed'[r] = TickSize \/ TickDistance(ticks', b) = passed'[r]
    <3>. TAKE b \in Ticks
    <3>1. TickDistance(ticks', b) = IF TickDistance(ticks, b) = TickSize - 1 THEN 0 ELSE TickDistance(ticks, b) + 1
      BY <2>1, TickGrows
    <3>. QED  BY <2>1, <3>1
  <2>3. \A n \in Int : /\ n <= passed[r] => n <= passed'[r]
                       /\ passed[r] > n /\ n < TickSize => passed'[r] > n
    BY <2>1
  <2>4. TickDistance(value[r], iticks[r]) \in Int
    <3>1. TickDistance(value[r], iticks[r]) \in 0 .. TickSize - 1
      BY <2>1, TickGrows
    <3>. QED  BY <3>1
  <2>5. delay[r] \in Int /\ (pc[r] = "done" => delay[r] < TickSize)
    BY <1>4, DelayAssumption DEF Elapsed, Types
  <2>. QED
    BY <1>4, <2>1, <2>2, <2>3, <2>4, <2>5 DEF Elapsed
<1>. QED  BY <1>1, <1>2, <1>3, <1>4

(* The second increment closes the round before the counter can wrap.      *)
LEMMA CloseInv == TimerInv /\ CloseIncrement => TimerInv'
<1>. SUFFICES ASSUME TimerInv, CloseIncrement PROVE TimerInv'
  OBVIOUS
<1>. USE DEF TimerInv, CloseIncrement, Close, readers
<1>1. Types'
  BY SeqGrows DEF Types
<1>2. Parity'
  BY BumpParity DEF Parity, Types
<1>3. ASSUME NEW r \in Readers PROVE Round(r)'
  <2>. SUFFICES ASSUME pc[r] \in {"ticks", "seq1"}, Even(tickseq0[r])
                PROVE  /\ SeqDistance(seq_counter', tickseq0[r]) <= 2 * overlap[r]
                       /\ seq_counter' # tickseq0[r]
    BY DEF Round
  <2>. DEFINE d == SeqDistance(seq_counter, tickseq0[r])
  <2>1. d \in Int /\ 0 <= d /\ d <= 2 * overlap[r] /\ overlap[r] \in 0 .. MaxOverlap
    BY <1>3, SeqGrows DEF Round, Types, Seqs
  <2>2. SeqDistance(seq_counter', tickseq0[r]) = IF d = SeqSize - 1 THEN 0 ELSE d + 1
    BY SeqGrows DEF Types
  <2>3. ~Even(d)
    BY DistanceParity DEF Parity, Types
  <2>. HIDE DEF d
  <2>4. d # 2 * overlap[r]
    BY <2>1, <2>3 DEF Even
  <2>5. SeqDistance(seq_counter', tickseq0[r]) = d + 1
    BY <2>1, <2>2, <2>4
  <2>6. seq_counter' \in Seqs /\ tickseq0[r] \in Seqs
    BY <1>1 DEF Types
  <2>7. SeqDistance(seq_counter', tickseq0[r]) # 0
    BY <2>1, <2>5
  <2>8. seq_counter' # tickseq0[r]
    BY <2>6, <2>7, SeqGrows
  <2>9. d + 1 <= 2 * overlap[r]
    BY <2>1, <2>4
  <2>. QED  BY <2>5, <2>8, <2>9
<1>4. \A r \in Readers : Settled(r)' /\ Elapsed(r)'
  BY DEF Settled, Elapsed
<1>. QED  BY <1>1, <1>2, <1>3, <1>4

-----------------------------------------------------------------------------
(* The readers' steps.                                                     *)

Kept(s) ==
    /\ pc'[s] = pc[s] /\ tickseq0'[s] = tickseq0[s] /\ value'[s] = value[s] /\ iticks'[s] = iticks[s]
    /\ delay'[s] = delay[s] /\ first'[s] = first[s] /\ seen'[s] = seen[s]
    /\ passed'[s] = passed[s] /\ overlap'[s] = overlap[s]

(* A reader changes nothing of another one, and nothing of the timer.      *)
LEMMA ReaderStep ==
  ASSUME TimerInv, NEW r \in Readers,
         UNCHANGED <<seq_counter, ticks, wpc>>,
         \A s \in Readers \ {r} : Kept(s),
         Types', Round(r)', Settled(r)', Elapsed(r)'
  PROVE  TimerInv'
<1>1. Parity'
  BY DEF TimerInv, Parity
<1>2. ASSUME NEW s \in Readers \ {r} PROVE Round(s)' /\ Settled(s)' /\ Elapsed(s)'
  BY <1>2 DEF TimerInv, Kept, Round, Settled, Elapsed
<1>. QED  BY <1>1, <1>2 DEF TimerInv

(* Every step of Timer_GetTicks and PIT_Delay keeps the invariant.         *)
LEMMA ReaderInv ==
  ASSUME TimerInv, NEW r \in Readers, Reads(r) \/ \E d \in Delays : PIT_Delay(r, d)
  PROVE  TimerInv'
<1>. USE DEF TimerInv, Types
<1>1. CASE LoadSeq0(r)
  <2>. USE <1>1 DEF LoadSeq0
  <2>1. Types' /\ \A s \in Readers \ {r} : Kept(s)
    BY DEF Kept, Points
  <2>2. /\ pc'[r] = "ticks" /\ pc[r] = "seq0" /\ seen'[r] = ticks /\ tickseq0'[r] = seq_counter
        /\ SeqDistance(seq_counter, seq_counter) = 0
    BY DEF SeqDistance, Distance, Seqs, Counter
  <2>3. Round(r)'
    BY <2>2 DEF Round
  <2>4. Settled(r)' /\ Elapsed(r)'
    BY <2>2 DEF Settled, Elapsed
  <2>. QED  BY <2>1, <2>3, <2>4, ReaderStep
<1>2. CASE LoadTicks(r)
  <2>. USE <1>2 DEF LoadTicks
  <2>1. Types' /\ \A s \in Readers \ {r} : Kept(s)
    BY DEF Kept, Points
  <2>2. /\ pc'[r] = "seq1" /\ pc[r] = "ticks" /\ value'[r] = ticks
        /\ passed'[r] = IF first[r] THEN 0 ELSE passed[r]
    OBVIOUS
  <2>3. Round(r)' /\ Settled(r)'
    BY <2>2 DEF Round, Settled
  <2>4. TickDistance(ticks, ticks) = 0 /\ TickDistance(ticks, iticks[r]) \in 0 .. TickSize - 1
    BY TickGrows DEF TickDistance, Distance, Ticks, Counter
  <2>5. Elapsed(r)'
    BY <2>2, <2>4 DEF Elapsed
  <2>. QED  BY <2>1, <2>3, <2>5, ReaderStep
<1>3. CASE LoadSeq1(r)
  <2>. USE <1>3 DEF LoadSeq1
  <2>1. Types' /\ \A s \in Readers \ {r} : Kept(s)
    BY DEF Kept, Points
  <2>2. /\ pc[r] = "seq1" /\ pc'[r] \in {"seq0", "got"}
        /\ pc'[r] = "got" => Even(tickseq0[r]) /\ tickseq0[r] = seq_counter
    BY DEF Accept, Even
  <2>3. Round(r)' /\ Settled(r)'
    BY <2>2 DEF Round, Settled
  <2>4. Elapsed(r)'
    BY <2>2 DEF Elapsed
  <2>. QED  BY <2>1, <2>3, <2>4, ReaderStep
<1>4. CASE StartsAt(r)
  <2>. USE <1>4 DEF StartsAt
  <2>1. Types' /\ \A s \in Readers \ {r} : Kept(s)
    BY DEF Kept, Points
  <2>2. pc'[r] = "seq0" /\ pc[r] = "got" /\ first[r] /\ ~first'[r] /\ iticks'[r] = value[r]
    OBVIOUS
  <2>3. Round(r)' /\ Settled(r)'
    BY <2>2 DEF Round, Settled
  <2>4. Elapsed(r)'
    BY <2>2 DEF Elapsed
  <2>. QED  BY <2>1, <2>3, <2>4, ReaderStep
<1>5. CASE Polls(r)
  <2>. USE <1>5 DEF Polls
  <2>1. Types' /\ \A s \in Readers \ {r} : Kept(s)
    BY DEF Kept, Points
  <2>2. /\ pc[r] = "got" /\ ~first[r] /\ pc'[r] \in {"seq0", "done"}
        /\ pc'[r] = "done" => ~Waits(value[r], iticks[r], delay[r])
    OBVIOUS
  <2>3. Round(r)' /\ Settled(r)'
    BY <2>2 DEF Round, Settled
  <2>4. pc'[r] = "done" => passed[r] > delay[r]
    <3>1. TickDistance(value[r], iticks[r]) \in Int /\ TickDistance(value[r], iticks[r]) <= passed[r]
      <4>1. TickDistance(value[r], iticks[r]) \in 0 .. TickSize - 1
        BY TickGrows
      <4>. QED  BY <2>2, <4>1 DEF Elapsed
    <3>2. (value[r] - iticks[r]) % TickSize = TickDistance(value[r], iticks[r])
      BY Subtraction
    <3>3. ~Waits(value[r], iticks[r], delay[r]) => TickDistance(value[r], iticks[r]) > delay[r]
      BY <3>1, <3>2 DEF Waits
    <3>. QED  BY <2>2, <3>1, <3>3
  <2>5. Elapsed(r)'
    BY <2>2, <2>4 DEF Elapsed
  <2>. QED  BY <2>1, <2>3, <2>5, ReaderStep
<1>6. CASE Returns(r)
  <2>. USE <1>6 DEF Returns
  <2>1. Types' /\ \A s \in Readers \ {r} : Kept(s)
    BY DEF Kept, Points
  <2>2. Round(r)' /\ Settled(r)' /\ Elapsed(r)'
    BY DEF Round, Settled, Elapsed
  <2>. QED  BY <2>1, <2>2, ReaderStep
<1>7. CASE \E d \in Delays : PIT_Delay(r, d)
  <2>0. PICK d \in Delays : PIT_Delay(r, d)
    BY <1>7
  <2>. USE <2>0 DEF PIT_Delay
  <2>1. Types' /\ \A s \in Readers \ {r} : Kept(s)
    BY DelayAssumption DEF Kept, Points
  <2>2. Round(r)' /\ Settled(r)' /\ Elapsed(r)'
    BY DEF Round, Settled, Elapsed
  <2>. QED  BY <2>1, <2>2, ReaderStep
<1>. QED  BY <1>1, <1>2, <1>3, <1>4, <1>5, <1>6, <1>7 DEF Reads

-----------------------------------------------------------------------------
(* The state PIT_Initialize leaves.                                        *)
LEMMA TimerInit == Init => TimerInv
<1>. SUFFICES ASSUME Init PROVE TimerInv
  OBVIOUS
<1>. USE DEF Init
<1>1. seq_counter \in Seqs /\ Even(seq_counter)
  <2>1. 2 % SeqSize = 2 /\ 0 % 2 = 0 /\ 2 % 2 = 0
    OBVIOUS
  <2>. QED  BY <2>1 DEF Seqs, Counter, Even
<1>2. Types /\ Parity
  <2>1. 0 \in Ticks /\ 0 \in Seqs
    BY DEF Ticks, Seqs, Counter
  <2>. QED  BY <1>1, <2>1 DEF Types, Parity, Points
<1>3. \A r \in Readers : Round(r) /\ Settled(r) /\ Elapsed(r)
  BY DEF Round, Settled, Elapsed
<1>. QED  BY <1>2, <1>3 DEF TimerInv

(* The timer and its readers keep the invariant in every behaviour.        *)
THEOREM TimerInvariance == Spec => []TimerInv
<1>1. TimerInv /\ [Next]_vars => TimerInv'
  <2>1. ASSUME TimerInv, Next PROVE TimerInv'
    BY <2>1, OpenInv, TickInv, CloseInv, ReaderInv DEF Next, Timer_Increment
  <2>2. ASSUME TimerInv, UNCHANGED vars PROVE TimerInv'
    BY <2>2 DEF vars, readers, TimerInv, Types, Parity, Round, Settled, Elapsed
  <2>. QED  BY <2>1, <2>2
<1>. QED  BY <1>1, TimerInit, PTL DEF Spec

(* Timer_GetTicks returns a count that stood for the whole of its last     *)
(* round, whatever the width of the sequence and however many readers.     *)
THEOREM ReadsSettle == Spec => []SettledRead
<1>1. TimerInv => SettledRead
  BY DEF TimerInv, Settled, SettledRead
<1>. QED  BY <1>1, TimerInvariance, PTL

(* PIT_Delay(d) returns after more than d ticks, for every d a uint32_t    *)
(* can hold and whatever the width of the ticks beyond it.                 *)
THEOREM DelaysLast == Spec => []DelayLongEnough
<1>1. TimerInv => DelayLongEnough
  BY DEF TimerInv, Elapsed, DelayLongEnough
<1>. QED  BY <1>1, TimerInvariance, PTL
=============================================================================
