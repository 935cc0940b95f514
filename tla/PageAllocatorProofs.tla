------------------------ MODULE PageAllocatorProofs ------------------------
(***************************************************************************)
(* Proofs about IRQLock for any set of CPUs, and that the allocator uses   *)
(* Page_operation_lock as IRQLock allows, so that what is proved about the *)
(* lock holds of the allocator; then the allocator's own invariant, for    *)
(* any number of CPUs, frames and orders: the arithmetic of blocks and     *)
(* buddies, Page_Acquire, Page_Release, the cutting of the memory map into *)
(* blocks that Page_BuddyMaps_Initialize starts from, and last that blocks *)
(* and bits stay inside the window the kernel reaches them through.        *)
(***************************************************************************)
EXTENDS PageAllocator, SequenceTheorems, FiniteSetTheorems, WellFoundedInduction, TLAPS

(* FlagRemembered says where the flag is remembered at each point of the   *)
(* section; it is preserved because only the holder writes the lock's      *)
(* field, which is SectionExclusive.                                       *)
LockInv == LockTypeOK /\ SectionExclusive /\ FlagRemembered

USE DEF AllMasked, Priorities

(* The state IRQLock_Initialize leaves satisfies the invariant.            *)
LEMMA LockInitInv == LockInit => LockInv
BY DEF LockInit, LockInv, LockTypeOK, SectionExclusive, FlagRemembered, Labels, Holding

(* No step of any CPU, nor of the caller inside the lock, breaks the       *)
(* invariant.                                                              *)
LEMMA LockNextInv == LockInv /\ [LockNext]_lockvars => LockInv'
<1>. SUFFICES ASSUME LockInv, [LockNext]_lockvars PROVE LockInv'
  OBVIOUS
<1>. USE DEF LockInv
<1>0. CASE UNCHANGED lockvars
  BY <1>0 DEF lockvars, LockTypeOK, SectionExclusive, FlagRemembered
<1>1. ASSUME NEW c \in CPUs, Mask(c) PROVE LockInv'
  BY <1>1 DEF Mask, Goto, PriorityOf, LockTypeOK, SectionExclusive, FlagRemembered, Labels, Holding
<1>2. ASSUME NEW c \in CPUs, Take(c) PROVE LockInv'
  <2>1. LockTypeOK'
    BY <1>2 DEF Take, Goto, LockTypeOK, Labels
  <2>2. SectionExclusive'
    BY <1>2 DEF Take, Goto, FlagClear, LockTypeOK, SectionExclusive, Holding
  <2>3. FlagRemembered'
    BY <1>2 DEF Take, Goto, LockTypeOK, FlagRemembered
  <2>. QED  BY <2>1, <2>2, <2>3
<1>3. ASSUME NEW c \in CPUs, Record(c) PROVE LockInv'
  <2>1. LockTypeOK'
    BY <1>3 DEF Record, Recorded, Goto, LockTypeOK, Labels
  <2>2. SectionExclusive'
    BY <1>3 DEF Record, Goto, LockTypeOK, SectionExclusive, Holding
  <2>3. \A d \in CPUs : d # c => pc[d] \notin Holding
    BY <1>3 DEF Record, SectionExclusive, Holding
  <2>4. FlagRemembered'
    BY <1>3, <2>3 DEF Record, Recorded, Goto, LockTypeOK, FlagRemembered, Holding
  <2>. QED  BY <2>1, <2>2, <2>4
<1>4. ASSUME NEW c \in CPUs, Use(c) \/ Abandon(c) PROVE LockInv'
  <2>1. LockTypeOK'
    BY <1>4 DEF Use, Abandon, Goto, LockTypeOK, Labels
  <2>2. SectionExclusive' /\ FlagRemembered'
    BY <1>4 DEF Use, Abandon, Goto, LockTypeOK, SectionExclusive, FlagRemembered, Holding
  <2>. QED  BY <2>1, <2>2
<1>5. ASSUME NEW c \in CPUs, Restore(c) PROVE LockInv'
  <2>1. LockTypeOK'
    BY <1>5 DEF Restore, Goto, LockTypeOK, Labels
  <2>2. SectionExclusive' /\ FlagRemembered'
    BY <1>5 DEF Restore, Goto, LockTypeOK, SectionExclusive, FlagRemembered, Holding
  <2>. QED  BY <2>1, <2>2
<1>6. ASSUME NEW c \in CPUs, Unlock(c) PROVE LockInv'
  <2>1. LockTypeOK'
    BY <1>6 DEF Unlock, Goto, LockTypeOK, Labels
  <2>2. SectionExclusive' /\ FlagRemembered'
    BY <1>6 DEF Unlock, Goto, LockTypeOK, SectionExclusive, FlagRemembered, Holding
  <2>. QED  BY <2>1, <2>2
<1>7. ASSUME NEW c \in CPUs, Enable(c) PROVE LockInv'
  <2>1. LockTypeOK'
    BY <1>7 DEF Enable, Goto, LockTypeOK, Labels
  <2>2. SectionExclusive' /\ FlagRemembered'
    BY <1>7 DEF Enable, Goto, LockTypeOK, SectionExclusive, FlagRemembered, Holding
  <2>. QED  BY <2>1, <2>2
<1>8. ASSUME NEW c \in CPUs, FlagChanges(c) PROVE LockInv'
  BY <1>8 DEF FlagChanges, LockTypeOK, SectionExclusive, FlagRemembered, Labels, Holding
<1>. QED
  BY <1>0, <1>1, <1>2, <1>3, <1>4, <1>5, <1>6, <1>7, <1>8 DEF LockNext, LockStep

(* IRQLock keeps the invariant in every behaviour.                         *)
THEOREM LockInvariance == LockSpec => []LockInv
BY LockInitInv, LockNextInv, PTL DEF LockSpec

(* For any number of CPUs, at most one is inside the lock, with the flag   *)
(* set and the interrupts of its CPU off.                                  *)
THEOREM SectionIsExclusive == LockSpec => []SectionExclusive
BY LockInvariance, PTL DEF LockInv

(* A step that ends IRQLock_Release gives the CPU the interrupt flag it    *)
(* had when it called IRQLock_Acquire.                                     *)
LEMMA EnableRestores ==
    LockInv /\ [LockNext]_lockvars =>
        \A c \in CPUs : pc[c] = "enable" /\ pc'[c] = "idle" => intr'[c] = (intr_prio[c] = 0)
<1>. SUFFICES ASSUME LockInv, [LockNext]_lockvars,
                     NEW c \in CPUs, pc[c] = "enable", pc'[c] = "idle"
              PROVE  intr'[c] = (intr_prio[c] = 0)
  OBVIOUS
<1>1. Enable(c)
  <2>1. pc \in [CPUs -> Labels]
    BY DEF LockInv, LockTypeOK
  <2>2. PICK d \in CPUs : LockStep(d) \/ Use(d) \/ Abandon(d)
    BY DEF LockNext, lockvars
  <2>3. d = c
    BY <2>1, <2>2 DEF LockStep, Mask, Take, Record, Restore, Unlock, Enable, Use, Abandon, FlagChanges, Goto
  <2>. QED
    BY <2>1, <2>2, <2>3 DEF LockStep, Mask, Take, Record, Restore, Unlock, Use, Abandon, FlagChanges
<1>2. intr'[c] = (interrupt_priority[c] # AllMasked)
  BY <1>1 DEF Enable, Remembered, LockInv, LockTypeOK
<1>3. interrupt_priority[c] = intr_prio[c] /\ intr_prio[c] \in Priorities
  BY DEF LockInv, LockTypeOK, FlagRemembered
<1>. QED
  BY <1>2, <1>3

(* Interrupts are as they were before the lock was taken, for any number   *)
(* of CPUs that contend for it.                                            *)
THEOREM InterruptsAreRestored == LockSpec => InterruptsRestored
<1>1. LockInv /\ [LockNext]_lockvars =>
          [\A c \in CPUs : pc[c] = "enable" /\ pc'[c] = "idle" => intr'[c] = (intr_prio[c] = 0)]_lockvars
  BY EnableRestores
<1>. QED
  BY <1>1, LockInvariance, PTL DEF LockSpec, InterruptsRestored
-----------------------------------------------------------------------------
(* Every step of the allocator is a step of one CPU's use of the lock; the *)
(* early return of Page_Acquire is a caller that abandons it.              *)
LEMMA StepsOfTheLock == [AllocNext]_allvars => [LockNext]_lockvars
<1>1. ASSUME NEW c \in CPUs, AllocStep(c) PROVE LockNext
  <2>1. CASE (\E order \in Requests : CallAcquire(c, order)) \/ (\E block \in owned : CallRelease(c, block))
    BY <2>1 DEF CallAcquire, CallRelease, LockNext, LockStep
  <2>2. CASE Page_Acquire(c) \/ Page_Release(c) \/ Page_Release_Wild(c)
    BY <2>2 DEF Page_Acquire, Page_Release, Page_Release_Wild, LockNext
  <2>3. CASE Page_Acquire_Exhausted(c)
    BY <2>3 DEF Page_Acquire_Exhausted, LockNext
  <2>4. CASE LockOnly(c)
    BY <2>4 DEF LockOnly, LockNext, LockStep
  <2>. QED
    BY <1>1, <2>1, <2>2, <2>3, <2>4 DEF AllocStep
<1>2. UNCHANGED allvars => UNCHANGED lockvars
  BY DEF allvars
<1>. QED
  BY <1>1, <1>2 DEF AllocNext

(* The allocator implements the lock's specification, for any number of    *)
(* CPUs, memory map and largest order.                                     *)
THEOREM ImplementsIRQLock == AllocSpec => LockSpec
<1>1. AllocInit => LockInit
  BY DEF AllocInit
<1>. QED
  BY <1>1, StepsOfTheLock, PTL DEF AllocSpec, LockSpec

(* Page_Acquire and Page_Release never run on two CPUs at once, nor with   *)
(* interrupts enabled.                                                     *)
THEOREM CallsAreExclusive == AllocSpec => []SectionExclusive
BY ImplementsIRQLock, SectionIsExclusive, PTL

(* Page_Acquire and Page_Release return with the interrupt flag they were  *)
(* called with, exhaustion excepted.                                       *)
THEOREM CallsRestoreInterrupts == AllocSpec => InterruptsRestored
BY ImplementsIRQLock, InterruptsAreRestored

-----------------------------------------------------------------------------
(* Numbers.                                                                *)

(* The least of some naturals is one of them.                              *)
LEMMA MinOf == ASSUME NEW S \in SUBSET Nat, S # {} PROVE Min(S) \in S /\ \A n \in S : Min(S) <= n
<1>. DEFINE R == OpToRel(<, Nat)
<1>1. IsWellFoundedOn(R, Nat)
  BY NatLessThanWellFounded
<1>2. \A x, y \in Nat : y < x => <<y, x>> \in R
  BY DEF OpToRel
<1>. HIDE DEF R
<1>3. PICK x \in S : \A y \in S : ~ (<<y, x>> \in R)
  BY <1>1, WFMin
<1>4. \A y \in S : x <= y
  <2>. TAKE y \in S
  <2>1. x \in Nat /\ y \in Nat /\ ~(y < x)
    BY <1>2, <1>3
  <2>. QED  BY <2>1
<1>. QED  BY <1>3, <1>4 DEF Min

(* The greatest of some naturals below a bound is one of them.             *)
LEMMA MaxOf ==
  ASSUME NEW S \in SUBSET Nat, S # {}, NEW n \in Nat, \A x \in S : x <= n
  PROVE  Max(S) \in S /\ \A x \in S : x <= Max(S)
<1>. DEFINE C == {n - x : x \in S}
            d == Min(C)
<1>1. C \in SUBSET Nat /\ C # {}
  <2>1. ASSUME NEW x \in S PROVE n - x \in Nat
    <3>1. x \in Nat /\ x <= n
      OBVIOUS
    <3>. QED  BY <3>1
  <2>. QED  BY <2>1
<1>2. d \in C /\ \A c \in C : d <= c
  <2>. HIDE DEF C
  <2>. QED  BY <1>1, MinOf
<1>. HIDE DEF d
<1>3. PICK m \in S : d = n - m
  BY <1>2
<1>4. \A x \in S : x <= m
  BY <1>2, <1>3
<1>. QED  BY <1>4 DEF Max

(* Induction up to n, for sets of naturals.                                *)
LEMMA InductionTo ==
  ASSUME NEW n \in Nat, NEW S \in SUBSET Nat, 0 \in S, \A k \in S : k < n => k + 1 \in S
  PROVE  0 .. n \subseteq S
<1>1. SUFFICES ASSUME (0 .. n) \ S # {} PROVE FALSE
  OBVIOUS
<1>. DEFINE k == Min((0 .. n) \ S)
<1>2. k \in (0 .. n) \ S /\ \A m \in (0 .. n) \ S : k <= m
  <2>1. (0 .. n) \ S \in SUBSET Nat
    OBVIOUS
  <2>. QED  BY <1>1, <2>1, MinOf
<1>. HIDE DEF k
<1>3. k # 0 /\ k - 1 \in 0 .. n /\ k - 1 < n /\ ~(k <= k - 1)
  BY <1>2
<1>4. k - 1 \in S
  BY <1>2, <1>3
<1>. QED  BY <1>2, <1>3, <1>4

(* Quotient and remainder.                                                 *)
LEMMA Division ==
  ASSUME NEW n \in Nat \ {0}, NEW x \in Nat
  PROVE  x \div n \in Nat /\ x % n \in 0 .. n - 1 /\ x = (x \div n) * n + (x % n)
<1>. DEFINE d == x \div n
            r == x % n
<1>1. d \in Int /\ r \in 0 .. n - 1 /\ x = d * n + r
  OBVIOUS
<1>. HIDE DEF d, r
<1>2. d \in Nat
  <2>1. CASE d < 0
    <3>1. d * n <= -n
      BY <1>1, <2>1
    <3>. QED  BY <1>1, <3>1
  <2>. QED  BY <1>1, <2>1
<1>. QED  BY <1>1, <1>2, Zenon DEF d, r

(* They are unique.                                                        *)
LEMMA Quotient ==
  ASSUME NEW n \in Nat \ {0}, NEW x \in Nat, NEW q \in Int, NEW r \in 0 .. n - 1, x = q * n + r
  PROVE  x \div n = q /\ x % n = r
<1>. DEFINE d == x \div n
            e == x % n
<1>1. d \in Nat /\ e \in 0 .. n - 1 /\ x = d * n + e
  BY Division
<1>. HIDE DEF d, e
<1>2. q = d
  <2>1. (q - d) * n = e - r
    BY <1>1
  <2>2. CASE q > d
    <3>1. (q - d) * n >= n
      BY <1>1, <2>2
    <3>. QED  BY <1>1, <2>1, <3>1
  <2>3. CASE q < d
    <3>1. (q - d) * n <= -n
      BY <1>1, <2>3
    <3>. QED  BY <1>1, <2>1, <3>1
  <2>. QED  BY <1>1, <2>2, <2>3
<1>3. d * n + r = d * n + e
  BY <1>1, <1>2
<1>4. d * n \in Int
  BY <1>1
<1>5. r = e
  BY <1>1, <1>3, <1>4
<1>. QED  BY <1>2, <1>5 DEF d, e

(* A number that leaves no remainder is a multiple.                        *)
LEMMA Whole == ASSUME NEW n \in Nat \ {0}, NEW x \in Nat, x % n = 0 PROVE \E p \in Nat : x = p * n
<1>. DEFINE d == x \div n
<1>1. d \in Nat /\ x = d * n + 0
  BY Division
<1>. HIDE DEF d
<1>2. x = d * n
  BY <1>1
<1>. QED  BY <1>1, <1>2

(* Multiples lie a whole unit apart.                                       *)
LEMMA Multiples ==
  ASSUME NEW n \in Nat \ {0}, NEW x \in Nat, NEW y \in Nat, x % n = 0, y % n = 0, x < y
  PROVE  x + n <= y
<1>1. PICK p \in Nat : x = p * n
  BY Whole
<1>2. PICK q \in Nat : y = q * n
  BY Whole
<1>3. p < q
  <2>1. CASE q <= p
    <3>1. q * n <= p * n
      BY <2>1
    <3>. QED  BY <1>1, <1>2, <3>1
  <2>. QED  BY <2>1
<1>4. (p + 1) * n <= q * n
  BY <1>3
<1>5. (p + 1) * n = p * n + n
  OBVIOUS
<1>. QED  BY <1>1, <1>2, <1>4, <1>5

(* A multiple stays one when the unit is added or taken away.              *)
LEMMA NextMultiple ==
  ASSUME NEW n \in Nat \ {0}, NEW x \in Nat, x % n = 0
  PROVE  (x + n) % n = 0 /\ (x >= n => (x - n) % n = 0)
<1>1. PICK p \in Nat : x = p * n
  BY Whole
<1>2. x + n = (p + 1) * n + 0 /\ x - n = (p - 1) * n + 0
  BY <1>1
<1>3. x + n \in Nat /\ (x >= n => x - n \in Nat) /\ 0 \in 0 .. n - 1 /\ p + 1 \in Int /\ p - 1 \in Int
  OBVIOUS
<1>4. (x + n) % n = 0
  BY <1>2, <1>3, Quotient
<1>5. x >= n => (x - n) % n = 0
  BY <1>2, <1>3, Quotient
<1>. QED  BY <1>4, <1>5

-----------------------------------------------------------------------------
(* The sizes of blocks.                                                    *)

(* A set with one more element has twice as many subsets.                  *)
LEMMA Doubling == ASSUME NEW n \in Nat PROVE 2^n \in Nat /\ 2^(n + 1) = 2^n + 2^n
<1>. DEFINE A == SUBSET (1 .. n)
            With(T) == T \cup {n + 1}
            B == {With(T) : T \in A}
<1>1. IsFiniteSet(1 .. n) /\ Cardinality(1 .. n) = n /\ IsFiniteSet(1 .. n + 1) /\ Cardinality(1 .. n + 1) = n + 1
  <2>1. 1 \in Int /\ n \in Int /\ n + 1 \in Int
    OBVIOUS
  <2>2. /\ IsFiniteSet(1 .. n) /\ Cardinality(1 .. n) = IF 1 > n THEN 0 ELSE n - 1 + 1
        /\ IsFiniteSet(1 .. n + 1) /\ Cardinality(1 .. n + 1) = IF 1 > n + 1 THEN 0 ELSE n + 1 - 1 + 1
    BY <2>1, FS_Interval
  <2>. QED  BY <2>2
<1>2. IsFiniteSet(A) /\ Cardinality(A) = 2^n /\ Cardinality(SUBSET (1 .. n + 1)) = 2^(n + 1)
  <2>1. IsFiniteSet(A) /\ Cardinality(A) = 2^Cardinality(1 .. n)
    BY <1>1, FS_SUBSET
  <2>2. Cardinality(SUBSET (1 .. n + 1)) = 2^Cardinality(1 .. n + 1)
    BY <1>1, FS_SUBSET
  <2>. QED  BY <1>1, <2>1, <2>2
<1>3. Cardinality(A) \in Nat
  BY <1>2, FS_CardinalityType
<1>4. n + 1 \notin 1 .. n /\ 1 .. n + 1 = (1 .. n) \cup {n + 1}
  OBVIOUS
<1>5. SUBSET (1 .. n + 1) = A \cup B /\ A \cap B = {}
  <2>1. ASSUME NEW T \in SUBSET (1 .. n + 1) PROVE T \in A \cup B
    <3>1. CASE n + 1 \in T
      <4>1. T \ {n + 1} \in A /\ T = With(T \ {n + 1})
        BY <1>4, <3>1
      <4>. QED  BY <4>1
    <3>2. CASE n + 1 \notin T
      BY <1>4, <3>2
    <3>. QED  BY <3>1, <3>2
  <2>2. A \cup B \subseteq SUBSET (1 .. n + 1)
    BY <1>4
  <2>3. A \cap B = {}
    BY <1>4
  <2>. QED  BY <2>1, <2>2, <2>3
<1>6. IsFiniteSet(B) /\ Cardinality(B) = Cardinality(A)
  <2>. DEFINE f == [T \in A |-> With(T)]
  <2>1. f \in [A -> B] /\ \A T \in B : \E U \in A : f[U] = T
    OBVIOUS
  <2>2. \A T, U \in A : f[T] = f[U] => T = U
    BY <1>4
  <2>3. f \in Bijection(A, B)
    BY <2>1, <2>2 DEF Bijection, Injection, Surjection, IsInjective
  <2>4. ExistsBijection(A, B)
    BY <2>3 DEF ExistsBijection
  <2>. HIDE DEF A, B
  <2>. QED  BY <1>2, <2>4, FS_Bijection
<1>. HIDE DEF A, B
<1>7. Cardinality(A \cup B) = Cardinality(A) + Cardinality(A) - 0
  BY <1>2, <1>5, <1>6, FS_Union, FS_EmptySet
<1>8. Cardinality(A \cup B) = 2^(n + 1)
  BY <1>2, <1>5
<1>9. ASSUME NEW x \in Nat PROVE x + x - 0 = x + x
  OBVIOUS
<1>. QED  BY <1>2, <1>3, <1>7, <1>8, <1>9, Zenon

(* Sizes start at one and double from order to order.                      *)
LEMMA Double ==
  ASSUME NEW k \in Nat
  PROVE  PAGE_SIZE_AT_ORDER(k) \in Nat /\ PAGE_SIZE_AT_ORDER(k + 1) = PAGE_SIZE_AT_ORDER(k) + PAGE_SIZE_AT_ORDER(k)
BY Doubling DEF PAGE_SIZE_AT_ORDER

(* The smallest is one frame and none is empty.                            *)
LEMMA Sizes == PAGE_SIZE_AT_ORDER(0) = 1 /\ \A k \in Nat : PAGE_SIZE_AT_ORDER(k) \in Nat \ {0}
<1>1. PAGE_SIZE_AT_ORDER(0) = 1
  BY DEF PAGE_SIZE_AT_ORDER
<1>2. ASSUME NEW k \in Nat
      PROVE  /\ PAGE_SIZE_AT_ORDER(k) \in Nat
             /\ PAGE_SIZE_AT_ORDER(k + 1) = PAGE_SIZE_AT_ORDER(k) + PAGE_SIZE_AT_ORDER(k)
  BY Double
<1>3. ASSUME NEW n \in Nat PROVE PAGE_SIZE_AT_ORDER(n) # 0
  <2>. DEFINE Q == {k \in Nat : PAGE_SIZE_AT_ORDER(k) # 0}
  <2>1. 0 \in Q
    BY <1>1
  <2>2. ASSUME NEW k \in Q, k < n PROVE k + 1 \in Q
    BY <1>2
  <2>. HIDE DEF Q
  <2>3. 0 .. n \subseteq Q
    <3>1. Q \in SUBSET Nat
      BY DEF Q
    <3>. QED  BY <2>1, <2>2, <3>1, InductionTo
  <2>4. n \in Q
    BY <2>3
  <2>. QED  BY <2>4 DEF Q
<1>. QED  BY <1>1, <1>2, <1>3

(* A larger order is at least twice as large.                              *)
LEMMA Larger ==
  ASSUME NEW j \in Nat, NEW k \in Nat, j < k
  PROVE  PAGE_SIZE_AT_ORDER(j) + PAGE_SIZE_AT_ORDER(j) <= PAGE_SIZE_AT_ORDER(k)
<1>. DEFINE Q == {d \in Nat : PAGE_SIZE_AT_ORDER(j + 1) <= PAGE_SIZE_AT_ORDER(j + 1 + d)}
<1>1. 0 \in Q
  <2>1. j + 1 + 0 = j + 1 /\ j + 1 \in Nat
    OBVIOUS
  <2>2. PAGE_SIZE_AT_ORDER(j + 1) \in Nat
    BY <2>1, Sizes
  <2>. QED  BY <2>1, <2>2
<1>2. ASSUME NEW d \in Q PROVE d + 1 \in Q
  <2>1. d \in Nat /\ j + 1 \in Nat /\ j + 1 + d \in Nat /\ j + 1 + (d + 1) = (j + 1 + d) + 1
    OBVIOUS
  <2>. DEFINE a == PAGE_SIZE_AT_ORDER(j + 1)
              b == PAGE_SIZE_AT_ORDER(j + 1 + d)
              c == PAGE_SIZE_AT_ORDER((j + 1 + d) + 1)
  <2>2. a \in Nat /\ b \in Nat /\ c = b + b
    BY <2>1, Sizes, Double
  <2>3. a <= b
    OBVIOUS
  <2>4. a <= c
    <3>. HIDE DEF a, b, c
    <3>. QED  BY <2>2, <2>3
  <2>. QED  BY <2>1, <2>4
<1>. HIDE DEF Q
<1>3. 0 .. k - j - 1 \subseteq Q
  <2>1. Q \in SUBSET Nat /\ k - j - 1 \in Nat
    BY DEF Q
  <2>. QED  BY <1>1, <1>2, <2>1, InductionTo
<1>4. k - j - 1 \in Q /\ j + 1 + (k - j - 1) = k
  BY <1>3
<1>5. PAGE_SIZE_AT_ORDER(j + 1) <= PAGE_SIZE_AT_ORDER(k)
  BY <1>4 DEF Q
<1>6. PAGE_SIZE_AT_ORDER(j + 1) = PAGE_SIZE_AT_ORDER(j) + PAGE_SIZE_AT_ORDER(j)
  BY Double
<1>. QED  BY <1>5, <1>6, Zenon

(* Only a smaller order is smaller.                                        *)
LEMMA Smaller ==
  ASSUME NEW j \in Nat, NEW k \in Nat, PAGE_SIZE_AT_ORDER(j) < PAGE_SIZE_AT_ORDER(k)
  PROVE  j < k
<1>1. PAGE_SIZE_AT_ORDER(j) \in Nat /\ PAGE_SIZE_AT_ORDER(k) \in Nat
  BY Sizes
<1>2. k < j => PAGE_SIZE_AT_ORDER(k) <= PAGE_SIZE_AT_ORDER(j)
  BY <1>1, Larger
<1>. QED  BY <1>1, <1>2

(* A boundary of one order is one of all smaller orders.                   *)
LEMMA Coarser ==
  ASSUME NEW j \in Nat, NEW k \in Nat, j <= k, NEW a \in Nat, a % PAGE_SIZE_AT_ORDER(k) = 0
  PROVE  a % PAGE_SIZE_AT_ORDER(j) = 0
<1>. DEFINE Q == {d \in Nat : d <= k => a % PAGE_SIZE_AT_ORDER(k - d) = 0}
<1>1. 0 \in Q
  OBVIOUS
<1>2. ASSUME NEW d \in Q, d < k PROVE d + 1 \in Q
  <2>. DEFINE m == k - (d + 1)
              n == PAGE_SIZE_AT_ORDER(m)
              l == PAGE_SIZE_AT_ORDER(m + 1)
  <2>1. m \in Nat /\ m + 1 = k - d /\ d \in Nat
    BY <1>2
  <2>. HIDE DEF m
  <2>2. n \in Nat \ {0} /\ l = n + n /\ l \in Nat \ {0}
    <3>1. m + 1 \in Nat
      BY <2>1
    <3>. QED  BY <2>1, <3>1, Sizes, Double
  <2>3. a % l = 0
    BY <1>2, <2>1
  <2>. HIDE DEF n, l
  <2>4. PICK p \in Nat : a = p * l
    BY <2>2, <2>3, Whole
  <2>5. a = (p + p) * n + 0
    BY <2>2, <2>4
  <2>6. a % n = 0
    <3>1. p + p \in Int /\ 0 \in 0 .. n - 1
      BY <2>2
    <3>. QED  BY <2>2, <2>5, <3>1, Quotient
  <2>. QED  BY <2>1, <2>6 DEF m, n
<1>. HIDE DEF Q
<1>3. 0 .. k - j \subseteq Q
  <2>1. Q \in SUBSET Nat /\ k - j \in Nat /\ \A d \in Q : d < k - j => d < k
    BY DEF Q
  <2>2. \A d \in Q : d < k - j => d + 1 \in Q
    BY <1>2, <2>1
  <2>. QED  BY <1>1, <2>1, <2>2, InductionTo
<1>4. k - j \in Q /\ k - (k - j) = j /\ k - j <= k
  BY <1>3
<1>. QED  BY <1>4 DEF Q

-----------------------------------------------------------------------------
(* Blocks and their boundaries.                                            *)

OnBoundary(a, k) == a % PAGE_SIZE_AT_ORDER(k) = 0

(* The block of an order around a frame starts at Merged.                  *)
LEMMA Boundary ==
  ASSUME NEW a \in Nat, NEW k \in Nat
  PROVE  /\ Merged(a, k) \in Nat /\ OnBoundary(Merged(a, k), k)
         /\ Merged(a, k) <= a /\ a < Merged(a, k) + PAGE_SIZE_AT_ORDER(k)
         /\ OnBoundary(a, k) <=> Merged(a, k) = a
         /\ a % PAGE_SIZE_AT_ORDER(k) = a - Merged(a, k)
<1>. DEFINE n == PAGE_SIZE_AT_ORDER(k)
            q == a \div n
            r == a % n
<1>1. n \in Nat \ {0}
  BY Sizes
<1>. HIDE DEF n
<1>2. q \in Nat /\ r \in 0 .. n - 1 /\ a = q * n + r
  BY <1>1, Division
<1>. HIDE DEF q, r
<1>3. a - r = q * n + 0 /\ a - r \in Nat /\ 0 \in 0 .. n - 1 /\ q \in Int
  <2>1. q * n \in Nat
    BY <1>1, <1>2
  <2>. QED  BY <1>1, <1>2, <2>1
<1>4. (a - r) % n = 0
  BY <1>1, <1>3, Quotient
<1>5. Merged(a, k) = a - r
  BY DEF Merged, n, r
<1>6. a - r <= a /\ a < a - r + n /\ (r = 0 <=> a - r = a) /\ r = a - (a - r)
  BY <1>1, <1>2
<1>. QED  BY <1>3, <1>4, <1>5, <1>6 DEF OnBoundary, n, r

(* Boundaries of an order lie a block apart.                               *)
LEMMA Gap ==
  ASSUME NEW k \in Nat, NEW a \in Nat, NEW b \in Nat, OnBoundary(a, k), OnBoundary(b, k), a < b
  PROVE  a + PAGE_SIZE_AT_ORDER(k) <= b
BY Sizes, Multiples DEF OnBoundary

(* It is the only block of its order around the frame.                     *)
LEMMA OneBlock ==
  ASSUME NEW k \in Nat, NEW a \in Nat, NEW b \in Nat,
         OnBoundary(b, k), b <= a, a < b + PAGE_SIZE_AT_ORDER(k)
  PROVE  Merged(a, k) = b
<1>. DEFINE m == Merged(a, k)
            n == PAGE_SIZE_AT_ORDER(k)
<1>1. m \in Nat /\ OnBoundary(m, k) /\ m <= a /\ a < m + n /\ n \in Nat
  BY Boundary, Sizes
<1>. HIDE DEF m
<1>2. m < b => m + n <= b
  BY <1>1, Gap
<1>3. b < m => b + n <= m
  BY <1>1, Gap
<1>. HIDE DEF n
<1>4. a < b + n
  BY DEF n
<1>5. m = b
  BY <1>1, <1>2, <1>3, <1>4
<1>. QED  BY <1>5 DEF m

(* The bit of an order tells the blocks of the next order apart.           *)
LEMMA SameBit ==
  ASSUME NEW k \in Nat, NEW a \in Nat, NEW b \in Nat
  PROVE  PAGE_MAP_BIT(a, k) = PAGE_MAP_BIT(b, k) <=> Merged(a, k + 1) = Merged(b, k + 1)
<1>. DEFINE n == PAGE_SIZE_AT_ORDER(k + 1)
<1>1. n \in Nat \ {0}
  <2>1. k + 1 \in Nat
    OBVIOUS
  <2>. QED  BY <2>1, Sizes
<1>2. /\ Merged(a, k + 1) = a - (a % n) /\ PAGE_MAP_BIT(a, k) = a \div n
      /\ Merged(b, k + 1) = b - (b % n) /\ PAGE_MAP_BIT(b, k) = b \div n
  BY DEF Merged, PAGE_MAP_BIT
<1>. HIDE DEF n
<1>3. /\ a \div n \in Nat /\ a % n \in 0 .. n - 1 /\ a = (a \div n) * n + (a % n)
      /\ b \div n \in Nat /\ b % n \in 0 .. n - 1 /\ b = (b \div n) * n + (b % n)
  BY <1>1, Division
<1>4. ASSUME NEW p \in Nat, NEW q \in Nat, p * n = q * n PROVE p = q
  <2>1. p < q => p * n + n <= q * n
    <3>1. p < q => (p + 1) * n <= q * n
      BY <1>1
    <3>2. (p + 1) * n = p * n + n
      BY <1>1
    <3>. QED  BY <3>1, <3>2
  <2>2. q < p => q * n + n <= p * n
    <3>1. q < p => (q + 1) * n <= p * n
      BY <1>1
    <3>2. (q + 1) * n = q * n + n
      BY <1>1
    <3>. QED  BY <3>1, <3>2
  <2>3. p * n \in Nat /\ q * n \in Nat
    BY <1>1
  <2>. QED  BY <1>1, <1>4, <2>1, <2>2, <2>3
<1>5. a - (a % n) = (a \div n) * n /\ b - (b % n) = (b \div n) * n
  <2>1. ASSUME NEW x \in Nat, NEW y \in Nat, NEW z \in Nat, x = y * n + z PROVE x - z = y * n
    <3>1. y * n \in Nat
      BY <1>1
    <3>. QED  BY <2>1, <3>1
  <2>2. a % n \in Nat /\ b % n \in Nat
    BY <1>1, <1>3
  <2>. QED  BY <1>3, <2>1, <2>2
<1>. QED  BY <1>2, <1>3, <1>4, <1>5, Zenon

(* A block and its buddy are the halves of a block of the next order.      *)
LEMMA Halves ==
  ASSUME NEW k \in Nat, NEW a \in Nat, OnBoundary(a, k)
  PROVE  LET p == Merged(a, k + 1)
             n == PAGE_SIZE_AT_ORDER(k) IN
         /\ p \in Nat /\ OnBoundary(p, k + 1) /\ OnBoundary(p, k) /\ OnBoundary(p + n, k)
         /\ n \in Nat \ {0} /\ PAGE_SIZE_AT_ORDER(k + 1) = n + n
         /\ \/ a = p /\ PAGE_BUDDY(a, k) = p + n
            \/ a = p + n /\ PAGE_BUDDY(a, k) = p
<1>. DEFINE p == Merged(a, k + 1)
            n == PAGE_SIZE_AT_ORDER(k)
            l == PAGE_SIZE_AT_ORDER(k + 1)
<1>0. k + 1 \in Nat
  OBVIOUS
<1>1. n \in Nat \ {0} /\ l = n + n
  BY Sizes, Double
<1>2. p \in Nat /\ OnBoundary(p, k + 1) /\ p <= a /\ a < p + l /\ a % l = a - p
  BY <1>0, Boundary
<1>3. OnBoundary(p, k)
  BY <1>0, <1>2, Coarser DEF OnBoundary
<1>4. OnBoundary(p + n, k)
  BY <1>1, <1>2, <1>3, NextMultiple DEF OnBoundary
<1>5. PAGE_BUDDY(a, k) = IF a % l = 0 THEN a + n ELSE a - n
  BY DEF PAGE_BUDDY
<1>6. p < a => p + n <= a
  BY <1>2, <1>3, Gap
<1>7. p + n < a => p + n + n <= a
  <2>1. p + n \in Nat
    BY <1>1, <1>2
  <2>. QED  BY <1>4, <2>1, Gap
<1>. HIDE DEF p, n, l
<1>8. a = p \/ a = p + n
  BY <1>1, <1>2, <1>6, <1>7
<1>9. \/ a = p /\ PAGE_BUDDY(a, k) = p + n
      \/ a = p + n /\ PAGE_BUDDY(a, k) = p
  BY <1>1, <1>2, <1>5, <1>8
<1>. QED  BY <1>1, <1>2, <1>3, <1>4, <1>9 DEF p, n, l

(* Of two blocks around a frame the smaller lies inside the larger.        *)
LEMMA Nested ==
  ASSUME NEW j \in Nat, NEW k \in Nat, j <= k, NEW a \in Nat, NEW b \in Nat,
         OnBoundary(a, j), OnBoundary(b, k)
  PROVE  /\ a < b => a + PAGE_SIZE_AT_ORDER(j) <= b
         /\ a < b + PAGE_SIZE_AT_ORDER(k) => a + PAGE_SIZE_AT_ORDER(j) <= b + PAGE_SIZE_AT_ORDER(k)
<1>. DEFINE n == PAGE_SIZE_AT_ORDER(k)
<1>1. n \in Nat /\ (b + n) % n = 0 /\ b + n \in Nat
  BY Sizes, NextMultiple DEF OnBoundary
<1>2. OnBoundary(b, j) /\ OnBoundary(b + n, j)
  BY <1>1, Coarser DEF OnBoundary
<1>. HIDE DEF n
<1>3. a < b + n => a + PAGE_SIZE_AT_ORDER(j) <= b + n
  BY <1>1, <1>2, Gap
<1>. QED  BY <1>2, <1>3, Gap DEF n

(* Blocks within a block of an order below the boundary of it.             *)
LEMMA SameParent ==
  ASSUME NEW j \in Nat, NEW k \in Nat, j <= k, NEW a \in Nat
  PROVE  Merged(Merged(a, j), k) = Merged(a, k)
<1>. DEFINE b == Merged(a, k)
            c == Merged(a, j)
            n == PAGE_SIZE_AT_ORDER(k)
<1>1. b \in Nat /\ OnBoundary(b, k) /\ b <= a /\ a < b + n /\ n \in Nat
  BY Boundary, Sizes
<1>2. c \in Nat /\ OnBoundary(c, j) /\ c <= a /\ a < c + PAGE_SIZE_AT_ORDER(j) /\ PAGE_SIZE_AT_ORDER(j) \in Nat
  BY Boundary, Sizes
<1>3. c < b => c + PAGE_SIZE_AT_ORDER(j) <= b
  BY <1>1, <1>2, Nested
<1>. HIDE DEF b, c
<1>4. b <= c /\ c < b + n
  <2>. HIDE DEF n
  <2>. QED  BY <1>1, <1>2, <1>3
<1>5. Merged(c, k) = b
  BY <1>1, <1>2, <1>4, OneBlock
<1>. QED  BY <1>5 DEF b, c

-----------------------------------------------------------------------------
(* Sets of blocks.                                                         *)

BlockOf(b) == Block(b[1], b[2])
Space(B) == UNION {BlockOf(b) : b \in B}
Disjoint(B) == \A b, d \in B : b # d => BlockOf(b) \cap BlockOf(d) = {}

(* Exchanging some blocks for others that cover the same frames keeps the  *)
(* blocks disjoint and the frames covered.                                 *)
LEMMA Exchange ==
  ASSUME NEW A, NEW R \in SUBSET A, NEW N, Disjoint(A), Disjoint(N), Space(N) = Space(R)
  PROVE  /\ Disjoint((A \ R) \cup N) /\ Space((A \ R) \cup N) = Space(A)
         /\ \A b \in A \ R : BlockOf(b) # {} => b \notin N
<1>1. ASSUME NEW b \in A \ R, NEW d \in N, NEW x, x \in BlockOf(b), x \in BlockOf(d) PROVE FALSE
  <2>1. x \in Space(N)
    BY <1>1 DEF Space
  <2>2. PICK e \in R : x \in BlockOf(e)
    BY <2>1 DEF Space
  <2>3. b # e /\ b \in A /\ e \in A
    OBVIOUS
  <2>. QED  BY <1>1, <2>2, <2>3 DEF Disjoint
<1>2. ASSUME NEW b \in (A \ R) \cup N, NEW d \in (A \ R) \cup N, b # d PROVE BlockOf(b) \cap BlockOf(d) = {}
  BY <1>1, <1>2 DEF Disjoint
<1>3. Space((A \ R) \cup N) = Space(A \ R) \cup Space(N) /\ Space(A) = Space(A \ R) \cup Space(R)
  BY DEF Space
<1>4. ASSUME NEW b \in A \ R, BlockOf(b) # {} PROVE b \notin N
  BY <1>1, <1>4
<1>. QED  BY <1>2, <1>3, <1>4 DEF Disjoint

(* Two blocks that do not overlap, as numbers.                             *)
LEMMA Apart ==
  ASSUME NEW a \in Nat, NEW j \in Nat, NEW b \in Nat, NEW k \in Nat
  PROVE  /\ Block(a, j) \cap Block(b, k) = {} <=> a + PAGE_SIZE_AT_ORDER(j) <= b \/ b + PAGE_SIZE_AT_ORDER(k) <= a
         /\ a \in Block(a, j)
<1>. DEFINE n == PAGE_SIZE_AT_ORDER(j)
            l == PAGE_SIZE_AT_ORDER(k)
<1>1. n \in Nat \ {0} /\ l \in Nat \ {0}
  BY Sizes
<1>. HIDE DEF n, l
<1>2. a \in a .. a + n - 1 /\ b \in b .. b + l - 1
  BY <1>1
<1>3. a + n <= b \/ b + l <= a => (a .. a + n - 1) \cap (b .. b + l - 1) = {}
  BY <1>1
<1>4. ~(a + n <= b) /\ ~(b + l <= a) => a \in b .. b + l - 1 \/ b \in a .. a + n - 1
  BY <1>1
<1>. QED  BY <1>2, <1>3, <1>4 DEF Block, n, l

(* A block of order m is a block of order j and, above it, one of each     *)
(* order between.                                                          *)
LEMMA Ladder ==
  ASSUME NEW a \in Nat, NEW j \in Nat, NEW m \in Nat, j <= m
  PROVE  /\ Block(a, m) = Block(a, j) \cup UNION {Block(a + PAGE_SIZE_AT_ORDER(k), k) : k \in j .. m - 1}
         /\ \A k \in j .. m - 1 : Block(a, j) \cap Block(a + PAGE_SIZE_AT_ORDER(k), k) = {}
         /\ \A k, l \in j .. m - 1 :
               k < l => Block(a + PAGE_SIZE_AT_ORDER(k), k) \cap Block(a + PAGE_SIZE_AT_ORDER(l), l) = {}
<1>1. ASSUME NEW k \in j .. m - 1
      PROVE  /\ k \in Nat /\ PAGE_SIZE_AT_ORDER(k) \in Nat \ {0} /\ a + PAGE_SIZE_AT_ORDER(k) \in Nat
             /\ PAGE_SIZE_AT_ORDER(j) <= PAGE_SIZE_AT_ORDER(k)
             /\ PAGE_SIZE_AT_ORDER(k) + PAGE_SIZE_AT_ORDER(k) <= PAGE_SIZE_AT_ORDER(m)
  <2>1. k \in Nat /\ k < m /\ (j = k \/ j < k)
    OBVIOUS
  <2>2. PAGE_SIZE_AT_ORDER(k) \in Nat \ {0} /\ PAGE_SIZE_AT_ORDER(j) \in Nat
    BY <2>1, Sizes
  <2>3. PAGE_SIZE_AT_ORDER(k) + PAGE_SIZE_AT_ORDER(k) <= PAGE_SIZE_AT_ORDER(m)
    BY <2>1, Larger
  <2>4. j < k => PAGE_SIZE_AT_ORDER(j) + PAGE_SIZE_AT_ORDER(j) <= PAGE_SIZE_AT_ORDER(k)
    BY <2>1, Larger
  <2>. QED  BY <2>1, <2>2, <2>3, <2>4
<1>2. PAGE_SIZE_AT_ORDER(j) \in Nat \ {0} /\ PAGE_SIZE_AT_ORDER(m) \in Nat /\ PAGE_SIZE_AT_ORDER(j) <= PAGE_SIZE_AT_ORDER(m)
  <2>1. PAGE_SIZE_AT_ORDER(j) \in Nat \ {0} /\ PAGE_SIZE_AT_ORDER(m) \in Nat
    BY Sizes
  <2>2. j < m => PAGE_SIZE_AT_ORDER(j) + PAGE_SIZE_AT_ORDER(j) <= PAGE_SIZE_AT_ORDER(m)
    BY Larger
  <2>. QED  BY <2>1, <2>2
<1>3. ASSUME NEW k \in j .. m - 1 PROVE Block(a, j) \cap Block(a + PAGE_SIZE_AT_ORDER(k), k) = {}
  <2>1. a + PAGE_SIZE_AT_ORDER(j) <= a + PAGE_SIZE_AT_ORDER(k) /\ a + PAGE_SIZE_AT_ORDER(k) \in Nat /\ k \in Nat
    BY <1>1, <1>2
  <2>. QED  BY <2>1, Apart
<1>4. ASSUME NEW k \in j .. m - 1, NEW l \in j .. m - 1, k < l
      PROVE  Block(a + PAGE_SIZE_AT_ORDER(k), k) \cap Block(a + PAGE_SIZE_AT_ORDER(l), l) = {}
  <2>. DEFINE p == PAGE_SIZE_AT_ORDER(k)
              q == PAGE_SIZE_AT_ORDER(l)
  <2>1. p + p <= q
    BY <1>1, <1>4, Larger
  <2>2. k \in Nat /\ l \in Nat /\ a + p \in Nat /\ a + q \in Nat /\ p \in Nat /\ q \in Nat
    BY <1>1
  <2>3. a + p + p <= a + q
    <3>. HIDE DEF p, q
    <3>. QED  BY <2>1, <2>2
  <2>. QED  BY <2>2, <2>3, Apart
<1>5. ASSUME NEW k \in j .. m - 1 PROVE Block(a + PAGE_SIZE_AT_ORDER(k), k) \subseteq Block(a, m)
  BY <1>1, <1>2 DEF Block
<1>6. Block(a, j) \subseteq Block(a, m)
  BY <1>2 DEF Block
<1>7. ASSUME NEW x \in Block(a, m), x \notin Block(a, j)
      PROVE  \E k \in j .. m - 1 : x \in Block(a + PAGE_SIZE_AT_ORDER(k), k)
  <2>. DEFINE H == {k \in j .. m : x < a + PAGE_SIZE_AT_ORDER(k)}
              h == Min(H)
  <2>1. x \in Nat /\ a <= x /\ x < a + PAGE_SIZE_AT_ORDER(m) /\ ~(x < a + PAGE_SIZE_AT_ORDER(j))
    BY <1>2, <1>7 DEF Block
  <2>2. m \in H /\ j \notin H
    BY <2>1
  <2>3. h \in H /\ \A k \in H : h <= k
    <3>1. H \in SUBSET Nat /\ H # {}
      BY <2>2
    <3>. HIDE DEF H
    <3>. QED  BY <3>1, MinOf
  <2>. HIDE DEF h
  <2>4. h - 1 \in j .. m - 1 /\ h - 1 \notin H /\ h - 1 \in Nat /\ (h - 1) + 1 = h
    BY <2>2, <2>3
  <2>5. ~(x < a + PAGE_SIZE_AT_ORDER(h - 1))
    BY <2>4
  <2>6. x < a + (PAGE_SIZE_AT_ORDER(h - 1) + PAGE_SIZE_AT_ORDER(h - 1))
    BY <2>3, <2>4, Double
  <2>7. PAGE_SIZE_AT_ORDER(h - 1) \in Nat
    BY <2>4, Sizes
  <2>8. x \in Block(a + PAGE_SIZE_AT_ORDER(h - 1), h - 1)
    BY <2>1, <2>5, <2>6, <2>7 DEF Block
  <2>. QED  BY <2>4, <2>8
<1>. QED  BY <1>3, <1>4, <1>5, <1>6, <1>7

-----------------------------------------------------------------------------
(* The lists.                                                              *)

(* The sequence without its i-th element.                                  *)
LEMMA Removed ==
  ASSUME NEW S, NEW s \in Seq(S), NEW m \in 1 .. Len(s)
  PROVE  /\ RemoveAt(s, m) \in Seq(S) /\ Len(RemoveAt(s, m)) = Len(s) - 1
         /\ \A k \in 1 .. Len(s) - 1 : RemoveAt(s, m)[k] = s[IF k < m THEN k ELSE k + 1]
<1>. DEFINE n == Len(s)
            s1 == SubSeq(s, 1, m - 1)
            s2 == SubSeq(s, m + 1, n)
<1>1. n \in Nat /\ m \in 1 .. n /\ \A k \in 1 .. n : s[k] \in S
  OBVIOUS
<1>2. s1 \in Seq(S) /\ Len(s1) = m - 1 /\ \A k \in 1 .. m - 1 : s1[k] = s[k]
  <2>1. \A k \in 1 .. m - 1 : s[k] \in S
    BY <1>1
  <2>2. SubSeq(s, 1, m - 1) \in Seq(S) /\ Len(SubSeq(s, 1, m - 1)) = (IF 1 <= m - 1 THEN m - 1 - 1 + 1 ELSE 0)
        /\ \A k \in 1 .. m - 1 - 1 + 1 : SubSeq(s, 1, m - 1)[k] = s[1 + k - 1]
    BY <1>1, <2>1, SubSeqProperties
  <2>. QED  BY <1>1, <2>2
<1>3. s2 \in Seq(S) /\ Len(s2) = n - m /\ \A k \in 1 .. n - m : s2[k] = s[m + k]
  <2>1. \A k \in m + 1 .. n : s[k] \in S
    BY <1>1
  <2>2. SubSeq(s, m + 1, n) \in Seq(S) /\ Len(SubSeq(s, m + 1, n)) = (IF m + 1 <= n THEN n - (m + 1) + 1 ELSE 0)
        /\ \A k \in 1 .. n - (m + 1) + 1 : SubSeq(s, m + 1, n)[k] = s[m + 1 + k - 1]
    BY <1>1, <2>1, SubSeqProperties
  <2>. QED  BY <1>1, <2>2
<1>4. RemoveAt(s, m) = s1 \o s2
  BY DEF RemoveAt
<1>. HIDE DEF s1, s2, n
<1>5. /\ s1 \o s2 \in Seq(S) /\ Len(s1 \o s2) = (m - 1) + (n - m)
      /\ \A k \in 1 .. (m - 1) + (n - m) : (s1 \o s2)[k] = IF k <= m - 1 THEN s1[k] ELSE s2[k - (m - 1)]
  <2>1. s1 \in Seq(S) /\ s2 \in Seq(S)
    BY <1>2, <1>3
  <2>2. /\ s1 \o s2 \in Seq(S) /\ Len(s1 \o s2) = Len(s1) + Len(s2)
        /\ \A k \in 1 .. Len(s1) + Len(s2) : (s1 \o s2)[k] = IF k <= Len(s1) THEN s1[k] ELSE s2[k - Len(s1)]
    BY <2>1, ConcatProperties
  <2>. QED  BY <1>2, <1>3, <2>2, Zenon
<1>6. ASSUME NEW k \in 1 .. n - 1 PROVE (s1 \o s2)[k] = s[IF k < m THEN k ELSE k + 1]
  <2>1. k \in 1 .. (m - 1) + (n - m)
    BY <1>1
  <2>2. CASE k < m
    <3>1. k \in 1 .. m - 1 /\ k <= m - 1
      BY <1>1, <2>2
    <3>. QED  BY <1>2, <1>5, <2>1, <2>2, <3>1
  <2>3. CASE ~(k < m)
    <3>1. k - (m - 1) \in 1 .. n - m /\ ~(k <= m - 1) /\ m + (k - (m - 1)) = k + 1
      BY <1>1, <2>3
    <3>. QED  BY <1>3, <1>5, <2>1, <2>3, <3>1
  <2>. QED  BY <2>2, <2>3
<1>7. Len(s1 \o s2) = n - 1
  BY <1>1, <1>5
<1>. QED  BY <1>4, <1>5, <1>6, <1>7 DEF n

(* What is on a list.                                                      *)
LEMMA InRange == ASSUME NEW S, NEW s \in Seq(S) PROVE Range(s) \subseteq S
<1>1. ASSUME NEW n \in DOMAIN s PROVE s[n] \in S
  <2>1. n \in 1 .. Len(s)
    OBVIOUS
  <2>. QED  BY <2>1, ElementOfSeq
<1>. QED  BY <1>1 DEF Range

(* Pushing a block that is not on the list.                                *)
LEMMA Pushed ==
  ASSUME NEW S, NEW s \in Seq(S), NEW x \in S, IsInjective(s), x \notin Range(s)
  PROVE  /\ Push(x, s) \in Seq(S) /\ IsInjective(Push(x, s))
         /\ Range(Push(x, s)) = Range(s) \cup {x}
<1>. DEFINE t == <<x>> \o s
            n == Len(s)
<1>1. n \in Nat /\ DOMAIN s = 1 .. n /\ <<x>> \in Seq(S) /\ Len(<<x>>) = 1
  OBVIOUS
<1>2. t \in Seq(S) /\ Len(t) = 1 + n /\ \A k \in 1 .. 1 + n : t[k] = IF k <= 1 THEN x ELSE s[k - 1]
  BY <1>1
<1>3. DOMAIN t = 1 .. 1 + n
  BY <1>2
<1>. HIDE DEF t, n
<1>4. t[1] = x /\ 1 \in 1 .. 1 + n
  BY <1>1, <1>2
<1>5. ASSUME NEW k \in 1 .. 1 + n, k # 1 PROVE k - 1 \in 1 .. n /\ t[k] = s[k - 1] /\ t[k] \in Range(s)
  BY <1>1, <1>2, <1>5 DEF Range
<1>6. ASSUME NEW k \in 1 .. 1 + n, NEW l \in 1 .. 1 + n, t[k] = t[l] PROVE k = l
  <2>1. CASE k = 1 \/ l = 1
    BY <1>4, <1>5, <1>6, <2>1
  <2>2. CASE k # 1 /\ l # 1
    <3>1. k - 1 \in 1 .. n /\ l - 1 \in 1 .. n /\ s[k - 1] = s[l - 1]
      BY <1>5, <1>6, <2>2
    <3>2. k - 1 = l - 1
      BY <1>1, <3>1 DEF IsInjective
    <3>. QED  BY <1>1, <3>2
  <2>. QED  BY <2>1, <2>2
<1>7. ASSUME NEW y \in Range(s) PROVE y \in Range(t)
  <2>1. PICK k \in 1 .. n : y = s[k]
    BY <1>1 DEF Range
  <2>2. k + 1 \in 1 .. 1 + n /\ k + 1 # 1 /\ (k + 1) - 1 = k
    BY <1>1
  <2>3. t[k + 1] = s[k]
    BY <1>5, <2>2
  <2>. QED  BY <1>3, <2>1, <2>2, <2>3 DEF Range
<1>8. ASSUME NEW y \in Range(t) PROVE y \in Range(s) \cup {x}
  <2>1. PICK k \in 1 .. 1 + n : y = t[k]
    BY <1>3 DEF Range
  <2>. QED  BY <1>4, <1>5, <2>1
<1>9. x \in Range(t)
  BY <1>3, <1>4 DEF Range
<1>10. IsInjective(t)
  BY <1>3, <1>6 DEF IsInjective
<1>11. Range(t) = Range(s) \cup {x}
  BY <1>7, <1>8, <1>9
<1>. QED  BY <1>2, <1>10, <1>11 DEF Push, t

(* Taking the block at the head.                                           *)
LEMMA Popped ==
  ASSUME NEW S, NEW s \in Seq(S), IsInjective(s), s # <<>>
  PROVE  /\ Head(s) \in S /\ Head(s) \in Range(s)
         /\ Tail(s) \in Seq(S) /\ IsInjective(Tail(s)) /\ Range(Tail(s)) = Range(s) \ {Head(s)}
<1>. DEFINE t == Tail(s)
            n == Len(s)
<1>1. n \in Nat \ {0} /\ DOMAIN s = 1 .. n /\ Head(s) = s[1] /\ s[1] \in S /\ 1 \in 1 .. n
  OBVIOUS
<1>2. t \in Seq(S) /\ Len(t) = n - 1 /\ \A k \in 1 .. n - 1 : t[k] = s[k + 1]
  OBVIOUS
<1>3. DOMAIN t = 1 .. n - 1
  BY <1>2
<1>. HIDE DEF t, n
<1>4. ASSUME NEW k \in 1 .. n - 1 PROVE k + 1 \in 1 .. n /\ t[k] = s[k + 1]
  BY <1>1, <1>2
<1>5. ASSUME NEW k \in 1 .. n - 1, NEW l \in 1 .. n - 1, t[k] = t[l] PROVE k = l
  <2>1. k + 1 \in 1 .. n /\ l + 1 \in 1 .. n /\ s[k + 1] = s[l + 1]
    BY <1>4, <1>5
  <2>2. k + 1 = l + 1
    BY <1>1, <2>1 DEF IsInjective
  <2>. QED  BY <1>1, <2>2
<1>6. ASSUME NEW k \in 1 .. n, k # 1 PROVE k - 1 \in 1 .. n - 1 /\ t[k - 1] = s[k] /\ s[k] # s[1]
  BY <1>1, <1>2, <1>6 DEF IsInjective
<1>7. \A k \in 1 .. n - 1 : t[k] # s[1]
  BY <1>1, <1>4 DEF IsInjective
<1>8. Range(t) = Range(s) \ {s[1]}
  <2>1. ASSUME NEW y \in Range(t) PROVE y \in Range(s) \ {s[1]}
    BY <1>1, <1>3, <1>4, <1>7 DEF Range
  <2>2. ASSUME NEW y \in Range(s) \ {s[1]} PROVE y \in Range(t)
    <3>1. PICK k \in 1 .. n : y = s[k]
      BY <1>1 DEF Range
    <3>2. k # 1
      BY <3>1
    <3>. QED  BY <1>3, <1>6, <3>1, <3>2 DEF Range
  <2>. QED  BY <2>1, <2>2
<1>9. IsInjective(t)
  BY <1>3, <1>5 DEF IsInjective
<1>. QED  BY <1>1, <1>2, <1>8, <1>9 DEF Range, t

(* Unlinking a block that is on the list.                                  *)
LEMMA Unlinked ==
  ASSUME NEW S, NEW s \in Seq(S), NEW x, IsInjective(s), x \in Range(s)
  PROVE  /\ Unlink(x, s) \in Seq(S) /\ IsInjective(Unlink(x, s))
         /\ Range(Unlink(x, s)) = Range(s) \ {x}
<1>. DEFINE n == Len(s)
            m == CHOOSE p \in DOMAIN s : s[p] = x
            t == RemoveAt(s, m)
<1>1. n \in Nat /\ DOMAIN s = 1 .. n
  OBVIOUS
<1>2. m \in 1 .. n /\ s[m] = x
  BY <1>1 DEF Range
<1>3. Unlink(x, s) = t
  BY DEF Unlink
<1>. HIDE DEF m
<1>4. t \in Seq(S) /\ Len(t) = n - 1 /\ \A k \in 1 .. n - 1 : t[k] = s[IF k < m THEN k ELSE k + 1]
  BY <1>2, Removed
<1>5. DOMAIN t = 1 .. n - 1
  BY <1>4
<1>. HIDE DEF t, n
<1>6. ASSUME NEW k \in 1 .. n - 1
      PROVE  \E l \in 1 .. n : l # m /\ t[k] = s[l] /\ (k < m => l = k) /\ (~(k < m) => l = k + 1)
  <2>1. CASE k < m
    BY <1>1, <1>2, <1>4, <2>1
  <2>2. CASE ~(k < m)
    <3>1. k + 1 \in 1 .. n /\ k + 1 # m
      BY <1>1, <1>2, <2>2
    <3>. QED  BY <1>4, <2>2, <3>1
  <2>. QED  BY <2>1, <2>2
<1>7. ASSUME NEW k \in 1 .. n - 1, NEW l \in 1 .. n - 1, t[k] = t[l] PROVE k = l
  <2>1. PICK p \in 1 .. n : t[k] = s[p] /\ (k < m => p = k) /\ (~(k < m) => p = k + 1)
    BY <1>6
  <2>2. PICK q \in 1 .. n : t[l] = s[q] /\ (l < m => q = l) /\ (~(l < m) => q = l + 1)
    BY <1>6
  <2>3. p = q
    BY <1>1, <1>7, <2>1, <2>2 DEF IsInjective
  <2>. QED  BY <1>1, <1>2, <2>1, <2>2, <2>3
<1>8. ASSUME NEW l \in 1 .. n, l # m PROVE \E k \in 1 .. n - 1 : t[k] = s[l]
  <2>1. CASE l < m
    <3>1. l \in 1 .. n - 1
      BY <1>1, <1>2, <2>1
    <3>. QED  BY <1>4, <2>1, <3>1
  <2>2. CASE ~(l < m)
    <3>1. l - 1 \in 1 .. n - 1 /\ ~(l - 1 < m) /\ (l - 1) + 1 = l
      BY <1>1, <1>2, <1>8, <2>2
    <3>. QED  BY <1>4, <3>1
  <2>. QED  BY <2>1, <2>2
<1>9. \A k \in 1 .. n - 1 : t[k] # x
  BY <1>1, <1>2, <1>6 DEF IsInjective
<1>10. Range(t) = Range(s) \ {x}
  <2>1. ASSUME NEW y \in Range(t) PROVE y \in Range(s) \ {x}
    BY <1>1, <1>5, <1>6, <1>9 DEF Range
  <2>2. ASSUME NEW y \in Range(s) \ {x} PROVE y \in Range(t)
    BY <1>1, <1>2, <1>5, <1>8 DEF Range
  <2>. QED  BY <2>1, <2>2
<1>. QED  BY <1>3, <1>4, <1>5, <1>7, <1>10 DEF IsInjective

-----------------------------------------------------------------------------
(* The invariant of the allocator.  Blocks that are disjoint stay so only  *)
(* if no block is accounted for twice (NothingShared), and Page_Release    *)
(* merges with the right block only if the bits are right (BitsAgree).     *)

Members(k) == Range(Page_lists[k])
Calls == {<<>>} \cup {<<k>> : k \in Orders} \cup (Orders \X (0 .. Frames - 1))
Blocks == Free \cup owned \cup Returning

AllocType ==
    /\ Page_lists \in [Orders -> Seq(0 .. Frames - 1)]
    /\ Page_maps \in [Orders -> SUBSET Nat]
    /\ op \in [CPUs -> Calls]
    /\ owned \in SUBSET ((0 .. Frames - 1) \X Orders)

WellFormed(b) == OnBoundary(b[1], b[2]) /\ b[1] + PAGE_SIZE_AT_ORDER(b[2]) <= Frames

NothingShared ==
    /\ Free \cap owned = {} /\ Free \cap Returning = {} /\ owned \cap Returning = {}
    /\ \A c, d \in CPUs : Len(op[c]) = 2 /\ op[c] = op[d] => c = d

OrderAgrees(free, bits, k) ==
    \A a \in 0 .. Frames - 1 : OnBoundary(a, k + 1) =>
        LET lower == a \in free
            upper == a + PAGE_SIZE_AT_ORDER(k) \in free IN
        /\ ~(lower /\ upper)
        /\ PAGE_MAP_BIT(a, k) \in bits <=> (lower \/ upper)

BitsAgree == \A k \in 0 .. PAGE_MAX_ORDER - 1 : OrderAgrees(Members(k), Page_maps[k], k)

AllocInv ==
    /\ AllocType
    /\ \A b \in Blocks : WellFormed(b)
    /\ Disjoint(Blocks)
    /\ \A k \in Orders : IsInjective(Page_lists[k])
    /\ NothingShared
    /\ BitsAgree

(* The forms a call takes.                                                 *)
LEMMA CallForms ==
  ASSUME NEW v \in Calls
  PROVE  /\ Len(v) \in {0, 1, 2}
         /\ Len(v) = 0 <=> v = <<>>
         /\ Len(v) = 1 => v[1] \in Orders
         /\ Len(v) = 2 => v[1] \in Orders /\ v[2] \in 0 .. Frames - 1 /\ v = <<v[1], v[2]>>
<1>1. CASE v = <<>>
  BY <1>1
<1>2. ASSUME NEW k \in Orders, v = <<k>> PROVE Len(v) = 1 /\ v[1] = k /\ v # <<>>
  BY <1>2
<1>3. ASSUME v \in Orders \X (0 .. Frames - 1)
      PROVE  Len(v) = 2 /\ v[1] \in Orders /\ v[2] \in 0 .. Frames - 1 /\ v = <<v[1], v[2]>> /\ v # <<>>
  <2>1. PICK k \in Orders, a \in 0 .. Frames - 1 : v = <<k, a>>
    BY <1>3
  <2>2. Len(<<k, a>>) = 2 /\ <<k, a>>[1] = k /\ <<k, a>>[2] = a /\ <<k, a>> # <<>>
    OBVIOUS
  <2>. QED  BY <2>1, <2>2
<1>. QED  BY <1>1, <1>2, <1>3 DEF Calls

(* Every block is a frame number and an order.                             *)
LEMMA BlockForms ==
  ASSUME AllocType
  PROVE  /\ Blocks \subseteq (0 .. Frames - 1) \X Orders
         /\ \A b \in Blocks : b[1] \in Nat /\ b[1] < Frames /\ b[2] \in Nat /\ b[2] \in Orders /\ b = <<b[1], b[2]>>
         /\ \A a, k : <<a, k>> \in Free <=> k \in Orders /\ a \in Members(k)
<1>1. Frames \in Nat /\ PAGE_MAX_ORDER \in Nat
  BY AllocatorAssumption
<1>2. Free \subseteq (0 .. Frames - 1) \X Orders /\ owned \subseteq (0 .. Frames - 1) \X Orders
  BY DEF Free, AllocType
<1>3. Returning \subseteq (0 .. Frames - 1) \X Orders
  BY CallForms DEF Returning, AllocType
<1>4. ASSUME NEW b \in (0 .. Frames - 1) \X Orders
      PROVE  b[1] \in Nat /\ b[1] < Frames /\ b[2] \in Nat /\ b[2] \in Orders /\ b = <<b[1], b[2]>>
  BY <1>1 DEF Orders
<1>5. ASSUME NEW k \in Orders, NEW a \in Members(k) PROVE a \in 0 .. Frames - 1
  <2>1. Page_lists[k] \in Seq(0 .. Frames - 1)
    BY DEF AllocType
  <2>. QED  BY <2>1, InRange DEF Members
<1>6. ASSUME NEW a, NEW k PROVE <<a, k>> \in Free <=> k \in Orders /\ a \in Members(k)
  BY <1>5 DEF Free, Members
<1>. QED  BY <1>2, <1>3, <1>4, <1>6 DEF Blocks

(* The blocks in the hands of calls, when one call starts or ends.         *)
LEMMA ReturningNext ==
  ASSUME AllocType, NEW c \in CPUs, NEW v \in Calls, op' = [op EXCEPT ![c] = v]
  PROVE  /\ op' \in [CPUs -> Calls]
         /\ Returning' = {<<op[d][2], op[d][1]>> : d \in {e \in CPUs \ {c} : Len(op[e]) = 2}}
                         \cup {<<w[2], w[1]>> : w \in {u \in {v} : Len(u) = 2}}
<1>1. op \in [CPUs -> Calls]
  BY DEF AllocType
<1>2. op' \in [CPUs -> Calls]
  BY <1>1
<1>3. op'[c] = v /\ \A d \in CPUs \ {c} : op'[d] = op[d]
  BY <1>1
<1>4. Returning' = {<<op'[d][2], op'[d][1]>> : d \in {e \in CPUs : Len(op'[e]) = 2}}
  BY DEF Returning
<1>. DEFINE A == {<<op[d][2], op[d][1]>> : d \in {e \in CPUs \ {c} : Len(op[e]) = 2}}
            B == {<<w[2], w[1]>> : w \in {u \in {v} : Len(u) = 2}}
<1>5. ASSUME NEW b \in Returning' PROVE b \in A \cup B
  <2>1. PICK d \in CPUs : Len(op'[d]) = 2 /\ b = <<op'[d][2], op'[d][1]>>
    BY <1>4
  <2>2. CASE d = c
    BY <1>3, <2>1, <2>2
  <2>3. CASE d # c
    BY <1>3, <2>1, <2>3
  <2>. QED  BY <2>2, <2>3
<1>6. A \subseteq Returning'
  BY <1>3, <1>4
<1>7. B \subseteq Returning'
  BY <1>3, <1>4
<1>. QED  BY <1>2, <1>5, <1>6, <1>7

(* A call to Page_Acquire holds no block, when it starts nor when it ends. *)
LEMMA AcquiringNext ==
  ASSUME AllocInv, NEW c \in CPUs, NEW v \in Calls, Len(v) # 2, Len(op[c]) # 2, op' = [op EXCEPT ![c] = v]
  PROVE  /\ op' \in [CPUs -> Calls] /\ Returning' = Returning
         /\ \A d, e \in CPUs : Len(op'[d]) = 2 /\ op'[d] = op'[e] => d = e
<1>1. op \in [CPUs -> Calls] /\ AllocType
  BY DEF AllocInv, AllocType
<1>2. op' \in [CPUs -> Calls]
  BY <1>1, ReturningNext
<1>3. Returning' = Returning
  <2>1. Returning' = {<<op[d][2], op[d][1]>> : d \in {e \in CPUs \ {c} : Len(op[e]) = 2}}
                         \cup {<<w[2], w[1]>> : w \in {u \in {v} : Len(u) = 2}}
    BY <1>1, ReturningNext
  <2>2. {u \in {v} : Len(u) = 2} = {} /\ {e \in CPUs \ {c} : Len(op[e]) = 2} = {e \in CPUs : Len(op[e]) = 2}
    OBVIOUS
  <2>. QED  BY <2>1, <2>2 DEF Returning
<1>4. op'[c] = v /\ \A d \in CPUs \ {c} : op'[d] = op[d]
  BY <1>1
<1>5. ASSUME NEW d \in CPUs, NEW e \in CPUs, Len(op'[d]) = 2, op'[d] = op'[e] PROVE d = e
  <2>1. d # c /\ e # c
    BY <1>4, <1>5
  <2>. QED  BY <1>4, <1>5, <2>1 DEF AllocInv, NothingShared
<1>. QED  BY <1>2, <1>3, <1>5

(* Steps that leave the lists alone.                                       *)
LEMMA AcquiringStep ==
  ASSUME AllocInv, NEW c \in CPUs, NEW v \in Calls, Len(v) # 2, Len(op[c]) # 2, op' = [op EXCEPT ![c] = v],
         UNCHANGED <<Page_lists, Page_maps, owned>>
  PROVE  AllocInv' /\ Managed' = Managed
<1>1. /\ op' \in [CPUs -> Calls] /\ Returning' = Returning
      /\ \A d, e \in CPUs : Len(op'[d]) = 2 /\ op'[d] = op'[e] => d = e
  BY AcquiringNext
<1>2. Free' = Free /\ owned' = owned
  BY DEF Free
<1>3. Blocks' = Blocks /\ Managed' = Managed
  BY <1>1, <1>2 DEF Blocks, Managed
<1>4. AllocType'
  BY <1>1 DEF AllocInv, AllocType
<1>5. NothingShared'
  BY <1>1, <1>2 DEF AllocInv, NothingShared
<1>6. BitsAgree'
  BY DEF AllocInv, BitsAgree, Members
<1>. QED  BY <1>3, <1>4, <1>5, <1>6 DEF AllocInv

(* A block that is released is in the hands of the call.                   *)
LEMMA CallReleaseStep ==
  ASSUME AllocInv, NEW c \in CPUs, NEW block \in owned, CallRelease(c, block)
  PROVE  AllocInv' /\ Managed' = Managed
<1>1. /\ op[c] = <<>> /\ op' = [op EXCEPT ![c] = <<block[2], block[1]>>]
      /\ owned' = owned \ {block} /\ UNCHANGED <<Page_lists, Page_maps>>
  BY DEF CallRelease
<1>2. AllocType /\ op \in [CPUs -> Calls] /\ owned \in SUBSET ((0 .. Frames - 1) \X Orders)
  BY DEF AllocInv, AllocType
<1>. DEFINE v == <<block[2], block[1]>>
<1>3. v \in Calls /\ Len(v) = 2 /\ v[1] = block[2] /\ v[2] = block[1] /\ block = <<block[1], block[2]>>
  BY <1>2 DEF Calls
<1>. HIDE DEF v
<1>4. /\ op' \in [CPUs -> Calls]
      /\ Returning' = {<<op[d][2], op[d][1]>> : d \in {e \in CPUs \ {c} : Len(op[e]) = 2}}
                         \cup {<<w[2], w[1]>> : w \in {u \in {v} : Len(u) = 2}}
  BY <1>1, <1>2, <1>3, ReturningNext DEF v
<1>5. Len(op[c]) # 2
  BY <1>1
<1>6. Returning' = Returning \cup {block}
  <2>1. {<<op[d][2], op[d][1]>> : d \in {e \in CPUs \ {c} : Len(op[e]) = 2}} = Returning
    BY <1>5 DEF Returning
  <2>2. {u \in {v} : Len(u) = 2} = {v}
    BY <1>3
  <2>3. {<<w[2], w[1]>> : w \in {v}} = {block}
    BY <1>3
  <2>. QED  BY <1>4, <2>1, <2>2, <2>3
<1>7. Free' = Free
  BY <1>1 DEF Free
<1>8. Blocks' = Blocks /\ Managed' = Managed
  BY <1>1, <1>6, <1>7 DEF Blocks, Managed
<1>9. AllocType'
  BY <1>1, <1>2, <1>4 DEF AllocInv, AllocType
<1>10. NothingShared'
  <2>1. op'[c] = v /\ \A d \in CPUs \ {c} : op'[d] = op[d]
    BY <1>1, <1>2 DEF v
  <2>2. \A d \in CPUs : Len(op[d]) = 2 => op[d] # v
    <3>1. ASSUME NEW d \in CPUs, Len(op[d]) = 2, op[d] = v PROVE FALSE
      <4>1. block \in Returning
        BY <1>3, <3>1 DEF Returning
      <4>. QED  BY <4>1 DEF AllocInv, NothingShared
    <3>. QED  BY <3>1
  <2>3. ASSUME NEW d \in CPUs, NEW e \in CPUs, Len(op'[d]) = 2, op'[d] = op'[e] PROVE d = e
    <3>1. CASE d # c /\ e # c
      BY <2>1, <2>3, <3>1 DEF AllocInv, NothingShared
    <3>2. CASE d = c \/ e = c
      BY <1>3, <2>1, <2>2, <2>3, <3>2
    <3>. QED  BY <3>1, <3>2
  <2>4. (Free \cap owned = {} /\ Free \cap Returning = {} /\ owned \cap Returning = {})'
    BY <1>1, <1>6, <1>7 DEF AllocInv, NothingShared
  <2>. QED  BY <2>3, <2>4 DEF NothingShared
<1>11. BitsAgree'
  BY <1>1 DEF AllocInv, BitsAgree, Members
<1>12. \A k \in Orders : IsInjective(Page_lists'[k])
  BY <1>1 DEF AllocInv
<1>. QED  BY <1>8, <1>9, <1>10, <1>11, <1>12 DEF AllocInv

-----------------------------------------------------------------------------
(* What toggling a bit does to the agreement of an order.                  *)

(* Two blocks with the same bit are one, or buddies.                       *)
LEMMA PairOf ==
  ASSUME NEW k \in Nat, NEW p \in Nat, OnBoundary(p, k), NEW a \in Nat, OnBoundary(a, k + 1)
  PROVE  /\ PAGE_MAP_BIT(a, k) = PAGE_MAP_BIT(p, k) <=> p \in {a, a + PAGE_SIZE_AT_ORDER(k)}
         /\ p \in {a, a + PAGE_SIZE_AT_ORDER(k)} =>
               {p, PAGE_BUDDY(p, k)} = {a, a + PAGE_SIZE_AT_ORDER(k)} /\ p # PAGE_BUDDY(p, k)
<1>. DEFINE n == PAGE_SIZE_AT_ORDER(k)
            m == Merged(p, k + 1)
<1>1. /\ m \in Nat /\ n \in Nat \ {0} /\ PAGE_SIZE_AT_ORDER(k + 1) = n + n
      /\ \/ p = m /\ PAGE_BUDDY(p, k) = m + n
         \/ p = m + n /\ PAGE_BUDDY(p, k) = m
  BY Halves
<1>2. PAGE_MAP_BIT(a, k) = PAGE_MAP_BIT(p, k) <=> Merged(a, k + 1) = m
  BY SameBit
<1>3. Merged(a, k + 1) = a
  <2>1. k + 1 \in Nat
    OBVIOUS
  <2>. QED  BY <2>1, Boundary
<1>4. p \in {a, a + n} => m = a
  <2>1. k + 1 \in Nat /\ (p \in {a, a + n} => a <= p /\ p < a + PAGE_SIZE_AT_ORDER(k + 1))
    BY <1>1
  <2>. QED  BY <2>1, OneBlock
<1>. HIDE DEF n, m
<1>5. m = a => p \in {a, a + n} /\ {p, PAGE_BUDDY(p, k)} = {a, a + n} /\ p # PAGE_BUDDY(p, k)
  BY <1>1
<1>. QED  BY <1>2, <1>3, <1>4, <1>5 DEF n

(* Taking a block from the list of its order.                              *)
LEMMA Cleared ==
  ASSUME NEW k \in Nat, NEW free, NEW bits, OrderAgrees(free, bits, k),
         NEW p \in free, p \in Nat, OnBoundary(p, k)
  PROVE  OrderAgrees(free \ {p}, Toggle(bits, PAGE_MAP_BIT(p, k)), k)
<1>. DEFINE n == PAGE_SIZE_AT_ORDER(k)
<1>. SUFFICES ASSUME NEW a \in 0 .. Frames - 1, OnBoundary(a, k + 1)
              PROVE  /\ ~(a \in free \ {p} /\ a + n \in free \ {p})
                     /\ PAGE_MAP_BIT(a, k) \in Toggle(bits, PAGE_MAP_BIT(p, k))
                            <=> (a \in free \ {p} \/ a + n \in free \ {p})
  BY DEF OrderAgrees
<1>0. a \in Nat
  BY AllocatorAssumption
<1>1. /\ ~(a \in free /\ a + n \in free)
      /\ PAGE_MAP_BIT(a, k) \in bits <=> (a \in free \/ a + n \in free)
  BY DEF OrderAgrees
<1>2. PAGE_MAP_BIT(a, k) = PAGE_MAP_BIT(p, k) <=> p \in {a, a + n}
  BY <1>0, PairOf
<1>. HIDE DEF n
<1>3. CASE p \in {a, a + n}
  BY <1>1, <1>2, <1>3 DEF Toggle
<1>4. CASE p \notin {a, a + n}
  BY <1>1, <1>2, <1>4 DEF Toggle
<1>. QED  BY <1>3, <1>4

(* Putting a block on the list, when neither it nor its buddy is there.    *)
LEMMA Marked ==
  ASSUME NEW k \in Nat, NEW free, NEW bits, OrderAgrees(free, bits, k),
         NEW p \in Nat, OnBoundary(p, k), p \notin free, PAGE_BUDDY(p, k) \notin free
  PROVE  OrderAgrees(free \cup {p}, Toggle(bits, PAGE_MAP_BIT(p, k)), k)
<1>. DEFINE n == PAGE_SIZE_AT_ORDER(k)
<1>. SUFFICES ASSUME NEW a \in 0 .. Frames - 1, OnBoundary(a, k + 1)
              PROVE  /\ ~(a \in free \cup {p} /\ a + n \in free \cup {p})
                     /\ PAGE_MAP_BIT(a, k) \in Toggle(bits, PAGE_MAP_BIT(p, k))
                            <=> (a \in free \cup {p} \/ a + n \in free \cup {p})
  BY DEF OrderAgrees
<1>0. a \in Nat
  BY AllocatorAssumption
<1>1. /\ ~(a \in free /\ a + n \in free)
      /\ PAGE_MAP_BIT(a, k) \in bits <=> (a \in free \/ a + n \in free)
  BY DEF OrderAgrees
<1>2. /\ PAGE_MAP_BIT(a, k) = PAGE_MAP_BIT(p, k) <=> p \in {a, a + n}
      /\ p \in {a, a + n} => {p, PAGE_BUDDY(p, k)} = {a, a + n} /\ p # PAGE_BUDDY(p, k)
  BY <1>0, PairOf
<1>. HIDE DEF n
<1>3. CASE p \in {a, a + n}
  <2>1. a \notin free /\ a + n \notin free /\ a # a + n
    BY <1>2, <1>3
  <2>. QED  BY <1>1, <1>2, <1>3, <2>1 DEF Toggle
<1>4. CASE p \notin {a, a + n}
  BY <1>1, <1>2, <1>4 DEF Toggle
<1>. QED  BY <1>3, <1>4

-----------------------------------------------------------------------------
(* Page_Acquire.                                                           *)

Pieces(page, order, i) == {<<page + PAGE_SIZE_AT_ORDER(k), k>> : k \in order .. i - 1}

(* The pieces of a block that is split cover it and do not overlap.        *)
LEMMA SplitBlocks ==
  ASSUME NEW page \in Nat, NEW order \in Nat, NEW i \in Nat, order <= i
  PROVE  LET N == {<<page, order>>} \cup Pieces(page, order, i) IN
         /\ Space(N) = Space({<<page, i>>}) /\ Disjoint(N)
         /\ <<page, order>> \notin Pieces(page, order, i)
<1>. DEFINE S(k) == PAGE_SIZE_AT_ORDER(k)
            P == Pieces(page, order, i)
            N == {<<page, order>>} \cup P
<1>1. /\ Block(page, i) = Block(page, order) \cup UNION {Block(page + S(k), k) : k \in order .. i - 1}
      /\ \A k \in order .. i - 1 : Block(page, order) \cap Block(page + S(k), k) = {}
      /\ \A k, l \in order .. i - 1 : k < l => Block(page + S(k), k) \cap Block(page + S(l), l) = {}
  BY Ladder
<1>. HIDE DEF S
<1>2. \A a, k : BlockOf(<<a, k>>) = Block(a, k)
  BY DEF BlockOf
<1>3. \A b \in P : \E k \in order .. i - 1 : b = <<page + S(k), k>>
  BY DEF Pieces, S
<1>4. \A k \in order .. i - 1 : <<page + S(k), k>> \in P
  BY DEF Pieces, S
<1>. HIDE DEF P
<1>5. Space({<<page, i>>}) = Block(page, i)
  BY <1>2 DEF Space
<1>6. Space(P) = UNION {Block(page + S(k), k) : k \in order .. i - 1}
  <2>1. ASSUME NEW x \in Space(P) PROVE \E k \in order .. i - 1 : x \in Block(page + S(k), k)
    BY <1>2, <1>3 DEF Space
  <2>2. ASSUME NEW k \in order .. i - 1, NEW x \in Block(page + S(k), k) PROVE x \in Space(P)
    BY <1>2, <1>4 DEF Space
  <2>. QED  BY <2>1, <2>2
<1>7. Space(N) = Block(page, order) \cup Space(P)
  BY <1>2 DEF Space
<1>8. Space(N) = Space({<<page, i>>})
  BY <1>1, <1>5, <1>6, <1>7
<1>9. ASSUME NEW b \in P, NEW d \in P, b # d PROVE BlockOf(b) \cap BlockOf(d) = {}
  <2>1. PICK k \in order .. i - 1 : b = <<page + S(k), k>>
    BY <1>3
  <2>2. PICK l \in order .. i - 1 : d = <<page + S(l), l>>
    BY <1>3
  <2>3. k # l
    BY <1>9, <2>1, <2>2
  <2>4. k < l \/ l < k
    BY <2>3
  <2>. QED  BY <1>1, <1>2, <2>1, <2>2, <2>4
<1>10. ASSUME NEW b \in P PROVE BlockOf(b) \cap Block(page, order) = {}
  BY <1>1, <1>2, <1>3
<1>11. Disjoint(N)
  BY <1>2, <1>9, <1>10 DEF Disjoint
<1>12. <<page, order>> \notin P
  <2>1. page \in Block(page, order)
    BY Apart
  <2>. QED  BY <1>2, <1>10, <2>1
<1>. QED  BY <1>8, <1>11, <1>12 DEF P

(* They lie on boundaries and inside the block.                            *)
LEMMA SplitWellFormed ==
  ASSUME NEW page \in Nat, NEW order \in Nat, NEW i \in Nat, order <= i, WellFormed(<<page, i>>)
  PROVE  /\ WellFormed(<<page, order>>)
         /\ \A k \in order .. i - 1 :
               /\ WellFormed(<<page + PAGE_SIZE_AT_ORDER(k), k>>)
               /\ page + PAGE_SIZE_AT_ORDER(k) \in 0 .. Frames - 1
               /\ OnBoundary(page, k + 1)
<1>1. OnBoundary(page, i) /\ page + PAGE_SIZE_AT_ORDER(i) <= Frames /\ Frames \in Nat
  BY AllocatorAssumption DEF WellFormed
<1>2. ASSUME NEW k \in Nat, order <= k, k <= i
      PROVE  /\ OnBoundary(page, k) /\ PAGE_SIZE_AT_ORDER(k) \in Nat \ {0}
             /\ PAGE_SIZE_AT_ORDER(k) <= PAGE_SIZE_AT_ORDER(i)
             /\ k < i => PAGE_SIZE_AT_ORDER(k) + PAGE_SIZE_AT_ORDER(k) <= PAGE_SIZE_AT_ORDER(i)
  <2>1. OnBoundary(page, k)
    BY <1>1, <1>2, Coarser DEF OnBoundary
  <2>2. PAGE_SIZE_AT_ORDER(k) \in Nat \ {0} /\ PAGE_SIZE_AT_ORDER(i) \in Nat
    BY Sizes
  <2>3. k < i => PAGE_SIZE_AT_ORDER(k) + PAGE_SIZE_AT_ORDER(k) <= PAGE_SIZE_AT_ORDER(i)
    BY Larger
  <2>4. k = i \/ k < i
    BY <1>2
  <2>. QED  BY <2>1, <2>2, <2>3, <2>4
<1>3. PAGE_SIZE_AT_ORDER(i) \in Nat
  BY Sizes
<1>4. WellFormed(<<page, order>>)
  <2>1. OnBoundary(page, order) /\ page + PAGE_SIZE_AT_ORDER(order) <= Frames
    BY <1>1, <1>2, <1>3
  <2>. QED  BY <2>1 DEF WellFormed
<1>5. ASSUME NEW k \in order .. i - 1
      PROVE  /\ WellFormed(<<page + PAGE_SIZE_AT_ORDER(k), k>>)
             /\ page + PAGE_SIZE_AT_ORDER(k) \in 0 .. Frames - 1
             /\ OnBoundary(page, k + 1)
  <2>. DEFINE n == PAGE_SIZE_AT_ORDER(k)
  <2>1. k \in Nat /\ order <= k /\ k < i /\ k + 1 \in Nat /\ k + 1 <= i /\ k <= i /\ order <= k + 1
    OBVIOUS
  <2>2. OnBoundary(page, k) /\ n \in Nat \ {0} /\ n + n <= PAGE_SIZE_AT_ORDER(i) /\ OnBoundary(page, k + 1)
    BY <1>2, <2>1
  <2>3. OnBoundary(page + n, k)
    BY <2>2, NextMultiple DEF OnBoundary
  <2>4. page + n + n <= Frames /\ page + n \in 0 .. Frames - 1
    <3>. HIDE DEF n
    <3>. QED  BY <1>1, <1>3, <2>2
  <2>. QED  BY <2>2, <2>3, <2>4 DEF WellFormed
<1>. QED  BY <1>4, <1>5

(* Page_Acquire takes the first block of the first list that has one, and  *)
(* the lists below it are empty.                                           *)
LEMMA AcquireFacts ==
  ASSUME AllocInv, NEW c \in CPUs, Page_Acquire(c)
  PROVE  LET order == op[c][1]
             i == Min(NonEmpty(order))
             page == Head(Page_lists[i]) IN
         /\ order \in Orders /\ i \in Orders /\ order <= i /\ page \in 0 .. Frames - 1
         /\ <<page, i>> \in Free /\ WellFormed(<<page, i>>)
         /\ \A k \in order .. i - 1 : Page_lists[k] = <<>> /\ k \in Orders
         /\ Tail(Page_lists[i]) \in Seq(0 .. Frames - 1) /\ IsInjective(Tail(Page_lists[i]))
         /\ Range(Tail(Page_lists[i])) = Members(i) \ {page}
<1>. DEFINE order == op[c][1]
            i == Min(NonEmpty(order))
            page == Head(Page_lists[i])
<1>1. AllocType /\ op[c] \in Calls /\ Len(op[c]) = 1 /\ NonEmpty(order) # {}
  BY DEF AllocInv, AllocType, Page_Acquire
<1>2. order \in Orders /\ PAGE_MAX_ORDER \in Nat
  BY <1>1, CallForms, AllocatorAssumption
<1>. HIDE DEF order
<1>3. NonEmpty(order) \in SUBSET Nat
  BY <1>2 DEF NonEmpty, Orders
<1>4. i \in NonEmpty(order) /\ \A k \in NonEmpty(order) : i <= k
  BY <1>1, <1>3, MinOf
<1>. HIDE DEF i
<1>5. i \in Orders /\ order <= i /\ Page_lists[i] # <<>>
  BY <1>2, <1>4 DEF NonEmpty, Orders
<1>6. ASSUME NEW k \in order .. i - 1 PROVE Page_lists[k] = <<>> /\ k \in Orders
  <2>1. k \in order .. PAGE_MAX_ORDER /\ ~(i <= k) /\ k \in Orders
    BY <1>2, <1>5 DEF Orders
  <2>. QED  BY <1>4, <2>1 DEF NonEmpty
<1>7. Page_lists[i] \in Seq(0 .. Frames - 1) /\ IsInjective(Page_lists[i])
  BY <1>1, <1>5 DEF AllocInv, AllocType
<1>8. /\ page \in 0 .. Frames - 1 /\ page \in Members(i)
      /\ Tail(Page_lists[i]) \in Seq(0 .. Frames - 1) /\ IsInjective(Tail(Page_lists[i]))
      /\ Range(Tail(Page_lists[i])) = Members(i) \ {page}
  BY <1>5, <1>7, Popped DEF Members
<1>. HIDE DEF page
<1>9. <<page, i>> \in Free
  BY <1>1, <1>5, <1>8, BlockForms
<1>10. WellFormed(<<page, i>>)
  BY <1>9 DEF AllocInv, Blocks
<1>. QED  BY <1>2, <1>5, <1>6, <1>8, <1>9, <1>10 DEF order, i, page

(* Page_Acquire keeps the invariant and every frame.                       *)
LEMMA AcquireStep ==
  ASSUME AllocInv, NEW c \in CPUs, Page_Acquire(c)
  PROVE  AllocInv' /\ Managed' = Managed
<1>. DEFINE order == op[c][1]
            i == Min(NonEmpty(order))
            page == Head(Page_lists[i])
            P == Pieces(page, order, i)
            R == {<<page, i>>}
            N == {<<page, order>>} \cup P
<1>1. /\ order \in Orders /\ i \in Orders /\ order <= i /\ page \in 0 .. Frames - 1
      /\ <<page, i>> \in Free /\ WellFormed(<<page, i>>)
      /\ \A k \in order .. i - 1 : Page_lists[k] = <<>> /\ k \in Orders
      /\ Tail(Page_lists[i]) \in Seq(0 .. Frames - 1) /\ IsInjective(Tail(Page_lists[i]))
      /\ Range(Tail(Page_lists[i])) = Members(i) \ {page}
  BY AcquireFacts
<1>2. /\ Page_lists' = [k \in Orders |-> IF k = i THEN Tail(Page_lists[k])
                                       ELSE IF k \in order .. i - 1 THEN <<Split(page, k)>>
                                       ELSE Page_lists[k]]
      /\ Page_maps' = Toggled(page, order, i)
      /\ owned' = owned \cup {<<page, order>>}
      /\ op' = [op EXCEPT ![c] = <<>>]
      /\ Len(op[c]) = 1
  BY DEF Page_Acquire
<1>. HIDE DEF order, i, page
<1>3. /\ order \in Nat /\ i \in Nat /\ page \in Nat /\ PAGE_MAX_ORDER \in Nat /\ Frames \in Nat
      /\ AllocType /\ <<>> \in Calls /\ Len(<<>>) # 2 /\ Len(op[c]) # 2
  BY <1>1, <1>2, AllocatorAssumption DEF Orders, AllocInv, Calls
<1>4. /\ Space(N) = Space(R) /\ Disjoint(N) /\ <<page, order>> \notin P
  BY <1>1, <1>3, SplitBlocks
<1>5. /\ WellFormed(<<page, order>>)
      /\ \A k \in order .. i - 1 :
               /\ WellFormed(<<page + PAGE_SIZE_AT_ORDER(k), k>>)
               /\ page + PAGE_SIZE_AT_ORDER(k) \in 0 .. Frames - 1
               /\ OnBoundary(page, k + 1)
  BY <1>1, <1>3, SplitWellFormed
<1>6. /\ op' \in [CPUs -> Calls] /\ Returning' = Returning
      /\ \A d, e \in CPUs : Len(op'[d]) = 2 /\ op'[d] = op'[e] => d = e
  BY <1>2, <1>3, AcquiringNext
(* The lists.                                                              *)
<1>7. ASSUME NEW k \in Orders
      PROVE  /\ Page_lists'[k] \in Seq(0 .. Frames - 1) /\ IsInjective(Page_lists'[k])
             /\ k = i => Members(k)' = Members(i) \ {page}
             /\ k \in order .. i - 1 => Members(k)' = {page + PAGE_SIZE_AT_ORDER(k)} /\ Members(k) = {}
             /\ k # i /\ k \notin order .. i - 1 => Members(k)' = Members(k)
  <2>1. CASE k = i
    <3>1. Page_lists'[k] = Tail(Page_lists[i]) /\ k \notin order .. i - 1
      BY <1>2, <1>3, <2>1
    <3>. QED  BY <1>1, <2>1, <3>1 DEF Members
  <2>2. CASE k \in order .. i - 1
    <3>. DEFINE x == page + PAGE_SIZE_AT_ORDER(k)
    <3>1. Page_lists'[k] = <<x>> /\ k # i
      BY <1>2, <1>3, <2>2 DEF Split
    <3>2. x \in 0 .. Frames - 1 /\ Page_lists[k] = <<>>
      BY <1>1, <1>5, <2>2
    <3>. HIDE DEF x
    <3>3. <<x>> \in Seq(0 .. Frames - 1) /\ IsInjective(<<x>>) /\ Range(<<x>>) = {x} /\ Range(<<>>) = {}
      BY <3>2 DEF IsInjective, Range
    <3>. QED  BY <2>2, <3>1, <3>2, <3>3 DEF Members, x
  <2>3. CASE k # i /\ k \notin order .. i - 1
    BY <1>2, <1>3, <2>3 DEF AllocInv, AllocType, Members
  <2>. QED  BY <2>1, <2>2, <2>3
<1>8. AllocType'
  <2>1. Page_lists' \in [Orders -> Seq(0 .. Frames - 1)]
    BY <1>2, <1>7
  <2>2. Page_maps' \in [Orders -> SUBSET Nat]
    <3>1. ASSUME NEW k \in Orders PROVE PAGE_MAP_BIT(page, k) \in Nat
      <4>1. k + 1 \in Nat
        BY <1>3 DEF Orders
      <4>. QED  BY <1>3, <4>1, Sizes, Division DEF PAGE_MAP_BIT
    <3>. QED  BY <1>2, <1>3, <3>1 DEF Toggled, Toggle, AllocType
  <2>3. owned' \in SUBSET ((0 .. Frames - 1) \X Orders)
    BY <1>1, <1>2, <1>3 DEF AllocType
  <2>. QED  BY <1>6, <2>1, <2>2, <2>3 DEF AllocType
(* The blocks.                                                             *)
<1>9. Free' = (Free \ R) \cup P
  <2>1. ASSUME NEW a, NEW k PROVE <<a, k>> \in Free <=> k \in Orders /\ a \in Members(k)
    BY <1>3, BlockForms
  <2>2. ASSUME NEW a, NEW k PROVE <<a, k>> \in Free' <=> k \in Orders /\ a \in Members(k)'
    <3>1. k \in Orders => Members(k)' \subseteq 0 .. Frames - 1
      BY <1>7, InRange DEF Members
    <3>. QED  BY <3>1 DEF Free, Members
  <2>3. ASSUME NEW a, NEW k PROVE <<a, k>> \in P <=> k \in order .. i - 1 /\ a = page + PAGE_SIZE_AT_ORDER(k)
    BY DEF Pieces
  <2>. HIDE DEF P
  <2>4. ASSUME NEW a, NEW k PROVE <<a, k>> \in Free' <=> <<a, k>> \in (Free \ R) \cup P
    <3>1. CASE k \notin Orders
      BY <1>1, <2>1, <2>2, <2>3, <3>1
    <3>2. CASE k = i
      <4>1. k \notin order .. i - 1
        BY <1>3, <3>2
      <4>. QED  BY <1>1, <1>7, <2>1, <2>2, <2>3, <3>2, <4>1
    <3>3. CASE k \in order .. i - 1
      BY <1>1, <1>7, <2>1, <2>2, <2>3, <3>3
    <3>4. CASE k \in Orders /\ k # i /\ k \notin order .. i - 1
      BY <1>7, <2>1, <2>2, <2>3, <3>4
    <3>. QED  BY <3>1, <3>2, <3>3, <3>4
  <2>5. \A b \in Free' \cup Free \cup P : b = <<b[1], b[2]>>
    BY <1>8 DEF Free, P, Pieces
  <2>6. ASSUME NEW b \in Free' PROVE b \in (Free \ R) \cup P
    BY <2>4, <2>5
  <2>7. ASSUME NEW b \in (Free \ R) \cup P PROVE b \in Free'
    BY <2>4, <2>5
  <2>. QED  BY <2>6, <2>7
<1>10. R \in SUBSET Blocks /\ R \cap owned = {} /\ R \cap Returning = {}
  BY <1>1 DEF Blocks, AllocInv, NothingShared
<1>11. Blocks' = (Blocks \ R) \cup N
  BY <1>2, <1>6, <1>9, <1>10 DEF Blocks
<1>12. /\ Disjoint((Blocks \ R) \cup N) /\ Space((Blocks \ R) \cup N) = Space(Blocks)
       /\ \A b \in Blocks \ R : BlockOf(b) # {} => b \notin N
  <2>. HIDE DEF R, N
  <2>. QED  BY <1>4, <1>10, Exchange DEF AllocInv
<1>13. Disjoint(Blocks') /\ Managed' = Managed
  BY <1>11, <1>12 DEF Managed, Space, Blocks, BlockOf
<1>14. ASSUME NEW b \in Blocks' PROVE WellFormed(b)
  <2>1. CASE b \in Blocks
    BY <2>1 DEF AllocInv
  <2>2. CASE b \in N
    BY <1>5, <2>2 DEF Pieces
  <2>. QED  BY <1>11, <2>1, <2>2
<1>15. \A b \in Blocks \ R : b \notin N
  <2>1. ASSUME NEW b \in Blocks PROVE BlockOf(b) # {}
    <3>1. b[1] \in Nat /\ b[2] \in Nat
      BY <1>3, BlockForms
    <3>. QED  BY <3>1, Apart DEF BlockOf
  <2>. QED  BY <1>12, <2>1
<1>16. (Free \cap owned = {} /\ Free \cap Returning = {} /\ owned \cap Returning = {})'
  <2>1. Free \cap owned = {} /\ Free \cap Returning = {} /\ owned \cap Returning = {}
    BY DEF AllocInv, NothingShared
  <2>2. owned \cap N = {} /\ Returning \cap N = {} /\ (Free \ R) \cap N = {}
    BY <1>10, <1>15 DEF Blocks
  <2>. HIDE DEF P, R
  <2>. QED  BY <1>2, <1>4, <1>6, <1>9, <2>1, <2>2
<1>17. NothingShared'
  BY <1>6, <1>16 DEF NothingShared
(* The bits.                                                               *)
<1>18. ASSUME NEW k \in 0 .. PAGE_MAX_ORDER - 1 PROVE OrderAgrees(Members(k)', Page_maps'[k], k)
  <2>1. k \in Nat /\ k \in Orders /\ OrderAgrees(Members(k), Page_maps[k], k)
    BY <1>3 DEF Orders, AllocInv, BitsAgree
  <2>2. Page_maps'[k] = IF k \in order .. i THEN Toggle(Page_maps[k], PAGE_MAP_BIT(page, k)) ELSE Page_maps[k]
    BY <1>2, <2>1 DEF Toggled
  <2>3. CASE k = i
    <3>1. page \in Members(k) /\ OnBoundary(page, k) /\ k \in order .. i /\ Members(k)' = Members(k) \ {page}
      BY <1>1, <1>3, <1>7, <2>1, <2>3, BlockForms DEF WellFormed
    <3>. QED  BY <1>3, <2>1, <2>2, <3>1, Cleared
  <2>4. CASE k \in order .. i - 1
    <3>. DEFINE p == page + PAGE_SIZE_AT_ORDER(k)
    <3>1. p \in Nat /\ OnBoundary(p, k) /\ OnBoundary(page, k + 1) /\ k \in order .. i
      BY <1>3, <1>5, <2>4 DEF WellFormed
    <3>2. Members(k) = {} /\ Members(k)' = Members(k) \cup {p}
      BY <1>7, <2>1, <2>4
    <3>3. PAGE_MAP_BIT(page, k) = PAGE_MAP_BIT(p, k)
      BY <1>3, <2>1, <3>1, PairOf
    <3>. HIDE DEF p
    <3>4. OrderAgrees(Members(k) \cup {p}, Toggle(Page_maps[k], PAGE_MAP_BIT(p, k)), k)
      BY <2>1, <3>1, <3>2, Marked
    <3>. QED  BY <2>2, <3>1, <3>2, <3>3, <3>4
  <2>5. CASE k # i /\ k \notin order .. i - 1
    <3>1. k \notin order .. i
      BY <1>3, <2>1, <2>5
    <3>. QED  BY <1>7, <2>1, <2>2, <2>5, <3>1
  <2>. QED  BY <2>3, <2>4, <2>5
<1>19. BitsAgree'
  BY <1>18 DEF BitsAgree
<1>20. \A k \in Orders : IsInjective(Page_lists'[k])
  BY <1>7
<1>. QED  BY <1>8, <1>13, <1>14, <1>17, <1>19, <1>20 DEF AllocInv

-----------------------------------------------------------------------------
(* Page_Release.                                                           *)

(* The order a released block is merged up to.                             *)
LEMMA MergesToFacts ==
  ASSUME NEW page, NEW order \in Orders
  PROVE  LET i == MergesTo(page, order) IN
         /\ i \in Orders /\ order <= i /\ i \in Nat /\ order \in Nat
         /\ i = PAGE_MAX_ORDER \/ PAGE_MAP_BIT(page, i) \notin Page_maps[i]
         /\ \A k \in order .. i - 1 :
               /\ k \in Nat /\ k \in Orders /\ k \in 0 .. PAGE_MAX_ORDER - 1
               /\ PAGE_MAP_BIT(page, k) \in Page_maps[k]
<1>. DEFINE M == {k \in order .. PAGE_MAX_ORDER : k = PAGE_MAX_ORDER \/ PAGE_MAP_BIT(page, k) \notin Page_maps[k]}
            i == MergesTo(page, order)
<1>1. PAGE_MAX_ORDER \in Nat /\ order \in Nat /\ order <= PAGE_MAX_ORDER
  BY AllocatorAssumption DEF Orders
<1>2. M \in SUBSET Nat /\ PAGE_MAX_ORDER \in M
  BY <1>1
<1>3. i = Min(M)
  BY DEF MergesTo
<1>. HIDE DEF i
<1>4. i \in M /\ \A k \in M : i <= k
  <2>. HIDE DEF M
  <2>. QED  BY <1>2, <1>3, MinOf
<1>5. i \in Orders /\ order <= i /\ i \in Nat /\ (i = PAGE_MAX_ORDER \/ PAGE_MAP_BIT(page, i) \notin Page_maps[i])
  BY <1>1, <1>4 DEF Orders
<1>6. ASSUME NEW k \in order .. i - 1
      PROVE  /\ k \in Nat /\ k \in Orders /\ k \in 0 .. PAGE_MAX_ORDER - 1
             /\ PAGE_MAP_BIT(page, k) \in Page_maps[k]
  <2>1. k \in order .. PAGE_MAX_ORDER /\ ~(i <= k) /\ k # PAGE_MAX_ORDER /\ k \in Nat /\ k \in Orders
        /\ k \in 0 .. PAGE_MAX_ORDER - 1
    BY <1>1, <1>4, <1>5 DEF Orders
  <2>. QED  BY <1>4, <2>1
<1>. QED  BY <1>1, <1>5, <1>6 DEF i

(* The block in the hands of Page_Release, and that none on the lists has  *)
(* its first frame.                                                        *)
LEMMA ReturningFacts ==
  ASSUME AllocInv, NEW c \in CPUs, Len(op[c]) = 2
  PROVE  LET order == op[c][1]
             page == op[c][2] IN
         /\ order \in Orders /\ page \in 0 .. Frames - 1 /\ page \in Nat /\ op[c] = <<order, page>>
         /\ <<page, order>> \in Returning /\ WellFormed(<<page, order>>)
         /\ \A k \in Orders : Merged(page, k) \notin Members(k)
<1>. DEFINE order == op[c][1]
            page == op[c][2]
<1>1. AllocType /\ op[c] \in Calls
  BY DEF AllocInv, AllocType
<1>2. order \in Orders /\ page \in 0 .. Frames - 1 /\ op[c] = <<order, page>>
  BY <1>1, CallForms
<1>3. <<page, order>> \in Returning
  BY DEF Returning
<1>4. WellFormed(<<page, order>>) /\ <<page, order>> \in Blocks /\ <<page, order>> \notin Free
  BY <1>3 DEF AllocInv, Blocks, NothingShared
<1>. HIDE DEF order, page
<1>5. page \in Nat /\ order \in Nat
  BY <1>2, AllocatorAssumption DEF Orders
<1>6. ASSUME NEW k \in Orders, Merged(page, k) \in Members(k) PROVE FALSE
  <2>. DEFINE m == Merged(page, k)
  <2>1. k \in Nat
    BY AllocatorAssumption DEF Orders
  <2>2. m \in Nat /\ m <= page /\ page < m + PAGE_SIZE_AT_ORDER(k) /\ PAGE_SIZE_AT_ORDER(k) \in Nat
    BY <1>5, <2>1, Boundary, Sizes
  <2>3. <<m, k>> \in Free
    BY <1>1, <1>6, BlockForms
  <2>. HIDE DEF m
  <2>4. <<m, k>> \in Blocks /\ <<m, k>> # <<page, order>>
    BY <1>4, <2>3 DEF Blocks
  <2>5. Block(m, k) \cap Block(page, order) = {}
    BY <1>4, <2>4 DEF AllocInv, Disjoint, BlockOf
  <2>6. page \in Block(page, order)
    BY <1>5, Apart
  <2>7. page \in Block(m, k)
    BY <1>5, <2>2 DEF Block
  <2>. QED  BY <2>5, <2>6, <2>7
<1>. QED  BY <1>2, <1>3, <1>4, <1>5, <1>6 DEF order, page

(* A bit that is set stands for the buddy of the block being released, if  *)
(* that block is on a boundary of the order.                               *)
LEMMA BuddyIsFree ==
  ASSUME AllocInv, NEW c \in CPUs, Len(op[c]) = 2,
         NEW k \in 0 .. PAGE_MAX_ORDER - 1, OnBoundary(op[c][2], k), PAGE_MAP_BIT(op[c][2], k) \in Page_maps[k]
  PROVE  PAGE_BUDDY(op[c][2], k) \in Members(k)
<1>. DEFINE page == op[c][2]
            a == Merged(page, k + 1)
            n == PAGE_SIZE_AT_ORDER(k)
<1>1. k \in Nat /\ k + 1 \in Nat /\ k \in Orders /\ Frames \in Nat
  BY AllocatorAssumption DEF Orders
<1>2. page \in 0 .. Frames - 1 /\ page \in Nat /\ Merged(page, k) \notin Members(k)
  BY <1>1, ReturningFacts
<1>3. OnBoundary(page, k) /\ PAGE_MAP_BIT(page, k) \in Page_maps[k]
  OBVIOUS
<1>. HIDE DEF page
<1>4. Merged(page, k) = page
  BY <1>1, <1>2, <1>3, Boundary
<1>5. a \in Nat /\ OnBoundary(a, k + 1) /\ a <= page
  BY <1>1, <1>2, Boundary
<1>6. a \in 0 .. Frames - 1
  <2>. HIDE DEF a
  <2>. QED  BY <1>1, <1>2, <1>5
<1>7. page \in {a, a + n}
  BY <1>1, <1>2, <1>3, Halves
<1>. HIDE DEF a
<1>8. PAGE_MAP_BIT(a, k) = PAGE_MAP_BIT(page, k) /\ {page, PAGE_BUDDY(page, k)} = {a, a + n}
  BY <1>1, <1>2, <1>3, <1>5, <1>7, PairOf
<1>9. a \in Members(k) \/ a + n \in Members(k)
  BY <1>3, <1>5, <1>6, <1>8 DEF AllocInv, BitsAgree, OrderAgrees
<1>. HIDE DEF n
<1>10. PAGE_BUDDY(page, k) \in Members(k)
  BY <1>2, <1>4, <1>8, <1>9
<1>. QED  BY <1>10 DEF page

(* A block whose buddy is on the list of the order is on a boundary of it. *)
LEMMA LinkedOnBoundary ==
  ASSUME AllocInv, NEW page \in Nat, NEW k \in Orders, PAGE_BUDDY(page, k) \in Members(k)
  PROVE  OnBoundary(page, k)
<1>. DEFINE b == PAGE_BUDDY(page, k)
            n == PAGE_SIZE_AT_ORDER(k)
<1>1. k \in Nat
  BY AllocatorAssumption DEF Orders
<1>2. n \in Nat \ {0}
  BY <1>1, Sizes
<1>3. <<b, k>> \in Free
  BY BlockForms DEF AllocInv
<1>4. b = page + n \/ b = page - n
  BY DEF PAGE_BUDDY
<1>. HIDE DEF b
<1>5. <<b, k>> \in Blocks
  BY <1>3 DEF Blocks
<1>6. b \in Nat
  BY <1>5, BlockForms DEF AllocInv
<1>7. b % n = 0
  BY <1>5 DEF AllocInv, WellFormed, OnBoundary
<1>. HIDE DEF n
<1>8. (b + n) % n = 0 /\ (b >= n => (b - n) % n = 0)
  BY <1>2, <1>6, <1>7, NextMultiple
<1>9. (page = b - n /\ b >= n) \/ page = b + n
  BY <1>2, <1>4, <1>6
<1>10. page % n = 0
  BY <1>8, <1>9
<1>. QED  BY <1>10 DEF OnBoundary, n

BuddiesOf(page, order, i) == {<<PAGE_BUDDY(page, k), k>> : k \in order .. i - 1}

(* The blocks that are merged cover the merged block.                      *)
LEMMA MergeBlocks ==
  ASSUME NEW page \in Nat, NEW order \in Nat, NEW i \in Nat, order <= i,
         OnBoundary(page, order), \A k \in order .. i - 1 : OnBoundary(page, k)
  PROVE  Space({<<Merged(page, i), i>>}) = Space({<<page, order>>} \cup BuddiesOf(page, order, i))
<1>. DEFINE m == Merged(page, i)
            D == BuddiesOf(page, order, i)
<1>0. \A a, k : BlockOf(<<a, k>>) = Block(a, k)
  BY DEF BlockOf
<1>1. Space({<<m, i>>}) = Block(m, i)
  BY <1>0 DEF Space
<1>2. Space({<<page, order>>} \cup D) = Block(page, order) \cup Space(D)
  BY <1>0 DEF Space
<1>3. Space(D) = UNION {Block(PAGE_BUDDY(page, k), k) : k \in order .. i - 1}
  <2>1. ASSUME NEW x \in Space(D) PROVE \E k \in order .. i - 1 : x \in Block(PAGE_BUDDY(page, k), k)
    BY <1>0 DEF Space, BuddiesOf
  <2>2. ASSUME NEW k \in order .. i - 1, NEW x \in Block(PAGE_BUDDY(page, k), k) PROVE x \in Space(D)
    <3>1. <<PAGE_BUDDY(page, k), k>> \in D
      BY DEF BuddiesOf
    <3>. HIDE DEF D
    <3>. QED  BY <1>0, <3>1 DEF Space
  <2>. QED  BY <2>1, <2>2
<1>4. CASE i = order
  <2>1. m = page /\ order .. i - 1 = {}
    BY <1>4, Boundary
  <2>2. Space(D) = {}
    BY <1>3, <2>1
  <2>. HIDE DEF m, D
  <2>3. Block(m, i) = Block(page, order) \cup Space(D)
    BY <1>4, <2>1, <2>2
  <2>. QED  BY <1>1, <1>2, <2>3 DEF m, D
<1>5. CASE i # order
  <2>. DEFINE h == i - 1
              n == PAGE_SIZE_AT_ORDER(h)
              b == PAGE_BUDDY(page, h)
  <2>1. h \in Nat /\ order <= h /\ h \in order .. i - 1 /\ h + 1 = i /\ order .. i - 1 = (order .. h - 1) \cup {h}
    BY <1>5
  <2>. HIDE DEF h
  <2>2. OnBoundary(page, h)
    BY <2>1
  <2>3. /\ m \in Nat /\ n \in Nat \ {0} /\ PAGE_SIZE_AT_ORDER(i) = n + n
        /\ \/ page = m /\ b = m + n
           \/ page = m + n /\ b = m
    <3>1. LET p == Merged(page, h + 1)
              l == PAGE_SIZE_AT_ORDER(h) IN
          /\ p \in Nat
          /\ l \in Nat \ {0} /\ PAGE_SIZE_AT_ORDER(h + 1) = l + l
          /\ \/ page = p /\ PAGE_BUDDY(page, h) = p + l
             \/ page = p + l /\ PAGE_BUDDY(page, h) = p
      BY <2>1, <2>2, Halves
    <3>. QED  BY <2>1, <3>1
  <2>4. Block(m, i) = Block(page, h) \cup Block(b, h)
    <3>. HIDE DEF m, b
    <3>1. Block(m, i) = m .. m + (n + n) - 1 /\ Block(m, h) = m .. m + n - 1 /\ Block(m + n, h) = m + n .. m + n + n - 1
      BY <2>3 DEF Block
    <3>. HIDE DEF n
    <3>2. m .. m + (n + n) - 1 = (m .. m + n - 1) \cup (m + n .. m + n + n - 1)
      BY <2>3
    <3>3. Block(m, i) = Block(m, h) \cup Block(m + n, h)
      BY <3>1, <3>2
    <3>. QED  BY <2>3, <3>3
  <2>5. ASSUME NEW k \in order .. h - 1 PROVE PAGE_BUDDY(page, k) = page + PAGE_SIZE_AT_ORDER(k)
    <3>1. k + 1 \in order .. i - 1
      BY <2>1
    <3>2. page % PAGE_SIZE_AT_ORDER(k + 1) = 0
      BY <3>1 DEF OnBoundary
    <3>. QED  BY <3>2 DEF PAGE_BUDDY
  <2>6. Block(page, h) = Block(page, order) \cup UNION {Block(page + PAGE_SIZE_AT_ORDER(k), k) : k \in order .. h - 1}
    BY <2>1, Ladder
  <2>7. ASSUME NEW x PROVE x \in Block(page, h) <=> x \in Block(page, order) \/ \E k \in order .. h - 1 : x \in Block(PAGE_BUDDY(page, k), k)
    BY <2>5, <2>6
  <2>8. ASSUME NEW x PROVE x \in Space(D) <=> x \in Block(b, h) \/ \E k \in order .. h - 1 : x \in Block(PAGE_BUDDY(page, k), k)
    BY <1>3, <2>1
  <2>9. Block(m, i) = Block(page, order) \cup Space(D)
    BY <2>4, <2>7, <2>8
  <2>. QED  BY <1>1, <1>2, <2>9
<1>. QED  BY <1>4, <1>5

(* What Page_Release does, in terms of sets of blocks.                     *)
LEMMA ReleaseFacts ==
  ASSUME AllocInv, NEW c \in CPUs, Page_Release(c)
  PROVE  LET order == op[c][1]
             page == op[c][2]
             i == MergesTo(page, order)
             m == Merged(page, i)
             R == {<<page, order>>} \cup BuddiesOf(page, order, i) IN
         /\ \A k \in order .. i - 1 : PAGE_BUDDY(page, k) \in Members(k) /\ OnBoundary(page, k)
         /\ Space({<<m, i>>}) = Space(R) /\ R \in SUBSET Blocks
         /\ WellFormed(<<m, i>>) /\ m \in 0 .. Frames - 1 /\ m \notin Members(i)
<1>. DEFINE order == op[c][1]
            page == op[c][2]
            i == MergesTo(page, order)
            m == Merged(page, i)
            D == BuddiesOf(page, order, i)
            R == {<<page, order>>} \cup D
<1>1. Len(op[c]) = 2 /\ Linked(Buddies(page, order)) /\ AllocType /\ Frames \in Nat
  BY AllocatorAssumption DEF Page_Release, AllocInv
<1>2. /\ order \in Orders /\ page \in 0 .. Frames - 1 /\ page \in Nat
      /\ <<page, order>> \in Returning /\ WellFormed(<<page, order>>)
      /\ \A k \in Orders : Merged(page, k) \notin Members(k)
  BY <1>1, ReturningFacts
<1>. HIDE DEF order, page
<1>3. /\ i \in Orders /\ order <= i /\ i \in Nat /\ order \in Nat
      /\ \A k \in order .. i - 1 : k \in Nat /\ k \in Orders
  BY <1>2, MergesToFacts
<1>4. ASSUME NEW k \in order .. i - 1 PROVE PAGE_BUDDY(page, k) \in Members(k) /\ OnBoundary(page, k)
  <2>1. DOMAIN Buddies(page, order) = order .. i - 1 /\ Buddies(page, order)[k] = PAGE_BUDDY(page, k)
    BY DEF Buddies
  <2>2. PAGE_BUDDY(page, k) \in Members(k)
    BY <1>1, <2>1 DEF Linked, Members
  <2>. QED  BY <1>2, <1>3, <2>2, LinkedOnBoundary
<1>5. OnBoundary(page, order)
  BY <1>2 DEF WellFormed
<1>. HIDE DEF i
<1>6. Space({<<m, i>>}) = Space(R)
  BY <1>2, <1>3, <1>4, <1>5, MergeBlocks
<1>7. R \in SUBSET Blocks
  <2>1. D \subseteq Free
    BY <1>1, <1>3, <1>4, BlockForms DEF BuddiesOf
  <2>. QED  BY <1>2, <2>1 DEF Blocks
<1>8. m \in Nat /\ OnBoundary(m, i) /\ m <= page
  BY <1>2, <1>3, Boundary
<1>. HIDE DEF m, R
<1>9. m + PAGE_SIZE_AT_ORDER(i) <= Frames
  <2>. DEFINE n == PAGE_SIZE_AT_ORDER(i)
              x == m + n - 1
  <2>1. n \in Nat \ {0}
    BY <1>3, Sizes
  <2>2. x \in m .. m + n - 1
    BY <1>8, <2>1
  <2>3. x \in Space({<<m, i>>})
    BY <2>2 DEF Space, BlockOf, Block
  <2>4. PICK b \in R : x \in BlockOf(b)
    BY <1>6, <2>3 DEF Space
  <2>5. b \in Blocks
    BY <1>7
  <2>6. b[1] \in Nat /\ b[2] \in Nat
    BY <1>1, <2>5, BlockForms
  <2>7. b[1] + PAGE_SIZE_AT_ORDER(b[2]) <= Frames /\ PAGE_SIZE_AT_ORDER(b[2]) \in Nat
    BY <2>5, <2>6, Sizes DEF AllocInv, WellFormed
  <2>8. x <= b[1] + PAGE_SIZE_AT_ORDER(b[2]) - 1
    BY <2>4 DEF BlockOf, Block
  <2>. HIDE DEF n
  <2>9. m + n <= Frames
    BY <1>1, <1>8, <2>1, <2>6, <2>7, <2>8
  <2>. QED  BY <2>9 DEF n
<1>10. WellFormed(<<m, i>>) /\ m \in 0 .. Frames - 1
  BY <1>1, <1>2, <1>8, <1>9 DEF WellFormed
<1>11. m \notin Members(i)
  BY <1>2, <1>3 DEF m
<1>. QED  BY <1>4, <1>6, <1>7, <1>10, <1>11 DEF order, page, i, m, R

(* The call that ends holds its block no longer.                           *)
LEMMA ReleasingNext ==
  ASSUME AllocInv, NEW c \in CPUs, Len(op[c]) = 2, op' = [op EXCEPT ![c] = <<>>]
  PROVE  /\ op' \in [CPUs -> Calls] /\ Returning' = Returning \ {<<op[c][2], op[c][1]>>}
         /\ \A d, e \in CPUs : Len(op'[d]) = 2 /\ op'[d] = op'[e] => d = e
<1>1. op \in [CPUs -> Calls] /\ AllocType /\ <<>> \in Calls /\ Len(<<>>) # 2
  BY DEF AllocInv, AllocType, Calls
<1>2. /\ op' \in [CPUs -> Calls]
      /\ Returning' = {<<op[d][2], op[d][1]>> : d \in {e \in CPUs \ {c} : Len(op[e]) = 2}}
                         \cup {<<w[2], w[1]>> : w \in {u \in {<<>>} : Len(u) = 2}}
  BY <1>1, ReturningNext
<1>3. ASSUME NEW d \in CPUs \ {c}, Len(op[d]) = 2 PROVE <<op[d][2], op[d][1]>> # <<op[c][2], op[c][1]>>
  <2>1. op[d] = <<op[d][1], op[d][2]>> /\ op[c] = <<op[c][1], op[c][2]>>
    BY <1>1, <1>3, CallForms
  <2>2. op[d] # op[c]
    BY <1>3 DEF AllocInv, NothingShared
  <2>. QED  BY <2>1, <2>2
<1>4. {u \in {<<>>} : Len(u) = 2} = {}
  OBVIOUS
<1>5. Returning' = {<<op[d][2], op[d][1]>> : d \in {e \in CPUs \ {c} : Len(op[e]) = 2}}
  BY <1>2, <1>4
<1>6. Returning' = Returning \ {<<op[c][2], op[c][1]>>}
  <2>1. ASSUME NEW b \in Returning' PROVE b \in Returning /\ b # <<op[c][2], op[c][1]>>
    BY <1>3, <1>5 DEF Returning
  <2>2. ASSUME NEW b \in Returning, b # <<op[c][2], op[c][1]>> PROVE b \in Returning'
    <3>1. PICK d \in CPUs : Len(op[d]) = 2 /\ b = <<op[d][2], op[d][1]>>
      BY DEF Returning
    <3>2. d # c
      BY <2>2, <3>1
    <3>. QED  BY <1>5, <3>1, <3>2
  <2>. QED  BY <2>1, <2>2
<1>7. op'[c] = <<>> /\ \A d \in CPUs \ {c} : op'[d] = op[d]
  BY <1>1
<1>8. ASSUME NEW d \in CPUs, NEW e \in CPUs, Len(op'[d]) = 2, op'[d] = op'[e] PROVE d = e
  <2>1. d # c /\ e # c
    BY <1>1, <1>7, <1>8
  <2>. QED  BY <1>7, <1>8, <2>1 DEF AllocInv, NothingShared
<1>. QED  BY <1>2, <1>6, <1>8

(* Page_Release keeps the invariant and every frame.                       *)
LEMMA ReleaseStep ==
  ASSUME AllocInv, NEW c \in CPUs, Page_Release(c)
  PROVE  AllocInv' /\ Managed' = Managed
<1>. DEFINE order == op[c][1]
            page == op[c][2]
            i == MergesTo(page, order)
            m == Merged(page, i)
            D == BuddiesOf(page, order, i)
            R == {<<page, order>>} \cup D
            N == {<<m, i>>}
<1>1. Len(op[c]) = 2 /\ AllocType /\ Frames \in Nat /\ PAGE_MAX_ORDER \in Nat
  BY AllocatorAssumption DEF Page_Release, AllocInv
<1>2. /\ order \in Orders /\ page \in 0 .. Frames - 1 /\ page \in Nat
      /\ <<page, order>> \in Returning
  BY <1>1, ReturningFacts
<1>3. /\ \A k \in order .. i - 1 : PAGE_BUDDY(page, k) \in Members(k) /\ OnBoundary(page, k)
      /\ Space(N) = Space(R) /\ R \in SUBSET Blocks
      /\ WellFormed(<<m, i>>) /\ m \in 0 .. Frames - 1 /\ m \notin Members(i)
  BY ReleaseFacts
<1>4. /\ op' = [op EXCEPT ![c] = <<>>] /\ owned' = owned /\ Page_maps' = Toggled(page, order, i)
      /\ Page_lists' = [k \in Orders |-> IF k = i THEN Push(m, Page_lists[k])
                                       ELSE IF k \in order .. i - 1 THEN Unlink(PAGE_BUDDY(page, k), Page_lists[k])
                                       ELSE Page_lists[k]]
  BY DEF Page_Release, Buddies
<1>5. /\ op' \in [CPUs -> Calls] /\ Returning' = Returning \ {<<page, order>>}
      /\ \A d, e \in CPUs : Len(op'[d]) = 2 /\ op'[d] = op'[e] => d = e
  BY <1>1, <1>4, ReleasingNext
<1>. HIDE DEF order, page
<1>6. /\ i \in Orders /\ order <= i /\ i \in Nat /\ order \in Nat
      /\ i = PAGE_MAX_ORDER \/ PAGE_MAP_BIT(page, i) \notin Page_maps[i]
      /\ \A k \in order .. i - 1 : k \in Nat /\ k \in Orders /\ k \in 0 .. PAGE_MAX_ORDER - 1
  BY <1>2, MergesToFacts
<1>. HIDE DEF i
<1>7. m = Merged(page, i) /\ m \in Nat
  BY <1>2, <1>6, Boundary
<1>. HIDE DEF m
(* The lists.                                                              *)
<1>8. ASSUME NEW k \in Orders
      PROVE  /\ Page_lists'[k] \in Seq(0 .. Frames - 1) /\ IsInjective(Page_lists'[k])
             /\ k = i => Members(k)' = Members(k) \cup {m}
             /\ k \in order .. i - 1 => Members(k)' = Members(k) \ {PAGE_BUDDY(page, k)}
             /\ k # i /\ k \notin order .. i - 1 => Members(k)' = Members(k)
  <2>1. Page_lists[k] \in Seq(0 .. Frames - 1) /\ IsInjective(Page_lists[k])
    BY <1>1 DEF AllocInv, AllocType
  <2>2. CASE k = i
    <3>1. Page_lists'[k] = Push(m, Page_lists[k]) /\ k \notin order .. i - 1
      BY <1>4, <1>6, <2>2
    <3>2. m \in 0 .. Frames - 1 /\ m \notin Range(Page_lists[k])
      BY <1>3, <2>2 DEF Members
    <3>3. /\ Push(m, Page_lists[k]) \in Seq(0 .. Frames - 1) /\ IsInjective(Push(m, Page_lists[k]))
          /\ Range(Push(m, Page_lists[k])) = Range(Page_lists[k]) \cup {m}
      <4>. DEFINE F == 0 .. Frames - 1
                  s == Page_lists[k]
      <4>1. s \in Seq(F) /\ IsInjective(s) /\ m \in F /\ m \notin Range(s)
        BY <2>1, <3>2
      <4>. HIDE DEF F, s
      <4>2. Push(m, s) \in Seq(F) /\ IsInjective(Push(m, s)) /\ Range(Push(m, s)) = Range(s) \cup {m}
        BY <4>1, Pushed
      <4>. QED  BY <4>2 DEF F, s
    <3>. QED  BY <2>2, <3>1, <3>3 DEF Members
  <2>3. CASE k \in order .. i - 1
    <3>1. Page_lists'[k] = Unlink(PAGE_BUDDY(page, k), Page_lists[k]) /\ k # i
      BY <1>4, <1>6, <2>3
    <3>2. PAGE_BUDDY(page, k) \in Range(Page_lists[k])
      BY <1>3, <2>3 DEF Members
    <3>. QED  BY <2>1, <2>3, <3>1, <3>2, Unlinked DEF Members
  <2>4. CASE k # i /\ k \notin order .. i - 1
    BY <1>4, <2>1, <2>4 DEF Members
  <2>. QED  BY <2>2, <2>3, <2>4
<1>9. AllocType'
  <2>1. Page_lists' \in [Orders -> Seq(0 .. Frames - 1)]
    BY <1>4, <1>8
  <2>2. Page_maps' \in [Orders -> SUBSET Nat]
    <3>1. ASSUME NEW k \in Orders PROVE PAGE_MAP_BIT(page, k) \in Nat
      <4>1. k + 1 \in Nat
        BY <1>1 DEF Orders
      <4>. QED  BY <1>2, <4>1, Sizes, Division DEF PAGE_MAP_BIT
    <3>. QED  BY <1>1, <1>4, <3>1 DEF Toggled, Toggle, AllocType
  <2>. QED  BY <1>1, <1>4, <1>5, <2>1, <2>2 DEF AllocType
(* The blocks.                                                             *)
<1>10. Free' = (Free \ D) \cup N
  <2>1. ASSUME NEW a, NEW k PROVE <<a, k>> \in Free <=> k \in Orders /\ a \in Members(k)
    BY <1>1, BlockForms
  <2>2. ASSUME NEW a, NEW k PROVE <<a, k>> \in Free' <=> k \in Orders /\ a \in Members(k)'
    <3>1. k \in Orders => Members(k)' \subseteq 0 .. Frames - 1
      BY <1>8, InRange DEF Members
    <3>. QED  BY <3>1 DEF Free, Members
  <2>3. ASSUME NEW a, NEW k PROVE <<a, k>> \in D <=> k \in order .. i - 1 /\ a = PAGE_BUDDY(page, k)
    BY DEF BuddiesOf
  <2>4. ASSUME NEW a, NEW k PROVE <<a, k>> \in N <=> k = i /\ a = m
    OBVIOUS
  <2>5. \A b \in Free' \cup Free \cup N : b = <<b[1], b[2]>>
    BY DEF Free
  <2>. HIDE DEF D, N
  <2>6. ASSUME NEW a, NEW k PROVE <<a, k>> \in Free' <=> <<a, k>> \in (Free \ D) \cup N
    <3>1. CASE k \notin Orders
      BY <1>6, <2>1, <2>2, <2>3, <2>4, <3>1
    <3>2. CASE k = i
      <4>1. k \notin order .. i - 1
        BY <1>6, <3>2
      <4>. QED  BY <1>6, <1>8, <2>1, <2>2, <2>3, <2>4, <3>2, <4>1
    <3>3. CASE k \in order .. i - 1
      <4>1. k # i /\ k \in Orders
        BY <1>6, <3>3
      <4>. QED  BY <1>8, <2>1, <2>2, <2>3, <2>4, <3>3, <4>1
    <3>4. CASE k \in Orders /\ k # i /\ k \notin order .. i - 1
      BY <1>8, <2>1, <2>2, <2>3, <2>4, <3>4
    <3>. QED  BY <3>1, <3>2, <3>3, <3>4
  <2>7. ASSUME NEW b \in Free' PROVE b \in (Free \ D) \cup N
    BY <2>5, <2>6
  <2>8. ASSUME NEW b \in (Free \ D) \cup N PROVE b \in Free'
    BY <2>5, <2>6
  <2>. QED  BY <2>7, <2>8
<1>11. Free \cap owned = {} /\ Free \cap Returning = {} /\ owned \cap Returning = {}
  BY DEF AllocInv, NothingShared
<1>12. D \subseteq Free
  BY <1>1, <1>3, <1>6, BlockForms DEF BuddiesOf
<1>13. Blocks' = (Blocks \ R) \cup N
  <2>. HIDE DEF D, N
  <2>. QED  BY <1>2, <1>4, <1>5, <1>10, <1>11, <1>12 DEF Blocks
<1>14. /\ Disjoint((Blocks \ R) \cup N) /\ Space((Blocks \ R) \cup N) = Space(Blocks)
       /\ \A b \in Blocks \ R : BlockOf(b) # {} => b \notin N
  <2>1. Disjoint(N)
    BY DEF Disjoint
  <2>. HIDE DEF R, N
  <2>. QED  BY <1>3, <2>1, Exchange DEF AllocInv
<1>15. Disjoint(Blocks') /\ Managed' = Managed
  BY <1>13, <1>14 DEF Managed, Space, Blocks, BlockOf
<1>16. ASSUME NEW b \in Blocks' PROVE WellFormed(b)
  <2>1. CASE b \in Blocks
    BY <2>1 DEF AllocInv
  <2>2. CASE b \in N
    BY <1>3, <2>2
  <2>. QED  BY <1>13, <2>1, <2>2
<1>17. \A b \in Blocks \ R : b \notin N
  <2>1. ASSUME NEW b \in Blocks PROVE BlockOf(b) # {}
    <3>1. b[1] \in Nat /\ b[2] \in Nat
      BY <1>1, BlockForms
    <3>. QED  BY <3>1, Apart DEF BlockOf
  <2>. QED  BY <1>14, <2>1
<1>18. (Free \cap owned = {} /\ Free \cap Returning = {} /\ owned \cap Returning = {})'
  <2>. HIDE DEF D, N
  <2>1. owned \cap N = {} /\ (Returning \ {<<page, order>>}) \cap N = {}
    BY <1>2, <1>11, <1>12, <1>17 DEF Blocks
  <2>. QED  BY <1>4, <1>5, <1>10, <1>11, <2>1
<1>19. NothingShared'
  BY <1>5, <1>18 DEF NothingShared
(* The bits.                                                               *)
<1>20. ASSUME NEW k \in 0 .. PAGE_MAX_ORDER - 1 PROVE OrderAgrees(Members(k)', Page_maps'[k], k)
  <2>1. k \in Nat /\ k \in Orders /\ OrderAgrees(Members(k), Page_maps[k], k) /\ k + 1 \in Nat
    BY <1>1 DEF Orders, AllocInv, BitsAgree
  <2>2. Page_maps'[k] = IF k \in order .. i THEN Toggle(Page_maps[k], PAGE_MAP_BIT(page, k)) ELSE Page_maps[k]
    BY <1>4, <2>1 DEF Toggled
  <2>3. CASE k = i
    <3>. DEFINE a == Merged(m, k + 1)
    <3>1. OnBoundary(m, k) /\ k \in order .. i /\ Members(k)' = Members(k) \cup {m} /\ m \notin Members(k)
      BY <1>3, <1>6, <1>8, <2>1, <2>3 DEF WellFormed
    <3>2. PAGE_MAP_BIT(page, k) = PAGE_MAP_BIT(m, k)
      <4>1. Merged(m, k + 1) = Merged(page, k + 1)
        BY <1>2, <1>7, <2>1, <2>3, SameParent
      <4>. QED  BY <1>2, <1>7, <2>1, <4>1, SameBit
    <3>3. PAGE_MAP_BIT(m, k) \notin Page_maps[k]
      BY <1>1, <1>6, <2>3, <3>2
    <3>4. a \in Nat /\ a <= m /\ OnBoundary(a, k + 1)
      BY <1>7, <2>1, Boundary
    <3>5. m \in {a, a + PAGE_SIZE_AT_ORDER(k)}
      BY <1>7, <2>1, <3>1, Halves
    <3>6. a \in 0 .. Frames - 1
      <4>. HIDE DEF a
      <4>. QED  BY <1>1, <1>3, <3>4
    <3>. HIDE DEF a
    <3>7. PAGE_MAP_BIT(a, k) = PAGE_MAP_BIT(m, k) /\ {m, PAGE_BUDDY(m, k)} = {a, a + PAGE_SIZE_AT_ORDER(k)}
      BY <1>7, <2>1, <3>1, <3>4, <3>5, PairOf
    <3>8. a \notin Members(k) /\ a + PAGE_SIZE_AT_ORDER(k) \notin Members(k)
      BY <2>1, <3>3, <3>4, <3>6, <3>7 DEF OrderAgrees
    <3>9. PAGE_BUDDY(m, k) \notin Members(k)
      BY <3>7, <3>8
    <3>10. OrderAgrees(Members(k) \cup {m}, Toggle(Page_maps[k], PAGE_MAP_BIT(m, k)), k)
      BY <1>7, <2>1, <3>1, <3>9, Marked
    <3>. QED  BY <2>2, <3>1, <3>2, <3>10
  <2>4. CASE k \in order .. i - 1
    <3>. DEFINE p == PAGE_BUDDY(page, k)
                a == Merged(page, k + 1)
    <3>1. p \in Members(k) /\ OnBoundary(page, k) /\ Members(k)' = Members(k) \ {p} /\ k \in order .. i
      BY <1>3, <1>6, <1>8, <2>1, <2>4
    <3>2. p \in Nat /\ OnBoundary(p, k)
      <4>1. <<p, k>> \in Blocks
        BY <1>1, <2>1, <3>1, BlockForms DEF Blocks
      <4>. HIDE DEF p
      <4>. QED  BY <1>1, <4>1, BlockForms DEF AllocInv, WellFormed
    <3>3. a \in Nat /\ OnBoundary(a, k + 1)
      BY <1>2, <2>1, Boundary
    <3>4. page \in {a, a + PAGE_SIZE_AT_ORDER(k)} /\ p \in {a, a + PAGE_SIZE_AT_ORDER(k)}
      BY <1>2, <2>1, <3>1, Halves
    <3>. HIDE DEF a, p
    <3>5. PAGE_MAP_BIT(page, k) = PAGE_MAP_BIT(p, k)
      <4>1. PAGE_MAP_BIT(a, k) = PAGE_MAP_BIT(page, k)
        BY <1>2, <2>1, <3>1, <3>3, <3>4, PairOf
      <4>2. PAGE_MAP_BIT(a, k) = PAGE_MAP_BIT(p, k)
        BY <2>1, <3>2, <3>3, <3>4, PairOf
      <4>. QED  BY <4>1, <4>2
    <3>6. OrderAgrees(Members(k) \ {p}, Toggle(Page_maps[k], PAGE_MAP_BIT(p, k)), k)
      BY <2>1, <3>1, <3>2, Cleared
    <3>. QED  BY <2>2, <3>1, <3>5, <3>6
  <2>5. CASE k # i /\ k \notin order .. i - 1
    <3>1. k \notin order .. i
      BY <1>6, <2>1, <2>5
    <3>. QED  BY <1>8, <2>1, <2>2, <2>5, <3>1
  <2>. QED  BY <2>3, <2>4, <2>5
<1>21. BitsAgree'
  BY <1>20 DEF BitsAgree
<1>22. \A k \in Orders : IsInjective(Page_lists'[k])
  BY <1>8
<1>. QED  BY <1>9, <1>15, <1>16, <1>19, <1>21, <1>22 DEF AllocInv

-----------------------------------------------------------------------------
(* Every step.                                                             *)

(* No step of any CPU breaks the invariant or loses a frame.               *)
LEMMA AllocNextInv == AllocInv /\ [AllocNext]_allvars => AllocInv' /\ Managed' = Managed
<1>. SUFFICES ASSUME AllocInv, [AllocNext]_allvars PROVE AllocInv' /\ Managed' = Managed
  OBVIOUS
<1>1. ASSUME UNCHANGED <<Page_lists, Page_maps, op, owned>> PROVE AllocInv' /\ Managed' = Managed
  <2>1. Free' = Free /\ Returning' = Returning /\ owned' = owned
    BY <1>1 DEF Free, Returning
  <2>2. Blocks' = Blocks /\ Managed' = Managed
    BY <2>1 DEF Blocks, Managed
  <2>3. AllocType' /\ NothingShared' /\ BitsAgree'
    BY <1>1, <2>1 DEF AllocInv, AllocType, NothingShared, BitsAgree, Members
  <2>. QED  BY <1>1, <2>2, <2>3 DEF AllocInv
<1>2. CASE UNCHANGED allvars
  BY <1>1, <1>2 DEF allvars, allocvars
<1>3. ASSUME NEW c \in CPUs, AllocStep(c) PROVE AllocInv' /\ Managed' = Managed
  <2>1. ASSUME NEW order \in Requests, CallAcquire(c, order) PROVE AllocInv' /\ Managed' = Managed
    <3>1. order \in Orders
      BY AllocatorAssumption
    <3>2. <<order>> \in Calls /\ Len(<<order>>) = 1 /\ Len(<<>>) = 0
      BY <3>1 DEF Calls
    <3>3. op[c] = <<>> /\ op' = [op EXCEPT ![c] = <<order>>] /\ UNCHANGED <<Page_lists, Page_maps, owned>>
      BY <2>1 DEF CallAcquire
    <3>. DEFINE v == <<order>>
    <3>4. v \in Calls /\ Len(v) # 2 /\ Len(op[c]) # 2 /\ op' = [op EXCEPT ![c] = v]
      BY <3>2, <3>3
    <3>. HIDE DEF v
    <3>. QED  BY <3>3, <3>4, AcquiringStep
  <2>2. CASE Page_Acquire_Exhausted(c)
    <3>1. <<>> \in Calls /\ Len(<<>>) = 0
      BY DEF Calls
    <3>2. Len(op[c]) = 1 /\ op' = [op EXCEPT ![c] = <<>>] /\ UNCHANGED <<Page_lists, Page_maps, owned>>
      BY <2>2 DEF Page_Acquire_Exhausted
    <3>. DEFINE v == <<>>
    <3>3. v \in Calls /\ Len(v) # 2 /\ Len(op[c]) # 2 /\ op' = [op EXCEPT ![c] = v]
      BY <3>1, <3>2
    <3>. HIDE DEF v
    <3>. QED  BY <3>2, <3>3, AcquiringStep
  <2>3. CASE Page_Release_Wild(c) \/ LockOnly(c)
    BY <1>1, <2>3 DEF Page_Release_Wild, LockOnly, allocvars
  <2>. QED
    BY <1>3, <2>1, <2>2, <2>3, CallReleaseStep, AcquireStep, ReleaseStep DEF AllocStep
<1>. QED  BY <1>2, <1>3 DEF AllocNext

(* Page_Release goes astray only with a page off the boundary.             *)
LEMMA WildStep ==
  ASSUME AllocInv, NEW c \in CPUs, Page_Release_Wild(c)
  PROVE  op[c][2] % PAGE_SIZE_AT_ORDER(MergesTo(op[c][2], op[c][1]) - 1) # 0
<1>. DEFINE order == op[c][1]
            page == op[c][2]
            i == MergesTo(page, order)
<1>1. Len(op[c]) = 2 /\ ~Linked(Buddies(page, order))
  BY DEF Page_Release_Wild
<1>2. order \in Orders /\ page \in Nat
  BY <1>1, ReturningFacts
<1>3. /\ i \in Nat /\ order \in Nat
      /\ \A k \in order .. i - 1 : k \in Nat /\ k \in 0 .. PAGE_MAX_ORDER - 1 /\ PAGE_MAP_BIT(page, k) \in Page_maps[k]
  BY <1>2, MergesToFacts
<1>4. DOMAIN Buddies(page, order) = order .. i - 1 /\ \A k \in order .. i - 1 : Buddies(page, order)[k] = PAGE_BUDDY(page, k)
  BY DEF Buddies
<1>5. PICK k \in order .. i - 1 : PAGE_BUDDY(page, k) \notin Members(k)
  BY <1>1, <1>4 DEF Linked, Members
<1>6. ~OnBoundary(page, k)
  BY <1>1, <1>3, <1>5, BuddyIsFree
<1>. HIDE DEF page, order, i
<1>7. i - 1 \in Nat /\ k <= i - 1 /\ k \in Nat
  BY <1>3
<1>8. page % PAGE_SIZE_AT_ORDER(i - 1) # 0
  BY <1>2, <1>6, <1>7, Coarser DEF OnBoundary
<1>. QED  BY <1>8 DEF page, order, i

(* What BitmapAgrees says of two buddies with numbers of elements.         *)
LEMMA CountedPair ==
  ASSUME NEW free, NEW a, NEW b, a # b
  PROVE  /\ Cardinality({a, b} \cap free) < 2 <=> ~(a \in free /\ b \in free)
         /\ Cardinality({a, b} \cap free) = 1 <=> (a \in free \/ b \in free) /\ ~(a \in free /\ b \in free)
<1>1. IsFiniteSet({}) /\ Cardinality({}) = 0
  BY FS_EmptySet
<1>2. \A x : IsFiniteSet({x}) /\ Cardinality({x}) = 1
  BY FS_Singleton
<1>3. Cardinality({a, b}) = 2
  <2>1. IsFiniteSet({a}) /\ b \notin {a} /\ {a} \cup {b} = {a, b} /\ Cardinality({a}) = 1
    BY <1>2
  <2>2. Cardinality({a} \cup {b}) = Cardinality({a}) + 1
    BY <2>1, FS_AddElement
  <2>. QED  BY <2>1, <2>2
<1>4. CASE a \in free /\ b \in free
  <2>1. {a, b} \cap free = {a, b} /\ ~(2 < 2) /\ 2 # 1
    BY <1>4
  <2>. QED  BY <1>3, <1>4, <2>1
<1>5. CASE a \in free /\ b \notin free
  <2>1. {a, b} \cap free = {a}
    BY <1>5
  <2>2. Cardinality({a, b} \cap free) = 1 /\ 1 < 2
    BY <1>2, <2>1
  <2>. QED  BY <1>5, <2>2
<1>6. CASE a \notin free /\ b \in free
  <2>1. {a, b} \cap free = {b}
    BY <1>6
  <2>2. Cardinality({a, b} \cap free) = 1 /\ 1 < 2
    BY <1>2, <2>1
  <2>. QED  BY <1>6, <2>2
<1>7. CASE a \notin free /\ b \notin free
  <2>1. {a, b} \cap free = {}
    BY <1>7
  <2>. QED  BY <1>1, <1>7, <2>1
<1>. QED  BY <1>4, <1>5, <1>6, <1>7

-----------------------------------------------------------------------------
(* Page_BuddyMaps_Initialize.  A cut is a sequence of blocks, all of them  *)
(* between two frames, of which no two overlap or are buddies.             *)

Clear(b, d) ==
    /\ BlockOf(b) \cap BlockOf(d) = {}
    /\ b[2] = d[2] /\ b[2] < PAGE_MAX_ORDER => Merged(b[1], b[2] + 1) # Merged(d[1], d[2] + 1)

AllBlocks == (0 .. Frames - 1) \X Orders
Between(b, lo, hi) == OnBoundary(b[1], b[2]) /\ lo <= b[1] /\ b[1] + PAGE_SIZE_AT_ORDER(b[2]) <= hi

SoundCut(s, lo, hi) ==
    /\ s \in Seq(AllBlocks)
    /\ \A n \in 1 .. Len(s) : Between(s[n], lo, hi)
    /\ \A n, p \in 1 .. Len(s) : n # p => Clear(s[n], s[p])

(* A block as numbers.                                                     *)
LEMMA BlockNumbers ==
  ASSUME NEW b \in AllBlocks
  PROVE  /\ b[1] \in Nat /\ b[2] \in Nat /\ b[2] \in Orders /\ b = <<b[1], b[2]>>
         /\ PAGE_SIZE_AT_ORDER(b[2]) \in Nat \ {0}
<1>1. b[1] \in Nat /\ b[2] \in Nat /\ b[2] \in Orders /\ b = <<b[1], b[2]>>
  BY AllocatorAssumption DEF AllBlocks, Orders
<1>. QED  BY <1>1, Sizes

(* Blocks on two sides of a boundary of the next order are clear of each   *)
(* other.                                                                  *)
LEMMA AcrossBoundary ==
  ASSUME NEW b \in AllBlocks, NEW d \in AllBlocks, NEW x \in Nat,
         d[1] + PAGE_SIZE_AT_ORDER(d[2]) <= x, x <= b[1],
         b[2] = d[2] => OnBoundary(x, b[2] + 1)
  PROVE  Clear(b, d) /\ Clear(d, b)
<1>1. /\ b[1] \in Nat /\ b[2] \in Nat /\ PAGE_SIZE_AT_ORDER(b[2]) \in Nat \ {0}
      /\ d[1] \in Nat /\ d[2] \in Nat /\ PAGE_SIZE_AT_ORDER(d[2]) \in Nat \ {0}
  BY BlockNumbers
<1>2. d[1] + PAGE_SIZE_AT_ORDER(d[2]) <= b[1] /\ d[1] < x
  BY <1>1
<1>3. Block(b[1], b[2]) \cap Block(d[1], d[2]) = {}
  BY <1>1, <1>2, Apart
<1>4. ASSUME b[2] = d[2] PROVE Merged(b[1], b[2] + 1) # Merged(d[1], d[2] + 1)
  <2>. DEFINE k == b[2] + 1
              m == Merged(b[1], k)
              l == Merged(d[1], k)
              n == PAGE_SIZE_AT_ORDER(k)
  <2>1. k \in Nat
    BY <1>1
  <2>2. OnBoundary(x, k)
    BY <1>4
  <2>. HIDE DEF k
  <2>3. m \in Nat /\ OnBoundary(m, k) /\ b[1] < m + n /\ l \in Nat /\ l <= d[1] /\ n \in Nat
    BY <1>1, <2>1, Boundary, Sizes
  <2>4. m < x => m + n <= x
    BY <2>1, <2>2, <2>3, Gap
  <2>. HIDE DEF m, l, n
  <2>5. m # l
    BY <1>1, <1>2, <2>3, <2>4
  <2>. QED  BY <1>4, <2>5 DEF m, l, k
<1>. QED  BY <1>3, <1>4 DEF Clear, BlockOf

(* Blocks with a gap between them are clear of each other.                 *)
LEMMA AcrossGap ==
  ASSUME NEW b \in AllBlocks, NEW d \in AllBlocks,
         OnBoundary(b[1], b[2]), OnBoundary(d[1], d[2]), d[1] + PAGE_SIZE_AT_ORDER(d[2]) < b[1]
  PROVE  Clear(b, d) /\ Clear(d, b)
<1>1. /\ b[1] \in Nat /\ b[2] \in Nat /\ PAGE_SIZE_AT_ORDER(b[2]) \in Nat \ {0}
      /\ d[1] \in Nat /\ d[2] \in Nat /\ PAGE_SIZE_AT_ORDER(d[2]) \in Nat \ {0}
  BY BlockNumbers
<1>2. d[1] + PAGE_SIZE_AT_ORDER(d[2]) <= b[1]
  BY <1>1
<1>3. Block(b[1], b[2]) \cap Block(d[1], d[2]) = {}
  BY <1>1, <1>2, Apart
<1>4. ASSUME b[2] = d[2] PROVE Merged(b[1], b[2] + 1) # Merged(d[1], d[2] + 1)
  <2>. DEFINE m == Merged(b[1], b[2] + 1)
              l == Merged(d[1], d[2] + 1)
              n == PAGE_SIZE_AT_ORDER(b[2])
  <2>1. m \in Nat /\ (b[1] = m \/ b[1] = m + n)
    BY <1>1, Halves
  <2>2. l \in Nat /\ (d[1] = l \/ d[1] = l + PAGE_SIZE_AT_ORDER(d[2]))
    BY <1>1, Halves
  <2>3. d[1] = l \/ d[1] = l + n
    BY <1>4, <2>2
  <2>4. d[1] + n < b[1] /\ n \in Nat
    BY <1>1, <1>4
  <2>. HIDE DEF m, l, n
  <2>5. m # l
    BY <1>1, <2>1, <2>2, <2>3, <2>4
  <2>. QED  BY <2>5 DEF m, l
<1>. QED  BY <1>3, <1>4 DEF Clear, BlockOf

(* Two cuts after one another.                                             *)
LEMMA Joined ==
  ASSUME NEW s, NEW t, NEW a \in Int, NEW b \in Int, NEW c \in Int, NEW d \in Int, NEW lo \in Int, NEW hi \in Int,
         SoundCut(s, a, b), SoundCut(t, c, d), lo <= a, lo <= c, b <= hi, d <= hi,
         \A n \in 1 .. Len(s), p \in 1 .. Len(t) : Clear(s[n], t[p]) /\ Clear(t[p], s[n])
  PROVE  SoundCut(s \o t, lo, hi)
<1>. DEFINE u == s \o t
            k == Len(s)
            l == Len(t)
<1>1. s \in Seq(AllBlocks) /\ t \in Seq(AllBlocks) /\ k \in Nat /\ l \in Nat
  BY DEF SoundCut
<1>2. u \in Seq(AllBlocks) /\ Len(u) = k + l /\ \A n \in 1 .. k + l : u[n] = IF n <= k THEN s[n] ELSE t[n - k]
  BY <1>1, ConcatProperties
<1>. HIDE DEF u
<1>3. ASSUME NEW n \in 1 .. k + l
      PROVE  \/ n \in 1 .. k /\ u[n] = s[n]
             \/ n - k \in 1 .. l /\ u[n] = t[n - k] /\ n \notin 1 .. k
  BY <1>1, <1>2
<1>4. ASSUME NEW x \in AllBlocks, Between(x, a, b) \/ Between(x, c, d) PROVE Between(x, lo, hi)
  <2>1. x[1] \in Nat /\ PAGE_SIZE_AT_ORDER(x[2]) \in Nat
    BY BlockNumbers
  <2>. QED  BY <1>4, <2>1 DEF Between
<1>5. ASSUME NEW n \in 1 .. k PROVE s[n] \in AllBlocks /\ Between(s[n], lo, hi)
  <2>1. s[n] \in AllBlocks
    BY <1>1, ElementOfSeq
  <2>. QED  BY <1>4, <2>1 DEF SoundCut
<1>6. ASSUME NEW n \in 1 .. l PROVE t[n] \in AllBlocks /\ Between(t[n], lo, hi)
  <2>1. t[n] \in AllBlocks
    BY <1>1, ElementOfSeq
  <2>. QED  BY <1>4, <2>1 DEF SoundCut
<1>7. \A n \in 1 .. k + l : Between(u[n], lo, hi)
  BY <1>3, <1>5, <1>6
<1>8. ASSUME NEW n \in 1 .. k + l, NEW p \in 1 .. k + l, n # p PROVE Clear(u[n], u[p])
  <2>1. CASE n \in 1 .. k /\ p \in 1 .. k
    BY <1>2, <1>8, <2>1 DEF SoundCut
  <2>2. CASE n \in 1 .. k /\ p \notin 1 .. k
    BY <1>3, <2>2
  <2>3. CASE n \notin 1 .. k /\ p \in 1 .. k
    BY <1>3, <2>3
  <2>4. CASE n \notin 1 .. k /\ p \notin 1 .. k
    <3>1. n - k \in 1 .. l /\ u[n] = t[n - k] /\ p - k \in 1 .. l /\ u[p] = t[p - k]
      BY <1>3, <2>4
    <3>2. n - k # p - k
      BY <1>1, <1>8
    <3>. QED  BY <3>1, <3>2 DEF SoundCut
  <2>. QED  BY <2>1, <2>2, <2>3, <2>4
<1>9. SoundCut(u, lo, hi)
  BY <1>2, <1>7, <1>8 DEF SoundCut
<1>. QED  BY <1>9 DEF u

(* The locals of Page_MapMemoryChunk.                                      *)
Unit(c) == PAGE_SIZE_AT_ORDER(LargestOrder(c[2]))
Low(c) == (Unit(c) - (c[1] % Unit(c))) % Unit(c)
Top(c) == ((c[1] + c[2]) \div Unit(c)) * Unit(c)
Count(c) == (Top(c) - (c[1] + Low(c))) \div Unit(c)
Central(c) == [n \in 1 .. Count(c) |-> <<Top(c) - n * Unit(c), LargestOrder(c[2])>>]
Above(c) == <<Top(c), c[1] + c[2] - Top(c)>>
Below(c) == <<c[1], Low(c)>>
PassedOver(c) == c[2] = 0 \/ c[1] < LowEnd \/ c[1] >= VirtualEnd

(* The largest order that fits.                                            *)
LEMMA LargestFits ==
  ASSUME NEW size \in Nat, size # 0
  PROVE  LET k == LargestOrder(size) IN
         /\ k \in Orders /\ k \in Nat /\ PAGE_SIZE_AT_ORDER(k) \in Nat \ {0} /\ PAGE_SIZE_AT_ORDER(k) <= size
         /\ k < PAGE_MAX_ORDER => size < PAGE_SIZE_AT_ORDER(k) + PAGE_SIZE_AT_ORDER(k)
<1>. DEFINE K == {k \in Orders : k = 0 \/ PAGE_SIZE_AT_ORDER(k) <= size}
            k == LargestOrder(size)
<1>1. PAGE_MAX_ORDER \in Nat
  BY AllocatorAssumption
<1>2. K \in SUBSET Nat /\ 0 \in K /\ \A x \in K : x <= PAGE_MAX_ORDER
  BY <1>1 DEF Orders
<1>3. k = Max(K)
  BY DEF LargestOrder
<1>. HIDE DEF k
<1>4. k \in K /\ \A x \in K : x <= k
  <2>. HIDE DEF K
  <2>. QED  BY <1>1, <1>2, <1>3, MaxOf
<1>5. k \in Orders /\ k \in Nat /\ PAGE_SIZE_AT_ORDER(k) \in Nat \ {0}
  BY <1>1, <1>4, Sizes DEF Orders
<1>6. PAGE_SIZE_AT_ORDER(k) <= size
  <2>1. k = 0 => PAGE_SIZE_AT_ORDER(k) = 1
    BY Sizes
  <2>. QED  BY <1>4, <2>1
<1>7. ASSUME k < PAGE_MAX_ORDER PROVE size < PAGE_SIZE_AT_ORDER(k) + PAGE_SIZE_AT_ORDER(k)
  <2>1. k + 1 \in Orders /\ k + 1 \in Nat /\ ~(k + 1 <= k)
    BY <1>1, <1>5, <1>7 DEF Orders
  <2>2. ~(PAGE_SIZE_AT_ORDER(k + 1) <= size)
    BY <1>4, <2>1
  <2>3. PAGE_SIZE_AT_ORDER(k + 1) \in Nat /\ PAGE_SIZE_AT_ORDER(k + 1) = PAGE_SIZE_AT_ORDER(k) + PAGE_SIZE_AT_ORDER(k)
    BY <1>5, <2>1, Sizes, Double
  <2>. QED  BY <2>2, <2>3
<1>. QED  BY <1>5, <1>6, <1>7 DEF k

(* Where the chunk is cut.                                                 *)
LEMMA ChunkNumbers ==
  ASSUME NEW c \in Chunks, c[2] # 0
  PROVE  LET k == LargestOrder(c[2]) IN
         /\ k \in Orders /\ k \in Nat /\ c[1] \in Nat /\ c[2] \in Nat /\ c[1] + c[2] <= Frames
         /\ Unit(c) \in Nat \ {0} /\ Unit(c) <= c[2] /\ Unit(c) = PAGE_SIZE_AT_ORDER(k)
         /\ Low(c) \in Nat /\ Low(c) < Unit(c) /\ OnBoundary(c[1] + Low(c), k)
         /\ Top(c) \in Nat /\ OnBoundary(Top(c), k) /\ Top(c) <= c[1] + c[2] /\ c[1] + c[2] - Top(c) < Unit(c)
         /\ c[1] + Low(c) <= Top(c)
         /\ Count(c) \in Nat /\ Count(c) * Unit(c) <= Top(c) - (c[1] + Low(c))
         /\ k < PAGE_MAX_ORDER => Count(c) <= 1
<1>. DEFINE base == c[1]
            size == c[2]
            k == LargestOrder(size)
            u == PAGE_SIZE_AT_ORDER(k)
            r == base % u
            low == (u - (base % u)) % u
            top == ((base + size) \div u) * u
            count == (top - (base + low)) \div u
<1>1. base \in Nat /\ size \in Nat /\ base + size <= Frames /\ size # 0
  BY AllocatorAssumption DEF Chunks
<1>2. /\ k \in Orders /\ k \in Nat /\ u \in Nat \ {0} /\ u <= size
      /\ k < PAGE_MAX_ORDER => size < u + u
  BY <1>1, LargestFits
<1>3. Unit(c) = u /\ Low(c) = low /\ Top(c) = top /\ Count(c) = count
  BY DEF Unit, Low, Top, Count
<1>4. \A x : OnBoundary(x, k) <=> x % u = 0
  BY DEF OnBoundary
<1>. HIDE DEF base, size, k, u
<1>5. r \in 0 .. u - 1 /\ base = (base \div u) * u + r /\ base \div u \in Nat
  BY <1>1, <1>2, Division
<1>6. low \in Nat /\ low < u /\ (base + low) % u = 0
  <2>1. CASE r = 0
    <3>1. u - (base % u) = u /\ u = 1 * u + 0 /\ 0 \in 0 .. u - 1 /\ 1 \in Int
      BY <1>2, <2>1
    <3>2. u % u = 0
      <4>1. PICK n, x : n = u /\ x = u
        OBVIOUS
      <4>2. n \in Nat \ {0} /\ x \in Nat /\ x = 1 * n + 0 /\ 0 \in 0 .. n - 1 /\ 1 \in Int
        BY <1>2, <3>1, <4>1
      <4>3. x % n = 0
        BY ONLY <4>2, Quotient
      <4>. QED  BY <4>1, <4>3
    <3>3. low = 0
      BY <3>1, <3>2
    <3>. HIDE DEF low
    <3>. QED  BY <1>1, <1>2, <2>1, <3>3
  <2>2. CASE r # 0
    <3>. DEFINE q == base \div u
    <3>. HIDE DEF r, q
    <3>1. u - r \in Nat /\ u - r = 0 * u + (u - r) /\ u - r \in 0 .. u - 1 /\ 0 \in Int
      BY <1>2, <1>5, <2>2
    <3>2. (u - r) % u = u - r
      BY <1>2, <3>1, Quotient
    <3>3. low = u - r
      BY <3>2 DEF r
    <3>4. base = q * u + r /\ q \in Nat /\ r \in Nat
      BY <1>2, <1>5 DEF q
    <3>. HIDE DEF low
    <3>5. base + low = (q + 1) * u + 0
      <4>1. q * u \in Nat /\ (q + 1) * u = q * u + u
        BY <1>2, <3>4
      <4>. QED  BY <1>2, <3>3, <3>4, <4>1
    <3>6. base + low \in Nat /\ q + 1 \in Int /\ 0 \in 0 .. u - 1 /\ low \in Nat /\ low < u
      BY <1>1, <1>2, <1>5, <2>2, <3>3, <3>4
    <3>7. (base + low) % u = 0
      <4>1. PICK x, p : x = base + low /\ p = q + 1
        OBVIOUS
      <4>2. x \in Nat /\ p \in Int /\ x = p * u + 0 /\ 0 \in 0 .. u - 1
        BY <3>5, <3>6, <4>1
      <4>3. x % u = 0
        BY <1>2, <4>2, Quotient
      <4>. QED  BY <4>1, <4>3
    <3>. QED  BY <3>6, <3>7
  <2>. QED  BY <2>1, <2>2
<1>. HIDE DEF low, r
<1>7. top \in Nat /\ top % u = 0 /\ top <= base + size /\ base + size - top < u
  <2>. DEFINE x == base + size
              q == x \div u
              e == x % u
  <2>1. x \in Nat
    BY <1>1
  <2>. HIDE DEF x
  <2>2. q \in Nat /\ e \in 0 .. u - 1 /\ x = q * u + e
    BY <1>2, <2>1, Division
  <2>3. top = q * u
    BY DEF x
  <2>. HIDE DEF q, e, top
  <2>4. q * u \in Nat /\ q * u = q * u + 0 /\ q \in Int /\ 0 \in 0 .. u - 1
    BY <1>2, <2>2
  <2>5. top \in Nat /\ top = q * u + 0
    BY <2>3, <2>4
  <2>6. top % u = 0
    BY <1>2, <2>4, <2>5, Quotient
  <2>7. top <= x /\ x - top < u
    BY <1>2, <2>2, <2>3, <2>4
  <2>8. top <= base + size /\ base + size - top < u
    BY <1>1, <1>2, <2>5, <2>7 DEF x
  <2>. QED  BY <2>5, <2>6, <2>8
<1>. HIDE DEF top
<1>8. base + low <= top
  <2>1. base + low \in Nat /\ (top < base + low => top + u <= base + low)
    BY <1>1, <1>2, <1>6, <1>7, Multiples
  <2>. QED  BY <1>1, <1>2, <1>6, <1>7, <2>1
<1>9. count \in Nat /\ count * u <= top - (base + low)
  <2>. DEFINE x == top - (base + low)
              e == x % u
  <2>1. x \in Nat
    BY <1>1, <1>6, <1>7, <1>8
  <2>2. count = x \div u
    OBVIOUS
  <2>. HIDE DEF x, count
  <2>3. count \in Nat /\ e \in 0 .. u - 1 /\ x = count * u + e
    BY <1>2, <2>1, <2>2, Division
  <2>. HIDE DEF e
  <2>4. count * u \in Nat
    BY <1>2, <2>3
  <2>5. count * u <= x
    BY <1>2, <2>1, <2>3, <2>4
  <2>. QED  BY <2>3, <2>5 DEF x
<1>. HIDE DEF count
<1>10. ASSUME k < PAGE_MAX_ORDER PROVE count <= 1
  <2>1. size < u + u
    BY <1>2, <1>10
  <2>2. count * u < u + u
    <3>1. count * u \in Nat
      BY <1>2, <1>9
    <3>. QED  BY <1>1, <1>2, <1>6, <1>7, <1>9, <2>1, <3>1
  <2>3. CASE count >= 2
    <3>1. count * u >= 2 * u
      BY <1>2, <1>9, <2>3
    <3>. QED  BY <1>2, <1>9, <2>2, <3>1
  <2>. QED  BY <1>9, <2>3
<1>. QED  BY <1>1, <1>2, <1>3, <1>4, <1>6, <1>7, <1>8, <1>9, <1>10 DEF base, size, k, u

(* The parts that are left are smaller chunks.                             *)
LEMMA ChunkParts ==
  ASSUME NEW c \in Chunks, ~PassedOver(c)
  PROVE  /\ Above(c) \in Chunks /\ Above(c)[2] < c[2] /\ Above(c)[2] \in Nat
         /\ Below(c) \in Chunks /\ Below(c)[2] < c[2] /\ Below(c)[2] \in Nat
<1>1. c[2] # 0
  BY DEF PassedOver
<1>. DEFINE t == Top(c)
            l == Low(c)
<1>2. /\ c[1] \in Nat /\ c[2] \in Nat /\ c[1] + c[2] <= Frames /\ Frames \in Nat
      /\ Unit(c) \in Nat /\ Unit(c) <= c[2]
      /\ l \in Nat /\ l < Unit(c)
      /\ t \in Nat /\ t <= c[1] + c[2] /\ c[1] + c[2] - t < Unit(c)
      /\ c[1] + l <= t
  BY <1>1, ChunkNumbers, AllocatorAssumption
<1>. HIDE DEF t, l
<1>3. /\ t \in 0 .. Frames /\ c[1] + c[2] - t \in 0 .. Frames /\ t + (c[1] + c[2] - t) <= Frames
      /\ c[1] + c[2] - t < c[2] /\ c[1] + c[2] - t \in Nat
  BY <1>2
<1>4. c[1] \in 0 .. Frames /\ l \in 0 .. Frames /\ c[1] + l <= Frames /\ l < c[2]
  BY <1>2
<1>5. Above(c) = <<t, c[1] + c[2] - t>> /\ Below(c) = <<c[1], l>>
  BY DEF Above, Below, t, l
<1>. QED  BY <1>2, <1>3, <1>4, <1>5 DEF Chunks

(* The blocks of the largest order, from the last boundary down.           *)
LEMMA CentralSound ==
  ASSUME NEW c \in Chunks, c[2] # 0
  PROVE  SoundCut(Central(c), c[1] + Low(c), Top(c))
<1>. DEFINE k == LargestOrder(c[2])
            u == Unit(c)
            t == Top(c)
            l == c[1] + Low(c)
            count == Count(c)
            At(n) == t - n * u
            s == Central(c)
<1>1. /\ k \in Orders /\ k \in Nat /\ u \in Nat \ {0} /\ u = PAGE_SIZE_AT_ORDER(k)
      /\ l \in Nat /\ t \in Nat /\ OnBoundary(t, k) /\ l <= t /\ t <= Frames
      /\ count \in Nat /\ count * u <= t - l /\ (k < PAGE_MAX_ORDER => count <= 1)
  <2>1. c[1] \in Nat /\ Low(c) \in Nat /\ Top(c) <= c[1] + c[2] /\ c[1] + c[2] <= Frames /\ c[2] \in Nat /\ Top(c) \in Nat
    BY ChunkNumbers
  <2>2. Top(c) <= Frames
    BY <2>1, AllocatorAssumption
  <2>. QED  BY <2>1, <2>2, ChunkNumbers
<1>2. s = [n \in 1 .. count |-> <<At(n), k>>]
  BY DEF Central
<1>. HIDE DEF k, u, t, l, count, s
<1>3. ASSUME NEW n \in 1 .. count
      PROVE  /\ At(n) \in Nat /\ l <= At(n) /\ At(n) + u <= t /\ At(n) \in 0 .. Frames - 1
             /\ OnBoundary(At(n), k)
  <2>1. n * u \in Nat /\ n * u <= count * u /\ count * u \in Nat /\ u <= n * u
    <3>1. n \in Nat /\ n >= 1 /\ n <= count
      BY <1>1
    <3>. QED  BY <1>1, <3>1
  <2>2. At(n) \in Nat /\ l <= At(n) /\ At(n) + u <= t /\ At(n) \in 0 .. Frames - 1
    BY <1>1, <2>1, AllocatorAssumption
  <2>3. OnBoundary(At(n), k)
    <3>1. t % u = 0
      BY <1>1 DEF OnBoundary
    <3>2. PICK q \in Nat : t = q * u
      BY <1>1, <3>1, Whole
    <3>3. PICK x, p : x = At(n) /\ p = q - n
      OBVIOUS
    <3>4. x \in Nat /\ p \in Int /\ 0 \in 0 .. u - 1
      BY <1>1, <2>2, <3>3
    <3>5. x = p * u + 0
      <4>1. (q - n) * u = q * u - n * u
        BY <1>1
      <4>. QED  BY <1>1, <2>1, <3>2, <3>3, <4>1
    <3>6. x % u = 0
      BY <1>1, <3>4, <3>5, Quotient
    <3>. QED  BY <1>1, <3>3, <3>6 DEF OnBoundary
  <2>. QED  BY <2>2, <2>3
<1>4. ASSUME NEW n \in 1 .. count, NEW p \in 1 .. count, n < p PROVE At(p) + u <= At(n)
  <2>1. n * u \in Nat /\ p * u \in Nat /\ n * u + u <= p * u
    <3>1. (n + 1) * u <= p * u /\ (n + 1) * u = n * u + u
      BY <1>1, <1>4
    <3>. QED  BY <1>1, <3>1
  <2>. QED  BY <1>1, <2>1
<1>. HIDE DEF At
<1>5. s \in Seq(AllBlocks) /\ Len(s) = count /\ \A n \in 1 .. count : s[n] = <<At(n), k>>
  <2>1. \A n \in 1 .. count : <<At(n), k>> \in AllBlocks
    BY <1>1, <1>3 DEF AllBlocks
  <2>2. s \in [1 .. count -> AllBlocks]
    BY <1>2, <2>1
  <2>3. s \in Seq(AllBlocks)
    BY <1>1, <2>2
  <2>4. DOMAIN s = 1 .. count
    BY <2>2
  <2>. QED  BY <1>1, <1>2, <2>3, <2>4, LenProperties
<1>6. ASSUME NEW n \in 1 .. count PROVE Between(s[n], l, t)
  BY <1>1, <1>3, <1>5 DEF Between
<1>7. ASSUME NEW n \in 1 .. count, NEW p \in 1 .. count, n # p PROVE Clear(s[n], s[p])
  <2>1. ~(k < PAGE_MAX_ORDER)
    BY <1>1, <1>7
  <2>2. At(p) + u <= At(n) \/ At(n) + u <= At(p)
    BY <1>4, <1>7
  <2>3. At(n) \in Nat /\ At(p) \in Nat
    BY <1>3
  <2>4. Block(At(n), k) \cap Block(At(p), k) = {}
    BY <1>1, <2>2, <2>3, Apart
  <2>5. s[n][1] = At(n) /\ s[n][2] = k /\ s[p][1] = At(p) /\ s[p][2] = k
    BY <1>5
  <2>. QED  BY <2>1, <2>4, <2>5 DEF Clear, BlockOf
<1>8. SoundCut(s, l, t)
  BY <1>5, <1>6, <1>7 DEF SoundCut
<1>. QED  BY <1>8 DEF s, l, t

(* What Page_MapMemoryChunk does with a chunk: the parts it calls itself   *)
(* with are smaller, so the recursion defines a cut of every chunk.        *)
LEMMA ChunkEquation ==
  ASSUME NEW c \in Chunks
  PROVE  Page_MapMemoryChunk[c] =
             IF PassedOver(c) THEN <<>>
             ELSE Page_MapMemoryChunk[Above(c)] \o Central(c) \o Page_MapMemoryChunk[Below(c)]
<1>. DEFINE F(f, d) == IF PassedOver(d) THEN <<>> ELSE f[Above(d)] \o Central(d) \o f[Below(d)]
            Body(f) == [d \in Chunks |-> F(f, d)]
            Good(f, n) == \A d \in Chunks : d[2] <= n => f[d] = F(f, d)
            Q == {n \in Nat : \E f : f = [d \in Chunks |-> f[d]] /\ Good(f, n)}
            g == CHOOSE f : f = Body(f)
<1>1. Page_MapMemoryChunk = g
  BY DEF Page_MapMemoryChunk, PassedOver, Above, Below, Central, Count, Top, Low, Unit
<1>2. \A d \in Chunks : d[2] \in Nat /\ d[2] <= Frames
  BY AllocatorAssumption DEF Chunks
<1>3. 0 \in Q
  <2>. DEFINE f == [d \in Chunks |-> <<>>]
  <2>1. ASSUME NEW d \in Chunks, d[2] <= 0 PROVE f[d] = F(f, d)
    <3>1. d[2] = 0
      BY <1>2, <2>1
    <3>. QED  BY <3>1 DEF PassedOver
  <2>2. f = [d \in Chunks |-> f[d]]
    OBVIOUS
  <2>3. Good(f, 0)
    BY <2>1
  <2>. HIDE DEF f, Good
  <2>. QED  BY <2>2, <2>3
<1>4. ASSUME NEW n \in Q, n < Frames PROVE n + 1 \in Q
  <2>1. PICK f : f = [d \in Chunks |-> f[d]] /\ Good(f, n)
    BY <1>4
  <2>. DEFINE h == [d \in Chunks |-> F(f, d)]
  <2>2. ASSUME NEW d \in Chunks, d[2] <= n + 1 PROVE h[d] = F(h, d)
    <3>1. CASE PassedOver(d)
      BY <3>1
    <3>2. CASE ~PassedOver(d)
      <4>1. /\ Above(d) \in Chunks /\ Above(d)[2] < d[2] /\ Above(d)[2] \in Nat
            /\ Below(d) \in Chunks /\ Below(d)[2] < d[2] /\ Below(d)[2] \in Nat
        BY <3>2, ChunkParts
      <4>2. Above(d)[2] <= n /\ Below(d)[2] <= n
        BY <1>2, <2>2, <4>1
      <4>3. f[Above(d)] = F(f, Above(d)) /\ f[Below(d)] = F(f, Below(d))
        BY <2>1, <4>1, <4>2
      <4>4. h[d] = F(f, d) /\ h[Above(d)] = F(f, Above(d)) /\ h[Below(d)] = F(f, Below(d))
        <5>. HIDE DEF F
        <5>. QED  BY <4>1
      <4>5. h[Above(d)] = f[Above(d)] /\ h[Below(d)] = f[Below(d)]
        <5>. HIDE DEF F, h
        <5>. QED  BY <4>3, <4>4
      <4>. HIDE DEF h
      <4>. QED  BY <3>2, <4>4, <4>5
    <3>. QED  BY <3>1, <3>2
  <2>3. h = [d \in Chunks |-> h[d]]
    OBVIOUS
  <2>4. Good(h, n + 1)
    <3>. HIDE DEF h, F
    <3>. QED  BY <2>2
  <2>5. n + 1 \in Nat
    OBVIOUS
  <2>. HIDE DEF h, Good
  <2>. QED  BY <2>3, <2>4, <2>5
<1>5. Frames \in Q
  <2>1. Q \in SUBSET Nat /\ Frames \in Nat
    BY AllocatorAssumption
  <2>. HIDE DEF Q
  <2>2. 0 .. Frames \subseteq Q
    BY <1>3, <1>4, <2>1, InductionTo
  <2>3. Frames \in 0 .. Frames
    BY <2>1
  <2>. QED  BY <2>2, <2>3
<1>6. PICK f : f = [d \in Chunks |-> f[d]] /\ Good(f, Frames)
  BY <1>5
<1>7. f = Body(f)
  <2>1. ASSUME NEW d \in Chunks PROVE f[d] = F(f, d)
    BY <1>2, <1>6
  <2>. HIDE DEF F
  <2>. QED  BY <1>6, <2>1
<1>8. g = Body(g)
  <2>. HIDE DEF Body
  <2>. QED  BY <1>7
<1>. HIDE DEF g
<1>9. g[c] = F(g, c)
  <2>. HIDE DEF F
  <2>. QED  BY <1>8
<1>. QED  BY <1>1, <1>9

(* Nothing at all is a cut.                                                *)
LEMMA EmptyCut == ASSUME NEW lo, NEW hi PROVE SoundCut(<<>>, lo, hi)
<1>1. <<>> \in Seq(AllBlocks) /\ Len(<<>>) = 0
  OBVIOUS
<1>. QED  BY <1>1 DEF SoundCut

(* A block between two frames less than a block of order k apart is of a   *)
(* smaller order.                                                          *)
LEMMA OfSmallerOrder ==
  ASSUME NEW b \in AllBlocks, NEW k \in Nat, NEW lo \in Nat, NEW hi \in Nat,
         Between(b, lo, hi), hi - lo < PAGE_SIZE_AT_ORDER(k),
         NEW x \in Nat, OnBoundary(x, k)
  PROVE  OnBoundary(x, b[2] + 1)
<1>1. b[1] \in Nat /\ b[2] \in Nat /\ PAGE_SIZE_AT_ORDER(b[2]) \in Nat /\ PAGE_SIZE_AT_ORDER(k) \in Nat
  BY BlockNumbers, Sizes
<1>2. PAGE_SIZE_AT_ORDER(b[2]) < PAGE_SIZE_AT_ORDER(k)
  BY <1>1 DEF Between
<1>3. b[2] < k
  BY <1>1, <1>2, Smaller
<1>. DEFINE j == b[2] + 1
<1>4. j \in Nat /\ j <= k
  BY <1>1, <1>3
<1>. HIDE DEF j
<1>5. OnBoundary(x, j)
  BY <1>4, Coarser DEF OnBoundary
<1>. QED  BY <1>5 DEF j

(* Page_MapMemoryChunk cuts a chunk into blocks of which no two overlap or *)
(* are buddies.                                                            *)
LEMMA ChunkIsCut ==
  ASSUME NEW c \in Chunks, ~PassedOver(c), NEW s, NEW t,
         SoundCut(s, Above(c)[1], Above(c)[1] + Above(c)[2]),
         SoundCut(t, Below(c)[1], Below(c)[1] + Below(c)[2])
  PROVE  SoundCut(s \o Central(c) \o t, c[1], c[1] + c[2])
<1>. DEFINE k == LargestOrder(c[2])
            u == Unit(c)
            top == Top(c)
            low == c[1] + Low(c)
            base == c[1]
            end == c[1] + c[2]
            m == Central(c)
            r == s \o m
<1>1. c[2] # 0
  BY DEF PassedOver
<1>2. /\ k \in Nat /\ k \in Orders /\ u \in Nat \ {0} /\ u = PAGE_SIZE_AT_ORDER(k)
      /\ base \in Nat /\ end \in Nat /\ low \in Nat /\ top \in Nat
      /\ base <= low /\ low <= top /\ top <= end
      /\ low - base < u /\ end - top < u
      /\ OnBoundary(low, k) /\ OnBoundary(top, k)
      /\ Above(c)[1] = top /\ Above(c)[1] + Above(c)[2] = end
      /\ Below(c)[1] = base /\ Below(c)[1] + Below(c)[2] = low
  <2>. DEFINE l == Low(c)
              z == c[2]
  <2>1. /\ k \in Nat /\ k \in Orders /\ u \in Nat \ {0} /\ u = PAGE_SIZE_AT_ORDER(k)
        /\ base \in Nat /\ z \in Nat /\ l \in Nat /\ l < u /\ top \in Nat
        /\ top <= base + z /\ base + z - top < u /\ base + l <= top
        /\ OnBoundary(base + l, k) /\ OnBoundary(top, k)
    BY <1>1, ChunkNumbers
  <2>2. Above(c)[1] = top /\ Above(c)[2] = base + z - top /\ Below(c)[1] = base /\ Below(c)[2] = l
    BY DEF Above, Below
  <2>. HIDE DEF k, u, top, base, l, z
  <2>3. /\ base + z \in Nat /\ base + l \in Nat /\ base <= base + l /\ (base + l) - base < u
        /\ (base + z) - top < u /\ top + (base + z - top) = base + z
    BY <2>1
  <2>4. low = base + l /\ end = base + z
    BY DEF base, l, z
  <2>. HIDE DEF low, end
  <2>. QED  BY <2>1, <2>2, <2>3, <2>4
<1>3. SoundCut(m, low, top)
  BY <1>1, CentralSound
<1>4. SoundCut(s, top, end) /\ SoundCut(t, base, low)
  BY <1>2
<1>. HIDE DEF k, u, top, low, base, end, m, r
<1>5. ASSUME NEW n \in 1 .. Len(s), NEW p \in 1 .. Len(m) PROVE Clear(s[n], m[p]) /\ Clear(m[p], s[n])
  <2>1. s[n] \in AllBlocks /\ m[p] \in AllBlocks
    BY <1>3, <1>4, ElementOfSeq DEF SoundCut
  <2>2. Between(s[n], top, end) /\ Between(m[p], low, top)
    BY <1>3, <1>4 DEF SoundCut
  <2>3. OnBoundary(top, s[n][2] + 1)
    BY <1>2, <2>1, <2>2, OfSmallerOrder
  <2>4. top <= s[n][1] /\ m[p][1] + PAGE_SIZE_AT_ORDER(m[p][2]) <= top
    BY <2>2 DEF Between
  <2>. QED  BY <1>2, <2>1, <2>3, <2>4, AcrossBoundary
<1>6. SoundCut(r, low, end)
  <2>1. low \in Int /\ top \in Int /\ end \in Int /\ low <= top /\ low <= low /\ end <= end /\ top <= end
    BY <1>2
  <2>. QED  BY <1>3, <1>4, <1>5, <2>1, Joined DEF r
<1>7. ASSUME NEW n \in 1 .. Len(r), NEW p \in 1 .. Len(t) PROVE Clear(r[n], t[p]) /\ Clear(t[p], r[n])
  <2>1. r[n] \in AllBlocks /\ t[p] \in AllBlocks
    BY <1>4, <1>6, ElementOfSeq DEF SoundCut
  <2>2. Between(t[p], base, low) /\ Between(r[n], low, end)
    BY <1>4, <1>6 DEF SoundCut
  <2>3. OnBoundary(low, t[p][2] + 1)
    BY <1>2, <2>1, <2>2, OfSmallerOrder
  <2>4. low <= r[n][1] /\ t[p][1] + PAGE_SIZE_AT_ORDER(t[p][2]) <= low
    BY <2>2 DEF Between
  <2>5. r[n][2] = t[p][2] => OnBoundary(low, r[n][2] + 1)
    BY <2>3
  <2>. QED  BY <1>2, <2>1, <2>4, <2>5, AcrossBoundary
<1>8. SoundCut(r \o t, base, end)
  <2>1. base \in Int /\ low \in Int /\ end \in Int /\ base <= low /\ base <= base /\ end <= end /\ low <= end
    BY <1>2
  <2>. QED  BY <1>4, <1>6, <1>7, <2>1, Joined
<1>. QED  BY <1>8 DEF r, m, base, end

(* It does so for every chunk.                                             *)
LEMMA ChunksAreCut == \A c \in Chunks : SoundCut(Page_MapMemoryChunk[c], c[1], c[1] + c[2])
<1>. DEFINE Cut(c) == SoundCut(Page_MapMemoryChunk[c], c[1], c[1] + c[2])
            Q == {n \in Nat : \A c \in Chunks : c[2] <= n => Cut(c)}
<1>1. \A c \in Chunks : c[2] \in Nat /\ c[2] <= Frames /\ c[2] \in 0 .. Frames
  BY AllocatorAssumption DEF Chunks
<1>2. ASSUME NEW c \in Chunks, PassedOver(c) PROVE Cut(c)
  <2>1. Page_MapMemoryChunk[c] = <<>>
    BY <1>2, ChunkEquation
  <2>. QED  BY <2>1, EmptyCut
<1>3. ASSUME NEW c \in Chunks, ~PassedOver(c), Cut(Above(c)), Cut(Below(c)) PROVE Cut(c)
  <2>. DEFINE s == Page_MapMemoryChunk[Above(c)]
              t == Page_MapMemoryChunk[Below(c)]
  <2>1. Page_MapMemoryChunk[c] = s \o Central(c) \o t
    BY <1>3, ChunkEquation
  <2>2. SoundCut(s, Above(c)[1], Above(c)[1] + Above(c)[2]) /\ SoundCut(t, Below(c)[1], Below(c)[1] + Below(c)[2])
    BY <1>3
  <2>. HIDE DEF s, t
  <2>3. SoundCut(s \o Central(c) \o t, c[1], c[1] + c[2])
    BY <1>3, <2>2, ChunkIsCut
  <2>. QED  BY <2>1, <2>3
<1>. HIDE DEF Cut
<1>4. 0 \in Q
  <2>1. ASSUME NEW c \in Chunks, c[2] <= 0 PROVE Cut(c)
    <3>1. c[2] = 0
      BY <1>1, <2>1
    <3>. QED  BY <1>2, <3>1 DEF PassedOver
  <2>. QED  BY <2>1
<1>5. ASSUME NEW n \in Q, n < Frames PROVE n + 1 \in Q
  <2>1. ASSUME NEW c \in Chunks, c[2] <= n + 1, ~PassedOver(c) PROVE Cut(c)
    <3>1. /\ Above(c) \in Chunks /\ Above(c)[2] < c[2] /\ Above(c)[2] \in Nat
          /\ Below(c) \in Chunks /\ Below(c)[2] < c[2] /\ Below(c)[2] \in Nat
      BY <2>1, ChunkParts
    <3>2. Above(c)[2] <= n /\ Below(c)[2] <= n
      BY <1>1, <2>1, <3>1
    <3>. QED  BY <1>3, <1>5, <2>1, <3>1, <3>2
  <2>. QED  BY <1>2, <2>1
<1>6. Frames \in Q
  <2>1. Q \in SUBSET Nat /\ Frames \in Nat
    BY AllocatorAssumption
  <2>. HIDE DEF Q
  <2>2. 0 .. Frames \subseteq Q
    BY <1>4, <1>5, <2>1, InductionTo
  <2>3. Frames \in 0 .. Frames
    BY <2>1
  <2>. QED  BY <2>2, <2>3
<1>7. \A c \in Chunks : Cut(c)
  BY <1>1, <1>6
<1>. QED  BY <1>7 DEF Cut

(* A value can be carried through n steps: what the recursive functions of *)
(* the model define exists.                                                *)
LEMMA Iteration ==
  ASSUME NEW V, NEW v \in V, NEW n \in Nat, NEW Step \in [1 .. n -> [V -> V]]
  PROVE  \E f \in [0 .. n -> V] : f[0] = v /\ \A k \in 1 .. n : f[k] = Step[k][f[k - 1]]
<1>. DEFINE Upto(m, f) == f[0] = v /\ \A k \in 1 .. m : f[k] = Step[k][f[k - 1]]
            S == {m \in Nat : m <= n => \E f \in [0 .. m -> V] : Upto(m, f)}
<1>1. 0 \in S
  <2>1. [k \in 0 .. 0 |-> v] \in [0 .. 0 -> V] /\ Upto(0, [k \in 0 .. 0 |-> v])
    OBVIOUS
  <2>. QED  BY <2>1
<1>2. ASSUME NEW m \in S, m < n PROVE m + 1 \in S
  <2>1. PICK f \in [0 .. m -> V] : Upto(m, f)
    BY <1>2
  <2>. DEFINE g == [k \in 0 .. m + 1 |-> IF k = m + 1 THEN Step[m + 1][f[m]] ELSE f[k]]
  <2>2. m + 1 \in 1 .. n /\ f[m] \in V
    BY <1>2
  <2>3. Step[m + 1][f[m]] \in V
    BY <2>2
  <2>4. g \in [0 .. m + 1 -> V]
    <3>1. \A k \in 0 .. m + 1 : k # m + 1 => k \in 0 .. m
      OBVIOUS
    <3>. QED  BY <2>3, <3>1
  <2>5. g[0] = v
    BY <2>1
  <2>6. ASSUME NEW k \in 1 .. m + 1 PROVE g[k] = Step[k][g[k - 1]]
    <3>1. k - 1 \in 0 .. m /\ k - 1 # m + 1 /\ k - 1 \in 0 .. m + 1 /\ k \in 0 .. m + 1
      BY <2>6
    <3>2. g[k - 1] = f[k - 1]
      BY <3>1
    <3>3. CASE k = m + 1
      BY <3>1, <3>2, <3>3
    <3>4. CASE k # m + 1
      <4>1. k \in 1 .. m
        BY <2>6, <3>4
      <4>. QED  BY <2>1, <3>1, <3>2, <3>4, <4>1
    <3>. QED  BY <3>3, <3>4
  <2>. HIDE DEF g
  <2>7. Upto(m + 1, g)
    BY <2>5, <2>6
  <2>8. m + 1 \in Nat
    OBVIOUS
  <2>. HIDE DEF Upto
  <2>. QED  BY <2>4, <2>7, <2>8
<1>3. 0 .. n \subseteq S
  <2>. HIDE DEF S
  <2>1. S \in SUBSET Nat
    BY DEF S
  <2>. QED  BY <1>1, <1>2, <2>1, InductionTo
<1>. QED  BY <1>3

(* A chunk up to the last frame.                                           *)
LEMMA TruncatedFacts ==
  ASSUME NEW chunk \in [base : Nat, size : Nat]
  PROVE  LET c == Truncated(chunk) IN
         /\ c \in Chunks /\ c[1] \in Nat /\ c[2] \in Nat
         /\ c[2] # 0 => c[1] = chunk.base /\ chunk.size > 0 /\ c[1] + c[2] <= chunk.base + chunk.size
<1>. DEFINE b == chunk.base
            z == chunk.size
            x == IF b >= Frames THEN Frames ELSE b
            y == IF b >= Frames THEN 0 ELSE IF b + z > Frames THEN Frames - b ELSE z
<1>1. b \in Nat /\ z \in Nat /\ Frames \in Nat
  BY AllocatorAssumption
<1>2. Truncated(chunk) = <<x, y>>
  BY DEF Truncated
<1>. HIDE DEF b, z
<1>3. /\ x \in 0 .. Frames /\ y \in 0 .. Frames /\ x + y <= Frames /\ x \in Nat /\ y \in Nat
      /\ y # 0 => x = b /\ z > 0 /\ x + y <= b + z
  BY <1>1
<1>. HIDE DEF x, y
<1>4. <<x, y>> \in Chunks
  BY <1>3 DEF Chunks
<1>. QED  BY <1>2, <1>3, <1>4 DEF b, z

(* The chunks of a map, last one first, each below the ones before, and    *)
(* nothing in low memory.                                                  *)
LEMMA MapIsCut ==
  ASSUME NEW map \in MemoryMaps
  PROVE  SoundCut(Page_BuddyMaps_Initialize(map), LowEnd, Frames)
<1>. DEFINE n == Len(map)
            V == Seq(AllBlocks)
            Chunk(k) == map[n + 1 - k]
            Piece(k) == Page_MapMemoryChunk[Truncated(Chunk(k))]
            New(k, v) == v \o Piece(k)
            Step == [k \in 1 .. n |-> [v \in V |-> New(k, v)]]
            Body(f) == [k \in 0 .. n |-> IF k = 0 THEN <<>> ELSE New(k, f[k - 1])]
            g == CHOOSE f : f = Body(f)
<1>1. Page_BuddyMaps_Initialize(map) = g[n]
  BY DEF Page_BuddyMaps_Initialize
<1>2. n \in Nat /\ Frames \in Nat /\ LowEnd \in Nat /\ map \in Seq([base : Nat, size : Nat]) /\ DOMAIN map = 1 .. n
  BY MapAssumption, AllocatorAssumption
<1>3. ASSUME NEW k \in 1 .. n
      PROVE  Chunk(k) \in [base : Nat, size : Nat] /\ Chunk(k).base \in Nat /\ Chunk(k).size \in Nat
  <2>. DEFINE l == n + 1 - k
  <2>1. l \in 1 .. n
    BY <1>2
  <2>. HIDE DEF l
  <2>2. map[l] \in [base : Nat, size : Nat]
    BY <1>2, <2>1, ElementOfSeq
  <2>. QED  BY <2>2 DEF l
<1>4. ASSUME NEW j \in 1 .. n, NEW k \in 1 .. n, j < k, Chunk(j).size > 0, Chunk(k).size > 0
      PROVE  Chunk(k).base + Chunk(k).size < Chunk(j).base
  <2>. DEFINE a == n + 1 - j
              b == n + 1 - k
  <2>1. a \in DOMAIN map /\ b \in DOMAIN map /\ b < a
    BY <1>2, <1>4
  <2>2. map[a].size > 0 /\ map[b].size > 0
    BY <1>4
  <2>. HIDE DEF a, b
  <2>3. map[b].base + map[b].size < map[a].base
    BY <2>1, <2>2, MapAssumption
  <2>. QED  BY <2>3 DEF a, b
<1>. HIDE DEF Chunk
<1>5. ASSUME NEW k \in 1 .. n
      PROVE  /\ Piece(k) \in V /\ SoundCut(Piece(k), LowEnd, Frames)
             /\ \A q \in 1 .. Len(Piece(k)) : /\ Chunk(k).size > 0
                                              /\ Between(Piece(k)[q], Chunk(k).base, Chunk(k).base + Chunk(k).size)
  <2>. DEFINE c == Truncated(Chunk(k))
              t == Piece(k)
              b == Chunk(k).base
              z == Chunk(k).size
  <2>1. /\ c \in Chunks /\ c[1] \in Nat /\ c[2] \in Nat /\ b \in Nat /\ z \in Nat
        /\ c[2] # 0 => c[1] = b /\ z > 0 /\ c[1] + c[2] <= b + z
    BY <1>3, TruncatedFacts
  <2>2. t = Page_MapMemoryChunk[c]
    OBVIOUS
  <2>. HIDE DEF c, t, b, z
  <2>3. SoundCut(t, c[1], c[1] + c[2])
    BY <2>1, <2>2, ChunksAreCut
  <2>4. c[1] + c[2] <= Frames
    BY <2>1 DEF Chunks
  <2>5. ASSUME NEW q \in 1 .. Len(t) PROVE z > 0 /\ Between(t[q], b, b + z) /\ Between(t[q], LowEnd, Frames)
    <3>1. t[q] \in AllBlocks
      BY <2>3, ElementOfSeq DEF SoundCut
    <3>2. Between(t[q], c[1], c[1] + c[2])
      BY <2>3 DEF SoundCut
    <3>3. t[q][1] \in Nat /\ PAGE_SIZE_AT_ORDER(t[q][2]) \in Nat \ {0}
      BY <3>1, BlockNumbers
    <3>4. OnBoundary(t[q][1], t[q][2]) /\ c[1] <= t[q][1] /\ t[q][1] + PAGE_SIZE_AT_ORDER(t[q][2]) <= c[1] + c[2]
      BY <3>2 DEF Between
    <3>5. c[2] # 0
      BY <2>1, <3>3, <3>4
    <3>6. z > 0 /\ b <= t[q][1] /\ t[q][1] + PAGE_SIZE_AT_ORDER(t[q][2]) <= b + z
      BY <2>1, <3>3, <3>4, <3>5
    <3>7. LowEnd <= t[q][1] /\ t[q][1] + PAGE_SIZE_AT_ORDER(t[q][2]) <= Frames
      <4>1. PICK x \in Nat, w \in Nat, e \in Nat :
                x = t[q][1] /\ w = PAGE_SIZE_AT_ORDER(t[q][2]) /\ e = c[1] + c[2]
        BY <2>1, <3>3
      <4>2. x + w <= e /\ e <= Frames
        BY <2>4, <3>4, <4>1
      <4>3. ~PassedOver(c)
        <5>1. CASE PassedOver(c)
          <6>1. t = <<>>
            BY <2>1, <2>2, <5>1, ChunkEquation
          <6>. QED  BY <6>1
        <5>. QED  BY <5>1
      <4>4. c[1] >= LowEnd /\ c[1] <= x
        <5>1. ~(c[1] < LowEnd)
          BY <4>3 DEF PassedOver
        <5>2. c[1] <= x
          BY <3>4, <4>1
        <5>. QED  BY <1>2, <2>1, <5>1, <5>2
      <4>5. LowEnd <= x /\ x + w <= Frames
        BY <1>2, <2>1, <4>2, <4>4
      <4>. QED  BY <4>1, <4>5
    <3>. QED  BY <3>4, <3>6, <3>7 DEF Between
  <2>6. SoundCut(t, LowEnd, Frames)
    BY <2>3, <2>5 DEF SoundCut
  <2>. QED  BY <2>5, <2>6 DEF SoundCut, t, b, z
<1>. HIDE DEF Piece
<1>6. ASSUME NEW k \in 1 .. n, NEW v \in V PROVE New(k, v) \in V
  BY <1>5, ConcatProperties
<1>. DEFINE Placed(k, v) ==
              /\ SoundCut(v, LowEnd, Frames)
              /\ \A p \in 1 .. Len(v) : \E l \in 1 .. k : Chunk(l).size > 0 /\ Chunk(l).base <= v[p][1]
<1>7. ASSUME NEW k \in 1 .. n, NEW v, Placed(k - 1, v) PROVE Placed(k, New(k, v))
  <2>. DEFINE t == Piece(k)
              r == v \o t
  <2>1. SoundCut(t, LowEnd, Frames) /\ SoundCut(v, LowEnd, Frames) /\ New(k, v) = r
    BY <1>5, <1>7
  <2>2. ASSUME NEW p \in 1 .. Len(v) PROVE \E l \in 1 .. k - 1 : Chunk(l).size > 0 /\ Chunk(l).base <= v[p][1]
    BY <1>7
  <2>3. ASSUME NEW q \in 1 .. Len(t)
        PROVE  Chunk(k).size > 0 /\ Between(t[q], Chunk(k).base, Chunk(k).base + Chunk(k).size)
    BY <1>5
  <2>. HIDE DEF t, r, New
  <2>4. ASSUME NEW p \in 1 .. Len(v), NEW q \in 1 .. Len(t) PROVE Clear(v[p], t[q]) /\ Clear(t[q], v[p])
    <3>1. v[p] \in AllBlocks /\ t[q] \in AllBlocks
      BY <2>1, ElementOfSeq DEF SoundCut
    <3>2. PICK l \in 1 .. k - 1 : Chunk(l).size > 0 /\ Chunk(l).base <= v[p][1]
      BY <2>2
    <3>3. l \in 1 .. n /\ l < k
      BY <1>2
    <3>4. Chunk(k).base + Chunk(k).size < Chunk(l).base
      BY <1>4, <2>3, <3>2, <3>3
    <3>5. Chunk(k).base \in Nat /\ Chunk(k).size \in Nat /\ Chunk(l).base \in Nat
      BY <1>3, <3>3
    <3>6. v[p][1] \in Nat /\ t[q][1] \in Nat /\ PAGE_SIZE_AT_ORDER(t[q][2]) \in Nat
      BY <3>1, BlockNumbers
    <3>7. t[q][1] + PAGE_SIZE_AT_ORDER(t[q][2]) <= Chunk(k).base + Chunk(k).size
      BY <2>3 DEF Between
    <3>8. t[q][1] + PAGE_SIZE_AT_ORDER(t[q][2]) < v[p][1]
      <4>1. PICK x, e, m, y : /\ x = t[q][1] + PAGE_SIZE_AT_ORDER(t[q][2])
                              /\ e = Chunk(k).base + Chunk(k).size
                              /\ m = Chunk(l).base /\ y = v[p][1]
        OBVIOUS
      <4>2. x \in Nat
        BY <3>6, <4>1
      <4>3. e \in Nat /\ m \in Nat
        BY <3>5, <4>1
      <4>4. y \in Nat
        BY <3>6, <4>1
      <4>5. x <= e /\ e < m /\ m <= y
        BY <3>2, <3>4, <3>7, <4>1
      <4>6. x < y
        BY <4>2, <4>3, <4>4, <4>5
      <4>. QED  BY <4>1, <4>6
    <3>9. OnBoundary(v[p][1], v[p][2]) /\ OnBoundary(t[q][1], t[q][2])
      BY <2>1 DEF SoundCut, Between
    <3>. QED  BY <3>1, <3>8, <3>9, AcrossGap
  <2>5. SoundCut(r, LowEnd, Frames)
    <3>1. LowEnd \in Int /\ Frames \in Int /\ LowEnd <= LowEnd /\ Frames <= Frames
      BY <1>2
    <3>. QED  BY <2>1, <2>4, <3>1, Joined DEF r
  <2>6. ASSUME NEW p \in 1 .. Len(r) PROVE \E l \in 1 .. k : Chunk(l).size > 0 /\ Chunk(l).base <= r[p][1]
    <3>. DEFINE i == Len(v)
    <3>1. v \in Seq(AllBlocks) /\ t \in Seq(AllBlocks) /\ i \in Nat /\ Len(t) \in Nat
      BY <2>1 DEF SoundCut
    <3>2. Len(r) = i + Len(t) /\ r[p] = IF p <= i THEN v[p] ELSE t[p - i]
      BY <3>1, ConcatProperties DEF r
    <3>3. CASE p <= i
      <4>1. p \in 1 .. i /\ r[p] = v[p]
        BY <3>1, <3>2, <3>3
      <4>2. PICK l \in 1 .. k - 1 : Chunk(l).size > 0 /\ Chunk(l).base <= v[p][1]
        BY <2>2, <4>1
      <4>3. l \in 1 .. k
        BY <1>2
      <4>. QED  BY <4>1, <4>2, <4>3
    <3>4. CASE ~(p <= i)
      <4>1. p - i \in 1 .. Len(t) /\ r[p] = t[p - i]
        BY <3>1, <3>2, <3>4
      <4>2. Chunk(k).size > 0 /\ Chunk(k).base <= r[p][1]
        BY <2>3, <4>1 DEF Between
      <4>3. k \in 1 .. k
        BY <1>2
      <4>. QED  BY <4>2, <4>3
    <3>. QED  BY <3>3, <3>4
  <2>. QED  BY <2>1, <2>5, <2>6
<1>. HIDE DEF n, New, Placed
<1>8. PICK f \in [0 .. n -> V] : f[0] = <<>> /\ \A k \in 1 .. n : f[k] = Step[k][f[k - 1]]
  <2>1. Step \in [1 .. n -> [V -> V]] /\ <<>> \in V
    BY <1>6
  <2>. HIDE DEF Step, V
  <2>2. PICK W, v, m, T : W = V /\ v = <<>> /\ m = n /\ T = Step
    OBVIOUS
  <2>3. m \in Nat /\ v \in W /\ T \in [1 .. m -> [W -> W]]
    BY <1>2, <2>1, <2>2
  <2>4. \E f \in [0 .. m -> W] : f[0] = v /\ \A k \in 1 .. m : f[k] = T[k][f[k - 1]]
    BY ONLY <2>3, Iteration
  <2>. QED  BY <2>2, <2>4
<1>. HIDE DEF V
<1>9. ASSUME NEW k \in 0 .. n PROVE f[k] = IF k = 0 THEN <<>> ELSE New(k, f[k - 1])
  <2>1. CASE k = 0
    BY <1>8, <2>1
  <2>2. CASE k # 0
    <3>1. k \in 1 .. n /\ k - 1 \in 0 .. n
      BY <1>2, <2>2
    <3>. QED  BY <1>8, <2>2, <3>1
  <2>. QED  BY <2>1, <2>2
<1>10. g = Body(g)
  <2>1. f = Body(f)
    BY <1>8, <1>9
  <2>. HIDE DEF Body
  <2>. QED  BY <2>1
<1>. HIDE DEF g
<1>11. g[0] = <<>> /\ \A k \in 1 .. n : g[k] = New(k, g[k - 1])
  <2>1. \A k \in 0 .. n : g[k] = Body(g)[k]
    <3>. HIDE DEF Body
    <3>. QED  BY <1>10
  <2>2. 0 \in 0 .. n /\ \A k \in 1 .. n : k \in 0 .. n /\ k # 0
    BY <1>2
  <2>. QED  BY <2>1, <2>2
<1>12. Placed(0, <<>>)
  <2>1. Len(<<>>) = 0
    OBVIOUS
  <2>. QED  BY <2>1, EmptyCut DEF Placed
<1>13. Placed(n, g[n])
  <2>. DEFINE S == {k \in 0 .. n : Placed(k, g[k])}
  <2>1. 0 \in S
    <3>1. 0 \in 0 .. n
      BY <1>2
    <3>. QED  BY <1>11, <1>12, <3>1
  <2>2. ASSUME NEW k \in S, k < n PROVE k + 1 \in S
    <3>. DEFINE m == k + 1
    <3>1. m \in 1 .. n /\ m \in 0 .. n /\ m - 1 = k /\ Placed(k, g[k])
      BY <1>2, <2>2
    <3>. HIDE DEF m
    <3>2. g[m] = New(m, g[m - 1]) /\ Placed(m, New(m, g[m - 1]))
      BY <1>7, <1>11, <3>1
    <3>3. m \in S
      BY <3>1, <3>2
    <3>. QED  BY <3>3 DEF m
  <2>3. S \in SUBSET Nat
    BY <1>2
  <2>. HIDE DEF S
  <2>4. 0 .. n \subseteq S
    BY <1>2, <2>1, <2>2, <2>3, InductionTo
  <2>5. n \in 0 .. n
    BY <1>2
  <2>. QED  BY <2>4, <2>5 DEF S
<1>. QED  BY <1>1, <1>13 DEF Placed

(* The list of an order holds the blocks of that order, each once.         *)
LEMMA ListFacts ==
  ASSUME NEW s, SoundCut(s, 0, Frames), NEW k \in Orders
  PROVE  LET l == ListOf(s, k) IN
         /\ l \in Seq(0 .. Frames - 1) /\ IsInjective(l)
         /\ \A a : a \in Range(l) <=> \E p \in 1 .. Len(s) : s[p] = <<a, k>>
<1>. DEFINE n == Len(s)
            V == Seq(0 .. Frames - 1)
            New(p, v) == IF s[p][2] = k THEN Push(s[p][1], v) ELSE v
            Step == [p \in 1 .. n |-> [v \in V |-> New(p, v)]]
            Body(f) == [p \in 0 .. n |-> IF p = 0 THEN <<>> ELSE New(p, f[p - 1])]
            g == CHOOSE f : f = Body(f)
<1>1. ListOf(s, k) = g[n]
  <2>. DEFINE Plain(f) == [p \in 0 .. n |-> IF p = 0 THEN <<>>
                                            ELSE IF s[p][2] = k THEN Push(s[p][1], f[p - 1])
                                            ELSE f[p - 1]]
  <2>1. ListOf(s, k) = (CHOOSE f : f = Plain(f))[n]
    BY DEF ListOf
  <2>. QED  BY <2>1
<1>2. s \in Seq(AllBlocks) /\ n \in Nat
  BY DEF SoundCut
<1>3. ASSUME NEW p \in 1 .. n
      PROVE  s[p] \in AllBlocks /\ s[p][1] \in 0 .. Frames - 1 /\ s[p] = <<s[p][1], s[p][2]>> /\ p - 1 \in 0 .. n
  <2>1. s[p] \in AllBlocks
    BY <1>2, ElementOfSeq
  <2>. QED  BY <1>2, <2>1 DEF AllBlocks
<1>4. ASSUME NEW p \in 1 .. n, NEW v \in V PROVE New(p, v) \in V
  <2>1. <<s[p][1]>> \in V
    BY <1>3
  <2>2. <<s[p][1]>> \o v \in V
    BY <2>1, ConcatProperties
  <2>. QED  BY <2>2 DEF Push
<1>5. ASSUME NEW p \in 1 .. n, NEW q \in 1 .. n, p # q, s[p][2] = s[q][2] PROVE s[p][1] # s[q][1]
  <2>1. Clear(s[p], s[q])
    BY <1>5 DEF SoundCut
  <2>2. s[p][1] \in Nat /\ s[p][2] \in Nat
    BY <1>3, BlockNumbers
  <2>3. s[p][1] \in Block(s[p][1], s[p][2])
    BY <2>2, Apart
  <2>. QED  BY <1>5, <2>1, <2>3 DEF Clear, BlockOf
<1>. HIDE DEF n
<1>6. PICK f \in [0 .. n -> V] : f[0] = <<>> /\ \A p \in 1 .. n : f[p] = Step[p][f[p - 1]]
  <2>. HIDE DEF New
  <2>1. Step \in [1 .. n -> [V -> V]] /\ <<>> \in V
    BY <1>4
  <2>. HIDE DEF Step, V
  <2>2. PICK W, v, m, T : W = V /\ v = <<>> /\ m = n /\ T = Step
    OBVIOUS
  <2>3. m \in Nat /\ v \in W /\ T \in [1 .. m -> [W -> W]]
    BY <1>2, <2>1, <2>2
  <2>4. \E f \in [0 .. m -> W] : f[0] = v /\ \A p \in 1 .. m : f[p] = T[p][f[p - 1]]
    BY ONLY <2>3, Iteration
  <2>. QED  BY <2>2, <2>4
<1>. HIDE DEF V, New
<1>7. ASSUME NEW p \in 0 .. n PROVE f[p] = IF p = 0 THEN <<>> ELSE New(p, f[p - 1])
  <2>1. CASE p = 0
    BY <1>6, <2>1
  <2>2. CASE p # 0
    <3>1. p \in 1 .. n /\ p - 1 \in 0 .. n
      BY <1>2, <2>2
    <3>. QED  BY <1>6, <2>2, <3>1
  <2>. QED  BY <2>1, <2>2
<1>8. g = Body(g)
  <2>1. f = Body(f)
    BY <1>6, <1>7
  <2>. HIDE DEF Body
  <2>. QED  BY <2>1
<1>. HIDE DEF g
<1>9. g[0] = <<>> /\ \A p \in 1 .. n : g[p] = New(p, g[p - 1])
  <2>1. \A p \in 0 .. n : g[p] = Body(g)[p]
    <3>. HIDE DEF Body
    <3>. QED  BY <1>8
  <2>2. 0 \in 0 .. n /\ \A p \in 1 .. n : p \in 0 .. n /\ p # 0
    BY <1>2
  <2>. QED  BY <2>1, <2>2
<1>. DEFINE Holds(m, a) == \E p \in 1 .. m : s[p] = <<a, k>>
            Listed(m, l) == l \in V /\ IsInjective(l) /\ \A a : a \in Range(l) <=> Holds(m, a)
<1>10. Listed(0, <<>>)
  <2>1. <<>> \in V /\ IsInjective(<<>>) /\ Range(<<>>) = {}
    BY DEF V, IsInjective, Range
  <2>2. 1 .. 0 = {}
    OBVIOUS
  <2>. QED  BY <2>1, <2>2
<1>11. ASSUME NEW m \in 1 .. n, NEW l, Listed(m - 1, l) PROVE Listed(m, New(m, l))
  <2>1. ASSUME NEW a PROVE Holds(m, a) <=> Holds(m - 1, a) \/ s[m] = <<a, k>>
    <3>1. 1 .. m = (1 .. m - 1) \cup {m}
      BY <1>2
    <3>. QED  BY <3>1
  <2>2. CASE s[m][2] = k
    <3>. DEFINE x == s[m][1]
    <3>1. s[m] = <<x, k>> /\ x \in 0 .. Frames - 1
      BY <1>3, <2>2
    <3>2. x \notin Range(l)
      <4>1. ASSUME NEW p \in 1 .. m - 1, s[p] = <<x, k>> PROVE FALSE
        <5>1. p \in 1 .. n /\ p # m
          BY <1>2, <4>1
        <5>2. s[p][2] = s[m][2] /\ s[p][1] = s[m][1]
          BY <2>2, <4>1
        <5>. QED  BY <1>5, <5>1, <5>2
      <4>. QED  BY <1>11, <4>1
    <3>3. New(m, l) = Push(x, l)
      BY <2>2 DEF New
    <3>. HIDE DEF x
    <3>4. Push(x, l) \in V /\ IsInjective(Push(x, l)) /\ Range(Push(x, l)) = Range(l) \cup {x}
      BY <1>11, <3>1, <3>2, Pushed DEF V
    <3>5. ASSUME NEW a PROVE s[m] = <<a, k>> <=> a = x
      BY <3>1
    <3>. HIDE DEF Holds
    <3>. QED  BY <1>11, <2>1, <3>3, <3>4, <3>5
  <2>3. CASE s[m][2] # k
    <3>1. New(m, l) = l /\ \A a : s[m] # <<a, k>>
      BY <2>3 DEF New
    <3>. HIDE DEF Holds
    <3>. QED  BY <1>11, <2>1, <3>1
  <2>. QED  BY <2>2, <2>3
<1>12. Listed(n, g[n])
  <2>. DEFINE S == {m \in 0 .. n : Listed(m, g[m])}
  <2>. HIDE DEF Listed
  <2>1. 0 \in S
    <3>1. 0 \in 0 .. n
      BY <1>2
    <3>. QED  BY <1>9, <1>10, <3>1
  <2>2. ASSUME NEW p \in S, p < n PROVE p + 1 \in S
    <3>. DEFINE m == p + 1
    <3>1. m \in 1 .. n /\ m \in 0 .. n /\ m - 1 = p /\ Listed(p, g[p])
      BY <1>2, <2>2
    <3>. HIDE DEF m
    <3>2. Listed(m, New(m, g[m - 1])) /\ g[m] = New(m, g[m - 1])
      BY <1>9, <1>11, <3>1
    <3>3. m \in S
      BY <3>1, <3>2
    <3>. QED  BY <3>3 DEF m
  <2>3. S \in SUBSET Nat
    BY <1>2
  <2>. HIDE DEF S
  <2>4. 0 .. n \subseteq S
    BY <1>2, <2>1, <2>2, <2>3, InductionTo
  <2>5. n \in 0 .. n
    BY <1>2
  <2>. QED  BY <2>4, <2>5 DEF S
<1>. QED  BY <1>1, <1>12 DEF V, n

(* The bits set while the blocks of a cut are put on the lists.            *)
LEMMA BitsOfCut ==
  ASSUME NEW s, SoundCut(s, 0, Frames), NEW k \in 0 .. PAGE_MAX_ORDER - 1, NEW free,
         \A a : a \in free <=> \E p \in 1 .. Len(s) : s[p] = <<a, k>>
  PROVE  OrderAgrees(free, {PAGE_MAP_BIT(b[1], k) : b \in {d \in Range(s) : d[2] = k}}, k)
<1>. DEFINE n == Len(s)
            bits == {PAGE_MAP_BIT(b[1], k) : b \in {d \in Range(s) : d[2] = k}}
            z == PAGE_SIZE_AT_ORDER(k)
<1>1. k \in Nat /\ k < PAGE_MAX_ORDER /\ Frames \in Nat /\ z \in Nat \ {0}
  BY AllocatorAssumption, Sizes
<1>2. s \in Seq(AllBlocks) /\ n \in Nat /\ DOMAIN s = 1 .. n
  BY DEF SoundCut
<1>3. ASSUME NEW p \in 1 .. n
      PROVE  s[p][1] \in Nat /\ OnBoundary(s[p][1], s[p][2]) /\ s[p] = <<s[p][1], s[p][2]>>
  <2>1. s[p] \in AllBlocks
    BY <1>2, ElementOfSeq
  <2>2. Between(s[p], 0, Frames)
    BY DEF SoundCut
  <2>. QED  BY <2>1, <2>2, BlockNumbers DEF Between
<1>4. ASSUME NEW x PROVE x \in bits <=> \E p \in 1 .. n : s[p][2] = k /\ x = PAGE_MAP_BIT(s[p][1], k)
  BY <1>2 DEF Range
<1>5. ASSUME NEW a \in Nat, OnBoundary(a, k + 1)
      PROVE  PAGE_MAP_BIT(a, k) \in bits <=> (a \in free \/ a + z \in free)
  <2>1. ASSUME NEW p \in 1 .. n, s[p][2] = k
        PROVE  PAGE_MAP_BIT(a, k) = PAGE_MAP_BIT(s[p][1], k) <=> s[p] \in {<<a, k>>, <<a + z, k>>}
    <3>1. s[p][1] \in Nat /\ OnBoundary(s[p][1], k)
      BY <1>3, <2>1
    <3>2. PAGE_MAP_BIT(a, k) = PAGE_MAP_BIT(s[p][1], k) <=> s[p][1] \in {a, a + z}
      BY <1>1, <1>5, <3>1, PairOf
    <3>3. PICK x, y : x = s[p][1] /\ y = a + z
      OBVIOUS
    <3>4. s[p] = <<x, k>>
      BY <1>3, <2>1, <3>3
    <3>5. s[p] \in {<<a, k>>, <<y, k>>} <=> x \in {a, y}
      BY <3>4
    <3>. HIDE DEF z
    <3>. QED  BY <3>2, <3>3, <3>5
  <2>2. PAGE_MAP_BIT(a, k) \in bits <=> \E p \in 1 .. n : s[p] \in {<<a, k>>, <<a + z, k>>}
    <3>1. \A p \in 1 .. n : s[p] \in {<<a, k>>, <<a + z, k>>} => s[p][2] = k
      OBVIOUS
    <3>. HIDE DEF bits, z
    <3>. QED  BY <1>4, <2>1, <3>1
  <2>. HIDE DEF bits, z
  <2>. QED  BY <2>2
<1>6. ASSUME NEW a \in Nat, OnBoundary(a, k + 1), a \in free, a + z \in free PROVE FALSE
  <2>1. PICK p \in 1 .. n : s[p] = <<a, k>>
    BY <1>6
  <2>2. PICK q \in 1 .. n : s[q] = <<a + z, k>>
    BY <1>6
  <2>. DEFINE b == a + z
  <2>3. b \in Nat /\ b # a
    BY <1>1
  <2>4. s[p][1] = a /\ s[p][2] = k /\ s[q][1] = b /\ s[q][2] = k /\ p # q
    BY <2>1, <2>2, <2>3
  <2>. HIDE DEF b
  <2>5. OnBoundary(b, k)
    BY <1>3, <2>4
  <2>6. PAGE_MAP_BIT(a, k) = PAGE_MAP_BIT(b, k)
    BY <1>1, <1>6, <2>3, <2>5, PairOf DEF b
  <2>7. Merged(a, k + 1) = Merged(b, k + 1)
    BY <1>1, <2>3, <2>6, SameBit
  <2>8. Clear(s[p], s[q])
    BY <2>4 DEF SoundCut
  <2>9. Merged(a, k + 1) # Merged(b, k + 1)
    BY <1>1, <2>4, <2>8 DEF Clear
  <2>. QED  BY <2>7, <2>9
<1>. HIDE DEF bits, z
<1>7. OrderAgrees(free, bits, k)
  BY <1>1, <1>5, <1>6 DEF OrderAgrees, z
<1>. QED  BY <1>7 DEF bits

(* A cut of the memory above a frame is one of all memory.                 *)
LEMMA Lowered == ASSUME NEW s, SoundCut(s, LowEnd, Frames) PROVE SoundCut(s, 0, Frames)
<1>1. ASSUME NEW p \in 1 .. Len(s) PROVE Between(s[p], 0, Frames)
  <2>1. s[p] \in AllBlocks /\ Between(s[p], LowEnd, Frames)
    BY ElementOfSeq DEF SoundCut
  <2>2. s[p][1] \in Nat
    BY <2>1, BlockNumbers
  <2>. QED  BY <2>1, <2>2 DEF Between
<1>. QED  BY <1>1 DEF SoundCut

(* The lists and maps that Page_BuddyMaps_Initialize leaves are right.     *)
LEMMA AllocInitInv == AllocInit => AllocInv
<1>. SUFFICES ASSUME AllocInit PROVE AllocInv
  OBVIOUS
<1>1. PICK map \in MemoryMaps :
        LET blocks == Page_BuddyMaps_Initialize(map) IN
        /\ Page_lists = [k \in Orders |-> ListOf(blocks, k)]
        /\ Page_maps = [k \in Orders |-> {PAGE_MAP_BIT(b[1], k) : b \in {d \in Range(blocks) : d[2] = k}}]
  BY DEF AllocInit
<1>. DEFINE s == Page_BuddyMaps_Initialize(map)
            Bits(k) == {PAGE_MAP_BIT(b[1], k) : b \in {d \in Range(s) : d[2] = k}}
<1>2. Page_lists = [k \in Orders |-> ListOf(s, k)] /\ Page_maps = [k \in Orders |-> Bits(k)]
  BY <1>1
<1>3. SoundCut(s, 0, Frames)
  BY MapIsCut, Lowered
<1>4. op = [c \in CPUs |-> <<>>] /\ owned = {}
  BY DEF AllocInit
<1>. HIDE DEF s
<1>5. ASSUME NEW k \in Orders
      PROVE  /\ Page_lists[k] \in Seq(0 .. Frames - 1) /\ IsInjective(Page_lists[k])
             /\ \A a : a \in Members(k) <=> \E p \in 1 .. Len(s) : s[p] = <<a, k>>
  BY <1>2, <1>3, ListFacts DEF Members
<1>6. s \in Seq(AllBlocks) /\ Len(s) \in Nat
  BY <1>3 DEF SoundCut
<1>7. ASSUME NEW p \in 1 .. Len(s) PROVE s[p] \in AllBlocks
  BY <1>6, ElementOfSeq
<1>8. Page_lists \in [Orders -> Seq(0 .. Frames - 1)]
  <2>1. \A k \in Orders : ListOf(s, k) \in Seq(0 .. Frames - 1)
    BY <1>3, ListFacts
  <2>. QED  BY <1>2, <2>1
<1>9. Page_maps \in [Orders -> SUBSET Nat]
  <2>1. ASSUME NEW k \in Orders PROVE Bits(k) \subseteq Nat
    <3>1. ASSUME NEW b \in Range(s) PROVE PAGE_MAP_BIT(b[1], k) \in Nat
      <4>1. b \in AllBlocks
        BY <1>6, InRange
      <4>2. b[1] \in Nat
        BY <4>1, BlockNumbers
      <4>3. k + 1 \in Nat
        BY AllocatorAssumption DEF Orders
      <4>. DEFINE x == b[1]
                  n == PAGE_SIZE_AT_ORDER(k + 1)
      <4>4. x \in Nat /\ n \in Nat \ {0}
        BY <4>2, <4>3, Sizes
      <4>. HIDE DEF x, n
      <4>5. x \div n \in Nat
        BY <4>4, Division
      <4>. QED  BY <4>5 DEF PAGE_MAP_BIT, x, n
    <3>. QED  BY <3>1
  <2>. HIDE DEF Bits
  <2>. QED  BY <1>2, <2>1
<1>10. AllocType
  BY <1>4, <1>8, <1>9 DEF AllocType, Calls
<1>11. Returning = {}
  <2>1. Len(<<>>) # 2
    OBVIOUS
  <2>. QED  BY <1>4, <2>1 DEF Returning
<1>12. ASSUME NEW b PROVE b \in Free <=> \E p \in 1 .. Len(s) : s[p] = b
  <2>1. ASSUME NEW p \in 1 .. Len(s), s[p] = b PROVE b \in Free
    <3>1. b \in AllBlocks /\ b[2] \in Orders /\ b = <<b[1], b[2]>>
      BY <1>7, <2>1, BlockNumbers
    <3>2. b[1] \in Members(b[2])
      BY <1>5, <2>1, <3>1
    <3>. QED  BY <3>1, <3>2 DEF Free, AllBlocks, Members
  <2>2. ASSUME b \in Free PROVE \E p \in 1 .. Len(s) : s[p] = b
    <3>1. b \in AllBlocks /\ b[1] \in Members(b[2])
      BY <2>2 DEF Free, AllBlocks, Members
    <3>2. b[2] \in Orders /\ b = <<b[1], b[2]>>
      BY <3>1, BlockNumbers
    <3>. QED  BY <1>5, <3>1, <3>2
  <2>. QED  BY <2>1, <2>2
<1>13. Blocks = Free
  BY <1>4, <1>11 DEF Blocks
<1>14. ASSUME NEW b \in Blocks PROVE WellFormed(b)
  <2>1. PICK p \in 1 .. Len(s) : s[p] = b
    BY <1>12, <1>13
  <2>. QED  BY <1>3, <2>1 DEF SoundCut, Between, WellFormed
<1>15. Disjoint(Blocks)
  <2>1. ASSUME NEW b \in Blocks, NEW d \in Blocks, b # d PROVE BlockOf(b) \cap BlockOf(d) = {}
    <3>1. PICK p \in 1 .. Len(s) : s[p] = b
      BY <1>12, <1>13
    <3>2. PICK q \in 1 .. Len(s) : s[q] = d
      BY <1>12, <1>13
    <3>3. p # q
      BY <2>1, <3>1, <3>2
    <3>4. Clear(s[p], s[q])
      BY <1>3, <3>3 DEF SoundCut
    <3>. QED  BY <3>1, <3>2, <3>4 DEF Clear
  <2>. QED  BY <2>1 DEF Disjoint
<1>16. NothingShared
  <2>1. Len(<<>>) # 2
    OBVIOUS
  <2>. QED  BY <1>4, <1>11, <2>1 DEF NothingShared
<1>17. BitsAgree
  <2>1. ASSUME NEW k \in 0 .. PAGE_MAX_ORDER - 1 PROVE OrderAgrees(Members(k), Page_maps[k], k)
    <3>1. k \in Orders
      BY AllocatorAssumption DEF Orders
    <3>. DEFINE free == Members(k)
    <3>2. \A a : a \in free <=> \E p \in 1 .. Len(s) : s[p] = <<a, k>>
      BY <1>5, <3>1
    <3>3. Page_maps[k] = Bits(k)
      BY <1>2, <3>1
    <3>. HIDE DEF free
    <3>4. OrderAgrees(free, Bits(k), k)
      BY <1>3, <3>2, BitsOfCut
    <3>. QED  BY <3>3, <3>4 DEF free
  <2>. QED  BY <2>1 DEF BitsAgree
<1>. QED  BY <1>5, <1>10, <1>14, <1>15, <1>16, <1>17 DEF AllocInv

-----------------------------------------------------------------------------
(* The window.  All blocks lie inside it because the frames that are       *)
(* managed never change; all bits lie inside their arrays because the page *)
(* they are toggled for does.                                              *)

InWindow ==
    /\ Managed \subseteq LowEnd .. VirtualEnd - 1
    /\ \A k \in Orders : Page_maps[k] \subseteq 0 .. VirtualEnd \div PAGE_SIZE_AT_ORDER(k + 1) - 1

(* What is inductive: AllocInv, which speaks of the lists as sequences     *)
(* whether or not the memory behind them is still theirs, and the window.  *)
SoundAllocator == AllocInv /\ (~wild => InWindow)

(* The window ends on a boundary of every order.                           *)
LEMMA WindowEnd ==
  /\ VirtualEnd \in Nat /\ LowEnd \in Nat
  /\ \A k \in Orders : k \in Nat /\ OnBoundary(VirtualEnd, k) /\ OnBoundary(VirtualEnd, k + 1)
<1>1. VirtualEnd \in Nat /\ LowEnd \in Nat /\ PAGE_MAX_ORDER \in Nat /\ PAGE_MAX_ORDER + 1 \in Nat
  BY AllocatorAssumption
<1>2. VirtualEnd % PAGE_SIZE_AT_ORDER(PAGE_MAX_ORDER + 1) = 0
  BY AllocatorAssumption DEF PAGE_SIZE_AT_ORDER
<1>3. ASSUME NEW k \in Nat, k <= PAGE_MAX_ORDER + 1 PROVE OnBoundary(VirtualEnd, k)
  BY <1>1, <1>2, <1>3, Coarser DEF OnBoundary
<1>4. ASSUME NEW k \in Orders PROVE k \in Nat /\ OnBoundary(VirtualEnd, k) /\ OnBoundary(VirtualEnd, k + 1)
  <2>1. k \in Nat /\ k + 1 \in Nat /\ k <= PAGE_MAX_ORDER + 1 /\ k + 1 <= PAGE_MAX_ORDER + 1
    BY <1>1 DEF Orders
  <2>. QED  BY <1>3, <2>1
<1>. QED  BY <1>1, <1>4

(* The bit of a page inside the window lies inside the array.              *)
LEMMA BitInArray ==
  ASSUME NEW a \in Nat, a < VirtualEnd, NEW k \in Orders
  PROVE  PAGE_MAP_BIT(a, k) \in 0 .. VirtualEnd \div PAGE_SIZE_AT_ORDER(k + 1) - 1
<1>. DEFINE n == PAGE_SIZE_AT_ORDER(k + 1)
            q == a \div n
            e == VirtualEnd \div n
<1>1. VirtualEnd \in Nat /\ k + 1 \in Nat /\ VirtualEnd % n = 0
  BY WindowEnd DEF OnBoundary
<1>2. n \in Nat \ {0}
  BY <1>1, Sizes
<1>. HIDE DEF n
<1>3. q \in Nat /\ e \in Nat /\ q * n <= a /\ VirtualEnd = e * n
  BY <1>1, <1>2, Division
<1>. HIDE DEF q, e
<1>4. q < e
  <2>1. CASE e <= q
    <3>1. e * n <= q * n
      BY <1>2, <1>3, <2>1
    <3>2. e * n \in Nat /\ q * n \in Nat
      BY <1>2, <1>3
    <3>. QED  BY <1>1, <1>3, <3>1, <3>2
  <2>. QED  BY <1>3, <2>1
<1>5. q \in 0 .. e - 1
  BY <1>3, <1>4
<1>. QED  BY <1>5 DEF PAGE_MAP_BIT, q, e, n

(* A block that is managed starts inside the window.                       *)
LEMMA StartsInside ==
  ASSUME AllocInv, InWindow, NEW b \in Blocks
  PROVE  b[1] \in Nat /\ b[1] < VirtualEnd /\ BlockOf(b) \subseteq LowEnd .. VirtualEnd - 1
<1>1. b[1] \in Nat /\ b[2] \in Nat
  BY BlockForms DEF AllocInv
<1>2. BlockOf(b) \subseteq LowEnd .. VirtualEnd - 1
  BY DEF InWindow, Managed, Blocks, BlockOf
<1>3. b[1] \in BlockOf(b)
  BY <1>1, Apart DEF BlockOf
<1>. QED  BY <1>1, <1>2, <1>3, WindowEnd

(* The blocks of the memory map lie inside the window, unless one of them  *)
(* has been written outside it.                                            *)
LEMMA InitInWindow == AllocInit => (~wild => InWindow)
<1>. SUFFICES ASSUME AllocInit, ~wild PROVE InWindow
  OBVIOUS
<1>1. PICK map \in MemoryMaps :
        LET blocks == Page_BuddyMaps_Initialize(map) IN
        /\ Page_lists = [k \in Orders |-> ListOf(blocks, k)]
        /\ Page_maps = [k \in Orders |-> {PAGE_MAP_BIT(b[1], k) : b \in {d \in Range(blocks) : d[2] = k}}]
        /\ wild = OutsideWindow(blocks)
  BY DEF AllocInit
<1>. DEFINE s == Page_BuddyMaps_Initialize(map)
<1>2. /\ Page_lists = [k \in Orders |-> ListOf(s, k)]
      /\ Page_maps = [k \in Orders |-> {PAGE_MAP_BIT(b[1], k) : b \in {d \in Range(s) : d[2] = k}}]
      /\ \A b \in Range(s) : ~(b[1] >= VirtualEnd)
  BY <1>1 DEF OutsideWindow
<1>3. SoundCut(s, LowEnd, Frames)
  BY MapIsCut
<1>. HIDE DEF s
<1>4. s \in Seq(AllBlocks) /\ SoundCut(s, 0, Frames)
  BY <1>3, Lowered DEF SoundCut
<1>5. ASSUME NEW p \in 1 .. Len(s)
      PROVE  /\ s[p][1] \in Nat /\ s[p][1] < VirtualEnd
             /\ BlockOf(s[p]) \subseteq LowEnd .. VirtualEnd - 1
  <2>. DEFINE a == s[p][1]
              k == s[p][2]
              z == PAGE_SIZE_AT_ORDER(k)
  <2>1. s[p] \in AllBlocks /\ s[p] \in Range(s)
    BY <1>4, ElementOfSeq DEF Range
  <2>2. a \in Nat /\ k \in Orders /\ z \in Nat
    BY <2>1, BlockNumbers
  <2>3. OnBoundary(a, k) /\ LowEnd <= a
    BY <1>3 DEF SoundCut, Between
  <2>4. a < VirtualEnd /\ VirtualEnd \in Nat /\ LowEnd \in Nat
    BY <1>2, <2>1, <2>2, WindowEnd
  <2>5. a + z <= VirtualEnd
    BY <2>2, <2>3, <2>4, WindowEnd, Gap
  <2>. HIDE DEF a, k, z
  <2>6. a .. a + z - 1 \subseteq LowEnd .. VirtualEnd - 1
    BY <2>2, <2>3, <2>4, <2>5
  <2>. QED  BY <2>2, <2>4, <2>6 DEF BlockOf, Block, a, k, z
<1>6. owned = {} /\ Returning = {}
  <2>1. Len(<<>>) # 2
    OBVIOUS
  <2>. QED  BY <2>1 DEF AllocInit, Returning
<1>7. ASSUME NEW b \in Free PROVE \E p \in 1 .. Len(s) : s[p] = b
  <2>1. b[1] \in Range(ListOf(s, b[2])) /\ b[2] \in Orders /\ b = <<b[1], b[2]>>
    BY <1>2 DEF Free
  <2>2. PICK k, a : k = b[2] /\ a = b[1]
    OBVIOUS
  <2>3. k \in Orders /\ a \in Range(ListOf(s, k)) /\ b = <<a, k>>
    BY <2>1, <2>2
  <2>. QED  BY <1>4, <2>3, ListFacts
<1>8. Managed \subseteq LowEnd .. VirtualEnd - 1
  BY <1>5, <1>6, <1>7 DEF Managed, BlockOf
<1>9. ASSUME NEW k \in Orders, NEW x \in Page_maps[k]
      PROVE  x \in 0 .. VirtualEnd \div PAGE_SIZE_AT_ORDER(k + 1) - 1
  <2>1. PICK b \in Range(s) : x = PAGE_MAP_BIT(b[1], k)
    BY <1>2
  <2>2. PICK p \in 1 .. Len(s) : s[p] = b
    BY <1>4 DEF Range
  <2>. QED  BY <1>5, <2>1, <2>2, BitInArray
<1>. QED  BY <1>8, <1>9 DEF InWindow

(* No call of Page_Acquire or Page_Release leaves the window.              *)
LEMMA StepInWindow ==
  ASSUME AllocInv, InWindow, [AllocNext]_allvars
  PROVE  InWindow'
<1>1. Managed' = Managed
  BY AllocNextInv
<1>2. ASSUME NEW page, NEW i, NEW j, NEW k \in Orders, page \in Nat, page < VirtualEnd,
             Page_maps' = Toggled(page, i, j)
      PROVE  Page_maps'[k] \subseteq 0 .. VirtualEnd \div PAGE_SIZE_AT_ORDER(k + 1) - 1
  <2>1. PAGE_MAP_BIT(page, k) \in 0 .. VirtualEnd \div PAGE_SIZE_AT_ORDER(k + 1) - 1
    BY <1>2, BitInArray
  <2>2. Page_maps'[k] \subseteq Page_maps[k] \cup {PAGE_MAP_BIT(page, k)}
    BY <1>2 DEF Toggled, Toggle
  <2>. QED  BY <2>1, <2>2 DEF InWindow
<1>3. \A k \in Orders : Page_maps'[k] \subseteq 0 .. VirtualEnd \div PAGE_SIZE_AT_ORDER(k + 1) - 1
  <2>1. CASE UNCHANGED Page_maps
    BY <2>1 DEF InWindow
  <2>2. ASSUME NEW c \in CPUs, Page_Acquire(c)
        PROVE  \A k \in Orders : Page_maps'[k] \subseteq 0 .. VirtualEnd \div PAGE_SIZE_AT_ORDER(k + 1) - 1
    <3>. DEFINE i == Min(NonEmpty(op[c][1]))
                page == Head(Page_lists[i])
    <3>1. <<page, i>> \in Free /\ Page_maps' = Toggled(page, op[c][1], i)
      BY <2>2, AcquireFacts DEF Page_Acquire
    <3>. HIDE DEF page, i
    <3>2. <<page, i>> \in Blocks /\ <<page, i>>[1] = page
      BY <3>1 DEF Blocks
    <3>3. page \in Nat /\ page < VirtualEnd
      BY <3>2, StartsInside
    <3>. QED  BY <1>2, <3>1, <3>3
  <2>3. ASSUME NEW c \in CPUs, Page_Release(c)
        PROVE  \A k \in Orders : Page_maps'[k] \subseteq 0 .. VirtualEnd \div PAGE_SIZE_AT_ORDER(k + 1) - 1
    <3>. DEFINE order == op[c][1]
                page == op[c][2]
    <3>1. /\ Page_maps' = Toggled(page, order, MergesTo(page, order))
          /\ <<page, order>> \in Returning
      BY <2>3, ReturningFacts DEF Page_Release
    <3>. HIDE DEF page, order
    <3>2. <<page, order>> \in Blocks /\ <<page, order>>[1] = page
      BY <3>1 DEF Blocks
    <3>3. page \in Nat /\ page < VirtualEnd
      BY <3>2, StartsInside
    <3>. QED  BY <1>2, <3>1, <3>3
  <2>. QED
    BY <2>1, <2>2, <2>3 DEF AllocNext, AllocStep, CallAcquire, CallRelease, Page_Acquire_Exhausted,
         Page_Release_Wild, LockOnly, allocvars, allvars
<1>. QED  BY <1>1, <1>3 DEF InWindow

(* The invariant implies the properties.                                   *)
LEMMA InvImplies == SoundAllocator => BlocksDisjoint /\ BitmapAgrees
<1>. SUFFICES ASSUME AllocInv, InWindow PROVE BlocksDisjoint /\ BitmapAgrees
  BY DEF SoundAllocator, BlocksDisjoint, BitmapAgrees
<1>1. BlocksDisjoint
  <2>1. \A b \in Blocks : BlockOf(b) \subseteq LowEnd .. VirtualEnd - 1
    BY StartsInside
  <2>. QED
    BY <2>1 DEF AllocInv, BlocksDisjoint, Blocks, WellFormed, OnBoundary, Disjoint, BlockOf
<1>2. ASSUME NEW k \in 0 .. PAGE_MAX_ORDER - 1, NEW a \in 0 .. VirtualEnd - 1, a % PAGE_SIZE_AT_ORDER(k + 1) = 0
      PROVE  LET free == {a, a + PAGE_SIZE_AT_ORDER(k)} \cap Range(Page_lists[k]) IN
             /\ Cardinality(free) < 2
             /\ (PAGE_MAP_BIT(a, k) \in Page_maps[k]) <=> (Cardinality(free) = 1)
  <2>. DEFINE b == a + PAGE_SIZE_AT_ORDER(k)
              F == Range(Page_lists[k])
  <2>1. a # b /\ a \in 0 .. Frames - 1
    <3>1. k \in Nat /\ a \in Nat /\ a \in 0 .. Frames - 1
      BY AllocatorAssumption
    <3>2. PAGE_SIZE_AT_ORDER(k) \in Nat \ {0}
      BY <3>1, Sizes
    <3>. QED  BY <3>1, <3>2
  <2>2. ~(a \in F /\ b \in F) /\ (PAGE_MAP_BIT(a, k) \in Page_maps[k] <=> (a \in F \/ b \in F))
    BY <1>2, <2>1 DEF AllocInv, BitsAgree, OrderAgrees, OnBoundary, Members
  <2>. HIDE DEF b, F
  <2>3. /\ Cardinality({a, b} \cap F) < 2 <=> ~(a \in F /\ b \in F)
        /\ Cardinality({a, b} \cap F) = 1 <=> (a \in F \/ b \in F) /\ ~(a \in F /\ b \in F)
    BY <2>1, CountedPair
  <2>. QED  BY <2>2, <2>3 DEF b, F
<1>3. \A k \in Orders : Page_maps[k] \subseteq 0 .. VirtualEnd \div PAGE_SIZE_AT_ORDER(k + 1) - 1
  BY DEF InWindow
<1>. QED  BY <1>1, <1>2, <1>3 DEF BitmapAgrees

-----------------------------------------------------------------------------
(* The strengthened invariant holds in every behaviour.                    *)
LEMMA SoundAlways == AllocSpec => []SoundAllocator
<1>1. AllocInit => SoundAllocator
  BY AllocInitInv, InitInWindow DEF SoundAllocator
<1>2. ASSUME SoundAllocator, [AllocNext]_allvars PROVE SoundAllocator'
  <2>1. AllocInv'
    BY <1>2, AllocNextInv DEF SoundAllocator
  <2>2. ~wild' => ~wild
    BY <1>2 DEF AllocNext, allvars, allocvars
  <2>3. ~wild' => InWindow'
    BY <1>2, <2>2, StepInWindow DEF SoundAllocator
  <2>. QED  BY <2>1, <2>3 DEF SoundAllocator
<1>. QED  BY <1>1, <1>2, PTL DEF AllocSpec

(* Unless a chunk of the memory map crosses the end of the window, and     *)
(* until Page_Release goes astray, every state the allocator reaches       *)
(* satisfies the invariant and has its blocks and bits inside the window,  *)
(* with any number of CPUs, frames and orders and any memory map.          *)
THEOREM AllocInvariance == AllocSpec => [](~wild => AllocInv /\ InWindow)
<1>1. SoundAllocator => (~wild => AllocInv /\ InWindow)
  BY DEF SoundAllocator
<1>. QED  BY <1>1, SoundAlways, PTL

(* Page_Acquire never hands out a frame that is free, in use or on its way *)
(* back, nor one the kernel cannot reach: the blocks are disjoint, on      *)
(* their boundaries, inside the window and on a list once.                 *)
THEOREM BlocksAreDisjoint == AllocSpec => []BlocksDisjoint
<1>1. SoundAllocator => BlocksDisjoint
  BY InvImplies
<1>. QED  BY <1>1, SoundAlways, PTL

(* The bitmaps Page_Release decides by tell the truth: a bit is set if and *)
(* only if one of the two buddies is free, freed buddies merge, and no bit *)
(* lies behind its array.                                                  *)
THEOREM BitmapIsRight == AllocSpec => []BitmapAgrees
<1>1. SoundAllocator => BitmapAgrees
  BY InvImplies
<1>. QED  BY <1>1, SoundAlways, PTL

(* No step of Page_Acquire or Page_Release loses a frame.                  *)
THEOREM NoFrameLeaks == AllocSpec => NothingLeaks
<1>1. SoundAllocator /\ [AllocNext]_allvars => [~wild' => Managed' = Managed]_allvars
  BY AllocNextInv DEF SoundAllocator
<1>. QED  BY <1>1, SoundAlways, PTL DEF AllocSpec, NothingLeaks

(* Page_Release leaves its list only with a page that does not start the   *)
(* block merged so far: a page on that boundary is always merged rightly.  *)
THEOREM WildIsOffBoundary == AllocSpec => WildOnlyOffBoundary
<1>1. SoundAllocator /\ [AllocNext]_allvars =>
        [\A c \in CPUs : Page_Release_Wild(c) =>
             LET page == op[c][2]  order == op[c][1] IN
             page % PAGE_SIZE_AT_ORDER(MergesTo(page, order) - 1) # 0]_allvars
  BY WildStep DEF SoundAllocator
<1>. QED  BY <1>1, SoundAlways, PTL DEF AllocSpec, WildOnlyOffBoundary
=============================================================================
