-------------------------- MODULE MultibootProofs --------------------------
(***************************************************************************)
(* Proofs, for any screen and any memory map, that the line editor stays   *)
(* inside its buffer, that Memory_StoreInfo lists memory that is there,    *)
(* once, and, from a sorted map, all of it, that the kernel's file and the *)
(* kernel are put in available memory, where the header asks, that the     *)
(* kernel is put in place intact and nothing of its file is left, and that *)
(* the record of information is whole and complete.                        *)
(***************************************************************************)
EXTENDS Multiboot, SequenceTheorems, FiniteSetTheorems, WellFoundedInduction, TLAPS

(* The least of some naturals is one of them.                              *)
LEMMA MinOf == ASSUME NEW S \in SUBSET Nat, S # {} PROVE Min(S) \in S /\ \A n \in S : Min(S) <= n
<1>. DEFINE R == OpToRel(<, Nat)
<1>1. IsWellFoundedOn(R, Nat)
  BY NatLessThanWellFounded
<1>2. \A x, y \in Nat : y < x => <<y, x>> \in R
  BY DEF OpToRel
<1>. HIDE DEF R
<1>3. PICK x \in S : \A y \in S : ~ (<<y, x>> \in R)
  BY <1>1, WFMin
<1>4. \A y \in S : x <= y
  <2>. TAKE y \in S
  <2>1. x \in Nat /\ y \in Nat /\ ~(y < x)
    BY <1>2, <1>3
  <2>. QED  BY <2>1
<1>. QED  BY <1>3, <1>4 DEF Min

(* Induction up to n, for sets of naturals.                                *)
LEMMA InductionTo ==
  ASSUME NEW n \in Nat, NEW S \in SUBSET Nat, 0 \in S, \A k \in S : k < n => k + 1 \in S
  PROVE  0 .. n \subseteq S
<1>1. SUFFICES ASSUME (0 .. n) \ S # {} PROVE FALSE
  OBVIOUS
<1>. DEFINE k == Min((0 .. n) \ S)
<1>2. k \in (0 .. n) \ S /\ \A m \in (0 .. n) \ S : k <= m
  <2>1. (0 .. n) \ S \in SUBSET Nat
    OBVIOUS
  <2>. QED  BY <1>1, <2>1, MinOf
<1>. HIDE DEF k
<1>3. k # 0 /\ k - 1 \in 0 .. n /\ k - 1 < n /\ ~(k <= k - 1)
  BY <1>2
<1>4. k - 1 \in S
  BY <1>2, <1>3
<1>. QED  BY <1>2, <1>3, <1>4

(* A value can be carried through n steps: what the recursive functions of *)
(* the model define exists.                                                *)
LEMMA Iteration ==
  ASSUME NEW V, NEW v \in V, NEW n \in Nat, NEW Step \in [1 .. n -> [V -> V]]
  PROVE  \E f \in [0 .. n -> V] : f[0] = v /\ \A k \in 1 .. n : f[k] = Step[k][f[k - 1]]
<1>. DEFINE Upto(m, f) == f[0] = v /\ \A k \in 1 .. m : f[k] = Step[k][f[k - 1]]
            S == {m \in Nat : m <= n => \E f \in [0 .. m -> V] : Upto(m, f)}
<1>1. 0 \in S
  <2>1. [k \in 0 .. 0 |-> v] \in [0 .. 0 -> V] /\ Upto(0, [k \in 0 .. 0 |-> v])
    OBVIOUS
  <2>. QED  BY <2>1
<1>2. ASSUME NEW m \in S, m < n PROVE m + 1 \in S
  <2>1. PICK f \in [0 .. m -> V] : Upto(m, f)
    BY <1>2
  <2>. DEFINE g == [k \in 0 .. m + 1 |-> IF k = m + 1 THEN Step[m + 1][f[m]] ELSE f[k]]
  <2>2. m + 1 \in 1 .. n /\ f[m] \in V
    BY <1>2
  <2>3. Step[m + 1][f[m]] \in V
    BY <2>2
  <2>4. g \in [0 .. m + 1 -> V]
    <3>1. \A k \in 0 .. m + 1 : k # m + 1 => k \in 0 .. m
      OBVIOUS
    <3>. QED  BY <2>3, <3>1
  <2>5. g[0] = v
    BY <2>1
  <2>6. ASSUME NEW k \in 1 .. m + 1 PROVE g[k] = Step[k][g[k - 1]]
    <3>1. k - 1 \in 0 .. m /\ k - 1 # m + 1 /\ k - 1 \in 0 .. m + 1 /\ k \in 0 .. m + 1
      BY <2>6
    <3>2. g[k - 1] = f[k - 1]
      BY <3>1
    <3>3. CASE k = m + 1
      BY <3>1, <3>2, <3>3
    <3>4. CASE k # m + 1
      <4>1. k \in 1 .. m
        BY <2>6, <3>4
      <4>. QED  BY <2>1, <3>1, <3>2, <3>4, <4>1
    <3>. QED  BY <3>3, <3>4
  <2>. HIDE DEF g
  <2>7. Upto(m + 1, g)
    BY <2>5, <2>6
  <2>8. m + 1 \in Nat
    OBVIOUS
  <2>. HIDE DEF Upto
  <2>. QED  BY <2>4, <2>7, <2>8
<1>3. 0 .. n \subseteq S
  <2>. HIDE DEF S
  <2>1. S \in SUBSET Nat
    BY DEF S
  <2>. QED  BY <1>1, <1>2, <2>1, InductionTo
<1>. QED  BY <1>3

-----------------------------------------------------------------------------
(* The line editor.                                                        *)

CommandInv == /\ command \in [line : Int, column : Int, pos : Int, full : BOOLEAN]
              /\ CommandInStep

(* A line and a column are what the division of the cell's number yields.  *)
LEMMA CellUnique ==
  ASSUME NEW N \in Nat \ {0}, NEW e \in Nat, NEW l \in Int, NEW c \in 0 .. N - 1
  PROVE  (l = e \div N /\ c = e % N) <=> l * N + c = e
<1>. DEFINE d == e \div N
            r == e % N
<1>1. d \in Int /\ r \in 0 .. N - 1 /\ e = d * N + r
  OBVIOUS
<1>. HIDE DEF d, r
<1>2. ASSUME l * N + c = e PROVE l = d
  <2>1. (l - d) * N = r - c
    BY <1>1, <1>2
  <2>2. CASE l > d
    <3>1. (l - d) * N >= N
      BY <1>1, <2>2
    <3>. QED  BY <1>1, <2>1, <3>1
  <2>3. CASE l < d
    <3>1. (l - d) * N <= -N
      BY <1>1, <2>3
    <3>. QED  BY <1>1, <2>1, <3>1
  <2>. QED  BY <1>1, <2>2, <2>3
<1>. QED  BY <1>1, <1>2 DEF d, r

(* Placing the cursor pos cells behind the prompt keeps the two in step.   *)
LEMMA PlaceInStep ==
  ASSUME NEW line \in Int, NEW column \in 0 .. LastColumn, NEW pos \in 0 .. CommandLimit,
         Cell(line, column) = CommandStart + pos, Place(line, column, pos)
  PROVE  CommandInv'
<1>. DEFINE N == CONSOLE_VGA_NUM_COLUMNS
<1>1. CommandEnd \in Nat /\ CommandStart \in Nat /\ CommandEnd = CommandStart + CommandLimit
  BY CommandAssumption DEF CommandEnd, CommandStart, Cell
<1>2. AtEnd(line, column) <=> Cell(line, column) = CommandEnd
  <2>1. N \in Nat \ {0} /\ column \in 0 .. N - 1
    BY CommandAssumption DEF LastColumn
  <2>2. ASSUME NEW e \in Nat, NEW n \in Nat \ {0}, column \in 0 .. n - 1
        PROVE  (line = e \div n /\ column = e % n) <=> line * n + column = e
    BY <2>2, CellUnique
  <2>. HIDE DEF N
  <2>3. (line = CommandEnd \div N /\ column = CommandEnd % N) <=> line * N + column = CommandEnd
    BY <1>1, <2>1, <2>2, Zenon
  <2>. QED  BY <2>3 DEF AtEnd, LineOf, ColumnOf, Cell, N
<1>3. AtEnd(line, column) <=> pos = CommandLimit
  BY <1>1, <1>2, CommandAssumption
<1>4. command' = [line |-> line, column |-> column, pos |-> pos, full |-> AtEnd(line, column)]
  BY DEF Place
<1>5. AtEnd(line, column) \in BOOLEAN
  BY DEF AtEnd
<1>. QED  BY <1>3, <1>4, <1>5, CommandAssumption DEF CommandInv, CommandInStep, LastColumn

(* Neither a character nor a backspace gets the two out of step.           *)
LEMMA CommandStep ==
  ASSUME CommandInv, Console_ReadCommand
  PROVE  CommandInv'
<1>. DEFINE N == CONSOLE_VGA_NUM_COLUMNS
<1>0. PICK l, c, p \in Int : command.line = l /\ command.column = c /\ command.pos = p
  BY DEF CommandInv
<1>1. /\ p \in 0 .. CommandLimit /\ c \in 0 .. N - 1 /\ LastColumn = N - 1
      /\ l * N + c = CommandStart + p
      /\ command.full <=> p = CommandLimit
  BY <1>0 DEF CommandInv, CommandInStep, Cell, LastColumn
<1>2. CommandStart = PromptLine * N + PromptLength /\ CommandStart \in Nat
  BY CommandAssumption DEF CommandStart, Cell
<1>. CommandStart \in Nat /\ N \in Nat \ {0} /\ CommandLimit \in Nat \ {0}
  BY <1>2, CommandAssumption
<1>. HIDE DEF N
<1>3. CASE TypeCharacter
  <2>1. p + 1 \in 0 .. CommandLimit
    BY <1>0, <1>1, <1>3 DEF TypeCharacter, N
  <2>2. CASE c = N - 1
    <3>1. Place(l + 1, 0, p + 1)
      BY <1>0, <1>1, <1>3, <2>2 DEF TypeCharacter, N
    <3>2. (l + 1) * N + 0 = CommandStart + (p + 1)
      BY <1>1, <2>2
    <3>. QED  BY <1>1, <2>1, <3>1, <3>2, PlaceInStep DEF Cell, N
  <2>3. CASE c # N - 1
    <3>1. Place(l, c + 1, p + 1)
      BY <1>0, <1>1, <1>3, <2>3 DEF TypeCharacter, N
    <3>2. l * N + (c + 1) = CommandStart + (p + 1) /\ c + 1 \in 0 .. N - 1
      BY <1>1, <2>3
    <3>. QED  BY <1>1, <2>1, <3>1, <3>2, PlaceInStep DEF Cell, N
  <2>. QED  BY <2>2, <2>3
<1>4. CASE TypeBackspace
  <2>1. p # 0
    <3>1. SUFFICES ASSUME p = 0 PROVE FALSE
      OBVIOUS
    <3>2. l * N + c = PromptLine * N + PromptLength
      BY <1>1, <1>2, <3>1
    <3>3. l = PromptLine /\ c = PromptLength
      <4>0. /\ PromptLine \in Int /\ PromptLength \in 0 .. N - 1 /\ l * N + c = CommandStart
            /\ PromptLine * N + PromptLength = CommandStart
        BY <1>2, <3>2, CommandAssumption DEF N
      <4>. HIDE DEF CommandStart
      <4>u. ASSUME NEW x \in Int, NEW y \in 0 .. N - 1, x * N + y = CommandStart
            PROVE  x = CommandStart \div N /\ y = CommandStart % N
        <5>1. ASSUME NEW e \in Nat, NEW n \in Nat \ {0}, y \in 0 .. n - 1, x * n + y = e
              PROVE  x = e \div n /\ y = e % n
          BY <5>1, CellUnique
        <5>. QED  BY <4>u, <5>1, Zenon
      <4>1. l = CommandStart \div N /\ c = CommandStart % N
        BY <1>0, <1>1, <4>0, <4>u, Zenon
      <4>2. PromptLine = CommandStart \div N /\ PromptLength = CommandStart % N
        BY <4>0, <4>u, Zenon
      <4>. QED  BY <4>1, <4>2
    <3>. QED  BY <1>0, <1>4, <3>3 DEF TypeBackspace, AtStart
  <2>2. p - 1 \in 0 .. CommandLimit
    BY <1>1, <2>1
  <2>3. CASE c = 0
    <3>1. Place(l - 1, N - 1, p - 1)
      BY <1>0, <1>1, <1>4, <2>3 DEF TypeBackspace, N
    <3>2. (l - 1) * N + (N - 1) = CommandStart + (p - 1) /\ N - 1 \in 0 .. N - 1
      BY <1>1, <2>3
    <3>. QED  BY <1>1, <2>2, <3>1, <3>2, PlaceInStep DEF Cell, N
  <2>4. CASE c # 0
    <3>1. Place(l, c - 1, p - 1)
      BY <1>0, <1>1, <1>4, <2>4 DEF TypeBackspace, N
    <3>2. l * N + (c - 1) = CommandStart + (p - 1) /\ c - 1 \in 0 .. N - 1
      BY <1>1, <2>4
    <3>. QED  BY <1>1, <2>2, <3>1, <3>2, PlaceInStep DEF Cell, N
  <2>. QED  BY <2>3, <2>4
<1>. QED  BY <1>3, <1>4 DEF Console_ReadCommand

(* The empty line.                                                         *)
LEMMA EmptyInStep == /\ command = EmptyCommand => CommandInv
                     /\ command' = EmptyCommand => CommandInv'
<1>1. CommandStart \in Nat /\ Cell(PromptLine, PromptLength) = CommandStart + 0
  BY CommandAssumption DEF CommandStart, Cell
<1>2. /\ PromptLine \in Int /\ PromptLength \in Int /\ 0 \in 0 .. CommandLimit
      /\ PromptLength \in 0 .. LastColumn /\ CommandLimit # 0
  BY CommandAssumption DEF LastColumn
<1>3. ASSUME NEW e, e = EmptyCommand
      PROVE  /\ e \in [line : Int, column : Int, pos : Int, full : BOOLEAN]
             /\ e.pos \in 0 .. CommandLimit /\ Cell(e.line, e.column) = CommandStart + e.pos
             /\ e.column \in 0 .. LastColumn /\ (e.full <=> e.pos = CommandLimit)
  <2>1. e = [line |-> PromptLine, column |-> PromptLength, pos |-> 0, full |-> FALSE]
    BY <1>3 DEF EmptyCommand
  <2>2. e.line = PromptLine /\ e.column = PromptLength /\ e.pos = 0 /\ e.full = FALSE
    BY <2>1
  <2>. QED  BY <1>1, <1>2, <2>1, <2>2
<1>4. command = EmptyCommand => CommandInv
  BY <1>3 DEF CommandInv, CommandInStep
<1>5. command' = EmptyCommand => CommandInv'
  BY <1>3 DEF CommandInv, CommandInStep
<1>. QED  BY <1>4, <1>5

(* Nothing but the editor moves the editor, and every line begins empty.   *)
LEMMA CommandSteps == [Next]_vars => \/ command' = command
                                     \/ command' = EmptyCommand
                                     \/ Console_ReadCommand
<1>1. SUFFICES ASSUME Next PROVE command' = command \/ command' = EmptyCommand \/ Console_ReadCommand
  BY DEF vars, given
<1>. USE DEF given, Fails, MapTag
<1>2. CASE CreateEmptyMBI \/ SaveE820Map \/ StoreMap \/ SaveRAMMap \/ SavePagesMap
  BY <1>2 DEF CreateEmptyMBI, SaveE820Map, StoreMap, SaveRAMMap, SavePagesMap
<1>3. CASE NoKernelFile \/ FindKernelFile \/ ReadBlock \/ KernelFileLoaded
  BY <1>3 DEF NoKernelFile, FindKernelFile, ReadBlock, KernelFileLoaded
<1>4. CASE LoadKernel \/ ReadTag \/ NoMoreTags \/ PlaceKernel
  BY <1>4 DEF LoadKernel, ReadTag, NoMoreTags, PlaceKernel
<1>5. CASE MoveKernel \/ LoadSegment \/ SegmentsLoaded \/ CleanUp
  BY <1>5 DEF MoveKernel, LoadSegment, SegmentsLoaded, CleanUp
<1>6. CASE NoHeader \/ NoModuleList \/ NoModules \/ LoadModule
  BY <1>6 DEF NoHeader, NoModuleList, NoModules, LoadModule
<1>7. CASE SaveInfo \/ NoGraphics \/ SaveVBE \/ SaveFramebuffer
  BY <1>7 DEF SaveInfo, NoGraphics, SaveVBE, SaveFramebuffer
<1>8. CASE AskCommand \/ EditCommand \/ SaveCommand
  BY <1>8 DEF AskCommand, EditCommand, SaveCommand
<1>. QED  BY <1>1, <1>2, <1>3, <1>4, <1>5, <1>6, <1>7, <1>8 DEF Next

(* CommandInv is inductive: Console_ReadCommand moves the cursor and the   *)
(* place in the buffer together, key by key.                               *)
THEOREM CommandInvariance == Spec => []CommandInv
<1>1. Init => CommandInv
  BY EmptyInStep DEF Init
<1>2. CommandInv /\ [Next]_vars => CommandInv'
  <2>1. SUFFICES ASSUME CommandInv, [Next]_vars PROVE CommandInv'
    OBVIOUS
  <2>2. CASE command' = command
    BY <2>1, <2>2 DEF CommandInv, CommandInStep
  <2>. QED  BY <2>1, <2>2, CommandSteps, CommandStep, EmptyInStep
<1>. QED  BY <1>1, <1>2, PTL DEF Spec

(* The screen and the buffer of the line editor stay in step for every     *)
(* width of the screen, place of the prompt and size of the buffer: the    *)
(* editor stops where the buffer ends and never writes before it           *)
(* (Console_ReadCommand).                                                  *)
THEOREM CommandStaysInStep == Spec => []CommandInStep
<1>1. CommandInv => CommandInStep
  BY DEF CommandInv
<1>. QED  BY <1>1, CommandInvariance, PTL

-----------------------------------------------------------------------------
(* The memory map.                                                         *)

MapEntry == {e \in E820_Entry : e.size > 0}
MapBlock == [address : Nat, size : Nat]

MapType == /\ E820_Table \in Seq(MapEntry) /\ table \in Seq(MapBlock)
           /\ address \in Nat /\ index \in Nat \ {0}
           /\ page_align \in BOOLEAN
           /\ stage \in {"idle", "collect", "align", "prune", "done"}

(* Blocks with anything in them are in ascending order, apart if the table *)
(* is sorted, of available memory, and while they are collected they end   *)
(* before the search goes on.                                              *)
InOrder == \A k, l \in DOMAIN table :
             k < l /\ table[k].size > 0 /\ table[l].size > 0 => Precedes(table[k], table[l])
Backed == \A k \in DOMAIN table : Listed(k) \subseteq Available
Behind == stage = "collect" => \A k \in DOMAIN table : EndOf(table[k]) <= address

(* Blocks the alignment has passed are whole pages.                        *)
IsPages(block) == block.address % PageSize = 0 /\ block.size % PageSize = 0
Passed(k) == stage \in {"prune", "done"} \/ (stage = "align" /\ k < index)
PageWise == /\ stage = "align" => page_align
            /\ stage = "collect" => index = 1
            /\ page_align => \A k \in DOMAIN table : Passed(k) => IsPages(table[k])

(* What the search has left behind it is in one of the blocks, entry by    *)
(* entry, and there is nothing available right before or behind a block.   *)
AvailableEntries == {e \in Range(E820_Table) : e.available}
Gathered ==
    stage = "collect" /\ Sorted =>
        /\ \A e \in AvailableEntries :
             /\ e.base < address => /\ e.base + e.size <= address
                                    /\ \E k \in DOMAIN table : Bytes(e.base, e.size) \subseteq Listed(k)
             /\ table # << >> => e.base # address
        /\ \A k \in DOMAIN table : table[k].address - 1 \notin Available /\ EndOf(table[k]) \notin Available

(* Once they are collected, an available address, or page, is whole in one *)
(* of the blocks.                                                          *)
Unit(a) == IF page_align THEN PageOf(a) ELSE {a}
Kept ==
    stage \in {"align", "prune", "done"} /\ Sorted =>
        \A a \in Available : Unit(a) \subseteq Available => \E k \in DOMAIN table : Unit(a) \subseteq Listed(k)

MapInv == MapType /\ InOrder /\ Backed /\ Behind /\ PageWise /\ Gathered /\ Kept

(* Quotient and remainder.                                                 *)
LEMMA Division ==
  ASSUME NEW n \in Nat \ {0}, NEW x \in Nat
  PROVE  x \div n \in Nat /\ x % n \in 0 .. n - 1 /\ x = (x \div n) * n + (x % n)
<1>. DEFINE d == x \div n
            r == x % n
<1>1. d \in Int /\ r \in 0 .. n - 1 /\ x = d * n + r
  OBVIOUS
<1>. HIDE DEF d, r
<1>2. d \in Nat
  <2>1. CASE d < 0
    <3>1. d * n <= -n
      BY <1>1, <2>1
    <3>. QED  BY <1>1, <3>1
  <2>. QED  BY <1>1, <2>1
<1>. QED  BY <1>1, <1>2, Zenon DEF d, r

(* A multiple of the page size is so many pages.                           *)
LEMMA PagesOf ==
  ASSUME NEW x \in Nat, x % PageSize = 0
  PROVE  \E q \in Nat : x = q * PageSize
<1>1. PageSize \in Nat \ {0}
  BY PageAssumption
<1>. DEFINE q == x \div PageSize
<1>2. x = q * PageSize + (x % PageSize) /\ q \in Nat
  BY <1>1, Division, Zenon
<1>. HIDE DEF q
<1>3. x = q * PageSize
  <2>. DEFINE y == q * PageSize
  <2>1. y \in Int /\ x = y + 0
    <3>1. q * PageSize \in Int
      BY <1>1, <1>2
    <3>. QED  BY <1>2, <3>1, Zenon
  <2>. HIDE DEF y
  <2>2. x = y
    BY <2>1
  <2>. QED  BY <2>2 DEF y
<1>. QED  BY <1>2, <1>3

(* Any number of pages is a multiple of the page size.                     *)
LEMMA WholeNumber == ASSUME NEW q \in Nat PROVE q * PageSize \in Nat /\ (q * PageSize) % PageSize = 0
<1>1. PageSize \in Nat \ {0}
  BY PageAssumption
<1>. QED  BY <1>1

(* Two different multiples of the page size are a page apart.              *)
LEMMA PagesApart ==
  ASSUME NEW x \in Nat, NEW y \in Nat, x % PageSize = 0, y % PageSize = 0, x < y + PageSize
  PROVE  x <= y
<1>1. PageSize \in Nat \ {0}
  BY PageAssumption
<1>2. PICK p \in Nat : x = p * PageSize
  BY PagesOf
<1>3. PICK q \in Nat : y = q * PageSize
  BY PagesOf
<1>4. (p - q) * PageSize < PageSize
  BY <1>1, <1>2, <1>3
<1>5. ~(p - q >= 1)
  BY <1>1, <1>4
<1>6. p <= q
  BY <1>5
<1>. QED  BY <1>1, <1>2, <1>3, <1>6

(* Multiples of the page size differ by one.                               *)
LEMMA PagesBetween ==
  ASSUME NEW x \in Nat, NEW y \in Nat, x % PageSize = 0, y % PageSize = 0, y <= x
  PROVE  (x - y) % PageSize = 0 /\ (y + PageSize) % PageSize = 0
<1>1. PageSize \in Nat \ {0}
  BY PageAssumption
<1>2. PICK p \in Nat : x = p * PageSize
  BY PagesOf
<1>3. PICK q \in Nat : y = q * PageSize
  BY PagesOf
<1>4. x - y = (p - q) * PageSize /\ y + PageSize = (q + 1) * PageSize
  BY <1>1, <1>2, <1>3
<1>5. p - q \in Nat
  <2>1. CASE p < q
    <3>1. (q - p) * PageSize >= PageSize
      BY <1>1, <2>1
    <3>. QED  BY <1>1, <1>2, <1>3, <3>1
  <2>. QED  BY <2>1
<1>. QED  BY <1>4, <1>5, WholeNumber

(* Rounding down and up finds the nearest boundaries of pages.             *)
LEMMA Rounding ==
  ASSUME NEW a \in Nat
  PROVE  /\ Down(a) \in Nat /\ Down(a) <= a /\ a < Down(a) + PageSize /\ Down(a) % PageSize = 0
         /\ Up(a) \in Nat /\ a <= Up(a) /\ Up(a) < a + PageSize /\ Up(a) % PageSize = 0
<1>1. PageSize \in Nat \ {0}
  BY PageAssumption
<1>2. Down(a) \in Nat /\ Down(a) <= a /\ a < Down(a) + PageSize
  BY <1>1 DEF Down
<1>3. Down(a) % PageSize = 0
  <2>1. Down(a) = (a \div PageSize) * PageSize /\ a \div PageSize \in Nat
    BY <1>1 DEF Down
  <2>. QED  BY <2>1, WholeNumber
<1>4. (Down(a) + PageSize) % PageSize = 0
  BY <1>2, <1>3, PagesBetween
<1>. QED  BY <1>1, <1>2, <1>3, <1>4 DEF Up

(* The pass over the table computes, entry by entry, what GrownEnd says.   *)
LEMMA GrownSteps ==
  ASSUME E820_Table \in Seq(MapEntry), NEW b \in Nat
  PROVE  LET g == GrownEnd(b) IN
         /\ g \in [0 .. Len(E820_Table) -> Nat]
         /\ g[0] = b
         /\ \A k \in 1 .. Len(E820_Table) :
              g[k] = IF Counts(E820_Table[k]) /\ Extends(E820_Table[k], g[k - 1])
                     THEN E820_Table[k].base + E820_Table[k].size ELSE g[k - 1]
<1>. DEFINE n == Len(E820_Table)
            New(k, v) == IF Counts(E820_Table[k]) /\ Extends(E820_Table[k], v)
                         THEN E820_Table[k].base + E820_Table[k].size ELSE v
            Step == [k \in 1 .. n |-> [v \in Nat |-> New(k, v)]]
            Body(f) == [k \in 0 .. n |-> IF k = 0 THEN b ELSE New(k, f[k - 1])]
            g == GrownEnd(b)
<1>1. n \in Nat
  OBVIOUS
<1>2. \A k \in 1 .. n, v \in Nat : New(k, v) \in Nat
  <2>1. \A k \in 1 .. n : E820_Table[k].base + E820_Table[k].size \in Nat
    BY DEF MapEntry, E820_Entry
  <2>. QED  BY <2>1
<1>3. g = CHOOSE f : f = Body(f)
  BY DEF GrownEnd
<1>. HIDE DEF n, New, g
<1>4. Step \in [1 .. n -> [Nat -> Nat]]
  BY <1>2
<1>5. PICK f \in [0 .. n -> Nat] : f[0] = b /\ \A k \in 1 .. n : f[k] = Step[k][f[k - 1]]
  <2>. HIDE DEF Step
  <2>1. PICK V, v : V = Nat /\ v = b
    OBVIOUS
  <2>2. n \in Nat /\ v \in V /\ Step \in [1 .. n -> [V -> V]]
    BY <1>1, <1>4, <2>1
  <2>3. \E f \in [0 .. n -> V] : f[0] = v /\ \A k \in 1 .. n : f[k] = Step[k][f[k - 1]]
    BY ONLY <2>2, Iteration
  <2>. QED  BY <2>1, <2>3
<1>6. ASSUME NEW k \in 0 .. n PROVE f[k] = IF k = 0 THEN b ELSE New(k, f[k - 1])
  <2>1. CASE k = 0
    BY <1>5, <2>1
  <2>2. CASE k # 0
    <3>1. k \in 1 .. n /\ k - 1 \in 0 .. n
      BY <1>1, <2>2
    <3>. QED  BY <1>5, <2>2, <3>1
  <2>. QED  BY <2>1, <2>2
<1>7. f = Body(f)
  BY <1>6
<1>8. g = Body(g)
  <2>. HIDE DEF Body
  <2>. QED  BY <1>3, <1>7
<1>9. g[0] = b /\ \A k \in 1 .. n : g[k] = New(k, g[k - 1])
  <2>1. \A k \in 0 .. n : g[k] = Body(g)[k]
    <3>. HIDE DEF Body
    <3>. QED  BY <1>8
  <2>2. 0 \in 0 .. n /\ \A k \in 1 .. n : k \in 0 .. n /\ k # 0
    BY <1>1
  <2>. QED  BY <2>1, <2>2
<1>10. \A k \in 0 .. n : g[k] \in Nat
  <2>. DEFINE S == {k \in 0 .. n : g[k] \in Nat}
  <2>1. 0 \in S
    BY <1>1, <1>9
  <2>2. ASSUME NEW k \in S, k < n PROVE k + 1 \in S
    <3>1. k + 1 \in 1 .. n /\ k + 1 \in 0 .. n /\ (k + 1) - 1 = k /\ g[k] \in Nat
      BY <1>1, <2>2
    <3>2. g[k + 1] = New(k + 1, g[k])
      BY <1>9, <3>1
    <3>. QED  BY <1>2, <3>1, <3>2
  <2>3. S \in SUBSET Nat
    BY <1>1
  <2>. HIDE DEF S
  <2>4. 0 .. n \subseteq S
    BY <1>1, <2>1, <2>2, <2>3, InductionTo
  <2>. QED  BY <2>4 DEF S
<1>11. g \in [0 .. n -> Nat]
  <2>1. g = [k \in 0 .. n |-> g[k]]
    BY <1>8
  <2>. QED  BY <1>10, <2>1
<1>. QED  BY <1>9, <1>11 DEF n, New, g

(* One pass yields a block of available memory, and from a sorted table    *)
(* one that takes in whole every entry it touches.                         *)
LEMMA Grown ==
  ASSUME E820_Table \in Seq(MapEntry), NEW b \in Nat, NEW end, end = GrownEnd(b)[Len(E820_Table)]
  PROVE  /\ end \in Nat /\ b <= end /\ b .. end - 1 \subseteq Available
         /\ Sorted => \A e \in AvailableEntries : e.base <= end => e.base + e.size <= end
<1>. DEFINE E == E820_Table
            n == Len(E820_Table)
            g == GrownEnd(b)
            Good(k) == /\ b <= g[k] /\ b .. g[k] - 1 \subseteq Available
                       /\ Sorted => \A j \in 1 .. k : E[j].available /\ E[j].base <= g[k]
                                                    => E[j].base + E[j].size <= g[k]
            S == {k \in 0 .. n : Good(k)}
<1>1. /\ n \in Nat /\ g \in [0 .. n -> Nat] /\ g[0] = b
      /\ \A k \in 1 .. n : g[k] = IF E[k].available /\ Extends(E[k], g[k - 1])
                                 THEN E[k].base + E[k].size ELSE g[k - 1]
  BY GrownSteps DEF Counts
<1>2. \A k \in 1 .. n : /\ E[k].base \in Nat /\ E[k].size \in Nat /\ E[k].available \in BOOLEAN
                         /\ E[k].available => E[k].base .. E[k].base + E[k].size - 1 \subseteq Available
  <2>1. ASSUME NEW k \in 1 .. n
        PROVE  E[k].base \in Nat /\ E[k].size \in Nat /\ E[k].available \in BOOLEAN /\ E[k] \in Range(E)
    BY <2>1 DEF MapEntry, E820_Entry, Range
  <2>2. ASSUME NEW e \in Range(E), e.available
        PROVE  e.base .. e.base + e.size - 1 \subseteq Available
    BY <2>2 DEF Available, Covered, Bytes
  <2>. QED  BY <2>1, <2>2
<1>t. \A k \in 1 .. n : E[k].base \in Nat /\ E[k].size \in Nat
  BY DEF MapEntry, E820_Entry
<1>3. Sorted => \A j, k \in 1 .. n : j < k => E[j].base <= E[k].base
  BY DEF Sorted
<1>4. \A e \in AvailableEntries : \E k \in 1 .. n : e = E[k] /\ E[k].available
  BY DEF AvailableEntries, Range
<1>. HIDE DEF g, E, n
<1>5. 0 \in S
  BY <1>1
<1>6. ASSUME NEW k \in S, k < n PROVE k + 1 \in S
  <2>1. /\ k \in Nat /\ k + 1 \in 1 .. n /\ k + 1 \in 0 .. n /\ (k + 1) - 1 = k /\ k \in 0 .. n
        /\ g[k] \in Nat /\ Good(k)
    BY <1>1, <1>6
  <2>2. PICK x \in Nat, y \in Nat : x = g[k] /\ y = g[k + 1]
    BY <1>1, <2>1
  <2>a. ASSUME NEW j \in 1 .. n PROVE E[j].base \in Nat /\ E[j].size \in Nat
    BY <1>t
  <2>b. E[k + 1].base \in Nat /\ E[k + 1].size \in Nat
    BY <2>1, <2>a
  <2>3. PICK lo \in Nat, sz \in Nat : E[k + 1].base = lo /\ E[k + 1].size = sz
    BY <2>b
  <2>4. y = IF E[k + 1].available /\ lo + sz >= x /\ lo <= x THEN lo + sz ELSE x
    <3>1. g[k + 1] = IF E[k + 1].available /\ Extends(E[k + 1], g[k]) THEN E[k + 1].base + E[k + 1].size ELSE g[k]
      BY <1>1, <2>1
    <3>. QED  BY <2>2, <2>3, <3>1 DEF Extends
  <2>5. b <= x /\ b .. x - 1 \subseteq Available
    BY <2>1, <2>2
  <2>6. b <= y /\ b .. y - 1 \subseteq Available
    <3>1. CASE y = x
      BY <2>5, <3>1
    <3>2. CASE y # x
      <4>1. E[k + 1].available /\ y = lo + sz /\ lo <= x /\ x <= y
        BY <2>4, <3>2
      <4>2. lo .. lo + sz - 1 \subseteq Available
        BY <1>2, <2>1, <2>3, <4>1
      <4>3. \A a \in b .. y - 1 : a \in b .. x - 1 \/ a \in lo .. lo + sz - 1
        BY <4>1
      <4>. QED  BY <2>5, <4>1, <4>2, <4>3
    <3>. QED  BY <3>1, <3>2
  <2>7. ASSUME Sorted, NEW j \in 1 .. k + 1, E[j].available, E[j].base <= y
        PROVE  E[j].base + E[j].size <= y
    <3>1. CASE j = k + 1
      BY <2>2, <2>3, <2>4, <2>7, <3>1
    <3>2. CASE j # k + 1
      <4>1. j \in 1 .. k /\ j \in 1 .. n /\ j < k + 1
        <5>1. n \in Nat /\ k \in Nat /\ k < n
          BY <1>1, <1>6, <2>1
        <5>. QED  BY <3>2, <5>1
      <4>2. PICK p \in Nat, q \in Nat : E[j].base = p /\ E[j].size = q
        <5>1. E[j].base \in Nat /\ E[j].size \in Nat
          BY <2>a, <4>1
        <5>. QED  BY <5>1
      <4>3. p <= lo
        BY <1>3, <2>1, <2>3, <2>7, <4>1, <4>2
      <4>4. p <= x => p + q <= x
        BY <2>1, <2>2, <2>7, <4>1, <4>2
      <4>. QED  BY <2>4, <2>7, <4>2, <4>3, <4>4
    <3>. QED  BY <3>1, <3>2
  <2>. QED  BY <2>1, <2>2, <2>6, <2>7
<1>7. S \in SUBSET Nat
  BY <1>1
<1>. HIDE DEF S
<1>8. n \in S
  <2>1. 0 .. n \subseteq S
    BY <1>1, <1>5, <1>6, <1>7, InductionTo
  <2>. QED  BY <1>1, <2>1
<1>9. Good(n) /\ g[n] \in Nat /\ end = g[n]
  <2>1. end = g[n]
    BY DEF g, n
  <2>. QED  BY <1>1, <1>8, <2>1 DEF S
<1>. QED  BY <1>4, <1>9

(* A block shrinks to the pages that are whole in it, and to all of them.  *)
LEMMA Shrunk ==
  ASSUME NEW block \in MapBlock, NEW w, w = WholePages(block)
  PROVE  /\ w \in MapBlock /\ IsPages(w)
         /\ w.size > 0 => block.address <= w.address /\ EndOf(w) <= EndOf(block)
         /\ Bytes(w.address, w.size) \subseteq Bytes(block.address, block.size)
         /\ \A a \in Nat : PageOf(a) \subseteq Bytes(block.address, block.size)
                          => PageOf(a) \subseteq Bytes(w.address, w.size)
<1>1. PICK x \in Nat, z \in Nat : x = block.address /\ z = block.size
  BY DEF MapBlock
<1>2. PICK lo \in Nat, hi \in Nat : lo = Up(x) /\ hi = Down(x + z)
  <2>1. Up(x) \in Nat /\ Down(x + z) \in Nat
    BY Rounding
  <2>. QED  BY <2>1
<1>3. /\ x <= lo /\ lo < x + PageSize /\ lo % PageSize = 0
      /\ hi <= x + z /\ x + z < hi + PageSize /\ hi % PageSize = 0
  BY <1>2, Rounding
<1>4. w = IF hi > lo THEN [address |-> lo, size |-> hi - lo] ELSE [address |-> 0, size |-> 0]
  BY <1>1, <1>2 DEF WholePages, EndOf
<1>5. PageSize \in Nat \ {0}
  BY PageAssumption
<1>6. ASSUME NEW a \in Nat, PageOf(a) \subseteq x .. x + z - 1
      PROVE  hi > lo /\ PageOf(a) \subseteq lo .. hi - 1
  <2>1. PICK d \in Nat : d = Down(a) /\ d % PageSize = 0
    BY Rounding
  <2>2. PageOf(a) = d .. d + PageSize - 1
    BY <2>1 DEF PageOf, Bytes
  <2>3. x <= d /\ d + PageSize <= x + z
    <3>1. d \in PageOf(a) /\ d + PageSize - 1 \in PageOf(a)
      BY <1>5, <2>2
    <3>. QED  BY <1>5, <1>6, <3>1
  <2>4. (d + PageSize) % PageSize = 0 /\ d + PageSize \in Nat
    BY <1>5, <2>1, PagesBetween
  <2>5. lo <= d
    <3>1. lo < d + PageSize
      BY <1>3, <1>5, <2>3
    <3>. QED  BY <1>3, <2>1, <3>1, PagesApart
  <2>6. d + PageSize <= hi
    <3>1. d + PageSize < hi + PageSize
      BY <1>3, <1>5, <2>3
    <3>. QED  BY <1>3, <2>4, <3>1, PagesApart
  <2>. QED  BY <1>5, <2>2, <2>5, <2>6
<1>7. CASE hi > lo
  <2>1. w.address = lo /\ w.size = hi - lo /\ w.address \in Nat /\ w.size \in Nat
    BY <1>4, <1>7
  <2>2. w \in MapBlock
    BY <1>4, <1>7, <2>1 DEF MapBlock
  <2>3. (hi - lo) % PageSize = 0
    BY <1>3, <1>7, PagesBetween
  <2>4. IsPages(w)
    BY <1>3, <2>1, <2>3, Zenon DEF IsPages
  <2>5. Bytes(w.address, w.size) = lo .. hi - 1 /\ EndOf(w) = hi
    BY <2>1 DEF Bytes, EndOf
  <2>6. Bytes(block.address, block.size) = x .. x + z - 1 /\ EndOf(block) = x + z
    BY <1>1 DEF Bytes, EndOf
  <2>7. lo .. hi - 1 \subseteq x .. x + z - 1
    BY <1>3, <1>7
  <2>8. block.address <= w.address /\ EndOf(w) <= EndOf(block)
    BY <1>1, <1>3, <2>1, <2>5, <2>6
  <2>. QED  BY <1>6, <2>2, <2>4, <2>5, <2>6, <2>7, <2>8, Zenon
<1>8. CASE ~(hi > lo)
  <2>1. w.address = 0 /\ w.size = 0
    BY <1>4, <1>8
  <2>2. w \in MapBlock
    BY <1>4, <1>8 DEF MapBlock
  <2>3. 0 % PageSize = 0
    <3>1. 0 * PageSize = 0
      BY <1>5
    <3>2. (0 * PageSize) % PageSize = 0
      BY WholeNumber
    <3>. QED  BY <3>1, <3>2, Zenon
  <2>4. IsPages(w)
    BY <2>1, <2>3, Zenon DEF IsPages
  <2>5. Bytes(w.address, w.size) = {}
    BY <2>1 DEF Bytes
  <2>6. Bytes(block.address, block.size) = x .. x + z - 1
    BY <1>1 DEF Bytes
  <2>. QED  BY <1>6, <1>8, <2>1, <2>2, <2>4, <2>5, <2>6
<1>. QED  BY <1>7, <1>8

(* What the BIOS is asked for is kept only where there is memory.          *)
LEMMA StoredEntries ==
  ASSUME NEW bios \in Seq(E820_Entry), NEW ends
  PROVE  Memory_StoreE820Info(bios, ends) \in Seq(MapEntry)
<1>. DEFINE n == IF ends = "ebx" /\ bios # << >> THEN Len(bios) - 1 ELSE Len(bios)
            New(k, v) == IF bios[k].size > 0 THEN Append(v, bios[k]) ELSE v
            Step == [k \in 1 .. n |-> [v \in Seq(MapEntry) |-> New(k, v)]]
            Body(f) == [k \in 0 .. n |-> IF k = 0 THEN << >> ELSE New(k, f[k - 1])]
            g == CHOOSE f : f = Body(f)
<1>1. n \in Nat /\ 1 .. n \subseteq 1 .. Len(bios)
  <2>1. Len(bios) \in Nat /\ (bios # << >> => Len(bios) # 0)
    BY EmptySeq
  <2>. QED  BY <2>1
<1>2. ASSUME NEW k \in 1 .. n, NEW v \in Seq(MapEntry) PROVE New(k, v) \in Seq(MapEntry)
  <2>1. bios[k] \in E820_Entry
    BY <1>1
  <2>2. bios[k].size > 0 => bios[k] \in MapEntry
    BY <2>1 DEF MapEntry
  <2>. QED  BY <2>2
<1>3. Memory_StoreE820Info(bios, ends) = g[n]
  BY DEF Memory_StoreE820Info
<1>4. << >> \in Seq(MapEntry)
  OBVIOUS
<1>. HIDE DEF n, New
<1>5. PICK f \in [0 .. n -> Seq(MapEntry)] : f[0] = << >> /\ \A k \in 1 .. n : f[k] = Step[k][f[k - 1]]
  <2>1. Step \in [1 .. n -> [Seq(MapEntry) -> Seq(MapEntry)]]
    BY <1>2
  <2>. HIDE DEF Step
  <2>2. PICK V, v : V = Seq(MapEntry) /\ v = << >>
    OBVIOUS
  <2>3. n \in Nat /\ v \in V /\ Step \in [1 .. n -> [V -> V]]
    BY <1>1, <1>4, <2>1, <2>2
  <2>4. \E f \in [0 .. n -> V] : f[0] = v /\ \A k \in 1 .. n : f[k] = Step[k][f[k - 1]]
    BY ONLY <2>3, Iteration
  <2>. QED  BY <2>2, <2>4
<1>6. ASSUME NEW k \in 0 .. n PROVE f[k] = IF k = 0 THEN << >> ELSE New(k, f[k - 1])
  <2>1. CASE k = 0
    BY <1>5, <2>1
  <2>2. CASE k # 0
    <3>1. k \in 1 .. n /\ k - 1 \in 0 .. n
      BY <1>1, <2>2
    <3>. QED  BY <1>5, <2>2, <3>1
  <2>. QED  BY <2>1, <2>2
<1>7. f = Body(f)
  BY <1>6
<1>8. g = Body(g)
  <2>. HIDE DEF Body
  <2>. QED  BY <1>7
<1>. HIDE DEF g
<1>9. g[0] = << >> /\ \A k \in 1 .. n : g[k] = New(k, g[k - 1])
  <2>1. \A k \in 0 .. n : g[k] = Body(g)[k]
    <3>. HIDE DEF Body
    <3>. QED  BY <1>8
  <2>2. 0 \in 0 .. n /\ \A k \in 1 .. n : k \in 0 .. n /\ k # 0
    BY <1>1
  <2>. QED  BY <2>1, <2>2
<1>10. g[n] \in Seq(MapEntry)
  <2>. DEFINE S == {k \in 0 .. n : g[k] \in Seq(MapEntry)}
  <2>1. 0 \in S
    <3>1. 0 \in 0 .. n
      BY <1>1
    <3>2. g[0] \in Seq(MapEntry)
      BY <1>4, <1>9, Zenon
    <3>. QED  BY <3>1, <3>2
  <2>2. ASSUME NEW k \in S, k < n PROVE k + 1 \in S
    <3>1. k + 1 \in 1 .. n /\ k + 1 \in 0 .. n /\ (k + 1) - 1 = k /\ g[k] \in Seq(MapEntry)
      BY <1>1, <2>2
    <3>2. g[k + 1] = New(k + 1, g[k])
      BY <1>9, <3>1
    <3>. QED  BY <1>2, <3>1, <3>2
  <2>3. S \in SUBSET Nat
    BY <1>1
  <2>. HIDE DEF S
  <2>4. 0 .. n \subseteq S
    BY <1>1, <2>1, <2>2, <2>3, InductionTo
  <2>5. n \in 0 .. n
    BY <1>1
  <2>. QED  BY <2>4, <2>5 DEF S
<1>. QED  BY <1>3, <1>10

(* The BIOS's table stays as it is, and so does what is said of it.        *)
LEMMA SameTable ==
  ASSUME UNCHANGED E820_Table
  PROVE  Available' = Available /\ AvailableEntries' = AvailableEntries /\ (Sorted' <=> Sorted)
BY DEF Available, AvailableEntries, Sorted, Covered, Bytes, Range

(* An address is available when it is in an available entry.               *)
LEMMA InEntry ==
  ASSUME E820_Table \in Seq(MapEntry)
  PROVE  /\ \A e \in AvailableEntries : e.base \in Nat /\ e.size \in Nat \ {0}
         /\ \A a \in Available : \E e \in AvailableEntries : a \in e.base .. e.base + e.size - 1
         /\ Available \subseteq Nat
<1>1. \A e \in AvailableEntries : e.base \in Nat /\ e.size \in Nat \ {0}
  BY DEF AvailableEntries, Range, MapEntry, E820_Entry
<1>2. \A a \in Available : \E e \in AvailableEntries : a \in e.base .. e.base + e.size - 1
  BY DEF Available, Covered, Bytes, AvailableEntries
<1>. QED  BY <1>1, <1>2

(* A block is found behind the others, and grown: what the search passes   *)
(* is in it or was in one before.                                          *)
LEMMA CollectStep == MapInv /\ Collect => MapInv'
<1>0. SUFFICES ASSUME MapInv, Collect PROVE MapInv'
  OBVIOUS
<1>. UNCHANGED <<E820_Table, page_align, index, stage>> /\ MapType
  BY <1>0 DEF Collect, MapInv
<1>1. Ahead \in SUBSET Nat /\ Ahead # {} /\ stage = "collect"
  <2>1. \A e \in Range(E820_Table) : e.base \in Nat
    BY DEF MapType, MapEntry, E820_Entry, Range
  <2>. QED  BY <1>0, <2>1 DEF Collect, Ahead
<1>2. PICK b \in Nat : b = Min(Ahead) /\ b \in Ahead /\ \A m \in Ahead : b <= m
  BY <1>1, MinOf
<1>3. address \in Nat /\ address <= b /\ \A e \in AvailableEntries : e.base >= address => b <= e.base
  BY <1>2 DEF Ahead, Counts, AvailableEntries, MapType
<1>4. PICK end : end = GrownEnd(b)[Len(E820_Table)]
  OBVIOUS
<1>5. /\ end \in Nat /\ b <= end /\ b .. end - 1 \subseteq Available
      /\ Sorted => \A e \in AvailableEntries : e.base <= end => e.base + e.size <= end
  BY <1>4, Grown DEF MapType
<1>6. PICK new : new = [address |-> b, size |-> end - b]
  OBVIOUS
<1>7. new \in MapBlock /\ new.address = b /\ new.size = end - b /\ EndOf(new) = end
  BY <1>5, <1>6 DEF MapBlock, EndOf
<1>8. table' = Append(table, new) /\ address' = end
  BY <1>0, <1>2, <1>4, <1>6 DEF Collect, Resume
<1>9. PICK n \in Nat : n = Len(table) /\ DOMAIN table = 1 .. n
  BY DEF MapType
<1>10. /\ DOMAIN table' = 1 .. n + 1 /\ table'[n + 1] = new /\ \A k \in 1 .. n : table'[k] = table[k]
       /\ table' \in Seq(MapBlock) /\ table' # << >>
  BY <1>7, <1>8, <1>9, AppendProperties DEF MapType
<1>11. \A k \in 1 .. n : table[k].address \in Nat /\ table[k].size \in Nat /\ EndOf(table[k]) \in Nat
  <2>1. \A k \in 1 .. n : table[k] \in MapBlock
    BY <1>9 DEF MapType
  <2>. QED  BY <2>1 DEF MapBlock, EndOf
<1>12. \A k \in 1 .. n : Listed(k)' = Listed(k)
  BY <1>9, <1>10 DEF Listed
<1>13. Listed(n + 1)' = b .. end - 1
  BY <1>5, <1>7, <1>10 DEF Listed, Bytes
<1>14. \A k \in 1 .. n + 1 : k \in 1 .. n \/ k = n + 1
  OBVIOUS
<1>. HIDE DEF Listed
<1>15. MapType'
  BY <1>5, <1>8, <1>10 DEF MapType
<1>16. \A k \in 1 .. n : EndOf(table[k]) <= address
  BY <1>0, <1>1, <1>9 DEF MapInv, Behind
<1>17. InOrder'
  <2>1. SUFFICES ASSUME NEW k \in 1 .. n + 1, NEW l \in 1 .. n + 1, k < l,
                        table'[k].size > 0, table'[l].size > 0
                 PROVE  Precedes(table[k], table[l])'
    BY <1>10 DEF InOrder
  <2>2. k \in 1 .. n
    BY <2>1
  <2>3. CASE l = n + 1
    <3>1. EndOf(table'[k]) <= address /\ EndOf(table'[k]) \in Nat
      BY <1>10, <1>11, <1>16, <2>2
    <3>2. table'[l].address = b
      BY <1>7, <1>10, <2>3
    <3>3. ASSUME Sorted PROVE EndOf(table[k]) # b
      <4>1. EndOf(table[k]) \notin Available
        BY <1>0, <1>1, <1>9, <2>2, <3>3 DEF MapInv, Gathered
      <4>2. PICK e \in AvailableEntries : e.base = b
        BY <1>2 DEF Ahead, Counts, AvailableEntries
      <4>3. e.base \in Nat /\ e.size \in Nat \ {0}
        BY InEntry DEF MapType
      <4>4. b \in Bytes(e.base, e.size)
        BY <4>2, <4>3 DEF Bytes
      <4>5. b \in Available
        BY <4>2, <4>4 DEF Available, Covered, AvailableEntries
      <4>. QED  BY <4>1, <4>5
    <3>4. table'[k] = table[k]
      BY <1>10, <2>2
    <3>. QED  BY <1>3, <3>1, <3>2, <3>3, <3>4, SameTable DEF Precedes
  <2>4. CASE l \in 1 .. n
    <3>1. table'[k] = table[k] /\ table'[l] = table[l]
      BY <1>10, <2>2, <2>4
    <3>2. Precedes(table[k], table[l])
      BY <1>0, <1>9, <2>1, <2>2, <2>4, <3>1 DEF MapInv, InOrder
    <3>. QED  BY <3>1, <3>2, SameTable DEF Precedes
  <2>. QED  BY <1>14, <2>3, <2>4
<1>18. Backed'
  <2>1. \A k \in 1 .. n : Listed(k) \subseteq Available
    BY <1>0, <1>9 DEF MapInv, Backed
  <2>. QED  BY <1>5, <1>10, <1>12, <1>13, <1>14, <2>1, SameTable DEF Backed
<1>19. Behind'
  <2>1. ASSUME NEW k \in 1 .. n + 1 PROVE EndOf(table'[k]) <= end
    <3>1. CASE k \in 1 .. n
      <4>1. EndOf(table'[k]) <= address /\ EndOf(table'[k]) \in Nat
        BY <1>10, <1>11, <1>16, <3>1
      <4>. QED  BY <1>3, <1>5, <4>1
    <3>2. CASE k = n + 1
      BY <1>5, <1>7, <1>10, <3>2
    <3>. QED  BY <1>14, <3>1, <3>2
  <2>. QED  BY <1>8, <1>10, <2>1 DEF Behind, EndOf
<1>20. PageWise' /\ Kept'
  BY <1>0, <1>1 DEF MapInv, PageWise, Kept, Passed
<1>21. ASSUME Sorted
       PROVE  /\ \A e \in AvailableEntries :
                   /\ e.base < end => /\ e.base + e.size <= end
                                      /\ \E k \in 1 .. n + 1 : Bytes(e.base, e.size) \subseteq Listed(k)'
                   /\ e.base # end
              /\ \A k \in 1 .. n + 1 : table'[k].address - 1 \notin Available /\ EndOf(table'[k]) \notin Available
  <2>1. \A e \in AvailableEntries :
          /\ e.base < address => /\ e.base + e.size <= address
                                 /\ \E k \in 1 .. n : Bytes(e.base, e.size) \subseteq Listed(k)
          /\ table # << >> => e.base # address
    BY <1>0, <1>1, <1>9, <1>21 DEF MapInv, Gathered
  <2>2. \A k \in 1 .. n : table[k].address - 1 \notin Available /\ EndOf(table[k]) \notin Available
    BY <1>0, <1>1, <1>9, <1>21 DEF MapInv, Gathered
  <2>3. E820_Table \in Seq(MapEntry)
    BY DEF MapType
  <2>4. ASSUME NEW e \in AvailableEntries
        PROVE  /\ e.base < end => /\ e.base + e.size <= end
                                  /\ \E k \in 1 .. n + 1 : Bytes(e.base, e.size) \subseteq Listed(k)'
               /\ e.base # end
    <3>1. PICK p \in Nat, z \in Nat \ {0} : p = e.base /\ z = e.size
      BY <2>3, InEntry
    <3>2. p <= end => p + z <= end
      BY <1>5, <1>21, <3>1
    <3>3. p # end
      BY <1>5, <3>2
    <3>4. ASSUME p < address PROVE \E k \in 1 .. n + 1 : Bytes(e.base, e.size) \subseteq Listed(k)'
      <4>1. PICK k \in 1 .. n : Bytes(e.base, e.size) \subseteq Listed(k)
        BY <2>1, <3>1, <3>4
      <4>2. k \in 1 .. n + 1
        OBVIOUS
      <4>. QED  BY <1>12, <4>1, <4>2
    <3>5. ASSUME p >= address, p < end PROVE \E k \in 1 .. n + 1 : Bytes(e.base, e.size) \subseteq Listed(k)'
      <4>1. b <= p /\ p + z <= end
        BY <1>3, <1>5, <3>1, <3>2, <3>5
      <4>2. p .. p + z - 1 \subseteq b .. end - 1
        BY <1>5, <4>1
      <4>3. n + 1 \in 1 .. n + 1
        OBVIOUS
      <4>. QED  BY <1>13, <3>1, <4>2, <4>3 DEF Bytes
    <3>6. ASSUME p < end PROVE \E k \in 1 .. n + 1 : Bytes(e.base, e.size) \subseteq Listed(k)'
      <4>1. p < address \/ p >= address
        BY <1>3
      <4>2. CASE p < address
        BY <3>4, <4>2
      <4>3. CASE p >= address
        BY <3>5, <3>6, <4>3
      <4>. QED  BY <4>1, <4>2, <4>3
    <3>. QED  BY <1>5, <3>1, <3>2, <3>3, <3>6
  <2>5. b - 1 \notin Available
    <3>1. SUFFICES ASSUME NEW e \in AvailableEntries, b - 1 \in e.base .. e.base + e.size - 1 PROVE FALSE
      BY <2>3, InEntry
    <3>2. PICK p \in Nat, z \in Nat \ {0} : p = e.base /\ z = e.size
      BY <2>3, InEntry
    <3>3. p <= b - 1 /\ b <= p + z
      BY <3>1, <3>2
    <3>4. p < address /\ p + z <= address /\ address = b
      <4>1. ~(p >= address)
        BY <1>3, <3>2, <3>3
      <4>2. p < address
        BY <1>3, <4>1
      <4>3. p + z <= address
        BY <2>1, <3>2, <4>2
      <4>. QED  BY <1>3, <3>3, <4>2, <4>3
    <3>5. table # << >>
      <4>1. PICK k \in 1 .. n : TRUE
        BY <2>1, <3>2, <3>4
      <4>. QED  BY <1>9, <4>1
    <3>6. PICK x \in AvailableEntries : x.base = b
      BY <1>2 DEF Ahead, Counts, AvailableEntries
    <3>. QED  BY <2>1, <3>4, <3>5, <3>6
  <2>6. end \notin Available
    <3>1. SUFFICES ASSUME NEW e \in AvailableEntries, end \in e.base .. e.base + e.size - 1 PROVE FALSE
      BY <2>3, InEntry
    <3>2. PICK p \in Nat, z \in Nat \ {0} : p = e.base /\ z = e.size
      BY <2>3, InEntry
    <3>3. p <= end => p + z <= end
      BY <1>5, <1>21, <3>2
    <3>. QED  BY <1>5, <3>1, <3>2, <3>3
  <2>7. ASSUME NEW k \in 1 .. n + 1
        PROVE  table'[k].address - 1 \notin Available /\ EndOf(table'[k]) \notin Available
    <3>1. CASE k \in 1 .. n
      BY <1>10, <2>2, <3>1
    <3>2. CASE k = n + 1
      BY <1>7, <1>10, <2>5, <2>6, <3>2
    <3>. QED  BY <1>14, <3>1, <3>2
  <2>. QED  BY <2>4, <2>7
<1>22. Gathered'
  BY <1>8, <1>10, <1>21, SameTable DEF Gathered, EndOf, Bytes
<1>. QED  BY <1>15, <1>17, <1>18, <1>19, <1>20, <1>22 DEF MapInv

(* The block that has a byte of an available page has all of it, for there *)
(* is nothing available right before or behind the block.                  *)
LEMMA PageWithin ==
  ASSUME NEW block \in MapBlock, NEW a \in Nat, a \in Bytes(block.address, block.size),
         PageOf(a) \subseteq Available,
         block.address - 1 \notin Available, EndOf(block) \notin Available
  PROVE  PageOf(a) \subseteq Bytes(block.address, block.size)
<1>1. PICK x \in Nat, z \in Nat : x = block.address /\ z = block.size
  BY DEF MapBlock
<1>2. PICK d \in Nat : d = Down(a) /\ d <= a /\ a < d + PageSize
  BY Rounding
<1>3. PageOf(a) = d .. d + PageSize - 1 /\ PageSize \in Nat
  BY <1>2, PageAssumption DEF PageOf, Bytes
<1>4. a \in x .. x + z - 1 /\ x - 1 \notin Available /\ x + z \notin Available
  BY <1>1 DEF Bytes, EndOf
<1>5. x <= d
  <2>1. CASE d < x
    <3>1. x - 1 \in d .. d + PageSize - 1
      BY <1>2, <1>3, <1>4, <2>1
    <3>. QED  BY <1>3, <1>4, <3>1
  <2>. QED  BY <2>1
<1>6. d + PageSize <= x + z
  <2>1. CASE x + z < d + PageSize
    <3>1. x + z \in d .. d + PageSize - 1
      BY <1>2, <1>3, <1>4, <2>1
    <3>. QED  BY <1>3, <1>4, <3>1
  <2>. QED  BY <1>3, <2>1
<1>7. d .. d + PageSize - 1 \subseteq x .. x + z - 1
  BY <1>3, <1>5, <1>6
<1>. QED  BY <1>1, <1>3, <1>7 DEF Bytes

(* When nothing is ahead, everything has been gathered.                    *)
LEMMA CollectedStep == MapInv /\ Collected => MapInv'
<1>0. SUFFICES ASSUME MapInv, Collected PROVE MapInv'
  OBVIOUS
<1>. UNCHANGED <<E820_Table, page_align, table, address, index>> /\ MapType
  BY <1>0 DEF Collected, MapInv
<1>1. stage = "collect" /\ stage' = (IF page_align THEN "align" ELSE "prune") /\ Ahead = {}
  BY <1>0 DEF Collected
<1>2. index = 1 /\ page_align \in BOOLEAN
  BY <1>0, <1>1 DEF MapInv, PageWise, MapType
<1>3. MapType'
  BY <1>1, <1>2 DEF MapType
<1>4. InOrder' /\ Backed'
  BY <1>0, SameTable DEF MapInv, InOrder, Precedes, Backed, Listed
<1>5. Behind' /\ Gathered'
  BY <1>1, <1>2 DEF Behind, Gathered
<1>6. PageWise'
  <2>1. CASE page_align
    <3>1. stage' = "align" /\ index' = 1 /\ \A k \in DOMAIN table : ~(k < 1)
      BY <1>1, <1>2, <2>1 DEF MapType
    <3>. QED  BY <2>1, <3>1 DEF PageWise, Passed
  <2>2. CASE ~page_align
    BY <1>1, <2>2 DEF PageWise
  <2>. QED  BY <2>1, <2>2
<1>7. ASSUME Sorted, NEW a \in Available, Unit(a) \subseteq Available
      PROVE  \E k \in DOMAIN table : Unit(a) \subseteq Listed(k)
  <2>1. E820_Table \in Seq(MapEntry)
    BY DEF MapType
  <2>2. PICK e \in AvailableEntries : a \in e.base .. e.base + e.size - 1
    BY <2>1, InEntry
  <2>3. e.base < address
    <3>1. e.base \in Nat /\ address \in Nat
      BY <2>1, InEntry DEF MapType
    <3>2. ~(e.base >= address)
      BY <1>1 DEF Ahead, Counts, AvailableEntries
    <3>. QED  BY <3>1, <3>2
  <2>4. PICK k \in DOMAIN table : Bytes(e.base, e.size) \subseteq Listed(k)
    BY <1>0, <1>1, <1>7, <2>3 DEF MapInv, Gathered
  <2>5. a \in Listed(k) /\ a \in Nat
    BY <2>1, <2>2, <2>4, InEntry DEF Bytes
  <2>6. CASE page_align
    <3>1. table[k] \in MapBlock
      BY DEF MapType
    <3>2. table[k].address - 1 \notin Available /\ EndOf(table[k]) \notin Available
      BY <1>0, <1>1, <1>7 DEF MapInv, Gathered
    <3>3. PageOf(a) \subseteq Available
      BY <1>7, <2>6 DEF Unit
    <3>4. PageOf(a) \subseteq Listed(k)
      BY <2>5, <3>1, <3>2, <3>3, PageWithin DEF Listed
    <3>. QED  BY <2>6, <3>4 DEF Unit
  <2>7. CASE ~page_align
    BY <2>5, <2>7 DEF Unit
  <2>. QED  BY <2>6, <2>7
<1>8. Kept'
  BY <1>7, SameTable DEF Kept, Unit, Listed
<1>. QED  BY <1>3, <1>4, <1>5, <1>6, <1>8 DEF MapInv

(* Aligning a block leaves its place among the others, and its pages.      *)
LEMMA AlignStep == MapInv /\ Align => MapInv'
<1>0. SUFFICES ASSUME MapInv, Align PROVE MapInv'
  OBVIOUS
<1>. UNCHANGED <<E820_Table, page_align, address, stage>> /\ MapType
  BY <1>0 DEF Align, MapInv
<1>1. stage = "align" /\ page_align /\ index' = index + 1
  BY <1>0 DEF Align, MapInv, PageWise
<1>2. PICK n \in Nat : n = Len(table) /\ DOMAIN table = 1 .. n
  BY DEF MapType
<1>3. index \in 1 .. n
  BY <1>0, <1>2 DEF Align, MapType
<1>4. \A k \in 1 .. n : table[k] \in MapBlock
  BY <1>2 DEF MapType
<1>5. PICK w : w = WholePages(table[index])
  OBVIOUS
<1>6. /\ w \in MapBlock /\ IsPages(w)
      /\ w.size > 0 => table[index].address <= w.address /\ EndOf(w) <= EndOf(table[index])
      /\ Bytes(w.address, w.size) \subseteq Bytes(table[index].address, table[index].size)
      /\ \A a \in Nat : PageOf(a) \subseteq Bytes(table[index].address, table[index].size)
                       => PageOf(a) \subseteq Bytes(w.address, w.size)
  BY <1>3, <1>4, <1>5, Shrunk
<1>7. table' = [table EXCEPT ![index] = w]
  BY <1>0, <1>5 DEF Align
<1>8. /\ table' \in Seq(MapBlock) /\ DOMAIN table' = 1 .. n
      /\ table'[index] = w /\ \A k \in 1 .. n : k # index => table'[k] = table[k]
  BY <1>2, <1>3, <1>6, <1>7, ExceptSeq DEF MapType
<1>9. MapType'
  BY <1>1, <1>8 DEF MapType
<1>10. \A k \in 1 .. n : Listed(k)' \subseteq Listed(k)
  BY <1>6, <1>8 DEF Listed
<1>11. InOrder'
  <2>1. SUFFICES ASSUME NEW k \in 1 .. n, NEW l \in 1 .. n, k < l,
                        table'[k].size > 0, table'[l].size > 0
                 PROVE  Precedes(table[k], table[l])'
    BY <1>8 DEF InOrder
  <2>2. ASSUME NEW j \in 1 .. n, table'[j].size > 0
        PROVE  /\ table[j].size > 0 /\ table[j].address <= table'[j].address /\ EndOf(table'[j]) <= EndOf(table[j])
               /\ EndOf(table[j]) \in Nat /\ EndOf(table'[j]) \in Nat
               /\ table[j].address \in Nat /\ table'[j].address \in Nat
    <3>1. table[j] \in MapBlock /\ table'[j] \in MapBlock
      BY <1>4, <1>6, <1>8
    <3>2. CASE j = index
      <4>1. PICK p \in Nat, q \in Nat, x \in Nat, y \in Nat :
                p = table[j].address /\ q = table[j].size /\ x = table'[j].address /\ y = table'[j].size
        BY <3>1 DEF MapBlock
      <4>2. EndOf(table[j]) = p + q /\ EndOf(table'[j]) = x + y
        BY <4>1 DEF EndOf
      <4>3. table'[j] = w /\ y > 0
        BY <1>8, <2>2, <3>2, <4>1
      <4>4. p <= x /\ x + y <= p + q
        BY <1>6, <3>2, <4>1, <4>2, <4>3
      <4>. QED  BY <4>1, <4>2, <4>3, <4>4
    <3>3. CASE j # index
      BY <1>8, <2>2, <3>1, <3>3 DEF MapBlock, EndOf
    <3>. QED  BY <3>2, <3>3
  <2>3. Precedes(table[k], table[l])
    BY <1>0, <1>2, <2>1, <2>2 DEF MapInv, InOrder
  <2>4. /\ EndOf(table'[k]) <= EndOf(table[k]) /\ table[l].address <= table'[l].address
        /\ EndOf(table[k]) \in Nat /\ EndOf(table'[k]) \in Nat
        /\ table[l].address \in Nat /\ table'[l].address \in Nat
    BY <2>1, <2>2
  <2>. QED  BY <2>3, <2>4, SameTable DEF Precedes
<1>12. Backed'
  <2>1. \A k \in 1 .. n : Listed(k) \subseteq Available
    BY <1>0, <1>2 DEF MapInv, Backed
  <2>. QED  BY <1>8, <1>10, <2>1, SameTable DEF Backed
<1>13. Behind' /\ Gathered'
  BY <1>1 DEF Behind, Gathered
<1>14. PageWise'
  <2>1. ASSUME NEW k \in 1 .. n, k < index + 1 PROVE IsPages(table'[k])
    <3>1. CASE k = index
      BY <1>6, <1>8, <3>1
    <3>2. CASE k # index
      <4>1. k < index
        BY <1>3, <2>1, <3>2
      <4>2. IsPages(table[k])
        BY <1>0, <1>1, <1>2, <4>1 DEF MapInv, PageWise, Passed
      <4>. QED  BY <1>8, <3>2, <4>2
    <3>. QED  BY <3>1, <3>2
  <2>. QED  BY <1>1, <1>8, <2>1 DEF PageWise, Passed, IsPages
<1>15. ASSUME Sorted, NEW a \in Available, PageOf(a) \subseteq Available
       PROVE  \E k \in 1 .. n : PageOf(a) \subseteq Listed(k)'
  <2>1. PICK k \in 1 .. n : PageOf(a) \subseteq Listed(k)
    BY <1>0, <1>1, <1>2, <1>15 DEF MapInv, Kept, Unit
  <2>2. a \in Nat
    BY InEntry DEF MapType
  <2>3. CASE k = index
    BY <1>3, <1>6, <1>8, <2>1, <2>2, <2>3 DEF Listed
  <2>4. CASE k # index
    BY <1>8, <2>1, <2>4 DEF Listed
  <2>. QED  BY <2>3, <2>4
<1>16. Kept'
  <2>1. \A a : PageOf(a)' = PageOf(a)
    BY DEF PageOf, Bytes, Down
  <2>. QED  BY <1>1, <1>8, <1>15, SameTable DEF Kept, Unit
<1>. QED  BY <1>9, <1>11, <1>12, <1>13, <1>14, <1>16 DEF MapInv

(* The clean-up begins.                                                    *)
LEMMA AlignedStep == MapInv /\ Aligned => MapInv'
<1>0. SUFFICES ASSUME MapInv, Aligned PROVE MapInv'
  OBVIOUS
<1>. UNCHANGED <<E820_Table, page_align, table, address>> /\ MapType
  BY <1>0 DEF Aligned, MapInv
<1>1. stage = "align" /\ stage' = "prune" /\ index' = 1 /\ index > Len(table)
  BY <1>0 DEF Aligned
<1>2. MapType'
  BY <1>1 DEF MapType
<1>3. InOrder' /\ Backed' /\ Behind' /\ Gathered'
  BY <1>0, <1>1, SameTable DEF MapInv, InOrder, Precedes, Backed, Listed, Behind, Gathered
<1>4. PageWise'
  <2>1. \A k \in DOMAIN table : k < index
    BY <1>1 DEF MapType
  <2>. QED  BY <1>0, <1>1, <2>1 DEF MapInv, PageWise, Passed, IsPages
<1>5. Kept'
  BY <1>0, <1>1, SameTable DEF MapInv, Kept, Unit, Listed
<1>. QED  BY <1>2, <1>3, <1>4, <1>5 DEF MapInv

(* The sequence without its i-th element.                                  *)
LEMMA Removed ==
  ASSUME NEW S, NEW s \in Seq(S), NEW m \in 1 .. Len(s)
  PROVE  /\ RemoveAt(s, m) \in Seq(S) /\ Len(RemoveAt(s, m)) = Len(s) - 1
         /\ \A k \in 1 .. Len(s) - 1 : RemoveAt(s, m)[k] = s[IF k < m THEN k ELSE k + 1]
<1>. DEFINE n == Len(s)
            s1 == SubSeq(s, 1, m - 1)
            s2 == SubSeq(s, m + 1, n)
<1>1. n \in Nat /\ m \in 1 .. n /\ \A k \in 1 .. n : s[k] \in S
  OBVIOUS
<1>2. s1 \in Seq(S) /\ Len(s1) = m - 1 /\ \A k \in 1 .. m - 1 : s1[k] = s[k]
  <2>1. \A k \in 1 .. m - 1 : s[k] \in S
    BY <1>1
  <2>2. SubSeq(s, 1, m - 1) \in Seq(S) /\ Len(SubSeq(s, 1, m - 1)) = (IF 1 <= m - 1 THEN m - 1 - 1 + 1 ELSE 0)
        /\ \A k \in 1 .. m - 1 - 1 + 1 : SubSeq(s, 1, m - 1)[k] = s[1 + k - 1]
    BY <1>1, <2>1, SubSeqProperties
  <2>. QED  BY <1>1, <2>2
<1>3. s2 \in Seq(S) /\ Len(s2) = n - m /\ \A k \in 1 .. n - m : s2[k] = s[m + k]
  <2>1. \A k \in m + 1 .. n : s[k] \in S
    BY <1>1
  <2>2. SubSeq(s, m + 1, n) \in Seq(S) /\ Len(SubSeq(s, m + 1, n)) = (IF m + 1 <= n THEN n - (m + 1) + 1 ELSE 0)
        /\ \A k \in 1 .. n - (m + 1) + 1 : SubSeq(s, m + 1, n)[k] = s[m + 1 + k - 1]
    BY <1>1, <2>1, SubSeqProperties
  <2>. QED  BY <1>1, <2>2
<1>4. RemoveAt(s, m) = s1 \o s2
  BY DEF RemoveAt
<1>. HIDE DEF s1, s2, n
<1>5. /\ s1 \o s2 \in Seq(S) /\ Len(s1 \o s2) = (m - 1) + (n - m)
      /\ \A k \in 1 .. (m - 1) + (n - m) : (s1 \o s2)[k] = IF k <= m - 1 THEN s1[k] ELSE s2[k - (m - 1)]
  <2>1. s1 \in Seq(S) /\ s2 \in Seq(S)
    BY <1>2, <1>3
  <2>2. /\ s1 \o s2 \in Seq(S) /\ Len(s1 \o s2) = Len(s1) + Len(s2)
        /\ \A k \in 1 .. Len(s1) + Len(s2) : (s1 \o s2)[k] = IF k <= Len(s1) THEN s1[k] ELSE s2[k - Len(s1)]
    BY <2>1, ConcatProperties
  <2>. QED  BY <1>2, <1>3, <2>2, Zenon
<1>6. ASSUME NEW k \in 1 .. n - 1 PROVE (s1 \o s2)[k] = s[IF k < m THEN k ELSE k + 1]
  <2>1. k \in 1 .. (m - 1) + (n - m)
    BY <1>1
  <2>2. CASE k < m
    <3>1. k \in 1 .. m - 1 /\ k <= m - 1
      BY <1>1, <2>2
    <3>. QED  BY <1>2, <1>5, <2>1, <2>2, <3>1
  <2>3. CASE ~(k < m)
    <3>1. k - (m - 1) \in 1 .. n - m /\ ~(k <= m - 1) /\ m + (k - (m - 1)) = k + 1
      BY <1>1, <2>3
    <3>. QED  BY <1>3, <1>5, <2>1, <2>3, <3>1
  <2>. QED  BY <2>2, <2>3
<1>7. Len(s1 \o s2) = n - 1
  BY <1>1, <1>5
<1>. QED  BY <1>4, <1>5, <1>6, <1>7 DEF n

(* Only empty blocks are removed, and the others keep their order.         *)
LEMMA PruneStep == MapInv /\ Prune => MapInv'
<1>0. SUFFICES ASSUME MapInv, Prune PROVE MapInv'
  OBVIOUS
<1>. UNCHANGED <<E820_Table, page_align, address, stage>> /\ MapType
  BY <1>0 DEF Prune, MapInv
<1>1. stage = "prune" /\ index' = index + 1
  BY <1>0 DEF Prune
<1>2. PICK n \in Nat : n = Len(table) /\ DOMAIN table = 1 .. n
  BY DEF MapType
<1>3. index \in 1 .. n
  BY <1>0, <1>2 DEF Prune, MapType
<1>4. CASE ~Empty(table[index])
  <2>1. table' = table
    BY <1>0, <1>4 DEF Prune
  <2>2. MapType'
    BY <1>1, <2>1 DEF MapType
  <2>3. InOrder' /\ Backed' /\ Behind' /\ Gathered'
    BY <1>0, <1>1, <2>1, SameTable DEF MapInv, InOrder, Precedes, Backed, Listed, Behind, Gathered
  <2>4. PageWise' /\ Kept'
    BY <1>0, <1>1, <2>1, SameTable DEF MapInv, PageWise, Passed, IsPages, Kept, Unit, Listed
  <2>. QED  BY <2>2, <2>3, <2>4 DEF MapInv
<1>5. CASE Empty(table[index])
  <2>. DEFINE old(k) == IF k < index THEN k ELSE k + 1
  <2>1. table' = RemoveAt(table, index)
    BY <1>0, <1>5 DEF Prune
  <2>2. /\ table' \in Seq(MapBlock) /\ DOMAIN table' = 1 .. n - 1
        /\ \A k \in 1 .. n - 1 : table'[k] = table[old(k)]
    BY <1>2, <1>3, <2>1, Removed DEF MapType
  <2>3. \A k \in 1 .. n - 1 : old(k) \in 1 .. n
    BY <1>3
  <2>4. \A k, l \in 1 .. n - 1 : k < l => old(k) < old(l)
    BY <1>3
  <2>5. \A k \in 1 .. n : k # index => \E l \in 1 .. n - 1 : k = old(l)
    <3>1. ASSUME NEW k \in 1 .. n, k # index PROVE \E l \in 1 .. n - 1 : k = old(l)
      <4>1. CASE k < index
        <5>1. k \in 1 .. n - 1 /\ old(k) = k
          BY <1>3, <4>1
        <5>. QED  BY <5>1
      <4>2. CASE k > index
        <5>1. k - 1 \in 1 .. n - 1 /\ old(k - 1) = k
          BY <1>3, <4>2
        <5>. QED  BY <5>1
      <4>. QED  BY <1>3, <3>1, <4>1, <4>2
    <3>. QED  BY <3>1
  <2>. HIDE DEF old
  <2>6. \A k \in 1 .. n - 1 : Listed(k)' = Listed(old(k))
    BY <2>2 DEF Listed
  <2>7. MapType'
    BY <1>1, <2>2 DEF MapType
  <2>8. InOrder'
    <3>1. SUFFICES ASSUME NEW k \in 1 .. n - 1, NEW l \in 1 .. n - 1, k < l,
                          table'[k].size > 0, table'[l].size > 0
                   PROVE  Precedes(table[k], table[l])'
      BY <2>2 DEF InOrder
    <3>2. table'[k] = table[old(k)] /\ table'[l] = table[old(l)] /\ old(k) < old(l)
      BY <2>2, <2>4, <3>1
    <3>3. old(k) \in DOMAIN table /\ old(l) \in DOMAIN table
      BY <1>2, <2>3
    <3>4. Precedes(table[old(k)], table[old(l)])
      BY <1>0, <3>1, <3>2, <3>3 DEF MapInv, InOrder
    <3>. QED  BY <3>2, <3>4, SameTable DEF Precedes
  <2>9. Backed'
    <3>1. \A k \in 1 .. n : Listed(k) \subseteq Available
      BY <1>0, <1>2 DEF MapInv, Backed
    <3>. QED  BY <2>2, <2>3, <2>6, <3>1, SameTable DEF Backed
  <2>10. Behind' /\ Gathered'
    BY <1>1 DEF Behind, Gathered
  <2>11. PageWise'
    <3>1. page_align => \A k \in 1 .. n : IsPages(table[k])
      BY <1>0, <1>1, <1>2 DEF MapInv, PageWise, Passed
    <3>. QED  BY <1>1, <2>2, <2>3, <3>1 DEF PageWise, IsPages
  <2>12. ASSUME Sorted, NEW a \in Available, Unit(a) \subseteq Available
         PROVE  \E l \in 1 .. n - 1 : Unit(a) \subseteq Listed(l)'
    <3>1. PICK k \in 1 .. n : Unit(a) \subseteq Listed(k)
      BY <1>0, <1>1, <1>2, <2>12 DEF MapInv, Kept
    <3>2. a \in Nat
      BY InEntry DEF MapType
    <3>3. a \in Unit(a)
      <4>1. a \in PageOf(a)
        BY <3>2, Rounding, PageAssumption DEF PageOf, Bytes
      <4>. QED  BY <4>1 DEF Unit
    <3>4. Listed(index) = {}
      <4>1. table[index].size = 0 /\ table[index].address \in Nat
        <5>1. table[index] \in MapBlock
          BY <1>2, <1>3 DEF MapType
        <5>. QED  BY <1>5, <5>1 DEF Empty, MapBlock
      <4>. QED  BY <4>1 DEF Listed, Bytes
    <3>5. PICK l \in 1 .. n - 1 : k = old(l)
      BY <2>5, <3>1, <3>3, <3>4
    <3>. QED  BY <2>6, <3>1, <3>5
  <2>13. Kept'
    <3>1. \A a : Unit(a)' = Unit(a)
      BY DEF Unit
    <3>. QED  BY <1>1, <2>2, <2>12, <3>1, SameTable DEF Kept
  <2>. QED  BY <2>7, <2>8, <2>9, <2>10, <2>11, <2>13 DEF MapInv
<1>. QED  BY <1>4, <1>5

(* The table is finished.                                                  *)
LEMMA PrunedStep == MapInv /\ Pruned => MapInv'
<1>0. SUFFICES ASSUME MapInv, Pruned PROVE MapInv'
  OBVIOUS
<1>. UNCHANGED <<E820_Table, page_align, table, address, index>> /\ MapType
  BY <1>0 DEF Pruned, MapInv
<1>1. stage = "prune" /\ stage' = "done"
  BY <1>0 DEF Pruned
<1>2. MapType'
  BY <1>1 DEF MapType
<1>3. InOrder' /\ Backed' /\ Behind' /\ Gathered'
  BY <1>0, <1>1, SameTable DEF MapInv, InOrder, Precedes, Backed, Listed, Behind, Gathered
<1>4. PageWise' /\ Kept'
  BY <1>0, <1>1, SameTable DEF MapInv, PageWise, Passed, IsPages, Kept, Unit, Listed
<1>. QED  BY <1>2, <1>3, <1>4 DEF MapInv

(* An empty table, as both calls of Memory_StoreInfo begin with.           *)
LEMMA StartStep ==
  ASSUME MapInv, NEW align \in BOOLEAN, Memory_StoreInfo(align)
  PROVE  MapInv'
<1>. /\ page_align' = align /\ table' = << >> /\ address' = 0 /\ index' = 1 /\ stage' = "collect"
     /\ UNCHANGED E820_Table /\ MapType
  BY DEF Memory_StoreInfo, MapInv
<1>1. MapType'
  BY DEF MapType
<1>2. DOMAIN table' = {}
  OBVIOUS
<1>3. InOrder' /\ Backed' /\ Behind' /\ PageWise' /\ Kept'
  BY <1>2 DEF InOrder, Backed, Behind, PageWise, Kept, Passed
<1>4. Gathered'
  <2>1. \A e \in AvailableEntries : ~(e.base < 0)
    BY InEntry DEF MapType
  <2>. QED  BY <1>2, <2>1, SameTable DEF Gathered
<1>. QED  BY <1>1, <1>3, <1>4 DEF MapInv

(* Nothing but the calls of Memory_StoreInfo and its steps changes its     *)
(* state.                                                                  *)
LEMMA MapSteps == [Next]_vars => \/ UNCHANGED storevars
                                 \/ \E align \in BOOLEAN : Memory_StoreInfo(align)
                                 \/ StoreStep
<1>1. SUFFICES ASSUME Next
               PROVE  UNCHANGED storevars \/ (\E align \in BOOLEAN : Memory_StoreInfo(align)) \/ StoreStep
  BY DEF vars, given
<1>. USE DEF given, Fails
<1>2. CASE SaveE820Map \/ StoreMap \/ SaveRAMMap
  BY <1>2 DEF SaveE820Map, StoreMap, SaveRAMMap
<1>3. CASE CreateEmptyMBI \/ SavePagesMap \/ NoKernelFile \/ FindKernelFile \/ ReadBlock \/ KernelFileLoaded
  BY <1>3 DEF CreateEmptyMBI, SavePagesMap, NoKernelFile, FindKernelFile, ReadBlock, KernelFileLoaded
<1>4. CASE LoadKernel \/ ReadTag \/ NoMoreTags \/ PlaceKernel
  BY <1>4 DEF LoadKernel, ReadTag, NoMoreTags, PlaceKernel
<1>5. CASE MoveKernel \/ LoadSegment \/ SegmentsLoaded \/ CleanUp
  BY <1>5 DEF MoveKernel, LoadSegment, SegmentsLoaded, CleanUp
<1>6. CASE NoHeader \/ NoModuleList \/ NoModules \/ LoadModule
  BY <1>6 DEF NoHeader, NoModuleList, NoModules, LoadModule
<1>7. CASE SaveInfo \/ NoGraphics \/ SaveVBE \/ SaveFramebuffer
  BY <1>7 DEF SaveInfo, NoGraphics, SaveVBE, SaveFramebuffer
<1>8. CASE AskCommand \/ EditCommand \/ SaveCommand
  BY <1>8 DEF AskCommand, EditCommand, SaveCommand
<1>. QED  BY <1>1, <1>2, <1>3, <1>4, <1>5, <1>6, <1>7, <1>8 DEF Next

(* MapInv is inductive: Memory_StoreInfo keeps it through every round of   *)
(* its loops, for every memory map of the BIOS and every page size.        *)
THEOREM MapInvariance == Spec => []MapInv
<1>1. Init => MapInv
  <2>1. SUFFICES ASSUME Init PROVE MapInv
    OBVIOUS
  <2>2. E820_Table \in Seq(MapEntry)
    <3>1. scenario.bios \in Seq(E820_Entry)
      BY <2>1, ScenarioAssumption DEF Init
    <3>. QED  BY <2>1, <3>1, StoredEntries DEF Init
  <2>3. page_align = FALSE /\ table = << >> /\ address = 0 /\ index = 1 /\ stage = "idle"
    BY <2>1 DEF Init, Idle
  <2>4. MapType
    <3>1. table \in Seq(MapBlock) /\ address \in Nat /\ index \in Nat \ {0} /\ stage \in {"idle"}
      BY <2>3
    <3>2. page_align \in BOOLEAN
      BY <2>3
    <3>. QED  BY <2>2, <3>1, <3>2 DEF MapType
  <2>5. DOMAIN table = {}
    BY <2>3
  <2>. QED  BY <2>3, <2>4, <2>5 DEF MapInv, InOrder, Backed, Behind, PageWise, Gathered, Kept
<1>2. MapInv /\ [Next]_vars => MapInv'
  <2>1. SUFFICES ASSUME MapInv, [Next]_vars PROVE MapInv'
    OBVIOUS
  <2>2. CASE UNCHANGED storevars
    <3>1. /\ E820_Table' = E820_Table /\ page_align' = page_align /\ table' = table
          /\ address' = address /\ index' = index /\ stage' = stage
      BY <2>2 DEF storevars
    <3>2. MapType' /\ InOrder' /\ Backed' /\ Behind' /\ PageWise'
      BY <2>1, <3>1, SameTable DEF MapInv, MapType, InOrder, Precedes, Backed, Listed, Behind, PageWise, Passed, IsPages
    <3>3. Gathered'
      BY <2>1, <3>1, SameTable DEF MapInv, Gathered, Listed
    <3>4. Kept'
      BY <2>1, <3>1, SameTable DEF MapInv, Kept, Unit, Listed
    <3>. QED  BY <3>2, <3>3, <3>4 DEF MapInv
  <2>3. CASE \E align \in BOOLEAN : Memory_StoreInfo(align)
    BY <2>1, <2>3, StartStep
  <2>4. CASE StoreStep
    BY <2>1, <2>4, CollectStep, CollectedStep, AlignStep, AlignedStep, PruneStep, PrunedStep DEF StoreStep
  <2>. QED  BY <2>1, <2>2, <2>3, <2>4, MapSteps
<1>. QED  BY <1>1, <1>2, PTL DEF Spec

(* From overlapping, nested, adjacent and unordered entries alike,         *)
(* Memory_StoreInfo makes blocks that do not overlap, are in order, list   *)
(* available memory only, and are whole pages if that was asked for; from  *)
(* a sorted table they do not touch either.                                *)
THEOREM MapIsSound == Spec => []BlocksSound
<1>1. MapInv => BlocksSound
  <2>1. SUFFICES ASSUME MapInv, stage = "done" PROVE BlocksSound
    BY DEF BlocksSound
  <2>2. AllListed \subseteq Available
    BY <2>1 DEF MapInv, Backed, AllListed
  <2>3. page_align => \A k \in DOMAIN table : table[k].address % PageSize = 0 /\ table[k].size % PageSize = 0
    BY <2>1 DEF MapInv, PageWise, Passed, IsPages
  <2>. QED  BY <2>1, <2>2, <2>3 DEF BlocksSound, MapInv, InOrder
<1>. QED  BY <1>1, MapInvariance, PTL

(* From a sorted map Memory_StoreInfo loses nothing: every available       *)
(* address is listed, or with page_align every available page.             *)
THEOREM MapIsComplete == Spec => []NothingLost
<1>1. MapInv => NothingLost
  <2>1. SUFFICES ASSUME MapInv, stage = "done", Sorted, NEW a \in Available,
                        page_align => PageOf(a) \subseteq Available
                 PROVE  a \in AllListed
    BY DEF NothingLost
  <2>2. a \in Nat
    BY <2>1, InEntry DEF MapInv, MapType
  <2>3. Unit(a) \subseteq Available /\ a \in Unit(a)
    <3>1. a \in PageOf(a)
      BY <2>2, Rounding, PageAssumption DEF PageOf, Bytes
    <3>. QED  BY <2>1, <3>1 DEF Unit
  <2>4. PICK k \in DOMAIN table : Unit(a) \subseteq Listed(k)
    BY <2>1, <2>3 DEF MapInv, Kept
  <2>. QED  BY <2>3, <2>4 DEF AllListed
<1>. QED  BY <1>1, MapInvariance, PTL

-----------------------------------------------------------------------------
(* The search for free memory.                                             *)

(* The sums of the first values of f.                                      *)
SumRow(f, n, s) == s \in [0 .. n -> Nat] /\ s[0] = 0 /\ \A k \in 1 .. n : s[k] = s[k - 1] + f[k]

(* SumTo is the last of them.                                              *)
LEMMA SumToDef ==
  ASSUME NEW n \in Nat, NEW f, \A k \in 1 .. n : f[k] \in Nat
  PROVE  \E s : SumRow(f, n, s) /\ SumTo(f, n) = s[n]
<1>. DEFINE Step == [k \in 1 .. n |-> [x \in Nat |-> x + f[k]]]
            Body(s) == [k \in 0 .. n |-> IF k = 0 THEN 0 ELSE s[k - 1] + f[k]]
            g == CHOOSE s : s = Body(s)
<1>1. SumTo(f, n) = g[n]
  BY DEF SumTo
<1>2. Step \in [1 .. n -> [Nat -> Nat]]
  OBVIOUS
<1>3. PICK s \in [0 .. n -> Nat] : s[0] = 0 /\ \A k \in 1 .. n : s[k] = Step[k][s[k - 1]]
  <2>. DEFINE V == Nat
              N == n
              v == 0
  <2>1. N \in Nat /\ v \in V /\ Step \in [1 .. N -> [V -> V]]
    BY <1>2
  <2>. HIDE DEF Step, V, N, v
  <2>2. \E s \in [0 .. N -> V] : s[0] = v /\ \A k \in 1 .. N : s[k] = Step[k][s[k - 1]]
    BY ONLY <2>1, Iteration
  <2>. QED  BY <2>2 DEF V, N, v
<1>4. ASSUME NEW k \in 1 .. n PROVE k - 1 \in 0 .. n /\ s[k] = s[k - 1] + f[k]
  <2>1. k - 1 \in 0 .. n
    OBVIOUS
  <2>. QED  BY <1>3, <2>1
<1>5. s = Body(s)
  <2>1. \A k \in 0 .. n : s[k] = Body(s)[k]
    <3>1. ASSUME NEW k \in 0 .. n PROVE s[k] = Body(s)[k]
      <4>1. CASE k = 0
        BY <1>3, <4>1
      <4>2. CASE k # 0
        <5>1. k \in 1 .. n
          BY <4>2
        <5>. QED  BY <1>4, <4>2, <5>1
      <4>. QED  BY <4>1, <4>2
    <3>. QED  BY <3>1
  <2>. QED  BY <2>1
<1>6. g = Body(g)
  <2>. HIDE DEF Body
  <2>. QED  BY <1>5
<1>. HIDE DEF g
<1>7. g[0] = 0 /\ \A k \in 1 .. n : g[k] = g[k - 1] + f[k]
  <2>1. \A k \in 0 .. n : g[k] = Body(g)[k]
    <3>. HIDE DEF Body
    <3>. QED  BY <1>6
  <2>2. 0 \in 0 .. n /\ \A k \in 1 .. n : k \in 0 .. n /\ k # 0
    OBVIOUS
  <2>. QED  BY <2>1, <2>2
<1>8. 0 .. n \subseteq {k \in Nat : k <= n => g[k] \in Nat}
  <2>. DEFINE S == {k \in Nat : k <= n => g[k] \in Nat}
  <2>1. 0 \in S
    BY <1>7
  <2>2. ASSUME NEW k \in S, k < n PROVE k + 1 \in S
    <3>1. k + 1 \in 1 .. n /\ (k + 1) - 1 = k /\ g[k] \in Nat
      BY <2>2
    <3>. QED  BY <1>7, <3>1
  <2>3. S \in SUBSET Nat
    OBVIOUS
  <2>. HIDE DEF S
  <2>4. 0 .. n \subseteq S
    BY <2>1, <2>2, <2>3, InductionTo
  <2>. QED  BY <2>4 DEF S
<1>9. g \in [0 .. n -> Nat]
  <2>1. g = [k \in 0 .. n |-> g[k]]
    <3>1. g = [k \in 0 .. n |-> IF k = 0 THEN 0 ELSE g[k - 1] + f[k]]
      BY <1>6
    <3>. QED  BY <3>1
  <2>2. \A k \in 0 .. n : g[k] \in Nat
    BY <1>8
  <2>. QED  BY <2>1, <2>2
<1>. QED  BY <1>1, <1>7, <1>9 DEF SumRow

(* One value more.                                                         *)
LEMMA SumToNext ==
  ASSUME NEW n \in Nat, NEW f, \A k \in 1 .. n : f[k] \in Nat
  PROVE  /\ SumTo(f, n) \in Nat
         /\ n = 0 => SumTo(f, n) = 0
         /\ n > 0 => SumTo(f, n) = SumTo(f, n - 1) + f[n]
<1>1. PICK s : SumRow(f, n, s) /\ SumTo(f, n) = s[n]
  BY SumToDef
<1>2. SumTo(f, n) \in Nat /\ (n = 0 => SumTo(f, n) = 0)
  BY <1>1 DEF SumRow
<1>3. ASSUME n > 0 PROVE SumTo(f, n) = SumTo(f, n - 1) + f[n]
  <2>1. n - 1 \in Nat /\ \A k \in 1 .. n - 1 : f[k] \in Nat
    BY <1>3
  <2>2. PICK r : SumRow(f, n - 1, r) /\ SumTo(f, n - 1) = r[n - 1]
    BY <2>1, SumToDef
  <2>. DEFINE S == {k \in Nat : k <= n - 1 => r[k] = s[k]}
  <2>3. 0 \in S
    BY <1>1, <2>2 DEF SumRow
  <2>4. ASSUME NEW k \in S, k < n - 1 PROVE k + 1 \in S
    <3>1. k + 1 \in 1 .. n /\ k + 1 \in 1 .. n - 1 /\ (k + 1) - 1 = k /\ r[k] = s[k]
      BY <2>1, <2>4
    <3>. QED  BY <1>1, <2>2, <3>1 DEF SumRow
  <2>5. S \in SUBSET Nat
    OBVIOUS
  <2>6. r[n - 1] = s[n - 1]
    <3>. HIDE DEF S
    <3>1. 0 .. n - 1 \subseteq S
      BY <2>1, <2>3, <2>4, <2>5, InductionTo
    <3>. QED  BY <2>1, <3>1 DEF S
  <2>7. n \in 1 .. n
    BY <1>3
  <2>. QED  BY <1>1, <2>2, <2>6, <2>7 DEF SumRow
<1>. QED  BY <1>2, <1>3

(* Each value lies between the sum before it and the whole.                *)
LEMMA SumToWithin ==
  ASSUME NEW n \in Nat, NEW f, \A k \in 1 .. n : f[k] \in Nat, NEW m \in 1 .. n
  PROVE  SumTo(f, m - 1) \in Nat /\ SumTo(f, m) = SumTo(f, m - 1) + f[m] /\ SumTo(f, m) <= SumTo(f, n)
<1>1. m \in Nat /\ m > 0 /\ m - 1 \in Nat
  OBVIOUS
<1>2. SumTo(f, m) = SumTo(f, m - 1) + f[m] /\ SumTo(f, m - 1) \in Nat
  BY <1>1, SumToNext
<1>. DEFINE S == {d \in Nat : m + d <= n => SumTo(f, m) <= SumTo(f, m + d)}
<1>3. 0 \in S
  BY <1>1, <1>2
<1>4. ASSUME NEW d \in S, d < n - m PROVE d + 1 \in S
  <2>1. m + (d + 1) \in Nat /\ m + (d + 1) > 0 /\ m + (d + 1) <= n /\ (m + (d + 1)) - 1 = m + d
    BY <1>4
  <2>2. SumTo(f, m + (d + 1)) = SumTo(f, m + d) + f[m + (d + 1)]
    <3>1. \A k \in 1 .. m + (d + 1) : f[k] \in Nat
      BY <2>1
    <3>. QED  BY <2>1, <3>1, SumToNext
  <2>3. SumTo(f, m + d) \in Nat /\ f[m + (d + 1)] \in Nat
    <3>1. m + d \in Nat /\ \A k \in 1 .. m + d : f[k] \in Nat
      BY <2>1
    <3>2. m + (d + 1) \in 1 .. n
      BY <2>1
    <3>. QED  BY <3>1, <3>2, SumToNext
  <2>4. SumTo(f, m) <= SumTo(f, m + d)
    BY <1>4, <2>1
  <2>5. SumTo(f, m) \in Nat
    BY <1>1, SumToNext
  <2>. QED  BY <2>2, <2>3, <2>4, <2>5
<1>5. SumTo(f, m) <= SumTo(f, n)
  <2>1. S \in SUBSET Nat /\ n - m \in Nat
    OBVIOUS
  <2>. HIDE DEF S
  <2>2. 0 .. n - m \subseteq S
    BY <1>3, <1>4, <2>1, InductionTo
  <2>3. n - m \in S /\ m + (n - m) = n
    BY <2>1, <2>2
  <2>. QED  BY <2>3 DEF S
<1>. QED  BY <1>2, <1>5

(* The greatest of some naturals below a bound is one of them.             *)
LEMMA MaxOf ==
  ASSUME NEW S \in SUBSET Nat, S # {}, NEW n \in Nat, \A x \in S : x <= n
  PROVE  Max(S) \in S /\ \A x \in S : x <= Max(S)
<1>. DEFINE C == {n - x : x \in S}
            d == Min(C)
<1>1. C \in SUBSET Nat /\ C # {}
  <2>1. ASSUME NEW x \in S PROVE n - x \in Nat
    <3>1. x \in Nat /\ x <= n
      OBVIOUS
    <3>. QED  BY <3>1
  <2>. QED  BY <2>1
<1>2. d \in C /\ \A c \in C : d <= c
  <2>. HIDE DEF C
  <2>. QED  BY <1>1, MinOf
<1>. HIDE DEF d
<1>3. PICK m \in S : d = n - m
  BY <1>2
<1>4. \A x \in S : x <= m
  BY <1>2, <1>3
<1>. QED  BY <1>4 DEF Max

(* Addresses wrap at the end of the address space.                         *)
LEMMA Wrapping ==
  ASSUME NEW x \in Int
  PROVE  /\ AddressSpace \in Nat \ {0} /\ LIMIT \in Nat /\ Word \subseteq Nat
         /\ U32(x) \in Word
         /\ x \in Word => U32(x) = x
         /\ x - AddressSpace \in Word => U32(x) = x - AddressSpace
<1>1. AddressSpace \in Nat \ {0}
  BY MultibootAssumption
<1>2. ASSUME NEW n \in Nat \ {0}
      PROVE  /\ x % n \in 0 .. n - 1
             /\ x \in 0 .. n - 1 => x % n = x
             /\ x - n \in 0 .. n - 1 => x % n = x - n
  <2>1. x % n \in 0 .. n - 1
    OBVIOUS
  <2>2. ASSUME x \in 0 .. n - 1 PROVE x % n = x
    BY <2>2
  <2>3. ASSUME x - n \in 0 .. n - 1 PROVE x % n = x - n
    <3>1. x \in Nat /\ x - n \in 0 .. n - 1 /\ 1 \in Int /\ 1 * n + (x - n) = x
      BY <2>3
    <3>. QED  BY <3>1, CellUnique
  <2>. QED  BY <2>1, <2>2, <2>3
<1>3. /\ x % AddressSpace \in 0 .. AddressSpace - 1
      /\ x \in 0 .. AddressSpace - 1 => x % AddressSpace = x
      /\ x - AddressSpace \in 0 .. AddressSpace - 1 => x % AddressSpace = x - AddressSpace
  BY <1>1, <1>2, Zenon
<1>4. LIMIT \in Nat /\ Word \subseteq Nat
  BY <1>1 DEF Word, LIMIT
<1>. QED  BY <1>1, <1>3, <1>4, Zenon DEF U32, Word, LIMIT

(* What a 32-bit sum wraps to is a natural number.                         *)
LEMMA Wrapped == \A x \in Int : U32(x) \in Nat
  BY Wrapping

Aligned32(a, align) == align <= 1 \/ a % align = 0

(* What rounding an address computes before it wraps.                      *)
LEMMA Rounded ==
  ASSUME NEW a \in Nat, NEW n \in Nat, n > 1, a % n # 0
  PROVE  /\ n * (0 + (a \div n)) \in Nat /\ n * (1 + (a \div n)) \in Nat
         /\ n * (0 + (a \div n)) <= a /\ a < n * (1 + (a \div n)) /\ n * (1 + (a \div n)) < a + n
         /\ (n * (0 + (a \div n))) % n = 0 /\ (n * (1 + (a \div n))) % n = 0
<1>. DEFINE q == a \div n
            r == a % n
<1>0. n \in Nat \ {0} /\ r # 0
  OBVIOUS
<1>1. q \in Nat /\ r \in 0 .. n - 1 /\ a = q * n + r
  BY <1>0, Division, Zenon
<1>. HIDE DEF q, r
<1>2. q * n \in Nat
  BY <1>1
<1>3. n * (0 + q) = q * n /\ n * (1 + q) = q * n + n
  BY <1>1
<1>4. ASSUME NEW d \in Nat, d * n \in Nat PROVE (d * n) % n = 0
  <2>1. d \in Int /\ 0 \in 0 .. n - 1 /\ d * n + 0 = d * n /\ n \in Nat \ {0}
    BY <1>4
  <2>. QED  BY <1>4, <2>1, CellUnique
<1>5. (n * (1 + q)) % n = 0
  <2>1. 1 + q \in Nat /\ (1 + q) * n \in Nat /\ (1 + q) * n = n * (1 + q)
    BY <1>1, <1>2
  <2>2. ((1 + q) * n) % n = 0
    BY <1>4, <2>1, Zenon
  <2>. QED  BY <2>1, <2>2, Zenon
<1>6. n * (0 + q) \in Nat /\ n * (1 + q) \in Nat /\ n * (0 + q) <= a /\ a < n * (1 + q) /\ n * (1 + q) < a + n
  BY <1>0, <1>1, <1>2, <1>3
<1>7. (n * (0 + q)) % n = 0
  BY <1>1, <1>2, <1>3, <1>4
<1>. QED  BY <1>5, <1>6, <1>7 DEF q

(* Rounding down never wraps; rounding up that does not end up lower has   *)
(* not wrapped, and does not wrap while there is room above.               *)
LEMMA AlignDown ==
  ASSUME NEW a \in Word, NEW n \in Nat
  PROVE  LET r == Memory_AlignAddress(a, n, FALSE) IN r \in Nat /\ r <= a /\ Aligned32(r, n)
<1>1. a \in Nat /\ a <= LIMIT /\ LIMIT \in Nat
  BY Wrapping DEF Word
<1>2. CASE n <= 1 \/ a % n = 0
  BY <1>1, <1>2 DEF Memory_AlignAddress, Aligned32
<1>3. CASE ~(n <= 1 \/ a % n = 0)
  <2>. DEFINE e == n * (0 + (a \div n))
  <2>1. e \in Nat /\ e <= a /\ e % n = 0
    <3>1. n > 1 /\ a % n # 0
      BY <1>3
    <3>. QED  BY <1>1, <3>1, Rounded, Zenon
  <2>2. Memory_AlignAddress(a, n, FALSE) = U32(e)
    BY <1>3 DEF Memory_AlignAddress
  <2>. HIDE DEF e
  <2>3. U32(e) = e
    <3>1. e \in Word
      BY <1>1, <2>1 DEF Word
    <3>. QED  BY <3>1, Wrapping DEF Word
  <2>. QED  BY <2>1, <2>2, <2>3 DEF Aligned32
<1>. QED  BY <1>2, <1>3

(* Rounding up gives a multiple, not below the address unless the sum      *)
(* wraps.                                                                  *)
LEMMA AlignUp ==
  ASSUME NEW a \in Nat, NEW n \in Nat
  PROVE  LET r == Memory_AlignAddress(a, n, TRUE) IN
         /\ r \in Nat
         /\ n <= 1 => r = a
         /\ a <= LIMIT /\ n <= LIMIT /\ r >= a => Aligned32(r, n)
         /\ a + n <= LIMIT => r >= a /\ Aligned32(r, n)
<1>1. LIMIT \in Nat /\ AddressSpace = LIMIT + 1
  BY Wrapping DEF LIMIT
<1>2. CASE n <= 1 \/ a % n = 0
  BY <1>1, <1>2 DEF Memory_AlignAddress, Aligned32
<1>3. CASE ~(n <= 1 \/ a % n = 0)
  <2>. DEFINE e == n * (1 + (a \div n))
              r == Memory_AlignAddress(a, n, TRUE)
  <2>1. e \in Nat /\ a < e /\ e < a + n /\ e % n = 0
    <3>1. n > 1 /\ a % n # 0
      BY <1>3
    <3>. QED  BY <3>1, Rounded, Zenon
  <2>2. r = U32(e)
    BY <1>3 DEF Memory_AlignAddress
  <2>. HIDE DEF e, r
  <2>3. r \in Word /\ (e \in Word => r = e) /\ (e - AddressSpace \in Word => r = e - AddressSpace)
    BY <2>1, <2>2, Wrapping
  <2>4. ASSUME a <= LIMIT, n <= LIMIT, r >= a PROVE r = e
    <3>1. e \in Word \/ e - AddressSpace \in Word
      BY <1>1, <2>1, <2>4 DEF Word
    <3>2. e - AddressSpace < a
      BY <1>1, <2>1, <2>4
    <3>3. CASE e \in Word
      BY <2>3, <3>3
    <3>4. CASE e - AddressSpace \in Word
      BY <1>1, <2>1, <2>3, <2>4, <3>2, <3>4
    <3>. QED  BY <3>1, <3>3, <3>4
  <2>5. ASSUME a + n <= LIMIT PROVE r = e
    <3>1. e \in Word
      BY <1>1, <2>1, <2>5 DEF Word
    <3>. QED  BY <2>3, <3>1
  <2>6. r \in Nat
    BY <2>3, Wrapping
  <2>7. r \in Nat /\ (n <= 1 => r = a)
    BY <1>3, <2>6
  <2>8. (a <= LIMIT /\ n <= LIMIT /\ r >= a) \/ a + n <= LIMIT => r >= a /\ Aligned32(r, n)
    BY <2>1, <2>4, <2>5 DEF Aligned32
  <2>. QED  BY <2>7, <2>8 DEF r
<1>. QED  BY <1>2, <1>3

(* A block and its part below the limit.                                   *)
LEMMA BlockTop ==
  ASSUME NEW b \in MapBlock, b.address < LIMIT
  PROVE  /\ b.address \in Nat /\ b.size \in Nat /\ Length(b) \in Nat /\ Top(b) \in Nat
         /\ Top(b) = b.address + Length(b) /\ Top(b) <= LIMIT /\ Top(b) <= b.address + b.size
<1>1. b.address \in Nat /\ b.size \in Nat /\ LIMIT \in Nat
  BY Wrapping DEF MapBlock
<1>. QED  BY <1>1 DEF Top, Length

(* The search ends with no place, with the aligned target in a block that  *)
(* holds it, or with the aligned base of a block that has room.            *)
LEMMA SearchResult ==
  ASSUME mmap \in Seq(MapBlock), NEW addr \in Nat, NEW above \in BOOLEAN, NEW size \in Nat, NEW align \in Nat,
         NEW R, R = Memory_FindBlockAddress(addr, above, size, align), R # LIMIT,
         NEW target, target = Memory_AlignAddress(IF above THEN addr ELSE addr - size, align, above)
  PROVE  /\ size > 0
         /\ IF above THEN addr # LIMIT /\ U32(addr + size) >= addr ELSE addr >= size
         /\ \E b \in MapBlock :
              /\ b \in Range(mmap) /\ b.address < LIMIT /\ Length(b) >= size
              /\ \/ R = target /\ Holds(b, target, size)
                 \/ /\ R = Memory_AlignAddress(ShiftedBase(b, above, size, target), align, above)
                    /\ R \in Nat /\ R >= b.address /\ Top(b) - R >= size /\ (above => R >= addr)
<1>. DEFINE At(b) == Memory_AlignAddress(ShiftedBase(b, above, size, target), align, above)
            usable == {b \in Range(mmap) : /\ b.address < LIMIT /\ Length(b) >= size
                                           /\ At(b) \in b.address .. Top(b) - 1}
            roomy == {At(b) : b \in {u \in usable : Top(u) - At(u) >= size}}
            others == {a \in roomy : IF above THEN a >= addr ELSE a < addr /\ a > 0}
            none == \/ size = 0
                    \/ above /\ (addr = LIMIT \/ U32(addr + size) < addr)
                    \/ ~above /\ (addr = 0 \/ addr < size)
<1>1. R = IF none THEN LIMIT
          ELSE IF \E b \in usable : Holds(b, target, size) THEN target
          ELSE IF others = {} THEN LIMIT
          ELSE IF above THEN Min(others) ELSE Max(others)
  BY DEF Memory_FindBlockAddress
<1>2. ~none
  BY <1>1
<1>3. size > 0 /\ IF above THEN addr # LIMIT /\ U32(addr + size) >= addr ELSE addr >= size
  <2>1. U32(addr + size) \in Nat
    BY Wrapping
  <2>. QED  BY <1>2, <2>1
<1>4. \A b \in Range(mmap) : b \in MapBlock
  BY DEF Range
<1>5. CASE \E b \in usable : Holds(b, target, size)
  <2>1. R = target
    BY <1>1, <1>2, <1>5
  <2>2. PICK b \in usable : Holds(b, target, size)
    BY <1>5
  <2>. HIDE DEF At
  <2>3. b \in MapBlock /\ b \in Range(mmap) /\ b.address < LIMIT /\ Length(b) >= size
    BY <1>4
  <2>. HIDE DEF none, usable
  <2>. QED  BY <1>3, <2>1, <2>2, <2>3
<1>6. CASE ~\E b \in usable : Holds(b, target, size)
  <2>. HIDE DEF At
  <2>1. others # {} /\ R = IF above THEN Min(others) ELSE Max(others)
    <3>. HIDE DEF none, usable, others
    <3>. QED  BY <1>1, <1>2, <1>6
  <2>2. \A b \in usable : At(b) \in Nat
    BY <1>4, BlockTop
  <2>3. others \in SUBSET Nat
    <3>. HIDE DEF usable
    <3>. QED  BY <2>2
  <2>4. R \in others
    <3>1. CASE above
      <4>1. R = Min(others)
        BY <2>1, <3>1
      <4>. HIDE DEF others
      <4>. QED  BY <2>1, <2>3, <4>1, MinOf
    <3>2. CASE ~above
      <4>1. R = Max(others)
        BY <2>1, <3>2
      <4>2. \A x \in others : x <= addr
        BY <2>3, <3>2
      <4>. HIDE DEF others
      <4>. QED  BY <2>1, <2>3, <4>1, <4>2, MaxOf
    <3>. QED  BY <3>1, <3>2
  <2>5. PICK b \in usable : R = At(b) /\ Top(b) - At(b) >= size
    BY <2>4
  <2>6. b \in MapBlock /\ b \in Range(mmap) /\ b.address < LIMIT /\ Length(b) >= size /\ At(b) \in b.address .. Top(b) - 1
    BY <1>4
  <2>7. R \in Nat /\ R >= b.address /\ Top(b) - R >= size /\ (above => R >= addr)
    <3>1. R \in Nat /\ R >= b.address
      BY <2>5, <2>6, BlockTop
    <3>2. above => R >= addr
      BY <2>4
    <3>. QED  BY <2>5, <3>1, <3>2
  <2>. HIDE DEF none, usable, others
  <2>8. R = Memory_AlignAddress(ShiftedBase(b, above, size, target), align, above)
    BY <2>5 DEF At
  <2>. QED  BY <1>3, <2>6, <2>7, <2>8
<1>. QED  BY <1>5, <1>6

(* The two directions of rounding and of the search.                       *)
RoundUp(a, n) == Memory_AlignAddress(a, n, TRUE)
RoundDown(a, n) == Memory_AlignAddress(a, n, FALSE)
FindUp(addr, size, align) == Memory_FindBlockAddress(addr, TRUE, size, align)
FindDown(addr, size, align) == Memory_FindBlockAddress(addr, FALSE, size, align)

(* SearchResult for each direction.                                        *)
LEMMA SearchUp ==
  ASSUME mmap \in Seq(MapBlock), NEW addr \in Nat, NEW size \in Nat, NEW align \in Nat,
         NEW R, R = FindUp(addr, size, align), R # LIMIT
  PROVE  /\ size > 0 /\ addr # LIMIT /\ U32(addr + size) >= addr
         /\ \E b \in MapBlock :
              /\ b \in Range(mmap) /\ b.address < LIMIT /\ Length(b) >= size
              /\ \/ R = RoundUp(addr, align) /\ Holds(b, R, size)
                 \/ R = RoundUp(b.address, align) /\ R \in Nat /\ R >= b.address /\ Top(b) - R >= size /\ R >= addr
<1>1. PICK above \in BOOLEAN : above = TRUE
  OBVIOUS
<1>2. R = Memory_FindBlockAddress(addr, above, size, align)
  BY <1>1, Zenon DEF FindUp
<1>3. Memory_AlignAddress(IF above THEN addr ELSE addr - size, align, above) = RoundUp(addr, align)
  <2>1. (IF above THEN addr ELSE addr - size) = addr
    BY <1>1
  <2>. QED  BY <1>1, <2>1, Zenon DEF RoundUp
<1>4. ASSUME NEW b
      PROVE  Memory_AlignAddress(ShiftedBase(b, above, size, RoundUp(addr, align)), align, above) = RoundUp(b.address, align)
  <2>1. ShiftedBase(b, above, size, RoundUp(addr, align)) = b.address
    BY <1>1 DEF ShiftedBase
  <2>. QED  BY <1>1, <2>1, Zenon DEF RoundUp
<1>5. PICK target : target = RoundUp(addr, align)
  OBVIOUS
<1>6. target = Memory_AlignAddress(IF above THEN addr ELSE addr - size, align, above)
  BY <1>3, <1>5, Zenon
<1>7. /\ size > 0
      /\ IF above THEN addr # LIMIT /\ U32(addr + size) >= addr ELSE addr >= size
      /\ \E b \in MapBlock :
           /\ b \in Range(mmap) /\ b.address < LIMIT /\ Length(b) >= size
           /\ \/ R = target /\ Holds(b, target, size)
              \/ /\ R = Memory_AlignAddress(ShiftedBase(b, above, size, target), align, above)
                 /\ R \in Nat /\ R >= b.address /\ Top(b) - R >= size /\ (above => R >= addr)
  BY <1>2, <1>6, SearchResult
<1>. QED  BY <1>1, <1>4, <1>5, <1>7

(* The same for the search from the top of memory down.                    *)
LEMMA SearchDown ==
  ASSUME mmap \in Seq(MapBlock), NEW addr \in Nat, NEW size \in Nat, NEW align \in Nat,
         NEW R, R = FindDown(addr, size, align), R # LIMIT
  PROVE  LET target == RoundDown(addr - size, align) IN
         /\ size > 0 /\ addr >= size
         /\ \E b \in MapBlock :
              /\ b \in Range(mmap) /\ b.address < LIMIT /\ Length(b) >= size
              /\ \/ R = target
                 \/ R = RoundDown(IF Top(b) - size >= target THEN target ELSE Top(b) - size, align)
<1>. DEFINE target == RoundDown(addr - size, align)
<1>1. PICK above \in BOOLEAN : above = FALSE
  OBVIOUS
<1>2. R = Memory_FindBlockAddress(addr, above, size, align)
  BY <1>1, Zenon DEF FindDown
<1>3. Memory_AlignAddress(IF above THEN addr ELSE addr - size, align, above) = target
  <2>1. (IF above THEN addr ELSE addr - size) = addr - size
    BY <1>1
  <2>. QED  BY <1>1, <2>1, Zenon DEF RoundDown
<1>. HIDE DEF target
<1>4. ASSUME NEW b
      PROVE  Memory_AlignAddress(ShiftedBase(b, above, size, target), align, above)
                 = RoundDown(IF Top(b) - size >= target THEN target ELSE Top(b) - size, align)
  <2>1. ShiftedBase(b, above, size, target) = IF Top(b) - size >= target THEN target ELSE Top(b) - size
    BY <1>1 DEF ShiftedBase
  <2>. QED  BY <1>1, <2>1, Zenon DEF RoundDown
<1>. QED  BY <1>1, <1>2, <1>3, <1>4, SearchResult DEF target

(* Without an alignment, what is found upwards is available memory, below  *)
(* the limit.                                                              *)
LEMMA FoundFree ==
  ASSUME mmap \in Seq(MapBlock), NEW addr \in Nat, NEW size \in Nat, NEW R,
         R = FindUp(addr, size, 1), R # LIMIT
  PROVE  R \in Nat /\ R + size <= LIMIT /\ \A a \in Region(R, size) : Free(a)
<1>. DEFINE target == RoundUp(addr, 1)
<1>1. target = addr
  BY DEF RoundUp, Memory_AlignAddress
<1>2. size > 0 /\ U32(addr + size) >= addr
  BY SearchUp
<1>3. PICK b \in MapBlock :
        /\ b \in Range(mmap) /\ b.address < LIMIT /\ Length(b) >= size
        /\ \/ R = target /\ Holds(b, target, size)
           \/ R \in Nat /\ R >= b.address /\ Top(b) - R >= size
  BY SearchUp
<1>. HIDE DEF target
<1>4. /\ b.address \in Nat /\ b.size \in Nat /\ Length(b) \in Nat /\ Top(b) \in Nat
      /\ Top(b) = b.address + Length(b) /\ Top(b) <= LIMIT /\ Top(b) <= b.address + b.size
  BY <1>3, BlockTop
<1>5. LIMIT \in Nat /\ AddressSpace = LIMIT + 1
  BY Wrapping DEF LIMIT
<1>6. U32(addr + size) = addr + size
  <2>1. /\ U32(addr + size) \in Word
        /\ addr + size \in Word => U32(addr + size) = addr + size
        /\ (addr + size) - AddressSpace \in Word => U32(addr + size) = (addr + size) - AddressSpace
    BY Wrapping
  <2>2. addr <= LIMIT /\ size <= LIMIT
    BY <1>2, <1>3, <1>4, <1>5, <2>1 DEF Word
  <2>3. addr + size \in Word \/ (addr + size) - AddressSpace \in Word
    BY <1>5, <2>2 DEF Word
  <2>. QED  BY <1>2, <1>5, <2>1, <2>2, <2>3
<1>7. R \in Nat /\ R >= b.address /\ R + size <= Top(b)
  <2>1. CASE R = target /\ Holds(b, target, size)
    BY <1>1, <1>4, <1>6, <2>1 DEF Holds
  <2>2. CASE R \in Nat /\ R >= b.address /\ Top(b) - R >= size
    BY <1>4, <2>2
  <2>. QED  BY <1>3, <2>1, <2>2
<1>8. ASSUME NEW a \in Region(R, size) PROVE Free(a)
  <2>1. R \in Int /\ size \in Int /\ a \in R .. R + size - 1
    BY <1>7 DEF Region
  <2>2. a \in Int /\ R <= a /\ a < R + size
    BY <2>1
  <2>3. ASSUME NEW lo \in Nat, NEW n \in Nat, NEW t \in Nat, R >= lo, R + size <= t, t <= lo + n
        PROVE  a \in lo .. lo + n - 1
    BY <1>7, <2>2, <2>3
  <2>4. a \in b.address .. b.address + b.size - 1
    BY <1>4, <1>7, <2>3, Zenon
  <2>. QED  BY <1>3, <2>4 DEF Free
<1>. QED  BY <1>4, <1>5, <1>7, <1>8

(* Upwards, what is found is not below the address and is aligned, if the  *)
(* address can be rounded up.                                              *)
LEMMA FoundAbove ==
  ASSUME mmap \in Seq(MapBlock), NEW addr \in Nat, NEW size \in Nat, NEW align \in Nat, NEW R,
         R = FindUp(addr, size, align), R # LIMIT
  PROVE  R \in Nat /\ (addr + align <= LIMIT => R >= addr /\ Aligned32(R, align))
<1>. DEFINE target == RoundUp(addr, align)
<1>1. target \in Nat /\ (addr + align <= LIMIT => target >= addr /\ Aligned32(target, align))
  BY AlignUp DEF RoundUp
<1>2. PICK b \in MapBlock :
        /\ b.address < LIMIT
        /\ \/ R = target
           \/ /\ R = RoundUp(b.address, align)
              /\ R \in Nat /\ R >= b.address /\ R >= addr
  BY SearchUp
<1>. HIDE DEF target
<1>3. CASE R = target
  BY <1>1, <1>3
<1>4. CASE /\ R = RoundUp(b.address, align)
           /\ R \in Nat /\ R >= b.address /\ R >= addr
  <2>2. b.address \in Nat /\ LIMIT \in Nat
    BY Wrapping DEF MapBlock
  <2>3. ASSUME addr + align <= LIMIT PROVE Aligned32(R, align)
    <3>1. b.address <= LIMIT /\ align <= LIMIT
      BY <1>2, <2>2, <2>3
    <3>. QED  BY <1>4, <2>2, <3>1, AlignUp DEF RoundUp
  <2>. QED  BY <1>4, <2>3
<1>. QED  BY <1>2, <1>3, <1>4

(* Downwards, what is found ends below the address and is aligned.         *)
LEMMA FoundBelow ==
  ASSUME mmap \in Seq(MapBlock), NEW addr \in Word, NEW size \in Nat, NEW align \in Nat, NEW R,
         R = FindDown(addr, size, align), R # LIMIT
  PROVE  R \in Nat /\ R + size <= addr /\ Aligned32(R, align)
<1>. DEFINE target == RoundDown(addr - size, align)
            Base(b) == IF Top(b) - size >= target THEN target ELSE Top(b) - size
<1>0. addr \in Nat /\ addr <= LIMIT /\ LIMIT \in Nat
  BY Wrapping DEF Word
<1>1. addr >= size
  BY <1>0, SearchDown
<1>2. target \in Nat /\ target <= addr - size /\ Aligned32(target, align)
  <2>1. addr - size \in Word
    BY <1>0, <1>1 DEF Word
  <2>. QED  BY <2>1, AlignDown DEF RoundDown
<1>3. PICK b \in MapBlock :
        /\ b.address < LIMIT /\ Length(b) >= size
        /\ R = target \/ R = RoundDown(Base(b), align)
  BY <1>0, SearchDown
<1>. HIDE DEF target
<1>4. CASE R = target
  BY <1>0, <1>2, <1>4
<1>5. CASE R = RoundDown(Base(b), align)
  <2>. DEFINE base == Base(b)
  <2>1. Top(b) \in Nat /\ Top(b) >= size
    BY <1>3, BlockTop
  <2>2. base \in Nat /\ base <= target
    BY <1>2, <2>1
  <2>. HIDE DEF base
  <2>3. base \in Word
    BY <1>0, <1>2, <2>2 DEF Word
  <2>4. R \in Nat /\ R <= base /\ Aligned32(R, align)
    <3>1. R = RoundDown(base, align)
      BY <1>5 DEF base
    <3>. QED  BY <2>3, <3>1, AlignDown DEF RoundDown
  <2>. QED  BY <1>0, <1>1, <1>2, <2>2, <2>4
<1>. QED  BY <1>3, <1>4, <1>5

-----------------------------------------------------------------------------
(* Where the kernel file and the kernel are put.                           *)

KernelInfo == [start : Nat, size : Nat, bss_size : Nat, multiboot_header : Nat, entry : Nat,
               file_addr : Nat, file_size : Nat]
LoadLocals == [reloc : BOOLEAN, start_min : Nat, end_max : Nat, load_pref : Nat, start_align : Nat,
               load_info : BOOLEAN, load_start : Nat, entry : Nat]

FilePlaced == pc \in {"file", "kernel", "tags", "place"}
HasLocals == pc \in {"tags", "place"} \/ Placed

PlaceType == /\ scenario \in Scenarios
             /\ mmap \in Seq(MapBlock)
             /\ i \in Nat \ {0}
             /\ kernel_info \in KernelInfo
             /\ HasLocals => load \in LoadLocals /\ (load.reloc => load.end_max \in Word)

PlaceInv == PlaceType /\ WellPlaced

(* The lengths the loader adds up.                                         *)
LEMMA Sums ==
  ASSUME scenario \in Scenarios
  PROVE  /\ FileSize \in Nat /\ SizeOf(Len(segments)) \in Nat /\ BSSLike \in Nat
         /\ Len(scenario.blocks) = 1 => FileSize = scenario.blocks[1]
         /\ Len(segments) \in Nat
         /\ \A k \in 1 .. Len(segments) :
              /\ segments[k] \in [offset : Nat, filesz : Nat, memsz : Nat]
              /\ segments[k].filesz <= segments[k].memsz
              /\ SizeOf(k - 1) \in Nat /\ SizeOf(k - 1) + segments[k].memsz <= SizeOf(Len(segments))
<1>1. /\ scenario.blocks \in Seq(Nat)
      /\ segments \in Seq([offset : Nat, filesz : Nat, memsz : Nat])
      /\ \A k \in DOMAIN segments : segments[k].filesz <= segments[k].memsz
  BY ScenarioAssumption DEF segments
<1>2. FileSize \in Nat /\ (Len(scenario.blocks) = 1 => FileSize = scenario.blocks[1])
  <2>. DEFINE b == scenario.blocks
              n == Len(b)
  <2>1. n \in Nat /\ \A k \in 1 .. n : b[k] \in Nat
    BY <1>1
  <2>. HIDE DEF b, n
  <2>2. SumTo(b, n) \in Nat
    BY <2>1, SumToNext
  <2>3. ASSUME n = 1 PROVE SumTo(b, n) = b[1]
    <3>1. SumTo(b, 1) = SumTo(b, 1 - 1) + b[1] /\ b[1] \in Nat
      BY <2>1, <2>3, SumToNext
    <3>2. SumTo(b, 0) = 0
      BY SumToNext
    <3>. QED  BY <2>3, <3>1, <3>2
  <2>. QED  BY <2>2, <2>3 DEF FileSize, b, n
<1>. DEFINE n == Len(segments)
            f == [k \in DOMAIN segments |-> segments[k].memsz]
            g == [k \in DOMAIN segments |-> IF segments[k].filesz = 0 THEN segments[k].memsz ELSE 0]
<1>3. n \in Nat /\ DOMAIN segments = 1 .. n
  BY <1>1
<1>4. ASSUME NEW k \in 1 .. n
      PROVE  segments[k] \in [offset : Nat, filesz : Nat, memsz : Nat] /\ segments[k].filesz <= segments[k].memsz
  BY <1>1, <1>3, ElementOfSeq
<1>. HIDE DEF n
<1>5. \A k \in 1 .. n : f[k] \in Nat /\ g[k] \in Nat /\ f[k] = segments[k].memsz
  BY <1>3, <1>4
<1>. HIDE DEF f, g
<1>6. SumTo(f, n) \in Nat /\ SumTo(g, n) \in Nat
  BY <1>3, <1>5, SumToNext
<1>7. ASSUME NEW k \in 1 .. n PROVE SumTo(f, k - 1) \in Nat /\ SumTo(f, k - 1) + segments[k].memsz <= SumTo(f, n)
  BY <1>3, <1>5, SumToWithin
<1>8. \A k : SizeOf(k) = SumTo(f, k)
  BY DEF SizeOf, f
<1>9. BSSLike = SumTo(g, n)
  BY DEF BSSLike, g, n
<1>. QED  BY <1>2, <1>3, <1>4, <1>6, <1>7, <1>8, <1>9 DEF n

(* Where the header is found, or 0.                                        *)
LEMMA HeaderFound ==
  ASSUME NEW m, NEW start \in Nat, NEW size \in Nat
  PROVE  Multiboot_GetHeader(m, start, size) \in Word
<1>. DEFINE found == {k \in 0 .. size - 1 : k < HeaderLimit /\ m[U32(start + k)] = scenario.header}
<1>1. found \in SUBSET Nat
  OBVIOUS
<1>. HIDE DEF found
<1>2. CASE found = {}
  <2>1. 0 \in Word
    BY Wrapping DEF Word
  <2>. QED  BY <1>2, <2>1 DEF Multiboot_GetHeader, found
<1>3. CASE found # {}
  <2>1. Min(found) \in Nat
    BY <1>1, <1>3, MinOf
  <2>2. U32(start + Min(found)) \in Word
    BY <2>1, Wrapping
  <2>. QED  BY <1>3, <2>2 DEF Multiboot_GetHeader, found
<1>. QED  BY <1>2, <1>3

(* The kernel lies in the window it asked for, aligned.                    *)
InWindow == /\ kernel_info.start >= load.start_min
            /\ kernel_info.start + kernel_info.size <= load.end_max
            /\ RoundDown(kernel_info.start, load.start_align) = kernel_info.start

(* A step that leaves alone what the placement is about.                   *)
LEMMA QuietPlaceStep ==
  ASSUME PlaceInv, scenario' = scenario, mmap' = mmap, load' = load, i' \in Nat \ {0},
         kernel_info' \in KernelInfo,
         kernel_info'.start = kernel_info.start, kernel_info'.size = kernel_info.size,
         kernel_info'.file_addr = kernel_info.file_addr, kernel_info'.file_size = kernel_info.file_size,
         FilePlaced' => FilePlaced, Placed' => Placed, HasLocals' => HasLocals
  PROVE  PlaceInv'
<1>1. PlaceType'
  BY DEF PlaceInv, PlaceType
<1>2. \A a : Free(a)' <=> Free(a)
  BY DEF Free
<1>3. File' = File /\ Kernel' = Kernel
  BY DEF File, Kernel, Region
<1>4. (Fits' <=> Fits) /\ (NoWrap' <=> NoWrap) /\ (Lowest' <=> Lowest) /\ (Highest' <=> Highest)
  BY DEF Fits, NoWrap, Lowest, Highest, Moves
<1>5. FilePlaced' => \A a \in File' : Free(a)'
  BY <1>2, <1>3 DEF PlaceInv, WellPlaced, FilePlaced
<1>6. Placed' /\ Fits' => \A a \in Kernel' : Free(a)'
  BY <1>2, <1>3, <1>4 DEF PlaceInv, WellPlaced
<1>7. Placed' /\ Fits' /\ ((Lowest' /\ NoWrap') \/ Highest') => InWindow'
  <2>1. InWindow' <=> InWindow
    BY DEF InWindow
  <2>. QED  BY <1>4, <2>1 DEF PlaceInv, WellPlaced, InWindow, RoundDown
<1>. QED  BY <1>1, <1>5, <1>6, <1>7 DEF PlaceInv, WellPlaced, FilePlaced, InWindow, RoundDown

(* Where the kernel file goes.                                             *)
LEMMA FindKernelFileStep == PlaceInv /\ FindKernelFile => PlaceInv'
<1>0. SUFFICES ASSUME PlaceInv, FindKernelFile PROVE PlaceInv'
  OBVIOUS
<1>. DEFINE a == FindUp(MEMORY_HIGH_START, FileSize, 1)
<1>1. /\ kernel_info' = [kernel_info EXCEPT !.file_addr = a, !.file_size = FileSize]
      /\ pc' = IF a = LIMIT THEN "fail" ELSE "file"
      /\ scenario' = scenario /\ mmap' = mmap /\ i' = i
  BY <1>0 DEF FindKernelFile, FindUp, given
<1>2. MEMORY_HIGH_START \in Nat /\ FileSize \in Nat /\ mmap \in Seq(MapBlock) /\ LIMIT \in Nat
  BY <1>0, MultibootAssumption, Sums, Wrapping DEF PlaceInv, PlaceType, LIMIT
<1>. HIDE DEF a
<1>3. a \in Nat
  <2>1. CASE a = LIMIT
    BY <1>2, <2>1
  <2>2. CASE a # LIMIT
    BY <1>2, <2>2, FoundFree DEF a
  <2>. QED  BY <2>1, <2>2
<1>4. kernel_info' \in KernelInfo /\ kernel_info'.file_addr = a /\ kernel_info'.file_size = FileSize
  <2>1. kernel_info \in KernelInfo
    BY <1>0 DEF PlaceInv, PlaceType
  <2>. QED  BY <1>1, <1>2, <1>3, <2>1 DEF KernelInfo
<1>5. ~Placed' /\ ~HasLocals'
  BY <1>1 DEF Placed, HasLocals
<1>6. PlaceType'
  BY <1>0, <1>1, <1>4, <1>5 DEF PlaceInv, PlaceType
<1>7. ASSUME pc' = "file" PROVE \A x \in File' : Free(x)'
  <2>1. a # LIMIT
    BY <1>1, <1>7
  <2>2. \A x \in Region(a, FileSize) : Free(x)
    BY <1>2, <2>1, FoundFree DEF a
  <2>3. File' = Region(a, FileSize)
    BY <1>4 DEF File, Region
  <2>4. \A x : Free(x)' <=> Free(x)
    BY <1>1 DEF Free
  <2>. QED  BY <2>2, <2>3, <2>4
<1>8. pc' \in {"fail", "file"}
  BY <1>1
<1>. QED  BY <1>5, <1>6, <1>7, <1>8 DEF PlaceInv, WellPlaced

(* While the header is read the kernel file stays where it is.             *)
LEMMA HeaderStep ==
  ASSUME PlaceInv, FilePlaced, scenario' = scenario, mmap' = mmap, i' \in Nat \ {0},
         kernel_info' \in KernelInfo,
         kernel_info'.file_addr = kernel_info.file_addr, kernel_info'.file_size = kernel_info.file_size,
         ~Placed', HasLocals' => load' \in LoadLocals /\ (load'.reloc => load'.end_max \in Word)
  PROVE  PlaceInv'
<1>1. PlaceType'
  BY DEF PlaceInv, PlaceType
<1>2. \A a : Free(a)' <=> Free(a)
  BY DEF Free
<1>3. File' = File
  BY DEF File, Region
<1>. QED  BY <1>1, <1>2, <1>3 DEF PlaceInv, WellPlaced, FilePlaced

(* The locals of Multiboot_LoadKernel start from where the file is.        *)
LEMMA LoadKernelStep == PlaceInv /\ LoadKernel => PlaceInv'
<1>0. SUFFICES ASSUME PlaceInv, LoadKernel PROVE PlaceInv'
  OBVIOUS
<1>1. /\ pc = "kernel" /\ pc' = "tags" /\ scenario' = scenario /\ mmap' = mmap /\ i' = i
      /\ kernel_info' = [kernel_info EXCEPT !.size = IF IsELF(memory) THEN SizeOf(Len(segments)) ELSE FileSize,
                                            !.bss_size = IF IsELF(memory) THEN BSSLike ELSE 0]
      /\ load' = [reloc |-> FALSE, start_min |-> kernel_info.start, end_max |-> kernel_info.start + FileSize,
                  load_pref |-> 0, start_align |-> PageSize,
                  load_info |-> FALSE, load_start |-> kernel_info.file_addr, entry |-> LIMIT]
  BY <1>0 DEF LoadKernel, given
<1>2. /\ FileSize \in Nat /\ SizeOf(Len(segments)) \in Nat /\ BSSLike \in Nat /\ LIMIT \in Nat /\ PageSize \in Nat
      /\ kernel_info \in KernelInfo /\ kernel_info.start \in Nat /\ kernel_info.file_addr \in Nat
  BY <1>0, Sums, Wrapping, PageAssumption DEF PlaceInv, PlaceType, LIMIT, KernelInfo
<1>3. /\ kernel_info' \in KernelInfo
      /\ kernel_info'.file_addr = kernel_info.file_addr /\ kernel_info'.file_size = kernel_info.file_size
  BY <1>1, <1>2 DEF KernelInfo
<1>4. load' \in LoadLocals /\ ~load'.reloc
  BY <1>1, <1>2 DEF LoadLocals
<1>5. FilePlaced /\ ~Placed'
  BY <1>1 DEF FilePlaced, Placed
<1>6. i' \in Nat \ {0}
  BY <1>0, <1>1 DEF PlaceInv, PlaceType
<1>. QED  BY <1>0, <1>1, <1>3, <1>4, <1>5, <1>6, HeaderStep

(* Whatever the tags of the header say, the locals of Multiboot_LoadKernel *)
(* are words or sums of them.                                              *)
LEMMA ReadTagStep == PlaceInv /\ ReadTag => PlaceInv'
<1>0. SUFFICES ASSUME PlaceInv, ReadTag PROVE PlaceInv'
  OBVIOUS
<1>. DEFINE t == scenario.tags[i]
<1>1. /\ pc = "tags" /\ i <= Len(scenario.tags) /\ i' = i + 1
      /\ RelocatableTag(t) \/ AddressTag(t) \/ EntryTag(t)
      /\ scenario' = scenario /\ mmap' = mmap
  BY <1>0 DEF ReadTag, given
<1>2. t \in HeaderTag
  <2>1. scenario.tags \in Seq(HeaderTag) /\ i \in Nat \ {0}
    BY <1>0, ScenarioAssumption DEF PlaceInv, PlaceType
  <2>2. i \in 1 .. Len(scenario.tags)
    BY <1>1, <2>1
  <2>. QED  BY <2>1, <2>2, ElementOfSeq
<1>. HIDE DEF t
<1>3. /\ load \in LoadLocals /\ (load.reloc => load.end_max \in Word) /\ kernel_info \in KernelInfo
      /\ FileSize \in Nat /\ Word \subseteq Nat
  BY <1>0, <1>1, Sums, Wrapping DEF PlaceInv, PlaceType, HasLocals, LIMIT
<1>4. /\ kernel_info' \in KernelInfo
      /\ kernel_info'.file_addr = kernel_info.file_addr /\ kernel_info'.file_size = kernel_info.file_size
      /\ load' \in LoadLocals /\ (load'.reloc => load'.end_max \in Word)
      /\ pc' \in {"tags", "place", "fail"}
  <2>1. CASE RelocatableTag(t)
    <3>1. t.min_addr \in Word /\ t.max_addr \in Word /\ t.preference \in Word /\ t.align \in Word
      BY <1>2, <2>1 DEF HeaderTag, RelocatableTag
    <3>2. /\ load' = [load EXCEPT !.reloc = TRUE, !.start_min = t.min_addr, !.end_max = t.max_addr,
                                  !.load_pref = t.preference, !.start_align = t.align]
          /\ pc' = pc /\ kernel_info' = kernel_info
      BY <2>1 DEF RelocatableTag
    <3>3. load' \in LoadLocals /\ load'.end_max = t.max_addr
      BY <1>3, <3>1, <3>2 DEF LoadLocals
    <3>. QED  BY <1>1, <1>3, <3>1, <3>2, <3>3
  <2>2. CASE AddressTag(t)
    <3>. DEFINE header == Multiboot_GetHeader(memory, kernel_info.file_addr, FileSize)
                whole == t.load_addr = LIMIT
                start == IF whole THEN U32(t.header_addr - (header - kernel_info.file_addr)) ELSE t.load_addr
                size == IF t.load_end_addr = 0 THEN FileSize ELSE U32(t.load_end_addr - start)
                bss == IF t.bss_end_addr = 0 THEN 0 ELSE U32(t.bss_end_addr - (start + size))
                from == IF whole THEN kernel_info.file_addr ELSE U32(header - (t.header_addr - t.load_addr))
    <3>1. t.header_addr \in Nat /\ t.load_addr \in Nat /\ t.load_end_addr \in Nat /\ t.bss_end_addr \in Nat
      <4>1. t.header_addr \in Word /\ t.load_addr \in Word /\ t.load_end_addr \in Word /\ t.bss_end_addr \in Word
        BY <1>2, <2>2 DEF HeaderTag, AddressTag
      <4>. QED  BY <1>3, <4>1
    <3>2. \/ pc' = "fail" /\ kernel_info' = kernel_info /\ load' = load
          \/ /\ pc' = pc
             /\ kernel_info' = [kernel_info EXCEPT !.start = start, !.size = U32(size + bss), !.bss_size = bss]
             /\ load' = [load EXCEPT !.load_info = TRUE, !.load_start = from]
      BY <2>2 DEF AddressTag
    <3>3. kernel_info.file_addr \in Nat
      BY <1>3 DEF KernelInfo
    <3>4. header \in Nat
      BY <1>3, <3>3, HeaderFound, Zenon
    <3>. HIDE DEF header
    <3>5. start \in Nat /\ from \in Nat
      <4>1. /\ t.header_addr - (header - kernel_info.file_addr) \in Int
            /\ header - (t.header_addr - t.load_addr) \in Int
        BY <1>3, <3>1, <3>3, <3>4
      <4>2. /\ U32(t.header_addr - (header - kernel_info.file_addr)) \in Nat
            /\ U32(header - (t.header_addr - t.load_addr)) \in Nat
        BY <4>1, Wrapped
      <4>. QED  BY <1>3, <3>1, <3>3, <4>2
    <3>. HIDE DEF start, from
    <3>6. size \in Nat
      <4>1. t.load_end_addr - start \in Int
        BY <1>3, <3>1, <3>5
      <4>2. U32(t.load_end_addr - start) \in Nat
        BY <4>1, Wrapped
      <4>. QED  BY <1>3, <4>2
    <3>. HIDE DEF size
    <3>7. bss \in Nat
      <4>1. t.bss_end_addr - (start + size) \in Int
        BY <1>3, <3>1, <3>5, <3>6
      <4>2. U32(t.bss_end_addr - (start + size)) \in Nat
        BY <4>1, Wrapped
      <4>. QED  BY <4>2
    <3>. HIDE DEF bss
    <3>8. U32(size + bss) \in Nat
      BY <3>6, <3>7, Wrapped
    <3>9. CASE pc' = "fail" /\ kernel_info' = kernel_info /\ load' = load
      BY <1>3, <3>9
    <3>10. CASE /\ pc' = pc
                /\ kernel_info' = [kernel_info EXCEPT !.start = start, !.size = U32(size + bss), !.bss_size = bss]
                /\ load' = [load EXCEPT !.load_info = TRUE, !.load_start = from]
      <4>1. /\ kernel_info' \in KernelInfo
            /\ kernel_info'.file_addr = kernel_info.file_addr /\ kernel_info'.file_size = kernel_info.file_size
        BY <1>3, <3>5, <3>7, <3>8, <3>10 DEF KernelInfo
      <4>2. load' \in LoadLocals /\ load'.reloc = load.reloc /\ load'.end_max = load.end_max
        BY <1>3, <3>5, <3>10 DEF LoadLocals
      <4>. QED  BY <1>1, <1>3, <3>10, <4>1, <4>2
    <3>. QED  BY <3>2, <3>9, <3>10
  <2>3. CASE EntryTag(t)
    <3>1. t.entry_addr \in Word
      BY <1>2, <2>3 DEF HeaderTag, EntryTag
    <3>2. load' = [load EXCEPT !.entry = t.entry_addr] /\ pc' = "place" /\ kernel_info' = kernel_info
      BY <2>3 DEF EntryTag
    <3>3. load' \in LoadLocals /\ load'.reloc = load.reloc /\ load'.end_max = load.end_max
      BY <1>3, <3>1, <3>2 DEF LoadLocals
    <3>. QED  BY <1>3, <3>2, <3>3
  <2>. QED  BY <1>1, <2>1, <2>2, <2>3
<1>5. FilePlaced /\ ~Placed'
  BY <1>1, <1>4 DEF FilePlaced, Placed
<1>6. i' \in Nat \ {0}
  BY <1>0, <1>1 DEF PlaceInv, PlaceType
<1>. QED  BY <1>0, <1>1, <1>4, <1>5, <1>6, HeaderStep

(* Where the kernel goes.  The last search of Multiboot_LoadKernel decides *)
(* that it is available memory, the one before it that it is in the        *)
(* window.                                                                 *)
LEMMA PlaceKernelStep == PlaceInv /\ PlaceKernel => PlaceInv'
<1>0. SUFFICES ASSUME PlaceInv, PlaceKernel PROVE PlaceInv'
  OBVIOUS
<1>. DEFINE S == Start
            n == kernel_info.file_size
<1>1. /\ pc = "place" /\ i' = 1 /\ scenario' = scenario /\ mmap' = mmap /\ load' = load
      /\ kernel_info' = [kernel_info EXCEPT !.start = S]
      /\ pc' \in {"fail", "copy"}
      /\ pc' = "copy" => ~OutsideWindow(S) /\ FindUp(S, n, 1) = S
  BY <1>0 DEF PlaceKernel, given, FindUp
<1>2. /\ load \in LoadLocals /\ (load.reloc => load.end_max \in Word) /\ kernel_info \in KernelInfo
      /\ mmap \in Seq(MapBlock) /\ scenario \in Scenarios
  BY <1>0, <1>1 DEF PlaceInv, PlaceType, HasLocals
<1>3. /\ n \in Nat /\ kernel_info.start \in Nat /\ kernel_info.size \in Nat
      /\ load.start_min \in Nat /\ load.end_max \in Nat /\ load.start_align \in Nat
  BY <1>2 DEF LoadLocals, KernelInfo
<1>4. LIMIT \in Nat
  BY Wrapping DEF LIMIT
<1>5. /\ Lowest => S = FindUp(load.start_min, n, load.start_align)
      /\ ~Lowest /\ Highest => S = FindDown(load.end_max, n, load.start_align)
      /\ ~Lowest /\ ~Highest => S = kernel_info.start
  BY DEF Start, FindUp, FindDown
<1>6. ~(Lowest /\ Highest) /\ (Highest => load.end_max \in Word)
  <2>1. load.load_pref \in Nat
    BY <1>2 DEF LoadLocals
  <2>. QED  BY <1>2, <2>1 DEF Lowest, Highest, Moves
<1>. HIDE DEF S, n
<1>7. S \in Nat
  <2>1. CASE S = LIMIT
    BY <1>4, <2>1
  <2>2. CASE S # LIMIT /\ Lowest
    BY <1>2, <1>3, <1>5, <2>2, FoundAbove
  <2>3. CASE S # LIMIT /\ ~Lowest /\ Highest
    BY <1>2, <1>3, <1>5, <1>6, <2>3, FoundBelow
  <2>4. CASE S # LIMIT /\ ~Lowest /\ ~Highest
    BY <1>3, <1>5, <2>4
  <2>. QED  BY <2>1, <2>2, <2>3, <2>4
<1>8. /\ kernel_info' \in KernelInfo /\ kernel_info'.start = S
      /\ kernel_info'.size = kernel_info.size /\ kernel_info'.file_size = n
  BY <1>1, <1>2, <1>7 DEF KernelInfo, n
<1>9. PlaceType'
  BY <1>1, <1>2, <1>8 DEF PlaceType
<1>10. pc' # "copy" => ~FilePlaced' /\ ~Placed'
  BY <1>1 DEF FilePlaced, Placed
<1>11. ASSUME pc' = "copy", Fits'
       PROVE  S # LIMIT /\ kernel_info.size <= n /\ S + n <= LIMIT /\ \A a \in Region(S, n) : Free(a)
  <2>1. S # LIMIT /\ kernel_info.size <= n
    BY <1>8, <1>11 DEF Fits
  <2>. QED  BY <1>1, <1>2, <1>3, <1>7, <1>11, <2>1, FoundFree
<1>12. ASSUME pc' = "copy", Fits' PROVE \A a \in Kernel' : Free(a)'
  <2>1. Kernel' = Region(S, kernel_info.size)
    BY <1>8 DEF Kernel, Region
  <2>2. \A a : Free(a)' <=> Free(a)
    BY <1>1 DEF Free
  <2>3. \A a \in Region(S, kernel_info.size) : a \in Region(S, n)
    BY <1>3, <1>7, <1>11, <1>12 DEF Region
  <2>. QED  BY <1>11, <1>12, <2>1, <2>2, <2>3
<1>13. ASSUME pc' = "copy", Fits', (Lowest /\ NoWrap) \/ Highest
       PROVE  /\ S >= load.start_min /\ S + kernel_info.size <= load.end_max
              /\ Aligned32(S, load.start_align)
  <2>1. S # LIMIT /\ kernel_info.size <= n /\ S + n <= LIMIT /\ ~OutsideWindow(S)
    BY <1>1, <1>11, <1>13
  <2>2. CASE Lowest /\ NoWrap
    <3>1. S >= load.start_min /\ Aligned32(S, load.start_align)
      BY <1>2, <1>3, <1>5, <2>1, <2>2, FoundAbove DEF NoWrap
    <3>2. U32(S + kernel_info.size) = S + kernel_info.size
      <4>1. S + kernel_info.size \in Word /\ S + kernel_info.size \in Int
        BY <1>3, <1>4, <1>7, <2>1 DEF Word
      <4>. QED  BY <4>1, Wrapping
    <3>3. S + kernel_info.size <= load.end_max
      BY <1>3, <1>7, <2>1, <2>2, <3>2 DEF OutsideWindow
    <3>. QED  BY <3>1, <3>3
  <2>3. CASE Highest
    <3>1. S + n <= load.end_max /\ Aligned32(S, load.start_align)
      BY <1>2, <1>3, <1>5, <1>6, <2>1, <2>3, FoundBelow
    <3>2. S >= load.start_min
      BY <1>3, <1>7, <2>1, <2>3 DEF OutsideWindow
    <3>. QED  BY <1>3, <1>7, <2>1, <3>1, <3>2
  <2>. QED  BY <1>13, <2>2, <2>3
<1>14. (NoWrap' <=> NoWrap) /\ (Lowest' <=> Lowest) /\ (Highest' <=> Highest)
  BY <1>1 DEF NoWrap, Lowest, Highest, Moves
<1>15. ASSUME pc' = "copy", Fits', (Lowest' /\ NoWrap') \/ Highest' PROVE InWindow'
  <2>1. RoundDown(S, load.start_align) = S
    BY <1>13, <1>14, <1>15 DEF RoundDown, Memory_AlignAddress, Aligned32
  <2>. QED  BY <1>1, <1>8, <1>13, <1>14, <1>15, <2>1 DEF InWindow
<1>16. WellPlaced'
  <2>1. CASE pc' = "copy"
    <3>1. ~FilePlaced'
      BY <2>1 DEF FilePlaced
    <3>. QED  BY <1>12, <1>15, <2>1, <3>1 DEF WellPlaced, FilePlaced, InWindow, RoundDown
  <2>2. CASE pc' # "copy"
    BY <1>10, <2>2 DEF WellPlaced, FilePlaced
  <2>. QED  BY <2>1, <2>2
<1>. QED  BY <1>9, <1>16 DEF PlaceInv

(* The steps before the kernel file is placed, and the ones that neither   *)
(* place anything nor read the header.                                     *)
Untouched == scenario' = scenario /\ mmap' = mmap /\ load' = load /\ kernel_info' = kernel_info

(* Every step but the six it names leaves the places alone.                *)
LEMMA PlacingSteps ==
  ASSUME PlaceInv, Next
  PROVE  \/ FindKernelFile \/ LoadKernel \/ ReadTag \/ PlaceKernel \/ SaveRAMMap \/ CleanUp
         \/ /\ Untouched /\ i' \in Nat \ {0}
            /\ (FilePlaced' => FilePlaced) /\ (Placed' => Placed) /\ (HasLocals' => HasLocals)
<1>. USE DEF given, Fails, Untouched, FilePlaced, Placed, HasLocals
<1>1. i \in Nat \ {0} /\ i + 1 \in Nat \ {0} /\ 1 \in Nat \ {0}
  BY DEF PlaceInv, PlaceType
<1>2. CASE CreateEmptyMBI \/ SaveE820Map \/ StoreMap \/ SavePagesMap
  BY <1>1, <1>2 DEF CreateEmptyMBI, SaveE820Map, StoreMap, SavePagesMap, MapTag
<1>3. CASE NoKernelFile \/ ReadBlock \/ KernelFileLoaded \/ NoMoreTags
  BY <1>1, <1>3 DEF NoKernelFile, ReadBlock, KernelFileLoaded, NoMoreTags
<1>4. CASE MoveKernel \/ LoadSegment \/ SegmentsLoaded
  BY <1>1, <1>4 DEF MoveKernel, LoadSegment, SegmentsLoaded
<1>5. CASE NoHeader \/ NoModuleList \/ NoModules \/ LoadModule
  BY <1>1, <1>5 DEF NoHeader, NoModuleList, NoModules, LoadModule
<1>6. CASE SaveInfo \/ NoGraphics \/ SaveVBE \/ SaveFramebuffer
  BY <1>1, <1>6 DEF SaveInfo, NoGraphics, SaveVBE, SaveFramebuffer
<1>7. CASE AskCommand \/ EditCommand \/ SaveCommand
  BY <1>1, <1>7 DEF AskCommand, EditCommand, SaveCommand
<1>. QED  BY <1>2, <1>3, <1>4, <1>5, <1>6, <1>7 DEF Next

(* PlaceInv is inductive, next to the invariant of the memory map.         *)
LEMMA PlaceStep == MapInv /\ PlaceInv /\ [Next]_vars => PlaceInv'
<1>0. SUFFICES ASSUME MapInv, PlaceInv, [Next]_vars PROVE PlaceInv'
  OBVIOUS
<1>1. kernel_info \in KernelInfo /\ i \in Nat \ {0}
  BY <1>0 DEF PlaceInv, PlaceType
<1>2. CASE UNCHANGED vars
  <2>1. Untouched /\ pc' = pc /\ i' = i
    BY <1>2 DEF vars, given, Untouched
  <2>2. (FilePlaced' => FilePlaced) /\ (Placed' => Placed) /\ (HasLocals' => HasLocals)
    BY <2>1 DEF FilePlaced, Placed, HasLocals
  <2>. QED  BY <1>0, <1>1, <2>1, <2>2, QuietPlaceStep DEF Untouched
<1>3. CASE SaveRAMMap
  <2>1. /\ mmap' = table /\ pc' = "pages" /\ scenario' = scenario /\ i' = i /\ kernel_info' = kernel_info
    BY <1>3 DEF SaveRAMMap, MapTag
  <2>2. mmap' \in Seq(MapBlock)
    BY <1>0, <2>1 DEF MapInv, MapType
  <2>3. ~FilePlaced' /\ ~Placed' /\ ~HasLocals'
    BY <2>1 DEF FilePlaced, Placed, HasLocals
  <2>4. PlaceType'
    BY <1>0, <2>1, <2>2, <2>3 DEF PlaceInv, PlaceType
  <2>5. WellPlaced'
    BY <2>3 DEF WellPlaced, FilePlaced
  <2>. QED  BY <2>4, <2>5 DEF PlaceInv
<1>4. CASE CleanUp
  <2>1. PICK m : kernel_info' = [kernel_info EXCEPT
                                   !.entry = IF load.entry = LIMIT THEN kernel_info.start ELSE load.entry,
                                   !.multiboot_header = Multiboot_GetHeader(m, kernel_info.start, kernel_info.size)]
    BY <1>4 DEF CleanUp
  <2>2. pc = "clean" /\ pc' = "modules" /\ scenario' = scenario /\ mmap' = mmap /\ load' = load /\ i' = i
    BY <1>4 DEF CleanUp, given
  <2>3. load \in LoadLocals
    BY <1>0, <2>2 DEF PlaceInv, PlaceType, HasLocals, Placed
  <2>4. load.entry \in Nat /\ kernel_info.start \in Nat /\ kernel_info.size \in Nat
    BY <1>1, <2>3 DEF LoadLocals, KernelInfo
  <2>5. Multiboot_GetHeader(m, kernel_info.start, kernel_info.size) \in Nat
    BY <2>4, HeaderFound, Wrapping
  <2>6. /\ kernel_info' \in KernelInfo
        /\ kernel_info'.start = kernel_info.start /\ kernel_info'.size = kernel_info.size
        /\ kernel_info'.file_addr = kernel_info.file_addr /\ kernel_info'.file_size = kernel_info.file_size
    BY <1>1, <2>1, <2>4, <2>5 DEF KernelInfo
  <2>7. ~FilePlaced' /\ Placed /\ HasLocals
    BY <2>2 DEF FilePlaced, Placed, HasLocals
  <2>. QED  BY <1>0, <1>1, <2>2, <2>6, <2>7, QuietPlaceStep
<1>5. CASE /\ Untouched /\ i' \in Nat \ {0}
           /\ (FilePlaced' => FilePlaced) /\ (Placed' => Placed) /\ (HasLocals' => HasLocals)
  BY <1>0, <1>1, <1>5, QuietPlaceStep DEF Untouched
<1>6. CASE FindKernelFile \/ LoadKernel \/ ReadTag \/ PlaceKernel
  BY <1>0, <1>6, FindKernelFileStep, LoadKernelStep, ReadTagStep, PlaceKernelStep
<1>7. CASE Next
  BY <1>0, <1>3, <1>4, <1>5, <1>6, <1>7, PlacingSteps
<1>. QED  BY <1>0, <1>2, <1>7

(* PlaceInv is an invariant.                                               *)
LEMMA PlaceInvariance == Spec => []PlaceInv
<1>1. Init => PlaceInv
  <2>1. SUFFICES ASSUME Init PROVE PlaceInv
    OBVIOUS
  <2>2. /\ pc = "start" /\ i = 1 /\ scenario \in Scenarios /\ mmap = << >>
        /\ kernel_info = [start |-> 0, size |-> 0, bss_size |-> 0, multiboot_header |-> 0, entry |-> 0,
                          file_addr |-> 0, file_size |-> 0]
    BY <2>1 DEF Init
  <2>3. kernel_info \in KernelInfo /\ mmap \in Seq(MapBlock)
    BY <2>2 DEF KernelInfo
  <2>4. ~FilePlaced /\ ~Placed /\ ~HasLocals
    BY <2>2 DEF FilePlaced, Placed, HasLocals
  <2>5. PlaceType
    BY <2>2, <2>3, <2>4 DEF PlaceType
  <2>6. WellPlaced
    BY <2>4 DEF WellPlaced, FilePlaced
  <2>. QED  BY <2>5, <2>6 DEF PlaceInv
<1>2. MapInv /\ PlaceInv /\ [Next]_vars => PlaceInv'
  BY PlaceStep
<1>. QED  BY <1>1, <1>2, MapInvariance, PTL DEF Spec

(* Whatever the memory map and the kernel's header say, the kernel file    *)
(* and the kernel lie in available memory and a relocated kernel in its    *)
(* window, aligned: Memory_FindBlockAddress with wrapping addresses,       *)
(* clipped blocks and both directions.                                     *)
THEOREM KernelIsWellPlaced == Spec => []WellPlaced
<1>1. PlaceInv => WellPlaced
  BY DEF PlaceInv
<1>. QED  BY <1>1, PlaceInvariance, PTL

-----------------------------------------------------------------------------
(* The kernel in place.                                                    *)

(* What a 32-bit number is.                                                *)
LEMMA Words == LIMIT \in Nat /\ AddressSpace = LIMIT + 1 /\ \A x \in Word : x \in Nat /\ x <= LIMIT /\ U32(x) = x
<1>1. LIMIT \in Nat /\ AddressSpace = LIMIT + 1
  BY MultibootAssumption DEF LIMIT
<1>2. \A x \in Word : x \in Nat /\ x <= LIMIT
  BY <1>1 DEF Word
<1>3. \A x \in Int : x \in Word => U32(x) = x
  BY Wrapping
<1>. QED  BY <1>1, <1>2, <1>3

(* The distance between two addresses, as 32-bit numbers have it.          *)
LEMMA Distance ==
  ASSUME NEW a \in Word, NEW to \in Nat, NEW n \in Nat, to + n <= LIMIT
  PROVE  (U32(a - to) < n <=> to <= a /\ a < to + n) /\ (to <= a => U32(a - to) = a - to)
<1>1. /\ AddressSpace \in Nat \ {0} /\ LIMIT \in Nat /\ AddressSpace = LIMIT + 1
      /\ a \in Nat /\ a <= LIMIT /\ a - to \in Int
  BY Words
<1>2. CASE to <= a
  <2>1. a - to \in Word
    BY <1>1, <1>2 DEF Word
  <2>2. U32(a - to) = a - to
    BY <2>1, Words
  <2>. QED  BY <1>1, <1>2, <2>2
<1>3. CASE a < to
  <2>. DEFINE x == a - to
              q == x \div AddressSpace
              r == x % AddressSpace
  <2>1. x \in Int /\ x < 0 /\ x > -AddressSpace
    BY <1>1, <1>3
  <2>2. q \in Int /\ r \in 0 .. AddressSpace - 1 /\ x = q * AddressSpace + r
    <3>. HIDE DEF x
    <3>. QED  BY <1>1, <2>1
  <2>. HIDE DEF x, q, r
  <2>3. q = -1
    <3>1. CASE q >= 0
      <4>1. q * AddressSpace >= 0
        BY <1>1, <2>2, <3>1
      <4>. QED  BY <1>1, <2>1, <2>2, <4>1
    <3>2. CASE q < -1
      <4>1. q * AddressSpace <= (-2) * AddressSpace
        BY <1>1, <2>2, <3>2
      <4>. QED  BY <1>1, <2>1, <2>2, <4>1
    <3>. QED  BY <2>2, <3>1, <3>2
  <2>4. r = x + AddressSpace
    BY <1>1, <2>1, <2>2, <2>3
  <2>5. U32(a - to) = r
    BY DEF U32, r, x
  <2>. QED  BY <1>1, <1>3, <2>4, <2>5 DEF x
<1>. QED  BY <1>1, <1>2, <1>3

(* What is written somewhere is there, and nothing else is touched.        *)
LEMMA WriteIs ==
  ASSUME NEW m \in [Word -> Int], NEW to \in Nat, NEW n \in Nat, to + n <= LIMIT, NEW cells \in [1 .. n -> Int]
  PROVE  /\ Write(m, to, cells) \in [Word -> Int]
         /\ \A a \in Word : Write(m, to, cells)[a] = IF to <= a /\ a < to + n THEN cells[a - to + 1] ELSE m[a]
<1>1. Len(cells) = n /\ DOMAIN m = Word
  OBVIOUS
<1>2. ASSUME NEW a \in Word
      PROVE  /\ Write(m, to, cells)[a] = IF to <= a /\ a < to + n THEN cells[a - to + 1] ELSE m[a]
             /\ Write(m, to, cells)[a] \in Int
  <2>1. a \in Nat
    BY Words
  <2>2. Write(m, to, cells)[a] = IF U32(a - to) < n THEN cells[U32(a - to) + 1] ELSE m[a]
    BY <1>1 DEF Write
  <2>3. (U32(a - to) < n <=> to <= a /\ a < to + n) /\ (to <= a => U32(a - to) = a - to)
    BY Distance
  <2>4. to <= a /\ a < to + n => a - to + 1 \in 1 .. n
    BY <2>1
  <2>. QED  BY <2>2, <2>3, <2>4
<1>3. Write(m, to, cells) = [a \in Word |-> Write(m, to, cells)[a]]
  BY <1>1 DEF Write
<1>. QED  BY <1>2, <1>3

(* What is cleared is zero.                                                *)
LEMMA memsetIs ==
  ASSUME NEW m \in [Word -> Int], NEW to \in Nat, NEW n \in Nat, to + n <= LIMIT
  PROVE  /\ memset(m, to, n) \in [Word -> Int]
         /\ \A a \in Word : memset(m, to, n)[a] = IF to <= a /\ a < to + n THEN 0 ELSE m[a]
<1>. DEFINE cells == [k \in 1 .. n |-> 0]
<1>1. cells \in [1 .. n -> Int] /\ memset(m, to, n) = Write(m, to, cells)
  BY DEF memset
<1>2. \A a \in Word : a \in Nat
  BY Words
<1>3. \A a \in Word : to <= a /\ a < to + n => cells[a - to + 1] = 0
  BY <1>2
<1>. HIDE DEF cells
<1>4. /\ Write(m, to, cells) \in [Word -> Int]
      /\ \A a \in Word : Write(m, to, cells)[a] = IF to <= a /\ a < to + n THEN cells[a - to + 1] ELSE m[a]
  BY <1>1, WriteIs
<1>. QED  BY <1>1, <1>3, <1>4, Zenon

(* The loader is overwritten if a part of it is in the region.             *)
LEMMA OverwritesIs ==
  ASSUME NEW to \in Nat, NEW n \in Nat, to + n <= LIMIT
  PROVE  Overwrites(to, n) <=> \E a \in Loader : to <= a /\ a < to + n
<1>1. \A a \in Loader : a \in Word
  BY MultibootAssumption DEF Word, LIMIT
<1>. QED  BY <1>1, Distance DEF Overwrites

(* One cell of a copy.                                                     *)
Moved(m, to, from) == [m EXCEPT ![to] = m[from]]

(* The memory after each cell of a copy.                                   *)
CopyRow(m, to, from, n, order, f) ==
    /\ f \in [0 .. n -> [Word -> Int]] /\ f[0] = m
    /\ \A k \in 1 .. n : f[k] = Moved(f[k - 1], to + order[k], from + order[k])

(* There is room for n cells, and n cells to copy.                         *)
Room(to, from, n) == /\ to \in Nat /\ from \in Nat /\ n \in Nat
                     /\ to + n <= LIMIT
                     /\ n > 0 => from + n <= LIMIT

(* Copy is the last of them.                                               *)
LEMMA CopyDef ==
  ASSUME NEW m, m \in [Word -> Int], NEW to, NEW from, NEW n, Room(to, from, n),
         NEW order, order \in [1 .. n -> 0 .. n - 1]
  PROVE  \E f : CopyRow(m, to, from, n, order, f) /\ Copy(m, to, from, order) = f[n]
<1>0. to \in Nat /\ from \in Nat /\ n \in Nat /\ to + n <= LIMIT /\ (n > 0 => from + n <= LIMIT)
  BY DEF Room
<1>. DEFINE V == [Word -> Int]
            New(x, k) == [x EXCEPT ![U32(to + order[k])] = x[U32(from + order[k])]]
            Step == [k \in 1 .. n |-> [x \in V |-> New(x, k)]]
            Body(f) == [k \in 0 .. n |-> IF k = 0 THEN m ELSE New(f[k - 1], k)]
            g == CHOOSE f : f = Body(f)
<1>1. Len(order) = n
  BY <1>0
<1>2. Copy(m, to, from, order) = g[n]
  BY <1>1 DEF Copy
<1>3. ASSUME NEW k \in 1 .. n
      PROVE  U32(to + order[k]) = to + order[k] /\ U32(from + order[k]) = from + order[k]
             /\ to + order[k] \in Word /\ from + order[k] \in Word
  <2>1. order[k] \in Nat /\ order[k] < n
    BY <1>0
  <2>2. n > 0
    BY <1>0
  <2>3. ASSUME NEW o \in Nat, o < n PROVE to + o \in Word /\ from + o \in Word
    BY <1>0, <2>2, <2>3, Words DEF Word
  <2>4. to + order[k] \in Word /\ from + order[k] \in Word
    BY <2>1, <2>3
  <2>. QED  BY <2>4, Words
<1>4. ASSUME NEW x \in V, NEW k \in 1 .. n PROVE New(x, k) \in V /\ New(x, k) = Moved(x, to + order[k], from + order[k])
  BY <1>3 DEF Moved
<1>. HIDE DEF New, V
<1>5. Step \in [1 .. n -> [V -> V]] /\ m \in V
  BY <1>4 DEF V
<1>6. PICK f \in [0 .. n -> V] : f[0] = m /\ \A k \in 1 .. n : f[k] = Step[k][f[k - 1]]
  <2>. DEFINE N == n
              v == m
  <2>1. N \in Nat /\ v \in V /\ Step \in [1 .. N -> [V -> V]]
    BY <1>0, <1>5
  <2>. HIDE DEF Step, N, v
  <2>2. \E f \in [0 .. N -> V] : f[0] = v /\ \A k \in 1 .. N : f[k] = Step[k][f[k - 1]]
    BY ONLY <2>1, Iteration
  <2>. QED  BY <2>2 DEF N, v
<1>7. ASSUME NEW k \in 1 .. n PROVE k - 1 \in 0 .. n /\ f[k] = New(f[k - 1], k)
  <2>1. k - 1 \in 0 .. n
    BY <1>0
  <2>. QED  BY <1>6, <2>1
<1>8. f = Body(f)
  <2>1. ASSUME NEW k \in 0 .. n PROVE f[k] = Body(f)[k]
    <3>1. CASE k = 0
      BY <1>6, <3>1
    <3>2. CASE k # 0
      <4>1. k \in 1 .. n
        BY <1>0, <3>2
      <4>. QED  BY <1>7, <3>2, <4>1
    <3>. QED  BY <3>1, <3>2
  <2>. QED  BY <2>1
<1>9. g = Body(g)
  <2>. HIDE DEF Body
  <2>. QED  BY <1>8
<1>. HIDE DEF g
<1>10. g[0] = m /\ \A k \in 1 .. n : g[k] = New(g[k - 1], k)
  <2>1. \A k \in 0 .. n : g[k] = Body(g)[k]
    <3>. HIDE DEF Body
    <3>. QED  BY <1>9
  <2>2. 0 \in 0 .. n /\ \A k \in 1 .. n : k \in 0 .. n /\ k # 0
    BY <1>0
  <2>. QED  BY <2>1, <2>2
<1>11. 0 .. n \subseteq {k \in Nat : k <= n => g[k] \in V}
  <2>. DEFINE S == {k \in Nat : k <= n => g[k] \in V}
  <2>1. 0 \in S
    BY <1>0, <1>5, <1>10
  <2>2. ASSUME NEW k \in S, k < n PROVE k + 1 \in S
    <3>1. k + 1 \in 1 .. n /\ (k + 1) - 1 = k /\ g[k] \in V
      BY <1>0, <2>2
    <3>2. g[k + 1] = New(g[k], k + 1)
      BY <1>10, <3>1
    <3>. QED  BY <1>4, <3>1, <3>2
  <2>3. S \in SUBSET Nat
    OBVIOUS
  <2>. HIDE DEF S
  <2>4. 0 .. n \subseteq S
    BY <1>0, <2>1, <2>2, <2>3, InductionTo
  <2>. QED  BY <2>4 DEF S
<1>12. g \in [0 .. n -> V]
  <2>1. g = [k \in 0 .. n |-> g[k]]
    <3>1. g = [k \in 0 .. n |-> IF k = 0 THEN m ELSE New(g[k - 1], k)]
      BY <1>9
    <3>. QED  BY <3>1
  <2>2. \A k \in 0 .. n : g[k] \in V
    BY <1>11
  <2>. QED  BY <2>1, <2>2
<1>13. ASSUME NEW k \in 1 .. n PROVE g[k] = Moved(g[k - 1], to + order[k], from + order[k])
  <2>1. g[k - 1] \in V
    BY <1>0, <1>12
  <2>. QED  BY <1>4, <1>10, <2>1
<1>. QED  BY <1>2, <1>10, <1>12, <1>13 DEF V, CopyRow

(* Copying from the first cell to the last, when the target is below: what *)
(* is read next has not been written yet.                                  *)
LEMMA CopiedUp ==
  ASSUME NEW m, m \in [Word -> Int], NEW to, NEW from, NEW n, Room(to, from, n), to < from,
         NEW f, CopyRow(m, to, from, n, Upwards(n), f)
  PROVE  \A a \in Word : f[n][a] = IF to <= a /\ a < to + n THEN m[from + (a - to)] ELSE m[a]
<1>0. to \in Nat /\ from \in Nat /\ n \in Nat /\ to + n <= LIMIT /\ (n > 0 => from + n <= LIMIT)
  BY DEF Room
<1>a. /\ f \in [0 .. n -> [Word -> Int]] /\ f[0] = m
       /\ \A k \in 1 .. n : f[k] = Moved(f[k - 1], to + (k - 1), from + (k - 1))
  BY <1>0 DEF CopyRow, Upwards
<1>. DEFINE Done(k) == \A a \in Word : f[k][a] = IF to <= a /\ a < to + k THEN m[from + (a - to)] ELSE m[a]
            S == {k \in Nat : k <= n => Done(k)}
<1>1. 0 \in S
  <2>1. \A a \in Word : a \in Nat
    BY Words
  <2>. QED  BY <1>0, <1>a, <2>1
<1>2. ASSUME NEW k \in S, k < n PROVE k + 1 \in S
  <2>1. k + 1 \in 1 .. n /\ (k + 1) - 1 = k /\ k \in 0 .. n /\ k \in Nat /\ Done(k)
    BY <1>0, <1>2
  <2>. DEFINE w == to + k
              r == from + k
  <2>2. w \in Word /\ r \in Word
    BY <1>0, <1>2, <2>1, Words DEF Word
  <2>3. f[k + 1] = [f[k] EXCEPT ![w] = f[k][r]] /\ f[k] \in [Word -> Int]
    BY <1>a, <2>1 DEF Moved
  <2>4. f[k][r] = m[r]
    <3>1. ~(r < to + k)
      BY <1>0, <2>1
    <3>. QED  BY <2>1, <2>2, <3>1
  <2>5. ASSUME NEW a \in Word
        PROVE  f[k + 1][a] = IF to <= a /\ a < to + (k + 1) THEN m[from + (a - to)] ELSE m[a]
    <3>0. a \in Nat
      BY Words
    <3>1. CASE a = w
      <4>1. f[k + 1][a] = m[r]
        BY <2>2, <2>3, <2>4, <3>1
      <4>2. from + (a - to) = r /\ to <= a /\ a < to + (k + 1)
        BY <1>0, <2>1, <3>1
      <4>. QED  BY <4>1, <4>2
    <3>2. CASE a # w
      <4>1. f[k + 1][a] = f[k][a]
        BY <2>3, <3>2
      <4>2. f[k][a] = IF to <= a /\ a < to + k THEN m[from + (a - to)] ELSE m[a]
        BY <2>1
      <4>3. a < to + (k + 1) <=> a < to + k
        BY <1>0, <2>1, <3>0, <3>2
      <4>. QED  BY <4>1, <4>2, <4>3
    <3>. QED  BY <3>1, <3>2
  <2>6. Done(k + 1)
    BY <2>5
  <2>. HIDE DEF Done
  <2>. QED  BY <2>6
<1>3. S \in SUBSET Nat
  OBVIOUS
<1>. HIDE DEF S
<1>4. 0 .. n \subseteq S
  BY <1>0, <1>1, <1>2, <1>3, InductionTo
<1>5. n \in S
  BY <1>0, <1>4
<1>. QED  BY <1>0, <1>5 DEF S

(* From the last cell to the first, when the target is not below.          *)
LEMMA CopiedDown ==
  ASSUME NEW m, m \in [Word -> Int], NEW to, NEW from, NEW n, Room(to, from, n), ~(to < from),
         NEW f, CopyRow(m, to, from, n, Downwards(n), f)
  PROVE  \A a \in Word : f[n][a] = IF to <= a /\ a < to + n THEN m[from + (a - to)] ELSE m[a]
<1>0. to \in Nat /\ from \in Nat /\ n \in Nat /\ to + n <= LIMIT /\ (n > 0 => from + n <= LIMIT)
  BY DEF Room
<1>a. /\ f \in [0 .. n -> [Word -> Int]] /\ f[0] = m
       /\ \A k \in 1 .. n : f[k] = Moved(f[k - 1], to + (n - k), from + (n - k))
  BY <1>0 DEF CopyRow, Downwards
<1>. DEFINE Done(k) == \A a \in Word : f[k][a] = IF to + (n - k) <= a /\ a < to + n THEN m[from + (a - to)] ELSE m[a]
            S == {k \in Nat : k <= n => Done(k)}
<1>1. 0 \in S
  <2>1. \A a \in Word : a \in Nat
    BY Words
  <2>. QED  BY <1>0, <1>a, <2>1
<1>2. ASSUME NEW k \in S, k < n PROVE k + 1 \in S
  <2>1. k + 1 \in 1 .. n /\ (k + 1) - 1 = k /\ k \in 0 .. n /\ k \in Nat /\ Done(k)
    BY <1>0, <1>2
  <2>. DEFINE w == to + (n - (k + 1))
              r == from + (n - (k + 1))
  <2>2. w \in Word /\ r \in Word
    BY <1>0, <1>2, <2>1, Words DEF Word
  <2>3. f[k + 1] = [f[k] EXCEPT ![w] = f[k][r]] /\ f[k] \in [Word -> Int]
    BY <1>a, <2>1 DEF Moved
  <2>4. f[k][r] = m[r]
    <3>1. ~(to + (n - k) <= r)
      BY <1>0, <1>2, <2>1
    <3>. QED  BY <2>1, <2>2, <3>1
  <2>5. ASSUME NEW a \in Word
        PROVE  f[k + 1][a] = IF to + (n - (k + 1)) <= a /\ a < to + n THEN m[from + (a - to)] ELSE m[a]
    <3>0. a \in Nat
      BY Words
    <3>1. CASE a = w
      <4>1. f[k + 1][a] = m[r]
        BY <2>2, <2>3, <2>4, <3>1
      <4>2. from + (a - to) = r /\ to + (n - (k + 1)) <= a /\ a < to + n
        BY <1>0, <1>2, <2>1, <3>1
      <4>. QED  BY <4>1, <4>2
    <3>2. CASE a # w
      <4>1. f[k + 1][a] = f[k][a]
        BY <2>3, <3>2
      <4>2. f[k][a] = IF to + (n - k) <= a /\ a < to + n THEN m[from + (a - to)] ELSE m[a]
        BY <2>1
      <4>3. to + (n - (k + 1)) <= a <=> to + (n - k) <= a
        BY <1>0, <2>1, <3>0, <3>2
      <4>. QED  BY <4>1, <4>2, <4>3
    <3>. QED  BY <3>1, <3>2
  <2>6. Done(k + 1)
    BY <2>5
  <2>. HIDE DEF Done
  <2>. QED  BY <2>6
<1>3. S \in SUBSET Nat
  OBVIOUS
<1>. HIDE DEF S
<1>4. 0 .. n \subseteq S
  BY <1>0, <1>1, <1>2, <1>3, InductionTo
<1>5. Done(n)
  <2>1. n \in S
    BY <1>0, <1>4
  <2>. QED  BY <1>0, <2>1 DEF S
<1>6. to + (n - n) = to
  BY <1>0
<1>. QED  BY <1>5, <1>6

(* memmove moves, whether or not the two regions overlap.                  *)
LEMMA memmoveIs ==
  ASSUME NEW m, m \in [Word -> Int], NEW to, NEW from, NEW n, Room(to, from, n)
  PROVE  /\ memmove(m, to, from, n) \in [Word -> Int]
         /\ \A a \in Word : memmove(m, to, from, n)[a] = IF to <= a /\ a < to + n THEN m[from + (a - to)] ELSE m[a]
<1>1. n \in Nat
  BY DEF Room
<1>2. Upwards(n) \in [1 .. n -> 0 .. n - 1] /\ Downwards(n) \in [1 .. n -> 0 .. n - 1]
  BY <1>1 DEF Upwards, Downwards
<1>3. CASE to < from
  <2>1. PICK f : CopyRow(m, to, from, n, Upwards(n), f) /\ Copy(m, to, from, Upwards(n)) = f[n]
    BY <1>2, CopyDef
  <2>2. \A a \in Word : f[n][a] = IF to <= a /\ a < to + n THEN m[from + (a - to)] ELSE m[a]
    BY <1>3, <2>1, CopiedUp
  <2>3. f[n] \in [Word -> Int]
    BY <1>1, <2>1 DEF CopyRow
  <2>. QED  BY <1>3, <2>1, <2>2, <2>3 DEF memmove
<1>4. CASE ~(to < from)
  <2>1. PICK f : CopyRow(m, to, from, n, Downwards(n), f) /\ Copy(m, to, from, Downwards(n)) = f[n]
    BY <1>2, CopyDef
  <2>2. \A a \in Word : f[n][a] = IF to <= a /\ a < to + n THEN m[from + (a - to)] ELSE m[a]
    BY <1>4, <2>1, CopiedDown
  <2>3. f[n] \in [Word -> Int]
    BY <1>1, <2>1 DEF CopyRow
  <2>. QED  BY <1>4, <2>1, <2>2, <2>3 DEF memmove
<1>. QED  BY <1>3, <1>4

-----------------------------------------------------------------------------
(* What is in memory, step by step.                                        *)

BeforeFile == {"start", "mmap", "ram", "pages", "list"}
FileRead == {"kernel", "tags", "place"}
AfterCopy == {"modules", "info", "command", "framebuffer", "entry"}

OneBlock == Len(scenario.blocks) = 1
Copied == load.load_info \/ segments = << >>      \* and not segment by segment

InFile(a) == kernel_info.file_addr <= a /\ a < kernel_info.file_addr + FileSize
InKernel(a) == kernel_info.start <= a /\ a < kernel_info.start + kernel_info.size

(* The file is in memory; only it is; or only it and the kernel are.       *)
FileKept == memory \in [Word -> Int] /\ \A a \in Word : InFile(a) => memory[a] = a - kernel_info.file_addr + 1
OnlyFile == \A a \in Word : ~InFile(a) => memory[a] = Other
OnlyBoth == \A a \in Word : ~InFile(a) /\ ~InKernel(a) => memory[a] = Other

FileFits ==
    pc \in {"file"} \cup FileRead \cup {"copy", "clean"} =>
        kernel_info.file_size = FileSize /\ kernel_info.file_addr + FileSize <= LIMIT

Nothing == memory = [a \in Word |-> Other]
FileInMemory ==
    /\ pc \in BeforeFile => i = 1 /\ Nothing
    /\ pc = "file" /\ OneBlock => (i = 1 /\ Nothing) \/ (i # 1 /\ FileKept /\ OnlyFile)
    /\ pc \in FileRead /\ OneBlock => FileKept /\ OnlyFile

(* What the tags have made of the sizes.                                   *)
SizesKnown ==
    pc \in {"tags", "place", "copy", "clean"} /\ OneBlock =>
        /\ load.load_info => (kernel_info.start + FileSize <= LIMIT => kernel_info.bss_size <= kernel_info.size)
        /\ ~load.load_info => /\ load.load_start = kernel_info.file_addr
                              /\ segments = << >> => kernel_info.size = FileSize /\ kernel_info.bss_size = 0
                              /\ segments # << >> => kernel_info.size = SizeOf(Len(segments))

KernelFits ==
    pc \in {"copy", "clean"} /\ Fits => kernel_info.start + kernel_info.file_size <= LIMIT /\ kernel_info.size > 0

Copying ==
    pc = "copy" /\ Fits /\ Ordinary =>
        /\ FileKept
        /\ Copied => OnlyFile
        /\ ~Copied => OnlyBoth /\ i <= Len(segments) + 1 /\ \A k \in 1 .. i - 1 : InPlace(SegmentPiece(k))

AllCopied ==
    pc = "clean" /\ Fits /\ Ordinary => memory \in [Word -> Int] /\ OnlyBoth /\ \A p \in Pieces : InPlace(p)

HeaderSeen ==
    pc = "modules" /\ Fits /\ Ordinary /\ kernel_info.multiboot_header = 0 => \A p \in Pieces : ~HeaderIn(p)

ImageInv == /\ FileFits /\ FileInMemory /\ SizesKnown /\ KernelFits
            /\ Copying /\ AllCopied /\ HeaderSeen /\ KernelInPlace

(* What the invariant says is about these alone.                           *)
SameImage == scenario' = scenario /\ memory' = memory /\ kernel_info' = kernel_info /\ load' = load

(* The words the invariant is made of stay the same with them.             *)
LEMMA SameWords ==
  ASSUME SameImage
  PROVE  /\ OneBlock' = OneBlock /\ Copied' = Copied /\ FileKept' = FileKept /\ OnlyFile' = OnlyFile /\ OnlyBoth' = OnlyBoth
         /\ Nothing' = Nothing /\ Fits' = Fits /\ Ordinary' = Ordinary /\ Pieces' = Pieces
         /\ FileSize' = FileSize /\ segments' = segments /\ \A n : SizeOf(n)' = SizeOf(n)
         /\ \A p : InPlace(p)' = InPlace(p) /\ HeaderIn(p)' = HeaderIn(p)
         /\ \A k : SegmentPiece(k)' = SegmentPiece(k)
<1>. USE DEF SameImage
<1>1. FileSize' = FileSize /\ segments' = segments /\ \A n : SizeOf(n)' = SizeOf(n)
  BY DEF FileSize, segments, SizeOf
<1>2. \A k : SegmentPiece(k)' = SegmentPiece(k)
  BY <1>1 DEF SegmentPiece
<1>3. OneBlock' = OneBlock /\ Copied' = Copied /\ Nothing' = Nothing /\ Fits' = Fits
  BY <1>1 DEF OneBlock, Copied, Nothing, Fits
<1>4. \A a : InFile(a)' = InFile(a) /\ InKernel(a)' = InKernel(a)
  BY <1>1 DEF InFile, InKernel
<1>5. FileKept' = FileKept /\ OnlyFile' = OnlyFile /\ OnlyBoth' = OnlyBoth
  BY <1>4 DEF FileKept, OnlyFile, OnlyBoth
<1>6. Pieces' = Pieces
  BY <1>1, <1>2 DEF Pieces
<1>7. \A p : InPlace(p)' = InPlace(p) /\ HeaderIn(p)' = HeaderIn(p)
  BY DEF InPlace, HeaderIn
<1>8. Kernel' = Kernel /\ File' = File
  BY DEF Kernel, File
<1>9. Ordinary' = Ordinary
  BY <1>1, <1>6, <1>8 DEF Ordinary
<1>. QED  BY <1>1, <1>2, <1>3, <1>5, <1>6, <1>7, <1>9

(* A step that leaves them alone and does not go on to what they must have *)
(* been prepared for.                                                      *)
LEMMA QuietImage ==
  ASSUME ImageInv, SameImage,
         \/ pc' = "fail"
         \/ pc' = pc /\ i' = i
         \/ pc \in BeforeFile /\ pc' \in BeforeFile /\ i' = i
         \/ pc = "tags" /\ pc' = "place"
         \/ pc \in AfterCopy /\ pc' \in AfterCopy \ {"modules"}
  PROVE  ImageInv'
<1>1. /\ OneBlock' = OneBlock /\ Copied' = Copied /\ FileKept' = FileKept /\ OnlyFile' = OnlyFile /\ OnlyBoth' = OnlyBoth
      /\ Nothing' = Nothing /\ Fits' = Fits /\ Ordinary' = Ordinary /\ Pieces' = Pieces
      /\ FileSize' = FileSize /\ segments' = segments /\ (\A n : SizeOf(n)' = SizeOf(n))
      /\ (\A p : InPlace(p)' = InPlace(p) /\ HeaderIn(p)' = HeaderIn(p))
      /\ (\A k : SegmentPiece(k)' = SegmentPiece(k))
      /\ scenario' = scenario /\ memory' = memory /\ kernel_info' = kernel_info /\ load' = load
  BY SameWords DEF SameImage
<1>2. Kernel' = Kernel
  BY <1>1 DEF Kernel
<1>. USE DEF BeforeFile, FileRead, AfterCopy
<1>3. FileFits' /\ KernelFits'
  BY <1>1 DEF ImageInv, FileFits, KernelFits
<1>4. FileInMemory'
  BY <1>1 DEF ImageInv, FileInMemory
<1>5. SizesKnown'
  BY <1>1 DEF ImageInv, SizesKnown
<1>6. Copying'
  BY <1>1 DEF ImageInv, Copying
<1>7. AllCopied' /\ HeaderSeen'
  BY <1>1 DEF ImageInv, AllCopied, HeaderSeen
<1>8. KernelInPlace'
  BY <1>1, <1>2 DEF ImageInv, KernelInPlace
<1>. QED  BY <1>3, <1>4, <1>5, <1>6, <1>7, <1>8 DEF ImageInv

(* The fields of the kernel's description, and the file's size.            *)
LEMMA Fields ==
  ASSUME PlaceInv
  PROVE  /\ kernel_info \in KernelInfo /\ i \in Nat \ {0} /\ scenario \in Scenarios
         /\ kernel_info.start \in Nat /\ kernel_info.size \in Nat /\ kernel_info.bss_size \in Nat
         /\ kernel_info.file_addr \in Nat /\ kernel_info.file_size \in Nat /\ FileSize \in Nat
         /\ LIMIT \in Nat /\ AddressSpace = LIMIT + 1
<1>1. kernel_info \in KernelInfo /\ i \in Nat \ {0} /\ scenario \in Scenarios
  BY DEF PlaceInv, PlaceType
<1>2. FileSize \in Nat
  BY <1>1, Sums
<1>. QED  BY <1>1, <1>2, Words DEF KernelInfo

(* Before the kernel is placed nothing more is asked of memory.            *)
LEMMA NotYetPlaced ==
  ASSUME pc' \in {"file", "fail"} \cup FileRead
  PROVE  (KernelFits /\ Copying /\ AllCopied /\ HeaderSeen /\ KernelInPlace)'
BY DEF FileRead, KernelFits, Copying, AllCopied, HeaderSeen, KernelInPlace

(* The file has been given a place.                                        *)
LEMMA FindKernelFileImage == PlaceInv /\ ImageInv /\ FindKernelFile => ImageInv'
<1>0. SUFFICES ASSUME PlaceInv, ImageInv, FindKernelFile PROVE ImageInv'
  OBVIOUS
<1>. DEFINE a == FindUp(MEMORY_HIGH_START, FileSize, 1)
<1>1. /\ kernel_info' = [kernel_info EXCEPT !.file_addr = a, !.file_size = FileSize]
      /\ pc' = IF a = LIMIT THEN "fail" ELSE "file"
      /\ pc = "list" /\ scenario' = scenario /\ i' = i /\ memory' = memory
  BY <1>0 DEF FindKernelFile, FindUp, given
<1>2. MEMORY_HIGH_START \in Nat /\ FileSize \in Nat /\ mmap \in Seq(MapBlock) /\ kernel_info \in KernelInfo
  BY <1>0, MultibootAssumption, Fields DEF PlaceInv, PlaceType
<1>. HIDE DEF a
<1>3. kernel_info'.file_addr = a /\ kernel_info'.file_size = FileSize /\ FileSize' = FileSize
  BY <1>1, <1>2 DEF KernelInfo, FileSize
<1>4. i = 1 /\ Nothing /\ Nothing' = Nothing
  BY <1>0, <1>1 DEF ImageInv, FileInMemory, BeforeFile, Nothing
<1>5. pc' = "file" => a + FileSize <= LIMIT
  <2>1. ASSUME a # LIMIT PROVE a + FileSize <= LIMIT
    BY <1>2, <2>1, FoundFree DEF a
  <2>. QED  BY <1>1, <2>1
<1>6. pc' \in {"file", "fail"}
  BY <1>1
<1>7. (KernelFits /\ Copying /\ AllCopied /\ HeaderSeen /\ KernelInPlace)'
  BY <1>6, NotYetPlaced
<1>8. FileFits' /\ SizesKnown'
  BY <1>3, <1>5, <1>6 DEF FileFits, SizesKnown, FileRead
<1>9. FileInMemory'
  BY <1>1, <1>4, <1>6 DEF FileInMemory, BeforeFile, FileRead
<1>. QED  BY <1>7, <1>8, <1>9 DEF ImageInv

(* A file in one block is read to where it belongs.                        *)
LEMMA ReadBlockImage == PlaceInv /\ ImageInv /\ ReadBlock => ImageInv'
<1>0. SUFFICES ASSUME PlaceInv, ImageInv, ReadBlock PROVE ImageInv'
  OBVIOUS
<1>. DEFINE before == SumTo(scenario.blocks, i - 1)
            file == kernel_info.file_addr
<1>1. /\ pc = "file" /\ i <= Len(scenario.blocks) /\ i' = i + 1
      /\ scenario' = scenario /\ kernel_info' = kernel_info /\ load' = load
  BY <1>0 DEF ReadBlock, given
<1>2. PICK n \in 0 .. scenario.blocks[i] :
        /\ memory' = Write(memory, file, [k \in 1 .. n |-> before + k])
        /\ pc' = IF n = scenario.blocks[i] THEN "file" ELSE "fail"
  BY <1>0 DEF ReadBlock
<1>3. kernel_info.file_addr \in Nat /\ FileSize \in Nat /\ i \in Nat \ {0} /\ scenario \in Scenarios /\ LIMIT \in Nat
  BY <1>0, Fields
<1>4. FileSize' = FileSize /\ OneBlock' = OneBlock
  BY <1>1 DEF FileSize, OneBlock
<1>5. kernel_info.file_size = FileSize /\ file + FileSize <= LIMIT
  BY <1>0, <1>1 DEF ImageInv, FileFits
<1>6. ASSUME OneBlock, pc' = "file" PROVE FileKept' /\ OnlyFile'
  <2>1. i = 1 /\ n = FileSize
    <3>1. i = 1 /\ FileSize = scenario.blocks[1]
      BY <1>1, <1>3, <1>6, Sums DEF OneBlock
    <3>. QED  BY <1>2, <1>6, <3>1
  <2>2. before = 0
    <3>1. SumTo(scenario.blocks, 0) = 0
      BY SumToNext
    <3>. QED  BY <2>1, <3>1
  <2>3. Nothing
    BY <1>0, <1>1, <1>6, <2>1 DEF ImageInv, FileInMemory
  <2>4. memory \in [Word -> Int] /\ \A a \in Word : memory[a] = Other
    BY <2>3 DEF Nothing, Other
  <2>. DEFINE cells == [k \in 1 .. n |-> before + k]
  <2>5. cells \in [1 .. n -> Int] /\ \A k \in 1 .. n : cells[k] = k
    BY <2>2
  <2>. HIDE DEF cells
  <2>6. /\ memory' \in [Word -> Int]
        /\ \A a \in Word : memory'[a] = IF file <= a /\ a < file + n THEN cells[a - file + 1] ELSE memory[a]
    <3>1. memory' = Write(memory, file, cells)
      BY <1>2 DEF cells
    <3>2. n \in Nat /\ file + n <= LIMIT
      BY <1>3, <1>5, <2>1
    <3>3. /\ Write(memory, file, cells) \in [Word -> Int]
          /\ \A a \in Word : Write(memory, file, cells)[a] = IF file <= a /\ a < file + n THEN cells[a - file + 1] ELSE memory[a]
      BY <1>3, <2>4, <2>5, <3>2, WriteIs
    <3>. QED  BY <3>1, <3>3, Zenon
  <2>7. \A a \in Word : InFile(a)' <=> file <= a /\ a < file + n
    BY <1>1, <1>4, <2>1 DEF InFile
  <2>8. ASSUME NEW a \in Word, InFile(a)' PROVE memory'[a] = a - file + 1
    <3>1. a \in Nat /\ file <= a /\ a < file + n /\ n \in Nat
      BY <1>3, <2>1, <2>7, <2>8, Words
    <3>2. a - file + 1 \in 1 .. n
      BY <1>3, <3>1
    <3>. QED  BY <2>5, <2>6, <3>1, <3>2
  <2>9. ASSUME NEW a \in Word, ~InFile(a)' PROVE memory'[a] = Other
    BY <2>4, <2>6, <2>7, <2>9
  <2>. QED  BY <1>1, <2>6, <2>8, <2>9 DEF FileKept, OnlyFile
<1>7. pc' \in {"file", "fail"}
  BY <1>2
<1>8. (KernelFits /\ Copying /\ AllCopied /\ HeaderSeen /\ KernelInPlace)'
  BY <1>7, NotYetPlaced
<1>9. FileFits' /\ SizesKnown'
  BY <1>1, <1>4, <1>5, <1>7 DEF FileFits, SizesKnown, FileRead
<1>10. FileInMemory'
  <2>1. i' # 1
    BY <1>1, <1>3
  <2>. QED  BY <1>4, <1>6, <1>7, <2>1 DEF FileInMemory, BeforeFile, FileRead
<1>. QED  BY <1>8, <1>9, <1>10 DEF ImageInv

(* The file has been read.                                                 *)
LEMMA KernelFileLoadedImage == PlaceInv /\ ImageInv /\ KernelFileLoaded => ImageInv'
<1>0. SUFFICES ASSUME PlaceInv, ImageInv, KernelFileLoaded PROVE ImageInv'
  OBVIOUS
<1>1. /\ pc = "file" /\ i > Len(scenario.blocks) /\ pc' \in {"fail", "kernel"} /\ SameImage
  BY <1>0 DEF KernelFileLoaded, given, SameImage
<1>2. /\ OneBlock' = OneBlock /\ FileKept' = FileKept /\ OnlyFile' = OnlyFile /\ FileSize' = FileSize
      /\ kernel_info' = kernel_info
  BY <1>1, SameWords DEF SameImage
<1>3. OneBlock => FileKept /\ OnlyFile
  <2>1. OneBlock => i # 1
    BY <1>1 DEF OneBlock
  <2>. QED  BY <1>0, <1>1, <2>1 DEF ImageInv, FileInMemory
<1>4. (KernelFits /\ Copying /\ AllCopied /\ HeaderSeen /\ KernelInPlace)'
  BY <1>1, NotYetPlaced DEF FileRead
<1>5. FileFits' /\ SizesKnown'
  BY <1>0, <1>1, <1>2 DEF ImageInv, FileFits, SizesKnown, FileRead
<1>6. FileInMemory'
  BY <1>1, <1>2, <1>3 DEF FileInMemory, BeforeFile, FileRead
<1>. QED  BY <1>4, <1>5, <1>6 DEF ImageInv

(* An ELF file that is in memory is recognised.                            *)
LEMMA Recognised ==
  ASSUME PlaceInv, FileKept, kernel_info.file_addr + FileSize <= LIMIT
  PROVE  IsELF(memory) <=> segments # << >>
<1>1. kernel_info.file_addr \in Nat /\ FileSize \in Nat /\ scenario \in Scenarios /\ LIMIT \in Nat
  BY Fields
<1>2. ASSUME segments # << >>, NEW k \in 0 .. ElfHeaders - 1
      PROVE  memory[U32(kernel_info.file_addr + k)] = k + 1
  <2>1. ElfHeaders \in Nat /\ ElfHeaders <= FileSize
    BY <1>1, <1>2, ScenarioAssumption, MultibootAssumption DEF FileSize, segments
  <2>. DEFINE a == kernel_info.file_addr + k
  <2>2. a \in Word /\ InFile(a) /\ a - kernel_info.file_addr + 1 = k + 1
    BY <1>1, <2>1 DEF Word, InFile
  <2>. HIDE DEF a
  <2>3. U32(a) = a
    BY <2>2, Words
  <2>. QED  BY <2>2, <2>3 DEF FileKept, a
<1>. QED  BY <1>2 DEF IsELF

(* The locals start from the file's.                                       *)
LEMMA LoadKernelImage == PlaceInv /\ ImageInv /\ LoadKernel => ImageInv'
<1>0. SUFFICES ASSUME PlaceInv, ImageInv, LoadKernel PROVE ImageInv'
  OBVIOUS
<1>1. /\ pc = "kernel" /\ pc' = "tags" /\ scenario' = scenario /\ memory' = memory
      /\ kernel_info' = [kernel_info EXCEPT !.size = IF IsELF(memory) THEN SizeOf(Len(segments)) ELSE FileSize,
                                            !.bss_size = IF IsELF(memory) THEN BSSLike ELSE 0]
      /\ load'.load_info = FALSE /\ load'.load_start = kernel_info.file_addr
  BY <1>0 DEF LoadKernel, given
<1>2. kernel_info \in KernelInfo
  BY <1>0, Fields
<1>3. /\ kernel_info'.file_addr = kernel_info.file_addr /\ kernel_info'.file_size = kernel_info.file_size
      /\ kernel_info'.size = (IF IsELF(memory) THEN SizeOf(Len(segments)) ELSE FileSize)
      /\ kernel_info'.bss_size = (IF IsELF(memory) THEN BSSLike ELSE 0)
  BY <1>1, <1>2 DEF KernelInfo
<1>4. /\ FileSize' = FileSize /\ OneBlock' = OneBlock /\ segments' = segments
      /\ SizeOf(Len(segments))' = SizeOf(Len(segments))
  BY <1>1 DEF FileSize, OneBlock, segments, SizeOf
<1>5. kernel_info.file_size = FileSize /\ kernel_info.file_addr + FileSize <= LIMIT
  BY <1>0, <1>1 DEF ImageInv, FileFits, FileRead
<1>6. OneBlock => FileKept /\ OnlyFile
  BY <1>0, <1>1 DEF ImageInv, FileInMemory, FileRead
<1>7. FileKept' = FileKept /\ OnlyFile' = OnlyFile
  BY <1>1, <1>3, <1>4 DEF FileKept, OnlyFile, InFile
<1>8. OneBlock => (IsELF(memory) <=> segments # << >>)
  BY <1>0, <1>5, <1>6, Recognised
<1>9. (KernelFits /\ Copying /\ AllCopied /\ HeaderSeen /\ KernelInPlace)'
  BY <1>1, NotYetPlaced DEF FileRead
<1>10. FileFits' /\ FileInMemory'
  BY <1>1, <1>3, <1>4, <1>5, <1>6, <1>7 DEF FileFits, FileInMemory, BeforeFile, FileRead
<1>11. SizesKnown'
  BY <1>1, <1>3, <1>4, <1>8 DEF SizesKnown
<1>. QED  BY <1>9, <1>10, <1>11 DEF ImageInv

(* The sizes an address tag gives: what is cleared is a part of the        *)
(* kernel, if the file would fit where the kernel goes.                    *)
LEMMA AddressSizes ==
  ASSUME NEW file_size \in Nat, NEW start \in Word, NEW end \in Word, NEW bss_end \in Word, NEW size, NEW bss,
         size = IF end = 0 THEN file_size ELSE U32(end - start),
         bss = IF bss_end = 0 THEN 0 ELSE U32(bss_end - (start + size)),
         ~(end # 0 /\ end < start), ~(bss_end # 0 /\ bss_end < U32(start + size)),
         start + file_size <= LIMIT
  PROVE  bss <= U32(size + bss)
<1>1. LIMIT \in Nat /\ start \in Nat /\ end \in Nat /\ bss_end \in Nat /\ start <= LIMIT /\ end <= LIMIT /\ bss_end <= LIMIT
  BY Words
<1>2. size \in Nat /\ start + size \in Word
  <2>1. CASE end = 0
    BY <1>1, <2>1 DEF Word
  <2>2. CASE end # 0
    <3>1. end - start \in Word
      BY <1>1, <2>2 DEF Word
    <3>2. size = end - start
      BY <2>2, <3>1, Words
    <3>. QED  BY <1>1, <2>2, <3>2
  <2>. QED  BY <2>1, <2>2
<1>3. U32(start + size) = start + size
  BY <1>2, Words
<1>4. bss \in Nat /\ size + bss \in Word
  <2>1. CASE bss_end = 0
    BY <1>1, <1>2, <2>1, Words DEF Word
  <2>2. CASE bss_end # 0
    <3>1. bss_end - (start + size) \in Word
      BY <1>1, <1>2, <1>3, <2>2 DEF Word
    <3>2. bss = bss_end - (start + size)
      BY <2>2, <3>1, Words
    <3>. QED  BY <1>1, <1>2, <1>3, <2>2, <3>2 DEF Word
  <2>. QED  BY <2>1, <2>2
<1>5. U32(size + bss) = size + bss
  BY <1>4, Words
<1>. QED  BY <1>2, <1>4, <1>5

(* Whatever a tag says, the file stays as it is and the sizes are known.   *)
LEMMA ReadTagImage == PlaceInv /\ ImageInv /\ ReadTag => ImageInv'
<1>0. SUFFICES ASSUME PlaceInv, ImageInv, ReadTag PROVE ImageInv'
  OBVIOUS
<1>. DEFINE t == scenario.tags[i]
<1>1. /\ pc = "tags" /\ i <= Len(scenario.tags) /\ i' = i + 1
      /\ RelocatableTag(t) \/ AddressTag(t) \/ EntryTag(t)
      /\ scenario' = scenario /\ memory' = memory
  BY <1>0 DEF ReadTag, given
<1>2. t \in HeaderTag
  <2>1. scenario.tags \in Seq(HeaderTag) /\ i \in Nat \ {0}
    BY <1>0, ScenarioAssumption DEF PlaceInv, PlaceType
  <2>2. i \in 1 .. Len(scenario.tags)
    BY <1>1, <2>1
  <2>. QED  BY <2>1, <2>2, ElementOfSeq
<1>. HIDE DEF t
<1>3. /\ load \in LoadLocals /\ kernel_info \in KernelInfo /\ kernel_info.file_addr \in Nat /\ FileSize \in Nat
  BY <1>0, <1>1, Fields DEF PlaceInv, PlaceType, HasLocals
<1>4. /\ FileSize' = FileSize /\ OneBlock' = OneBlock /\ segments' = segments
      /\ SizeOf(Len(segments))' = SizeOf(Len(segments))
  BY <1>1 DEF FileSize, OneBlock, segments, SizeOf
<1>5. /\ kernel_info'.file_addr = kernel_info.file_addr /\ kernel_info'.file_size = kernel_info.file_size
      /\ pc' \in {"tags", "place", "fail"}
      /\ \/ pc' = "fail"
         \/ kernel_info' = kernel_info /\ load'.load_info = load.load_info /\ load'.load_start = load.load_start
         \/ /\ load'.load_info
            /\ kernel_info'.start + FileSize <= LIMIT => kernel_info'.bss_size <= kernel_info'.size
  <2>1. CASE RelocatableTag(t)
    BY <1>1, <1>3, <2>1 DEF RelocatableTag, LoadLocals
  <2>2. CASE AddressTag(t)
    <3>. DEFINE header == Multiboot_GetHeader(memory, kernel_info.file_addr, FileSize)
                whole == t.load_addr = LIMIT
                start == IF whole THEN U32(t.header_addr - (header - kernel_info.file_addr)) ELSE t.load_addr
                size == IF t.load_end_addr = 0 THEN FileSize ELSE U32(t.load_end_addr - start)
                bss == IF t.bss_end_addr = 0 THEN 0 ELSE U32(t.bss_end_addr - (start + size))
                from == IF whole THEN kernel_info.file_addr ELSE U32(header - (t.header_addr - t.load_addr))
    <3>1. t.header_addr \in Word /\ t.load_addr \in Word /\ t.load_end_addr \in Word /\ t.bss_end_addr \in Word
      BY <1>2, <2>2 DEF HeaderTag, AddressTag
    <3>2. \/ pc' = "fail" /\ kernel_info' = kernel_info
          \/ /\ pc' = pc
             /\ kernel_info' = [kernel_info EXCEPT !.start = start, !.size = U32(size + bss), !.bss_size = bss]
             /\ load' = [load EXCEPT !.load_info = TRUE, !.load_start = from]
             /\ ~(t.load_end_addr # 0 /\ t.load_end_addr < start)
             /\ ~(t.bss_end_addr # 0 /\ t.bss_end_addr < U32(start + size))
      BY <2>2 DEF AddressTag
    <3>3. header \in Nat
      BY <1>3, HeaderFound, Words, Zenon
    <3>. HIDE DEF header
    <3>4. start \in Word
      <4>1. t.header_addr - (header - kernel_info.file_addr) \in Int
        BY <1>3, <3>1, <3>3, Words
      <4>2. U32(t.header_addr - (header - kernel_info.file_addr)) \in Word
        BY <4>1, Wrapping
      <4>. QED  BY <3>1, <4>2
    <3>. HIDE DEF start, from
    <3>5. size = (IF t.load_end_addr = 0 THEN FileSize ELSE U32(t.load_end_addr - start))
      OBVIOUS
    <3>. HIDE DEF size
    <3>6. bss = (IF t.bss_end_addr = 0 THEN 0 ELSE U32(t.bss_end_addr - (start + size)))
      OBVIOUS
    <3>. HIDE DEF bss
    <3>7. CASE pc' = "fail" /\ kernel_info' = kernel_info
      BY <3>7
    <3>8. CASE /\ pc' = pc
               /\ kernel_info' = [kernel_info EXCEPT !.start = start, !.size = U32(size + bss), !.bss_size = bss]
               /\ load' = [load EXCEPT !.load_info = TRUE, !.load_start = from]
               /\ ~(t.load_end_addr # 0 /\ t.load_end_addr < start)
               /\ ~(t.bss_end_addr # 0 /\ t.bss_end_addr < U32(start + size))
      <4>1. /\ kernel_info'.start = start /\ kernel_info'.size = U32(size + bss) /\ kernel_info'.bss_size = bss
            /\ kernel_info'.file_addr = kernel_info.file_addr /\ kernel_info'.file_size = kernel_info.file_size
        BY <1>3, <3>8 DEF KernelInfo
      <4>2. load'.load_info
        BY <1>3, <3>8 DEF LoadLocals
      <4>3. start + FileSize <= LIMIT => bss <= U32(size + bss)
        BY <1>3, <3>1, <3>4, <3>5, <3>6, <3>8, AddressSizes
      <4>. QED  BY <1>1, <3>8, <4>1, <4>2, <4>3
    <3>. QED  BY <3>2, <3>7, <3>8
  <2>3. CASE EntryTag(t)
    BY <1>1, <1>3, <2>3 DEF EntryTag, LoadLocals
  <2>. QED  BY <1>1, <2>1, <2>2, <2>3
<1>6. kernel_info.file_size = FileSize /\ kernel_info.file_addr + FileSize <= LIMIT
  BY <1>0, <1>1 DEF ImageInv, FileFits, FileRead
<1>7. OneBlock => FileKept /\ OnlyFile
  BY <1>0, <1>1 DEF ImageInv, FileInMemory, FileRead
<1>8. FileKept' = FileKept /\ OnlyFile' = OnlyFile
  BY <1>1, <1>4, <1>5 DEF FileKept, OnlyFile, InFile
<1>9. (KernelFits /\ Copying /\ AllCopied /\ HeaderSeen /\ KernelInPlace)'
  <2>1. pc' \in {"file", "fail"} \cup FileRead
    BY <1>5 DEF FileRead
  <2>. QED  BY <2>1, NotYetPlaced
<1>10. FileFits' /\ FileInMemory'
  BY <1>4, <1>5, <1>6, <1>7, <1>8 DEF FileFits, FileInMemory, BeforeFile, FileRead
<1>11. SizesKnown'
  <2>1. ASSUME kernel_info' = kernel_info, load'.load_info = load.load_info, load'.load_start = load.load_start
        PROVE  SizesKnown'
    <3>1. OneBlock => /\ load.load_info => (kernel_info.start + FileSize <= LIMIT => kernel_info.bss_size <= kernel_info.size)
                      /\ ~load.load_info => /\ load.load_start = kernel_info.file_addr
                                            /\ segments = << >> => kernel_info.size = FileSize /\ kernel_info.bss_size = 0
                                            /\ segments # << >> => kernel_info.size = SizeOf(Len(segments))
      BY <1>0, <1>1 DEF ImageInv, SizesKnown
    <3>. QED  BY <1>4, <2>1, <3>1 DEF SizesKnown
  <2>2. ASSUME pc' = "fail" PROVE SizesKnown'
    BY <2>2 DEF SizesKnown
  <2>3. ASSUME load'.load_info, kernel_info'.start + FileSize <= LIMIT => kernel_info'.bss_size <= kernel_info'.size
        PROVE  SizesKnown'
    BY <1>4, <2>3 DEF SizesKnown
  <2>. QED  BY <1>5, <2>1, <2>2, <2>3
<1>. QED  BY <1>9, <1>10, <1>11 DEF ImageInv

(* The kernel has been given a place.                                      *)
LEMMA PlaceKernelImage == PlaceInv /\ PlaceInv' /\ ImageInv /\ PlaceKernel => ImageInv'
<1>0. SUFFICES ASSUME PlaceInv, PlaceInv', ImageInv, PlaceKernel PROVE ImageInv'
  OBVIOUS
<1>. DEFINE S == Start
            n == kernel_info.file_size
<1>1. /\ pc = "place" /\ i' = 1 /\ scenario' = scenario /\ load' = load /\ memory' = memory
      /\ kernel_info' = [kernel_info EXCEPT !.start = S]
      /\ pc' \in {"fail", "copy"}
      /\ pc' = "copy" => kernel_info.size # 0 /\ FindUp(S, n, 1) = S
  BY <1>0 DEF PlaceKernel, given, FindUp
<1>2. /\ kernel_info \in KernelInfo /\ mmap \in Seq(MapBlock) /\ n \in Nat /\ kernel_info.size \in Nat
      /\ load \in LoadLocals
  BY <1>0, <1>1, Fields DEF PlaceInv, PlaceType, HasLocals
<1>3. load.load_info => S = kernel_info.start
  BY DEF Start, Lowest, Highest, Moves
<1>. HIDE DEF S
<1>4. /\ kernel_info'.start = S /\ kernel_info'.size = kernel_info.size /\ kernel_info'.bss_size = kernel_info.bss_size
      /\ kernel_info'.file_addr = kernel_info.file_addr /\ kernel_info'.file_size = kernel_info.file_size
  BY <1>1, <1>2 DEF KernelInfo
<1>5. /\ FileSize' = FileSize /\ OneBlock' = OneBlock /\ segments' = segments /\ Copied' = Copied
      /\ SizeOf(Len(segments))' = SizeOf(Len(segments))
  BY <1>1 DEF FileSize, OneBlock, segments, SizeOf, Copied
<1>6. kernel_info.file_size = FileSize /\ kernel_info.file_addr + FileSize <= LIMIT
  BY <1>0, <1>1 DEF ImageInv, FileFits, FileRead
<1>7. OneBlock => FileKept /\ OnlyFile
  BY <1>0, <1>1 DEF ImageInv, FileInMemory, FileRead
<1>8. FileKept' = FileKept /\ OnlyFile' = OnlyFile /\ (OnlyFile => OnlyBoth')
  BY <1>1, <1>4, <1>5 DEF FileKept, OnlyFile, OnlyBoth, InFile
<1>9. FileFits' /\ FileInMemory'
  BY <1>1, <1>4, <1>5, <1>6 DEF FileFits, FileInMemory, BeforeFile, FileRead
<1>10. SizesKnown'
  <2>1. OneBlock => /\ load.load_info => (kernel_info.start + FileSize <= LIMIT => kernel_info.bss_size <= kernel_info.size)
                    /\ ~load.load_info => /\ load.load_start = kernel_info.file_addr
                                          /\ segments = << >> => kernel_info.size = FileSize /\ kernel_info.bss_size = 0
                                          /\ segments # << >> => kernel_info.size = SizeOf(Len(segments))
    BY <1>0, <1>1 DEF ImageInv, SizesKnown
  <2>. QED  BY <1>1, <1>3, <1>4, <1>5, <2>1 DEF SizesKnown
<1>11. KernelFits'
  <2>1. ASSUME pc' = "copy", Fits' PROVE S + n <= LIMIT /\ kernel_info.size > 0
    <3>1. S # LIMIT /\ S \in Nat
      <4>1. kernel_info' \in KernelInfo
        BY <1>0 DEF PlaceInv, PlaceType
      <4>. QED  BY <1>4, <2>1, <4>1 DEF Fits, KernelInfo
    <3>2. S + n <= LIMIT
      BY <1>1, <1>2, <2>1, <3>1, FoundFree
    <3>. QED  BY <1>1, <1>2, <2>1, <3>2
  <2>. QED  BY <1>1, <1>4, <2>1 DEF KernelFits
<1>12. Copying'
  <2>1. Ordinary' => OneBlock
    BY <1>5 DEF Ordinary, OneBlock
  <2>2. 1 .. 1 - 1 = {} /\ 1 <= Len(segments) + 1
    <3>1. Len(segments) \in Nat
      BY <1>0, Sums, Fields
    <3>. QED  BY <3>1
  <2>3. i' <= Len(segments') + 1 /\ \A k \in 1 .. i' - 1 : InPlace(SegmentPiece(k))'
    BY <1>1, <1>5, <2>2
  <2>. QED  BY <1>5, <1>7, <1>8, <2>1, <2>3 DEF Copying
<1>13. AllCopied' /\ HeaderSeen' /\ KernelInPlace'
  BY <1>1 DEF AllCopied, HeaderSeen, KernelInPlace
<1>. QED  BY <1>9, <1>10, <1>11, <1>12, <1>13 DEF ImageInv

(* While the kernel is copied: it and its file are below the limit, and    *)
(* apart from what they must not touch.                                    *)
LEMMA KernelFacts ==
  ASSUME PlaceInv, ImageInv, pc \in {"copy", "clean"}, Fits, Ordinary
  PROVE  /\ OneBlock /\ kernel_info.file_size = FileSize /\ kernel_info.file_addr + FileSize <= LIMIT
         /\ kernel_info.start + kernel_info.size <= LIMIT /\ kernel_info.size > 0 /\ kernel_info.size <= FileSize
         /\ \A a \in Loader : ~InKernel(a)
         /\ ~Copied => \A a \in Word : InKernel(a) => ~InFile(a)
<1>1. /\ kernel_info.start \in Nat /\ kernel_info.size \in Nat /\ kernel_info.file_addr \in Nat
      /\ kernel_info.file_size \in Nat /\ FileSize \in Nat /\ LIMIT \in Nat
  BY Fields
<1>2. /\ kernel_info.file_size = FileSize /\ kernel_info.file_addr + FileSize <= LIMIT
      /\ kernel_info.start + kernel_info.file_size <= LIMIT /\ kernel_info.size > 0
      /\ kernel_info.size <= kernel_info.file_size
  BY DEF ImageInv, FileFits, KernelFits, Fits
<1>3. \A a \in Nat : (InKernel(a) <=> a \in Kernel) /\ (InFile(a) <=> a \in File)
  BY <1>1, <1>2 DEF InKernel, InFile, Kernel, File, Region
<1>4. \A a \in Loader : a \in Nat
  BY MultibootAssumption
<1>5. \A a \in Loader : ~InKernel(a)
  BY <1>3, <1>4 DEF Ordinary
<1>6. ~Copied => \A a \in Word : InKernel(a) => ~InFile(a)
  BY <1>3, Words DEF Ordinary, Copied
<1>. QED  BY <1>1, <1>2, <1>5, <1>6 DEF Ordinary, OneBlock

(* A kernel that is not loaded segment by segment has one piece.           *)
LEMMA OnePiece ==
  ASSUME PlaceInv, ImageInv, pc \in {"copy", "clean"}, Fits, Ordinary, Copied,
         NEW length, length = kernel_info.size - kernel_info.bss_size,
         NEW from, from = load.load_start - kernel_info.file_addr
  PROVE  /\ length \in Nat /\ load.load_start \in Nat /\ from \in Int
         /\ Pieces = {Piece(0, from, length, kernel_info.size)}
         /\ length > 0 => from >= 0 /\ from + length <= FileSize
<1>1. /\ kernel_info.start \in Nat /\ kernel_info.size \in Nat /\ kernel_info.file_addr \in Nat
      /\ kernel_info.bss_size \in Nat /\ FileSize \in Nat /\ LIMIT \in Nat
  BY Fields
<1>2. load.load_start \in Nat /\ load.load_info \in BOOLEAN
  BY DEF PlaceInv, PlaceType, HasLocals, Placed, LoadLocals
<1>3. /\ OneBlock /\ kernel_info.start + FileSize <= LIMIT
  BY KernelFacts DEF ImageInv, FileFits, KernelFits
<1>4. /\ load.load_info => kernel_info.bss_size <= kernel_info.size
      /\ ~load.load_info => /\ segments = << >> /\ load.load_start = kernel_info.file_addr
                            /\ kernel_info.size = FileSize /\ kernel_info.bss_size = 0
  BY <1>3 DEF ImageInv, SizesKnown, Copied
<1>5. length \in Nat /\ from \in Int
  BY <1>1, <1>2, <1>4
<1>6. Pieces = {Piece(0, from, length, kernel_info.size)}
  <2>1. CASE load.load_info
    BY <2>1 DEF Pieces
  <2>2. CASE ~load.load_info
    <3>1. from = 0 /\ length = kernel_info.size
      BY <1>1, <1>4, <2>2
    <3>. QED  BY <1>4, <2>2, <3>1 DEF Pieces
  <2>. QED  BY <2>1, <2>2
<1>7. length > 0 => from >= 0 /\ from + length <= FileSize
  <2>. DEFINE p == Piece(0, from, length, kernel_info.size)
  <2>1. p \in Pieces /\ p.length = length /\ p.from = from
    BY <1>6 DEF Piece
  <2>. HIDE DEF p
  <2>. QED  BY <2>1 DEF Ordinary
<1>. QED  BY <1>2, <1>5, <1>6, <1>7

(* The pieces lie inside the kernel.                                       *)
LEMMA PiecesWithin ==
  ASSUME PlaceInv, ImageInv, pc \in {"copy", "clean"}, Fits, Ordinary, NEW p \in Pieces
  PROVE  p.at \in Nat /\ p.total \in Nat /\ p.at + p.total <= kernel_info.size
<1>1. kernel_info.size \in Nat
  BY Fields
<1>2. CASE Copied
  <2>1. Pieces = {Piece(0, load.load_start - kernel_info.file_addr, kernel_info.size - kernel_info.bss_size, kernel_info.size)}
    BY <1>2, OnePiece
  <2>. QED  BY <1>1, <2>1 DEF Piece
<1>3. CASE ~Copied
  <2>1. PICK k \in DOMAIN segments : p = SegmentPiece(k)
    BY <1>3 DEF Pieces, Copied
  <2>2. /\ segments[k] \in [offset : Nat, filesz : Nat, memsz : Nat]
        /\ SizeOf(k - 1) \in Nat /\ SizeOf(k - 1) + segments[k].memsz <= SizeOf(Len(segments))
    <3>1. scenario \in Scenarios
      BY Fields
    <3>2. k \in 1 .. Len(segments)
      BY <3>1, ScenarioAssumption DEF segments
    <3>. QED  BY <3>1, <3>2, Sums
  <2>3. kernel_info.size = SizeOf(Len(segments))
    BY <1>3, KernelFacts DEF ImageInv, SizesKnown, Copied
  <2>. QED  BY <2>1, <2>2, <2>3 DEF SegmentPiece, Piece
<1>. QED  BY <1>2, <1>3

(* What a step that only writes memory leaves alone.                       *)
SameKernel == scenario' = scenario /\ kernel_info' = kernel_info /\ load' = load

(* The words that do not look at memory stay the same.                     *)
LEMMA SameKernelWords ==
  ASSUME SameKernel
  PROVE  /\ OneBlock' = OneBlock /\ Copied' = Copied /\ Fits' = Fits /\ Ordinary' = Ordinary /\ Pieces' = Pieces
         /\ FileSize' = FileSize /\ segments' = segments /\ (\A n : SizeOf(n)' = SizeOf(n))
         /\ (\A k : SegmentPiece(k)' = SegmentPiece(k))
         /\ (\A p : HeaderIn(p)' = HeaderIn(p))
         /\ (\A a : InFile(a)' = InFile(a) /\ InKernel(a)' = InKernel(a))
         /\ kernel_info' = kernel_info /\ load' = load
<1>. USE DEF SameKernel
<1>1. FileSize' = FileSize /\ segments' = segments /\ \A n : SizeOf(n)' = SizeOf(n)
  BY DEF FileSize, segments, SizeOf
<1>2. \A k : SegmentPiece(k)' = SegmentPiece(k)
  BY <1>1 DEF SegmentPiece
<1>3. OneBlock' = OneBlock /\ Copied' = Copied /\ Fits' = Fits
  BY <1>1 DEF OneBlock, Copied, Fits
<1>4. \A a : InFile(a)' = InFile(a) /\ InKernel(a)' = InKernel(a)
  BY <1>1 DEF InFile, InKernel
<1>5. Pieces' = Pieces
  BY <1>1, <1>2 DEF Pieces
<1>6. \A p : HeaderIn(p)' = HeaderIn(p)
  BY DEF HeaderIn
<1>7. Kernel' = Kernel /\ File' = File
  BY DEF Kernel, File
<1>8. Ordinary' = Ordinary
  BY <1>1, <1>5, <1>7 DEF Ordinary
<1>. QED  BY <1>1, <1>2, <1>3, <1>4, <1>5, <1>6, <1>8

(* The parts of the invariant that do not look at memory.                  *)
LEMMA WriteStep ==
  ASSUME PlaceInv, ImageInv, SameKernel, pc = "copy", pc' \in {"copy", "clean", "wild"},
         Fits /\ Ordinary => pc' # "wild",
         pc' = "copy" => Copying', pc' = "clean" => AllCopied'
  PROVE  ImageInv'
<1>1. /\ OneBlock' = OneBlock /\ Copied' = Copied /\ Fits' = Fits /\ Ordinary' = Ordinary /\ Pieces' = Pieces
      /\ FileSize' = FileSize /\ segments' = segments /\ (\A n : SizeOf(n)' = SizeOf(n))
      /\ kernel_info' = kernel_info /\ load' = load
  BY SameKernelWords
<1>2. FileFits' /\ KernelFits'
  BY <1>1 DEF ImageInv, FileFits, KernelFits, FileRead
<1>3. FileInMemory'
  BY DEF FileInMemory, BeforeFile, FileRead
<1>4. SizesKnown'
  BY <1>1 DEF ImageInv, SizesKnown
<1>5. Copying' /\ AllCopied'
  BY DEF Copying, AllCopied
<1>6. HeaderSeen' /\ KernelInPlace'
  BY <1>1 DEF HeaderSeen, KernelInPlace
<1>. QED  BY <1>2, <1>3, <1>4, <1>5, <1>6 DEF ImageInv

(* The kernel is moved out of its file and its uninitialised data cleared. *)
LEMMA MoveKernelImage == PlaceInv /\ ImageInv /\ MoveKernel => ImageInv'
<1>0. SUFFICES ASSUME PlaceInv, ImageInv, MoveKernel PROVE ImageInv'
  OBVIOUS
<1>. DEFINE start == kernel_info.start
            bss == kernel_info.bss_size
            length == kernel_info.size - bss
            size == U32(length)
            from == load.load_start
<1>1. /\ pc = "copy" /\ ~AsELF /\ SameKernel
      /\ memory' = memset(memmove(memory, start, from, size), start + size, bss)
      /\ pc' = IF Overwrites(start, size + bss) THEN "wild" ELSE "clean"
  BY <1>0 DEF MoveKernel, given, SameKernel
<1>2. ASSUME Fits, Ordinary PROVE pc' # "wild" /\ AllCopied'
  <2>1. /\ OneBlock /\ kernel_info.file_addr + FileSize <= LIMIT
        /\ start + kernel_info.size <= LIMIT /\ \A a \in Loader : ~InKernel(a)
    BY <1>0, <1>1, <1>2, KernelFacts
  <2>2. FileKept /\ (Copied => OnlyFile)
    BY <1>0, <1>1, <1>2 DEF ImageInv, Copying
  <2>3. Copied
    BY <1>0, <1>1, <2>1, <2>2, Recognised DEF AsELF, Copied
  <2>4. /\ start \in Nat /\ kernel_info.size \in Nat /\ kernel_info.file_addr \in Nat
        /\ bss \in Nat /\ FileSize \in Nat /\ LIMIT \in Nat
    BY <1>0, Fields
  <2>. DEFINE p == Piece(0, from - kernel_info.file_addr, length, kernel_info.size)
  <2>5. /\ length \in Nat /\ from \in Nat /\ Pieces = {p}
        /\ length > 0 => from - kernel_info.file_addr >= 0 /\ (from - kernel_info.file_addr) + length <= FileSize
    BY <1>0, <1>1, <1>2, <2>3, OnePiece
  <2>6. size = length
    <3>1. length \in Word
      BY <2>1, <2>4, <2>5 DEF Word
    <3>. QED  BY <3>1, Words
  <2>. HIDE DEF size
  <2>7. Room(start, from, length) /\ start + length \in Nat /\ (start + length) + bss <= LIMIT /\ length + bss = kernel_info.size
    BY <2>1, <2>4, <2>5 DEF Room
  <2>. DEFINE m == memmove(memory, start, from, length)
  <2>8. /\ m \in [Word -> Int]
        /\ \A a \in Word : m[a] = IF start <= a /\ a < start + length THEN memory[from + (a - start)] ELSE memory[a]
    BY <2>2, <2>7, memmoveIs DEF FileKept
  <2>9. memory' = memset(m, start + length, bss)
    BY <1>1, <2>6
  <2>. HIDE DEF m
  <2>10. /\ memory' \in [Word -> Int]
         /\ \A a \in Word : memory'[a] = IF start + length <= a /\ a < (start + length) + bss THEN 0 ELSE m[a]
    BY <2>4, <2>7, <2>8, <2>9, memsetIs
  <2>11. ASSUME NEW k \in 0 .. kernel_info.size - 1 PROVE memory'[start + 0 + k] = CellOf(p, k)
    <3>. DEFINE a == start + k
    <3>1. a \in Word /\ start + 0 + k = a /\ a - start = k
      BY <2>1, <2>4 DEF Word
    <3>2. CellOf(p, k) = IF k < length THEN (from - kernel_info.file_addr) + k + 1 ELSE 0
      BY DEF CellOf, Piece
    <3>3. CASE k < length
      <4>. DEFINE b == from + k
      <4>1. memory'[a] = memory[b]
        <5>1. ~(start + length <= a) /\ start <= a /\ a < start + length
          BY <2>4, <2>5, <3>3
        <5>2. memory'[a] = m[a]
          BY <2>10, <3>1, <5>1
        <5>3. m[a] = memory[from + (a - start)]
          BY <2>8, <3>1, <5>1
        <5>. QED  BY <3>1, <5>2, <5>3
      <4>2. b \in Word /\ InFile(b)
        BY <2>1, <2>4, <2>5, <3>3 DEF Word, InFile
      <4>3. memory[b] = b - kernel_info.file_addr + 1
        BY <2>2, <4>2 DEF FileKept
      <4>4. b - kernel_info.file_addr + 1 = (from - kernel_info.file_addr) + k + 1
        BY <2>4, <2>5
      <4>. QED  BY <3>1, <3>2, <3>3, <4>1, <4>3, <4>4
    <3>4. CASE ~(k < length)
      <4>1. start + length <= a /\ a < (start + length) + bss
        BY <2>4, <2>5, <2>7, <3>4
      <4>. QED  BY <2>10, <3>1, <3>2, <3>4, <4>1
    <3>. QED  BY <3>3, <3>4
  <2>12. \A q \in Pieces : InPlace(q)'
    <3>1. p.at = 0 /\ p.total = kernel_info.size
      BY DEF Piece
    <3>. HIDE DEF p
    <3>. QED  BY <1>1, <2>5, <2>11, <3>1 DEF InPlace, SameKernel
  <2>13. ASSUME NEW a \in Word, ~InFile(a), ~InKernel(a) PROVE memory'[a] = Other
    <3>1. a \in Nat /\ ~(start <= a /\ a < start + kernel_info.size)
      BY <2>13, Words DEF InKernel
    <3>2. ~(start <= a /\ a < start + length) /\ ~(start + length <= a /\ a < (start + length) + bss)
      BY <2>4, <2>5, <2>7, <3>1
    <3>3. memory'[a] = memory[a]
      BY <2>8, <2>10, <3>2
    <3>. QED  BY <2>2, <2>3, <2>13, <3>3 DEF OnlyFile
  <2>14. AllCopied'
    <3>1. Pieces' = Pieces /\ (\A a : InFile(a)' = InFile(a) /\ InKernel(a)' = InKernel(a))
      BY <1>1, SameKernelWords
    <3>2. OnlyBoth'
      BY <2>13, <3>1 DEF OnlyBoth
    <3>. QED  BY <2>10, <2>12, <3>1, <3>2 DEF AllCopied
  <2>15. ~Overwrites(start, size + bss)
    <3>1. ~\E a \in Loader : start <= a /\ a < start + kernel_info.size
      BY <2>1 DEF InKernel
    <3>. QED  BY <2>1, <2>4, <2>6, <2>7, <3>1, OverwritesIs
  <2>. QED  BY <1>1, <2>14, <2>15
<1>3. pc' \in {"copy", "clean", "wild"}
  BY <1>1
<1>4. AllCopied'
  <2>1. Fits' = Fits /\ Ordinary' = Ordinary
    BY <1>1, SameKernelWords
  <2>. QED  BY <1>2, <2>1 DEF AllCopied
<1>5. pc' # "copy"
  BY <1>1
<1>. QED  BY <1>0, <1>1, <1>2, <1>3, <1>4, <1>5, WriteStep

(* A segment lies behind the ones before it.                               *)
LEMMA SegmentsApart ==
  ASSUME scenario \in Scenarios, NEW n \in 1 .. Len(segments), NEW k \in 1 .. n - 1
  PROVE  /\ segments[k].memsz \in Nat /\ SizeOf(k - 1) \in Nat
         /\ SizeOf(k - 1) + segments[k].memsz <= SizeOf(n - 1)
<1>1. segments \in Seq([offset : Nat, filesz : Nat, memsz : Nat])
  BY ScenarioAssumption DEF segments
<1>. DEFINE f == [l \in DOMAIN segments |-> segments[l].memsz]
<1>2. Len(segments) \in Nat /\ DOMAIN segments = 1 .. Len(segments)
  BY <1>1
<1>3. \A l \in 1 .. Len(segments) : f[l] \in Nat /\ f[l] = segments[l].memsz
  <2>1. ASSUME NEW l \in 1 .. Len(segments) PROVE segments[l] \in [offset : Nat, filesz : Nat, memsz : Nat]
    BY <1>1, ElementOfSeq
  <2>. QED  BY <1>2, <2>1
<1>. HIDE DEF f
<1>4. n - 1 \in Nat /\ k \in 1 .. Len(segments) /\ \A l \in 1 .. n - 1 : f[l] \in Nat
  <2>1. n \in Nat /\ n > 0 /\ n <= Len(segments)
    BY <1>2
  <2>2. \A l \in 1 .. n - 1 : l \in 1 .. Len(segments)
    BY <1>2, <2>1
  <2>. QED  BY <1>3, <2>1, <2>2
<1>5. SumTo(f, k - 1) \in Nat /\ SumTo(f, k) = SumTo(f, k - 1) + f[k] /\ SumTo(f, k) <= SumTo(f, n - 1)
  BY <1>4, SumToWithin
<1>6. \A l : SizeOf(l) = SumTo(f, l)
  BY DEF SizeOf, f
<1>. QED  BY <1>3, <1>4, <1>5, <1>6

(* A segment is put behind the ones before it; the file stays as it is.    *)
LEMMA LoadSegmentImage == PlaceInv /\ ImageInv /\ LoadSegment => ImageInv'
<1>0. SUFFICES ASSUME PlaceInv, ImageInv, LoadSegment PROVE ImageInv'
  OBVIOUS
<1>. DEFINE start == kernel_info.start
            file == kernel_info.file_addr
            filesz == segments[i].filesz
            memsz == segments[i].memsz
            offset == segments[i].offset
            at == SizeOf(i - 1)
            to == U32(start + at)
            from == U32(file + offset)
<1>1. /\ pc = "copy" /\ AsELF /\ i <= Len(segments) /\ i' = i + 1 /\ SameKernel
      /\ memory' = memset(memmove(memory, to, from, filesz), U32(to + filesz), memsz - filesz)
      /\ pc' = IF ~IsELF(memory') \/ Overwrites(to, memsz) THEN "wild" ELSE "copy"
  BY <1>0 DEF LoadSegment, given, SameKernel
<1>2. ASSUME Fits, Ordinary PROVE pc' # "wild" /\ Copying'
  <2>1. /\ OneBlock /\ file + FileSize <= LIMIT
        /\ start + kernel_info.size <= LIMIT /\ (\A a \in Loader : ~InKernel(a))
        /\ ~Copied => \A a \in Word : InKernel(a) => ~InFile(a)
    BY <1>0, <1>1, <1>2, KernelFacts
  <2>2. ~Copied /\ segments # << >> /\ ~load.load_info
    BY <1>1 DEF AsELF, IsELF, Copied
  <2>3. FileKept /\ OnlyBoth /\ \A k \in 1 .. i - 1 : InPlace(SegmentPiece(k))
    BY <1>0, <1>1, <1>2, <2>2 DEF ImageInv, Copying
  <2>4. /\ start \in Nat /\ kernel_info.size \in Nat /\ file \in Nat /\ FileSize \in Nat /\ LIMIT \in Nat
        /\ i \in Nat \ {0} /\ scenario \in Scenarios
    BY <1>0, Fields
  <2>5. i \in 1 .. Len(segments) /\ Len(segments) \in Nat
    BY <1>1, <2>4, Sums
  <2>6. /\ filesz \in Nat /\ memsz \in Nat /\ offset \in Nat /\ filesz <= memsz
        /\ at \in Nat /\ at + memsz <= kernel_info.size
    <3>1. kernel_info.size = SizeOf(Len(segments))
      BY <1>0, <1>1, <2>1, <2>2 DEF ImageInv, SizesKnown
    <3>2. /\ segments[i] \in [offset : Nat, filesz : Nat, memsz : Nat] /\ segments[i].filesz <= segments[i].memsz
          /\ SizeOf(i - 1) \in Nat /\ SizeOf(i - 1) + segments[i].memsz <= SizeOf(Len(segments))
      BY <2>4, <2>5, Sums
    <3>. QED  BY <3>1, <3>2
  <2>7. filesz > 0 => offset + filesz <= FileSize
    <3>1. i \in DOMAIN segments
      BY <2>4, <2>5, ScenarioAssumption DEF segments
    <3>2. SegmentPiece(i) \in Pieces /\ SegmentPiece(i).length = filesz /\ SegmentPiece(i).from = offset
      BY <2>2, <3>1 DEF Pieces, SegmentPiece, Piece
    <3>. QED  BY <1>2, <3>2 DEF Ordinary
  <2>. HIDE DEF at, filesz, memsz, offset
  <2>8. to = start + at /\ U32(to + filesz) = to + filesz
    <3>1. start + at \in Word /\ (start + at) + filesz \in Word
      BY <2>1, <2>4, <2>6 DEF Word
    <3>. QED  BY <3>1, Words
  <2>9. from \in Nat /\ (filesz > 0 => from = file + offset)
    <3>1. file + offset \in Int
      BY <2>4, <2>6
    <3>2. filesz > 0 => file + offset \in Word
      BY <2>1, <2>4, <2>6, <2>7 DEF Word
    <3>. QED  BY <3>1, <3>2, Words, Wrapped
  <2>. HIDE DEF to, from
  <2>10. /\ to \in Nat /\ Room(to, from, filesz) /\ to + filesz \in Nat /\ memsz - filesz \in Nat
         /\ (to + filesz) + (memsz - filesz) = to + memsz /\ to + memsz <= LIMIT
    BY <2>1, <2>4, <2>6, <2>7, <2>8, <2>9 DEF Room
  <2>. DEFINE m == memmove(memory, to, from, filesz)
  <2>11. /\ m \in [Word -> Int]
         /\ \A a \in Word : m[a] = IF to <= a /\ a < to + filesz THEN memory[from + (a - to)] ELSE memory[a]
    BY <2>3, <2>10, memmoveIs DEF FileKept
  <2>12. memory' = memset(m, to + filesz, memsz - filesz)
    BY <1>1, <2>8 DEF filesz, memsz
  <2>. HIDE DEF m
  <2>13. /\ memory' \in [Word -> Int]
         /\ \A a \in Word : memory'[a] = IF to + filesz <= a /\ a < to + memsz THEN 0 ELSE m[a]
    <3>1. (to + filesz) + (memsz - filesz) <= LIMIT
      BY <2>10
    <3>2. /\ memset(m, to + filesz, memsz - filesz) \in [Word -> Int]
          /\ \A a \in Word : memset(m, to + filesz, memsz - filesz)[a] =
                IF to + filesz <= a /\ a < (to + filesz) + (memsz - filesz) THEN 0 ELSE m[a]
      BY <2>10, <2>11, <3>1, memsetIs
    <3>. QED  BY <2>10, <2>12, <3>2
  <2>14. ASSUME NEW a \in Word, ~(to <= a /\ a < to + memsz) PROVE memory'[a] = memory[a]
    <3>1. a \in Nat
      BY Words
    <3>2. ~(to <= a /\ a < to + filesz) /\ ~(to + filesz <= a /\ a < to + memsz)
      BY <2>6, <2>10, <2>14, <3>1
    <3>. QED  BY <2>11, <2>13, <3>2
  <2>15. \A a \in Word : to <= a /\ a < to + memsz => InKernel(a)
    <3>1. \A a \in Word : a \in Nat
      BY Words
    <3>. QED  BY <2>4, <2>6, <2>8, <3>1 DEF InKernel
  <2>16. /\ Copied' = Copied /\ segments' = segments /\ (\A k : SegmentPiece(k)' = SegmentPiece(k))
         /\ (\A a : InFile(a)' = InFile(a) /\ InKernel(a)' = InKernel(a)) /\ kernel_info' = kernel_info
         /\ FileSize' = FileSize
    BY <1>1, SameKernelWords
  <2>17. FileKept' /\ OnlyBoth'
    <3>1. ASSUME NEW a \in Word, InFile(a) PROVE memory'[a] = a - file + 1
      <4>1. ~(to <= a /\ a < to + memsz)
        BY <2>1, <2>2, <2>15, <3>1
      <4>. QED  BY <2>3, <2>14, <3>1, <4>1 DEF FileKept
    <3>2. ASSUME NEW a \in Word, ~InFile(a), ~InKernel(a) PROVE memory'[a] = Other
      BY <2>3, <2>14, <2>15, <3>2 DEF OnlyBoth
    <3>. QED  BY <2>13, <2>16, <3>1, <3>2 DEF FileKept, OnlyBoth
  <2>18. ASSUME NEW k \in 1 .. i - 1 PROVE InPlace(SegmentPiece(k))'
    <3>. DEFINE q == SegmentPiece(k)
    <3>1. q.at \in Nat /\ q.total \in Nat /\ q.at + q.total <= at
      <4>1. q.at = SizeOf(k - 1) /\ q.total = segments[k].memsz
        BY DEF SegmentPiece, Piece
      <4>2. segments[k].memsz \in Nat /\ SizeOf(k - 1) \in Nat /\ SizeOf(k - 1) + segments[k].memsz <= SizeOf(i - 1)
        BY <2>4, <2>5, SegmentsApart
      <4>. QED  BY <4>1, <4>2 DEF at
    <3>2. q' = q /\ InPlace(q)
      BY <2>3, <2>16
    <3>. HIDE DEF q
    <3>3. ASSUME NEW l \in 0 .. q.total - 1 PROVE memory'[start + q.at + l] = CellOf(q, l)
      <4>. DEFINE a == start + q.at + l
      <4>1. a \in Word /\ ~(to <= a)
        BY <2>1, <2>4, <2>6, <2>8, <3>1 DEF Word
      <4>2. memory'[a] = memory[a]
        BY <2>14, <4>1
      <4>. QED  BY <3>2, <4>2 DEF InPlace
    <3>4. InPlace(q)'
      BY <2>16, <3>2, <3>3 DEF InPlace
    <3>. QED  BY <3>4 DEF q
  <2>19. ASSUME NEW j, j = i PROVE InPlace(SegmentPiece(j))'
    <3>. DEFINE q == SegmentPiece(j)
    <3>1. q.at = at /\ q.from = offset /\ q.length = filesz /\ q.total = memsz
      BY <2>19 DEF SegmentPiece, Piece, at, offset, filesz, memsz
    <3>. HIDE DEF q
    <3>2. ASSUME NEW l \in 0 .. memsz - 1 PROVE memory'[start + at + l] = CellOf(q, l)
      <4>. DEFINE a == start + at + l
      <4>1. a \in Word /\ a = to + l /\ a - to = l
        BY <2>1, <2>4, <2>6, <2>8 DEF Word
      <4>2. CASE l < filesz
        <5>. DEFINE b == file + offset + l
        <5>1. ~(to + filesz <= a) /\ to <= a /\ a < to + filesz
          BY <2>4, <2>6, <2>10, <4>1, <4>2
        <5>2. filesz > 0 /\ from = file + offset
          BY <2>6, <2>9, <4>2
        <5>3. memory'[a] = memory[b]
          BY <2>11, <2>13, <4>1, <5>1, <5>2
        <5>4. b \in Word /\ InFile(b) /\ b - file + 1 = offset + l + 1
          BY <2>1, <2>4, <2>6, <2>7, <4>2, <5>2 DEF Word, InFile
        <5>5. memory[b] = b - file + 1
          BY <2>3, <5>4 DEF FileKept
        <5>6. CellOf(q, l) = offset + l + 1
          BY <3>1, <4>2 DEF CellOf
        <5>. QED  BY <5>3, <5>4, <5>5, <5>6
      <4>3. CASE ~(l < filesz)
        <5>1. to + filesz <= a /\ a < to + memsz
          BY <2>6, <2>10, <4>1, <4>3
        <5>2. CellOf(q, l) = 0
          BY <3>1, <4>3 DEF CellOf
        <5>. QED  BY <2>13, <4>1, <5>1, <5>2
      <4>. QED  BY <4>2, <4>3
    <3>3. q' = q
      BY <2>16 DEF q
    <3>4. InPlace(q)'
      BY <2>16, <3>1, <3>2, <3>3 DEF InPlace
    <3>. QED  BY <3>4 DEF q
  <2>20. Copying'
    <3>1. i' <= Len(segments') + 1
      BY <1>1, <2>5, <2>16
    <3>2. ASSUME NEW k \in 1 .. i' - 1 PROVE InPlace(SegmentPiece(k))'
      <4>1. k \in 1 .. i - 1 \/ k = i
        BY <1>1, <2>4
      <4>. QED  BY <2>18, <2>19, <4>1
    <3>. QED  BY <2>2, <2>16, <2>17, <3>1, <3>2 DEF Copying
  <2>21. IsELF(memory')
    <3>1. ASSUME NEW k \in 0 .. ElfHeaders - 1 PROVE memory'[U32(file + k)] = k + 1
      <4>1. ElfHeaders \in Nat /\ ElfHeaders <= FileSize
        BY <2>2, <2>4, ScenarioAssumption, MultibootAssumption DEF FileSize, segments
      <4>. DEFINE a == file + k
      <4>2. a \in Word /\ InFile(a) /\ a - file + 1 = k + 1
        BY <2>1, <2>4, <4>1 DEF Word, InFile
      <4>. HIDE DEF a
      <4>3. U32(a) = a
        BY <4>2, Words
      <4>4. memory'[a] = a - file + 1
        BY <2>16, <2>17, <4>2 DEF FileKept
      <4>. QED  BY <4>2, <4>3, <4>4 DEF a
    <3>. QED  BY <2>2, <3>1 DEF IsELF
  <2>22. ~Overwrites(to, memsz)
    <3>1. \A a \in Loader : a \in Word
      BY MultibootAssumption DEF Word, LIMIT
    <3>2. ~\E a \in Loader : to <= a /\ a < to + memsz
      BY <2>1, <2>15, <3>1
    <3>. QED  BY <2>6, <2>10, <3>2, OverwritesIs
  <2>. QED  BY <1>1, <2>20, <2>21, <2>22 DEF memsz
<1>3. pc' \in {"copy", "clean", "wild"} /\ pc' # "clean"
  BY <1>1
<1>4. Copying'
  <2>1. Fits' = Fits /\ Ordinary' = Ordinary
    BY <1>1, SameKernelWords
  <2>. QED  BY <1>2, <2>1 DEF Copying
<1>. QED  BY <1>0, <1>1, <1>2, <1>3, <1>4, WriteStep

(* All segments are in place.                                              *)
LEMMA SegmentsLoadedImage == PlaceInv /\ ImageInv /\ SegmentsLoaded => ImageInv'
<1>0. SUFFICES ASSUME PlaceInv, ImageInv, SegmentsLoaded PROVE ImageInv'
  OBVIOUS
<1>1. pc = "copy" /\ AsELF /\ i > Len(segments) /\ pc' = "clean" /\ SameKernel /\ SameImage
  BY <1>0 DEF SegmentsLoaded, given, SameKernel, SameImage
<1>2. /\ Fits' = Fits /\ Ordinary' = Ordinary /\ Pieces' = Pieces /\ OnlyBoth' = OnlyBoth /\ memory' = memory
      /\ (\A p : InPlace(p)' = InPlace(p))
  BY <1>1, SameWords DEF SameImage
<1>3. ASSUME Fits, Ordinary PROVE memory \in [Word -> Int] /\ OnlyBoth /\ \A p \in Pieces : InPlace(p)
  <2>1. ~Copied /\ segments # << >> /\ ~load.load_info
    BY <1>1 DEF AsELF, IsELF, Copied
  <2>2. FileKept /\ OnlyBoth /\ i <= Len(segments) + 1 /\ \A k \in 1 .. i - 1 : InPlace(SegmentPiece(k))
    BY <1>0, <1>1, <1>3, <2>1 DEF ImageInv, Copying
  <2>3. DOMAIN segments = 1 .. Len(segments) /\ Len(segments) \in Nat /\ i \in Nat
    BY <1>0, Fields, ScenarioAssumption DEF segments
  <2>4. \A k \in DOMAIN segments : k \in 1 .. i - 1
    BY <1>1, <2>2, <2>3
  <2>. QED  BY <2>1, <2>2, <2>4 DEF Pieces, FileKept
<1>4. AllCopied'
  BY <1>2, <1>3 DEF AllCopied
<1>. QED  BY <1>0, <1>1, <1>4, WriteStep

(* What CleanUp makes of memory.                                           *)
Clearing(m, start, size, file, n) ==
    LET after == CleanupStart(U32(start + size), file)
        m1 == IF after < file + n THEN memset(m, after, (file + n) - after) ELSE m
    IN  IF file < start THEN memset(m1, file, Min({start - file, n})) ELSE m1

BelowLimit(a, n) == a \in Nat /\ n \in Nat /\ a + n <= LIMIT

(* The rest of the file is cleared: what is below the kernel and what is   *)
(* behind it.                                                              *)
LEMMA Cleared ==
  ASSUME NEW m, m \in [Word -> Int], NEW start, NEW size, BelowLimit(start, size), NEW file, NEW n, BelowLimit(file, n),
         NEW m2, m2 = Clearing(m, start, size, file, n)
  PROVE  /\ m2 \in [Word -> Int]
         /\ \A a \in Word : m2[a] = IF file <= a /\ a < file + n /\ ~(start <= a /\ a < start + size) THEN 0 ELSE m[a]
<1>. DEFINE after == CleanupStart(U32(start + size), file)
            m1 == IF after < file + n THEN memset(m, after, (file + n) - after) ELSE m
<1>a. m2 = IF file < start THEN memset(m1, file, Min({start - file, n})) ELSE m1
  BY DEF Clearing
<1>b. start \in Nat /\ size \in Nat /\ file \in Nat /\ n \in Nat /\ start + size <= LIMIT /\ file + n <= LIMIT
  BY DEF BelowLimit
<1>0. LIMIT \in Nat /\ \A a \in Word : a \in Nat
  BY Words
<1>1. U32(start + size) = start + size
  <2>1. start + size \in Word
    BY <1>0, <1>b DEF Word
  <2>. QED  BY <2>1, Words
<1>2. after = (IF start + size > file THEN start + size ELSE file) /\ after \in Nat
  BY <1>1, <1>b DEF CleanupStart
<1>. HIDE DEF after
<1>3. /\ m1 \in [Word -> Int]
      /\ \A a \in Word : m1[a] = IF after <= a /\ a < file + n THEN 0 ELSE m[a]
  <2>1. CASE after < file + n
    <3>. DEFINE d == (file + n) - after
    <3>1. d \in Nat /\ after + d = file + n
      BY <1>2, <1>b, <2>1
    <3>. HIDE DEF d
    <3>2. /\ memset(m, after, d) \in [Word -> Int]
          /\ \A a \in Word : memset(m, after, d)[a] = IF after <= a /\ a < after + d THEN 0 ELSE m[a]
      BY <1>2, <1>b, <3>1, memsetIs
    <3>3. m1 = memset(m, after, d)
      BY <2>1 DEF d
    <3>. QED  BY <3>1, <3>2, <3>3
  <2>2. CASE ~(after < file + n)
    BY <1>0, <1>2, <1>b, <2>2
  <2>. QED  BY <2>1, <2>2
<1>. HIDE DEF m1
<1>4. /\ m2 \in [Word -> Int]
      /\ \A a \in Word : m2[a] = IF file <= a /\ a < file + n /\ a < start THEN 0 ELSE m1[a]
  <2>1. CASE file < start
    <3>. DEFINE d == Min({start - file, n})
    <3>1. d \in {start - file, n} /\ d <= start - file /\ d <= n
      <4>1. {start - file, n} \in SUBSET Nat /\ {start - file, n} # {}
        BY <1>b, <2>1
      <4>2. d \in {start - file, n} /\ \A x \in {start - file, n} : d <= x
        BY <4>1, MinOf
      <4>. QED  BY <4>2
    <3>2. m2 = memset(m1, file, d)
      BY <1>a, <2>1
    <3>. HIDE DEF d
    <3>3. d \in Nat /\ file + d <= LIMIT
      BY <1>0, <1>b, <2>1, <3>1
    <3>4. /\ memset(m1, file, d) \in [Word -> Int]
          /\ \A a \in Word : memset(m1, file, d)[a] = IF file <= a /\ a < file + d THEN 0 ELSE m1[a]
      BY <1>3, <1>b, <3>3, memsetIs
    <3>5. \A a \in Word : a < file + d <=> a < file + n /\ a < start
      BY <1>0, <1>b, <2>1, <3>1, <3>3
    <3>. QED  BY <3>2, <3>4, <3>5
  <2>2. CASE ~(file < start)
    <3>1. \A a \in Word : ~(file <= a /\ a < start)
      BY <1>0, <1>b, <2>2
    <3>. QED  BY <1>3, <1>a, <2>2, <3>1
  <2>. QED  BY <2>1, <2>2
<1>5. ASSUME NEW a \in Word
      PROVE  m2[a] = IF file <= a /\ a < file + n /\ ~(start <= a /\ a < start + size) THEN 0 ELSE m[a]
  <2>1. a \in Nat
    BY <1>0
  <2>2. m2[a] = IF file <= a /\ a < file + n /\ a < start THEN 0 ELSE IF after <= a /\ a < file + n THEN 0 ELSE m[a]
    BY <1>3, <1>4
  <2>3. after <= a <=> start + size <= a /\ file <= a
    BY <1>2, <1>b, <2>1
  <2>4. ~(start <= a /\ a < start + size) <=> a < start \/ start + size <= a
    BY <1>b, <2>1
  <2>5. CASE file <= a /\ a < file + n /\ a < start
    BY <2>2, <2>4, <2>5
  <2>6. CASE ~(file <= a /\ a < file + n /\ a < start)
    BY <2>2, <2>3, <2>4, <2>6
  <2>. QED  BY <2>5, <2>6
<1>. QED  BY <1>4, <1>5

(* Only the kernel is left, and where its header is found it is.           *)
LEMMA CleanUpImage == PlaceInv /\ ImageInv /\ CleanUp => ImageInv'
<1>0. SUFFICES ASSUME PlaceInv, ImageInv, CleanUp PROVE ImageInv'
  OBVIOUS
<1>. DEFINE start == kernel_info.start
            size == kernel_info.size
            file == kernel_info.file_addr
            n == kernel_info.file_size
            after == CleanupStart(U32(start + size), file)
            m1 == IF after < file + n THEN memset(memory, after, (file + n) - after) ELSE memory
            m2 == IF file < start THEN memset(m1, file, Min({start - file, n})) ELSE m1
<1>1. /\ pc = "clean" /\ pc' = "modules" /\ scenario' = scenario /\ load' = load
      /\ memory' = m2
      /\ kernel_info' = [kernel_info EXCEPT !.entry = IF load.entry = LIMIT THEN start ELSE load.entry,
                                            !.multiboot_header = Multiboot_GetHeader(m2, start, size)]
  BY <1>0 DEF CleanUp, given
<1>2. /\ kernel_info \in KernelInfo /\ start \in Nat /\ size \in Nat /\ file \in Nat /\ n \in Nat /\ FileSize \in Nat
      /\ LIMIT \in Nat /\ kernel_info.bss_size \in Nat
  BY <1>0, Fields
<1>3. /\ kernel_info'.start = start /\ kernel_info'.size = size /\ kernel_info'.file_addr = file
      /\ kernel_info'.file_size = n /\ kernel_info'.bss_size = kernel_info.bss_size
      /\ kernel_info'.multiboot_header = Multiboot_GetHeader(m2, start, size)
  <2>. HIDE DEF m2
  <2>. QED  BY <1>1, <1>2 DEF KernelInfo
<1>4. /\ FileSize' = FileSize /\ segments' = segments /\ Fits' = Fits /\ Kernel' = Kernel /\ File' = File
      /\ Pieces' = Pieces
  <2>1. FileSize' = FileSize /\ segments' = segments /\ \A k : SizeOf(k)' = SizeOf(k)
    BY <1>1 DEF FileSize, segments, SizeOf
  <2>2. \A k : SegmentPiece(k)' = SegmentPiece(k)
    BY <2>1 DEF SegmentPiece
  <2>. HIDE DEF m2
  <2>3. Fits' = Fits /\ Kernel' = Kernel /\ File' = File
    BY <1>3 DEF Fits, Kernel, File
  <2>4. Pieces' = Pieces
    BY <1>1, <1>3, <2>1, <2>2 DEF Pieces
  <2>. QED  BY <2>1, <2>3, <2>4
<1>5. Ordinary' = Ordinary
  BY <1>1, <1>4 DEF Ordinary
<1>6. ASSUME Fits, Ordinary
      PROVE  /\ \A p \in Pieces : InPlace(p)'
             /\ \A a \in 0 .. LIMIT \ Kernel : memory'[a] \in {0, Other}
             /\ kernel_info'.multiboot_header = 0 => \A p \in Pieces : ~HeaderIn(p)'
  <2>1. /\ n = FileSize /\ file + n <= LIMIT /\ start + size <= LIMIT /\ size > 0 /\ (\A a \in Loader : ~InKernel(a))
    BY <1>0, <1>1, <1>6, KernelFacts
  <2>2. memory \in [Word -> Int] /\ OnlyBoth /\ \A p \in Pieces : InPlace(p)
    BY <1>0, <1>1, <1>6 DEF ImageInv, AllCopied
  <2>. HIDE DEF m2
  <2>3. \A a \in Word : memory'[a] = IF file <= a /\ a < file + n /\ ~(start <= a /\ a < start + size) THEN 0 ELSE memory[a]
    <3>1. /\ m2 \in [Word -> Int]
          /\ \A a \in Word : m2[a] = IF file <= a /\ a < file + n /\ ~(start <= a /\ a < start + size) THEN 0 ELSE memory[a]
      <4>1. m2 = Clearing(memory, start, size, file, n)
        BY DEF m2, Clearing
      <4>2. BelowLimit(start, size) /\ BelowLimit(file, n)
        BY <1>2, <2>1 DEF BelowLimit
      <4>. QED  BY <2>2, <4>1, <4>2, Cleared
    <3>. QED  BY <1>1, <3>1
  <2>4. ASSUME NEW p \in Pieces, NEW k \in 0 .. p.total - 1
        PROVE  /\ p.at + k \in 0 .. size - 1 /\ start + p.at + k = start + (p.at + k)
               /\ start + p.at + k \in Word /\ memory'[start + p.at + k] = CellOf(p, k)
    <3>1. p.at \in Nat /\ p.total \in Nat /\ p.at + p.total <= size
      BY <1>0, <1>1, <1>6, PiecesWithin
    <3>. DEFINE a == start + p.at + k
    <3>2. p.at + k \in 0 .. size - 1 /\ a = start + (p.at + k) /\ a \in Word /\ start <= a /\ a < start + size
      BY <1>2, <2>1, <3>1 DEF Word
    <3>3. memory[a] = CellOf(p, k)
      BY <2>2 DEF InPlace
    <3>. HIDE DEF a
    <3>4. memory'[a] = memory[a]
      BY <2>3, <3>2
    <3>. QED  BY <3>2, <3>3, <3>4 DEF a
  <2>5. ASSUME NEW p \in Pieces PROVE InPlace(p)'
    BY <1>3, <2>4 DEF InPlace
  <2>6. ASSUME NEW a \in 0 .. LIMIT \ Kernel PROVE memory'[a] \in {0, Other}
    <3>1. a \in Word /\ a \in Nat /\ ~InKernel(a)
      BY <1>2 DEF Word, Kernel, Region, InKernel
    <3>2. CASE InFile(a)
      BY <2>1, <2>3, <3>1, <3>2 DEF InFile, InKernel
    <3>3. CASE ~InFile(a)
      <4>1. memory[a] = Other
        BY <2>2, <3>1, <3>3 DEF OnlyBoth
      <4>. QED  BY <2>3, <3>1, <4>1
    <3>. QED  BY <3>2, <3>3
  <2>7. ASSUME kernel_info'.multiboot_header = 0, NEW p \in Pieces PROVE ~HeaderIn(p)'
    <3>. DEFINE found == {k \in 0 .. size - 1 : k < HeaderLimit /\ m2[U32(start + k)] = scenario.header}
    <3>1. \A k \in 0 .. size - 1 : start + k \in Word /\ U32(start + k) = start + k
      <4>1. \A k \in 0 .. size - 1 : start + k \in Word
        BY <1>2, <2>1 DEF Word
      <4>. QED  BY <4>1, Words
    <3>2. found = {}
      <4>1. SUFFICES ASSUME found # {} PROVE FALSE
        OBVIOUS
      <4>2. found \in SUBSET Nat
        OBVIOUS
      <4>3. Min(found) \in found
        <5>. HIDE DEF found
        <5>. QED  BY <4>1, <4>2, MinOf
      <4>4. U32(start + Min(found)) = 0
        BY <1>3, <2>7, <4>1 DEF Multiboot_GetHeader
      <4>5. Min(found) \in 0 .. size - 1
        BY <4>3
      <4>6. start = 0
        <5>. DEFINE x == Min(found)
        <5>1. x \in 0 .. size - 1 /\ start + x = 0
          BY <3>1, <4>4, <4>5
        <5>. HIDE DEF x
        <5>. QED  BY <1>2, <5>1
      <4>7. 0 \in Loader
        BY MultibootAssumption
      <4>. QED  BY <1>2, <2>1, <4>6, <4>7 DEF InKernel
    <3>3. ASSUME NEW k \in 0 .. p.total - 1, p.at + k < HeaderLimit, CellOf(p, k) = scenario.header PROVE FALSE
      <4>. DEFINE x == p.at + k
      <4>1. x \in 0 .. size - 1 /\ memory'[start + x] = CellOf(p, k)
        BY <2>4
      <4>2. m2[U32(start + x)] = scenario.header
        BY <1>1, <3>1, <3>3, <4>1
      <4>. QED  BY <3>2, <3>3, <4>1, <4>2
    <3>. QED  BY <1>1, <3>3 DEF HeaderIn
  <2>. QED  BY <2>5, <2>6, <2>7
<1>7. KernelInPlace' /\ HeaderSeen'
  BY <1>1, <1>4, <1>5, <1>6 DEF KernelInPlace, HeaderSeen
<1>8. FileFits' /\ FileInMemory' /\ SizesKnown' /\ KernelFits' /\ Copying' /\ AllCopied'
  BY <1>1 DEF FileFits, FileInMemory, SizesKnown, KernelFits, Copying, AllCopied, BeforeFile, FileRead
<1>. QED  BY <1>7, <1>8 DEF ImageInv

(* The loader loses control after that only for a header it does not find, *)
(* or for a module.                                                        *)
LEMMA LosesControl == ImageInv /\ (NoHeader \/ LoadModule) => ImageInv'
<1>0. SUFFICES ASSUME ImageInv, NoHeader \/ LoadModule PROVE ImageInv'
  OBVIOUS
<1>1. pc = "modules" /\ pc' \in {"fail", "wild"} /\ SameKernel
  BY <1>0 DEF NoHeader, LoadModule, given, SameKernel
<1>2. /\ Fits' = Fits /\ Ordinary' = Ordinary /\ Pieces' = Pieces /\ (\A p : HeaderIn(p)' = HeaderIn(p))
      /\ scenario' = scenario
  BY <1>1, SameKernelWords DEF SameKernel
<1>3. pc' = "wild" /\ Fits /\ Ordinary => scenario.module > 0 \/ \A p \in Pieces : ~HeaderIn(p)
  <2>1. CASE NoHeader
    BY <1>0, <1>1, <2>1 DEF ImageInv, HeaderSeen, NoHeader
  <2>2. CASE LoadModule
    BY <2>2 DEF LoadModule
  <2>. QED  BY <1>0, <2>1, <2>2
<1>4. KernelInPlace' /\ HeaderSeen'
  BY <1>1, <1>2, <1>3 DEF KernelInPlace, HeaderSeen
<1>5. FileFits' /\ FileInMemory' /\ SizesKnown' /\ KernelFits' /\ Copying' /\ AllCopied'
  BY <1>1 DEF FileFits, FileInMemory, SizesKnown, KernelFits, Copying, AllCopied, BeforeFile, FileRead
<1>. QED  BY <1>4, <1>5 DEF ImageInv

(* Every other step leaves the kernel and its file alone.                  *)
LEMMA ImageSteps ==
  ASSUME Next
  PROVE  \/ FindKernelFile \/ ReadBlock \/ KernelFileLoaded \/ LoadKernel \/ ReadTag \/ PlaceKernel
         \/ MoveKernel \/ LoadSegment \/ SegmentsLoaded \/ CleanUp \/ NoHeader \/ LoadModule
         \/ /\ SameImage
            /\ \/ pc' = "fail"
               \/ pc' = pc /\ i' = i
               \/ pc \in BeforeFile /\ pc' \in BeforeFile /\ i' = i
               \/ pc = "tags" /\ pc' = "place"
               \/ pc \in AfterCopy /\ pc' \in AfterCopy \ {"modules"}
<1>. USE DEF given, Fails, SameImage, BeforeFile, AfterCopy
<1>1. CASE CreateEmptyMBI \/ SaveE820Map \/ StoreMap
  BY <1>1 DEF CreateEmptyMBI, SaveE820Map, StoreMap, MapTag
<1>2. CASE SaveRAMMap \/ SavePagesMap
  BY <1>2 DEF SaveRAMMap, SavePagesMap, MapTag
<1>3. CASE NoKernelFile \/ NoMoreTags \/ NoModuleList \/ NoModules
  BY <1>3 DEF NoKernelFile, NoMoreTags, NoModuleList, NoModules
<1>4. CASE SaveInfo \/ NoGraphics \/ SaveVBE \/ SaveFramebuffer
  BY <1>4 DEF SaveInfo, NoGraphics, SaveVBE, SaveFramebuffer
<1>5. CASE AskCommand \/ EditCommand \/ SaveCommand
  BY <1>5 DEF AskCommand, EditCommand, SaveCommand
<1>. QED  BY <1>1, <1>2, <1>3, <1>4, <1>5 DEF Next

(* ImageInv is inductive, next to the invariant of the places.             *)
LEMMA ImageStep == PlaceInv /\ PlaceInv' /\ ImageInv /\ [Next]_vars => ImageInv'
<1>0. SUFFICES ASSUME PlaceInv, PlaceInv', ImageInv, [Next]_vars PROVE ImageInv'
  OBVIOUS
<1>1. CASE UNCHANGED vars
  <2>1. SameImage /\ pc' = pc /\ i' = i
    BY <1>1 DEF vars, given, SameImage
  <2>. QED  BY <1>0, <2>1, QuietImage
<1>2. CASE FindKernelFile \/ ReadBlock \/ KernelFileLoaded \/ LoadKernel \/ ReadTag \/ PlaceKernel
  BY <1>0, <1>2, FindKernelFileImage, ReadBlockImage, KernelFileLoadedImage, LoadKernelImage, ReadTagImage,
     PlaceKernelImage
<1>3. CASE MoveKernel \/ LoadSegment \/ SegmentsLoaded \/ CleanUp \/ NoHeader \/ LoadModule
  BY <1>0, <1>3, MoveKernelImage, LoadSegmentImage, SegmentsLoadedImage, CleanUpImage, LosesControl
<1>4. CASE /\ SameImage
           /\ \/ pc' = "fail"
              \/ pc' = pc /\ i' = i
              \/ pc \in BeforeFile /\ pc' \in BeforeFile /\ i' = i
              \/ pc = "tags" /\ pc' = "place"
              \/ pc \in AfterCopy /\ pc' \in AfterCopy \ {"modules"}
  BY <1>0, <1>4, QuietImage
<1>. QED  BY <1>0, <1>1, <1>2, <1>3, <1>4, ImageSteps

(* What is in memory is known at every step of Multiboot_LoadKernelFile    *)
(* and Multiboot_LoadKernel: the file, then the pieces of the kernel that  *)
(* have been copied so far and the file, then the kernel alone.            *)
THEOREM ImageInvariance == Spec => []ImageInv
<1>1. Init => ImageInv
  <2>1. SUFFICES ASSUME Init PROVE ImageInv
    OBVIOUS
  <2>2. pc = "start" /\ i = 1 /\ Nothing
    BY <2>1 DEF Init, Nothing, Word
  <2>. QED  BY <2>2 DEF ImageInv, FileFits, FileInMemory, SizesKnown, KernelFits, Copying, AllCopied, HeaderSeen,
              KernelInPlace, BeforeFile, FileRead
<1>2. PlaceInv /\ PlaceInv' /\ ImageInv /\ [Next]_vars => ImageInv'
  BY ImageStep
<1>. QED  BY <1>1, <1>2, PlaceInvariance, PTL DEF Spec

(* For every address space, memory map and kernel file in one block: the   *)
(* kernel that is entered consists of the cells of the file its header or  *)
(* its segments ask for, and of zeros, however the kernel and its file     *)
(* overlap (memmove, memset and the clearing at the end of                 *)
(* Multiboot_LoadKernel), and nothing of the file is left elsewhere.       *)
THEOREM KernelIsInPlace == Spec => []KernelInPlace
<1>1. ImageInv => KernelInPlace
  BY DEF ImageInv
<1>. QED  BY <1>1, ImageInvariance, PTL

-----------------------------------------------------------------------------
(* The record of information.                                              *)

EndAt == total_size - 8
TagsAt == DOMAIN mbi \ {EndAt}
Kinds == {mbi[a].type : a \in TagsAt}

(* Tags follow one another from the start of the record to its end tag,    *)
(* nothing is between a tag and the next, and no type is there twice.      *)
RecordInv ==
    /\ total_size \in Nat /\ total_size % 8 = 0
    /\ DOMAIN mbi \subseteq 8 .. EndAt /\ 8 \in DOMAIN mbi /\ EndAt \in DOMAIN mbi
    /\ mbi[EndAt] = End
    /\ \A a \in TagsAt : /\ mbi[a].type \in TagTypes
                         /\ mbi[a].size \in Nat \ {0} /\ mbi[a].size % 8 = 0
                         /\ a + mbi[a].size \in DOMAIN mbi
                         /\ \A b \in DOMAIN mbi : b <= a \/ b >= a + mbi[a].size
    /\ \A a, b \in TagsAt : mbi[a].type = mbi[b].type => a = b

(* There are finitely many types, and so not more tags than a walk passes. *)
LEMMA FewTags ==
  ASSUME RecordInv
  PROVE  /\ IsFiniteSet(DOMAIN mbi) /\ IsFiniteSet(TagsAt)
         /\ Cardinality(TagsAt) \in Nat /\ Cardinality(TagsAt) <= MaxTags
<1>1. IsFiniteSet(TagTypes)
  <2>1. \A a, b, c, d : IsFiniteSet({a, b, c, d})
    <3>. TAKE a, b, c, d
    <3>1. {a, b, c, d} = (({a} \cup {b}) \cup {c}) \cup {d}
      OBVIOUS
    <3>2. IsFiniteSet({a} \cup {b})
      BY FS_Singleton, FS_AddElement
    <3>3. IsFiniteSet(({a} \cup {b}) \cup {c})
      BY <3>2, FS_AddElement
    <3>4. IsFiniteSet((({a} \cup {b}) \cup {c}) \cup {d})
      BY <3>3, FS_AddElement
    <3>. QED  BY <3>1, <3>4
  <2>2. IsFiniteSet(Supplied) /\ IsFiniteSet(FromBIOS) /\ IsFiniteSet({"BOOTDEV", "VBE", "FRAMEBUFFER", "ELF_SECTIONS"})
    BY <2>1 DEF Supplied, FromBIOS
  <2>3. IsFiniteSet(MapTags)
    <3>1. MapTags = {"MMAP", "RAM_INFO", "RAM_INFO_PAGE_ALIGNED", "RAM_INFO_PAGE_ALIGNED"}
      BY DEF MapTags
    <3>. QED  BY <2>1, <3>1
  <2>4. IsFiniteSet(MapTags \cup Supplied)
    BY <2>2, <2>3, FS_Union
  <2>5. IsFiniteSet((MapTags \cup Supplied) \cup FromBIOS)
    BY <2>2, <2>4, FS_Union
  <2>. QED  BY <2>2, <2>5, FS_Union DEF TagTypes
<1>2. IsFiniteSet(DOMAIN mbi)
  <2>1. EndAt \in Int /\ 8 \in Int
    BY DEF RecordInv, EndAt
  <2>2. IsFiniteSet(8 .. EndAt) /\ DOMAIN mbi \in SUBSET (8 .. EndAt)
    BY <2>1, FS_Interval DEF RecordInv
  <2>. QED  BY <2>2, FS_Subset
<1>3. IsFiniteSet(TagsAt)
  BY <1>2, FS_RemoveElement DEF TagsAt
<1>. DEFINE f == [a \in TagsAt |-> mbi[a].type]
<1>4. f \in Injection(TagsAt, TagTypes)
  <2>1. f \in [TagsAt -> TagTypes]
    BY DEF RecordInv
  <2>2. \A a, b \in TagsAt : f[a] = f[b] => a = b
    BY DEF RecordInv
  <2>. HIDE DEF f
  <2>. QED  BY <2>1, <2>2 DEF Injection, IsInjective
<1>. HIDE DEF f
<1>5. Cardinality(TagsAt) <= Cardinality(TagTypes)
  BY <1>1, <1>4, FS_Injection
<1>6. Cardinality(TagsAt) \in Nat /\ Cardinality(TagTypes) \in Nat
  BY <1>1, <1>3, FS_CardinalityType
<1>7. MaxTags \in Nat /\ Cardinality(TagTypes) <= MaxTags
  BY TagsAssumption
<1>. QED  BY <1>2, <1>3, <1>5, <1>6, <1>7

(* A walk that stops at some of the tags, the end tag among them, stops at *)
(* the first of these, and passes every tag before it.                     *)
LEMMA WalkEnds ==
  ASSUME RecordInv, NEW W \in SUBSET DOMAIN mbi, EndAt \in W, NEW at, at[0] = 8,
         \A k \in 1 .. MaxTags : at[k - 1] \in DOMAIN mbi =>
             at[k] = IF at[k - 1] \in W THEN at[k - 1] ELSE at[k - 1] + mbi[at[k - 1]].size
  PROVE  /\ at[MaxTags] \in W
         /\ \A k \in 0 .. MaxTags : at[k] \in DOMAIN mbi
         /\ \A a \in DOMAIN mbi : a < at[MaxTags] => a \notin W /\ \E k \in 0 .. MaxTags : at[k] = a
<1>. DEFINE Below(n) == {a \in DOMAIN mbi : a < n}
            Reached(k) == /\ at[k] \in DOMAIN mbi
                          /\ \A a \in DOMAIN mbi : a < at[k] => a \notin W /\ \E l \in 0 .. k : at[l] = a
                          /\ at[k] \notin W => Cardinality(Below(at[k])) = k
            S == {k \in 0 .. MaxTags : Reached(k)}
<1>0. MaxTags \in Nat
  BY TagsAssumption
<1>1. DOMAIN mbi \subseteq Nat /\ IsFiniteSet(DOMAIN mbi) /\ 8 \in DOMAIN mbi /\ \A a \in DOMAIN mbi : a >= 8
  BY FewTags DEF RecordInv, EndAt
<1>2. \A n : IsFiniteSet(Below(n)) /\ Cardinality(Below(n)) \in Nat
  <2>. TAKE n
  <2>1. Below(n) \in SUBSET DOMAIN mbi
    OBVIOUS
  <2>. HIDE DEF Below
  <2>2. IsFiniteSet(Below(n))
    BY <1>1, <2>1, FS_Subset
  <2>. QED  BY <2>2, FS_CardinalityType
<1>3. 0 \in S
  <2>1. at[0] \in DOMAIN mbi /\ \A a \in DOMAIN mbi : ~(a < at[0])
    BY <1>1
  <2>2. Below(at[0]) = {}
    BY <2>1
  <2>. HIDE DEF Below
  <2>3. Cardinality(Below(at[0])) = 0
    BY <2>2, FS_EmptySet
  <2>. QED  BY <1>0, <2>1, <2>3
<1>4. ASSUME NEW k \in S, k < MaxTags PROVE k + 1 \in S
  <2>0. k + 1 \in 1 .. MaxTags /\ k + 1 \in 0 .. MaxTags /\ (k + 1) - 1 = k /\ k \in Nat /\ k \in 0 .. k
        /\ (0 .. k) \subseteq 0 .. k + 1 /\ k + 1 \in 0 .. k + 1
    BY <1>0, <1>4
  <2>1. Reached(k)
    BY <1>4
  <2>2. at[k + 1] = IF at[k] \in W THEN at[k] ELSE at[k] + mbi[at[k]].size
    BY <2>0, <2>1
  <2>3. CASE at[k] \in W
    BY <2>0, <2>1, <2>2, <2>3
  <2>4. CASE at[k] \notin W
    <3>. DEFINE s == mbi[at[k]].size
    <3>1. at[k] \in TagsAt
      BY <2>1, <2>4 DEF TagsAt
    <3>2. /\ s \in Nat \ {0} /\ at[k] + s \in DOMAIN mbi /\ at[k + 1] = at[k] + s
          /\ \A b \in DOMAIN mbi : b <= at[k] \/ b >= at[k] + s
      BY <2>2, <2>4, <3>1 DEF RecordInv
    <3>. HIDE DEF s
    <3>3. at[k] \in Nat /\ \A b \in DOMAIN mbi : b \in Nat
      BY <1>1, <2>1
    <3>4. \A a \in DOMAIN mbi : a < at[k + 1] <=> a < at[k] \/ a = at[k]
      BY <3>2, <3>3
    <3>5. \A a \in DOMAIN mbi : a < at[k + 1] => a \notin W /\ \E l \in 0 .. k + 1 : at[l] = a
      BY <2>0, <2>1, <2>4, <3>4
    <3>6. Below(at[k + 1]) = Below(at[k]) \cup {at[k]} /\ at[k] \notin Below(at[k])
      BY <2>1, <3>3, <3>4
    <3>7. Cardinality(Below(at[k])) = k
      BY <2>1, <2>4
    <3>. HIDE DEF Below
    <3>8. Cardinality(Below(at[k + 1])) = k + 1
      <4>. DEFINE x == at[k]
                  B == Below(at[k])
      <4>1. IsFiniteSet(B) /\ x \notin B /\ Cardinality(B) = k /\ Below(at[k + 1]) = B \cup {x}
        BY <1>2, <3>6, <3>7
      <4>. HIDE DEF x, B
      <4>2. Cardinality(B \cup {x}) = k + 1
        BY <4>1, FS_AddElement
      <4>. QED  BY <4>1, <4>2
    <3>. QED  BY <2>0, <3>2, <3>5, <3>8
  <2>. QED  BY <2>3, <2>4
<1>5. 0 .. MaxTags \subseteq S
  <2>1. S \in SUBSET Nat
    BY <1>0
  <2>. HIDE DEF S
  <2>. QED  BY <1>0, <1>3, <1>4, <2>1, InductionTo
<1>6. \A k \in 0 .. MaxTags : Reached(k)
  <2>. HIDE DEF Reached
  <2>. QED  BY <1>5
<1>. DEFINE last == at[MaxTags]
<1>7. MaxTags \in 0 .. MaxTags /\ Reached(MaxTags)
  BY <1>0, <1>6
<1>8. last \in W
  <2>. SUFFICES ASSUME last \notin W PROVE FALSE
    OBVIOUS
  <2>1. Cardinality(Below(last)) = MaxTags /\ last \in TagsAt
    BY <1>7 DEF TagsAt
  <2>2. last \in Nat /\ EndAt \in Nat /\ last <= EndAt
    BY <1>1, <1>7 DEF RecordInv, EndAt
  <2>3. last \notin Below(last) /\ Below(last) \cup {last} \in SUBSET TagsAt
    BY <1>1, <2>1, <2>2 DEF TagsAt
  <2>. HIDE DEF last, Below
  <2>4. Cardinality(Below(last) \cup {last}) = MaxTags + 1
    BY <1>2, <2>1, <2>3, FS_AddElement
  <2>5. Cardinality(Below(last) \cup {last}) <= Cardinality(TagsAt)
    BY <2>3, FewTags, FS_Subset
  <2>6. Cardinality(TagsAt) \in Nat /\ Cardinality(TagsAt) <= MaxTags
    BY FewTags
  <2>. QED  BY <1>0, <2>4, <2>5, <2>6
<1>. QED  BY <1>6, <1>7, <1>8

(* Rounding a size up to a multiple of 8.                                  *)
LEMMA PaddedIs ==
  ASSUME NEW n \in Nat
  PROVE  /\ Padded(n) \in Nat /\ Padded(n) % 8 = 0 /\ Padded(n) >= n
         /\ n % 8 = 0 => Padded(n) = n
BY DEF Padded

(* What the walk for a type computes.                                      *)
LEMMA StepsDef ==
  ASSUME RecordInv, NEW type
  PROVE  /\ Steps(type)[0] = 8
         /\ \A k \in 1 .. MaxTags :
              LET a == Steps(type)[k - 1] IN
              Steps(type)[k] = IF Header(a).type \in {"END", type} \/ a >= total_size THEN a ELSE a + Header(a).size
<1>. DEFINE n == MaxTags
            New(a) == IF Header(a).type \in {"END", type} \/ a >= total_size THEN a ELSE a + Header(a).size
            V == DOMAIN mbi
            Step == [k \in 1 .. n |-> [a \in V |-> New(a)]]
            Body(f) == [k \in 0 .. n |-> IF k = 0 THEN 8 ELSE New(f[k - 1])]
            g == Steps(type)
<1>1. n \in Nat
  BY TagsAssumption
<1>2. 8 \in V /\ \A a \in V : New(a) \in V
  <2>1. ASSUME NEW a \in V PROVE New(a) \in V
    <3>1. Header(a) = mbi[a]
      BY DEF Header
    <3>2. CASE a = EndAt
      BY <3>1, <3>2 DEF RecordInv, End
    <3>3. CASE a # EndAt
      BY <3>1, <3>3 DEF RecordInv, TagsAt
    <3>. QED  BY <3>2, <3>3
  <2>. QED  BY <2>1 DEF RecordInv
<1>3. g = CHOOSE f : f = Body(f)
  BY DEF Steps
<1>. HIDE DEF n, New, g, V
<1>4. Step \in [1 .. n -> [V -> V]]
  BY <1>2
<1>5. PICK f \in [0 .. n -> V] : f[0] = 8 /\ \A k \in 1 .. n : f[k] = Step[k][f[k - 1]]
  <2>. HIDE DEF Step
  <2>1. PICK v : v = 8
    OBVIOUS
  <2>2. n \in Nat /\ v \in V /\ Step \in [1 .. n -> [V -> V]]
    BY <1>1, <1>2, <1>4, <2>1
  <2>3. \E f \in [0 .. n -> V] : f[0] = v /\ \A k \in 1 .. n : f[k] = Step[k][f[k - 1]]
    BY ONLY <2>2, Iteration
  <2>. QED  BY <2>1, <2>3
<1>6. ASSUME NEW k \in 0 .. n PROVE f[k] = IF k = 0 THEN 8 ELSE New(f[k - 1])
  <2>1. CASE k = 0
    BY <1>5, <2>1
  <2>2. CASE k # 0
    <3>1. k \in 1 .. n /\ k - 1 \in 0 .. n
      BY <1>1, <2>2
    <3>. QED  BY <1>5, <2>2, <3>1
  <2>. QED  BY <2>1, <2>2
<1>7. f = Body(f)
  BY <1>6
<1>8. g = Body(g)
  <2>. HIDE DEF Body
  <2>. QED  BY <1>3, <1>7
<1>9. g[0] = 8 /\ \A k \in 1 .. n : g[k] = New(g[k - 1])
  <2>1. \A k \in 0 .. n : g[k] = Body(g)[k]
    <3>. HIDE DEF Body
    <3>. QED  BY <1>8
  <2>2. 0 \in 0 .. n /\ \A k \in 1 .. n : k \in 0 .. n /\ k # 0
    BY <1>1
  <2>. QED  BY <2>1, <2>2
<1>. QED  BY <1>9 DEF n, New, g

(* What the kernel's walk computes: sizes are multiples of 8 already.      *)
LEMMA KernelStepsDef ==
  ASSUME RecordInv
  PROVE  /\ KernelSteps[0] = 8
         /\ \A k \in 1 .. MaxTags :
              LET a == KernelSteps[k - 1] IN
              KernelSteps[k] = IF Header(a).type = "END" THEN a ELSE a + Padded(Header(a).size)
<1>. DEFINE n == MaxTags
            New(a) == IF Header(a).type = "END" THEN a ELSE a + Padded(Header(a).size)
            V == DOMAIN mbi
            Step == [k \in 1 .. n |-> [a \in V |-> New(a)]]
            Body(f) == [k \in 0 .. n |-> IF k = 0 THEN 8 ELSE New(f[k - 1])]
            g == KernelSteps
<1>1. n \in Nat
  BY TagsAssumption
<1>2. 8 \in V /\ \A a \in V : New(a) \in V
  <2>1. ASSUME NEW a \in V PROVE New(a) \in V
    <3>1. Header(a) = mbi[a]
      BY DEF Header
    <3>2. CASE a = EndAt
      BY <3>1, <3>2 DEF RecordInv, End
    <3>3. CASE a # EndAt
      <4>1. mbi[a].size \in Nat /\ mbi[a].size % 8 = 0 /\ a + mbi[a].size \in V
        BY <3>3 DEF RecordInv, TagsAt
      <4>2. Padded(mbi[a].size) = mbi[a].size
        BY <4>1, PaddedIs
      <4>. QED  BY <3>1, <4>1, <4>2
    <3>. QED  BY <3>2, <3>3
  <2>. QED  BY <2>1 DEF RecordInv
<1>3. g = CHOOSE f : f = Body(f)
  BY DEF KernelSteps
<1>. HIDE DEF n, New, g, V
<1>4. Step \in [1 .. n -> [V -> V]]
  BY <1>2
<1>5. PICK f \in [0 .. n -> V] : f[0] = 8 /\ \A k \in 1 .. n : f[k] = Step[k][f[k - 1]]
  <2>. HIDE DEF Step
  <2>1. PICK v : v = 8
    OBVIOUS
  <2>2. n \in Nat /\ v \in V /\ Step \in [1 .. n -> [V -> V]]
    BY <1>1, <1>2, <1>4, <2>1
  <2>3. \E f \in [0 .. n -> V] : f[0] = v /\ \A k \in 1 .. n : f[k] = Step[k][f[k - 1]]
    BY ONLY <2>2, Iteration
  <2>. QED  BY <2>1, <2>3
<1>6. ASSUME NEW k \in 0 .. n PROVE f[k] = IF k = 0 THEN 8 ELSE New(f[k - 1])
  <2>1. CASE k = 0
    BY <1>5, <2>1
  <2>2. CASE k # 0
    <3>1. k \in 1 .. n /\ k - 1 \in 0 .. n
      BY <1>1, <2>2
    <3>. QED  BY <1>5, <2>2, <3>1
  <2>. QED  BY <2>1, <2>2
<1>7. f = Body(f)
  BY <1>6
<1>8. g = Body(g)
  <2>. HIDE DEF Body
  <2>. QED  BY <1>3, <1>7
<1>9. g[0] = 8 /\ \A k \in 1 .. n : g[k] = New(g[k - 1])
  <2>1. \A k \in 0 .. n : g[k] = Body(g)[k]
    <3>. HIDE DEF Body
    <3>. QED  BY <1>8
  <2>2. 0 \in 0 .. n /\ \A k \in 1 .. n : k \in 0 .. n /\ k # 0
    BY <1>1
  <2>. QED  BY <2>1, <2>2
<1>. QED  BY <1>9 DEF n, New, g

(* The kernel's walk passes exactly the tags, so the list is whole.        *)
LEMMA WholeList ==
  ASSUME RecordInv
  PROVE  TagList /\ Types = Kinds
<1>. DEFINE at == KernelSteps
            W == {EndAt}
<1>0. /\ EndAt \in DOMAIN mbi /\ mbi[EndAt] = End /\ \A a \in DOMAIN mbi : a \in Nat /\ a <= EndAt
      /\ \A a \in DOMAIN mbi : Header(a) = mbi[a]
  BY DEF RecordInv, Header, EndAt
<1>1. \A a \in TagsAt : mbi[a].type \in TagTypes /\ Padded(mbi[a].size) = mbi[a].size
  BY PaddedIs DEF RecordInv
<1>2. "END" \notin TagTypes /\ "payload" \notin TagTypes
  BY DEF TagTypes, MapTags, Supplied, FromBIOS
<1>3. at[0] = 8 /\ \A k \in 1 .. MaxTags : at[k - 1] \in DOMAIN mbi =>
             at[k] = IF at[k - 1] \in W THEN at[k - 1] ELSE at[k - 1] + mbi[at[k - 1]].size
  <2>1. at[0] = 8
    BY KernelStepsDef
  <2>2. ASSUME NEW k \in 1 .. MaxTags, at[k - 1] \in DOMAIN mbi
        PROVE  at[k] = IF at[k - 1] \in W THEN at[k - 1] ELSE at[k - 1] + mbi[at[k - 1]].size
    <3>. DEFINE a == at[k - 1]
    <3>1. at[k] = IF Header(a).type = "END" THEN a ELSE a + Padded(Header(a).size)
      BY <2>2, KernelStepsDef
    <3>. HIDE DEF a
    <3>2. a \in DOMAIN mbi /\ Header(a) = mbi[a]
      BY <1>0, <2>2 DEF a
    <3>3. CASE a = EndAt
      BY <1>0, <3>1, <3>2, <3>3 DEF End, a
    <3>4. CASE a # EndAt
      <4>1. mbi[a].type # "END" /\ Padded(mbi[a].size) = mbi[a].size
        BY <1>1, <1>2, <3>2, <3>4 DEF TagsAt
      <4>. QED  BY <3>1, <3>2, <3>4, <4>1 DEF a
    <3>. QED  BY <3>3, <3>4
  <2>. QED  BY <2>1, <2>2
<1>. HIDE DEF at
<1>4. W \in SUBSET DOMAIN mbi /\ EndAt \in W
  BY <1>0
<1>5. /\ at[MaxTags] \in W
      /\ \A k \in 0 .. MaxTags : at[k] \in DOMAIN mbi
      /\ \A a \in DOMAIN mbi : a < at[MaxTags] => a \notin W /\ \E k \in 0 .. MaxTags : at[k] = a
  <2>. HIDE DEF W
  <2>. QED  BY <1>3, <1>4, WalkEnds
<1>6. MaxTags \in 0 .. MaxTags /\ at[MaxTags] = EndAt
  BY <1>5, TagsAssumption
<1>7. Places = DOMAIN mbi
  <2>1. \A a \in DOMAIN mbi : a = EndAt \/ a < EndAt
    BY <1>0
  <2>2. Places = {at[k] : k \in 0 .. MaxTags}
    BY DEF Places, at
  <2>3. \A a \in DOMAIN mbi : a \in Places
    BY <1>5, <1>6, <2>1, <2>2
  <2>. QED  BY <1>5, <2>2, <2>3
<1>8. Types = Kinds
  <2>1. Types = {mbi[a].type : a \in DOMAIN mbi} \ {"END"}
    BY <1>0, <1>7 DEF Types
  <2>2. mbi[EndAt].type = "END"
    BY <1>0 DEF End
  <2>3. \A a \in TagsAt : mbi[a].type # "END"
    BY <1>1, <1>2
  <2>. QED  BY <1>0, <2>1, <2>2, <2>3 DEF Kinds, TagsAt
<1>9. "payload" \notin Types
  BY <1>1, <1>2, <1>8 DEF Kinds
<1>10. \A a, b \in Places : a # b => Header(a).type # Header(b).type
  <2>. SUFFICES ASSUME NEW a \in DOMAIN mbi, NEW b \in DOMAIN mbi, a # b PROVE mbi[a].type # mbi[b].type
    BY <1>0, <1>7
  <2>1. mbi[EndAt].type = "END" /\ \A c \in TagsAt : mbi[c].type # "END"
    BY <1>0, <1>1, <1>2 DEF End
  <2>2. CASE a \in TagsAt /\ b \in TagsAt
    BY <2>2 DEF RecordInv
  <2>. QED  BY <2>1, <2>2 DEF TagsAt
<1>11. EndAt \in Places /\ Header(EndAt) = End
  BY <1>0, <1>7
<1>. QED  BY <1>8, <1>9, <1>10, <1>11 DEF TagList, EndAt

(* A tag of a type that is not there gets the place of the end tag.        *)
LEMMA PlaceOf ==
  ASSUME RecordInv, NEW type \in TagTypes
  PROVE  /\ HasPlace(type) <=> type \notin Kinds
         /\ type \notin Kinds => Multiboot_FindMBITagAddress(type) = EndAt
<1>. DEFINE at == Steps(type)
            W == {a \in DOMAIN mbi : mbi[a].type \in {"END", type}}
<1>0. /\ EndAt \in DOMAIN mbi /\ mbi[EndAt] = End
      /\ \A a \in DOMAIN mbi : a \in Nat /\ 8 <= a /\ a <= EndAt /\ a < total_size
      /\ \A a \in DOMAIN mbi : Header(a) = mbi[a]
  BY DEF RecordInv, Header, EndAt
<1>1. type # "END" /\ \A a \in TagsAt : mbi[a].type # "END"
  BY DEF TagTypes, MapTags, Supplied, FromBIOS, RecordInv
<1>2. at[0] = 8 /\ \A k \in 1 .. MaxTags : at[k - 1] \in DOMAIN mbi =>
             at[k] = IF at[k - 1] \in W THEN at[k - 1] ELSE at[k - 1] + mbi[at[k - 1]].size
  <2>1. at[0] = 8
    BY StepsDef
  <2>2. ASSUME NEW k \in 1 .. MaxTags, at[k - 1] \in DOMAIN mbi
        PROVE  at[k] = IF at[k - 1] \in W THEN at[k - 1] ELSE at[k - 1] + mbi[at[k - 1]].size
    <3>. DEFINE a == at[k - 1]
    <3>1. at[k] = IF Header(a).type \in {"END", type} \/ a >= total_size THEN a ELSE a + Header(a).size
      BY <2>2, StepsDef
    <3>. HIDE DEF a
    <3>2. a \in DOMAIN mbi
      BY <2>2 DEF a
    <3>3. Header(a) = mbi[a] /\ a \in Nat /\ a < total_size /\ total_size \in Nat
      BY <1>0, <3>2 DEF RecordInv
    <3>4. ~(a >= total_size)
      BY <3>3
    <3>5. a \in W <=> Header(a).type \in {"END", type}
      BY <3>2, <3>3
    <3>. HIDE DEF W
    <3>6. at[k] = IF a \in W THEN a ELSE a + mbi[a].size
      BY <3>1, <3>3, <3>4, <3>5
    <3>. QED  BY <3>6 DEF a
  <2>. QED  BY <2>1, <2>2
<1>3. W \in SUBSET DOMAIN mbi /\ EndAt \in W
  BY <1>0 DEF End
<1>. DEFINE w == at[MaxTags]
<1>. HIDE DEF at
<1>4. w \in W /\ \A a \in DOMAIN mbi : a < w => a \notin W
  <2>. HIDE DEF W
  <2>. QED  BY <1>2, <1>3, WalkEnds
<1>5. Walk(type) = w
  BY DEF Walk, at
<1>. HIDE DEF w
<1>6. Multiboot_CheckForValidMBI
  <2>1. total_size >= 16
    BY <1>0 DEF RecordInv, EndAt
  <2>. QED  BY <1>0, <2>1 DEF RecordInv, Multiboot_CheckForValidMBI, EndAt
<1>7. w \in DOMAIN mbi /\ Header(w) = mbi[w] /\ Header(EndAt).type = "END"
  BY <1>0, <1>4 DEF End
<1>8. CASE type \in Kinds
  <2>1. PICK b \in TagsAt : mbi[b].type = type
    BY <1>8 DEF Kinds
  <2>2. b \in W /\ b \in DOMAIN mbi /\ b < EndAt
    <3>1. b \in DOMAIN mbi /\ b # EndAt
      BY <2>1 DEF TagsAt
    <3>. QED  BY <1>0, <2>1, <3>1
  <2>3. w # EndAt
    BY <1>4, <2>2
  <2>4. mbi[w].type = type
    BY <1>1, <1>4, <1>7, <2>3 DEF TagsAt
  <2>5. Multiboot_FindMBITagAddress(type) = w
    BY <1>5, <1>6, <1>7, <2>4 DEF Multiboot_FindMBITagAddress
  <2>. QED  BY <1>1, <1>7, <1>8, <2>4, <2>5 DEF HasPlace
<1>9. CASE type \notin Kinds
  <2>1. w = EndAt
    BY <1>1, <1>4, <1>9 DEF Kinds, TagsAt
  <2>2. Multiboot_FindMBITagAddress(type) = EndAt
    <3>1. Header(Walk(type)).type # type
      <4>1. Walk(type) = EndAt
        BY <1>5, <2>1
      <4>. QED  BY <1>1, <1>7, <4>1
    <3>2. Multiboot_FindMBITagAddress(type) = total_size - 8
      BY <1>6, <3>1 DEF Multiboot_FindMBITagAddress
    <3>. QED  BY <3>2 DEF EndAt
  <2>3. EndAt # NULL
    BY <1>0 DEF NULL
  <2>. QED  BY <1>7, <1>9, <2>2, <2>3 DEF HasPlace
<1>. QED  BY <1>8, <1>9

(* A tag added at the end of the list, or taken back (size 0).             *)
LEMMA AddTagKeeps ==
  ASSUME RecordInv, NEW type \in TagTypes, type \notin Kinds,
         NEW size \in Nat, size % 8 = 0, AddTag(type, size)
  PROVE  RecordInv' /\ Kinds' = IF size = 0 THEN Kinds ELSE Kinds \cup {type}
<1>1. mbi' = Terminated(EndAt, type, size) /\ total_size' = total_size + size
  BY PlaceOf DEF AddTag, TerminateTag
<1>2. /\ total_size \in Nat /\ total_size % 8 = 0 /\ EndAt \in Nat /\ EndAt \in DOMAIN mbi
      /\ \A a \in DOMAIN mbi : a \in Nat /\ 8 <= a /\ a <= EndAt
  BY DEF RecordInv, EndAt
<1>3. EndAt' = EndAt + size /\ EndAt + size \in Nat /\ total_size' \in Nat /\ total_size' % 8 = 0
  BY <1>1, <1>2 DEF EndAt
<1>4. /\ DOMAIN mbi' = DOMAIN mbi \cup {EndAt + size}
      /\ mbi'[EndAt + size] = End
      /\ size # 0 => mbi'[EndAt] = [type |-> type, size |-> size]
      /\ \A b \in TagsAt : mbi'[b] = mbi[b]
  <2>1. DOMAIN mbi' = DOMAIN mbi \cup {EndAt + size}
    BY <1>1, <1>2 DEF Terminated
  <2>2. \A b \in DOMAIN mbi' : mbi'[b] = IF b = EndAt + size THEN End
                                       ELSE IF b = EndAt THEN [type |-> type, size |-> size] ELSE mbi[b]
    BY <1>1 DEF Terminated
  <2>3. size # 0 => EndAt # EndAt + size
    BY <1>2
  <2>4. \A b \in TagsAt : b \in DOMAIN mbi /\ b # EndAt /\ b # EndAt + size
    BY <1>2 DEF TagsAt
  <2>. QED  BY <1>2, <2>1, <2>2, <2>3, <2>4
<1>5. EndAt' \in DOMAIN mbi' /\ mbi'[EndAt'] = End /\ 8 \in DOMAIN mbi' /\ DOMAIN mbi' \subseteq 8 .. EndAt'
  BY <1>2, <1>3, <1>4 DEF RecordInv
<1>6. CASE size = 0
  <2>1. DOMAIN mbi' = DOMAIN mbi /\ EndAt' = EndAt /\ TagsAt' = TagsAt
    BY <1>2, <1>3, <1>4, <1>6 DEF TagsAt
  <2>2. Kinds' = Kinds
    BY <1>4, <2>1 DEF Kinds
  <2>3. /\ \A a \in TagsAt : /\ mbi'[a].type \in TagTypes
                              /\ mbi'[a].size \in Nat \ {0} /\ mbi'[a].size % 8 = 0
                              /\ a + mbi'[a].size \in DOMAIN mbi
                              /\ \A b \in DOMAIN mbi : b <= a \/ b >= a + mbi'[a].size
        /\ \A a, b \in TagsAt : mbi'[a].type = mbi'[b].type => a = b
    BY <1>4 DEF RecordInv
  <2>4. RecordInv'
    BY <1>3, <1>5, <2>1, <2>3 DEF RecordInv
  <2>. QED  BY <1>6, <2>2, <2>4
<1>7. CASE size # 0
  <2>1. TagsAt' = TagsAt \cup {EndAt} /\ EndAt \notin TagsAt /\ TagsAt \subseteq DOMAIN mbi
    BY <1>2, <1>3, <1>4, <1>7 DEF TagsAt
  <2>2. mbi'[EndAt].type = type /\ mbi'[EndAt].size = size
    BY <1>4, <1>7
  <2>3. Kinds' = Kinds \cup {type}
    <3>1. Kinds' = {mbi'[a].type : a \in TagsAt \cup {EndAt}}
      BY <2>1 DEF Kinds
    <3>2. Kinds' = {mbi'[a].type : a \in TagsAt} \cup {type}
      BY <2>2, <3>1
    <3>3. {mbi'[a].type : a \in TagsAt} = {mbi[a].type : a \in TagsAt}
      BY <1>4
    <3>4. Kinds = {mbi[a].type : a \in TagsAt}
      BY DEF Kinds
    <3>. QED  BY <3>2, <3>3, <3>4
  <2>4. ASSUME NEW a \in TagsAt
        PROVE  /\ mbi'[a].type \in TagTypes
               /\ mbi'[a].size \in Nat \ {0} /\ mbi'[a].size % 8 = 0
               /\ a + mbi'[a].size \in DOMAIN mbi'
               /\ \A b \in DOMAIN mbi' : b <= a \/ b >= a + mbi'[a].size
    <3>1. /\ mbi[a].type \in TagTypes
          /\ mbi[a].size \in Nat \ {0} /\ mbi[a].size % 8 = 0
          /\ a + mbi[a].size \in DOMAIN mbi
          /\ \A b \in DOMAIN mbi : b <= a \/ b >= a + mbi[a].size
      BY DEF RecordInv
    <3>2. mbi'[a] = mbi[a] /\ EndAt + size >= a + mbi[a].size
      BY <1>2, <1>4, <3>1
    <3>. QED  BY <1>4, <3>1, <3>2
  <2>5. /\ mbi'[EndAt].type \in TagTypes
        /\ mbi'[EndAt].size \in Nat \ {0} /\ mbi'[EndAt].size % 8 = 0
        /\ EndAt + mbi'[EndAt].size \in DOMAIN mbi'
        /\ \A b \in DOMAIN mbi' : b <= EndAt \/ b >= EndAt + mbi'[EndAt].size
    BY <1>2, <1>3, <1>4, <1>7, <2>2
  <2>6. ASSUME NEW a \in TagsAt', NEW b \in TagsAt', mbi'[a].type = mbi'[b].type PROVE a = b
    <3>1. \A c \in TagsAt : mbi'[c].type # type /\ mbi'[c] = mbi[c]
      BY <1>4 DEF Kinds
    <3>2. CASE a \in TagsAt /\ b \in TagsAt
      BY <2>6, <3>1, <3>2 DEF RecordInv
    <3>. QED  BY <2>1, <2>2, <2>6, <3>1, <3>2
  <2>7. RecordInv'
    <3>1. \A a \in TagsAt' : /\ mbi'[a].type \in TagTypes
                             /\ mbi'[a].size \in Nat \ {0} /\ mbi'[a].size % 8 = 0
                             /\ a + mbi'[a].size \in DOMAIN mbi'
                             /\ \A b \in DOMAIN mbi' : b <= a \/ b >= a + mbi'[a].size
      BY <2>1, <2>4, <2>5
    <3>2. \A a, b \in TagsAt' : mbi'[a].type = mbi'[b].type => a = b
      BY <2>6
    <3>. QED  BY <1>3, <1>5, <3>1, <3>2 DEF RecordInv
  <2>. QED  BY <1>7, <2>3, <2>7
<1>. QED  BY <1>6, <1>7

(* The empty record.                                                       *)
LEMMA EmptyRecord == Multiboot_CreateEmptyMBI => RecordInv' /\ Kinds' = {}
<1>1. SUFFICES ASSUME Multiboot_CreateEmptyMBI PROVE RecordInv' /\ Kinds' = {}
  OBVIOUS
<1>2. DOMAIN mbi' = {8} /\ mbi'[8] = End /\ total_size' = 16 /\ EndAt' = 8
  BY <1>1 DEF Multiboot_CreateEmptyMBI, EndAt
<1>3. TagsAt' = {}
  BY <1>2 DEF TagsAt
<1>. QED  BY <1>2, <1>3 DEF RecordInv, Kinds

-----------------------------------------------------------------------------
(* What is in the record.                                                  *)

(* The tags that the first n requests are answered with, and that none of  *)
(* these requests refuses the kernel.                                      *)
Answerable == Supplied \cup (scenario.has \ {"VBE"})
Answered(n) == {t \in Answerable : \E k \in 1 .. n : scenario.requests[k].type = t}
Accepted(n) == \A k \in 1 .. n : scenario.requests[k].mandatory => scenario.requests[k].type \notin Refused

AllRequests == Len(scenario.requests)
FramebufferWanted == scenario.console \/ Requested("FRAMEBUFFER")

(* From the time the maps are stored to the time the requests are read.    *)
Loading == {"list", "file", "kernel", "tags", "place", "copy", "clean", "modules"}

MapKinds ==
    /\ pc = "mmap" => Kinds = {}
    /\ pc = "ram" => Kinds = {"MMAP"}
    /\ pc = "pages" => Kinds = {"MMAP", "RAM_INFO"}
    /\ pc \in Loading => Kinds = MapTags

RequestKinds ==
    /\ pc \in {"info", "command"} =>
           i \in 1 .. AllRequests + 1 /\ Kinds = MapTags \cup Answered(i - 1) /\ Accepted(i - 1)
    /\ pc = "command" => i <= AllRequests /\ Request.type = "CMDLINE" /\ "CMDLINE" \notin Kinds

GraphicsKinds ==
    /\ pc = "framebuffer" =>
           Kinds = MapTags \cup Answered(AllRequests) \cup {"VBE"} /\ Accepted(AllRequests) /\ FramebufferWanted
    /\ pc = "entry" =>
           /\ Kinds \ {"VBE", "FRAMEBUFFER"} = MapTags \cup Answered(AllRequests) /\ Accepted(AllRequests)
           /\ GraphicsRequired => "VBE" \in Kinds
           /\ "VBE" \in Kinds => ("FRAMEBUFFER" \in Kinds <=> FramebufferWanted)

(* The record is whole once it exists, and what is in it is known at every *)
(* point of Multiboot_Boot up to the entry of the kernel.                  *)
InfoInv == /\ scenario \in Scenarios
           /\ pc = "start" => total_size = 0
           /\ pc # "start" => RecordInv
           /\ MapKinds /\ RequestKinds /\ GraphicsKinds

(* A step that leaves the list of tags alone.                              *)
LEMMA SameRecord ==
  ASSUME UNCHANGED list
  PROVE  (RecordInv => RecordInv') /\ Kinds' = Kinds /\ total_size' = total_size
<1>1. mbi' = mbi /\ total_size' = total_size
  BY DEF list
<1>2. EndAt' = EndAt /\ TagsAt' = TagsAt
  BY <1>1 DEF EndAt, TagsAt
<1>3. Kinds' = Kinds
  BY <1>1, <1>2 DEF Kinds
<1>4. RecordInv => RecordInv'
  BY <1>1, <1>2 DEF RecordInv
<1>. QED  BY <1>1, <1>3, <1>4

(* What the requests ask for is the same as long as the scenario is.       *)
LEMMA SameRequests ==
  ASSUME scenario' = scenario
  PROVE  /\ AllRequests' = AllRequests /\ FramebufferWanted' = FramebufferWanted
         /\ GraphicsRequired' = GraphicsRequired
         /\ \A n : Answered(n)' = Answered(n) /\ Accepted(n)' = Accepted(n)
<1>1. AllRequests' = AllRequests /\ \A type : Requests(type)' = Requests(type)
  BY DEF AllRequests, Requests
<1>2. \A type : Requested(type)' = Requested(type)
  BY <1>1 DEF Requested
<1>3. \A type : Mandatory(type)' = Mandatory(type)
  BY <1>1, <1>2 DEF Mandatory
<1>4. FramebufferWanted' = FramebufferWanted /\ GraphicsRequired' = GraphicsRequired
  BY <1>2, <1>3 DEF FramebufferWanted, GraphicsRequired
<1>5. \A n : Answered(n)' = Answered(n) /\ Accepted(n)' = Accepted(n)
  BY DEF Answered, Answerable, Accepted
<1>. QED  BY <1>1, <1>4, <1>5

(* Steps that leave the list alone and stay where they are, give up, or go *)
(* on with loading.                                                        *)
QuietInfoStep ==
    /\ UNCHANGED list /\ scenario' = scenario
    /\ \/ pc' = pc /\ i' = i
       \/ pc # "start" /\ pc' \in {"fail", "wild"}
       \/ pc \in Loading /\ pc' \in Loading

LEMMA QuietKeepsInfo == InfoInv /\ QuietInfoStep => InfoInv'
<1>1. SUFFICES ASSUME InfoInv, QuietInfoStep PROVE InfoInv'
  OBVIOUS
<1>2. (RecordInv => RecordInv') /\ Kinds' = Kinds /\ total_size' = total_size /\ scenario' = scenario
  BY <1>1, SameRecord DEF QuietInfoStep
<1>3. /\ AllRequests' = AllRequests /\ FramebufferWanted' = FramebufferWanted
      /\ GraphicsRequired' = GraphicsRequired
      /\ \A n : Answered(n)' = Answered(n) /\ Accepted(n)' = Accepted(n)
  BY <1>2, SameRequests
<1>4. scenario' \in Scenarios /\ (pc' = "start" => pc = "start") /\ (pc' # "start" => pc # "start")
  BY <1>1, <1>2 DEF InfoInv, QuietInfoStep, Loading
<1>5. (pc' = "start" => total_size' = 0) /\ (pc' # "start" => RecordInv')
  BY <1>1, <1>2, <1>4 DEF InfoInv
<1>6. CASE pc' = pc /\ i' = i
  <2>1. Request' = Request /\ Answered(i - 1)' = Answered(i - 1) /\ Accepted(i - 1)' = Accepted(i - 1)
    BY <1>2, <1>6 DEF Request, Answered, Answerable, Accepted
  <2>2. Answered(AllRequests)' = Answered(AllRequests) /\ Accepted(AllRequests)' = Accepted(AllRequests)
    BY <1>2, <1>3 DEF Answered, Answerable, Accepted
  <2>3. MapKinds'
    BY <1>1, <1>2, <1>6 DEF InfoInv, MapKinds
  <2>4. RequestKinds'
    BY <1>1, <1>2, <1>3, <1>6, <2>1 DEF InfoInv, RequestKinds
  <2>5. GraphicsKinds'
    BY <1>1, <1>2, <1>3, <1>6, <2>2 DEF InfoInv, GraphicsKinds
  <2>. QED  BY <1>4, <1>5, <2>3, <2>4, <2>5 DEF InfoInv
<1>7. CASE pc' \in {"fail", "wild"}
  BY <1>4, <1>5, <1>7 DEF InfoInv, MapKinds, RequestKinds, GraphicsKinds, Loading
<1>8. CASE pc \in Loading /\ pc' \in Loading
  <2>1. Kinds' = MapTags
    BY <1>1, <1>2, <1>8 DEF InfoInv, MapKinds
  <2>2. MapKinds'
    BY <1>8, <2>1 DEF MapKinds, Loading
  <2>3. RequestKinds' /\ GraphicsKinds'
    BY <1>8 DEF RequestKinds, GraphicsKinds, Loading
  <2>. QED  BY <1>4, <1>5, <2>2, <2>3 DEF InfoInv
<1>. QED  BY <1>1, <1>6, <1>7, <1>8 DEF QuietInfoStep

(* Every other step, by name.                                              *)
LEMMA InfoSteps ==
  ASSUME Next
  PROVE  \/ QuietInfoStep \/ CreateEmptyMBI \/ SaveE820Map \/ SaveRAMMap \/ SavePagesMap
         \/ KernelFileLoaded \/ NoModules \/ SaveInfo \/ AskCommand \/ SaveCommand
         \/ NoGraphics \/ SaveVBE \/ SaveFramebuffer
<1>. USE DEF given, Fails, QuietInfoStep, Loading
<1>1. CASE StoreMap \/ NoKernelFile \/ FindKernelFile \/ ReadBlock
  BY <1>1 DEF StoreMap, NoKernelFile, FindKernelFile, ReadBlock
<1>2. CASE LoadKernel \/ NoMoreTags \/ PlaceKernel
  BY <1>2 DEF LoadKernel, NoMoreTags, PlaceKernel
<1>3. CASE ReadTag
  <2>1. pc = "tags" /\ scenario' = scenario /\ UNCHANGED list
    BY <1>3 DEF ReadTag
  <2>2. pc' \in {"tags", "fail", "place"}
    BY <1>3 DEF ReadTag, RelocatableTag, AddressTag, EntryTag
  <2>. QED  BY <2>1, <2>2
<1>4. CASE MoveKernel \/ LoadSegment \/ SegmentsLoaded \/ CleanUp
  BY <1>4 DEF MoveKernel, LoadSegment, SegmentsLoaded, CleanUp
<1>5. CASE NoHeader \/ NoModuleList \/ LoadModule
  BY <1>5 DEF NoHeader, NoModuleList, LoadModule
<1>6. CASE EditCommand
  BY <1>6 DEF EditCommand
<1>. QED  BY <1>1, <1>2, <1>3, <1>4, <1>5, <1>6 DEF Next

(* The lists of requests, and what no tag of the loader can be.            *)
LEMMA ScenarioFacts ==
  ASSUME InfoInv
  PROVE  /\ scenario.requests \in Seq([type : STRING, mandatory : BOOLEAN])
         /\ AllRequests \in Nat /\ DOMAIN scenario.requests = 1 .. AllRequests
         /\ scenario.has \subseteq FromBIOS \cup {"BOOTDEV", "VBE"}
         /\ MapTags \cap Answerable = {}
         /\ {"VBE", "FRAMEBUFFER", "ELF_SECTIONS"} \cap (MapTags \cup Answerable) = {}
<1>1. /\ scenario.requests \in Seq([type : STRING, mandatory : BOOLEAN])
      /\ scenario.has \subseteq FromBIOS \cup {"BOOTDEV", "VBE"}
  BY ScenarioAssumption DEF InfoInv
<1>2. AllRequests \in Nat /\ DOMAIN scenario.requests = 1 .. AllRequests
  BY <1>1 DEF AllRequests
<1>3. Answerable \subseteq Supplied \cup FromBIOS \cup {"BOOTDEV"}
  BY <1>1 DEF Answerable
<1>4. /\ MapTags \cap Answerable = {}
      /\ {"VBE", "FRAMEBUFFER", "ELF_SECTIONS"} \cap (MapTags \cup Answerable) = {}
  BY <1>3 DEF MapTags, Supplied, FromBIOS
<1>. QED  BY <1>1, <1>2, <1>4

(* Multiboot_CreateEmptyMBI and the three maps.                            *)
LEMMA CreateKeepsInfo == InfoInv /\ CreateEmptyMBI => InfoInv'
<1>1. SUFFICES ASSUME InfoInv, CreateEmptyMBI PROVE InfoInv'
  OBVIOUS
<1>2. RecordInv' /\ Kinds' = {} /\ pc' = "mmap" /\ scenario' = scenario
  BY <1>1, EmptyRecord DEF CreateEmptyMBI, given
<1>. QED  BY <1>1, <1>2 DEF InfoInv, MapKinds, RequestKinds, GraphicsKinds, Loading

LEMMA MapsKeepInfo == InfoInv /\ MapInv /\ (SaveE820Map \/ SaveRAMMap \/ SavePagesMap) => InfoInv'
<1>1. SUFFICES ASSUME InfoInv, MapInv, SaveE820Map \/ SaveRAMMap \/ SavePagesMap PROVE InfoInv'
  OBVIOUS
<1>2. Len(E820_Table) \in Nat /\ Len(table) \in Nat
  BY <1>1 DEF MapInv, MapType
<1>3. ASSUME NEW from \in {"mmap", "ram", "pages"}, NEW type \in TagTypes, NEW size \in Nat, size % 8 = 0, NEW to,
             MapTag(from, type, size, to)
      PROVE  RecordInv' /\ Kinds' = Kinds \cup {type} /\ pc = from /\ pc' = to /\ scenario' = scenario
  <2>1. pc = from /\ HasPlace(type) /\ AddTag(type, 16 + size) /\ pc' = to /\ scenario' = scenario
    BY <1>3 DEF MapTag
  <2>2. RecordInv
    BY <1>1, <2>1 DEF InfoInv
  <2>3. type \notin Kinds
    BY <2>1, <2>2, PlaceOf
  <2>4. 16 + size \in Nat /\ (16 + size) % 8 = 0 /\ 16 + size # 0
    BY <1>3
  <2>5. RecordInv' /\ Kinds' = Kinds \cup {type}
    BY <2>1, <2>2, <2>3, <2>4, AddTagKeeps
  <2>. QED  BY <2>1, <2>5
<1>4. MapTags \subseteq TagTypes
  BY DEF TagTypes
<1>5. CASE SaveE820Map
  <2>. DEFINE size == 24 * Len(E820_Table)
              to == IF E820_Table = << >> THEN "fail" ELSE "ram"
  <2>1. size \in Nat /\ size % 8 = 0 /\ "MMAP" \in TagTypes /\ to \in {"fail", "ram"}
    BY <1>2, <1>4 DEF MapTags
  <2>2. MapTag("mmap", "MMAP", size, to)
    BY <1>5 DEF SaveE820Map
  <2>. HIDE DEF size, to
  <2>3. RecordInv' /\ Kinds' = Kinds \cup {"MMAP"} /\ pc = "mmap" /\ pc' = to /\ scenario' = scenario
    BY <1>3, <2>1, <2>2
  <2>4. Kinds' = {"MMAP"}
    BY <1>1, <2>3 DEF InfoInv, MapKinds
  <2>. QED  BY <1>1, <2>1, <2>3, <2>4 DEF InfoInv, MapKinds, RequestKinds, GraphicsKinds, Loading
<1>6. CASE SaveRAMMap
  <2>. DEFINE size == 16 * Len(table)
  <2>1. size \in Nat /\ size % 8 = 0 /\ "RAM_INFO" \in TagTypes
    BY <1>2, <1>4 DEF MapTags
  <2>2. MapTag("ram", "RAM_INFO", size, "pages")
    BY <1>6 DEF SaveRAMMap
  <2>. HIDE DEF size
  <2>3. RecordInv' /\ Kinds' = Kinds \cup {"RAM_INFO"} /\ pc = "ram" /\ pc' = "pages" /\ scenario' = scenario
    BY <1>3, <2>1, <2>2
  <2>4. Kinds' = {"MMAP", "RAM_INFO"}
    BY <1>1, <2>3 DEF InfoInv, MapKinds
  <2>. QED  BY <1>1, <2>1, <2>3, <2>4 DEF InfoInv, MapKinds, RequestKinds, GraphicsKinds, Loading
<1>7. CASE SavePagesMap
  <2>. DEFINE size == 16 * Len(table)
  <2>1. size \in Nat /\ size % 8 = 0 /\ "RAM_INFO_PAGE_ALIGNED" \in TagTypes
    BY <1>2, <1>4 DEF MapTags
  <2>2. MapTag("pages", "RAM_INFO_PAGE_ALIGNED", size, "list")
    BY <1>7 DEF SavePagesMap
  <2>. HIDE DEF size
  <2>3. /\ RecordInv' /\ Kinds' = Kinds \cup {"RAM_INFO_PAGE_ALIGNED"}
        /\ pc = "pages" /\ pc' = "list" /\ scenario' = scenario
    BY <1>3, <2>1, <2>2
  <2>4. Kinds' = MapTags
    BY <1>1, <2>3 DEF InfoInv, MapKinds, MapTags
  <2>. QED  BY <1>1, <2>1, <2>3, <2>4 DEF InfoInv, MapKinds, RequestKinds, GraphicsKinds, Loading
<1>. QED  BY <1>1, <1>5, <1>6, <1>7

(* Multiboot_LoadKernelFile gives up with the sections' tag in the list.   *)
LEMMA FileLoadedKeepsInfo == InfoInv /\ KernelFileLoaded => InfoInv'
<1>1. SUFFICES ASSUME InfoInv, KernelFileLoaded PROVE InfoInv'
  OBVIOUS
<1>2. /\ pc = "file" /\ scenario' = scenario
      /\ \/ pc' \in {"fail", "kernel"} /\ UNCHANGED list
         \/ pc' = "fail" /\ HasPlace("ELF_SECTIONS") /\ AddTag("ELF_SECTIONS", 16)
  BY <1>1 DEF KernelFileLoaded, given
<1>3. CASE pc' \in {"fail", "kernel"} /\ UNCHANGED list
  <2>1. QuietInfoStep
    BY <1>2, <1>3 DEF QuietInfoStep, Loading
  <2>. QED  BY <1>1, <2>1, QuietKeepsInfo
<1>4. CASE pc' = "fail" /\ HasPlace("ELF_SECTIONS") /\ AddTag("ELF_SECTIONS", 16)
  <2>1. RecordInv /\ "ELF_SECTIONS" \in TagTypes
    BY <1>1, <1>2 DEF InfoInv, TagTypes
  <2>2. "ELF_SECTIONS" \notin Kinds
    BY <1>4, <2>1, PlaceOf
  <2>3. RecordInv'
    BY <1>4, <2>1, <2>2, AddTagKeeps
  <2>. QED  BY <1>1, <1>2, <1>4, <2>3 DEF InfoInv, MapKinds, RequestKinds, GraphicsKinds, Loading
<1>. QED  BY <1>2, <1>3, <1>4

(* The requests begin.                                                     *)
LEMMA NoModulesKeepsInfo == InfoInv /\ NoModules => InfoInv'
<1>1. SUFFICES ASSUME InfoInv, NoModules PROVE InfoInv'
  OBVIOUS
<1>2. pc = "modules" /\ pc' = "info" /\ i' = 1 /\ scenario' = scenario /\ UNCHANGED list
  BY <1>1 DEF NoModules, given
<1>3. RecordInv' /\ Kinds' = MapTags
  BY <1>1, <1>2, SameRecord DEF InfoInv, MapKinds, Loading
<1>4. AllRequests' = AllRequests /\ AllRequests \in Nat
  BY <1>1, <1>2, SameRequests, ScenarioFacts
<1>5. 1 .. i' - 1 = {}
  BY <1>2
<1>6. Answered(i - 1)' = {} /\ Accepted(i - 1)'
  BY <1>5 DEF Answered, Accepted
<1>7. i' \in 1 .. AllRequests' + 1
  BY <1>2, <1>4
<1>8. RequestKinds'
  BY <1>2, <1>3, <1>6, <1>7 DEF RequestKinds
<1>. QED  BY <1>1, <1>2, <1>3, <1>8 DEF InfoInv, MapKinds, GraphicsKinds, Loading

(* The next request, and what it adds to the answers.                      *)
LEMMA NextRequest ==
  ASSUME InfoInv, i \in 1 .. AllRequests
  PROVE  /\ Answered(i) = Answered(i - 1) \cup ({Request.type} \cap Answerable)
         /\ Accepted(i) <=> Accepted(i - 1) /\ (Request.mandatory => Request.type \notin Refused)
         /\ i + 1 \in 1 .. AllRequests + 1 /\ (i + 1) - 1 = i
<1>1. AllRequests \in Nat
  BY ScenarioFacts
<1>2. \A k : k \in 1 .. i <=> k \in 1 .. i - 1 \/ k = i
  BY <1>1
<1>3. Answered(i) = Answered(i - 1) \cup ({Request.type} \cap Answerable)
  BY <1>2 DEF Answered, Request
<1>4. Accepted(i) <=> Accepted(i - 1) /\ (Request.mandatory => Request.type \notin Refused)
  BY <1>2 DEF Accepted, Request
<1>. QED  BY <1>1, <1>3, <1>4

(* One request done: the record has grown by its answer.                   *)
LEMMA RequestDone ==
  ASSUME InfoInv, pc \in {"info", "command"}, i \in 1 .. AllRequests, scenario' = scenario, RecordInv',
         \/ pc' = "fail"
         \/ /\ pc' = "info" /\ i' = i + 1
            /\ Kinds' = Kinds \cup ({Request.type} \cap Answerable)
            /\ Request.mandatory => Request.type \notin Refused
  PROVE  InfoInv'
<1>1. CASE pc' = "fail"
  BY <1>1 DEF InfoInv, MapKinds, RequestKinds, GraphicsKinds, Loading
<1>2. CASE /\ pc' = "info" /\ i' = i + 1
           /\ Kinds' = Kinds \cup ({Request.type} \cap Answerable)
           /\ Request.mandatory => Request.type \notin Refused
  <2>1. Kinds = MapTags \cup Answered(i - 1) /\ Accepted(i - 1)
    BY DEF InfoInv, RequestKinds
  <2>2. Kinds' = MapTags \cup Answered(i) /\ Accepted(i) /\ i' \in 1 .. AllRequests + 1 /\ i' - 1 = i
    BY <1>2, <2>1, NextRequest
  <2>3. Answered(i - 1)' = Answered(i) /\ (Accepted(i - 1)' <=> Accepted(i))
    BY <2>2 DEF Answered, Answerable, Accepted
  <2>4. AllRequests' = AllRequests
    BY SameRequests
  <2>5. RequestKinds'
    BY <1>2, <2>2, <2>3, <2>4 DEF RequestKinds
  <2>. QED  BY <1>2, <2>5 DEF InfoInv, MapKinds, GraphicsKinds, Loading
<1>. QED  BY <1>1, <1>2

(* The sizes of tags are multiples of 8.                                   *)
LEMMA SizesAreWhole ==
  ASSUME NEW type \in (Supplied \cup FromBIOS \cup {"BOOTDEV"}) \ {"CMDLINE"}, NEW size \in Sizes(type)
  PROVE  size \in Nat \ {0} /\ size % 8 = 0
<1>1. CASE type = "SMBIOS"
  <2>1. PICK n \in Lengths : size = Padded(16 + n)
    BY <1>1 DEF Sizes
  <2>2. 16 + n \in Nat /\ 16 + n # 0
    BY MultibootAssumption
  <2>3. Padded(16 + n) \in Nat /\ Padded(16 + n) % 8 = 0 /\ Padded(16 + n) >= 16 + n
    BY <2>2, PaddedIs
  <2>. QED  BY <2>1, <2>2, <2>3
<1>2. CASE type \in {"BOOT_LOADER_NAME", "BASIC_MEMINFO", "LOAD_BASE_ADDR"}
  BY <1>2 DEF Sizes
<1>3. CASE type = "BOOTDEV"
  BY <1>3 DEF Sizes
<1>4. CASE type \in {"APM", "ACPI_OLD"}
  BY <1>4 DEF Sizes
<1>5. CASE type = "ACPI_NEW"
  BY <1>5 DEF Sizes
<1>. QED  BY <1>1, <1>2, <1>3, <1>4, <1>5 DEF Supplied, FromBIOS

(* Multiboot_SaveInfo: one request other than for the command line.        *)
LEMMA SaveInfoKeepsInfo == InfoInv /\ SaveInfo => InfoInv'
<1>1. SUFFICES ASSUME InfoInv, SaveInfo PROVE InfoInv'
  OBVIOUS
<1>. DEFINE type == Request.type
            Tabled == type \in (Supplied \cup FromBIOS) \ {"CMDLINE"} /\ HasPlace(type)
            Device == type = "BOOTDEV" /\ HasPlace(type)
<1>2. /\ pc = "info" /\ i <= Len(scenario.requests) /\ i' = i + 1 /\ scenario' = scenario
      /\ type = "CMDLINE" => ~HasPlace(type)
      /\ pc' = IF type \in Refused /\ Request.mandatory THEN "fail" ELSE "info"
  BY <1>1 DEF SaveInfo, given
<1>3. \/ Tabled /\ SaveTag(type)
      \/ Device /\ SaveBootDevice
      \/ ~Tabled /\ ~Device /\ UNCHANGED list
  BY <1>1 DEF SaveInfo
<1>4. RecordInv /\ i \in 1 .. AllRequests
  <2>1. RecordInv /\ i \in 1 .. AllRequests + 1 /\ AllRequests \in Nat
    BY <1>1, <1>2, ScenarioFacts DEF InfoInv, RequestKinds
  <2>. QED  BY <1>2, <2>1 DEF AllRequests
<1>. HIDE DEF type
<1>5. /\ Supplied \cup FromBIOS \cup {"BOOTDEV"} \subseteq TagTypes
      /\ Answerable \subseteq Supplied \cup FromBIOS \cup {"BOOTDEV"}
      /\ \A t \in FromBIOS \cup {"BOOTDEV"} : t \in Answerable <=> Stored(t)
  <2>1. scenario.has \subseteq FromBIOS \cup {"BOOTDEV", "VBE"}
    BY <1>1, ScenarioFacts
  <2>2. \A t \in FromBIOS \cup {"BOOTDEV"} : t \notin Supplied /\ t # "VBE"
    BY DEF FromBIOS, Supplied
  <2>. QED  BY <2>1, <2>2 DEF TagTypes, Answerable, Stored
<1>6. RecordInv' /\ Kinds' = Kinds \cup ({type} \cap Answerable)
  <2>1. ASSUME NEW n \in Nat, n % 8 = 0, type \in Supplied \cup FromBIOS \cup {"BOOTDEV"}, HasPlace(type),
               AddTag(type, n), n # 0 <=> type \in Answerable
        PROVE  RecordInv' /\ Kinds' = Kinds \cup ({type} \cap Answerable)
    <3>1. type \in TagTypes /\ type \notin Kinds
      BY <1>4, <1>5, <2>1, PlaceOf
    <3>2. RecordInv' /\ Kinds' = IF n = 0 THEN Kinds ELSE Kinds \cup {type}
      BY <1>4, <2>1, <3>1, AddTagKeeps
    <3>. QED  BY <2>1, <3>2
  <2>2. CASE Tabled /\ SaveTag(type)
    <3>1. PICK size \in Sizes(type) : AddTag(type, IF type \in Supplied \/ Stored(type) THEN size ELSE 0)
      BY <2>2 DEF SaveTag
    <3>2. size \in Nat \ {0} /\ size % 8 = 0
      BY <2>2, SizesAreWhole
    <3>3. type \in Supplied \/ Stored(type) <=> type \in Answerable
      BY <1>5, <2>2 DEF Answerable
    <3>4. CASE type \in Answerable
      <4>1. AddTag(type, size)
        BY <3>1, <3>3, <3>4
      <4>. QED  BY <2>1, <2>2, <3>2, <3>4, <4>1
    <3>5. CASE type \notin Answerable
      <4>1. AddTag(type, 0)
        BY <3>1, <3>3, <3>5
      <4>2. 0 \in Nat /\ 0 % 8 = 0
        OBVIOUS
      <4>. QED  BY <2>1, <2>2, <3>5, <4>1, <4>2
    <3>. QED  BY <3>4, <3>5
  <2>3. CASE Device /\ SaveBootDevice
    <3>1. CASE Stored("BOOTDEV")
      <4>1. PICK size \in Sizes("BOOTDEV") : AddTag("BOOTDEV", size)
        BY <2>3, <3>1 DEF SaveBootDevice, SaveTag
      <4>2. "BOOTDEV" \in (Supplied \cup FromBIOS \cup {"BOOTDEV"}) \ {"CMDLINE"}
        OBVIOUS
      <4>3. size \in Nat \ {0} /\ size % 8 = 0
        BY <4>2, SizesAreWhole
      <4>4. type \in Answerable /\ type = "BOOTDEV" /\ HasPlace(type)
        BY <1>5, <2>3, <3>1
      <4>. QED  BY <2>1, <4>1, <4>3, <4>4
    <3>2. CASE ~Stored("BOOTDEV")
      <4>1. UNCHANGED list
        BY <2>3, <3>2 DEF SaveBootDevice
      <4>2. type \notin Answerable
        BY <1>5, <2>3, <3>2
      <4>. QED  BY <1>4, <4>1, <4>2, SameRecord
    <3>. QED  BY <3>1, <3>2
  <2>4. CASE ~Tabled /\ ~Device /\ UNCHANGED list
    <3>1. type \in Answerable => type \in Kinds
      <4>1. SUFFICES ASSUME type \in Answerable PROVE type \in Kinds
        OBVIOUS
      <4>2. ~HasPlace(type) /\ type \in TagTypes
        BY <1>2, <1>5, <2>4, <4>1
      <4>. QED  BY <1>4, <4>2, PlaceOf
    <3>. QED  BY <1>4, <2>4, <3>1, SameRecord
  <2>. QED  BY <1>3, <2>2, <2>3, <2>4
<1>7. \/ pc' = "fail"
      \/ /\ pc' = "info" /\ i' = i + 1
         /\ Kinds' = Kinds \cup ({Request.type} \cap Answerable)
         /\ Request.mandatory => Request.type \notin Refused
  BY <1>2, <1>6 DEF type
<1>. QED  BY <1>1, <1>2, <1>4, <1>6, <1>7, RequestDone

(* Multiboot_SaveBootCommand: the request for the command line.            *)
LEMMA CommandKeepsInfo == InfoInv /\ CommandInv /\ (AskCommand \/ SaveCommand) => InfoInv'
<1>1. SUFFICES ASSUME InfoInv, CommandInv, AskCommand \/ SaveCommand PROVE InfoInv'
  OBVIOUS
<1>2. "CMDLINE" \in TagTypes /\ "CMDLINE" \in Answerable /\ "CMDLINE" \notin Refused
  BY DEF TagTypes, Answerable, Supplied, Refused
<1>3. CASE AskCommand
  <2>1. /\ pc = "info" /\ pc' = "command" /\ i <= Len(scenario.requests) /\ i' = i /\ scenario' = scenario
        /\ Request.type = "CMDLINE" /\ HasPlace("CMDLINE") /\ UNCHANGED list
    BY <1>3 DEF AskCommand
  <2>2. RecordInv /\ i \in 1 .. AllRequests + 1 /\ Kinds = MapTags \cup Answered(i - 1) /\ Accepted(i - 1)
    BY <1>1, <2>1 DEF InfoInv, RequestKinds
  <2>3. "CMDLINE" \notin Kinds
    BY <1>2, <2>1, <2>2, PlaceOf
  <2>4. RecordInv' /\ Kinds' = Kinds
    BY <2>1, <2>2, SameRecord
  <2>5. Answered(i - 1)' = Answered(i - 1) /\ (Accepted(i - 1)' <=> Accepted(i - 1)) /\ Request' = Request
    BY <2>1 DEF Answered, Answerable, Accepted, Request
  <2>6. AllRequests' = AllRequests /\ i <= AllRequests
    BY <2>1, SameRequests DEF AllRequests
  <2>7. RequestKinds'
    BY <2>1, <2>2, <2>3, <2>4, <2>5, <2>6 DEF RequestKinds
  <2>. QED  BY <1>1, <2>1, <2>4, <2>7 DEF InfoInv, MapKinds, GraphicsKinds, Loading
<1>4. CASE SaveCommand
  <2>. DEFINE size == Padded(8 + command.pos + 1)
  <2>1. /\ pc = "command" /\ pc' = "info" /\ i' = i + 1 /\ scenario' = scenario /\ AddTag("CMDLINE", size)
    BY <1>4 DEF SaveCommand
  <2>2. /\ RecordInv /\ i \in 1 .. AllRequests + 1 /\ i <= AllRequests /\ Request.type = "CMDLINE"
        /\ "CMDLINE" \notin Kinds
    BY <1>1, <2>1 DEF InfoInv, RequestKinds
  <2>3. i \in 1 .. AllRequests
    BY <1>1, <2>2, ScenarioFacts
  <2>4. size \in Nat /\ size % 8 = 0 /\ size # 0
    <3>1. command.pos \in 0 .. CommandLimit
      BY <1>1 DEF CommandInv, CommandInStep
    <3>2. 8 + command.pos + 1 \in Nat /\ 8 + command.pos + 1 > 0
      BY <3>1, CommandAssumption
    <3>3. size \in Nat /\ size % 8 = 0 /\ size >= 8 + command.pos + 1
      BY <3>2, PaddedIs
    <3>. QED  BY <3>2, <3>3
  <2>. HIDE DEF size
  <2>5. RecordInv' /\ Kinds' = Kinds \cup {"CMDLINE"}
    BY <1>2, <2>1, <2>2, <2>4, AddTagKeeps
  <2>6. Kinds' = Kinds \cup ({Request.type} \cap Answerable) /\ Request.type \notin Refused
    BY <1>2, <2>2, <2>5
  <2>. QED  BY <1>1, <2>1, <2>3, <2>5, <2>6, RequestDone
<1>. QED  BY <1>1, <1>3, <1>4

(* Multiboot_SaveGraphicsInfo: no graphics, graphics without and with a    *)
(* mode that is found, and the mode that is set.                           *)
LEMMA GraphicsKeepInfo == InfoInv /\ (NoGraphics \/ SaveVBE \/ SaveFramebuffer) => InfoInv'
<1>1. SUFFICES ASSUME InfoInv, NoGraphics \/ SaveVBE \/ SaveFramebuffer PROVE InfoInv'
  OBVIOUS
<1>. DEFINE asked == MapTags \cup Answered(AllRequests)
<1>2. "VBE" \in TagTypes /\ "FRAMEBUFFER" \in TagTypes
  BY DEF TagTypes
<1>3. "VBE" \notin asked /\ "FRAMEBUFFER" \notin asked
  BY <1>1, ScenarioFacts DEF Answered
<1>4. scenario' = scenario
  BY <1>1 DEF NoGraphics, SaveVBE, SaveFramebuffer, given
<1>5. /\ asked' = asked /\ (Accepted(AllRequests)' <=> Accepted(AllRequests))
      /\ FramebufferWanted' = FramebufferWanted /\ GraphicsRequired' = GraphicsRequired
  <2>1. Answered(AllRequests)' = Answered(AllRequests) /\ (Accepted(AllRequests)' <=> Accepted(AllRequests))
    BY <1>4 DEF Answered, Answerable, Accepted, AllRequests
  <2>. QED  BY <1>4, <2>1, SameRequests
<1>. HIDE DEF asked
<1>6. ASSUME pc = "info", i > Len(scenario.requests)
      PROVE  RecordInv /\ Kinds = asked /\ Accepted(AllRequests)
  <2>1. /\ RecordInv /\ i \in 1 .. AllRequests + 1 /\ Kinds = MapTags \cup Answered(i - 1) /\ Accepted(i - 1)
        /\ AllRequests \in Nat
    BY <1>1, <1>6, ScenarioFacts DEF InfoInv, RequestKinds
  <2>2. i - 1 = AllRequests
    BY <1>6, <2>1 DEF AllRequests
  <2>. QED  BY <2>1, <2>2 DEF asked
<1>7. ASSUME pc' = "entry", RecordInv', Accepted(AllRequests),
             Kinds' \ {"VBE", "FRAMEBUFFER"} = asked,
             GraphicsRequired => "VBE" \in Kinds',
             "VBE" \in Kinds' => ("FRAMEBUFFER" \in Kinds' <=> FramebufferWanted)
      PROVE  InfoInv'
  <2>1. GraphicsKinds'
    BY <1>5, <1>7 DEF GraphicsKinds, asked
  <2>. QED  BY <1>1, <1>4, <1>7, <2>1 DEF InfoInv, MapKinds, RequestKinds, Loading
<1>8. ASSUME pc' = "fail", RecordInv' PROVE InfoInv'
  BY <1>1, <1>4, <1>8 DEF InfoInv, MapKinds, RequestKinds, GraphicsKinds, Loading
<1>9. CASE NoGraphics
  <2>1. /\ pc = "info" /\ i > Len(scenario.requests) /\ pc' = "entry" /\ UNCHANGED list
        /\ ~GraphicsRequired
    BY <1>9 DEF NoGraphics, GraphicsRequired, Mandatory
  <2>2. RecordInv' /\ Kinds' = asked /\ Accepted(AllRequests)
    BY <1>6, <2>1, SameRecord
  <2>. QED  BY <1>3, <1>7, <2>1, <2>2
<1>10. CASE SaveVBE
  <2>1. PICK mode \in ModeFound :
          /\ AddTag("VBE", IF VBE_StoreInfo /\ mode THEN 784 ELSE 0)
          /\ pc' = IF VBE_StoreInfo /\ mode
                   THEN IF scenario.console \/ Requested("FRAMEBUFFER") THEN "framebuffer" ELSE "entry"
                   ELSE IF GraphicsRequired THEN "fail" ELSE "entry"
    BY <1>10 DEF SaveVBE
  <2>2. pc = "info" /\ i > Len(scenario.requests) /\ HasPlace("VBE")
    BY <1>10 DEF SaveVBE
  <2>3. RecordInv /\ Kinds = asked /\ Accepted(AllRequests)
    BY <1>6, <2>2
  <2>4. "VBE" \notin Kinds
    BY <1>3, <2>3
  <2>5. CASE VBE_StoreInfo /\ mode
    <3>1. AddTag("VBE", 784) /\ pc' = IF FramebufferWanted THEN "framebuffer" ELSE "entry"
      BY <2>1, <2>5 DEF FramebufferWanted
    <3>2. 784 \in Nat /\ 784 % 8 = 0 /\ 784 # 0
      OBVIOUS
    <3>3. RecordInv' /\ Kinds' = asked \cup {"VBE"}
      BY <1>2, <2>3, <2>4, <3>1, <3>2, AddTagKeeps
    <3>4. CASE FramebufferWanted
      <4>1. pc' = "framebuffer" /\ Kinds' = asked \cup {"VBE"}
        BY <3>1, <3>3, <3>4
      <4>2. GraphicsKinds'
        BY <1>5, <2>3, <3>4, <4>1 DEF GraphicsKinds, asked
      <4>. QED  BY <1>1, <1>4, <3>3, <4>1, <4>2 DEF InfoInv, MapKinds, RequestKinds, Loading
    <3>5. CASE ~FramebufferWanted
      <4>1. /\ pc' = "entry" /\ Kinds' \ {"VBE", "FRAMEBUFFER"} = asked
            /\ "VBE" \in Kinds' /\ "FRAMEBUFFER" \notin Kinds'
        BY <1>3, <3>1, <3>3, <3>5
      <4>. QED  BY <1>7, <2>3, <3>3, <3>5, <4>1
    <3>. QED  BY <3>4, <3>5
  <2>6. CASE ~(VBE_StoreInfo /\ mode)
    <3>1. AddTag("VBE", 0) /\ pc' = IF GraphicsRequired THEN "fail" ELSE "entry"
      BY <2>1, <2>6
    <3>2. 0 \in Nat /\ 0 % 8 = 0
      OBVIOUS
    <3>3. RecordInv' /\ Kinds' = asked
      BY <1>2, <2>3, <2>4, <3>1, <3>2, AddTagKeeps
    <3>4. CASE GraphicsRequired
      BY <1>8, <3>1, <3>3, <3>4
    <3>5. CASE ~GraphicsRequired
      BY <1>3, <1>7, <2>3, <3>1, <3>3, <3>5
    <3>. QED  BY <3>4, <3>5
  <2>. QED  BY <2>5, <2>6
<1>11. CASE SaveFramebuffer
  <2>1. pc = "framebuffer" /\ AddTag("FRAMEBUFFER", 40) /\ pc' \in {"entry", "fail"}
    BY <1>11 DEF SaveFramebuffer
  <2>2. RecordInv /\ Kinds = asked \cup {"VBE"} /\ Accepted(AllRequests) /\ FramebufferWanted
    BY <1>1, <2>1 DEF InfoInv, GraphicsKinds, asked
  <2>3. "FRAMEBUFFER" \notin Kinds
    BY <1>3, <2>2
  <2>4. 40 \in Nat /\ 40 % 8 = 0 /\ 40 # 0
    OBVIOUS
  <2>5. RecordInv' /\ Kinds' = asked \cup {"VBE", "FRAMEBUFFER"}
    BY <1>2, <2>1, <2>2, <2>3, <2>4, AddTagKeeps
  <2>6. /\ Kinds' \ {"VBE", "FRAMEBUFFER"} = asked
        /\ "VBE" \in Kinds' /\ "FRAMEBUFFER" \in Kinds'
    BY <1>3, <2>5
  <2>. QED  BY <1>7, <1>8, <2>1, <2>2, <2>5, <2>6
<1>. QED  BY <1>1, <1>9, <1>10, <1>11

(* InfoInv is inductive, next to the invariants of the memory map and of   *)
(* the line editor: Multiboot_Boot knows at every point which tags are in  *)
(* the record, and the record is whole.                                    *)
THEOREM InfoInvariance == Spec => []InfoInv
<1>1. Init => InfoInv
  <2>1. SUFFICES ASSUME Init PROVE InfoInv
    OBVIOUS
  <2>2. pc = "start" /\ scenario \in Scenarios /\ total_size = 0
    BY <2>1 DEF Init
  <2>. QED  BY <2>2 DEF InfoInv, MapKinds, RequestKinds, GraphicsKinds, Loading
<1>2. InfoInv /\ MapInv /\ CommandInv /\ [Next]_vars => InfoInv'
  <2>1. SUFFICES ASSUME InfoInv, MapInv, CommandInv, [Next]_vars PROVE InfoInv'
    OBVIOUS
  <2>2. CASE UNCHANGED vars
    <3>1. QuietInfoStep
      BY <2>2 DEF vars, given, list, QuietInfoStep
    <3>. QED  BY <2>1, <3>1, QuietKeepsInfo
  <2>3. CASE Next
    BY <2>1, <2>3, InfoSteps, QuietKeepsInfo, CreateKeepsInfo, MapsKeepInfo, FileLoadedKeepsInfo,
       NoModulesKeepsInfo, SaveInfoKeepsInfo, CommandKeepsInfo, GraphicsKeepInfo
  <2>. QED  BY <2>1, <2>2, <2>3
<1>. QED  BY <1>1, <1>2, MapInvariance, CommandInvariance, PTL DEF Spec

(* The list of tags is whole after every call, and the kernel is entered   *)
(* only with the information it asked for, every tag that could be         *)
(* supplied and no other, and with graphics if they were required          *)
(* (Multiboot_SaveInfo, Multiboot_SaveGraphicsInfo), whatever the kernel's *)
(* requests are, in whatever order and however often they are repeated.    *)
THEOREM InfoIsComplete == Spec => []InfoComplete
<1>1. InfoInv => InfoComplete
  <2>1. SUFFICES ASSUME InfoInv PROVE InfoComplete
    OBVIOUS
  <2>2. CASE pc = "start"
    BY <2>1, <2>2 DEF InfoInv, InfoComplete, TagList
  <2>3. CASE pc # "start"
    <3>1. TagList /\ Types = Kinds
      BY <2>1, <2>3, WholeList DEF InfoInv
    <3>2. SUFFICES ASSUME pc = "entry"
                   PROVE  /\ Types \ {"VBE", "FRAMEBUFFER"} =
                                MapTags \cup {t \in Supplied \cup (scenario.has \ {"VBE"}) : Requested(t)}
                          /\ \A r \in Range(scenario.requests) : r.mandatory => r.type \notin Refused
                          /\ scenario.console \/ Mandatory("VBE") \/ Mandatory("FRAMEBUFFER") => "VBE" \in Types
                          /\ "VBE" \in Types =>
                                ("FRAMEBUFFER" \in Types <=> scenario.console \/ Requested("FRAMEBUFFER"))
      BY <3>1 DEF InfoComplete
    <3>3. /\ Kinds \ {"VBE", "FRAMEBUFFER"} = MapTags \cup Answered(AllRequests) /\ Accepted(AllRequests)
          /\ GraphicsRequired => "VBE" \in Kinds
          /\ "VBE" \in Kinds => ("FRAMEBUFFER" \in Kinds <=> FramebufferWanted)
      BY <2>1, <3>2 DEF InfoInv, GraphicsKinds
    <3>4. DOMAIN scenario.requests = 1 .. AllRequests
      BY <2>1, ScenarioFacts
    <3>5. Answered(AllRequests) = {t \in Supplied \cup (scenario.has \ {"VBE"}) : Requested(t)}
      BY <3>4 DEF Answered, Answerable, Requested, Requests
    <3>6. \A r \in Range(scenario.requests) : r.mandatory => r.type \notin Refused
      BY <3>3, <3>4 DEF Accepted, Range
    <3>. QED  BY <3>1, <3>3, <3>5, <3>6 DEF GraphicsRequired, FramebufferWanted
  <2>. QED  BY <2>2, <2>3
<1>. QED  BY <1>1, InfoInvariance, PTL
=============================================================================
