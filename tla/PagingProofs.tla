---------------------------- MODULE PagingProofs ----------------------------
(***************************************************************************)
(* Proofs, for any number of processes, frames and page table entries,     *)
(* that the address spaces share out the frames and that the heaps are     *)
(* mapped.                                                                 *)
(*                                                                         *)
(* Who has a frame is a function, Names, from the places that can name one *)
(* to frames.  What a step does to it is one of a few changes, and each of *)
(* them keeps Own: these are lemmas about functions, and the rest is to    *)
(* show for every action which of them it makes.                           *)
(***************************************************************************)
EXTENDS Paging, FiniteSetTheorems, WellFoundedInduction, TLAPS

All == Frames \cup {Low}
DirIndex == 0 .. Dirs - 1
TabIndex == 0 .. Tabs - 1

LEMMA Distinct ==
    /\ Absent \notin All /\ Junk \notin All /\ Absent # Junk /\ Low \notin Frames
    /\ Zero[1] = Absent /\ Zero[2] = FALSE
BY PagingAssumption DEF All, Low, Absent, Junk, Zero

(* A set of natural numbers that is not empty has a minimum.               *)
LEMMA MinIsIn == ASSUME NEW S \in SUBSET Nat, S # {} PROVE Min(S) \in S /\ \A n \in S : Min(S) <= n
<1>. DEFINE R == OpToRel(<, Nat)
<1>1. IsWellFoundedOn(R, Nat)
  BY NatLessThanWellFounded
<1>2. \A x, y \in Nat : y < x => <<y, x>> \in R
  BY DEF OpToRel
<1>. HIDE DEF R
<1>3. PICK x \in S : \A y \in S : ~ (<<y, x>> \in R)
  BY <1>1, WFMin
<1>4. \A y \in S : x <= y
  <2>. TAKE y \in S
  <2>1. x \in Nat /\ y \in Nat /\ ~(y < x)
    BY <1>2, <1>3
  <2>. QED  BY <2>1
<1>. QED  BY <1>3, <1>4 DEF Min

-----------------------------------------------------------------------------
(* Pages and the two indices of a page.                                    *)

LEMMA PageIndex ==
  ASSUME NEW v \in Pages
  PROVE  /\ PAGEDIRIDX(v) \in DirIndex /\ PAGETABIDX(v) \in TabIndex
         /\ v = Tabs * PAGEDIRIDX(v) + PAGETABIDX(v)
         /\ v \in Nat
<1>. DEFINE i == v \div Tabs
            j == v % Tabs
<1>0. v \in Nat /\ v < Dirs * Tabs /\ Tabs \in Nat /\ Tabs > 0 /\ Dirs \in Nat
  BY PagingAssumption DEF Pages
<1>1. i \in Int /\ j \in 0 .. Tabs - 1 /\ v = Tabs * i + j
  BY <1>0
<1>2. i >= 0 /\ i < Dirs
  <2>. HIDE DEF i, j
  <2>1. i >= 0
    <3>. SUFFICES ASSUME i <= -1 PROVE FALSE
      BY <1>1
    <3>1. Tabs * i <= Tabs * (-1)
      BY <1>0, <1>1
    <3>. QED  BY <3>1, <1>0, <1>1
  <2>2. i < Dirs
    <3>. SUFFICES ASSUME i >= Dirs PROVE FALSE
      BY <1>1, <1>0
    <3>1. Tabs * i >= Tabs * Dirs
      BY <1>0, <1>1
    <3>. QED  BY <3>1, <1>0, <1>1
  <2>. QED  BY <2>1, <2>2
<1>. QED  BY <1>0, <1>1, <1>2 DEF PAGEDIRIDX, PAGETABIDX, DirIndex, TabIndex

LEMMA PageOfIndex ==
  ASSUME NEW i \in DirIndex, NEW j \in TabIndex
  PROVE  /\ Tabs * i + j \in Pages
         /\ PAGEDIRIDX(Tabs * i + j) = i
         /\ PAGETABIDX(Tabs * i + j) = j
<1>0. Tabs \in Nat /\ Tabs > 0 /\ Dirs \in Nat /\ i \in Nat /\ j \in Nat /\ j < Tabs /\ i <= Dirs - 1
  BY PagingAssumption DEF DirIndex, TabIndex
<1>1. Tabs * i >= 0 /\ Tabs * i <= Tabs * (Dirs - 1)
  BY <1>0
<1>2. PICK m \in Nat : m = Tabs * i
  BY <1>0, <1>1
<1>3. m + j \in Pages
  BY <1>0, <1>1, <1>2 DEF Pages
<1>4. (m + j) \div Tabs = i /\ (m + j) % Tabs = j
  BY <1>0, <1>2
<1>. QED  BY <1>2, <1>3, <1>4 DEF PAGEDIRIDX, PAGETABIDX

LEMMA SamePage ==
  ASSUME NEW v \in Pages, NEW w \in Pages,
         PAGEDIRIDX(v) = PAGEDIRIDX(w), PAGETABIDX(v) = PAGETABIDX(w)
  PROVE  v = w
BY PageIndex

-----------------------------------------------------------------------------
(* Places.                                                                 *)

DirectoryOf(p) == <<p, "directory", 0>>
CallOf(p) == <<p, "call", 0>>
TableOf(p, i) == <<p, "table", i>>
PageOf(p, v) == <<p, "page", v>>

LEMMA PlaceCases ==
  ASSUME NEW x \in Places
  PROVE  \/ \E p \in Procs : x = DirectoryOf(p) \/ x = CallOf(p)
         \/ \E p \in Procs, i \in DirIndex : x = TableOf(p, i)
         \/ \E p \in Procs, v \in Pages : x = PageOf(p, v)
BY DEF Places, DirectoryOf, CallOf, TableOf, PageOf, DirIndex

LEMMA PlacesIn ==
  ASSUME NEW p \in Procs
  PROVE  /\ DirectoryOf(p) \in Places /\ CallOf(p) \in Places
         /\ \A i \in DirIndex : TableOf(p, i) \in Places
         /\ \A v \in Pages : PageOf(p, v) \in Places
BY DEF Places, DirectoryOf, CallOf, TableOf, PageOf, DirIndex

LEMMA PlacesDiffer ==
  /\ \A p, q, i : DirectoryOf(p) # TableOf(q, i) /\ DirectoryOf(p) # PageOf(q, i) /\ DirectoryOf(p) # CallOf(q)
  /\ \A p, q, i : CallOf(p) # TableOf(q, i) /\ CallOf(p) # PageOf(q, i)
  /\ \A p, q, i, v : TableOf(p, i) # PageOf(q, v)
  /\ \A p, q : DirectoryOf(p) = DirectoryOf(q) => p = q
  /\ \A p, q : CallOf(p) = CallOf(q) => p = q
  /\ \A p, q, i, j : TableOf(p, i) = TableOf(q, j) => p = q /\ i = j
  /\ \A p, q, i, j : PageOf(p, i) = PageOf(q, j) => p = q /\ i = j
BY DEF DirectoryOf, CallOf, TableOf, PageOf

-----------------------------------------------------------------------------
(* Ownership, for a function N from places to frames: a frame is at one    *)
(* place at most, what is free or lost is at none, and what is neither is  *)
(* at one (frame 0 may be nowhere).                                        *)
Own(N, F, L) ==
    /\ \A x, y \in Places : N[x] = N[y] /\ N[x] \in All => x = y
    /\ \A x \in Places : N[x] \notin F \cup L
    /\ F \cap L = {}
    /\ \A f \in Frames : f \in F \cup L \/ \E x \in Places : N[x] = f

(* Places elsewhere keep their frames.                                     *)
Elsewhere(N, M, X) == \A y \in Places : y \notin X => M[y] = N[y]

LEMMA OwnSame ==
  ASSUME NEW N, NEW M, NEW F, NEW L, Own(N, F, L), Elsewhere(N, M, {})
  PROVE  Own(M, F, L)
BY DEF Own, Elsewhere

LEMMA OwnAcquire ==
  ASSUME NEW N, NEW M, NEW F, NEW L, Own(N, F, L), F \subseteq All, L \subseteq Frames,
         NEW x \in Places, NEW f \in F, N[x] = Absent, M[x] = f, Elsewhere(N, M, {x})
  PROVE  Own(M, F \ {f}, L)
BY Distinct DEF Own, Elsewhere, All

LEMMA OwnRelease ==
  ASSUME NEW N, NEW M, NEW F, NEW L, Own(N, F, L), F \subseteq All, L \subseteq Frames,
         NEW x \in Places, NEW f \in All, N[x] = f, M[x] = Absent, Elsewhere(N, M, {x})
  PROVE  Own(M, F \cup {f}, L) /\ f \notin F
BY Distinct DEF Own, Elsewhere, All

LEMMA OwnMove ==
  ASSUME NEW N, NEW M, NEW F, NEW L, Own(N, F, L), F \subseteq All, L \subseteq Frames,
         NEW x \in Places, NEW y \in Places, x # y, NEW f \in All, N[x] = f, M[x] = Absent,
         N[y] = Absent, M[y] = f, Elsewhere(N, M, {x, y})
  PROVE  Own(M, F, L)
BY Distinct DEF Own, Elsewhere, All

(* A frame is acquired for y while another moves from x to z.              *)
LEMMA OwnAcquireMove ==
  ASSUME NEW N, NEW M, NEW F, NEW L, Own(N, F, L), F \subseteq All, L \subseteq Frames,
         NEW x \in Places, NEW y \in Places, NEW z \in Places, x # y, x # z, y # z,
         NEW f \in F, NEW g \in All, N[x] = g, N[y] = Absent, N[z] = Absent,
         M[x] = Absent, M[y] = f, M[z] = g, Elsewhere(N, M, {x, y, z})
  PROVE  Own(M, F \ {f}, L)
BY Distinct DEF Own, Elsewhere, All

(* The frame at x is released, and those at the places of X are lost.      *)
LEMMA OwnLose ==
  ASSUME NEW N, NEW M, NEW F, NEW L, Own(N, F, L), F \subseteq All, L \subseteq Frames,
         NEW x \in Places, NEW X \in SUBSET Places, x \notin X,
         NEW f \in All, N[x] = f, M[x] = Absent, \A y \in X : M[y] = Absent,
         Elsewhere(N, M, X \cup {x})
  PROVE  Own(M, F \cup {f}, L \cup ({N[y] : y \in X} \cap Frames)) /\ f \notin F
<1>. DEFINE K == {N[y] : y \in X} \cap Frames
<1>0. \A k \in K : k \in Frames /\ \E y \in X : N[y] = k
  OBVIOUS
<1>00. \A y \in X : N[y] \in Frames => N[y] \in K
  OBVIOUS
<1>. HIDE DEF K
<1>1. \A y, z \in Places : M[y] = M[z] /\ M[y] \in All => y = z
  BY Distinct DEF Own, Elsewhere
<1>2. \A y \in Places : M[y] \notin F \cup {f} \cup L \cup K
  <2>. SUFFICES ASSUME NEW y \in Places, M[y] \in F \cup {f} \cup L \cup K PROVE FALSE
    OBVIOUS
  <2>1. M[y] \in All
    BY <1>0 DEF All
  <2>2. y \notin X \cup {x} /\ M[y] = N[y]
    BY <2>1, Distinct DEF Elsewhere
  <2>. QED  BY <1>0, <2>1, <2>2 DEF Own
<1>3. f \notin F /\ (F \cup {f}) \cap (L \cup K) = {}
  <2>1. f \notin F /\ f \notin L /\ f \notin K
    BY <1>0 DEF Own
  <2>2. F \cap K = {}
    BY <1>0 DEF Own
  <2>. QED  BY <2>1, <2>2 DEF Own
<1>4. \A g \in Frames : g \in (F \cup {f}) \cup (L \cup K) \/ \E y \in Places : M[y] = g
  <2>. SUFFICES ASSUME NEW g \in Frames, g \notin F \cup {f} \cup L \cup K
                PROVE  \E y \in Places : M[y] = g
    OBVIOUS
  <2>1. PICK y \in Places : N[y] = g
    BY DEF Own
  <2>2. y \notin X \cup {x}
    BY <1>00, <2>1
  <2>. QED  BY <2>1, <2>2 DEF Elsewhere
<1>. QED  BY <1>1, <1>2, <1>3, <1>4 DEF Own, K

(* Frame 0, which nobody has, is released.                                 *)
LEMMA OwnLow ==
  ASSUME NEW N, NEW M, NEW F, NEW L, Own(N, F, L), L \subseteq Frames, \A x \in Places : N[x] # Low,
         Elsewhere(N, M, {})
  PROVE  Own(M, F \cup {Low}, L)
BY Distinct DEF Own, Elsewhere, All

-----------------------------------------------------------------------------
(* The inductive invariant.                                                *)

Entries == {Zero} \cup ((All \cup {Junk}) \X BOOLEAN)

Calls == UNION {[at : {"user", "none", "booked"}],
                [at : {"map"}, va : Nat, end : Nat, new : Nat],
                [at : {"enter"}, va : Nat, end : Nat, new : Nat, page : All],
                [at : {"stuck"}, page : All \cup {Absent}],
                [at : {"unmap", "clear"}, va : Nat, end : Nat, new : Nat \cup {Absent}],
                [at : {"tables"}, i : 0 .. Dirs],
                [at : {"fork"}, kid : Procs],
                [at : {"clone"}, kid : Procs, va : Nat]}

PagingTypes ==
    /\ directory \in [Procs -> All \cup {Absent}]
    /\ dir \in [Procs -> [DirIndex -> All \cup {Absent}]]
    /\ tab \in [All -> [TabIndex -> Entries]]
    /\ endpoint \in [Procs -> Nat]
    /\ call \in [Procs -> Calls]
    /\ free \subseteq All
    /\ lost \subseteq Frames
    /\ outside \in [Procs -> BOOLEAN]

(* A frame, whether a place has one.                                       *)
Frame(f) == IF f \in All THEN f ELSE Absent

Held(p) == IF "page" \in DOMAIN call[p] THEN call[p].page ELSE Absent
PageFrame(p, v) == IF call[p].at = "clear" /\ call[p].va = v THEN Absent ELSE Entry(p, v)[1]

Names == [x \in Places |-> Frame(FrameAt(x))]

LEMMA NamesAt ==
  ASSUME NEW p \in Procs
  PROVE  /\ Names[DirectoryOf(p)] = Frame(directory[p])
         /\ Names[CallOf(p)] = Frame(Held(p))
         /\ \A i \in DirIndex : Names[TableOf(p, i)] = Frame(dir[p][i])
         /\ \A v \in Pages : Names[PageOf(p, v)] = Frame(PageFrame(p, v))
<1>. USE PlacesIn
<1>1. Names[DirectoryOf(p)] = Frame(directory[p])
  BY DEF Names, FrameAt, DirectoryOf
<1>2. Names[CallOf(p)] = Frame(Held(p))
  BY DEF Names, FrameAt, CallOf, Held
<1>3. ASSUME NEW i \in DirIndex PROVE Names[TableOf(p, i)] = Frame(dir[p][i])
  BY DEF Names, FrameAt, TableOf
<1>4. ASSUME NEW v \in Pages PROVE Names[PageOf(p, v)] = Frame(PageFrame(p, v))
  BY DEF Names, FrameAt, PageOf, PageFrame
<1>. QED  BY <1>1, <1>2, <1>3, <1>4

LEMMA NamesNext ==
  ASSUME NEW p \in Procs
  PROVE  /\ Names'[DirectoryOf(p)] = Frame(directory'[p])
         /\ Names'[CallOf(p)] = Frame(Held(p)')
         /\ \A i \in DirIndex : Names'[TableOf(p, i)] = Frame(dir'[p][i])
         /\ \A v \in Pages : Names'[PageOf(p, v)] = Frame(PageFrame(p, v)')
<1>. USE PlacesIn
<1>1. Names'[DirectoryOf(p)] = Frame(directory'[p])
  BY DEF Names, FrameAt, DirectoryOf
<1>2. Names'[CallOf(p)] = Frame(Held(p)')
  BY DEF Names, FrameAt, CallOf, Held
<1>3. ASSUME NEW i \in DirIndex PROVE Names'[TableOf(p, i)] = Frame(dir'[p][i])
  BY DEF Names, FrameAt, TableOf
<1>4. ASSUME NEW v \in Pages PROVE Names'[PageOf(p, v)] = Frame(PageFrame(p, v)')
  BY DEF Names, FrameAt, PageOf, PageFrame
<1>. QED  BY <1>1, <1>2, <1>3, <1>4

LEMMA NamesElsewhere ==
  ASSUME NEW X,
         \A q \in Procs : DirectoryOf(q) \notin X => directory'[q] = directory[q],
         \A q \in Procs : CallOf(q) \notin X => Frame(Held(q)') = Frame(Held(q)),
         \A q \in Procs, i \in DirIndex : TableOf(q, i) \notin X => dir'[q][i] = dir[q][i],
         \A q \in Procs, v \in Pages : PageOf(q, v) \notin X =>
             Frame(PageFrame(q, v)') = Frame(PageFrame(q, v))
  PROVE  Elsewhere(Names, Names', X)
<1>. SUFFICES ASSUME NEW x \in Places, x \notin X PROVE Names'[x] = Names[x]
  BY DEF Elsewhere
<1>1. CASE \E q \in Procs : x = DirectoryOf(q) \/ x = CallOf(q)
  BY <1>1, NamesAt, NamesNext
<1>2. CASE \E q \in Procs, i \in DirIndex : x = TableOf(q, i)
  BY <1>2, NamesAt, NamesNext
<1>3. CASE \E q \in Procs, v \in Pages : x = PageOf(q, v)
  BY <1>3, NamesAt, NamesNext
<1>. QED  BY <1>1, <1>2, <1>3, PlaceCases

-----------------------------------------------------------------------------
(* A process whose slot is not in use has no address space; while a fork   *)
(* makes a copy, every page that is still to come has a free entry, and    *)
(* page tables come in order.                                              *)
Empty(p) == directory[p] = Absent /\ \A i \in DirIndex : dir[p][i] = Absent

Copying(p, k) ==
    /\ \A v \in Pages : v >= call[p].va /\ dir[k][PAGEDIRIDX(v)] # Absent /\ Entry(p, v) # Zero =>
           Entry(k, v) = Zero
    /\ \A i, j \in DirIndex : j < i /\ dir[k][i] # Absent /\ dir[p][j] # Absent => dir[k][j] # Absent

SpaceOf(p) ==
    /\ call[p].at \notin {"none", "booked"} => directory[p] # Absent
    /\ call[p].at = "none" => Empty(p)
    /\ call[p].at = "clear" => call[p].va \in Pages /\ dir[p][PAGEDIRIDX(call[p].va)] # Absent
    /\ call[p].at = "tables" => \A i \in DirIndex : i < call[p].i => dir[p][i] = Absent
    /\ call[p].at = "fork" => call[call[p].kid].at = "booked" /\ Empty(call[p].kid)
    /\ call[p].at = "clone" => /\ call[call[p].kid].at = "booked"
                               /\ directory[call[p].kid] # Absent
                               /\ Copying(p, call[p].kid)

Forking(p) == call[p].at \in {"fork", "clone"}
OneParent == \A p, q \in Procs : Forking(p) /\ Forking(q) /\ call[p].kid = call[q].kid => p = q

Sound == /\ PagingTypes
         /\ Own(Names, free, lost)
         /\ \A p \in Procs : SpaceOf(p)
         /\ OneParent

PagingInv == wild # "double" /\ (wild = "no" => Sound)

-----------------------------------------------------------------------------
(* Types, seen from one process.                                           *)

LEMMA CallFacts ==
  ASSUME PagingTypes, NEW p \in Procs
  PROVE  LET c == call[p] IN
         /\ c.at \in {"map", "enter"} => c.va \in Nat /\ c.end \in Nat /\ c.new \in Nat
         /\ c.at \in {"unmap", "clear"} => c.va \in Nat /\ c.end \in Nat /\ c.new \in Nat \cup {Absent}
         /\ c.at = "enter" => c.page \in All
         /\ c.at = "tables" => c.i \in 0 .. Dirs
         /\ c.at \in {"fork", "clone"} => c.kid \in Procs
         /\ c.at = "clone" => c.va \in Nat
         /\ c.at \in {"enter", "stuck"} => Held(p) = c.page
         /\ c.at \notin {"enter", "stuck"} => Held(p) = Absent
<1>. DEFINE c == call[p]
<1>0. \/ c \in [at : {"user", "none", "booked"}]
      \/ c \in [at : {"map"}, va : Nat, end : Nat, new : Nat]
      \/ c \in [at : {"enter"}, va : Nat, end : Nat, new : Nat, page : All]
      \/ c \in [at : {"stuck"}, page : All \cup {Absent}]
      \/ c \in [at : {"unmap", "clear"}, va : Nat, end : Nat, new : Nat \cup {Absent}]
      \/ c \in [at : {"tables"}, i : 0 .. Dirs]
      \/ c \in [at : {"fork"}, kid : Procs]
      \/ c \in [at : {"clone"}, kid : Procs, va : Nat]
  BY DEF PagingTypes, Calls
<1>1. Held(p) = IF "page" \in DOMAIN c THEN c.page ELSE Absent
  BY DEF Held
<1>. HIDE DEF c
<1>2. /\ c.at \in {"map", "enter"} => c.va \in Nat /\ c.end \in Nat /\ c.new \in Nat
      /\ c.at \in {"unmap", "clear"} => c.va \in Nat /\ c.end \in Nat /\ c.new \in Nat \cup {Absent}
      /\ c.at = "enter" => c.page \in All
      /\ c.at = "tables" => c.i \in 0 .. Dirs
      /\ c.at \in {"fork", "clone"} => c.kid \in Procs
      /\ c.at = "clone" => c.va \in Nat
  BY <1>0
<1>3. "page" \in DOMAIN c <=> c.at \in {"enter", "stuck"}
  BY <1>0
<1>. QED  BY <1>1, <1>2, <1>3 DEF c

(* The records of two kinds of calls.                                      *)
LEMMA UnmapCall ==
  ASSUME PagingTypes, NEW p \in Procs, call[p].at \in {"unmap", "clear"}
  PROVE  call[p] \in [at : {"unmap", "clear"}, va : Nat, end : Nat, new : Nat \cup {Absent}]
<1>1. PICK c \in Calls : c = call[p]
  BY DEF PagingTypes
<1>2. c.at \in {"unmap", "clear"}
  BY <1>1
<1>3. c \in [at : {"unmap", "clear"}, va : Nat, end : Nat, new : Nat \cup {Absent}]
  BY ONLY <1>2, c \in Calls DEF Calls
<1>. QED  BY <1>1, <1>3

LEMMA CloneCall ==
  ASSUME PagingTypes, NEW p \in Procs, call[p].at = "clone"
  PROVE  call[p] \in [at : {"clone"}, kid : Procs, va : Nat]
<1>1. PICK c \in Calls : c = call[p]
  BY DEF PagingTypes
<1>2. c.at = "clone"
  BY <1>1
<1>3. c \in [at : {"clone"}, kid : Procs, va : Nat]
  BY ONLY <1>2, c \in Calls DEF Calls
<1>. QED  BY <1>1, <1>3

LEMMA TabTypes ==
  ASSUME PagingTypes, NEW p \in Procs, NEW v \in Pages
  PROVE  /\ dir[p][PAGEDIRIDX(v)] \in All \cup {Absent}
         /\ Entry(p, v) \in Entries
         /\ Entry(p, v)[1] \in All \cup {Absent, Junk} /\ Entry(p, v)[2] \in BOOLEAN
         /\ Entry(p, v) # Zero => Entry(p, v)[1] # Absent
         /\ Entry(p, v)[2] => Entry(p, v)[1] # Absent
<1>1. dir[p][PAGEDIRIDX(v)] \in All \cup {Absent}
  BY PageIndex DEF PagingTypes
<1>2. Entry(p, v) \in Entries
  BY <1>1, PageIndex DEF PagingTypes, Entry, Entries
<1>3. ASSUME NEW e \in Entries
      PROVE  /\ e[1] \in All \cup {Absent, Junk} /\ e[2] \in BOOLEAN
             /\ e # Zero => e[1] # Absent
             /\ e[2] => e[1] # Absent
  BY Distinct DEF Entries
<1>. QED  BY <1>1, <1>2, <1>3

(* No frame serves as two page tables, and a free one is none.             *)
LEMMA TablesDiffer ==
  ASSUME Sound, NEW p \in Procs, NEW i \in DirIndex, dir[p][i] # Absent
  PROVE  /\ dir[p][i] \in All /\ dir[p][i] \notin free \cup lost
         /\ \A q \in Procs, j \in DirIndex : dir[q][j] = dir[p][i] => q = p /\ j = i
<1>1. dir[p][i] \in All
  BY DEF Sound, PagingTypes
<1>2. \A q \in Procs, j \in DirIndex : TableOf(q, j) \in Places /\ Names[TableOf(q, j)] = Frame(dir[q][j])
  BY PlacesIn, NamesAt
<1>3. ASSUME NEW q \in Procs, NEW j \in DirIndex, dir[q][j] = dir[p][i] PROVE q = p /\ j = i
  BY <1>1, <1>2, <1>3, PlacesDiffer DEF Sound, Own, Frame
<1>4. dir[p][i] \notin free \cup lost
  BY <1>1, <1>2 DEF Sound, Own, Frame
<1>. QED  BY <1>1, <1>3, <1>4

LEMMA FreeIsNoTable ==
  ASSUME Sound, NEW f \in free, NEW p \in Procs, NEW i \in DirIndex
  PROVE  dir[p][i] # f
BY TablesDiffer, Distinct DEF Sound, PagingTypes

-----------------------------------------------------------------------------
(* What writing an entry, adding a page table and taking one away do to    *)
(* the entries of all address spaces.                                      *)

LEMMA EntryWritten ==
  ASSUME Sound, NEW p \in Procs, NEW v \in Pages, NEW e,
         dir[p][PAGEDIRIDX(v)] # Absent, dir' = dir,
         tab' = [tab EXCEPT ![dir[p][PAGEDIRIDX(v)]][PAGETABIDX(v)] = e]
  PROVE  /\ Entry(p, v)' = e
         /\ \A q \in Procs, w \in Pages : ~(q = p /\ w = v) => Entry(q, w)' = Entry(q, w)
<1>. DEFINE i == PAGEDIRIDX(v)
            j == PAGETABIDX(v)
            t == dir[p][i]
<1>1. i \in DirIndex /\ j \in TabIndex
  BY PageIndex
<1>. HIDE DEF i, j
<1>2. t \in All /\ \A q \in Procs, m \in DirIndex : dir[q][m] = t => q = p /\ m = i
  BY <1>1, TablesDiffer DEF i
<1>3. tab \in [All -> [TabIndex -> Entries]] /\ tab' = [tab EXCEPT ![t][j] = e]
  BY DEF Sound, PagingTypes, i, j
<1>. HIDE DEF t
<1>4. Entry(p, v)' = e
  <2>1. tab'[t][j] = e
    BY <1>1, <1>2, <1>3
  <2>. QED  BY <2>1 DEF Entry, t, i, j
<1>5. ASSUME NEW q \in Procs, NEW w \in Pages, ~(q = p /\ w = v)
      PROVE  Entry(q, w)' = Entry(q, w)
  <2>. DEFINE m == PAGEDIRIDX(w)
              n == PAGETABIDX(w)
              u == dir[q][m]
  <2>1. m \in DirIndex /\ n \in TabIndex
    BY PageIndex
  <2>2. ~(u = t /\ n = j)
    BY <1>2, <1>5, <2>1, SamePage DEF i, j
  <2>. HIDE DEF m, n, u
  <2>3. u \in All => tab'[u][n] = tab[u][n]
    BY <1>1, <1>2, <1>3, <2>1, <2>2
  <2>4. u \in All \cup {Absent}
    BY <2>1 DEF u, Sound, PagingTypes
  <2>5. Entry(q, w) = IF u = Absent THEN Zero ELSE tab[u][n]
    BY DEF Entry, u, m, n
  <2>6. Entry(q, w)' = IF u = Absent THEN Zero ELSE tab'[u][n]
    BY DEF Entry, u, m, n
  <2>. QED  BY <2>3, <2>4, <2>5, <2>6
<1>. QED  BY <1>4, <1>5

LEMMA TableAdded ==
  ASSUME Sound, NEW p \in Procs, NEW i \in DirIndex, NEW f \in free, NEW table,
         dir[p][i] = Absent, dir' = [dir EXCEPT ![p][i] = f], tab' = [tab EXCEPT ![f] = table]
  PROVE  /\ \A v \in Pages : PAGEDIRIDX(v) = i => Entry(p, v) = Zero /\ Entry(p, v)' = table[PAGETABIDX(v)]
         /\ \A q \in Procs, w \in Pages : ~(q = p /\ PAGEDIRIDX(w) = i) => Entry(q, w)' = Entry(q, w)
<1>0. f \in All /\ f # Absent
  BY Distinct DEF Sound, PagingTypes
<1>1. /\ dir \in [Procs -> [DirIndex -> All \cup {Absent}]]
      /\ tab \in [All -> [TabIndex -> Entries]]
  BY DEF Sound, PagingTypes
<1>2. ASSUME NEW v \in Pages, PAGEDIRIDX(v) = i
      PROVE  Entry(p, v) = Zero /\ Entry(p, v)' = table[PAGETABIDX(v)]
  <2>1. dir'[p][i] = f /\ tab'[f] = table
    BY <1>0, <1>1
  <2>. QED  BY <1>0, <1>2, <2>1 DEF Entry
<1>3. ASSUME NEW q \in Procs, NEW w \in Pages, ~(q = p /\ PAGEDIRIDX(w) = i)
      PROVE  Entry(q, w)' = Entry(q, w)
  <2>. DEFINE m == PAGEDIRIDX(w)
              u == dir[q][m]
  <2>1. m \in DirIndex
    BY PageIndex
  <2>2. dir'[q][m] = u
    BY <1>1, <1>3, <2>1
  <2>3. u # f /\ u \in All \cup {Absent}
    BY <1>1, <2>1, FreeIsNoTable
  <2>4. u # Absent => tab'[u] = tab[u]
    BY <1>1, <2>3
  <2>. QED  BY <2>2, <2>4 DEF Entry
<1>. QED  BY <1>2, <1>3

LEMMA TableRemoved ==
  ASSUME Sound, NEW p \in Procs, NEW i \in DirIndex,
         dir' = [dir EXCEPT ![p][i] = Absent],
         tab' = IF dir[p][i] = Absent THEN tab ELSE [tab EXCEPT ![dir[p][i]] = FreshTable]
  PROVE  /\ \A v \in Pages : PAGEDIRIDX(v) = i => Entry(p, v)' = Zero
         /\ \A q \in Procs, w \in Pages : ~(q = p /\ PAGEDIRIDX(w) = i) => Entry(q, w)' = Entry(q, w)
<1>1. /\ dir \in [Procs -> [DirIndex -> All \cup {Absent}]]
      /\ tab \in [All -> [TabIndex -> Entries]]
  BY DEF Sound, PagingTypes
<1>2. ASSUME NEW v \in Pages, PAGEDIRIDX(v) = i
      PROVE  Entry(p, v)' = Zero
  <2>1. dir'[p][i] = Absent
    BY <1>1
  <2>. QED  BY <1>2, <2>1 DEF Entry
<1>3. ASSUME NEW q \in Procs, NEW w \in Pages, ~(q = p /\ PAGEDIRIDX(w) = i)
      PROVE  Entry(q, w)' = Entry(q, w)
  <2>. DEFINE m == PAGEDIRIDX(w)
              u == dir[q][m]
  <2>1. m \in DirIndex
    BY PageIndex
  <2>2. dir'[q][m] = u
    BY <1>1, <1>3, <2>1
  <2>3. u \in All \cup {Absent}
    BY <1>1, <2>1
  <2>4. u # Absent => tab'[u] = tab[u]
    BY <1>1, <1>3, <2>1, <2>3, TablesDiffer
  <2>. QED  BY <2>2, <2>4 DEF Entry
<1>. QED  BY <1>2, <1>3

LEMMA SameEntries ==
  ASSUME dir' = dir, tab' = tab
  PROVE  \A q \in Procs, v \in Pages : Entry(q, v)' = Entry(q, v)
BY DEF Entry

-----------------------------------------------------------------------------
(* Processes that a step does not touch.                                   *)

Untouched(q) ==
    /\ call'[q] = call[q] /\ directory'[q] = directory[q] /\ dir'[q] = dir[q]
    /\ \A v \in Pages : Entry(q, v)' = Entry(q, v)

LEMMA OthersSpace ==
  ASSUME Sound, NEW T, \A q \in Procs : q \notin T => Untouched(q),
         NEW q \in Procs, q \notin T, Forking(q) => call[q].kid \notin T
  PROVE  SpaceOf(q)'
<1>0. SpaceOf(q) /\ Untouched(q)
  BY DEF Sound
<1>1. ASSUME Forking(q)
      PROVE  call[q].kid \in Procs /\ Untouched(call[q].kid)
  BY <1>1, CallFacts DEF Sound, Forking
<1>2. CASE ~Forking(q)
  BY <1>0, <1>2 DEF SpaceOf, Untouched, Empty, Forking
<1>3. CASE Forking(q)
  <2>. DEFINE k == call[q].kid
  <2>0. Untouched(k) /\ k \in Procs
    BY <1>1, <1>3
  <2>1. CASE call[q].at = "fork"
    BY <1>0, <2>0, <2>1 DEF SpaceOf, Untouched, Empty
  <2>2. CASE call[q].at = "clone"
    <3>1. Copying(q, k) /\ call[k].at = "booked" /\ directory[k] # Absent
      BY <1>0, <2>2 DEF SpaceOf
    <3>. HIDE DEF k
    <3>2. /\ \A v \in Pages : v >= call'[q].va /\ dir'[k][PAGEDIRIDX(v)] # Absent /\ Entry(q, v)' # Zero =>
                 Entry(k, v)' = Zero
          /\ \A i, j \in DirIndex : j < i /\ dir'[k][i] # Absent /\ dir'[q][j] # Absent => dir'[k][j] # Absent
      BY <1>0, <2>0, <3>1 DEF Copying, Untouched
    <3>. QED  BY <1>0, <2>0, <2>2, <3>1, <3>2 DEF SpaceOf, Copying, Untouched, k
  <2>. QED  BY <1>3, <2>1, <2>2 DEF Forking
<1>. QED  BY <1>2, <1>3

(* A step of one process, which does not fork.                             *)
LEMMA LocalStep ==
  ASSUME Sound, NEW p \in Procs, call[p].at # "booked",
         \A q \in Procs : q # p => Untouched(q),
         PagingTypes', Own(Names', free', lost'), SpaceOf(p)', ~Forking(p)'
  PROVE  Sound'
<1>1. ASSUME NEW q \in Procs, q # p PROVE SpaceOf(q)'
  <2>1. Forking(q) => call[q].kid # p
    BY DEF Sound, SpaceOf, Forking
  <2>2. PICK T : T = {p}
    OBVIOUS
  <2>3. \A r \in Procs : r \notin T => Untouched(r)
    BY <2>2
  <2>. QED  BY <1>1, <2>1, <2>2, <2>3, OthersSpace
<1>2. OneParent'
  BY DEF Sound, OneParent, Forking, Untouched
<1>. QED  BY <1>1, <1>2 DEF Sound

(* A step that changes no address space and no owner.                      *)
LEMMA QuietStep ==
  ASSUME Sound, NEW p \in Procs, NEW c \in Calls, call' = [call EXCEPT ![p] = c],
         UNCHANGED <<directory, dir, tab, free, lost>>,
         endpoint' \in [Procs -> Nat], outside' \in [Procs -> BOOLEAN],
         call[p].at \notin {"booked", "none", "clear"},
         \/ c.at \in {"user", "map", "unmap", "stuck"}
         \/ c.at = "tables" /\ c.i = 0,
         Frame(Held(p)') = Frame(Held(p))
  PROVE  Sound'
<1>1. PagingTypes'
  BY DEF Sound, PagingTypes
<1>2. \A q \in Procs : q # p => call'[q] = call[q]
  BY DEF Sound, PagingTypes
<1>3. call'[p] = c
  BY DEF Sound, PagingTypes
<1>4. \A q \in Procs, v \in Pages : Entry(q, v)' = Entry(q, v)
  BY SameEntries
<1>5. Elsewhere(Names, Names', {})
  <2>1. \A q \in Procs : Frame(Held(q)') = Frame(Held(q))
    BY <1>2 DEF Held
  <2>2. \A q \in Procs, v \in Pages : PageFrame(q, v)' = PageFrame(q, v)
    <3>. SUFFICES ASSUME NEW q \in Procs, NEW v \in Pages PROVE PageFrame(q, v)' = PageFrame(q, v)
      OBVIOUS
    <3>1. CASE q = p
      BY <1>3, <1>4, <3>1 DEF PageFrame
    <3>2. CASE q # p
      BY <1>2, <1>4, <3>2 DEF PageFrame
    <3>. QED  BY <3>1, <3>2
  <2>. QED  BY <2>1, <2>2, NamesElsewhere
<1>6. Own(Names', free', lost')
  BY <1>5, OwnSame DEF Sound
<1>7. SpaceOf(p)'
  <2>1. directory[p] # Absent
    BY DEF Sound, SpaceOf
  <2>. QED  BY <1>3, <2>1 DEF SpaceOf, DirIndex
<1>8. ~Forking(p)'
  BY <1>3 DEF Forking
<1>. QED  BY <1>1, <1>2, <1>4, <1>6, <1>7, <1>8, LocalStep DEF Untouched

(* Two kinds of numbers.                                                   *)
LEMMA AddressTypes ==
  ASSUME NEW n \in Int
  PROVE  /\ Address(n) \in Nat /\ Address(n) < 2 * KERNEL_MMAP_VIRTUAL_START
         /\ Page(n) \in Nat
         /\ KERNEL_MMAP_VIRTUAL_START \in Nat /\ KERNEL_MMAP_VIRTUAL_START > 0
<1>1. PICK k \in Nat : k = KERNEL_MMAP_VIRTUAL_START /\ k > 0
  <2>1. PICK m \in Nat : m = Dirs * Tabs /\ m > 0
    BY PagingAssumption
  <2>2. m * PageSize \in Nat /\ m * PageSize > 0
    <3>1. PICK z \in Nat : z = PageSize /\ z > 0
      BY PagingAssumption
    <3>. QED  BY <2>1, <3>1
  <2>. QED  BY <2>1, <2>2 DEF KERNEL_MMAP_VIRTUAL_START
<1>2. n % (2 * k) \in 0 .. (2 * k) - 1
  BY <1>1
<1>3. PICK a \in Nat : a = Address(n) /\ a < 2 * k
  BY <1>1, <1>2 DEF Address
<1>4. a \div PageSize \in Nat
  <2>1. PICK z \in Nat : z = PageSize /\ z > 0
    BY PagingAssumption
  <2>. QED  BY <2>1
<1>. QED  BY <1>1, <1>3, <1>4 DEF Page

-----------------------------------------------------------------------------
(* Calls that begin, end or get stuck.                                     *)

LEMMA GrowInv ==
  ASSUME Sound, NEW p \in Procs, NEW shift \in Shifts, Grow(p, shift)
  PROVE  Sound'
<1>. DEFINE c == [at |-> "map", va |-> Page(endpoint[p]), end |-> Page(endpoint[p] + shift - 1),
                  new |-> Address(endpoint[p] + shift)]
<1>1. call[p].at = "user" /\ call' = [call EXCEPT ![p] = c]
  BY DEF Grow, Enter, Call, At
<1>2. c \in Calls
  <2>1. endpoint[p] \in Int /\ endpoint[p] + shift \in Int /\ endpoint[p] + shift - 1 \in Int
    BY PagingAssumption DEF Sound, PagingTypes
  <2>2. Page(endpoint[p]) \in Nat /\ Page(endpoint[p] + shift - 1) \in Nat /\ Address(endpoint[p] + shift) \in Nat
    BY <2>1, AddressTypes
  <2>. QED  BY <2>2 DEF Calls
<1>3. Held(p) = Absent /\ Held(p)' = Absent
  BY <1>1, CallFacts DEF Sound, PagingTypes, Held
<1>4. c.at = "map"
  OBVIOUS
<1>. HIDE DEF c
<1>. QED
  BY <1>1, <1>2, <1>3, <1>4, QuietStep DEF Grow, spaces, history, Sound, PagingTypes

LEMMA ShrinkInv ==
  ASSUME Sound, NEW p \in Procs, NEW shift \in Shifts, Shrink(p, shift)
  PROVE  Sound'
<1>. DEFINE c == [at |-> "unmap", va |-> Page(endpoint[p] + shift + PageSize - 1),
                  end |-> Page(endpoint[p] - 1), new |-> Address(endpoint[p] + shift)]
<1>1. call[p].at = "user" /\ call' = [call EXCEPT ![p] = c]
  BY DEF Shrink, Enter, Call, At
<1>2. c \in Calls
  <2>1. endpoint[p] - 1 \in Int /\ endpoint[p] + shift \in Int /\ endpoint[p] + shift + PageSize - 1 \in Int
    BY PagingAssumption DEF Sound, PagingTypes
  <2>2. /\ Page(endpoint[p] + shift + PageSize - 1) \in Nat /\ Page(endpoint[p] - 1) \in Nat
        /\ Address(endpoint[p] + shift) \in Nat
    BY <2>1, AddressTypes
  <2>. QED  BY <2>2 DEF Calls
<1>3. Held(p) = Absent /\ Held(p)' = Absent
  BY <1>1, CallFacts DEF Sound, PagingTypes, Held
<1>4. c.at = "unmap"
  OBVIOUS
<1>. HIDE DEF c
<1>. QED
  BY <1>1, <1>2, <1>3, <1>4, QuietStep DEF Shrink, spaces, history, Sound, PagingTypes

LEMMA Process_TerminateInv ==
  ASSUME Sound, NEW p \in Procs, Process_Terminate(p)
  PROVE  Sound'
<1>. DEFINE c == [at |-> "unmap", va |-> 0, end |-> Dirs * Tabs - 1, new |-> Absent]
<1>1. call[p].at = "user" /\ call' = [call EXCEPT ![p] = c]
  BY DEF Process_Terminate, Enter, Call, At
<1>2. c \in Calls
  <2>1. PICK d \in Nat, t \in Nat : d = Dirs /\ t = Tabs /\ d > 0 /\ t > 0
    BY PagingAssumption
  <2>2. d * t \in Nat /\ d * t > 0
    BY <2>1
  <2>3. d * t - 1 \in Nat
    BY <2>2
  <2>4. Dirs * Tabs - 1 \in Nat
    BY <2>1, <2>3
  <2>. QED  BY <2>4 DEF Calls
<1>3. Held(p) = Absent /\ Held(p)' = Absent
  BY <1>1, CallFacts DEF Sound, PagingTypes, Held
<1>4. c.at = "unmap"
  OBVIOUS
<1>. HIDE DEF c
<1>. QED
  BY <1>1, <1>2, <1>3, <1>4, QuietStep DEF Process_Terminate, spaces, history, Sound, PagingTypes

LEMMA SetEndPointTypes ==
  ASSUME Sound, NEW p \in Procs, NEW end \in Nat, SetEndPoint(p, end)
  PROVE  /\ endpoint' \in [Procs -> Nat] /\ outside' \in [Procs -> BOOLEAN]
         /\ call' = [call EXCEPT ![p] = InUser] /\ InUser \in Calls /\ InUser.at = "user"
         /\ call'[p] = InUser /\ Held(p)' = Absent
<1>1. endpoint' \in [Procs -> Nat] /\ outside' \in [Procs -> BOOLEAN]
  BY DEF SetEndPoint, Sound, PagingTypes
<1>2. InUser \in Calls /\ InUser.at = "user"
  BY DEF InUser, Calls
<1>3. call' = [call EXCEPT ![p] = InUser] /\ call'[p] = InUser
  BY DEF SetEndPoint, Goto, Sound, PagingTypes
<1>4. Held(p)' = Absent
  BY <1>3 DEF Held, InUser
<1>. QED  BY <1>1, <1>2, <1>3, <1>4

LEMMA ReachedTypes ==
  ASSUME Sound, NEW p \in Procs, call[p].at \in {"map", "enter"}
  PROVE  Reached(p, Mapped(p)) \in Nat /\ Reached(p, Mapped(p) + 1) \in Nat
<1>1. Page(endpoint[p]) \in Nat /\ call[p].va \in Nat /\ call[p].new \in Nat
  BY AddressTypes, CallFacts DEF Sound, PagingTypes
<1>2. Mapped(p) \in Nat
  <2>1. PICK m \in Nat : m = 2 * Dirs * Tabs /\ m > 0
    BY PagingAssumption
  <2>2. PICK x \in Int : x = call[p].va - Page(endpoint[p])
    BY <1>1
  <2>3. x % m \in Nat
    BY <2>1
  <2>. QED  BY <2>1, <2>2, <2>3 DEF Mapped
<1>3. ASSUME NEW n \in Nat PROVE Reached(p, n) \in Nat
  <2>1. PICK x \in Int : x = (Page(endpoint[p]) + n) * PageSize
    BY <1>1, PagingAssumption
  <2>2. Address(x) \in Nat
    BY AddressTypes
  <2>. QED  BY <1>1, <2>1, <2>2 DEF Reached
<1>. QED  BY <1>2, <1>3

LEMMA MapOutOfMemoryInv ==
  ASSUME Sound, NEW p \in Procs, MapOutOfMemory(p)
  PROVE  Sound'
<1>0. call[p].at = "map"
  BY DEF MapOutOfMemory, At
<1>1. PICK e \in Nat : e = Reached(p, Mapped(p))
  BY <1>0, ReachedTypes
<1>2. SetEndPoint(p, e)
  BY <1>1 DEF MapOutOfMemory
<1>3. Held(p) = Absent
  BY <1>0, CallFacts DEF Sound
<1>. QED
  BY <1>0, <1>2, <1>3, SetEndPointTypes, QuietStep DEF MapOutOfMemory, OutOfMemory, spaces

LEMMA MapTableOutOfMemoryInv ==
  ASSUME Sound, NEW p \in Procs, MapTableOutOfMemory(p)
  PROVE  Sound'
<1>. DEFINE c == [at |-> "stuck", page |-> call[p].page]
<1>1. call[p].at = "enter" /\ call' = [call EXCEPT ![p] = c]
  BY DEF MapTableOutOfMemory, At, Goto
<1>2. call[p].page \in All /\ Held(p) = call[p].page
  BY <1>1, CallFacts DEF Sound
<1>3. c \in Calls /\ c.at = "stuck"
  BY <1>2 DEF Calls
<1>4. Held(p)' = call[p].page
  BY <1>1 DEF Sound, PagingTypes, Held
<1>. HIDE DEF c
<1>. QED
  BY <1>1, <1>2, <1>3, <1>4, QuietStep DEF MapTableOutOfMemory, OutOfMemory, spaces, history, Sound, PagingTypes

LEMMA ForkOutOfMemoryInv ==
  ASSUME Sound, NEW p \in Procs, ForkOutOfMemory(p)
  PROVE  Sound'
<1>. DEFINE c == [at |-> "stuck", page |-> Absent]
<1>1. call[p].at \in {"fork", "clone"} /\ call' = [call EXCEPT ![p] = c]
  BY DEF ForkOutOfMemory, At, Goto
<1>2. Held(p) = Absent
  BY <1>1, CallFacts DEF Sound
<1>3. c \in Calls /\ c.at = "stuck"
  BY DEF Calls
<1>4. Held(p)' = Absent
  BY <1>1 DEF Sound, PagingTypes, Held
<1>. HIDE DEF c
<1>. QED
  BY <1>1, <1>2, <1>3, <1>4, QuietStep DEF ForkOutOfMemory, OutOfMemory, spaces, history, Sound, PagingTypes

LEMMA UnmapDoneInv ==
  ASSUME Sound, NEW p \in Procs, UnmapDone(p)
  PROVE  Sound'
<1>0. call[p].at = "unmap" /\ UNCHANGED <<directory, dir, tab, free, lost>>
  BY DEF UnmapDone, At, spaces
<1>1. Held(p) = Absent /\ call[p].new \in Nat \cup {Absent}
  BY <1>0, CallFacts DEF Sound
<1>2. CASE call[p].new = Absent
  <2>. DEFINE c == [at |-> "tables", i |-> 0]
  <2>1. call' = [call EXCEPT ![p] = c] /\ UNCHANGED <<endpoint, outside>>
    BY <1>2 DEF UnmapDone, Goto
  <2>2. c \in Calls /\ c.at = "tables" /\ c.i = 0
    BY PagingAssumption DEF Calls
  <2>3. Held(p)' = Absent
    BY <2>1 DEF Sound, PagingTypes, Held
  <2>. HIDE DEF c
  <2>. QED  BY <1>0, <1>1, <2>1, <2>2, <2>3, QuietStep DEF Sound, PagingTypes
<1>3. CASE call[p].new # Absent
  <2>1. call[p].new \in Nat /\ SetEndPoint(p, call[p].new)
    BY <1>1, <1>3 DEF UnmapDone
  <2>2. PICK e \in Nat : e = call[p].new
    BY <2>1
  <2>. QED  BY <1>0, <1>1, <2>1, <2>2, SetEndPointTypes, QuietStep
<1>. QED  BY <1>2, <1>3

-----------------------------------------------------------------------------
(* Steps of Paging_MapPages.                                               *)

LEMMA PlainStep ==
  ASSUME Sound, NEW p \in Procs, NEW c \in Calls, call' = [call EXCEPT ![p] = c],
         call[p].at \notin {"booked", "none"}, c.at \in {"user", "map", "enter", "unmap"},
         directory' = directory, dir' \in [Procs -> [DirIndex -> All \cup {Absent}]],
         tab' \in [All -> [TabIndex -> Entries]],
         endpoint' \in [Procs -> Nat], outside' \in [Procs -> BOOLEAN],
         free' \subseteq All, lost' \subseteq Frames, Own(Names', free', lost'),
         \A q \in Procs : q # p => dir'[q] = dir[q] /\ \A v \in Pages : Entry(q, v)' = Entry(q, v)
  PROVE  Sound'
<1>1. PagingTypes'
  BY DEF Sound, PagingTypes
<1>2. call'[p] = c /\ \A q \in Procs : q # p => call'[q] = call[q]
  BY DEF Sound, PagingTypes
<1>3. SpaceOf(p)'
  BY <1>2 DEF Sound, SpaceOf
<1>. QED  BY <1>1, <1>2, <1>3, LocalStep DEF Untouched, Forking

(* Nobody but p, whose pages all count, changes what a place names.        *)
LEMMA CallElsewhere ==
  ASSUME Sound, NEW p \in Procs, NEW c, call' = [call EXCEPT ![p] = c],
         call[p].at # "clear", c.at # "clear", directory' = directory,
         NEW X, CallOf(p) \in X,
         \A q \in Procs, i \in DirIndex : TableOf(q, i) \notin X => dir'[q][i] = dir[q][i],
         \A q \in Procs, v \in Pages : PageOf(q, v) \notin X => Entry(q, v)' = Entry(q, v)
  PROVE  Elsewhere(Names, Names', X)
<1>1. call'[p] = c /\ \A q \in Procs : q # p => call'[q] = call[q]
  BY DEF Sound, PagingTypes
<1>2. \A q \in Procs : CallOf(q) \notin X => Frame(Held(q)') = Frame(Held(q))
  BY <1>1 DEF Held
<1>3. ASSUME NEW q \in Procs, NEW v \in Pages, PageOf(q, v) \notin X
      PROVE  Frame(PageFrame(q, v)') = Frame(PageFrame(q, v))
  <2>1. CASE q = p
    BY <1>1, <1>3, <2>1 DEF PageFrame
  <2>2. CASE q # p
    BY <1>1, <1>3, <2>2 DEF PageFrame
  <2>. QED  BY <2>1, <2>2
<1>. QED  BY <1>2, <1>3, NamesElsewhere

LEMMA MapAcquireInv ==
  ASSUME Sound, NEW p \in Procs, NEW f, MapAcquire(p, f)
  PROVE  Sound'
<1>. DEFINE c == [at |-> "enter", va |-> call[p].va, end |-> call[p].end, new |-> call[p].new, page |-> f]
<1>1. /\ call[p].at = "map" /\ call' = [call EXCEPT ![p] = c]
      /\ f \in free /\ free' = free \ {f} /\ lost' = lost
      /\ directory' = directory /\ dir' = dir /\ tab' = tab /\ endpoint' = endpoint /\ outside' = outside
  BY DEF MapAcquire, At, Goto, Acquires, spaces, history
<1>2. f \in All
  BY <1>1 DEF Sound, PagingTypes
<1>3. c \in Calls /\ c.at = "enter"
  BY <1>1, <1>2, CallFacts DEF Sound, Calls
<1>4. Held(p)' = f
  BY <1>1 DEF Sound, PagingTypes, Held
<1>. HIDE DEF c
<1>5. \A q \in Procs, v \in Pages : Entry(q, v)' = Entry(q, v)
  BY <1>1, SameEntries
<1>6. PICK X : X = {CallOf(p)}
  OBVIOUS
<1>7. Elsewhere(Names, Names', X)
  BY <1>1, <1>3, <1>5, <1>6, CallElsewhere
<1>8. CallOf(p) \in Places /\ Names[CallOf(p)] = Absent /\ Names'[CallOf(p)] = f
  BY <1>1, <1>2, <1>4, PlacesIn, NamesAt, NamesNext, CallFacts, Distinct DEF Frame, Sound
<1>9. Own(Names', free', lost')
  BY <1>1, <1>6, <1>7, <1>8, OwnAcquire DEF Sound, PagingTypes
<1>. QED  BY <1>1, <1>3, <1>5, <1>9, PlainStep DEF Sound, PagingTypes

LEMMA NextPageTypes ==
  ASSUME Sound, NEW p \in Procs, call[p].at = "enter", NextPage(p)
  PROVE  \E c \in Calls : /\ call' = [call EXCEPT ![p] = c] /\ c.at \in {"user", "map"}
                          /\ endpoint' \in [Procs -> Nat] /\ outside' \in [Procs -> BOOLEAN]
                          /\ Held(p)' = Absent
<1>0. call[p].va \in Nat /\ call[p].end \in Nat /\ call[p].new \in Nat
  BY CallFacts DEF Sound
<1>1. CASE call[p].va = call[p].end
  <2>1. PICK e \in Nat : e = Reached(p, Mapped(p) + 1)
    BY ReachedTypes
  <2>2. SetEndPoint(p, e)
    BY <1>1, <2>1 DEF NextPage
  <2>. QED  BY <2>2, SetEndPointTypes
<1>2. CASE call[p].va # call[p].end
  <2>. DEFINE c == [at |-> "map", va |-> Page((call[p].va + 1) * PageSize), end |-> call[p].end, new |-> call[p].new]
  <2>1. call' = [call EXCEPT ![p] = c] /\ UNCHANGED <<endpoint, outside>>
    BY <1>2 DEF NextPage, Goto
  <2>2. c \in Calls
    <3>1. PICK n \in Int : n = (call[p].va + 1) * PageSize
      BY <1>0, PagingAssumption
    <3>2. Page(n) \in Nat
      BY AddressTypes
    <3>. QED  BY <1>0, <3>1, <3>2 DEF Calls
  <2>3. Held(p)' = Absent
    BY <2>1 DEF Sound, PagingTypes, Held
  <2>. QED  BY <2>1, <2>2, <2>3 DEF Sound, PagingTypes
<1>. QED  BY <1>1, <1>2

LEMMA EntriesTypes ==
  ASSUME Sound, NEW t \in All, NEW j \in TabIndex, NEW e \in Entries, tab' = [tab EXCEPT ![t][j] = e]
  PROVE  tab' \in [All -> [TabIndex -> Entries]]
BY DEF Sound, PagingTypes

LEMMA Paging_MapPageInv ==
  ASSUME Sound, NEW p \in Procs, Paging_MapPage(p)
  PROVE  Sound'
<1>1. PICK v \in Pages :
        /\ v = call[p].va /\ call[p].at = "enter" /\ dir[p][PAGEDIRIDX(v)] # Absent /\ Entry(p, v) = Zero
        /\ tab' = [tab EXCEPT ![dir[p][PAGEDIRIDX(v)]][PAGETABIDX(v)] = New(p)]
        /\ NextPage(p) /\ UNCHANGED <<directory, dir, free, lost>>
  BY DEF Paging_MapPage, At
<1>2. PICK c \in Calls : /\ call' = [call EXCEPT ![p] = c] /\ c.at \in {"user", "map"}
                         /\ endpoint' \in [Procs -> Nat] /\ outside' \in [Procs -> BOOLEAN]
                         /\ Held(p)' = Absent
  BY <1>1, NextPageTypes
<1>3. PICK g \in All : g = call[p].page /\ Held(p) = g
  BY <1>1, CallFacts DEF Sound
<1>4. New(p) = <<g, TRUE>> /\ New(p) \in Entries
  BY <1>3 DEF New, Entries
<1>5. /\ Entry(p, v)' = <<g, TRUE>>
      /\ \A q \in Procs, w \in Pages : ~(q = p /\ w = v) => Entry(q, w)' = Entry(q, w)
  BY <1>1, <1>4, EntryWritten
<1>6. tab' \in [All -> [TabIndex -> Entries]]
  <2>1. PAGEDIRIDX(v) \in DirIndex /\ PAGETABIDX(v) \in TabIndex
    BY PageIndex
  <2>2. dir[p][PAGEDIRIDX(v)] \in All
    BY <1>1, <2>1, TablesDiffer
  <2>. QED  BY <1>1, <1>4, <2>1, <2>2, EntriesTypes
<1>7. PICK X : X = {CallOf(p), PageOf(p, v)}
  OBVIOUS
<1>8. Elsewhere(Names, Names', X)
  <2>1. \A q \in Procs, w \in Pages : PageOf(q, w) \notin X => Entry(q, w)' = Entry(q, w)
    BY <1>5, <1>7
  <2>. QED  BY <1>1, <1>2, <1>7, <2>1, CallElsewhere
<1>9. /\ CallOf(p) \in Places /\ PageOf(p, v) \in Places /\ CallOf(p) # PageOf(p, v)
      /\ Names[CallOf(p)] = g /\ Names'[CallOf(p)] = Absent
      /\ Names[PageOf(p, v)] = Absent /\ Names'[PageOf(p, v)] = g
  <2>1. PageFrame(p, v) = Absent /\ PageFrame(p, v)' = g
    <3>1. call'[p].at # "clear"
      BY <1>2 DEF Sound, PagingTypes
    <3>. QED  BY <1>1, <1>5, <3>1, Distinct DEF PageFrame
  <2>. QED  BY <1>2, <1>3, <2>1, PlacesIn, PlacesDiffer, NamesAt, NamesNext, Distinct DEF Frame
<1>10. Own(Names', free', lost')
  BY <1>1, <1>7, <1>8, <1>9, OwnMove DEF Sound, PagingTypes
<1>11. /\ dir' \in [Procs -> [DirIndex -> All \cup {Absent}]] /\ free' \subseteq All /\ lost' \subseteq Frames
       /\ directory' = directory /\ c.at \in {"user", "map", "enter", "unmap"}
       /\ call[p].at \notin {"booked", "none"}
       /\ \A q \in Procs : q # p => dir'[q] = dir[q] /\ \A w \in Pages : Entry(q, w)' = Entry(q, w)
  BY <1>1, <1>2, <1>5 DEF Sound, PagingTypes
<1>. QED  BY ONLY Sound, p \in Procs, <1>2, <1>6, <1>10, <1>11, PlainStep

LEMMA MapTableInv ==
  ASSUME Sound, NEW p \in Procs, NEW f, MapTable(p, f)
  PROVE  Sound'
<1>. DEFINE table == [FreshTable EXCEPT ![PAGETABIDX(call[p].va)] = New(p)]
<1>1. PICK v \in Pages :
        /\ v = call[p].va /\ call[p].at = "enter" /\ dir[p][PAGEDIRIDX(v)] = Absent
        /\ f \in free /\ free' = free \ {f} /\ lost' = lost /\ directory' = directory
        /\ dir' = [dir EXCEPT ![p][PAGEDIRIDX(v)] = f] /\ tab' = [tab EXCEPT ![f] = table]
        /\ NextPage(p)
  BY DEF MapTable, At, Acquires
<1>2. PICK c \in Calls : /\ call' = [call EXCEPT ![p] = c] /\ c.at \in {"user", "map"}
                         /\ endpoint' \in [Procs -> Nat] /\ outside' \in [Procs -> BOOLEAN]
                         /\ Held(p)' = Absent
  BY <1>1, NextPageTypes
<1>3. PICK g \in All : g = call[p].page /\ Held(p) = g
  BY <1>1, CallFacts DEF Sound
<1>4. PICK i \in DirIndex, j \in TabIndex : i = PAGEDIRIDX(v) /\ j = PAGETABIDX(v)
  BY PageIndex
<1>5. /\ table \in [TabIndex -> Entries] /\ table[j] = <<g, TRUE>>
      /\ \A n \in TabIndex : n # j => table[n] = Zero
  BY <1>1, <1>3, <1>4 DEF New, Entries, FreshTable, TabIndex
<1>. HIDE DEF table
<1>6. f \in All
  BY <1>1 DEF Sound, PagingTypes
<1>7. /\ \A w \in Pages : PAGEDIRIDX(w) = i => Entry(p, w) = Zero /\ Entry(p, w)' = table[PAGETABIDX(w)]
      /\ \A q \in Procs, w \in Pages : ~(q = p /\ PAGEDIRIDX(w) = i) => Entry(q, w)' = Entry(q, w)
  BY <1>1, <1>4, TableAdded
<1>8. \A q \in Procs, w \in Pages : ~(q = p /\ w = v) => Entry(q, w)' = Entry(q, w)
  <2>. SUFFICES ASSUME NEW w \in Pages, w # v, PAGEDIRIDX(w) = i PROVE Entry(p, w)' = Entry(p, w)
    BY <1>7
  <2>1. PAGETABIDX(w) \in TabIndex /\ PAGETABIDX(w) # j
    BY <1>4, SamePage, PageIndex
  <2>. QED  BY <1>5, <1>7, <2>1
<1>9. /\ dir' \in [Procs -> [DirIndex -> All \cup {Absent}]] /\ tab' \in [All -> [TabIndex -> Entries]]
      /\ \A q \in Procs : q # p => dir'[q] = dir[q]
      /\ \A q \in Procs, m \in DirIndex : ~(q = p /\ m = i) => dir'[q][m] = dir[q][m]
      /\ dir'[p][i] = f
  <2>1. dir' = [dir EXCEPT ![p][i] = f] /\ tab' = [tab EXCEPT ![f] = table]
    BY <1>1, <1>4
  <2>. QED  BY <1>5, <1>6, <2>1 DEF Sound, PagingTypes
<1>10. PICK X : X = {CallOf(p), TableOf(p, i), PageOf(p, v)}
  OBVIOUS
<1>11. Elsewhere(Names, Names', X)
  <2>1. \A q \in Procs, w \in Pages : PageOf(q, w) \notin X => Entry(q, w)' = Entry(q, w)
    BY <1>8, <1>10
  <2>2. \A q \in Procs, m \in DirIndex : TableOf(q, m) \notin X => dir'[q][m] = dir[q][m]
    BY <1>9, <1>10
  <2>. QED  BY <1>1, <1>2, <1>10, <2>1, <2>2, CallElsewhere
<1>12. /\ CallOf(p) \in Places /\ PageOf(p, v) \in Places /\ TableOf(p, i) \in Places
       /\ CallOf(p) # PageOf(p, v) /\ CallOf(p) # TableOf(p, i) /\ TableOf(p, i) # PageOf(p, v)
       /\ Names[CallOf(p)] = g /\ Names'[CallOf(p)] = Absent
       /\ Names[PageOf(p, v)] = Absent /\ Names'[PageOf(p, v)] = g
       /\ Names[TableOf(p, i)] = Absent /\ Names'[TableOf(p, i)] = f
  <2>1. PageFrame(p, v) = Absent /\ PageFrame(p, v)' = g
    <3>1. call'[p].at # "clear"
      BY <1>2 DEF Sound, PagingTypes
    <3>2. Entry(p, v) = Zero /\ Entry(p, v)' = <<g, TRUE>>
      BY <1>4, <1>5, <1>7
    <3>. QED  BY <1>1, <3>1, <3>2, Distinct DEF PageFrame
  <2>2. dir[p][i] = Absent /\ dir'[p][i] = f
    BY <1>1, <1>4, <1>9
  <2>. QED  BY <1>2, <1>3, <1>6, <2>1, <2>2, PlacesIn, PlacesDiffer, NamesAt, NamesNext, Distinct DEF Frame
<1>13. Own(Names', free', lost')
  <2>1. Own(Names, free, lost) /\ free \subseteq All /\ lost \subseteq Frames
    BY DEF Sound, PagingTypes
  <2>2. PICK N, M : N = Names /\ M = Names'
    OBVIOUS
  <2>3. Own(M, free \ {f}, lost)
    BY ONLY <1>1, <1>3, <1>10, <1>11, <1>12, <2>1, <2>2, OwnAcquireMove
  <2>. QED  BY <1>1, <2>2, <2>3
<1>14. /\ free' \subseteq All /\ lost' \subseteq Frames /\ call[p].at \notin {"booked", "none"}
       /\ directory' = directory /\ c.at \in {"user", "map", "enter", "unmap"}
       /\ \A q \in Procs : q # p => dir'[q] = dir[q] /\ \A w \in Pages : Entry(q, w)' = Entry(q, w)
  BY <1>1, <1>2, <1>8, <1>9 DEF Sound, PagingTypes
<1>. QED  BY ONLY Sound, p \in Procs, <1>2, <1>9, <1>13, <1>14, PlainStep

(* A frame that a place names is not free, and can be released.            *)
LEMMA NamedNotFree ==
  ASSUME Sound, NEW x \in Places, NEW f \in All, Names[x] = f
  PROVE  f \notin free \cup lost /\ f # Junk
BY Distinct DEF Sound, Own

LEMMA ReleaseNamed ==
  ASSUME Sound, NEW x \in Places, NEW f \in All, Names[x] = f, Page_Release(f)
  PROVE  free' = free \cup {f} /\ wild' = wild /\ free' \subseteq All
<1>1. f \notin free /\ f # Junk
  BY NamedNotFree
<1>. QED  BY <1>1 DEF Page_Release, Sound, PagingTypes

LEMMA ReleaseOwn ==
  ASSUME Sound, NEW x \in Places, NEW f \in All, Names[x] = f, Names'[x] = Absent,
         Elsewhere(Names, Names', {x}), free' = free \cup {f}, lost' = lost
  PROVE  Own(Names', free', lost')
<1>1. PICK N, M : N = Names /\ M = Names'
  OBVIOUS
<1>2. Own(N, free, lost) /\ free \subseteq All /\ lost \subseteq Frames
  BY <1>1 DEF Sound, PagingTypes
<1>3. N[x] = f /\ M[x] = Absent /\ Elsewhere(N, M, {x})
  BY <1>1
<1>4. Own(M, free \cup {f}, lost)
  BY ONLY <1>2, <1>3, x \in Places, f \in All, OwnRelease
<1>. QED  BY <1>1, <1>4

LEMMA MapRefusedInv ==
  ASSUME Sound, NEW p \in Procs, MapRefused(p)
  PROVE  Sound' /\ wild' = wild
<1>1. /\ call[p].at = "enter" /\ Page_Release(call[p].page) /\ SetEndPoint(p, Reached(p, Mapped(p)))
      /\ directory' = directory /\ dir' = dir /\ tab' = tab /\ lost' = lost
  BY DEF MapRefused, At, GiveBack, spaces
<1>2. PICK e \in Nat : e = Reached(p, Mapped(p))
  BY <1>1, ReachedTypes
<1>3. /\ endpoint' \in [Procs -> Nat] /\ outside' \in [Procs -> BOOLEAN]
      /\ call' = [call EXCEPT ![p] = InUser] /\ InUser \in Calls /\ InUser.at = "user"
      /\ call'[p] = InUser /\ Held(p)' = Absent
  BY <1>1, <1>2, SetEndPointTypes
<1>4. PICK g \in All : g = call[p].page /\ Held(p) = g
  BY <1>1, CallFacts DEF Sound
<1>5. \A q \in Procs, v \in Pages : Entry(q, v)' = Entry(q, v)
  BY <1>1, SameEntries
<1>6. PICK X : X = {CallOf(p)}
  OBVIOUS
<1>7. Elsewhere(Names, Names', X)
  BY <1>1, <1>3, <1>5, <1>6, CallElsewhere
<1>8. CallOf(p) \in Places /\ Names[CallOf(p)] = g /\ Names'[CallOf(p)] = Absent
  BY <1>3, <1>4, PlacesIn, NamesAt, NamesNext, Distinct DEF Frame
<1>9. free' = free \cup {g} /\ wild' = wild /\ free' \subseteq All
  BY <1>1, <1>4, <1>8, ReleaseNamed
<1>10. Own(Names', free', lost')
  BY <1>1, <1>6, <1>7, <1>8, <1>9, ReleaseOwn
<1>11. Sound'
  BY <1>1, <1>3, <1>5, <1>9, <1>10, PlainStep DEF Sound, PagingTypes
<1>. QED  BY <1>9, <1>11

-----------------------------------------------------------------------------
(* Steps of Paging_UnmapPages and of Paging_Terminate.                     *)

LEMMA UnmapReleaseInv ==
  ASSUME Sound, wild = "no", NEW p \in Procs, UnmapRelease(p)
  PROVE  wild' # "double" /\ (wild' = "no" => Sound')
<1>0. PICK v : v = Min(Present(p))
  OBVIOUS
<1>. DEFINE f == Entry(p, v)[1]
            c == [call[p] EXCEPT !.at = "clear", !.va = v]
<1>1. /\ call[p].at = "unmap" /\ call' = [call EXCEPT ![p] = c] /\ Page_Release(f)
      /\ directory' = directory /\ dir' = dir /\ tab' = tab /\ endpoint' = endpoint
      /\ outside' = outside /\ lost' = lost
  BY <1>0 DEF UnmapRelease, At, Goto, spaces, history
<1>2. v \in Pages /\ Entry(p, v)[2]
  <2>1. Present(p) \in SUBSET Nat /\ Present(p) # {}
    BY PageIndex DEF Present, UnmapRelease
  <2>2. v \in Present(p)
    BY <1>0, <2>1, MinIsIn
  <2>. QED  BY <2>2 DEF Present
<1>3. c \in Calls /\ c.at = "clear" /\ c.va = v
  <2>1. call[p] \in [at : {"unmap", "clear"}, va : Nat, end : Nat, new : Nat \cup {Absent}]
    BY <1>1, UnmapCall DEF Sound
  <2>2. v \in Nat
    BY <1>2, PageIndex
  <2>3. c \in [at : {"unmap", "clear"}, va : Nat, end : Nat, new : Nat \cup {Absent}] /\ c.at = "clear" /\ c.va = v
    BY <2>1, <2>2
  <2>. QED  BY <2>3 DEF Calls
<1>. HIDE DEF c
<1>4. /\ dir[p][PAGEDIRIDX(v)] # Absent
      /\ f \in All \cup {Junk} /\ f # Absent
  <2>1. Entry(p, v) # Zero
    BY <1>2, Distinct
  <2>. QED  BY <1>2, <2>1, TabTypes, Distinct DEF Sound, Entry
<1>5. CASE f = Junk
  BY <1>1, <1>5 DEF Page_Release
<1>6. CASE f # Junk
  <2>1. call'[p] = c /\ \A q \in Procs : q # p => call'[q] = call[q]
    BY <1>1 DEF Sound, PagingTypes
  <2>2. \A q \in Procs, w \in Pages : Entry(q, w)' = Entry(q, w)
    BY <1>1, SameEntries
  <2>3. Held(p) = Absent /\ Held(p)' = Absent
    <3>1. DOMAIN c = DOMAIN call[p]
      BY DEF c
    <3>2. Held(p) = Absent
      BY <1>1, CallFacts DEF Sound
    <3>3. "page" \notin DOMAIN c
      <4>1. c \in [at : {"unmap", "clear"}, va : Nat, end : Nat, new : Nat \cup {Absent}]
        BY <1>3 DEF Calls
      <4>. QED  BY <4>1
    <3>. QED  BY <2>1, <3>2, <3>3 DEF Held
  <2>4. PICK x : x = PageOf(p, v)
    OBVIOUS
  <2>5. PICK X : X = {x}
    OBVIOUS
  <2>6. Elsewhere(Names, Names', X)
    <3>1. \A q \in Procs : Frame(Held(q)') = Frame(Held(q))
      BY <2>1, <2>3 DEF Held
    <3>2. ASSUME NEW q \in Procs, NEW w \in Pages, PageOf(q, w) \notin X
          PROVE  PageFrame(q, w)' = PageFrame(q, w)
      <4>1. CASE q = p
        <5>1. w # v
          BY <2>4, <2>5, <3>2, <4>1
        <5>. QED  BY <1>1, <1>3, <2>1, <2>2, <4>1, <5>1 DEF PageFrame
      <4>2. CASE q # p
        BY <2>1, <2>2, <4>2 DEF PageFrame
      <4>. QED  BY <4>1, <4>2
    <3>. QED  BY <1>1, <3>1, <3>2, NamesElsewhere
  <2>7. f \in All
    BY <1>4, <1>6
  <2>8. x \in Places /\ Names[x] = f /\ Names'[x] = Absent
    <3>1. PageFrame(p, v) = f /\ PageFrame(p, v)' = Absent
      BY <1>1, <1>3, <2>1 DEF PageFrame
    <3>. QED  BY <1>2, <2>4, <2>7, <3>1, PlacesIn, NamesAt, NamesNext, Distinct DEF Frame
  <2>. HIDE DEF f
  <2>9. free' = free \cup {f} /\ wild' = wild /\ free' \subseteq All
    BY <1>1, <2>7, <2>8, ReleaseNamed
  <2>10. Own(Names', free', lost')
    BY <1>1, <2>5, <2>6, <2>7, <2>8, <2>9, ReleaseOwn
  <2>11. PagingTypes'
    BY <1>1, <1>3, <2>9 DEF Sound, PagingTypes
  <2>12. SpaceOf(p)'
    <3>1. directory[p] # Absent
      BY <1>1 DEF Sound, SpaceOf
    <3>. QED  BY <1>1, <1>2, <1>3, <1>4, <2>1, <3>1 DEF SpaceOf
  <2>13. Sound'
    BY <1>1, <1>3, <2>1, <2>2, <2>10, <2>11, <2>12, LocalStep DEF Untouched, Forking
  <2>. QED  BY <2>9, <2>13
<1>. QED  BY <1>5, <1>6

LEMMA UnmapClearInv ==
  ASSUME Sound, NEW p \in Procs, UnmapClear(p)
  PROVE  Sound'
<1>0. PICK v : v = call[p].va
  OBVIOUS
<1>. DEFINE c == [call[p] EXCEPT !.at = "unmap", !.va = v + 1]
<1>1. /\ call[p].at = "clear" /\ call' = [call EXCEPT ![p] = c]
      /\ tab' = [tab EXCEPT ![dir[p][PAGEDIRIDX(v)]][PAGETABIDX(v)] = Zero]
      /\ directory' = directory /\ dir' = dir /\ endpoint' = endpoint
      /\ outside' = outside /\ lost' = lost /\ free' = free
  BY <1>0 DEF UnmapClear, At, Goto, history
<1>2. v \in Pages /\ dir[p][PAGEDIRIDX(v)] # Absent /\ directory[p] # Absent
  BY <1>0, <1>1 DEF Sound, SpaceOf
<1>3. c \in [at : {"unmap", "clear"}, va : Nat, end : Nat, new : Nat \cup {Absent}] /\ c.at = "unmap"
  <2>1. call[p] \in [at : {"unmap", "clear"}, va : Nat, end : Nat, new : Nat \cup {Absent}]
    BY <1>1, UnmapCall DEF Sound
  <2>2. v + 1 \in Nat
    BY <1>2, PageIndex
  <2>. QED  BY <2>1, <2>2
<1>4. c \in Calls
  BY <1>3 DEF Calls
<1>5. Held(p) = Absent /\ Held(p)' = Absent
  <2>1. "page" \notin DOMAIN c
    BY <1>3
  <2>2. call'[p] = c
    BY <1>1 DEF Sound, PagingTypes
  <2>. QED  BY <1>1, <2>1, <2>2, CallFacts DEF Sound, Held
<1>. HIDE DEF c
<1>6. /\ Entry(p, v)' = Zero
      /\ \A q \in Procs, w \in Pages : ~(q = p /\ w = v) => Entry(q, w)' = Entry(q, w)
  BY <1>1, <1>2, EntryWritten
<1>7. tab' \in [All -> [TabIndex -> Entries]]
  <2>1. PAGEDIRIDX(v) \in DirIndex /\ PAGETABIDX(v) \in TabIndex
    BY <1>2, PageIndex
  <2>2. dir[p][PAGEDIRIDX(v)] \in All
    BY <1>2, <2>1, TablesDiffer
  <2>. QED  BY <1>1, <2>1, <2>2, EntriesTypes DEF Entries
<1>8. call'[p] = c /\ \A q \in Procs : q # p => call'[q] = call[q]
  BY <1>1 DEF Sound, PagingTypes
<1>9. Elsewhere(Names, Names', {})
  <2>1. \A q \in Procs : Frame(Held(q)') = Frame(Held(q))
    BY <1>5, <1>8 DEF Held
  <2>2. ASSUME NEW q \in Procs, NEW w \in Pages
        PROVE  PageFrame(q, w)' = PageFrame(q, w)
    <3>1. CASE q = p /\ w = v
      BY <1>0, <1>1, <1>3, <1>6, <1>8, <3>1, Distinct DEF PageFrame
    <3>2. CASE q = p /\ w # v
      BY <1>0, <1>1, <1>3, <1>6, <1>8, <3>2 DEF PageFrame
    <3>3. CASE q # p
      BY <1>6, <1>8, <3>3 DEF PageFrame
    <3>. QED  BY <3>1, <3>2, <3>3
  <2>. QED  BY <1>1, <2>1, <2>2, NamesElsewhere
<1>10. Own(Names', free', lost')
  BY <1>1, <1>9, OwnSame DEF Sound
<1>11. /\ dir' \in [Procs -> [DirIndex -> All \cup {Absent}]] /\ free' \subseteq All /\ lost' \subseteq Frames
       /\ directory' = directory /\ c.at \in {"user", "map", "enter", "unmap"}
       /\ endpoint' \in [Procs -> Nat] /\ outside' \in [Procs -> BOOLEAN]
       /\ call[p].at \notin {"booked", "none"} /\ call' = [call EXCEPT ![p] = c]
       /\ \A q \in Procs : q # p => dir'[q] = dir[q] /\ \A w \in Pages : Entry(q, w)' = Entry(q, w)
  BY <1>1, <1>3, <1>6 DEF Sound, PagingTypes
<1>. QED  BY ONLY Sound, p \in Procs, <1>4, <1>7, <1>10, <1>11, PlainStep

(* Frame 0 is free when nobody uses it.                                    *)
LEMMA LowUnnamed ==
  ASSUME Sound, ~LowInUse, NEW x \in Places
  PROVE  Names[x] # Low
<1>0. Low \in All /\ Low # Absent
  BY Distinct DEF All
<1>1. ASSUME NEW q \in Procs
      PROVE  /\ directory[q] # Low /\ Held(q) # Low
             /\ \A i \in DirIndex : dir[q][i] # Low
             /\ \A v \in Pages : PageFrame(q, v) # Low
  <2>1. directory[q] # Low /\ Held(q) # Low
    BY <1>0 DEF LowInUse, Held
  <2>2. \A i \in DirIndex : dir[q][i] # Low
    BY DEF LowInUse, Range, Sound, PagingTypes
  <2>3. \A v \in Pages : PageFrame(q, v) # Low
    BY <1>0 DEF LowInUse, PageFrame
  <2>. QED  BY <2>1, <2>2, <2>3
<1>2. CASE \E q \in Procs : x = DirectoryOf(q) \/ x = CallOf(q)
  BY <1>0, <1>1, <1>2, NamesAt DEF Frame
<1>3. CASE \E q \in Procs, i \in DirIndex : x = TableOf(q, i)
  BY <1>0, <1>1, <1>3, NamesAt DEF Frame
<1>4. CASE \E q \in Procs, v \in Pages : x = PageOf(q, v)
  BY <1>0, <1>1, <1>4, NamesAt DEF Frame
<1>. QED  BY <1>2, <1>3, <1>4, PlaceCases

LEMMA LowOwn ==
  ASSUME Sound, ~LowInUse, Elsewhere(Names, Names', {}), free' = free \cup {Low}, lost' = lost
  PROVE  Own(Names', free', lost')
<1>1. PICK N, M : N = Names /\ M = Names'
  OBVIOUS
<1>2. Own(N, free, lost) /\ lost \subseteq Frames /\ Elsewhere(N, M, {})
  BY <1>1 DEF Sound, PagingTypes
<1>3. \A x \in Places : N[x] # Low
  BY <1>1, LowUnnamed
<1>4. Own(M, free \cup {Low}, lost)
  BY ONLY <1>2, <1>3, OwnLow
<1>. QED  BY <1>1, <1>4

(* A page table goes back, and what its entries named is lost.             *)
LEMMA LoseOwn ==
  ASSUME Sound, NEW p \in Procs, NEW i \in DirIndex, dir[p][i] # Absent, call[p].at # "clear",
         Names'[TableOf(p, i)] = Absent,
         \A v \in Pages : PAGEDIRIDX(v) = i => Names'[PageOf(p, v)] = Absent,
         \A y \in Places : y # TableOf(p, i) /\ (\A v \in Pages : PAGEDIRIDX(v) = i => y # PageOf(p, v)) =>
             Names'[y] = Names[y],
         free' = free \cup {dir[p][i]},
         lost' = lost \cup ({tab[dir[p][i]][j][1] : j \in TabIndex} \cap Frames)
  PROVE  Own(Names', free', lost')
<1>0. PICK t \in All : t = dir[p][i]
  BY TablesDiffer
<1>1. PICK N, M : N = Names /\ M = Names'
  OBVIOUS
<1>2. PICK x \in Places : x = TableOf(p, i)
  BY PlacesIn
<1>3. PICK X \in SUBSET Places : X = {PageOf(p, v) : v \in {w \in Pages : PAGEDIRIDX(w) = i}}
  BY PlacesIn
<1>4. Own(N, free, lost) /\ free \subseteq All /\ lost \subseteq Frames
  BY <1>1 DEF Sound, PagingTypes
<1>5. x \notin X
  BY <1>2, <1>3, PlacesDiffer
<1>6. N[x] = t /\ M[x] = Absent
  BY <1>0, <1>1, <1>2, NamesAt DEF Frame
<1>7. \A y \in X : M[y] = Absent
  BY <1>1, <1>3
<1>8. Elsewhere(N, M, X \cup {x})
  BY <1>1, <1>2, <1>3 DEF Elsewhere
<1>9. Own(M, free \cup {t}, lost \cup ({N[y] : y \in X} \cap Frames))
  BY ONLY <1>4, <1>5, <1>6, <1>7, <1>8, x \in Places, X \in SUBSET Places, t \in All, OwnLose
<1>10. ASSUME NEW v \in Pages, PAGEDIRIDX(v) = i
       PROVE  N[PageOf(p, v)] = Frame(tab[t][PAGETABIDX(v)][1])
  <2>1. Entry(p, v) = tab[t][PAGETABIDX(v)]
    BY <1>0, <1>10 DEF Entry
  <2>2. PageFrame(p, v) = tab[t][PAGETABIDX(v)][1]
    BY <2>1 DEF PageFrame
  <2>. QED  BY <1>1, <2>2, NamesAt
<1>11. {N[y] : y \in X} \cap Frames = {tab[t][j][1] : j \in TabIndex} \cap Frames
  <2>1. ASSUME NEW y \in X, N[y] \in Frames
        PROVE  \E j \in TabIndex : tab[t][j][1] = N[y]
    <3>1. PICK v \in Pages : y = PageOf(p, v) /\ PAGEDIRIDX(v) = i
      BY <1>3
    <3>2. N[y] = Frame(tab[t][PAGETABIDX(v)][1])
      BY <1>10, <3>1
    <3>. QED  BY <2>1, <3>2, PageIndex, Distinct DEF Frame, All
  <2>2. ASSUME NEW j \in TabIndex, tab[t][j][1] \in Frames
        PROVE  \E y \in X : N[y] = tab[t][j][1]
    <3>1. PICK v \in Pages : PAGEDIRIDX(v) = i /\ PAGETABIDX(v) = j
      BY PageOfIndex
    <3>2. N[PageOf(p, v)] = tab[t][j][1]
      BY <1>10, <2>2, <3>1 DEF Frame, All
    <3>. QED  BY <1>3, <3>1, <3>2
  <2>. QED  BY <2>1, <2>2
<1>. QED  BY <1>0, <1>1, <1>9, <1>11

LEMMA TerminateTableInv ==
  ASSUME Sound, wild = "no", NEW p \in Procs, TerminateTable(p)
  PROVE  wild' # "double" /\ (wild' = "no" => Sound')
<1>0. PICK i : i = call[p].i
  OBVIOUS
<1>. DEFINE t == dir[p][i]
            c == [at |-> "tables", i |-> i + 1]
<1>1. /\ call[p].at = "tables" /\ i < Dirs
      /\ IF t = Absent THEN ReleaseLow ELSE Page_Release(t)
      /\ lost' = lost \cup (IF t = Absent THEN {} ELSE {tab[t][j][1] : j \in 0 .. Tabs - 1} \cap Frames)
      /\ dir' = [dir EXCEPT ![p][i] = Absent]
      /\ tab' = IF t = Absent THEN tab ELSE [tab EXCEPT ![t] = FreshTable]
      /\ call' = [call EXCEPT ![p] = c]
      /\ directory' = directory /\ endpoint' = endpoint /\ outside' = outside
  BY <1>0 DEF TerminateTable, At, Goto
<1>2. i \in DirIndex /\ i + 1 \in 0 .. Dirs
  BY <1>0, <1>1, CallFacts, PagingAssumption DEF Sound, DirIndex
<1>3. c \in Calls /\ c.at = "tables" /\ c.i = i + 1 /\ "page" \notin DOMAIN c
  BY <1>2 DEF Calls
<1>. HIDE DEF c
<1>4. call'[p] = c /\ \A q \in Procs : q # p => call'[q] = call[q]
  BY <1>1 DEF Sound, PagingTypes
<1>5. Held(p) = Absent /\ Held(p)' = Absent
  BY <1>1, <1>3, <1>4, CallFacts DEF Sound, Held
<1>6. /\ \A v \in Pages : PAGEDIRIDX(v) = i => Entry(p, v)' = Zero
      /\ \A q \in Procs, w \in Pages : ~(q = p /\ PAGEDIRIDX(w) = i) => Entry(q, w)' = Entry(q, w)
  BY <1>1, <1>2, TableRemoved
<1>7. t \in All \cup {Absent}
  BY <1>2 DEF Sound, PagingTypes
<1>8. /\ dir' \in [Procs -> [DirIndex -> All \cup {Absent}]]
      /\ tab' \in [All -> [TabIndex -> Entries]]
      /\ \A q \in Procs : q # p => dir'[q] = dir[q]
      /\ dir'[p][i] = Absent
      /\ \A j \in DirIndex : j # i => dir'[p][j] = dir[p][j]
  <2>1. FreshTable \in [TabIndex -> Entries]
    BY DEF FreshTable, TabIndex, Entries
  <2>. HIDE DEF t
  <2>2. tab' \in [All -> [TabIndex -> Entries]]
    BY <1>1, <1>7, <2>1 DEF Sound, PagingTypes
  <2>. QED  BY <1>1, <1>2, <2>2 DEF Sound, PagingTypes
<1>9. \A y \in Places : y # TableOf(p, i) /\ (\A v \in Pages : PAGEDIRIDX(v) = i => y # PageOf(p, v)) =>
          Names'[y] = Names[y]
  <2>. DEFINE X == {TableOf(p, i)} \cup {PageOf(p, v) : v \in {w \in Pages : PAGEDIRIDX(w) = i}}
  <2>1. Elsewhere(Names, Names', X)
    <3>1. \A q \in Procs : Frame(Held(q)') = Frame(Held(q))
      BY <1>4, <1>5 DEF Held
    <3>2. \A q \in Procs, j \in DirIndex : TableOf(q, j) \notin X => dir'[q][j] = dir[q][j]
      BY <1>8
    <3>3. ASSUME NEW q \in Procs, NEW w \in Pages, PageOf(q, w) \notin X
          PROVE  PageFrame(q, w)' = PageFrame(q, w)
      <4>1. Entry(q, w)' = Entry(q, w)
        BY <1>6, <3>3
      <4>. QED  BY <1>1, <1>3, <1>4, <4>1 DEF PageFrame
    <3>. HIDE DEF X
    <3>. QED  BY <1>1, <3>1, <3>2, <3>3, NamesElsewhere
  <2>. QED  BY <2>1 DEF Elsewhere
<1>10. SpaceOf(p)'
  <2>1. directory[p] # Absent /\ \A j \in DirIndex : j < i => dir[p][j] = Absent
    BY <1>0, <1>1 DEF Sound, SpaceOf
  <2>2. \A j \in DirIndex : j < i + 1 => dir'[p][j] = Absent
    BY <1>2, <1>8, <2>1 DEF DirIndex
  <2>. QED  BY <1>1, <1>3, <1>4, <2>1, <2>2 DEF SpaceOf
<1>11. ASSUME free' \subseteq All, lost' \subseteq Frames, Own(Names', free', lost')
       PROVE  Sound'
  <2>1. PagingTypes'
    BY <1>1, <1>3, <1>8, <1>11 DEF Sound, PagingTypes
  <2>2. \A q \in Procs : q # p => Untouched(q)
    BY <1>1, <1>4, <1>6, <1>8 DEF Untouched
  <2>3. ~Forking(p)' /\ call[p].at # "booked"
    BY <1>1, <1>3, <1>4 DEF Forking
  <2>. QED  BY <1>10, <1>11, <2>1, <2>2, <2>3, LocalStep
<1>12. CASE t = Absent
  <2>0. ReleaseLow
    BY <1>1, <1>12
  <2>1. CASE LowInUse
    BY <2>0, <2>1 DEF ReleaseLow
  <2>2. CASE ~LowInUse /\ Low \in free
    BY <2>0, <2>2 DEF ReleaseLow, Page_Release, Low, Junk
  <2>3. CASE ~LowInUse /\ Low \notin free
    <3>1. free' = free \cup {Low} /\ wild' = wild
      BY <2>0, <2>3 DEF ReleaseLow, Page_Release, Low, Junk
    <3>2. lost' = lost
      BY <1>1, <1>12
    <3>3. Elsewhere(Names, Names', {})
      <4>1. \A j \in DirIndex : dir'[p][j] = dir[p][j]
        BY <1>8, <1>12
      <4>2. \A q \in Procs : Frame(Held(q)') = Frame(Held(q))
        BY <1>4, <1>5 DEF Held
      <4>3. ASSUME NEW q \in Procs, NEW w \in Pages
            PROVE  PageFrame(q, w)' = PageFrame(q, w)
        <5>1. Entry(q, w)' = Entry(q, w)
          BY <1>6, <1>12 DEF Entry
        <5>. QED  BY <1>1, <1>3, <1>4, <5>1 DEF PageFrame
      <4>4. \A q \in Procs, j \in DirIndex : dir'[q][j] = dir[q][j]
        BY <1>8, <4>1
      <4>. QED  BY <1>1, <4>2, <4>3, <4>4, NamesElsewhere
    <3>4. Own(Names', free', lost')
      BY <2>3, <3>1, <3>2, <3>3, LowOwn
    <3>5. free' \subseteq All /\ lost' \subseteq Frames
      BY <3>1, <3>2 DEF Sound, PagingTypes, All
    <3>. QED  BY <1>11, <3>1, <3>4, <3>5
  <2>. QED  BY <2>1, <2>2, <2>3
<1>13. CASE t # Absent
  <2>1. t \in All /\ TableOf(p, i) \in Places /\ Names[TableOf(p, i)] = t
    BY <1>2, <1>7, <1>13, PlacesIn, NamesAt DEF Frame
  <2>2. free' = free \cup {t} /\ wild' = wild /\ free' \subseteq All
    BY <1>1, <1>13, <2>1, ReleaseNamed
  <2>3. lost' = lost \cup ({tab[t][j][1] : j \in TabIndex} \cap Frames)
    BY <1>1, <1>13 DEF TabIndex
  <2>4. Names'[TableOf(p, i)] = Absent
    BY <1>2, <1>8, NamesNext DEF Frame
  <2>5. \A v \in Pages : PAGEDIRIDX(v) = i => Names'[PageOf(p, v)] = Absent
    <3>. SUFFICES ASSUME NEW v \in Pages, PAGEDIRIDX(v) = i PROVE Names'[PageOf(p, v)] = Absent
      OBVIOUS
    <3>1. PageFrame(p, v)' = Absent
      BY <1>3, <1>4, <1>6, Distinct DEF PageFrame
    <3>. QED  BY <3>1, NamesNext DEF Frame
  <2>6. Own(Names', free', lost')
    BY <1>1, <1>2, <1>9, <1>13, <2>2, <2>3, <2>4, <2>5, LoseOwn
  <2>7. lost' \subseteq Frames
    BY <2>3 DEF Sound, PagingTypes
  <2>. QED  BY <1>11, <2>2, <2>6, <2>7
<1>. QED  BY <1>12, <1>13

LEMMA TerminateDirectoryInv ==
  ASSUME Sound, wild = "no", NEW p \in Procs, TerminateDirectory(p)
  PROVE  Sound' /\ wild' = wild
<1>. DEFINE c == [at |-> "none"]
<1>1. /\ call[p].at = "tables" /\ call[p].i = Dirs /\ Page_Release(directory[p])
      /\ directory' = [directory EXCEPT ![p] = Absent] /\ call' = [call EXCEPT ![p] = c]
      /\ dir' = dir /\ tab' = tab /\ endpoint' = endpoint /\ outside' = outside /\ lost' = lost
  BY DEF TerminateDirectory, At, Goto, history
<1>2. c \in Calls /\ c.at = "none" /\ "page" \notin DOMAIN c
  BY DEF Calls
<1>. HIDE DEF c
<1>3. call'[p] = c /\ \A q \in Procs : q # p => call'[q] = call[q]
  BY <1>1 DEF Sound, PagingTypes
<1>4. Held(p) = Absent /\ Held(p)' = Absent
  BY <1>1, <1>2, <1>3, CallFacts DEF Sound, Held
<1>5. directory'[p] = Absent /\ \A q \in Procs : q # p => directory'[q] = directory[q]
  BY <1>1 DEF Sound, PagingTypes
<1>6. PICK f \in All : f = directory[p]
  BY <1>1 DEF Sound, PagingTypes, SpaceOf
<1>7. \A q \in Procs, v \in Pages : Entry(q, v)' = Entry(q, v)
  BY <1>1, SameEntries
<1>8. PICK x \in Places : x = DirectoryOf(p)
  BY PlacesIn
<1>9. Elsewhere(Names, Names', {x})
  <2>1. \A q \in Procs : Frame(Held(q)') = Frame(Held(q))
    BY <1>3, <1>4 DEF Held
  <2>2. \A q \in Procs, w \in Pages : PageFrame(q, w)' = PageFrame(q, w)
    BY <1>1, <1>2, <1>3, <1>7 DEF PageFrame
  <2>3. \A q \in Procs : DirectoryOf(q) \notin {x} => directory'[q] = directory[q]
    BY <1>5, <1>8
  <2>4. PICK X : X = {x}
    OBVIOUS
  <2>. QED  BY <1>1, <2>1, <2>2, <2>3, <2>4, NamesElsewhere
<1>10. Names[x] = f /\ Names'[x] = Absent
  BY <1>5, <1>6, <1>8, NamesAt, NamesNext DEF Frame
<1>11. free' = free \cup {f} /\ wild' = wild /\ free' \subseteq All
  BY <1>1, <1>6, <1>10, ReleaseNamed
<1>12. Own(Names', free', lost')
  BY <1>1, <1>9, <1>10, <1>11, ReleaseOwn
<1>13. PagingTypes'
  BY <1>1, <1>2, <1>11 DEF Sound, PagingTypes
<1>14. SpaceOf(p)'
  <2>1. \A i \in DirIndex : dir[p][i] = Absent
    BY <1>1, PagingAssumption DEF Sound, SpaceOf, DirIndex
  <2>. QED  BY <1>1, <1>2, <1>3, <1>5, <2>1 DEF SpaceOf, Empty
<1>15. Sound'
  BY <1>1, <1>2, <1>3, <1>5, <1>7, <1>12, <1>13, <1>14, LocalStep DEF Untouched, Forking
<1>. QED  BY <1>11, <1>15

-----------------------------------------------------------------------------
(* Steps of Process_Fork.                                                  *)

LEMMA ForkInv ==
  ASSUME Sound, NEW p \in Procs, NEW k \in Procs, Fork(p, k)
  PROVE  Sound'
<1>. DEFINE c == [at |-> "fork", kid |-> k]
            d == [at |-> "booked"]
<1>1. /\ call[p].at = "user" /\ call[k].at = "none" /\ call' = [call EXCEPT ![p] = c, ![k] = d]
      /\ directory' = directory /\ dir' = dir /\ tab' = tab /\ endpoint' = endpoint
      /\ outside' = outside /\ lost' = lost /\ free' = free
  BY DEF Fork, Call, At, spaces, history
<1>2. /\ c \in Calls /\ c.at = "fork" /\ c.kid = k /\ "page" \notin DOMAIN c
      /\ d \in Calls /\ d.at = "booked" /\ "page" \notin DOMAIN d
  BY DEF Calls
<1>. HIDE DEF c, d
<1>3. /\ p # k /\ call'[p] = c /\ call'[k] = d
      /\ \A q \in Procs : q \notin {p, k} => call'[q] = call[q]
  BY <1>1 DEF Sound, PagingTypes
<1>4. Held(p) = Absent /\ Held(p)' = Absent /\ Held(k) = Absent /\ Held(k)' = Absent
  BY <1>1, <1>2, <1>3, CallFacts DEF Sound, Held
<1>5. \A q \in Procs, v \in Pages : Entry(q, v)' = Entry(q, v)
  BY <1>1, SameEntries
<1>6. Elsewhere(Names, Names', {})
  <2>1. \A q \in Procs : Frame(Held(q)') = Frame(Held(q))
    BY <1>3, <1>4 DEF Held
  <2>2. \A q \in Procs, v \in Pages : PageFrame(q, v)' = PageFrame(q, v)
    BY <1>1, <1>2, <1>3, <1>5 DEF PageFrame
  <2>. QED  BY <1>1, <2>1, <2>2, NamesElsewhere
<1>7. Own(Names', free', lost')
  BY <1>1, <1>6, OwnSame DEF Sound
<1>8. PagingTypes'
  BY <1>1, <1>2 DEF Sound, PagingTypes
<1>9. ASSUME NEW q \in Procs, Forking(q)
      PROVE  call[q].kid \notin {p, k}
  BY <1>1, <1>9 DEF Sound, SpaceOf, Forking
<1>10. ASSUME NEW q \in Procs PROVE SpaceOf(q)'
  <2>1. CASE q = p
    <3>1. directory[p] # Absent /\ Empty(k)
      BY <1>1 DEF Sound, SpaceOf
    <3>. QED  BY <1>1, <1>2, <1>3, <2>1, <3>1 DEF SpaceOf, Empty
  <2>2. CASE q = k
    BY <1>2, <1>3, <2>2 DEF SpaceOf
  <2>3. CASE q \notin {p, k}
    <3>1. PICK T : T = {p, k}
      OBVIOUS
    <3>2. \A r \in Procs : r \notin T => Untouched(r)
      BY <1>1, <1>3, <1>5, <3>1 DEF Untouched
    <3>. QED  BY <1>9, <2>3, <3>1, <3>2, OthersSpace
  <2>. QED  BY <2>1, <2>2, <2>3
<1>11. OneParent'
  <2>. SUFFICES ASSUME NEW q \in Procs, NEW r \in Procs, Forking(q)', Forking(r)', call'[q].kid = call'[r].kid
                PROVE  q = r
    BY DEF OneParent
  <2>1. q # k /\ r # k
    BY <1>2, <1>3 DEF Forking
  <2>2. \A s \in Procs : s \notin {p, k} /\ Forking(s)' => Forking(s) /\ call'[s].kid = call[s].kid
    BY <1>3 DEF Forking
  <2>. QED  BY <1>2, <1>3, <1>9, <2>1, <2>2 DEF Sound, OneParent
<1>. QED  BY <1>7, <1>8, <1>10, <1>11 DEF Sound

(* Steps of a parent p while its child k is booked.                        *)
LEMMA ParentStep ==
  ASSUME Sound, NEW p \in Procs, NEW k \in Procs, Forking(p), call[p].kid = k,
         \A q \in Procs : q \notin {p, k} => Untouched(q),
         PagingTypes', Own(Names', free', lost'), SpaceOf(p)', SpaceOf(k)',
         Forking(p)' => call'[p].kid = k, ~Forking(k)'
  PROVE  Sound'
<1>1. ASSUME NEW q \in Procs, q \notin {p, k}, Forking(q)
      PROVE  call[q].kid \notin {p, k}
  <2>1. call[call[q].kid].at = "booked"
    BY <1>1 DEF Sound, SpaceOf, Forking
  <2>2. call[q].kid # p
    BY <2>1 DEF Forking
  <2>3. call[q].kid # k
    BY <1>1 DEF Sound, OneParent
  <2>. QED  BY <2>2, <2>3
<1>2. ASSUME NEW q \in Procs PROVE SpaceOf(q)'
  <2>1. CASE q \in {p, k}
    BY <2>1
  <2>2. CASE q \notin {p, k}
    <3>1. PICK T : T = {p, k}
      OBVIOUS
    <3>2. \A r \in Procs : r \notin T => Untouched(r)
      BY <3>1
    <3>. QED  BY <1>1, <2>2, <3>1, <3>2, OthersSpace
  <2>. QED  BY <2>1, <2>2
<1>3. OneParent'
  <2>. SUFFICES ASSUME NEW q \in Procs, NEW r \in Procs, Forking(q)', Forking(r)', call'[q].kid = call'[r].kid
                PROVE  q = r
    BY DEF OneParent
  <2>1. q # k /\ r # k
    OBVIOUS
  <2>2. \A s \in Procs : s \notin {p, k} /\ Forking(s)' => Forking(s) /\ call'[s].kid = call[s].kid
    BY DEF Forking, Untouched
  <2>. QED  BY <1>1, <2>1, <2>2 DEF Sound, OneParent
<1>. QED  BY <1>2, <1>3 DEF Sound

LEMMA AcquireOwn ==
  ASSUME Sound, NEW x \in Places, NEW f \in free, Names[x] = Absent, Names'[x] = f,
         Elsewhere(Names, Names', {x}), free' = free \ {f}, lost' = lost
  PROVE  Own(Names', free', lost')
<1>1. PICK N, M : N = Names /\ M = Names'
  OBVIOUS
<1>2. Own(N, free, lost) /\ free \subseteq All /\ lost \subseteq Frames
  BY <1>1 DEF Sound, PagingTypes
<1>3. N[x] = Absent /\ M[x] = f /\ Elsewhere(N, M, {x})
  BY <1>1
<1>4. Own(M, free \ {f}, lost)
  BY ONLY <1>2, <1>3, x \in Places, f \in free, OwnAcquire
<1>. QED  BY <1>1, <1>4

LEMMA Paging_InitializeInv ==
  ASSUME Sound, NEW p \in Procs, NEW f, Paging_Initialize(p, f)
  PROVE  Sound'
<1>0. PICK k : k = call[p].kid
  OBVIOUS
<1>. DEFINE c == [at |-> "clone", kid |-> k, va |-> 0]
<1>1. /\ call[p].at = "fork" /\ call' = [call EXCEPT ![p] = c]
      /\ f \in free /\ free' = free \ {f}
      /\ directory' = [directory EXCEPT ![k] = f] /\ dir' = [dir EXCEPT ![k] = [i \in DirIndex |-> Absent]]
      /\ tab' = tab /\ endpoint' = endpoint /\ outside' = outside /\ lost' = lost
  BY <1>0 DEF Paging_Initialize, At, Goto, Acquires, history, DirIndex
<1>2. k \in Procs /\ call[k].at = "booked" /\ Empty(k) /\ p # k
  BY <1>0, <1>1, CallFacts DEF Sound, SpaceOf
<1>3. c \in Calls /\ c.at = "clone" /\ c.kid = k /\ "page" \notin DOMAIN c
  BY <1>2 DEF Calls
<1>. HIDE DEF c
<1>4. call'[p] = c /\ \A q \in Procs : q # p => call'[q] = call[q]
  BY <1>1 DEF Sound, PagingTypes
<1>5. Held(p) = Absent /\ Held(p)' = Absent
  BY <1>1, <1>3, <1>4, CallFacts DEF Sound, Held
<1>6. f \in All /\ f # Absent
  BY <1>1, Distinct DEF Sound, PagingTypes
<1>7. /\ directory'[k] = f /\ \A q \in Procs : q # k => directory'[q] = directory[q] /\ dir'[q] = dir[q]
      /\ \A i \in DirIndex : dir'[k][i] = Absent
  BY <1>1, <1>2 DEF Sound, PagingTypes
<1>8. \A q \in Procs, i \in DirIndex : dir'[q][i] = dir[q][i]
  BY <1>2, <1>7 DEF Empty
<1>9. \A q \in Procs, v \in Pages : Entry(q, v)' = Entry(q, v)
  BY <1>1, <1>8, PageIndex DEF Entry
<1>10. PICK x \in Places : x = DirectoryOf(k)
  BY <1>2, PlacesIn
<1>11. Elsewhere(Names, Names', {x})
  <2>1. \A q \in Procs : Frame(Held(q)') = Frame(Held(q))
    BY <1>4, <1>5 DEF Held
  <2>2. \A q \in Procs, v \in Pages : PageFrame(q, v)' = PageFrame(q, v)
    BY <1>1, <1>3, <1>4, <1>9 DEF PageFrame
  <2>3. PICK X : X = {x}
    OBVIOUS
  <2>4. \A q \in Procs : DirectoryOf(q) \notin X => directory'[q] = directory[q]
    BY <1>7, <1>10, <2>3
  <2>. QED  BY <1>8, <2>1, <2>2, <2>3, <2>4, NamesElsewhere
<1>12. Names[x] = Absent /\ Names'[x] = f
  BY <1>2, <1>6, <1>7, <1>10, NamesAt, NamesNext DEF Frame, Empty
<1>13. Own(Names', free', lost')
  BY <1>1, <1>11, <1>12, AcquireOwn
<1>14. PagingTypes'
  BY <1>1, <1>2, <1>3, <1>6 DEF Sound, PagingTypes
<1>15. SpaceOf(p)'
  <2>1. directory[p] # Absent
    BY <1>1 DEF Sound, SpaceOf
  <2>2. Copying(p, k)'
    BY <1>7, PageIndex DEF Copying
  <2>. QED  BY <1>2, <1>3, <1>4, <1>6, <1>7, <2>1, <2>2 DEF SpaceOf
<1>16. SpaceOf(k)' /\ ~Forking(k)'
  BY <1>2, <1>4 DEF SpaceOf, Forking
<1>17. \A q \in Procs : q \notin {p, k} => Untouched(q)
  BY <1>4, <1>7, <1>9 DEF Untouched
<1>18. Forking(p) /\ (Forking(p)' => call'[p].kid = k)
  BY <1>1, <1>3, <1>4 DEF Forking
<1>. QED  BY <1>0, <1>2, <1>13, <1>14, <1>15, <1>16, <1>17, <1>18, ParentStep

LEMMA ClonePageInv ==
  ASSUME Sound, NEW p \in Procs, NEW f, ClonePage(p, f)
  PROVE  Sound'
<1>0. PICK k, v : k = call[p].kid /\ v = Min(PagesLeft(p))
  OBVIOUS
<1>. DEFINE c == [call[p] EXCEPT !.va = v + 1]
            e == <<f, Entry(p, v)[2]>>
<1>1. /\ call[p].at = "clone" /\ PagesLeft(p) # {} /\ call' = [call EXCEPT ![p] = c]
      /\ f \in free /\ free' = free \ {f}
      /\ tab' = [tab EXCEPT ![dir[k][PAGEDIRIDX(v)]][PAGETABIDX(v)] = e]
      /\ directory' = directory /\ dir' = dir /\ endpoint' = endpoint /\ outside' = outside /\ lost' = lost
  BY <1>0 DEF ClonePage, At, Goto, Acquires, history
<1>2. /\ k \in Procs /\ call[k].at = "booked" /\ p # k /\ directory[k] # Absent /\ directory[p] # Absent
      /\ Copying(p, k)
  BY <1>0, <1>1, CallFacts DEF Sound, SpaceOf
<1>3. v \in Pages /\ v \in Nat /\ v >= call[p].va /\ dir[k][PAGEDIRIDX(v)] # Absent /\ Entry(p, v) # Zero
  <2>1. PagesLeft(p) \in SUBSET Nat
    BY PageIndex DEF PagesLeft
  <2>2. v \in PagesLeft(p)
    BY <1>0, <1>1, <2>1, MinIsIn
  <2>. QED  BY <1>0, <2>2, PageIndex DEF PagesLeft, Paging_IsPageMapped
<1>4. Entry(k, v) = Zero
  BY <1>2, <1>3 DEF Copying
<1>5. c \in Calls /\ c.at = "clone" /\ c.kid = k /\ c.va = v + 1 /\ "page" \notin DOMAIN c
  <2>1. call[p] \in [at : {"clone"}, kid : Procs, va : Nat]
    BY <1>1, CloneCall DEF Sound
  <2>2. c \in [at : {"clone"}, kid : Procs, va : Nat] /\ c.kid = k /\ c.va = v + 1
    BY <1>0, <1>3, <2>1
  <2>. HIDE DEF c
  <2>. QED  BY <2>2 DEF Calls
<1>. HIDE DEF c
<1>6. call'[p] = c /\ \A q \in Procs : q # p => call'[q] = call[q]
  BY <1>1 DEF Sound, PagingTypes
<1>7. Held(p) = Absent /\ Held(p)' = Absent
  BY <1>1, <1>5, <1>6, CallFacts DEF Sound, Held
<1>8. f \in All /\ f # Absent
  BY <1>1, Distinct DEF Sound, PagingTypes
<1>9. e \in Entries /\ e[1] = f
  BY <1>3, <1>8, TabTypes DEF Sound, Entries
<1>. HIDE DEF e
<1>10. /\ Entry(k, v)' = e
       /\ \A q \in Procs, w \in Pages : ~(q = k /\ w = v) => Entry(q, w)' = Entry(q, w)
  BY <1>1, <1>2, <1>3, EntryWritten
<1>11. tab' \in [All -> [TabIndex -> Entries]]
  <2>1. PAGEDIRIDX(v) \in DirIndex /\ PAGETABIDX(v) \in TabIndex
    BY <1>3, PageIndex
  <2>2. dir[k][PAGEDIRIDX(v)] \in All
    BY <1>2, <1>3, <2>1, TablesDiffer
  <2>. QED  BY <1>1, <1>9, <2>1, <2>2, EntriesTypes
<1>12. PICK x \in Places : x = PageOf(k, v)
  BY <1>2, <1>3, PlacesIn
<1>13. Elsewhere(Names, Names', {x})
  <2>1. \A q \in Procs : Frame(Held(q)') = Frame(Held(q))
    BY <1>6, <1>7 DEF Held
  <2>2. PICK X : X = {x}
    OBVIOUS
  <2>3. ASSUME NEW q \in Procs, NEW w \in Pages, PageOf(q, w) \notin X
        PROVE  PageFrame(q, w)' = PageFrame(q, w)
    <3>1. Entry(q, w)' = Entry(q, w)
      BY <1>10, <1>12, <2>2, <2>3
    <3>. QED  BY <1>1, <1>5, <1>6, <3>1 DEF PageFrame
  <2>. QED  BY <1>1, <2>1, <2>2, <2>3, NamesElsewhere
<1>14. Names[x] = Absent /\ Names'[x] = f
  <2>1. PageFrame(k, v) = Absent /\ PageFrame(k, v)' = f
    BY <1>2, <1>4, <1>6, <1>9, <1>10, Distinct DEF PageFrame
  <2>. QED  BY <1>2, <1>3, <1>8, <1>12, <2>1, NamesAt, NamesNext DEF Frame
<1>15. Own(Names', free', lost')
  BY <1>1, <1>13, <1>14, AcquireOwn
<1>16. PagingTypes'
  BY <1>1, <1>5, <1>11 DEF Sound, PagingTypes
<1>17. SpaceOf(p)'
  <2>1. Copying(p, k)'
    <3>1. ASSUME NEW w \in Pages, w >= v + 1, dir[k][PAGEDIRIDX(w)] # Absent, Entry(p, w)' # Zero
          PROVE  Entry(k, w)' = Zero
      <4>1. w \in Nat /\ w # v /\ w >= call[p].va
        BY <1>1, <1>3, <3>1, PageIndex, CallFacts DEF Sound
      <4>2. Entry(p, w)' = Entry(p, w) /\ Entry(k, w)' = Entry(k, w)
        BY <1>2, <1>10, <4>1
      <4>. QED  BY <1>2, <3>1, <4>1, <4>2 DEF Copying
    <3>. QED  BY <1>1, <1>2, <1>5, <1>6, <3>1 DEF Copying
  <2>. QED  BY <1>1, <1>2, <1>5, <1>6, <2>1 DEF SpaceOf
<1>18. SpaceOf(k)' /\ ~Forking(k)'
  BY <1>2, <1>6 DEF SpaceOf, Forking
<1>19. \A q \in Procs : q \notin {p, k} => Untouched(q)
  BY <1>1, <1>6, <1>10 DEF Untouched
<1>20. Forking(p) /\ (Forking(p)' => call'[p].kid = k)
  BY <1>1, <1>5, <1>6 DEF Forking
<1>. QED  BY <1>0, <1>2, <1>15, <1>16, <1>17, <1>18, <1>19, <1>20, ParentStep

LEMMA PageAfter ==
  ASSUME NEW w \in Pages, NEW i \in DirIndex, w >= i * Tabs
  PROVE  PAGEDIRIDX(w) >= i
<1>1. PICK m \in Nat, n \in Nat, t \in Nat, j \in Nat :
        m = PAGEDIRIDX(w) /\ n = PAGETABIDX(w) /\ t = Tabs /\ j = i /\ n < t /\ w = t * m + n
  BY PageIndex, PagingAssumption DEF DirIndex, TabIndex
<1>2. w >= j * t
  BY <1>1
<1>. SUFFICES ASSUME m + 1 <= j PROVE FALSE
  BY <1>1
<1>3. t * (m + 1) <= t * j
  BY <1>1
<1>. QED  BY <1>1, <1>2, <1>3

LEMMA CloneTableInv ==
  ASSUME Sound, NEW p \in Procs, NEW f, CloneTable(p, f)
  PROVE  Sound'
<1>0. PICK k, i : k = call[p].kid /\ i = Min(TablesLeft(p))
  OBVIOUS
<1>. DEFINE c == [call[p] EXCEPT !.va = i * Tabs]
<1>1. /\ call[p].at = "clone" /\ TablesLeft(p) # {} /\ call' = [call EXCEPT ![p] = c]
      /\ f \in free /\ free' = free \ {f} /\ dir' = [dir EXCEPT ![k][i] = f]
      /\ directory' = directory /\ endpoint' = endpoint /\ outside' = outside /\ lost' = lost
  BY <1>0 DEF CloneTable, At, Goto, Acquires, history
<1>2. PICK held \in [TabIndex -> Garbage] :
        /\ \A j \in TabIndex : tab[dir[p][i]][j] # Zero => held[j] = Zero
        /\ tab' = [tab EXCEPT ![f] = held]
  BY <1>0 DEF CloneTable, TabIndex
<1>3. /\ k \in Procs /\ call[k].at = "booked" /\ p # k /\ directory[k] # Absent /\ directory[p] # Absent
      /\ Copying(p, k)
  BY <1>0, <1>1, CallFacts DEF Sound, SpaceOf
<1>4. /\ i \in DirIndex /\ dir[p][i] # Absent /\ dir[k][i] = Absent
      /\ \A j \in DirIndex : j < i /\ dir[p][j] # Absent => dir[k][j] # Absent
  <2>1. TablesLeft(p) \in SUBSET Nat
    BY DEF TablesLeft
  <2>2. i \in TablesLeft(p) /\ \A j \in TablesLeft(p) : i <= j
    BY <1>0, <1>1, <2>1, MinIsIn
  <2>3. TablesLeft(p) = {j \in DirIndex : dir[p][j] # Absent /\ dir[k][j] = Absent}
    BY <1>0 DEF TablesLeft, DirIndex
  <2>. QED  BY <2>2, <2>3 DEF DirIndex
<1>5. c \in Calls /\ c.at = "clone" /\ c.kid = k /\ c.va = i * Tabs /\ "page" \notin DOMAIN c
  <2>1. call[p] \in [at : {"clone"}, kid : Procs, va : Nat]
    BY <1>1, CloneCall DEF Sound
  <2>2. i * Tabs \in Nat
    BY <1>4, PagingAssumption DEF DirIndex
  <2>3. c \in [at : {"clone"}, kid : Procs, va : Nat] /\ c.kid = k /\ c.va = i * Tabs
    BY <1>0, <2>1, <2>2
  <2>. HIDE DEF c
  <2>. QED  BY <2>3 DEF Calls
<1>. HIDE DEF c
<1>6. call'[p] = c /\ \A q \in Procs : q # p => call'[q] = call[q]
  BY <1>1 DEF Sound, PagingTypes
<1>7. Held(p) = Absent /\ Held(p)' = Absent
  BY <1>1, <1>5, <1>6, CallFacts DEF Sound, Held
<1>8. f \in All /\ f # Absent
  BY <1>1, Distinct DEF Sound, PagingTypes
<1>9. held \in [TabIndex -> Entries] /\ \A j \in TabIndex : held[j][1] \notin All
  <2>1. ASSUME NEW g \in Garbage PROVE g \in Entries /\ g[1] \notin All
    <3>1. CASE g = Zero
      BY <3>1, Distinct DEF Entries
    <3>2. ASSUME NEW b \in BOOLEAN, g = <<Junk, b>> PROVE g \in Entries /\ g[1] \notin All
      BY <3>2, Distinct DEF Entries
    <3>. QED  BY <3>1, <3>2 DEF Garbage
  <2>. QED  BY <2>1
<1>10. /\ \A w \in Pages : PAGEDIRIDX(w) = i => Entry(k, w) = Zero /\ Entry(k, w)' = held[PAGETABIDX(w)]
       /\ \A q \in Procs, w \in Pages : ~(q = k /\ PAGEDIRIDX(w) = i) => Entry(q, w)' = Entry(q, w)
  BY <1>1, <1>2, <1>3, <1>4, TableAdded
<1>11. /\ dir' \in [Procs -> [DirIndex -> All \cup {Absent}]] /\ tab' \in [All -> [TabIndex -> Entries]]
       /\ dir'[k][i] = f /\ \A q \in Procs, j \in DirIndex : ~(q = k /\ j = i) => dir'[q][j] = dir[q][j]
       /\ \A q \in Procs : q # k => dir'[q] = dir[q]
  <2>1. dir \in [Procs -> [DirIndex -> All \cup {Absent}]] /\ tab \in [All -> [TabIndex -> Entries]]
    BY DEF Sound, PagingTypes
  <2>2. tab' \in [All -> [TabIndex -> Entries]]
    BY <1>2, <1>8, <1>9, <2>1
  <2>. QED  BY <1>1, <1>3, <1>4, <1>8, <2>1, <2>2
<1>12. PICK x \in Places : x = TableOf(k, i)
  BY <1>3, <1>4, PlacesIn
<1>13. Elsewhere(Names, Names', {x})
  <2>1. \A q \in Procs : Frame(Held(q)') = Frame(Held(q))
    BY <1>6, <1>7 DEF Held
  <2>2. PICK X : X = {x}
    OBVIOUS
  <2>3. ASSUME NEW q \in Procs, NEW w \in Pages
        PROVE  Frame(PageFrame(q, w)') = Frame(PageFrame(q, w))
    <3>1. CASE q = k /\ PAGEDIRIDX(w) = i
      <4>1. PageFrame(q, w) = Absent /\ PageFrame(q, w)' = held[PAGETABIDX(w)][1]
        BY <1>3, <1>6, <1>10, <3>1, Distinct DEF PageFrame
      <4>. QED  BY <1>9, <4>1, PageIndex DEF Frame
    <3>2. CASE ~(q = k /\ PAGEDIRIDX(w) = i)
      <4>1. Entry(q, w)' = Entry(q, w)
        BY <1>10, <3>2
      <4>. QED  BY <1>1, <1>5, <1>6, <4>1 DEF PageFrame
    <3>. QED  BY <3>1, <3>2
  <2>4. \A q \in Procs, j \in DirIndex : TableOf(q, j) \notin X => dir'[q][j] = dir[q][j]
    BY <1>11, <1>12, <2>2
  <2>. QED  BY <1>1, <2>1, <2>2, <2>3, <2>4, NamesElsewhere
<1>14. Names[x] = Absent /\ Names'[x] = f
  BY <1>3, <1>4, <1>8, <1>11, <1>12, NamesAt, NamesNext DEF Frame
<1>15. Own(Names', free', lost')
  BY <1>1, <1>13, <1>14, AcquireOwn
<1>16. PagingTypes'
  BY <1>1, <1>5, <1>11 DEF Sound, PagingTypes
<1>17. SpaceOf(p)'
  <2>1. Copying(p, k)'
    <3>1. ASSUME NEW w \in Pages, w >= i * Tabs, dir'[k][PAGEDIRIDX(w)] # Absent, Entry(p, w)' # Zero
          PROVE  Entry(k, w)' = Zero
      <4>0. PICK m \in DirIndex : m = PAGEDIRIDX(w)
        BY PageIndex
      <4>1. Entry(p, w)' = Entry(p, w)
        BY <1>3, <1>10
      <4>2. CASE m = i
        <5>1. tab[dir[p][i]][PAGETABIDX(w)] # Zero
          BY <1>4, <3>1, <4>0, <4>1, <4>2 DEF Entry
        <5>. QED  BY <1>2, <1>10, <4>0, <4>2, <5>1, PageIndex
      <4>3. CASE m # i
        <5>1. m > i
          BY <1>4, <3>1, <4>0, <4>3, PageAfter DEF DirIndex
        <5>2. dir[k][m] # Absent
          BY <1>3, <1>11, <3>1, <4>0, <4>3
        <5>. QED  BY <1>3, <1>4, <4>0, <5>1, <5>2 DEF Copying
      <4>. QED  BY <4>2, <4>3
    <3>2. ASSUME NEW m \in DirIndex, NEW j \in DirIndex, j < m, dir'[k][m] # Absent, dir'[p][j] # Absent
          PROVE  dir'[k][j] # Absent
      <4>1. dir'[p][j] = dir[p][j]
        BY <1>3, <1>11
      <4>2. CASE j = i
        BY <1>8, <1>11, <4>2
      <4>3. CASE j # i /\ m = i
        BY <1>3, <1>4, <1>11, <3>2, <4>1, <4>3
      <4>4. CASE j # i /\ m # i
        BY <1>3, <1>11, <3>2, <4>1, <4>4 DEF Copying
      <4>. QED  BY <4>2, <4>3, <4>4
    <3>. QED  BY <1>5, <1>6, <3>1, <3>2 DEF Copying
  <2>. QED  BY <1>1, <1>3, <1>5, <1>6, <2>1 DEF SpaceOf
<1>18. SpaceOf(k)' /\ ~Forking(k)'
  BY <1>3, <1>6 DEF SpaceOf, Forking
<1>19. \A q \in Procs : q \notin {p, k} => Untouched(q)
  BY <1>1, <1>6, <1>10, <1>11 DEF Untouched
<1>20. Forking(p) /\ (Forking(p)' => call'[p].kid = k)
  BY <1>1, <1>5, <1>6 DEF Forking
<1>. QED  BY <1>0, <1>3, <1>15, <1>16, <1>17, <1>18, <1>19, <1>20, ParentStep

LEMMA ForkDoneInv ==
  ASSUME Sound, NEW p \in Procs, ForkDone(p)
  PROVE  Sound'
<1>0. PICK k : k = call[p].kid
  OBVIOUS
<1>1. /\ call[p].at = "clone" /\ call' = [call EXCEPT ![p] = InUser, ![k] = InUser]
      /\ endpoint' = [endpoint EXCEPT ![k] = endpoint[p]] /\ outside' = [outside EXCEPT ![k] = outside[p]]
      /\ directory' = directory /\ dir' = dir /\ tab' = tab /\ lost' = lost /\ free' = free
  BY <1>0 DEF ForkDone, At, spaces
<1>2. k \in Procs /\ call[k].at = "booked" /\ p # k /\ directory[k] # Absent /\ directory[p] # Absent
  BY <1>0, <1>1, CallFacts DEF Sound, SpaceOf
<1>3. InUser \in Calls /\ InUser.at = "user" /\ "page" \notin DOMAIN InUser
  BY DEF Calls, InUser
<1>4. /\ call'[p] = InUser /\ call'[k] = InUser
      /\ \A q \in Procs : q \notin {p, k} => call'[q] = call[q]
  BY <1>1, <1>2 DEF Sound, PagingTypes
<1>5. Held(p) = Absent /\ Held(p)' = Absent /\ Held(k) = Absent /\ Held(k)' = Absent
  BY <1>1, <1>2, <1>3, <1>4, CallFacts DEF Sound, Held
<1>6. \A q \in Procs, v \in Pages : Entry(q, v)' = Entry(q, v)
  BY <1>1, SameEntries
<1>7. Elsewhere(Names, Names', {})
  <2>1. \A q \in Procs : Frame(Held(q)') = Frame(Held(q))
    BY <1>4, <1>5 DEF Held
  <2>2. \A q \in Procs, v \in Pages : PageFrame(q, v)' = PageFrame(q, v)
    BY <1>1, <1>2, <1>3, <1>4, <1>6 DEF PageFrame
  <2>. QED  BY <1>1, <2>1, <2>2, NamesElsewhere
<1>8. Own(Names', free', lost')
  BY <1>1, <1>7, OwnSame DEF Sound
<1>9. PagingTypes'
  BY <1>1, <1>2, <1>3 DEF Sound, PagingTypes
<1>10. SpaceOf(p)' /\ SpaceOf(k)' /\ ~Forking(p)' /\ ~Forking(k)'
  BY <1>1, <1>2, <1>3, <1>4 DEF SpaceOf, Forking
<1>11. \A q \in Procs : q \notin {p, k} => Untouched(q)
  BY <1>1, <1>4, <1>6 DEF Untouched
<1>12. Forking(p)
  BY <1>1 DEF Forking
<1>. QED  BY <1>0, <1>2, <1>8, <1>9, <1>10, <1>11, <1>12, ParentStep

LEMMA SetPresentInv ==
  ASSUME Sound, NEW p \in Procs, NEW v \in Pages, NEW present \in BOOLEAN, SetPresent(p, v, present)
  PROVE  Sound'
<1>. DEFINE t == dir[p][PAGEDIRIDX(v)]
            j == PAGETABIDX(v)
            e == <<Entry(p, v)[1], present>>
<1>1. /\ call[p].at = "user" /\ Entry(p, v) # Zero
      /\ tab' = [tab EXCEPT ![t][j][2] = present]
      /\ directory' = directory /\ dir' = dir /\ endpoint' = endpoint /\ call' = call
      /\ outside' = outside /\ lost' = lost /\ free' = free
  BY DEF SetPresent, Call, At, Paging_IsPageMapped, history
<1>2. t # Absent /\ Entry(p, v) = tab[t][j]
  BY <1>1 DEF Entry
<1>3. PAGEDIRIDX(v) \in DirIndex /\ j \in TabIndex
  BY PageIndex
<1>4. t \in All
  BY <1>2, <1>3, TablesDiffer
<1>5. /\ Entry(p, v) \in (All \cup {Junk}) \X BOOLEAN
      /\ e \in Entries /\ [Entry(p, v) EXCEPT ![2] = present] = e
  <2>1. Entry(p, v) \in (All \cup {Junk}) \X BOOLEAN
    BY <1>1, TabTypes DEF Sound, Entries
  <2>. QED  BY <2>1 DEF Entries
<1>6. tab' = [tab EXCEPT ![t][j] = e]
  BY <1>1, <1>2, <1>5
<1>7. tab' \in [All -> [TabIndex -> Entries]]
  BY <1>3, <1>4, <1>5, <1>6 DEF Sound, PagingTypes
<1>8. /\ Entry(p, v)' = e
      /\ \A q \in Procs, w \in Pages : ~(q = p /\ w = v) => Entry(q, w)' = Entry(q, w)
  <2>1. PICK d : d = e
    OBVIOUS
  <2>. HIDE DEF e
  <2>2. dir[p][PAGEDIRIDX(v)] # Absent /\ dir' = dir /\ tab' = [tab EXCEPT ![dir[p][PAGEDIRIDX(v)]][PAGETABIDX(v)] = d]
    BY <1>1, <1>2, <1>6, <2>1
  <2>3. /\ Entry(p, v)' = d
        /\ \A q \in Procs, w \in Pages : ~(q = p /\ w = v) => Entry(q, w)' = Entry(q, w)
    BY <2>2, EntryWritten
  <2>. QED  BY <2>1, <2>3
<1>9. Elsewhere(Names, Names', {})
  <2>1. \A q \in Procs : Frame(Held(q)') = Frame(Held(q))
    BY <1>1 DEF Held
  <2>2. ASSUME NEW q \in Procs, NEW w \in Pages
        PROVE  PageFrame(q, w)' = PageFrame(q, w)
    <3>1. Entry(q, w)'[1] = Entry(q, w)[1]
      BY <1>8
    <3>. QED  BY <1>1, <3>1 DEF PageFrame
  <2>. QED  BY <1>1, <2>1, <2>2, NamesElsewhere
<1>10. Own(Names', free', lost')
  BY <1>1, <1>9, OwnSame DEF Sound
<1>11. PagingTypes'
  BY <1>1, <1>7 DEF Sound, PagingTypes
<1>12. SpaceOf(p)' /\ ~Forking(p)'
  BY <1>1 DEF Sound, SpaceOf, Forking
<1>13. \A q \in Procs : q # p => Untouched(q)
  BY <1>1, <1>8 DEF Untouched
<1>. QED  BY <1>1, <1>10, <1>11, <1>12, <1>13, LocalStep

-----------------------------------------------------------------------------
(* The theorems.                                                           *)

(* The frames of the first process's directory, page table and page.       *)
LEMMA InitFrames ==
  ASSUME Init
  PROVE  \E d, t, g :
        /\ d \in Frames /\ t \in Frames /\ g \in Frames /\ d # t /\ d # g /\ t # g
        /\ directory = [p \in Procs |-> IF p = First THEN d ELSE Absent]
        /\ dir = [p \in Procs |-> [i \in DirIndex |-> IF p = First /\ i = 0 THEN t ELSE Absent]]
        /\ tab = [f \in All |-> IF f = t THEN [FreshTable EXCEPT ![0] = <<g, TRUE>>] ELSE FreshTable]
        /\ free = Frames \ {d, t, g}
<1>. DEFINE d == Min(Frames)
            t == Min(Frames \ {d})
            g == Min(Frames \ {d, t})
<1>1. d \in Frames
  BY PagingAssumption, MinIsIn
<1>2. t \in Frames \ {d}
  <2>. HIDE DEF d
  <2>1. Frames \ {d} # {} /\ Frames \ {d} \in SUBSET Nat
    BY <1>1, PagingAssumption
  <2>. QED  BY <2>1, MinIsIn
<1>3. g \in Frames \ {d, t}
  <2>. HIDE DEF d, t
  <2>1. Frames \ {d, t} # {} /\ Frames \ {d, t} \in SUBSET Nat
    BY <1>1, <1>2, PagingAssumption
  <2>. QED  BY <2>1, MinIsIn
<1>4. /\ directory = [p \in Procs |-> IF p = First THEN d ELSE Absent]
      /\ dir = [p \in Procs |-> [i \in DirIndex |-> IF p = First /\ i = 0 THEN t ELSE Absent]]
      /\ tab = [f \in All |-> IF f = t THEN [FreshTable EXCEPT ![0] = <<g, TRUE>>] ELSE FreshTable]
      /\ free = Frames \ {d, t, g}
  BY DEF Init, DirIndex, All
<1>. HIDE DEF d, t, g
<1>. QED  BY <1>1, <1>2, <1>3, <1>4

LEMMA PagingInit == Init => PagingInv
<1>. SUFFICES ASSUME Init PROVE Sound /\ wild = "no"
  BY DEF PagingInv
<1>1. PICK d, t, g :
        /\ d \in Frames /\ t \in Frames /\ g \in Frames /\ d # t /\ d # g /\ t # g
        /\ directory = [p \in Procs |-> IF p = First THEN d ELSE Absent]
        /\ dir = [p \in Procs |-> [i \in DirIndex |-> IF p = First /\ i = 0 THEN t ELSE Absent]]
        /\ tab = [f \in All |-> IF f = t THEN [FreshTable EXCEPT ![0] = <<g, TRUE>>] ELSE FreshTable]
        /\ free = Frames \ {d, t, g}
  BY InitFrames
<1>2. /\ First \in Procs /\ 0 \in DirIndex /\ 0 \in TabIndex /\ 0 \in Pages
      /\ PAGEDIRIDX(0) = 0 /\ PAGETABIDX(0) = 0
  <2>1. First \in Procs /\ 0 \in DirIndex /\ 0 \in TabIndex
    BY PagingAssumption DEF DirIndex, TabIndex
  <2>2. Tabs \in Nat /\ Tabs * 0 + 0 = 0
    BY PagingAssumption
  <2>. QED  BY <2>1, <2>2, PageOfIndex
<1>3. /\ endpoint \in [Procs -> Nat] /\ outside = [p \in Procs |-> FALSE] /\ lost = {} /\ wild = "no"
      /\ call = [p \in Procs |-> IF p = First THEN InUser ELSE [at |-> "none"]]
  <2>1. endpoint = [p \in Procs |-> IF p = First THEN PageSize ELSE 0] /\ PageSize \in Nat
    BY PagingAssumption DEF Init
  <2>. QED  BY <2>1 DEF Init
<1>4. \A p \in Procs : /\ call[p].at = (IF p = First THEN "user" ELSE "none")
                       /\ call[p] \in Calls /\ "page" \notin DOMAIN call[p]
  BY <1>3 DEF InUser, Calls
<1>5. [FreshTable EXCEPT ![0] = <<g, TRUE>>] \in [TabIndex -> Entries] /\ FreshTable \in [TabIndex -> Entries]
  <2>1. <<g, TRUE>> \in Entries /\ Zero \in Entries
    BY <1>1 DEF Entries, All
  <2>2. FreshTable \in [TabIndex -> Entries]
    BY <2>1 DEF FreshTable, TabIndex
  <2>. QED  BY <2>1, <2>2
<1>6. PagingTypes
  <2>1. directory \in [Procs -> All \cup {Absent}] /\ dir \in [Procs -> [DirIndex -> All \cup {Absent}]]
    BY <1>1 DEF All
  <2>2. tab \in [All -> [TabIndex -> Entries]]
    <3>1. PICK T \in [TabIndex -> Entries] : T = [FreshTable EXCEPT ![0] = <<g, TRUE>>]
      BY <1>5
    <3>2. tab = [f \in All |-> IF f = t THEN T ELSE FreshTable]
      BY <1>1, <3>1
    <3>. QED  BY <1>5, <3>2
  <2>3. call \in [Procs -> Calls]
    <3>1. DOMAIN call = Procs /\ call = [p \in Procs |-> call[p]]
      BY <1>3
    <3>. QED  BY <1>4, <3>1
  <2>4. free \subseteq All /\ lost \subseteq Frames /\ outside \in [Procs -> BOOLEAN]
    BY <1>1, <1>3 DEF All
  <2>. QED  BY <1>3, <2>1, <2>2, <2>3, <2>4 DEF PagingTypes
<1>7. t # Absent /\ {d, t, g} \subseteq All
  BY <1>1, Distinct DEF All
<1>8. ASSUME NEW p \in Procs, NEW v \in Pages
      PROVE  Entry(p, v) = IF p = First /\ v = 0 THEN <<g, TRUE>> ELSE Zero
  <2>1. PICK i \in DirIndex, j \in TabIndex : i = PAGEDIRIDX(v) /\ j = PAGETABIDX(v)
    BY PageIndex
  <2>2. dir[p][i] = IF p = First /\ i = 0 THEN t ELSE Absent
    BY <1>1
  <2>3. CASE ~(p = First /\ i = 0)
    BY <1>2, <2>1, <2>2, <2>3 DEF Entry
  <2>4. CASE p = First /\ i = 0
    <3>1. Entry(p, v) = tab[t][j]
      BY <1>7, <2>1, <2>2, <2>4 DEF Entry
    <3>2. tab[t] = [FreshTable EXCEPT ![0] = <<g, TRUE>>]
      BY <1>1, <1>7
    <3>3. tab[t][j] = IF j = 0 THEN <<g, TRUE>> ELSE Zero
      BY <3>2 DEF FreshTable, TabIndex
    <3>4. j = 0 <=> v = 0
      BY <1>2, <2>1, <2>4, SamePage
    <3>. QED  BY <2>4, <3>1, <3>3, <3>4
  <2>. QED  BY <2>3, <2>4
<1>9. /\ Names[DirectoryOf(First)] = d /\ Names[TableOf(First, 0)] = t /\ Names[PageOf(First, 0)] = g
      /\ \A x \in Places : x \notin {DirectoryOf(First), TableOf(First, 0), PageOf(First, 0)} => Names[x] = Absent
  <2>1. \A p \in Procs : Held(p) = Absent
    BY <1>4 DEF Held
  <2>2. \A p \in Procs, v \in Pages : PageFrame(p, v) = IF p = First /\ v = 0 THEN g ELSE Absent
    <3>. TAKE p \in Procs, v \in Pages
    <3>1. call[p].at # "clear"
      BY <1>4
    <3>2. PICK e : e = Entry(p, v)
      OBVIOUS
    <3>3. PageFrame(p, v) = e[1]
      BY <3>1, <3>2 DEF PageFrame
    <3>4. e = IF p = First /\ v = 0 THEN <<g, TRUE>> ELSE Zero
      BY <1>8, <3>2
    <3>. QED  BY <3>3, <3>4, Distinct
  <2>3. \A p \in Procs : directory[p] = IF p = First THEN d ELSE Absent
    BY <1>1
  <2>4. \A p \in Procs, i \in DirIndex : dir[p][i] = IF p = First /\ i = 0 THEN t ELSE Absent
    BY <1>1
  <2>5. Names[DirectoryOf(First)] = d /\ Names[TableOf(First, 0)] = t /\ Names[PageOf(First, 0)] = g
    BY <1>2, <1>7, <2>2, <2>3, <2>4, NamesAt DEF Frame
  <2>6. ASSUME NEW x \in Places, x \notin {DirectoryOf(First), TableOf(First, 0), PageOf(First, 0)}
        PROVE  Names[x] = Absent
    <3>1. CASE \E q \in Procs : x = DirectoryOf(q) \/ x = CallOf(q)
      BY <2>1, <2>3, <2>6, <3>1, NamesAt, Distinct DEF Frame
    <3>2. CASE \E q \in Procs, i \in DirIndex : x = TableOf(q, i)
      BY <2>4, <2>6, <3>2, NamesAt, Distinct DEF Frame
    <3>3. CASE \E q \in Procs, v \in Pages : x = PageOf(q, v)
      BY <2>2, <2>6, <3>3, NamesAt, Distinct DEF Frame
    <3>. QED  BY <3>1, <3>2, <3>3, PlaceCases
  <2>. QED  BY <2>5, <2>6
<1>10. Own(Names, free, lost)
  <2>1. DirectoryOf(First) \in Places /\ TableOf(First, 0) \in Places /\ PageOf(First, 0) \in Places
    BY <1>2, PlacesIn
  <2>2. PICK N, x, y, z : N = Names /\ x = DirectoryOf(First) /\ y = TableOf(First, 0) /\ z = PageOf(First, 0)
    OBVIOUS
  <2>3. /\ N[x] = d /\ N[y] = t /\ N[z] = g /\ x \in Places /\ y \in Places /\ z \in Places
        /\ \A w \in Places : w \notin {x, y, z} => N[w] = Absent
    BY <1>9, <2>1, <2>2
  <2>4. Own(N, Frames \ {d, t, g}, {})
    BY ONLY <1>1, <1>7, <2>3, Distinct DEF Own, All
  <2>. QED  BY <1>1, <1>3, <2>2, <2>4
<1>11. \A p \in Procs : SpaceOf(p)
  BY <1>1, <1>4, <1>7, Distinct DEF SpaceOf, Empty, All
<1>12. OneParent
  BY <1>4 DEF OneParent, Forking
<1>. QED  BY <1>3, <1>6, <1>10, <1>11, <1>12 DEF Sound

(* One case for every action.                                              *)
LEMMA PagingStep == PagingInv /\ [Next]_vars => PagingInv'
<1>. SUFFICES ASSUME PagingInv, [Next]_vars PROVE PagingInv'
  OBVIOUS
<1>1. CASE UNCHANGED vars
  <2>1. wild' = wild /\ (Sound => Sound')
    <3>1. UNCHANGED <<directory, dir, tab, endpoint, call, free, wild, outside, lost>>
      BY <1>1 DEF vars, spaces, history
    <3>2. Names' = Names
      BY <3>1 DEF Names, FrameAt, Entry
    <3>. QED
      BY <3>1, <3>2 DEF Sound, PagingTypes, SpaceOf, Empty, Copying, Entry, OneParent, Forking
  <2>. QED  BY <2>1 DEF PagingInv
<1>2. ASSUME NEW p \in Procs, ShiftStep(p) PROVE PagingInv'
  <2>0. Sound /\ wild = "no"
    BY <1>2 DEF PagingInv, ShiftStep, Grow, Shrink, Enter, Call, MapAcquire, MapTable, MapOutOfMemory,
                MapTableOutOfMemory, Paging_MapPage, MapRefused, MapKernel, UnmapRelease, UnmapClear, UnmapDone, At
  <2>1. ASSUME NEW shift \in Shifts, Grow(p, shift) \/ Shrink(p, shift) PROVE PagingInv'
    BY <2>0, <2>1, GrowInv, ShrinkInv DEF PagingInv, Grow, Shrink
  <2>2. ASSUME NEW f \in Offered(free), MapAcquire(p, f) \/ MapTable(p, f) PROVE PagingInv'
    BY <2>0, <2>2, MapAcquireInv, MapTableInv DEF PagingInv, MapAcquire, MapTable, Acquires
  <2>3. CASE MapOutOfMemory(p)
    BY <2>0, <2>3, MapOutOfMemoryInv DEF PagingInv, MapOutOfMemory, OutOfMemory
  <2>4. CASE MapTableOutOfMemory(p)
    BY <2>0, <2>4, MapTableOutOfMemoryInv DEF PagingInv, MapTableOutOfMemory, OutOfMemory
  <2>5. CASE Paging_MapPage(p)
    BY <2>0, <2>5, Paging_MapPageInv DEF PagingInv, Paging_MapPage
  <2>6. CASE MapRefused(p)
    BY <2>0, <2>6, MapRefusedInv DEF PagingInv
  <2>7. CASE MapKernel(p)
    BY <2>0, <2>7 DEF PagingInv, MapKernel
  <2>8. CASE UnmapRelease(p)
    BY <2>0, <2>8, UnmapReleaseInv DEF PagingInv
  <2>9. CASE UnmapClear(p)
    BY <2>0, <2>9, UnmapClearInv DEF PagingInv, UnmapClear
  <2>10. CASE UnmapDone(p)
    BY <2>0, <2>10, UnmapDoneInv DEF PagingInv, UnmapDone
  <2>. QED
    BY <1>2, <2>1, <2>2, <2>3, <2>4, <2>5, <2>6, <2>7, <2>8, <2>9, <2>10 DEF ShiftStep
<1>3. ASSUME NEW p \in Procs, TerminateStep(p) PROVE PagingInv'
  <2>0. Sound /\ wild = "no"
    BY <1>3 DEF PagingInv, TerminateStep, Process_Terminate, Enter, Call, TerminateTable, TerminateDirectory, At
  <2>1. CASE Process_Terminate(p)
    BY <2>0, <2>1, Process_TerminateInv DEF PagingInv, Process_Terminate
  <2>2. CASE TerminateTable(p)
    BY <2>0, <2>2, TerminateTableInv DEF PagingInv
  <2>3. CASE TerminateDirectory(p)
    BY <2>0, <2>3, TerminateDirectoryInv DEF PagingInv
  <2>. QED  BY <1>3, <2>1, <2>2, <2>3 DEF TerminateStep
<1>4. ASSUME NEW p \in Procs, ForkStep(p) PROVE PagingInv'
  <2>0. Sound /\ wild = "no"
    BY <1>4 DEF PagingInv, ForkStep, Fork, Call, Paging_Initialize, ClonePage, CloneTable, ForkOutOfMemory, ForkDone, At
  <2>1. ASSUME NEW k \in Procs, Fork(p, k) PROVE PagingInv'
    BY <2>0, <2>1, ForkInv DEF PagingInv, Fork
  <2>2. ASSUME NEW f \in Offered(free), Paging_Initialize(p, f) PROVE PagingInv'
    BY <2>0, <2>2, Paging_InitializeInv DEF PagingInv, Paging_Initialize, Acquires
  <2>3. ASSUME NEW f \in Offered(free), ClonePage(p, f) PROVE PagingInv'
    BY <2>0, <2>3, ClonePageInv DEF PagingInv, ClonePage, Acquires
  <2>4. ASSUME NEW f \in Offered(free), CloneTable(p, f) PROVE PagingInv'
    BY <2>0, <2>4, CloneTableInv DEF PagingInv, CloneTable, Acquires
  <2>5. CASE ForkOutOfMemory(p)
    BY <2>0, <2>5, ForkOutOfMemoryInv DEF PagingInv, ForkOutOfMemory, OutOfMemory
  <2>6. CASE ForkDone(p)
    BY <2>0, <2>6, ForkDoneInv DEF PagingInv, ForkDone
  <2>. QED  BY <1>4, <2>1, <2>2, <2>3, <2>4, <2>5, <2>6 DEF ForkStep
<1>5. ASSUME NEW p \in Procs, NEW v \in Pages, NEW present \in BOOLEAN, SetPresent(p, v, present) PROVE PagingInv'
  <2>0. Sound /\ wild = "no" /\ wild' = wild
    BY <1>5 DEF PagingInv, SetPresent, Call, At
  <2>. QED  BY <1>5, <2>0, SetPresentInv DEF PagingInv
<1>. QED  BY <1>1, <1>2, <1>3, <1>4, <1>5 DEF Next

(* What every reachable state of the address spaces satisfies: no frame is *)
(* released twice, and while nothing else has gone wrong, types, ownership *)
(* and the half-made spaces of forks and exits are as the code needs them. *)
THEOREM PagingInvariance == Spec => []PagingInv
BY PagingInit, PagingStep, PTL DEF Spec

(* No frame serves two address spaces or two purposes in one, none is      *)
(* released twice, and none leaks, for any number of processes, frames,    *)
(* page tables and calls that interleave.                                  *)
THEOREM FramesAreOwned == Spec => []FrameOwnership
<1>1. PagingInv => FrameOwnership
  <2>. SUFFICES ASSUME PagingInv, wild = "no", NEW f \in Frames
                PROVE  LET named == Cardinality({pl \in Places : FrameAt(pl) = f}) IN
                       IF f \in free \cup lost THEN named = 0 ELSE named = 1
    BY DEF FrameOwnership, PagingInv
  <2>. DEFINE S == {pl \in Places : FrameAt(pl) = f}
  <2>1. f \in All /\ Sound
    BY DEF PagingInv, All
  <2>2. \A x \in Places : FrameAt(x) = f <=> Names[x] = f
    BY <2>1, Distinct DEF Names, Frame
  <2>3. CASE f \in free \cup lost
    <3>1. S = {}
      BY <2>1, <2>2, <2>3 DEF Sound, Own
    <3>. QED  BY <2>3, <3>1, FS_EmptySet
  <2>4. CASE f \notin free \cup lost
    <3>1. PICK x \in Places : Names[x] = f
      BY <2>1, <2>4 DEF Sound, Own
    <3>2. S = {x}
      BY <2>1, <2>2, <3>1 DEF Sound, Own
    <3>. QED  BY <2>4, <3>2, FS_Singleton
  <2>. QED  BY <2>3, <2>4
<1>. QED  BY <1>1, PagingInvariance, PTL

-----------------------------------------------------------------------------
(* The heaps.  While the end point has not left the user half, every page  *)
(* below it has an entry; Paging_MapPages has entered the pages before the *)
(* one it is at, Paging_UnmapPages touches no page below the new end       *)
(* point, and Paging_Clone has copied every page it has passed.            *)
Upto(a) == a \div PageSize     \* how many whole pages lie below an address

MappedTo(p, n) == \A v \in Pages : v < n => Entry(p, v) # Zero

Copied(p, k) ==
    \A v \in Pages : v < call[p].va /\ dir[k][PAGEDIRIDX(v)] # Absent /\ Entry(p, v) # Zero =>
        Entry(k, v) # Zero

Inside(p) ==
    LET c == call[p] IN
    /\ endpoint[p] <= KERNEL_MMAP_VIRTUAL_START
    /\ c.at \in {"user", "fork", "clone"} => MappedTo(p, Upto(endpoint[p]))
    /\ c.at \in {"map", "enter"} => /\ Upto(endpoint[p]) <= c.va /\ c.va <= Dirs * Tabs
                                    /\ MappedTo(p, c.va)
    /\ c.at \in {"unmap", "clear"} /\ c.new # Absent /\ c.new <= endpoint[p] =>
           Upto(c.new) <= c.va /\ MappedTo(p, Upto(c.new))

Heap(p) == /\ ~outside[p] => Inside(p)
           /\ call[p].at = "clone" => Copied(p, call[p].kid)

Heaps == \A p \in Procs : Heap(p)
HeapInv == wild = "no" => Heaps

(* Addresses up to the kernel's half do not wrap around, and are as many   *)
(* pages as they look.                                                     *)
LEMMA Below ==
  ASSUME NEW a \in Nat, a <= KERNEL_MMAP_VIRTUAL_START
  PROVE  Address(a) = a /\ Page(a) = Upto(a) /\ Upto(a) \in Nat /\ Upto(a) <= Dirs * Tabs
<1>1. PICK m \in Nat, s \in Nat, k \in Nat : m = Dirs * Tabs /\ s = PageSize /\ s > 0 /\ k = m * s /\ m > 0
  <2>1. PICK m \in Nat, s \in Nat : m = Dirs * Tabs /\ s = PageSize /\ s > 0 /\ m > 0
    BY PagingAssumption
  <2>2. m * s \in Nat
    BY <2>1
  <2>. QED  BY <2>1, <2>2
<1>2. k > 0 /\ KERNEL_MMAP_VIRTUAL_START = k
  BY <1>1 DEF KERNEL_MMAP_VIRTUAL_START
<1>3. a % (2 * k) = a
  BY <1>2
<1>4. PICK n \in Nat : n = a \div s
  BY <1>1
<1>5. s * n <= a
  BY <1>1, <1>4
<1>6. n <= m
  <2>. SUFFICES ASSUME n >= m + 1 PROVE FALSE
    BY <1>1, <1>4
  <2>1. s * n >= s * (m + 1)
    BY <1>1
  <2>. QED  BY <1>1, <1>2, <1>5, <2>1
<1>. QED  BY <1>1, <1>2, <1>3, <1>4, <1>6 DEF Address, Page, Upto

LEMMA UptoMonotonic ==
  ASSUME NEW a \in Nat, NEW b \in Nat, a <= b
  PROVE  Upto(a) \in Nat /\ Upto(b) \in Nat /\ Upto(a) <= Upto(b)
<1>1. PICK s \in Nat : s = PageSize /\ s > 0
  BY PagingAssumption
<1>2. PICK m \in Nat, n \in Nat : m = a \div s /\ n = b \div s
  BY <1>1
<1>3. s * m <= a /\ b < s * n + s
  BY <1>1, <1>2
<1>4. m <= n
  <2>. SUFFICES ASSUME m >= n + 1 PROVE FALSE
    OBVIOUS
  <2>1. s * m >= s * (n + 1)
    BY <1>1
  <2>. QED  BY <1>1, <1>3, <2>1
<1>. QED  BY <1>1, <1>2, <1>4 DEF Upto

(* The first byte of page n, up to the kernel's first page.                *)
LEMMA PageStart ==
  ASSUME NEW n \in Nat, n <= Dirs * Tabs
  PROVE  /\ n * PageSize \in Nat /\ n * PageSize <= KERNEL_MMAP_VIRTUAL_START
         /\ Upto(n * PageSize) = n /\ Page(n * PageSize) = n /\ Address(n * PageSize) = n * PageSize
<1>1. PICK m \in Nat, s \in Nat : m = Dirs * Tabs /\ s = PageSize /\ s > 0 /\ m > 0
  BY PagingAssumption
<1>2. PICK a \in Nat : a = n * s
  BY <1>1
<1>3. a <= m * s
  BY <1>1, <1>2
<1>4. a \div s = n
  BY <1>1, <1>2
<1>5. a <= KERNEL_MMAP_VIRTUAL_START /\ Upto(a) = n
  BY <1>1, <1>3, <1>4 DEF KERNEL_MMAP_VIRTUAL_START, Upto
<1>6. Address(a) = a /\ Page(a) = Upto(a)
  BY <1>5, Below
<1>. QED  BY <1>1, <1>2, <1>5, <1>6

(* Whole pages below an address.                                           *)
LEMMA WholePages ==
  ASSUME NEW v \in Pages, NEW a \in Nat, (v + 1) * PageSize <= a
  PROVE  v < Upto(a)
<1>1. v \in Nat /\ v + 1 \in Nat /\ v + 1 <= Dirs * Tabs
  BY PagingAssumption DEF Pages
<1>2. PICK n \in Nat, b \in Nat : n = v + 1 /\ b = n * PageSize /\ Upto(b) = n
  BY <1>1, PageStart
<1>3. b <= a
  BY <1>2
<1>4. Upto(b) <= Upto(a) /\ Upto(a) \in Nat
  BY <1>3, UptoMonotonic
<1>. QED  BY <1>1, <1>2, <1>4

(* Where Paging_UnmapPages starts when the end point moves to x, which     *)
(* may wrap around: at or above the new end point.                         *)
LEMMA ShrinkStart ==
  ASSUME NEW x \in Int, Address(x) <= KERNEL_MMAP_VIRTUAL_START
  PROVE  Upto(Address(x)) <= Page(x + PageSize - 1)
<1>1. PICK m \in Nat, s \in Nat, k \in Nat :
        m = Dirs * Tabs /\ s = PageSize /\ s > 0 /\ m > 0 /\ k = m * s /\ k = KERNEL_MMAP_VIRTUAL_START
  <2>1. PICK m \in Nat, s \in Nat : m = Dirs * Tabs /\ s = PageSize /\ s > 0 /\ m > 0
    BY PagingAssumption
  <2>2. m * s \in Nat
    BY <2>1
  <2>. QED  BY <2>1, <2>2 DEF KERNEL_MMAP_VIRTUAL_START
<1>2. k >= s
  BY <1>1
<1>3. PICK w \in Nat : w = 2 * k /\ w > 0
  BY <1>1, <1>2
<1>4. PICK r \in Nat, q \in Int : r = x % w /\ q = x \div w /\ x = w * q + r
  BY <1>3
<1>5. r = Address(x) /\ r <= k
  BY <1>1, <1>3, <1>4 DEF Address
<1>6. PICK y \in Nat : y = r + s - 1 /\ y < w
  BY <1>1, <1>2, <1>3, <1>5
<1>7. PICK z \in Int : z = w * q
  BY <1>3, <1>4
<1>8. x + s - 1 = z + y
  BY <1>4, <1>6, <1>7
<1>9. (z + y) % w = y
  BY <1>3, <1>6, <1>7
<1>10. Address(x + PageSize - 1) = y
  BY <1>1, <1>3, <1>8, <1>9 DEF Address
<1>11. Upto(r) <= Upto(y)
  BY <1>1, <1>6, UptoMonotonic
<1>. QED  BY <1>5, <1>10, <1>11 DEF Page, Upto

-----------------------------------------------------------------------------
(* Heaps that a step does not touch.                                       *)

Kept(q) == Untouched(q) /\ endpoint'[q] = endpoint[q] /\ outside'[q] = outside[q]

LEMMA OthersHeap ==
  ASSUME Sound, Heaps, NEW T, \A q \in Procs : q \notin T => Kept(q),
         NEW q \in Procs, q \notin T, call[q].at = "clone" => call[q].kid \notin T
  PROVE  Heap(q)'
<1>0. Heap(q) /\ Kept(q)
  BY DEF Heaps
<1>1. ~outside'[q] => Inside(q)'
  BY <1>0 DEF Heap, Inside, MappedTo, Kept, Untouched
<1>2. ASSUME call[q].at = "clone"
      PROVE  Copied(q, call[q].kid)'
  <2>1. PICK k \in Procs : k = call[q].kid
    BY <1>2, CallFacts DEF Sound
  <2>2. Kept(k) /\ Copied(q, k)
    BY <1>0, <1>2, <2>1 DEF Heap
  <2>3. Copied(q, k)'
    BY <1>0, <2>2 DEF Copied, Kept, Untouched
  <2>. QED  BY <1>0, <2>1, <2>3 DEF Kept, Untouched
<1>. QED  BY <1>0, <1>1, <1>2 DEF Heap, Kept, Untouched

LEMMA HeapLocal ==
  ASSUME Sound, Heaps, NEW p \in Procs, call[p].at # "booked",
         \A q \in Procs : q # p => Kept(q), Heap(p)'
  PROVE  Heaps'
<1>1. ASSUME NEW q \in Procs, q # p PROVE Heap(q)'
  <2>1. call[q].at = "clone" => call[q].kid # p
    BY DEF Sound, SpaceOf
  <2>2. PICK T : T = {p}
    OBVIOUS
  <2>3. \A r \in Procs : r \notin T => Kept(r)
    BY <2>2
  <2>. QED  BY <1>1, <2>1, <2>2, <2>3, OthersHeap
<1>. QED  BY <1>1 DEF Heaps

LEMMA HeapParent ==
  ASSUME Sound, Heaps, NEW p \in Procs, NEW k \in Procs, Forking(p), call[p].kid = k,
         \A q \in Procs : q \notin {p, k} => Kept(q), Heap(p)', Heap(k)'
  PROVE  Heaps'
<1>1. ASSUME NEW q \in Procs, q \notin {p, k} PROVE Heap(q)'
  <2>1. call[q].at = "clone" => call[q].kid \notin {p, k}
    <3>. SUFFICES ASSUME call[q].at = "clone" PROVE call[q].kid \notin {p, k}
      OBVIOUS
    <3>1. call[call[q].kid].at = "booked"
      BY DEF Sound, SpaceOf
    <3>2. call[q].kid # p
      BY <3>1 DEF Forking
    <3>3. call[q].kid # k
      BY <1>1 DEF Sound, OneParent, Forking
    <3>. QED  BY <3>2, <3>3
  <2>2. PICK T : T = {p, k}
    OBVIOUS
  <2>3. \A r \in Procs : r \notin T => Kept(r)
    BY <2>2
  <2>. QED  BY <1>1, <2>1, <2>2, <2>3, OthersHeap
<1>. QED  BY <1>1 DEF Heaps

(* The next state of the heap of p, whose call is then c and whose end     *)
(* point e.                                                                *)
Filled(p, n) == \A v \in Pages : v < n => Entry(p, v)' # Zero

LEMMA HeapNext ==
  ASSUME NEW p \in Procs, NEW c, NEW e, call'[p] = c, endpoint'[p] = e, c.at # "clone",
         ~outside'[p] => /\ e <= KERNEL_MMAP_VIRTUAL_START
                         /\ c.at \in {"user", "fork"} => Filled(p, Upto(e))
                         /\ c.at \in {"map", "enter"} => Upto(e) <= c.va /\ c.va <= Dirs * Tabs /\ Filled(p, c.va)
                         /\ c.at \in {"unmap", "clear"} /\ c.new # Absent /\ c.new <= e =>
                                Upto(c.new) <= c.va /\ Filled(p, Upto(c.new))
  PROVE  Heap(p)'
BY DEF Heap, Inside, MappedTo, Filled

(* What the present state says of it.                                      *)
LEMMA HeapNow ==
  ASSUME Sound, Heaps, NEW p \in Procs, ~outside[p]
  PROVE  /\ endpoint[p] \in Nat /\ endpoint[p] <= KERNEL_MMAP_VIRTUAL_START
         /\ Upto(endpoint[p]) \in Nat /\ Upto(endpoint[p]) <= Dirs * Tabs
         /\ Page(endpoint[p]) = Upto(endpoint[p])
         /\ call[p].at \in {"user", "fork", "clone"} => MappedTo(p, Upto(endpoint[p]))
         /\ call[p].at \in {"map", "enter"} => /\ call[p].va \in Nat /\ call[p].va <= Dirs * Tabs
                                               /\ Upto(endpoint[p]) <= call[p].va
                                               /\ MappedTo(p, call[p].va)
         /\ call[p].at \in {"unmap", "clear"} /\ call[p].new # Absent /\ call[p].new <= endpoint[p] =>
                Upto(call[p].new) <= call[p].va /\ MappedTo(p, Upto(call[p].new))
<1>1. endpoint[p] \in Nat /\ Inside(p)
  BY DEF Sound, PagingTypes, Heaps, Heap
<1>2. endpoint[p] <= KERNEL_MMAP_VIRTUAL_START
  BY <1>1 DEF Inside
<1>3. call[p].at \in {"map", "enter"} => call[p].va \in Nat
  BY CallFacts DEF Sound
<1>. QED  BY <1>1, <1>2, <1>3, Below DEF Inside

LEMMA FilledBelow ==
  ASSUME NEW p \in Procs, NEW m \in Nat, NEW n \in Nat, m <= n,
         MappedTo(p, n), \A v \in Pages : v < m => (Entry(p, v) # Zero => Entry(p, v)' # Zero)
  PROVE  Filled(p, m)
BY PageIndex DEF MappedTo, Filled

(* A step of p alone that changes no entry.                                *)
LEMMA HeapQuiet ==
  ASSUME Sound, Heaps, NEW p \in Procs, NEW c, call' = [call EXCEPT ![p] = c], call[p].at # "booked",
         dir' = dir, tab' = tab,
         \A q \in Procs : q # p => /\ directory'[q] = directory[q] /\ endpoint'[q] = endpoint[q]
                                   /\ outside'[q] = outside[q],
         Heap(p)'
  PROVE  Heaps'
<1>1. \A q \in Procs : q # p => call'[q] = call[q]
  BY DEF Sound, PagingTypes
<1>2. \A q \in Procs, v \in Pages : Entry(q, v)' = Entry(q, v)
  BY SameEntries
<1>3. \A q \in Procs : q # p => Kept(q)
  BY <1>1, <1>2 DEF Kept, Untouched
<1>. QED  BY <1>3, HeapLocal

LEMMA GrowHeap ==
  ASSUME Sound, Heaps, NEW p \in Procs, NEW shift \in Shifts, Grow(p, shift)
  PROVE  Heaps'
<1>. DEFINE c == [at |-> "map", va |-> Page(endpoint[p]), end |-> Page(endpoint[p] + shift - 1),
                  new |-> Address(endpoint[p] + shift)]
<1>1. /\ call[p].at = "user" /\ call' = [call EXCEPT ![p] = c] /\ directory' = directory /\ dir' = dir
      /\ tab' = tab /\ endpoint' = endpoint /\ outside' = outside
  BY DEF Grow, Enter, Call, At, spaces, history
<1>2. c.at = "map" /\ c.va = Page(endpoint[p])
  OBVIOUS
<1>. HIDE DEF c
<1>3. call'[p] = c
  BY <1>1 DEF Sound, PagingTypes
<1>4. Heap(p)'
  <2>1. PICK e : e = endpoint[p]
    OBVIOUS
  <2>2. ASSUME ~outside[p]
        PROVE  /\ e <= KERNEL_MMAP_VIRTUAL_START
               /\ Upto(e) <= c.va /\ c.va <= Dirs * Tabs /\ Filled(p, c.va)
    <3>1. /\ e \in Nat /\ e <= KERNEL_MMAP_VIRTUAL_START /\ Upto(e) \in Nat /\ Upto(e) <= Dirs * Tabs
          /\ c.va = Upto(e) /\ MappedTo(p, Upto(e))
      BY <1>1, <1>2, <2>1, <2>2, HeapNow
    <3>2. \A v \in Pages : Entry(p, v)' = Entry(p, v)
      BY <1>1, SameEntries
    <3>. QED  BY <3>1, <3>2 DEF MappedTo, Filled
  <2>. QED  BY <1>1, <1>2, <1>3, <2>1, <2>2, HeapNext
<1>. QED  BY <1>1, <1>4, HeapQuiet

LEMMA ShrinkHeap ==
  ASSUME Sound, Heaps, NEW p \in Procs, NEW shift \in Shifts, Shrink(p, shift)
  PROVE  Heaps'
<1>. DEFINE c == [at |-> "unmap", va |-> Page(endpoint[p] + shift + PageSize - 1),
                  end |-> Page(endpoint[p] - 1), new |-> Address(endpoint[p] + shift)]
<1>1. /\ call[p].at = "user" /\ call' = [call EXCEPT ![p] = c] /\ directory' = directory /\ dir' = dir
      /\ tab' = tab /\ endpoint' = endpoint /\ outside' = outside
  BY DEF Shrink, Enter, Call, At, spaces, history
<1>2. PICK x \in Int : x = endpoint[p] + shift
  BY PagingAssumption DEF Sound, PagingTypes
<1>3. c.at = "unmap" /\ c.va = Page(x + PageSize - 1) /\ c.new = Address(x)
  BY <1>2
<1>. HIDE DEF c
<1>4. call'[p] = c
  BY <1>1 DEF Sound, PagingTypes
<1>5. Heap(p)'
  <2>1. PICK e : e = endpoint[p]
    OBVIOUS
  <2>2. ASSUME ~outside[p]
        PROVE  /\ e <= KERNEL_MMAP_VIRTUAL_START
               /\ c.new <= e => Upto(c.new) <= c.va /\ Filled(p, Upto(c.new))
    <3>1. e \in Nat /\ e <= KERNEL_MMAP_VIRTUAL_START /\ MappedTo(p, Upto(e))
      BY <1>1, <2>1, <2>2, HeapNow
    <3>2. ASSUME c.new <= e PROVE Upto(c.new) <= c.va /\ Filled(p, Upto(c.new))
      <4>1. PICK a \in Nat : a = Address(x) /\ a = c.new /\ KERNEL_MMAP_VIRTUAL_START \in Nat
        BY <1>3, AddressTypes
      <4>2. a <= KERNEL_MMAP_VIRTUAL_START
        BY <3>1, <3>2, <4>1
      <4>3. Upto(a) <= c.va
        BY <1>3, <4>1, <4>2, ShrinkStart
      <4>4. Upto(a) \in Nat /\ Upto(e) \in Nat /\ Upto(a) <= Upto(e)
        BY <3>1, <3>2, <4>1, UptoMonotonic
      <4>5. \A v \in Pages : Entry(p, v)' = Entry(p, v)
        BY <1>1, SameEntries
      <4>6. Filled(p, Upto(a))
        BY <3>1, <4>4, <4>5, FilledBelow
      <4>. QED  BY <4>1, <4>3, <4>6
    <3>. QED  BY <3>1, <3>2
  <2>. QED  BY <1>1, <1>3, <1>4, <2>1, <2>2, HeapNext
<1>. QED  BY <1>1, <1>5, HeapQuiet

(* Calls after which nothing is asked of the pages.                        *)
LEMMA HeapGone ==
  ASSUME Sound, Heaps, NEW p \in Procs, NEW c, call'[p] = c, endpoint'[p] = endpoint[p], outside'[p] = outside[p],
         c.at \in {"none", "booked", "stuck", "tables"} \/ (c.at = "unmap" /\ c.new = Absent)
  PROVE  Heap(p)'
<1>1. PICK e : e = endpoint[p]
  OBVIOUS
<1>2. ~outside[p] => e <= KERNEL_MMAP_VIRTUAL_START
  BY <1>1, HeapNow
<1>. QED  BY <1>1, <1>2, HeapNext

LEMMA Process_TerminateHeap ==
  ASSUME Sound, Heaps, NEW p \in Procs, Process_Terminate(p)
  PROVE  Heaps'
<1>. DEFINE c == [at |-> "unmap", va |-> 0, end |-> Dirs * Tabs - 1, new |-> Absent]
<1>1. /\ call[p].at = "user" /\ call' = [call EXCEPT ![p] = c] /\ directory' = directory /\ dir' = dir
      /\ tab' = tab /\ endpoint' = endpoint /\ outside' = outside
  BY DEF Process_Terminate, Enter, Call, At, spaces, history
<1>2. c.at = "unmap" /\ c.new = Absent
  OBVIOUS
<1>. HIDE DEF c
<1>3. Heap(p)'
  BY <1>1, <1>2, HeapGone DEF Sound, PagingTypes
<1>. QED  BY <1>1, <1>3, HeapQuiet

LEMMA StuckHeap ==
  ASSUME Sound, Heaps, NEW p \in Procs, MapTableOutOfMemory(p) \/ ForkOutOfMemory(p)
  PROVE  Heaps'
<1>0. /\ call[p].at # "booked" /\ directory' = directory /\ dir' = dir /\ tab' = tab
      /\ endpoint' = endpoint /\ outside' = outside
  BY DEF MapTableOutOfMemory, ForkOutOfMemory, At, spaces, history
<1>1. PICK c : c.at = "stuck" /\ call' = [call EXCEPT ![p] = c]
  <2>1. PICK g : call' = [call EXCEPT ![p] = [at |-> "stuck", page |-> g]]
    BY DEF MapTableOutOfMemory, ForkOutOfMemory, Goto
  <2>. QED  BY <2>1
<1>2. Heap(p)'
  <2>1. call'[p] = c
    BY <1>1 DEF Sound, PagingTypes
  <2>2. endpoint'[p] = endpoint[p] /\ outside'[p] = outside[p]
    BY <1>0
  <2>3. c.at \in {"none", "booked", "stuck", "tables"} \/ (c.at = "unmap" /\ c.new = Absent)
    BY <1>1
  <2>. QED  BY ONLY Sound, Heaps, p \in Procs, <2>1, <2>2, <2>3, HeapGone
<1>. QED  BY <1>0, <1>1, <1>2, HeapQuiet

(* The end point that Paging_MapPages reaches with n more pages than the   *)
(* ones before va: no product wraps around.                                *)
LEMMA ReachedBelow ==
  ASSUME Sound, Heaps, NEW p \in Procs, ~outside[p], call[p].at \in {"map", "enter"},
         NEW n \in Nat, call[p].va + n <= Dirs * Tabs
  PROVE  /\ Mapped(p) \in Nat /\ Reached(p, Mapped(p) + n) \in Nat
         /\ Reached(p, Mapped(p) + n) <= KERNEL_MMAP_VIRTUAL_START
         /\ Upto(Reached(p, Mapped(p) + n)) \in Nat
         /\ Upto(Reached(p, Mapped(p) + n)) <= call[p].va + n
<1>1. PICK u \in Nat, a \in Nat, w \in Nat, m \in Nat :
        /\ u = Page(endpoint[p]) /\ a = call[p].va /\ w = call[p].new /\ u <= a
        /\ m = Dirs * Tabs /\ m > 0 /\ a + n <= m
  <2>1. PICK m \in Nat : m = Dirs * Tabs /\ m > 0
    BY PagingAssumption
  <2>2. call[p].new \in Nat
    BY CallFacts DEF Sound
  <2>. QED  BY <2>1, <2>2, HeapNow
<1>2. Mapped(p) = a - u
  <2>1. PICK x \in Nat : x = a - u /\ x < 2 * m
    BY <1>1
  <2>2. x % (2 * m) = x
    BY <1>1, <2>1
  <2>3. 2 * Dirs * Tabs = 2 * m
    BY <1>1, PagingAssumption
  <2>. QED  BY <1>1, <2>1, <2>2, <2>3 DEF Mapped
<1>3. PICK k \in Nat : k = a + n /\ k = u + (Mapped(p) + n) /\ k <= Dirs * Tabs
  BY <1>1, <1>2
<1>4. PICK t \in Nat : t = k * PageSize /\ t <= KERNEL_MMAP_VIRTUAL_START /\ Upto(t) = k /\ Address(t) = t
  BY <1>3, PageStart
<1>5. Reached(p, Mapped(p) + n) = IF t < w THEN t ELSE w
  BY <1>1, <1>3, <1>4 DEF Reached
<1>6. PICK r \in Nat : r = Reached(p, Mapped(p) + n) /\ r <= t
  BY <1>5
<1>7. Upto(r) \in Nat /\ Upto(r) <= k
  BY <1>4, <1>6, UptoMonotonic
<1>8. KERNEL_MMAP_VIRTUAL_START \in Nat
  BY <1>4, AddressTypes
<1>. QED  BY <1>1, <1>2, <1>3, <1>4, <1>6, <1>7, <1>8

(* Paging_MapPages returns, with the pages before va + n mapped.           *)
LEMMA SetEndPointHeap ==
  ASSUME Sound, Heaps, NEW p \in Procs, call[p].at \in {"map", "enter"}, NEW n \in Nat,
         ~outside[p] => call[p].va + n <= Dirs * Tabs /\ Filled(p, call[p].va + n),
         NEW e, e = Reached(p, Mapped(p) + n), SetEndPoint(p, e)
  PROVE  Heap(p)'
<1>1. /\ call'[p] = InUser /\ endpoint'[p] = e /\ InUser.at = "user"
      /\ outside[p] => outside'[p]
  BY DEF SetEndPoint, Goto, InUser, Sound, PagingTypes
<1>2. ASSUME ~outside[p]
      PROVE  e <= KERNEL_MMAP_VIRTUAL_START /\ Filled(p, Upto(e))
  <2>1. e \in Nat /\ e <= KERNEL_MMAP_VIRTUAL_START /\ Upto(e) \in Nat /\ Upto(e) <= call[p].va + n
    BY <1>2, ReachedBelow
  <2>2. call[p].va \in Nat
    BY <1>2, HeapNow
  <2>. QED  BY <1>2, <2>1, <2>2, PageIndex DEF Filled
<1>. QED  BY <1>1, <1>2, HeapNext

LEMMA MapAcquireHeap ==
  ASSUME Sound, Heaps, NEW p \in Procs, NEW f, MapAcquire(p, f)
  PROVE  Heaps'
<1>. DEFINE c == [at |-> "enter", va |-> call[p].va, end |-> call[p].end, new |-> call[p].new, page |-> f]
<1>1. /\ call[p].at = "map" /\ call' = [call EXCEPT ![p] = c] /\ directory' = directory /\ dir' = dir
      /\ tab' = tab /\ endpoint' = endpoint /\ outside' = outside
  BY DEF MapAcquire, Goto, At, spaces, history
<1>2. c.at = "enter" /\ c.va = call[p].va
  OBVIOUS
<1>. HIDE DEF c
<1>3. call'[p] = c
  BY <1>1 DEF Sound, PagingTypes
<1>4. Heap(p)'
  <2>1. PICK e : e = endpoint[p]
    OBVIOUS
  <2>2. ASSUME ~outside[p]
        PROVE  /\ e <= KERNEL_MMAP_VIRTUAL_START
               /\ Upto(e) <= c.va /\ c.va <= Dirs * Tabs /\ Filled(p, c.va)
    <3>1. /\ e <= KERNEL_MMAP_VIRTUAL_START /\ Upto(e) <= c.va /\ c.va <= Dirs * Tabs /\ MappedTo(p, call[p].va)
      BY <1>1, <1>2, <2>1, <2>2, HeapNow
    <3>2. \A v \in Pages : Entry(p, v)' = Entry(p, v)
      BY <1>1, SameEntries
    <3>. QED  BY <1>2, <3>1, <3>2 DEF MappedTo, Filled
  <2>. QED  BY <1>1, <1>2, <1>3, <2>1, <2>2, HeapNext
<1>. QED  BY <1>1, <1>4, HeapQuiet

(* Both ways to stop before va: the pages entered so far stay.             *)
LEMMA MapStopsHeap ==
  ASSUME Sound, Heaps, NEW p \in Procs, MapOutOfMemory(p) \/ MapRefused(p)
  PROVE  Heaps'
<1>1. /\ call[p].at \in {"map", "enter"} /\ SetEndPoint(p, Reached(p, Mapped(p)))
      /\ directory' = directory /\ dir' = dir /\ tab' = tab
  BY DEF MapOutOfMemory, MapRefused, At, spaces
<1>2. PICK e : e = Reached(p, Mapped(p))
  OBVIOUS
<1>3. Mapped(p) + 0 = Mapped(p)
  <2>1. call[p].va - Page(endpoint[p]) \in Int
    BY <1>1, CallFacts, AddressTypes DEF Sound, PagingTypes
  <2>2. 2 * Dirs * Tabs \in Nat /\ 2 * Dirs * Tabs > 0
    BY PagingAssumption
  <2>3. Mapped(p) \in Int
    BY <2>1, <2>2 DEF Mapped
  <2>. QED  BY <2>3
<1>4. ASSUME ~outside[p] PROVE call[p].va + 0 <= Dirs * Tabs /\ Filled(p, call[p].va + 0)
  <2>1. call[p].va \in Nat /\ call[p].va <= Dirs * Tabs /\ MappedTo(p, call[p].va)
    BY <1>1, <1>4, HeapNow
  <2>2. \A v \in Pages : Entry(p, v)' = Entry(p, v)
    BY <1>1, SameEntries
  <2>. QED  BY <2>1, <2>2 DEF MappedTo, Filled
<1>5. Heap(p)'
  <2>1. PICK n \in Nat : n = 0
    OBVIOUS
  <2>2. /\ e = Reached(p, Mapped(p) + n) /\ SetEndPoint(p, e)
        /\ ~outside[p] => call[p].va + n <= Dirs * Tabs /\ Filled(p, call[p].va + n)
    BY <1>1, <1>2, <1>3, <1>4, <2>1
  <2>. QED  BY ONLY Sound, Heaps, p \in Procs, n \in Nat, <1>1, <2>2, SetEndPointHeap
<1>6. /\ call' = [call EXCEPT ![p] = InUser]
      /\ \A q \in Procs : q # p => /\ directory'[q] = directory[q] /\ endpoint'[q] = endpoint[q]
                                   /\ outside'[q] = outside[q]
  BY <1>1 DEF SetEndPoint, Goto, Sound, PagingTypes
<1>. QED  BY <1>1, <1>5, <1>6, HeapQuiet

(* The page at va is entered, and the loop goes on or ends.                *)
LEMMA NextPageHeap ==
  ASSUME Sound, Heaps, NEW p \in Procs, NEW v \in Pages, call[p].at = "enter", v = call[p].va, NextPage(p),
         Entry(p, v)' # Zero, \A w \in Pages : w # v => Entry(p, w)' = Entry(p, w)
  PROVE  /\ Heap(p)'
         /\ \A q \in Procs : q # p => call'[q] = call[q] /\ endpoint'[q] = endpoint[q] /\ outside'[q] = outside[q]
<1>0. v \in Nat /\ v + 1 \in Nat /\ v + 1 <= Dirs * Tabs
  BY PagingAssumption DEF Pages
<1>1. ~outside[p] => Filled(p, v + 1)
  <2>. SUFFICES ASSUME ~outside[p], NEW w \in Pages, w < v + 1 PROVE Entry(p, w)' # Zero
    BY DEF Filled
  <2>1. MappedTo(p, v)
    BY HeapNow
  <2>2. w = v \/ w < v
    BY <1>0, PageIndex
  <2>. QED  BY <1>0, <2>1, <2>2, PageIndex DEF MappedTo
<1>2. CASE call[p].va = call[p].end
  <2>0. PICK n \in Nat : n = 1
    OBVIOUS
  <2>1. PICK e : n = 1 /\ e = Reached(p, Mapped(p) + n)
    BY <2>0
  <2>2. SetEndPoint(p, e)
    BY <1>2, <2>1 DEF NextPage
  <2>3. ~outside[p] => call[p].va + n <= Dirs * Tabs /\ Filled(p, call[p].va + n)
    BY <1>0, <1>1, <2>1
  <2>4. call[p].at \in {"map", "enter"}
    OBVIOUS
  <2>5. Heap(p)'
    BY ONLY Sound, Heaps, p \in Procs, n \in Nat, <2>1, <2>2, <2>3, <2>4, SetEndPointHeap
  <2>. QED  BY <2>2, <2>5 DEF SetEndPoint, Goto, Sound, PagingTypes
<1>3. CASE call[p].va # call[p].end
  <2>. DEFINE c == [at |-> "map", va |-> Page((call[p].va + 1) * PageSize), end |-> call[p].end, new |-> call[p].new]
  <2>1. call' = [call EXCEPT ![p] = c] /\ endpoint' = endpoint /\ outside' = outside
    BY <1>3 DEF NextPage, Goto
  <2>2. c.at = "map" /\ c.va = v + 1
    BY <1>0, PageStart
  <2>. HIDE DEF c
  <2>3. call'[p] = c
    BY <2>1 DEF Sound, PagingTypes
  <2>4. PICK e : e = endpoint[p]
    OBVIOUS
  <2>5. ASSUME ~outside[p]
        PROVE  /\ e <= KERNEL_MMAP_VIRTUAL_START
               /\ Upto(e) <= c.va /\ c.va <= Dirs * Tabs /\ Filled(p, c.va)
    <3>1. e <= KERNEL_MMAP_VIRTUAL_START /\ Upto(e) \in Nat /\ Upto(e) <= v
      BY <2>4, <2>5, HeapNow
    <3>. QED  BY <1>0, <1>1, <2>2, <2>5, <3>1
  <2>6. Heap(p)'
    BY <2>1, <2>2, <2>3, <2>4, <2>5, HeapNext
  <2>. QED  BY <2>1, <2>6 DEF Sound, PagingTypes
<1>. QED  BY <1>2, <1>3

LEMMA Paging_MapPageHeap ==
  ASSUME Sound, Heaps, NEW p \in Procs, Paging_MapPage(p)
  PROVE  Heaps'
<1>1. PICK v \in Pages :
        /\ v = call[p].va /\ call[p].at = "enter" /\ dir[p][PAGEDIRIDX(v)] # Absent
        /\ tab' = [tab EXCEPT ![dir[p][PAGEDIRIDX(v)]][PAGETABIDX(v)] = New(p)]
        /\ NextPage(p) /\ directory' = directory /\ dir' = dir
  BY DEF Paging_MapPage, At
<1>2. New(p) # Zero
  <2>1. call[p].page \in All
    BY <1>1, CallFacts DEF Sound
  <2>. QED  BY <2>1, Distinct DEF New, Zero
<1>3. /\ Entry(p, v)' = New(p)
      /\ \A q \in Procs, w \in Pages : ~(q = p /\ w = v) => Entry(q, w)' = Entry(q, w)
  <2>1. PICK e : e = New(p)
    OBVIOUS
  <2>2. /\ dir[p][PAGEDIRIDX(v)] # Absent /\ dir' = dir
        /\ tab' = [tab EXCEPT ![dir[p][PAGEDIRIDX(v)]][PAGETABIDX(v)] = e]
    BY <1>1, <2>1
  <2>3. /\ Entry(p, v)' = e
        /\ \A q \in Procs, w \in Pages : ~(q = p /\ w = v) => Entry(q, w)' = Entry(q, w)
    BY ONLY Sound, p \in Procs, v \in Pages, <2>2, EntryWritten
  <2>. QED  BY <2>1, <2>3
<1>4. /\ Heap(p)'
      /\ \A q \in Procs : q # p => call'[q] = call[q] /\ endpoint'[q] = endpoint[q] /\ outside'[q] = outside[q]
  BY <1>1, <1>2, <1>3, NextPageHeap
<1>5. \A q \in Procs : q # p => Kept(q)
  BY <1>1, <1>3, <1>4 DEF Kept, Untouched
<1>. QED  BY <1>1, <1>4, <1>5, HeapLocal

LEMMA MapTableHeap ==
  ASSUME Sound, Heaps, NEW p \in Procs, NEW f, MapTable(p, f)
  PROVE  Heaps'
<1>. DEFINE table == [FreshTable EXCEPT ![PAGETABIDX(call[p].va)] = New(p)]
<1>1. PICK v \in Pages :
        /\ v = call[p].va /\ call[p].at = "enter" /\ dir[p][PAGEDIRIDX(v)] = Absent
        /\ f \in free /\ directory' = directory
        /\ dir' = [dir EXCEPT ![p][PAGEDIRIDX(v)] = f] /\ tab' = [tab EXCEPT ![f] = table]
        /\ NextPage(p)
  BY DEF MapTable, At, Acquires
<1>2. PICK g \in All : g = call[p].page
  BY <1>1, CallFacts DEF Sound
<1>3. PICK i \in DirIndex, j \in TabIndex : i = PAGEDIRIDX(v) /\ j = PAGETABIDX(v)
  BY PageIndex
<1>4. table[j] = <<g, TRUE>> /\ \A n \in TabIndex : n # j => table[n] = Zero
  BY <1>1, <1>2, <1>3 DEF New, FreshTable, TabIndex
<1>. HIDE DEF table
<1>5. /\ \A w \in Pages : PAGEDIRIDX(w) = i => Entry(p, w) = Zero /\ Entry(p, w)' = table[PAGETABIDX(w)]
      /\ \A q \in Procs, w \in Pages : ~(q = p /\ PAGEDIRIDX(w) = i) => Entry(q, w)' = Entry(q, w)
  BY <1>1, <1>3, TableAdded
<1>6. Entry(p, v)' # Zero
  <2>1. Entry(p, v)' = <<g, TRUE>>
    BY <1>3, <1>4, <1>5
  <2>. QED  BY <2>1, Distinct DEF Zero
<1>7. \A w \in Pages : w # v => Entry(p, w)' = Entry(p, w)
  <2>. SUFFICES ASSUME NEW w \in Pages, w # v, PAGEDIRIDX(w) = i PROVE Entry(p, w)' = Entry(p, w)
    BY <1>5
  <2>1. PAGETABIDX(w) \in TabIndex /\ PAGETABIDX(w) # j
    BY <1>3, SamePage, PageIndex
  <2>. QED  BY <1>4, <1>5, <2>1
<1>8. /\ Heap(p)'
      /\ \A q \in Procs : q # p => call'[q] = call[q] /\ endpoint'[q] = endpoint[q] /\ outside'[q] = outside[q]
  BY <1>1, <1>6, <1>7, NextPageHeap
<1>9. \A q \in Procs : q # p => dir'[q] = dir[q]
  BY <1>1 DEF Sound, PagingTypes
<1>10. \A q \in Procs : q # p => Kept(q)
  BY <1>1, <1>5, <1>8, <1>9 DEF Kept, Untouched
<1>. QED  BY <1>1, <1>8, <1>10, HeapLocal

(* Paging_UnmapPages: the pages it meets are at or above the new end point.*)
LEMMA UnmapReleaseHeap ==
  ASSUME Sound, Heaps, NEW p \in Procs, UnmapRelease(p)
  PROVE  Heaps'
<1>0. PICK v : v = Min(Present(p))
  OBVIOUS
<1>. DEFINE c == [call[p] EXCEPT !.at = "clear", !.va = v]
<1>1. /\ call[p].at = "unmap" /\ call' = [call EXCEPT ![p] = c] /\ directory' = directory /\ dir' = dir
      /\ tab' = tab /\ endpoint' = endpoint /\ outside' = outside
  BY <1>0 DEF UnmapRelease, At, Goto, spaces, history
<1>2. v \in Nat /\ call[p].va <= v
  <2>1. Present(p) \in SUBSET Nat /\ Present(p) # {}
    BY PageIndex DEF Present, UnmapRelease
  <2>2. v \in Present(p)
    BY <1>0, <2>1, MinIsIn
  <2>. QED  BY <2>2, PageIndex DEF Present
<1>3. c.at = "clear" /\ c.va = v /\ c.new = call[p].new
  <2>1. call[p] \in [at : {"unmap", "clear"}, va : Nat, end : Nat, new : Nat \cup {Absent}]
    BY <1>1, UnmapCall DEF Sound
  <2>. QED  BY <2>1
<1>. HIDE DEF c
<1>4. call'[p] = c
  BY <1>1 DEF Sound, PagingTypes
<1>5. Heap(p)'
  <2>1. PICK e : e = endpoint[p]
    OBVIOUS
  <2>2. call[p].va \in Nat /\ call[p].new \in Nat \cup {Absent}
    BY <1>1, CallFacts DEF Sound
  <2>3. ASSUME ~outside[p]
        PROVE  /\ e <= KERNEL_MMAP_VIRTUAL_START
               /\ c.new # Absent /\ c.new <= e => Upto(c.new) <= c.va /\ Filled(p, Upto(c.new))
    <3>1. e <= KERNEL_MMAP_VIRTUAL_START
      BY <2>1, <2>3, HeapNow
    <3>2. ASSUME c.new # Absent, c.new <= e PROVE Upto(c.new) <= c.va /\ Filled(p, Upto(c.new))
      <4>1. PICK a \in Nat : a = c.new
        BY <1>3, <2>2, <3>2
      <4>2. Upto(a) <= call[p].va /\ MappedTo(p, Upto(a))
        BY <1>1, <1>3, <2>1, <2>3, <3>2, <4>1, HeapNow
      <4>3. Upto(a) \in Nat
        BY <4>1, UptoMonotonic
      <4>4. \A w \in Pages : Entry(p, w)' = Entry(p, w)
        BY <1>1, SameEntries
      <4>5. Upto(a) <= c.va
        BY <1>2, <1>3, <2>2, <4>2, <4>3
      <4>. QED  BY <4>1, <4>2, <4>4, <4>5 DEF MappedTo, Filled
    <3>. QED  BY <3>1, <3>2
  <2>. QED  BY <1>1, <1>3, <1>4, <2>1, <2>3, HeapNext
<1>. QED  BY <1>1, <1>5, HeapQuiet

LEMMA UnmapClearHeap ==
  ASSUME Sound, Heaps, NEW p \in Procs, UnmapClear(p)
  PROVE  Heaps'
<1>0. PICK v : v = call[p].va
  OBVIOUS
<1>. DEFINE c == [call[p] EXCEPT !.at = "unmap", !.va = v + 1]
<1>1. /\ call[p].at = "clear" /\ call' = [call EXCEPT ![p] = c]
      /\ tab' = [tab EXCEPT ![dir[p][PAGEDIRIDX(v)]][PAGETABIDX(v)] = Zero]
      /\ directory' = directory /\ dir' = dir /\ endpoint' = endpoint /\ outside' = outside
  BY <1>0 DEF UnmapClear, At, Goto, history
<1>2. v \in Pages /\ v \in Nat /\ dir[p][PAGEDIRIDX(v)] # Absent
  BY <1>0, <1>1, PageIndex DEF Sound, SpaceOf
<1>3. c.at = "unmap" /\ c.va = v + 1 /\ c.new = call[p].new /\ call[p].new \in Nat \cup {Absent}
  <2>1. call[p] \in [at : {"unmap", "clear"}, va : Nat, end : Nat, new : Nat \cup {Absent}]
    BY <1>1, UnmapCall DEF Sound
  <2>. QED  BY <2>1
<1>. HIDE DEF c
<1>4. call'[p] = c /\ \A q \in Procs : q # p => call'[q] = call[q]
  BY <1>1 DEF Sound, PagingTypes
<1>5. \A q \in Procs, w \in Pages : ~(q = p /\ w = v) => Entry(q, w)' = Entry(q, w)
  BY <1>1, <1>2, EntryWritten
<1>6. Heap(p)'
  <2>1. PICK e : e = endpoint[p]
    OBVIOUS
  <2>2. ASSUME ~outside[p]
        PROVE  /\ e <= KERNEL_MMAP_VIRTUAL_START
               /\ c.new # Absent /\ c.new <= e => Upto(c.new) <= c.va /\ Filled(p, Upto(c.new))
    <3>1. e <= KERNEL_MMAP_VIRTUAL_START
      BY <2>1, <2>2, HeapNow
    <3>2. ASSUME c.new # Absent, c.new <= e PROVE Upto(c.new) <= c.va /\ Filled(p, Upto(c.new))
      <4>1. PICK a \in Nat : a = c.new
        BY <1>3, <3>2
      <4>2. Upto(a) <= v /\ MappedTo(p, Upto(a))
        BY <1>0, <1>1, <1>3, <2>1, <2>2, <3>2, <4>1, HeapNow
      <4>3. Upto(a) \in Nat
        BY <4>1, UptoMonotonic
      <4>4. \A w \in Pages : w < Upto(a) => Entry(p, w)' = Entry(p, w)
        BY <1>2, <1>5, <4>2, <4>3, PageIndex
      <4>5. Upto(a) <= c.va
        BY <1>2, <1>3, <4>2, <4>3
      <4>. QED  BY <4>1, <4>2, <4>4, <4>5 DEF MappedTo, Filled
    <3>. QED  BY <3>1, <3>2
  <2>. QED  BY <1>1, <1>3, <1>4, <2>1, <2>2, HeapNext
<1>7. \A q \in Procs : q # p => Kept(q)
  BY <1>1, <1>4, <1>5 DEF Kept, Untouched
<1>. QED  BY <1>1, <1>6, <1>7, HeapLocal

(* It returns: an end point that went up has wrapped around.               *)
LEMMA UnmapDoneHeap ==
  ASSUME Sound, Heaps, NEW p \in Procs, UnmapDone(p)
  PROVE  Heaps'
<1>0. call[p].at = "unmap" /\ directory' = directory /\ dir' = dir /\ tab' = tab
  BY DEF UnmapDone, At, spaces
<1>1. call[p].new \in Nat \cup {Absent} /\ endpoint[p] \in Nat
  BY <1>0, CallFacts DEF Sound, PagingTypes
<1>2. CASE call[p].new = Absent
  <2>. DEFINE c == [at |-> "tables", i |-> 0]
  <2>1. call' = [call EXCEPT ![p] = c] /\ endpoint' = endpoint /\ outside' = outside
    BY <1>2 DEF UnmapDone, Goto
  <2>2. c.at = "tables"
    OBVIOUS
  <2>. HIDE DEF c
  <2>3. Heap(p)'
    BY <2>1, <2>2, HeapGone DEF Sound, PagingTypes
  <2>. QED  BY <1>0, <2>1, <2>3, HeapQuiet
<1>3. CASE call[p].new # Absent
  <2>1. PICK a \in Nat : a = call[p].new /\ SetEndPoint(p, a)
    BY <1>1, <1>3 DEF UnmapDone
  <2>2. /\ call' = [call EXCEPT ![p] = InUser] /\ call'[p] = InUser /\ endpoint'[p] = a /\ InUser.at = "user"
        /\ \A q \in Procs : q # p => /\ directory'[q] = directory[q] /\ endpoint'[q] = endpoint[q]
                                     /\ outside'[q] = outside[q]
    BY <1>0, <2>1 DEF SetEndPoint, Goto, InUser, Sound, PagingTypes
  <2>3. outside[p] \/ a > endpoint[p] => outside'[p]
    BY <1>0, <2>1 DEF SetEndPoint, Sound, PagingTypes
  <2>4. ASSUME ~outside'[p]
        PROVE  a <= KERNEL_MMAP_VIRTUAL_START /\ Filled(p, Upto(a))
    <3>1. ~outside[p] /\ a <= endpoint[p]
      BY <1>1, <2>1, <2>3, <2>4
    <3>2. endpoint[p] <= KERNEL_MMAP_VIRTUAL_START /\ MappedTo(p, Upto(a))
      BY <1>0, <1>3, <2>1, <3>1, HeapNow
    <3>3. \A w \in Pages : Entry(p, w)' = Entry(p, w)
      BY <1>0, SameEntries
    <3>4. KERNEL_MMAP_VIRTUAL_START \in Nat
      BY <2>1, AddressTypes
    <3>. QED  BY <1>1, <3>1, <3>2, <3>3, <3>4 DEF MappedTo, Filled
  <2>5. Heap(p)'
    BY <2>2, <2>4, HeapNext
  <2>. QED  BY <1>0, <2>2, <2>5, HeapQuiet
<1>. QED  BY <1>2, <1>3

LEMMA TerminateHeap ==
  ASSUME Sound, Heaps, NEW p \in Procs, TerminateTable(p) \/ TerminateDirectory(p)
  PROVE  Heaps'
<1>1. CASE TerminateTable(p)
  <2>1. PICK i : i = call[p].i
    OBVIOUS
  <2>. DEFINE c == [at |-> "tables", i |-> i + 1]
  <2>2. /\ call[p].at = "tables" /\ i < Dirs /\ call' = [call EXCEPT ![p] = c]
        /\ dir' = [dir EXCEPT ![p][i] = Absent]
        /\ tab' = IF dir[p][i] = Absent THEN tab ELSE [tab EXCEPT ![dir[p][i]] = FreshTable]
        /\ directory' = directory /\ endpoint' = endpoint /\ outside' = outside
    BY <1>1, <2>1 DEF TerminateTable, At, Goto
  <2>3. c.at = "tables"
    OBVIOUS
  <2>. HIDE DEF c
  <2>4. i \in DirIndex
    BY <2>1, <2>2, CallFacts, PagingAssumption DEF Sound, DirIndex
  <2>5. \A q \in Procs, w \in Pages : q # p => Entry(q, w)' = Entry(q, w)
    BY <2>2, <2>4, TableRemoved
  <2>6. call'[p] = c /\ \A q \in Procs : q # p => call'[q] = call[q] /\ dir'[q] = dir[q]
    BY <2>2 DEF Sound, PagingTypes
  <2>7. \A q \in Procs : q # p => Kept(q)
    BY <2>2, <2>5, <2>6 DEF Kept, Untouched
  <2>8. Heap(p)'
    BY <2>2, <2>3, <2>6, HeapGone
  <2>. QED  BY <2>2, <2>7, <2>8, HeapLocal
<1>2. CASE TerminateDirectory(p)
  <2>. DEFINE c == [at |-> "none"]
  <2>1. /\ call[p].at = "tables" /\ call' = [call EXCEPT ![p] = c]
        /\ directory' = [directory EXCEPT ![p] = Absent]
        /\ dir' = dir /\ tab' = tab /\ endpoint' = endpoint /\ outside' = outside
    BY <1>2 DEF TerminateDirectory, At, Goto, history
  <2>2. c.at = "none"
    OBVIOUS
  <2>. HIDE DEF c
  <2>3. call'[p] = c /\ \A q \in Procs : q # p => directory'[q] = directory[q]
    BY <2>1 DEF Sound, PagingTypes
  <2>4. Heap(p)'
    BY <2>1, <2>2, <2>3, HeapGone
  <2>. QED  BY <2>1, <2>3, <2>4, HeapQuiet
<1>. QED  BY <1>1, <1>2

-----------------------------------------------------------------------------
(* Heaps and forks.                                                        *)

LEMMA ForkHeap ==
  ASSUME Sound, Heaps, NEW p \in Procs, NEW k \in Procs, Fork(p, k)
  PROVE  Heaps'
<1>. DEFINE c == [at |-> "fork", kid |-> k]
            d == [at |-> "booked"]
<1>1. /\ call[p].at = "user" /\ call[k].at = "none" /\ call' = [call EXCEPT ![p] = c, ![k] = d]
      /\ directory' = directory /\ dir' = dir /\ tab' = tab /\ endpoint' = endpoint /\ outside' = outside
  BY DEF Fork, Call, At, spaces, history
<1>2. c.at = "fork" /\ d.at = "booked"
  OBVIOUS
<1>. HIDE DEF c, d
<1>3. /\ p # k /\ call'[p] = c /\ call'[k] = d
      /\ \A q \in Procs : q \notin {p, k} => call'[q] = call[q]
  BY <1>1 DEF Sound, PagingTypes
<1>4. \A q \in Procs, v \in Pages : Entry(q, v)' = Entry(q, v)
  BY <1>1, SameEntries
<1>5. Heap(p)'
  <2>1. PICK e : e = endpoint[p]
    OBVIOUS
  <2>2. ASSUME ~outside[p] PROVE e <= KERNEL_MMAP_VIRTUAL_START /\ Filled(p, Upto(e))
    <3>1. e <= KERNEL_MMAP_VIRTUAL_START /\ MappedTo(p, Upto(e))
      BY <1>1, <2>1, <2>2, HeapNow
    <3>. QED  BY <1>4, <3>1 DEF MappedTo, Filled
  <2>. QED  BY <1>1, <1>2, <1>3, <2>1, <2>2, HeapNext
<1>6. Heap(k)'
  BY <1>1, <1>2, <1>3, HeapGone
<1>7. ASSUME NEW q \in Procs, q \notin {p, k} PROVE Heap(q)'
  <2>1. call[q].at = "clone" => call[q].kid \notin {p, k}
    BY <1>1 DEF Sound, SpaceOf
  <2>2. PICK T : T = {p, k}
    OBVIOUS
  <2>3. \A r \in Procs : r \notin T => Kept(r)
    BY <1>1, <1>3, <1>4, <2>2 DEF Kept, Untouched
  <2>. QED  BY <1>7, <2>1, <2>2, <2>3, OthersHeap
<1>. QED  BY <1>5, <1>6, <1>7 DEF Heaps

(* A step of Paging_Clone: the parent's entries and end point stay, and    *)
(* the child is nobody's heap yet.                                         *)
LEMMA CloneStep ==
  ASSUME Sound, Heaps, NEW p \in Procs, NEW k \in Procs, Forking(p), call[p].kid = k, p # k,
         call[k].at = "booked", NEW c, call' = [call EXCEPT ![p] = c], c.at = "clone", c.kid = k,
         endpoint' = endpoint, outside' = outside,
         \A q \in Procs : q # k => directory'[q] = directory[q] /\ dir'[q] = dir[q],
         \A q \in Procs, v \in Pages : q # k => Entry(q, v)' = Entry(q, v),
         \A v \in Pages : v < c.va /\ dir'[k][PAGEDIRIDX(v)] # Absent /\ Entry(p, v) # Zero => Entry(k, v)' # Zero
  PROVE  Heaps'
<1>1. call'[p] = c /\ \A q \in Procs : q # p => call'[q] = call[q]
  BY DEF Sound, PagingTypes
<1>2. Heap(p)'
  <2>1. PICK e : e = endpoint[p]
    OBVIOUS
  <2>2. ASSUME ~outside[p] PROVE e <= KERNEL_MMAP_VIRTUAL_START /\ Filled(p, Upto(e))
    <3>1. e <= KERNEL_MMAP_VIRTUAL_START /\ MappedTo(p, Upto(e))
      BY <2>1, <2>2, HeapNow DEF Forking
    <3>. QED  BY <3>1 DEF MappedTo, Filled
  <2>3. Copied(p, k)'
    BY <1>1 DEF Copied
  <2>4. ~outside'[p] => Inside(p)'
    BY <1>1, <2>1, <2>2 DEF Inside, MappedTo, Filled
  <2>. QED  BY <1>1, <2>3, <2>4 DEF Heap
<1>3. Heap(k)'
  BY <1>1, HeapGone
<1>4. \A q \in Procs : q \notin {p, k} => Kept(q)
  BY <1>1 DEF Kept, Untouched
<1>. QED  BY <1>2, <1>3, <1>4, HeapParent

LEMMA Paging_InitializeHeap ==
  ASSUME Sound, Heaps, NEW p \in Procs, NEW f, Paging_Initialize(p, f)
  PROVE  Heaps'
<1>0. PICK k : k = call[p].kid
  OBVIOUS
<1>. DEFINE c == [at |-> "clone", kid |-> k, va |-> 0]
<1>1. /\ call[p].at = "fork" /\ call' = [call EXCEPT ![p] = c]
      /\ directory' = [directory EXCEPT ![k] = f] /\ dir' = [dir EXCEPT ![k] = [i \in DirIndex |-> Absent]]
      /\ tab' = tab /\ endpoint' = endpoint /\ outside' = outside
  BY <1>0 DEF Paging_Initialize, At, Goto, Acquires, history, DirIndex
<1>2. k \in Procs /\ call[k].at = "booked" /\ p # k /\ Forking(p)
  BY <1>0, <1>1, CallFacts DEF Sound, SpaceOf, Forking
<1>3. c.at = "clone" /\ c.kid = k
  OBVIOUS
<1>. HIDE DEF c
<1>4. /\ \A q \in Procs : q # k => directory'[q] = directory[q] /\ dir'[q] = dir[q]
      /\ \A i \in DirIndex : dir'[k][i] = Absent
  BY <1>1, <1>2 DEF Sound, PagingTypes
<1>5. \A q \in Procs, v \in Pages : q # k => Entry(q, v)' = Entry(q, v)
  BY <1>1, <1>4 DEF Entry
<1>6. \A v \in Pages : v < c.va /\ dir'[k][PAGEDIRIDX(v)] # Absent /\ Entry(p, v) # Zero => Entry(k, v)' # Zero
  BY <1>4, PageIndex
<1>. QED  BY <1>0, <1>1, <1>2, <1>3, <1>4, <1>5, <1>6, CloneStep

LEMMA CloneFacts ==
  ASSUME Sound, Heaps, NEW p \in Procs, call[p].at = "clone"
  PROVE  \E k \in Procs : /\ k = call[p].kid /\ call[k].at = "booked" /\ p # k /\ Forking(p)
                          /\ call[p] \in [at : {"clone"}, kid : Procs, va : Nat]
                          /\ Copied(p, k)
                          /\ PagesLeft(p) = {v \in Pages : /\ v >= call[p].va
                                                           /\ dir[k][PAGEDIRIDX(v)] # Absent
                                                           /\ Entry(p, v) # Zero}
<1>1. call[p] \in [at : {"clone"}, kid : Procs, va : Nat]
  BY CloneCall DEF Sound
<1>2. PICK k \in Procs : k = call[p].kid
  BY <1>1
<1>3. call[k].at = "booked" /\ p # k /\ Forking(p) /\ Copied(p, k)
  BY <1>2 DEF Sound, SpaceOf, Forking, Heaps, Heap
<1>. QED  BY <1>1, <1>2, <1>3 DEF PagesLeft, Paging_IsPageMapped

LEMMA ClonePageHeap ==
  ASSUME Sound, Heaps, NEW p \in Procs, NEW f, ClonePage(p, f)
  PROVE  Heaps'
<1>0. call[p].at = "clone"
  BY DEF ClonePage, At
<1>1. PICK k \in Procs : /\ k = call[p].kid /\ call[k].at = "booked" /\ p # k /\ Forking(p)
                         /\ call[p] \in [at : {"clone"}, kid : Procs, va : Nat]
                         /\ Copied(p, k)
                         /\ PagesLeft(p) = {v \in Pages : /\ v >= call[p].va
                                                          /\ dir[k][PAGEDIRIDX(v)] # Absent
                                                          /\ Entry(p, v) # Zero}
  BY <1>0, CloneFacts
<1>2. PICK v, e : v = Min(PagesLeft(p)) /\ e = <<f, Entry(p, v)[2]>>
  OBVIOUS
<1>. DEFINE c == [call[p] EXCEPT !.va = v + 1]
<1>3. /\ PagesLeft(p) # {} /\ call' = [call EXCEPT ![p] = c] /\ f \in free
      /\ tab' = [tab EXCEPT ![dir[k][PAGEDIRIDX(v)]][PAGETABIDX(v)] = e]
      /\ directory' = directory /\ dir' = dir /\ endpoint' = endpoint /\ outside' = outside
  BY <1>1, <1>2 DEF ClonePage, Goto, Acquires, history
<1>4. /\ v \in Pages /\ v \in Nat /\ dir[k][PAGEDIRIDX(v)] # Absent
      /\ \A w \in PagesLeft(p) : v <= w
  <2>1. PagesLeft(p) \in SUBSET Nat
    BY PageIndex DEF PagesLeft
  <2>2. v \in PagesLeft(p) /\ \A w \in PagesLeft(p) : v <= w
    BY <1>2, <1>3, <2>1, MinIsIn
  <2>. QED  BY <1>1, <2>2, PageIndex
<1>5. c.at = "clone" /\ c.kid = k /\ c.va = v + 1 /\ call[p].va \in Nat
  BY <1>1
<1>. HIDE DEF c
<1>6. /\ Entry(k, v)' = e
      /\ \A q \in Procs, w \in Pages : ~(q = k /\ w = v) => Entry(q, w)' = Entry(q, w)
  BY ONLY Sound, k \in Procs, <1>3, <1>4, EntryWritten
<1>7. e # Zero
  BY <1>2, <1>3, Distinct DEF Zero, Sound, PagingTypes
<1>8. ASSUME NEW w \in Pages, w < c.va, dir'[k][PAGEDIRIDX(w)] # Absent, Entry(p, w) # Zero
      PROVE  Entry(k, w)' # Zero
  <2>1. CASE w = v
    BY <1>6, <1>7, <2>1
  <2>2. CASE w # v
    <3>1. w \in Nat /\ w < v
      BY <1>4, <1>5, <1>8, <2>2, PageIndex
    <3>2. w \notin PagesLeft(p)
      BY <1>4, <3>1
    <3>3. w < call[p].va
      BY <1>1, <1>3, <1>5, <1>8, <3>1, <3>2
    <3>4. Entry(k, w) # Zero
      BY <1>1, <1>3, <1>8, <3>3 DEF Copied
    <3>. QED  BY <1>6, <2>2, <3>4
  <2>. QED  BY <2>1, <2>2
<1>9. /\ \A q \in Procs : q # k => directory'[q] = directory[q] /\ dir'[q] = dir[q]
      /\ \A q \in Procs, w \in Pages : q # k => Entry(q, w)' = Entry(q, w)
  BY <1>3, <1>6
<1>10. /\ Forking(p) /\ call[p].kid = k /\ p # k /\ call[k].at = "booked" /\ call' = [call EXCEPT ![p] = c]
       /\ c.at = "clone" /\ c.kid = k /\ endpoint' = endpoint /\ outside' = outside
  BY <1>1, <1>3, <1>5
<1>. QED  BY ONLY Sound, Heaps, p \in Procs, k \in Procs, <1>8, <1>9, <1>10, CloneStep

LEMMA CloneTableHeap ==
  ASSUME Sound, Heaps, NEW p \in Procs, NEW f, CloneTable(p, f)
  PROVE  Heaps'
<1>0. call[p].at = "clone"
  BY DEF CloneTable, At
<1>1. PICK k \in Procs : /\ k = call[p].kid /\ call[k].at = "booked" /\ p # k /\ Forking(p)
                         /\ call[p] \in [at : {"clone"}, kid : Procs, va : Nat]
                         /\ Copied(p, k)
                         /\ PagesLeft(p) = {v \in Pages : /\ v >= call[p].va
                                                          /\ dir[k][PAGEDIRIDX(v)] # Absent
                                                          /\ Entry(p, v) # Zero}
  BY <1>0, CloneFacts
<1>2. PICK i : i = Min(TablesLeft(p))
  OBVIOUS
<1>. DEFINE c == [call[p] EXCEPT !.va = i * Tabs]
<1>3. /\ PagesLeft(p) = {} /\ TablesLeft(p) # {} /\ call' = [call EXCEPT ![p] = c] /\ f \in free
      /\ dir' = [dir EXCEPT ![k][i] = f]
      /\ directory' = directory /\ endpoint' = endpoint /\ outside' = outside
  BY <1>1, <1>2 DEF CloneTable, Goto, Acquires, history
<1>4. PICK held : tab' = [tab EXCEPT ![f] = held]
  BY DEF CloneTable
<1>5. i \in DirIndex /\ dir[k][i] = Absent
  <2>1. TablesLeft(p) \in SUBSET Nat
    BY DEF TablesLeft
  <2>2. i \in TablesLeft(p)
    BY <1>2, <1>3, <2>1, MinIsIn
  <2>. QED  BY <1>1, <2>2 DEF TablesLeft, DirIndex
<1>6. c.at = "clone" /\ c.kid = k /\ c.va = i * Tabs /\ call[p].va \in Nat
  BY <1>1
<1>. HIDE DEF c
<1>7. \A q \in Procs, w \in Pages : ~(q = k /\ PAGEDIRIDX(w) = i) => Entry(q, w)' = Entry(q, w)
  BY ONLY Sound, k \in Procs, <1>3, <1>4, <1>5, TableAdded
<1>8. /\ \A q \in Procs : q # k => dir'[q] = dir[q]
      /\ \A j \in DirIndex : j # i => dir'[k][j] = dir[k][j]
  BY <1>1, <1>3, <1>5 DEF Sound, PagingTypes
<1>9. ASSUME NEW w \in Pages, w < c.va, dir'[k][PAGEDIRIDX(w)] # Absent, Entry(p, w) # Zero
      PROVE  Entry(k, w)' # Zero
  <2>1. PICK m \in DirIndex : m = PAGEDIRIDX(w) /\ m # i
    <3>1. PICK m \in DirIndex, j \in TabIndex : m = PAGEDIRIDX(w) /\ w = Tabs * m + j
      BY PageIndex
    <3>2. ASSUME m = i PROVE FALSE
      <4>1. PICK x \in Nat : x = Tabs * i /\ x = i * Tabs
        BY <1>5, PagingAssumption DEF DirIndex
      <4>. QED  BY <1>6, <1>9, <3>1, <3>2, <4>1 DEF TabIndex
    <3>. QED  BY <3>1, <3>2
  <2>2. dir[k][m] # Absent
    BY <1>8, <1>9, <2>1
  <2>3. w < call[p].va
    BY <1>1, <1>3, <1>6, <1>9, <2>1, <2>2, PageIndex
  <2>4. Entry(k, w) # Zero
    BY <1>1, <1>9, <2>1, <2>2, <2>3 DEF Copied
  <2>. QED  BY <1>7, <2>1, <2>4
<1>10. /\ \A q \in Procs : q # k => directory'[q] = directory[q] /\ dir'[q] = dir[q]
       /\ \A q \in Procs, w \in Pages : q # k => Entry(q, w)' = Entry(q, w)
  BY <1>3, <1>7, <1>8
<1>11. /\ Forking(p) /\ call[p].kid = k /\ p # k /\ call[k].at = "booked" /\ call' = [call EXCEPT ![p] = c]
       /\ c.at = "clone" /\ c.kid = k /\ endpoint' = endpoint /\ outside' = outside
  BY <1>1, <1>3, <1>6
<1>. QED  BY ONLY Sound, Heaps, p \in Procs, k \in Procs, <1>9, <1>10, <1>11, CloneStep

(* The child starts with a copy of every page of its parent's heap.        *)
LEMMA ForkDoneHeap ==
  ASSUME Sound, Heaps, NEW p \in Procs, ForkDone(p)
  PROVE  Heaps'
<1>0. call[p].at = "clone"
  BY DEF ForkDone, At
<1>1. PICK k \in Procs : /\ k = call[p].kid /\ call[k].at = "booked" /\ p # k /\ Forking(p)
                         /\ call[p] \in [at : {"clone"}, kid : Procs, va : Nat]
                         /\ Copied(p, k)
                         /\ PagesLeft(p) = {v \in Pages : /\ v >= call[p].va
                                                          /\ dir[k][PAGEDIRIDX(v)] # Absent
                                                          /\ Entry(p, v) # Zero}
  BY <1>0, CloneFacts
<1>2. /\ PagesLeft(p) = {} /\ TablesLeft(p) = {} /\ call' = [call EXCEPT ![p] = InUser, ![k] = InUser]
      /\ endpoint' = [endpoint EXCEPT ![k] = endpoint[p]] /\ outside' = [outside EXCEPT ![k] = outside[p]]
      /\ directory' = directory /\ dir' = dir /\ tab' = tab
  BY <1>1 DEF ForkDone, spaces
<1>3. /\ call'[p] = InUser /\ call'[k] = InUser /\ InUser.at = "user"
      /\ endpoint'[p] = endpoint[p] /\ endpoint'[k] = endpoint[p]
      /\ outside'[p] = outside[p] /\ outside'[k] = outside[p]
      /\ \A q \in Procs : q \notin {p, k} =>
            call'[q] = call[q] /\ endpoint'[q] = endpoint[q] /\ outside'[q] = outside[q]
  BY <1>1, <1>2 DEF Sound, PagingTypes, InUser
<1>4. \A q \in Procs, v \in Pages : Entry(q, v)' = Entry(q, v)
  BY <1>2, SameEntries
<1>5. ASSUME NEW v \in Pages, Entry(p, v) # Zero PROVE Entry(k, v) # Zero
  <2>1. PICK i \in DirIndex : i = PAGEDIRIDX(v)
    BY PageIndex
  <2>2. dir[p][i] # Absent
    BY <1>5, <2>1 DEF Entry
  <2>3. dir[k][i] # Absent
    BY <1>1, <1>2, <2>2 DEF TablesLeft, DirIndex
  <2>4. v < call[p].va
    BY <1>1, <1>2, <1>5, <2>1, <2>3, PageIndex
  <2>. QED  BY <1>1, <1>5, <2>1, <2>3, <2>4 DEF Copied
<1>6. PICK e : e = endpoint[p]
  OBVIOUS
<1>7. ASSUME ~outside[p]
      PROVE  e <= KERNEL_MMAP_VIRTUAL_START /\ Filled(p, Upto(e)) /\ Filled(k, Upto(e))
  <2>1. e <= KERNEL_MMAP_VIRTUAL_START /\ MappedTo(p, Upto(e))
    BY <1>0, <1>6, <1>7, HeapNow
  <2>. QED  BY <1>4, <1>5, <2>1 DEF MappedTo, Filled
<1>8. Heap(p)' /\ Heap(k)'
  BY <1>3, <1>6, <1>7, HeapNext
<1>9. \A q \in Procs : q \notin {p, k} => Kept(q)
  BY <1>2, <1>3, <1>4 DEF Kept, Untouched
<1>. QED  BY <1>1, <1>8, <1>9, HeapParent

(* An entry that loses or gets its PRESENT flag stays an entry.            *)
LEMMA SetPresentHeap ==
  ASSUME Sound, Heaps, NEW p \in Procs, NEW v \in Pages, NEW present \in BOOLEAN, SetPresent(p, v, present)
  PROVE  Heaps'
<1>. DEFINE t == dir[p][PAGEDIRIDX(v)]
            j == PAGETABIDX(v)
<1>1. /\ call[p].at = "user" /\ Entry(p, v) # Zero
      /\ tab' = [tab EXCEPT ![t][j][2] = present]
      /\ directory' = directory /\ dir' = dir /\ endpoint' = endpoint /\ call' = call /\ outside' = outside
  BY DEF SetPresent, Call, At, Paging_IsPageMapped, history
<1>2. t # Absent /\ Entry(p, v) = tab[t][j]
  BY <1>1 DEF Entry
<1>3. PAGEDIRIDX(v) \in DirIndex /\ j \in TabIndex
  BY PageIndex
<1>4. t \in All
  BY <1>2, <1>3, TablesDiffer
<1>5. PICK g \in All \cup {Junk}, b \in BOOLEAN : Entry(p, v) = <<g, b>>
  <2>1. Entry(p, v) \in (All \cup {Junk}) \X BOOLEAN
    BY <1>1, TabTypes DEF Sound, Entries
  <2>2. \A x \in (All \cup {Junk}) \X BOOLEAN : x = <<x[1], x[2]>> /\ x[1] \in All \cup {Junk} /\ x[2] \in BOOLEAN
    OBVIOUS
  <2>3. PICK x \in (All \cup {Junk}) \X BOOLEAN : x = Entry(p, v)
    BY <2>1
  <2>. QED  BY <2>2, <2>3
<1>6. PICK e : e = <<g, present>> /\ e # Zero
  <2>1. PICK e : e = <<g, present>>
    OBVIOUS
  <2>2. e[1] = g /\ Zero[1] = Absent /\ g # Absent
    BY <2>1, Distinct
  <2>. QED  BY <2>1, <2>2
<1>7. tab' = [tab EXCEPT ![t][j] = e]
  <2>1. [tab[t][j] EXCEPT ![2] = present] = e
    BY <1>2, <1>5, <1>6
  <2>. QED  BY <1>1, <2>1
<1>8. /\ Entry(p, v)' = e
      /\ \A q \in Procs, w \in Pages : ~(q = p /\ w = v) => Entry(q, w)' = Entry(q, w)
  <2>1. dir[p][PAGEDIRIDX(v)] # Absent /\ dir' = dir /\ tab' = [tab EXCEPT ![dir[p][PAGEDIRIDX(v)]][PAGETABIDX(v)] = e]
    BY <1>1, <1>2, <1>7
  <2>. QED  BY ONLY Sound, p \in Procs, v \in Pages, <2>1, EntryWritten
<1>9. Heap(p)'
  <2>1. PICK c, d : c = call[p] /\ d = endpoint[p]
    OBVIOUS
  <2>2. ASSUME ~outside[p] PROVE d <= KERNEL_MMAP_VIRTUAL_START /\ Filled(p, Upto(d))
    <3>1. d <= KERNEL_MMAP_VIRTUAL_START /\ MappedTo(p, Upto(d))
      BY <1>1, <2>1, <2>2, HeapNow
    <3>. QED  BY <1>6, <1>8, <3>1 DEF MappedTo, Filled
  <2>. QED  BY <1>1, <2>1, <2>2, HeapNext
<1>10. \A q \in Procs : q # p => Kept(q)
  BY <1>1, <1>8 DEF Kept, Untouched
<1>. QED  BY <1>1, <1>9, <1>10, HeapLocal

-----------------------------------------------------------------------------
(* The heaps of every reachable state.                                     *)

LEMMA HeapInit == Init => Heaps
<1>. SUFFICES ASSUME Init PROVE Heaps
  OBVIOUS
<1>0. Sound /\ First \in Procs
  BY PagingInit, PagingAssumption DEF PagingInv, Init
<1>1. /\ call = [p \in Procs |-> IF p = First THEN InUser ELSE [at |-> "none"]]
      /\ endpoint = [p \in Procs |-> IF p = First THEN PageSize ELSE 0]
      /\ outside = [p \in Procs |-> FALSE]
  BY DEF Init
<1>2. PICK n \in Nat : n = 1 /\ n <= Dirs * Tabs
  BY PagingAssumption
<1>3. PageSize \in Nat /\ PageSize <= KERNEL_MMAP_VIRTUAL_START /\ Upto(PageSize) = 1
  <2>1. n * PageSize = PageSize
    BY <1>2, PagingAssumption
  <2>. QED  BY <1>2, <2>1, PageStart
<1>4. 0 \in Pages /\ Entry(First, 0) # Zero
  <2>1. PICK t \in Frames, g \in Frames :
          /\ dir = [p \in Procs |-> [i \in DirIndex |-> IF p = First /\ i = 0 THEN t ELSE Absent]]
          /\ tab = [f \in All |-> IF f = t THEN [FreshTable EXCEPT ![0] = <<g, TRUE>>] ELSE FreshTable]
    BY InitFrames
  <2>2. /\ 0 \in DirIndex /\ 0 \in TabIndex /\ 0 \in Pages
        /\ PAGEDIRIDX(0) = 0 /\ PAGETABIDX(0) = 0
    <3>1. 0 \in DirIndex /\ 0 \in TabIndex
      BY PagingAssumption DEF DirIndex, TabIndex
    <3>2. Tabs \in Nat /\ Tabs * 0 + 0 = 0
      BY PagingAssumption
    <3>. QED  BY <3>1, <3>2, PageOfIndex
  <2>3. dir[First][0] = t /\ t \in All /\ t # Absent
    BY <1>0, <2>1, <2>2, Distinct DEF All
  <2>4. tab[t][0] = <<g, TRUE>>
    BY <2>1, <2>2, <2>3 DEF FreshTable, TabIndex
  <2>5. Entry(First, 0) = <<g, TRUE>>
    BY <2>2, <2>3, <2>4 DEF Entry
  <2>6. Entry(First, 0)[1] = g /\ Zero[1] = Absent /\ g # Absent
    BY <2>5, Distinct DEF All
  <2>. QED  BY <2>2, <2>6
<1>5. ASSUME NEW p \in Procs PROVE Heap(p)
  <2>1. CASE p = First
    <3>1. call[p].at = "user" /\ endpoint[p] = PageSize
      BY <1>1, <2>1 DEF InUser
    <3>2. MappedTo(p, Upto(endpoint[p]))
      <4>1. \A v \in Pages : v < 1 => v = 0
        BY PageIndex
      <4>. QED  BY <1>3, <1>4, <2>1, <3>1, <4>1 DEF MappedTo
    <3>. QED  BY <1>3, <3>1, <3>2 DEF Heap, Inside
  <2>2. CASE p # First
    <3>1. call[p].at = "none" /\ endpoint[p] = 0
      BY <1>1, <2>2
    <3>2. 0 <= KERNEL_MMAP_VIRTUAL_START
      BY <1>3, AddressTypes
    <3>. QED  BY <3>1, <3>2 DEF Heap, Inside
  <2>. QED  BY <2>1, <2>2
<1>. QED  BY <1>5 DEF Heaps

(* One case for every action again.  A step that goes wild, or that has    *)
(* gone wild before, owes nothing.                                         *)
LEMMA HeapStep == PagingInv /\ HeapInv /\ [Next]_vars => HeapInv'
<1>. SUFFICES ASSUME PagingInv, HeapInv, [Next]_vars, wild' = "no" PROVE Heaps'
  BY DEF HeapInv
<1>1. CASE UNCHANGED vars
  <2>1. UNCHANGED <<directory, dir, tab, endpoint, call, wild, outside>>
    BY <1>1 DEF vars, spaces, history
  <2>2. Heaps
    BY <2>1 DEF HeapInv
  <2>. QED  BY <2>1, <2>2 DEF Heaps, Heap, Inside, MappedTo, Copied, Entry
<1>2. ASSUME NEW p \in Procs, ShiftStep(p) PROVE Heaps'
  <2>0. Sound /\ Heaps
    BY <1>2 DEF PagingInv, HeapInv, ShiftStep, Grow, Shrink, Enter, Call, MapAcquire, MapTable, MapOutOfMemory,
                MapTableOutOfMemory, Paging_MapPage, MapRefused, MapKernel, UnmapRelease, UnmapClear, UnmapDone, At
  <2>1. ASSUME NEW shift \in Shifts, Grow(p, shift) \/ Shrink(p, shift) PROVE Heaps'
    BY <2>0, <2>1, GrowHeap, ShrinkHeap
  <2>2. ASSUME NEW f \in Offered(free), MapAcquire(p, f) \/ MapTable(p, f) PROVE Heaps'
    BY <2>0, <2>2, MapAcquireHeap, MapTableHeap
  <2>3. CASE MapOutOfMemory(p) \/ MapRefused(p)
    BY <2>0, <2>3, MapStopsHeap
  <2>4. CASE MapTableOutOfMemory(p)
    BY <2>0, <2>4, StuckHeap
  <2>5. CASE Paging_MapPage(p)
    BY <2>0, <2>5, Paging_MapPageHeap
  <2>6. CASE MapKernel(p)
    BY <2>6 DEF MapKernel
  <2>7. CASE UnmapRelease(p)
    BY <2>0, <2>7, UnmapReleaseHeap
  <2>8. CASE UnmapClear(p)
    BY <2>0, <2>8, UnmapClearHeap
  <2>9. CASE UnmapDone(p)
    BY <2>0, <2>9, UnmapDoneHeap
  <2>. QED
    BY <1>2, <2>1, <2>2, <2>3, <2>4, <2>5, <2>6, <2>7, <2>8, <2>9 DEF ShiftStep
<1>3. ASSUME NEW p \in Procs, TerminateStep(p) PROVE Heaps'
  <2>0. Sound /\ Heaps
    BY <1>3 DEF PagingInv, HeapInv, TerminateStep, Process_Terminate, Enter, Call, TerminateTable, TerminateDirectory, At
  <2>. QED  BY <1>3, <2>0, Process_TerminateHeap, TerminateHeap DEF TerminateStep
<1>4. ASSUME NEW p \in Procs, ForkStep(p) PROVE Heaps'
  <2>0. Sound /\ Heaps
    BY <1>4 DEF PagingInv, HeapInv, ForkStep, Fork, Call, Paging_Initialize, ClonePage, CloneTable, ForkOutOfMemory,
                ForkDone, At
  <2>1. ASSUME NEW k \in Procs, Fork(p, k) PROVE Heaps'
    BY <2>0, <2>1, ForkHeap
  <2>2. ASSUME NEW f \in Offered(free), Paging_Initialize(p, f) PROVE Heaps'
    BY <2>0, <2>2, Paging_InitializeHeap
  <2>3. ASSUME NEW f \in Offered(free), ClonePage(p, f) PROVE Heaps'
    BY <2>0, <2>3, ClonePageHeap
  <2>4. ASSUME NEW f \in Offered(free), CloneTable(p, f) PROVE Heaps'
    BY <2>0, <2>4, CloneTableHeap
  <2>5. CASE ForkOutOfMemory(p)
    BY <2>0, <2>5, StuckHeap
  <2>6. CASE ForkDone(p)
    BY <2>0, <2>6, ForkDoneHeap
  <2>. QED  BY <1>4, <2>1, <2>2, <2>3, <2>4, <2>5, <2>6 DEF ForkStep
<1>5. ASSUME NEW p \in Procs, NEW v \in Pages, NEW present \in BOOLEAN, SetPresent(p, v, present) PROVE Heaps'
  <2>0. Sound /\ Heaps
    BY <1>5 DEF PagingInv, HeapInv, SetPresent, Call, At
  <2>. QED  BY <1>5, <2>0, SetPresentHeap
<1>. QED  BY <1>1, <1>2, <1>3, <1>4, <1>5 DEF Next

(* Every page below the end point of a process has an entry, for any       *)
(* number of processes, sizes of pages and tables and lengths of shifts,   *)
(* and for every child that Process_Fork makes, while no shift has taken   *)
(* the end point out of the user half.                                     *)
THEOREM HeapsAreMapped == Spec => []HeapMapped
<1>1. Init => HeapInv
  BY HeapInit DEF HeapInv
<1>2. PagingInv /\ HeapInv => HeapMapped
  <2>. SUFFICES ASSUME PagingInv, HeapInv, NEW p \in Procs, At(p, "user"), ~outside[p],
                       NEW v \in Pages, (v + 1) * PageSize <= endpoint[p]
                PROVE  Entry(p, v) # Zero
    BY DEF HeapMapped, Paging_IsPageMapped
  <2>1. Sound /\ Heaps /\ call[p].at = "user"
    BY DEF PagingInv, HeapInv, At
  <2>2. PICK e \in Nat : e = endpoint[p] /\ MappedTo(p, Upto(e))
    BY <2>1, HeapNow
  <2>3. v < Upto(e)
    BY <2>2, WholePages
  <2>. QED  BY <2>2, <2>3 DEF MappedTo
<1>. QED  BY <1>1, <1>2, HeapStep, PagingInvariance, PTL DEF Spec
=============================================================================
