-------------------------- MODULE MCPageAllocator --------------------------
(* Instances of PageAllocator for TLC.                                     *)
EXTENDS PageAllocator, TLC

Chunk(b, s) == [base |-> b, size |-> s]

(* A chunk cut at both ends; chunks that lie below and above what is       *)
(* managed, around one whose last frames are passed over; and one that     *)
(* runs past 4 GB with a block beyond the window.                          *)
MCMemoryMaps == {<<Chunk(1, 6)>>,
                 <<Chunk(0, 1), Chunk(0, 0), Chunk(4, 6), Chunk(12, 2), Chunk(20, 1)>>,
                 <<Chunk(2, 15)>>}

Symmetry == Permutations(CPUs)
=============================================================================
