------------------------------ MODULE MCPaging ------------------------------
(* Instances of Paging for TLC.                                            *)
EXTENDS Paging

(* Within a page, by a page, over several, and past either end.            *)
TheShifts == {-8, -5, -2, 1, 3}

(* Frames differ by their numbers only: of the free ones, either end.      *)
Ends(S) == IF S = {} THEN {} ELSE {Min(S), Max(S)}
=============================================================================
