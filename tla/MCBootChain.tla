---------------------------- MODULE MCBootChain ----------------------------
(* BootChain on a small instance.                                          *)
EXTENDS BootChain

MCBlocks == {[lba |-> 0, num_sectors |-> 0], [lba |-> 3, num_sectors |-> 2], [lba |-> 7, num_sectors |-> 4]}
MCPnP == {[es |-> 0, di |-> 5], [es |-> 3, di |-> 5]}
=============================================================================
