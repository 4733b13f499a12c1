-------------------------- MODULE MCBlockAllocator --------------------------
(* An instance of BlockAllocator for TLC. *)
EXTENDS BlockAllocator

CONSTANTS t1, t2, t3, b1, b2, b3, b4

ThreeThreads == {t1, t2, t3}
FourBlocks == {b1, b2, b3, b4}
ThreeAndOne == <<<<b1, b2, b3>>, <<b4>>>>

=============================================================================
