----------------------------- MODULE MCZkMemory -----------------------------
(* ZkMemory on two cells and an index that is out of range, with every value *)
(* a prover can commit to; the run on three announced accesses has one cell.  *)
EXTENDS ZkMemory
=============================================================================
