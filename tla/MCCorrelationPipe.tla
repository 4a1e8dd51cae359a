-------------------------- MODULE MCCorrelationPipe --------------------------
(* CorrelationPipe on a small ring: the draws cross several slot boundaries  *)
(* and the indices of the ring wrap.                                         *)
EXTENDS CorrelationPipe
=============================================================================
