------------------------------ MODULE MCBoolIO ------------------------------
(* BoolIO with blocks of three bits and every program of six calls.         *)
EXTENDS BoolIO
=============================================================================
