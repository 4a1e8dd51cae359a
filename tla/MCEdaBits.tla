------------------------------ MODULE MCEdaBits ------------------------------
(* EdaBits with buckets of three, two batches to a buffer, and conversions of *)
(* one to three values, so that chunks meet the end of a batch and of the     *)
(* buffer.  The first batch may hold wrong candidates whose errors cancel,    *)
(* and booleans outside the field.                                           *)
EXTENDS EdaBits

Pair(a, b) == [fp |-> a, f2 |-> b]
Batches(pairs) == [0 .. ell - 1 -> pairs]
SmallFirst == Batches({Pair(1, 1), Pair(1, 2), Pair(1, 0)})
              \cup Batches({Pair(1, 1), Pair(2, 2)})
              \cup Batches({Pair(1, 1), Pair(1, 4)}) \cup Batches({Pair(2, 2), Pair(1, 6)})
SmallLater == Batches({Pair(2, 2)})
SmallInputs == {[op |-> "bool2arith", in |-> <<1>>], [op |-> "arith2bool", in |-> <<2>>],
                [op |-> "bool2arith", in |-> <<0, 2, 1>>],
                [op |-> "arith2bool", in |-> <<2, 0, 1>>]}
=============================================================================
