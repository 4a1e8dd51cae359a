---------------------------- MODULE MCFpOSTriple ----------------------------
(* FpOSTriple on programs whose draws and batches straddle the rounds: a     *)
(* draw longer than both slots of the ring, a multiplication call longer    *)
(* than a batch, and one that ends the proof in mid-batch.                   *)
EXTENDS FpOSTriple

Op(op, n) == [op |-> op, n |-> n]

ShortPrograms == {
  << >>,
  <<Op("input", 1), Op("input", 5)>>,
  <<Op("input", 1), Op("mul", 3), Op("reveal", 1)>>,
  <<Op("mul", 1), Op("zero", 1), Op("mul", 2)>> }

NoCalls == { << >> }
=============================================================================
