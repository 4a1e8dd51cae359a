---------------------------- MODULE MCBoolEngine ----------------------------
(* BoolEngine on programs that cross every limit: AND gates and openings    *)
(* over batch and slot boundaries, a commitment longer than the ring, F_2^k *)
(* values over the ends of both VOLE buffers between bits, polynomial       *)
(* relations, permutations of two and of five elements, and one of elements *)
(* folded twice whose first product finds the F_2^k buffer full.            *)
EXTENDS BoolEngine

SmallPrograms == {
  <<Call("feed", 2), Call("and", 3), Call("reveal", 1), Call("and", 2)>>,
  <<Call("feed", 1), Call("feed", 6)>>,
  <<Call("f2kin", 1), Call("f2kmul", 1), Call("poly", 1), Call("f2kmul", 1), Call("poly", 1),
    Call("f2kmul", 1), Call("poly", 1), Call("f2kin", 1), Call("f2kin", 1)>>,
  <<Call("f2kmul", 1), Call("and", 1), Call("f2kmul", 1), Call("and", 1)>>,
  <<Call("feed", 1), Call("permute_wide", 5), Call("permute", 2)>>,
  <<Call("f2kmul", 1), Call("f2kmul", 1), Call("compress", 1), Call("permute_wide", 2)>> }
=============================================================================
