----------------------------- MODULE MvzkParties -----------------------------
(* The verifiers of the multi-verifier protocol, by their ids.             *)
EXTENDS Integers

CONSTANT n  \* verifiers

ASSUME NAssumption == n \in Nat \ {0, 1}

Verifier == 0 .. n - 1
Peers(i) == Verifier \ {i}
=============================================================================
