----------------------------- MODULE MCMvzkNVole -----------------------------
(* MvzkNVole with verifiers that serve different numbers of peers at a time. *)
EXTENDS MvzkNVole

\* One thread at the ends, two in the middle.
Mixed == [i \in Verifier |-> IF i \in {0, n - 1} THEN 1 ELSE 2]
=============================================================================
