---------------------------- MODULE MCAbortGuard ----------------------------
(* AbortGuard with two verifiers and the prover, and at most one crash.      *)
EXTENDS AbortGuard
=============================================================================
