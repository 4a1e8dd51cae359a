----------------------------- MODULE MCMvzkWires -----------------------------
(* MvzkWires on every short program, and on longer ones as far as they bear   *)
(* on a question: programs of four calls that leave wires unresolved, and of  *)
(* five that record products, so that a batch, a check and an extend end in   *)
(* the middle of them.                                                        *)
EXTENDS MvzkWires

Resolving   == Kinds \ {"pub", "check", "addc"}
Multiplying == {"feed", "mult"}

Only(kinds) == \A i \in DOMAIN prog : prog[i].kind \in kinds \union {"finalize"}

\* The programs of the run, as far as they have got.
Longest ==
  /\ Len(prog) > 3 => Only(Resolving)
  /\ Len(prog) > 4 => Only(Multiplying)
=============================================================================
