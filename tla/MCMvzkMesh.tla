----------------------------- MODULE MCMvzkMesh -----------------------------
(* MvzkMesh with three verifiers and channels that hold one piece.          *)
EXTENDS MvzkMesh

\* The messages of zero_shares() and of the echo do not fit a channel.
Lengths == [k \in Kinds |-> IF k \in {"echo", "zero"} THEN 2 ELSE 1]

\* Every verifier deals 1 to each of the others but the last.
Ones == {[i \in Verifier |-> IF i = n - 1 THEN 0 ELSE 1]}

Brings(check, digest, share, err) ==
  [check |-> check,
   digest |-> [i \in Verifier |-> digest[i + 1]],
   share |-> [i \in Verifier |-> share[i + 1]],
   err |-> [i \in Verifier |-> err[i + 1]]]

\* Right ones, a differing digest, MAC errors of one verifier and of two that
\* cancel, and a wrong product.
Inputs ==
  {Brings("batch",  <<5, 5, 5>>, <<0, 1, 2>>, <<0, 1, 2>>),
   Brings("batch",  <<5, 5, 5>>, <<0, 0, 1>>, <<2, 0, 1>>),
   Brings("batch",  <<5, 5, 6>>, <<0, 0, 0>>, <<0, 0, 0>>),
   Brings("public", <<5, 5, 5>>, <<0, 0, 0>>, <<1, 2, 0>>),
   Brings("public", <<5, 5, 5>>, <<0, 0, 0>>, <<0, 1, 0>>),
   Brings("public", <<5, 6, 5>>, <<0, 0, 0>>, <<0, 0, 0>>)}
=============================================================================
