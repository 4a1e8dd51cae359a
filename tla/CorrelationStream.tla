-------------------------- MODULE CorrelationStream --------------------------
(***************************************************************************)
(* What the background hand-off promises the engine that draws from it,    *)
(* with no threads, locks or slots: the sVOLE's correlations, in order,    *)
(* each exactly once, published a round at a time and at most N rounds     *)
(* ahead of the engine (the header comment of                              *)
(* emp-zk-arith/correlation_pipe.h and draw_vole_ in ostriple.h: "same     *)
(* deterministic correlation stream in the same order either way").        *)
(***************************************************************************)
EXTENDS Integers, Sequences

CONSTANTS N, Batch, MaxDraw

VARIABLES
  published,  \* rounds the engine may draw from
  owed,       \* correlations the running draw still waits for
  given,      \* every correlation delivered
  phase       \* "open", "closing" (destructor running) or "closed"

streamVars == <<published, owed, given, phase>>

\* Correlations of a partly used round that count as used: the destructor gives
\* the round it was drawing from back to the ring.
Slack == IF phase = "open" THEN 0 ELSE Batch - 1

StreamInit ==
  /\ published = 0 /\ owed = 0
  /\ given = << >>
  /\ phase = "open"

PublishRound ==
  /\ phase # "closed"
  /\ (published + 1) * Batch <= Len(given) + Slack + N * Batch
  /\ published' = published + 1
  /\ UNCHANGED <<owed, given, phase>>

Request(n) ==
  /\ phase = "open" /\ owed = 0
  /\ owed' = n
  /\ UNCHANGED <<published, given, phase>>

\* The next n correlations of the stream, and no others.
Deliver(n) ==
  /\ phase = "open"
  /\ n <= owed /\ Len(given) + n <= published * Batch
  /\ given' = given \o [k \in 1 .. n |-> Len(given) + k - 1]
  /\ owed' = owed - n
  /\ UNCHANGED <<published, phase>>

BeginClose ==
  /\ phase = "open" /\ owed = 0
  /\ phase' = "closing"
  /\ UNCHANGED <<published, owed, given>>

EndClose ==
  /\ phase = "closing"
  /\ phase' = "closed"
  /\ UNCHANGED <<published, owed, given>>

DeliverSome == \E n \in 1 .. MaxDraw : Deliver(n)

StreamNext ==
  \/ PublishRound
  \/ \E n \in 1 .. MaxDraw : Request(n)
  \/ DeliverSome
  \/ BeginClose \/ EndClose

\* A draw the published rounds can serve is served, an idle ring is refilled,
\* and the destructor finishes.
StreamSpec ==
  /\ StreamInit /\ [][StreamNext]_streamVars
  /\ WF_streamVars(PublishRound)
  /\ WF_streamVars(DeliverSome)
  /\ WF_streamVars(EndClose)

=============================================================================
