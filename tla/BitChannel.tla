------------------------------ MODULE BitChannel ------------------------------
(***************************************************************************)
(* What the two ends of the boolean protocol's bit channel keep, and what  *)
(* the channel promises them.  BoolIO holds its steps.                     *)
(***************************************************************************)
EXTENDS Integers, Sequences

CONSTANTS
  STAGE,   \* NETWORK_STAGING_BUFFER_SIZE, in bits
  MaxCalls \* calls each party makes (bound of the model)

ASSUME StageAssumption == STAGE \in Nat \ {0}
ASSUME CallsAssumption == MaxCalls \in Nat

ALICE == "ALICE"
BOB   == "BOB"
Party == {ALICE, BOB}

VARIABLES
  prog,    \* the calls chosen so far, the same for both
  at,      \* at[p]: the call p makes next
  flushed, \* p has flushed and waits for the bytes of its call
  stage,   \* ALICE's bits in buf[0 .. ptr-1], BOB's in buf[ptr .. STAGE-1]
  chan,    \* chan[p]: blocks and bytes p sent that its peer has not received
  visible, \* how many of them have left p's send buffer
  got,     \* got[p]: what p has received, by call
  log,     \* log[p]: the transcript of p's inner channel
  seeds    \* seeds[p]: the transcripts p drew its challenges from

-----------------------------------------------------------------------------
(* Properties.                                                             *)

\* Every call receives what the same call of the peer sent, though bits and
\* bytes share the connection and blocks are cut short ("Pending bits must
\* reach the wire before any byte op so the bit and byte streams stay ordered
\* on the shared connection", bool_io.h:68-69).
StreamsOrdered ==
  \A p \in Party : \A k \in DOMAIN got[p] : got[p][k][2] = got[p][k][1]

\* The two ends draw every Fiat-Shamir challenge from the same transcript
\* ("it absorbs every byte that actually crosses the wire [...] in true wire
\* order", bool_io.h:11-12): a challenge that differed would fail an honest
\* proof.
SeedsAgree ==
  \A k \in DOMAIN seeds[ALICE] \cap DOMAIN seeds[BOB] : seeds[ALICE][k] = seeds[BOB][k]
=============================================================================
