-------------------------------- MODULE BoolIO --------------------------------
(***************************************************************************)
(* The bit channel of the boolean protocol (emp-zk-bool/bool_io.h).  Bits  *)
(* travel from ALICE to BOB only, packed into blocks of STAGE; bytes travel *)
(* both ways.  Both use one connection, so that each end must know, from   *)
(* its own calls alone, where a block was cut short: whatever ends a block *)
(* on ALICE's side (its padding) must make BOB drop the rest of his.       *)
(* The Fiat-Shamir transcript hashes what crosses the connection, and the  *)
(* challenges of the checks are the two ends' digests of it.               *)
(*                                                                         *)
(* The two parties make the same calls, chosen as they go.  The channel    *)
(* under BoolIO is external: in order, and what was sent is certain to     *)
(* arrive only after a flush.                                              *)
(***************************************************************************)
EXTENDS BitChannel

Peer(p) == IF p = ALICE THEN BOB ELSE ALICE

\* A bit from ALICE; bytes from ALICE; bytes from BOB and his caller's flush;
\* a flush by both; a flush and a Fiat-Shamir challenge.
Call == {"bit", "down", "up", "flush", "challenge"}

netVars == <<chan, visible, log>>
vars == <<prog, at, flushed, stage, chan, visible, got, log, seeds>>

Pad == 0
Block(bits) == [kind |-> "bits", data |-> bits]
Bytes(k)    == [kind |-> "bytes", data |-> <<k>>]

Init ==
  /\ prog = << >> /\ at = [p \in Party |-> 1]
  /\ flushed = [p \in Party |-> FALSE]
  /\ stage = [p \in Party |-> << >>]
  /\ chan = [p \in Party |-> << >>] /\ visible = [p \in Party |-> 0]
  /\ got = [p \in Party |-> << >>]
  /\ log = [p \in Party |-> << >>] /\ seeds = [p \in Party |-> << >>]

\* The first party to get there chooses the call; the other makes the same.
Calls(p, c) ==
  /\ at[p] <= MaxCalls
  /\ IF at[p] <= Len(prog)
     THEN prog[at[p]] = c /\ UNCHANGED prog
     ELSE prog' = Append(prog, c)

Done(p) == at' = [at EXCEPT ![p] = @ + 1]

\* io->send_data() and io->send_bool() of the items, the first `out` of all
\* that is under way flushed.
Put(p, items, out) ==
  /\ chan' = [chan EXCEPT ![p] = @ \o items]
  /\ log' = [log EXCEPT ![p] = @ \o items]
  /\ visible' = [visible EXCEPT ![p] = IF out > @ THEN out ELSE @]

\* io->recv_data() and io->recv_bool() of the next item.
Get(p) ==
  /\ visible[Peer(p)] > 0
  /\ chan' = [chan EXCEPT ![Peer(p)] = Tail(@)]
  /\ visible' = [visible EXCEPT ![Peer(p)] = @ - 1]
  /\ log' = [log EXCEPT ![p] = Append(@, Head(chan[Peer(p)]))]

Received(p, data) == got' = [got EXCEPT ![p] = Append(@, <<at[p], data>>)]

\* The blocks flush() sends: ALICE's staged bits, padded.
Staged(p) ==
  IF p = ALICE /\ stage[p] # << >>
  THEN <<Block([i \in 1 .. STAGE |-> IF i <= Len(stage[p]) THEN stage[p][i] ELSE Pad])>>
  ELSE << >>

\* Mutant: BOB's flush() does not touch his staging buffer.
UnstageSender(p) ==
  IF p = ALICE THEN stage' = [stage EXCEPT ![p] = << >>] ELSE UNCHANGED stage

\* What flush() leaves staged: nothing on either side.
Unstage(p) == stage' = [stage EXCEPT ![p] = << >>]

FlushAll(p) == Put(p, Staged(p), Len(chan[p]) + Len(Staged(p))) /\ Unstage(p)

-----------------------------------------------------------------------------
\* send_bit(): a full block is sent.
SendBit ==
  /\ Calls(ALICE, "bit")
  /\ LET bits == Append(stage[ALICE], at[ALICE])
     IN  IF Len(bits) = STAGE
         THEN Put(ALICE, <<Block(bits)>>, 0) /\ Unstage(ALICE)
         ELSE stage' = [stage EXCEPT ![ALICE] = bits] /\ UNCHANGED netVars
  /\ Done(ALICE)
  /\ UNCHANGED <<flushed, got, seeds>>

\* recv_bit(): a new block when the last one is used up.
RecvBit ==
  /\ Calls(BOB, "bit")
  /\ LET bits == IF stage[BOB] = << >> THEN Head(chan[ALICE]).data ELSE stage[BOB]
     IN  /\ IF stage[BOB] = << >> THEN Get(BOB) ELSE UNCHANGED netVars
         /\ stage' = [stage EXCEPT ![BOB] = Tail(bits)]
         /\ Received(BOB, Head(bits))
  /\ Done(BOB)
  /\ UNCHANGED <<flushed, seeds>>

\* send_data_internal(): flush() unless ptr = 0, which BOB's never is; then
\* the bytes, which only BOB's callers flush at once.
SendData(p, c) ==
  /\ Calls(p, c)
  /\ Put(p, Staged(p) \o <<Bytes(at[p])>>,
         IF p = BOB \/ stage[p] # << >> THEN Len(chan[p]) + 1 ELSE 0)
  /\ Unstage(p)
  /\ Done(p)
  /\ UNCHANGED <<flushed, got, seeds>>

\* recv_data_internal(): flush() unless ptr = STAGE, which ALICE's never is ...
BeforeRecvData(p, c) ==
  /\ Calls(p, c) /\ ~flushed[p]
  /\ flushed' = [flushed EXCEPT ![p] = TRUE]
  /\ FlushAll(p)
  /\ UNCHANGED <<at, got, seeds>>

\* ... then the bytes.
RecvData(p, c) ==
  /\ Calls(p, c) /\ flushed[p]
  /\ Get(p)
  /\ Received(p, Head(Head(chan[Peer(p)]).data))
  /\ flushed' = [flushed EXCEPT ![p] = FALSE]
  /\ Done(p)
  /\ UNCHANGED <<stage, seeds>>

\* flush() called by both.
Flush(p) ==
  /\ Calls(p, "flush")
  /\ FlushAll(p)
  /\ Done(p)
  /\ UNCHANGED <<flushed, got, seeds>>

\* Mutant: the digest is taken before the flush.
ChallengeUnflushed(p) ==
  /\ Calls(p, "challenge")
  /\ FlushAll(p)
  /\ seeds' = [seeds EXCEPT ![p] = Append(@, log[p])]
  /\ Done(p)
  /\ UNCHANGED <<flushed, got>>

\* io->flush(); seed = io->io->get_digest().
Challenge(p) ==
  /\ Calls(p, "challenge")
  /\ FlushAll(p)
  /\ seeds' = [seeds EXCEPT ![p] = Append(@, log'[p])]
  /\ Done(p)
  /\ UNCHANGED <<flushed, got>>

\* ~BoolIO().
Close(p) ==
  /\ at[p] = MaxCalls + 1
  /\ FlushAll(p)
  /\ Done(p)
  /\ UNCHANGED <<prog, flushed, got, seeds>>

\* The channel's send buffer runs over.
SpontaneousWrite(p) ==
  /\ visible[p] < Len(chan[p])
  /\ visible' = [visible EXCEPT ![p] = @ + 1]
  /\ UNCHANGED <<prog, at, flushed, stage, chan, got, log, seeds>>

-----------------------------------------------------------------------------
Closed == \A p \in Party : at[p] = MaxCalls + 2
Terminated == Closed /\ UNCHANGED vars

PartyStep(p) ==
  \/ Flush(p) \/ Challenge(p) \/ Close(p)
  \/ IF p = ALICE
     THEN SendBit \/ SendData(p, "down") \/ BeforeRecvData(p, "up") \/ RecvData(p, "up")
     ELSE RecvBit \/ SendData(p, "up") \/ BeforeRecvData(p, "down") \/ RecvData(p, "down")

Next ==
  \/ \E p \in Party : PartyStep(p) \/ SpontaneousWrite(p)
  \/ Terminated

Spec == Init /\ [][Next]_vars
=============================================================================
