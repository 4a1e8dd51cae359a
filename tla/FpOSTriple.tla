------------------------------ MODULE FpOSTriple ------------------------------
(***************************************************************************)
(* The arithmetic engine in background mode: the prover (ALICE) and the    *)
(* verifier (BOB) each run FpOSTriple (emp-zk-arith/ostriple.h) on the main *)
(* socket, and each has a producer thread that runs the sVOLE with the     *)
(* other party's producer on a second socket.                              *)
(*                                                                         *)
(* Both engines execute the same program: commitments, multiplications,    *)
(* openings and zero checks, each of one or of several values.  An         *)
(* operation is a list of steps (draw correlations, send, receive, flush), *)
(* and each step is one action, so that the parties drift apart as far as  *)
(* the code lets them.                                                     *)
(* A correlation is its index in the stream; the hand-off from the         *)
(* producer is the one CorrelationPipe implements, seen from outside:      *)
(* rounds published, rounds released, and an offset in the round in use.   *)
(***************************************************************************)
EXTENDS Integers, Sequences, Functions

CONSTANTS
  N,         \* slots of each party's pipe (BG_SLOTS)
  Batch,     \* correlations per extension round (bg_batch_)
  CHECK_SZ,  \* multiplications per batch check
  Programs   \* the programs to run: sequences of operations [op, n]

ASSUME NAssumption     == N \in Nat \ {0}
ASSUME BatchAssumption == Batch \in Nat \ {0}
ASSUME CheckAssumption == CHECK_SZ \in Nat \ {0}

ALICE == "ALICE"
BOB   == "BOB"
Party == {ALICE, BOB}
Peer(p) == IF p = ALICE THEN BOB ELSE ALICE

Operation == [op : {"input", "mul", "reveal", "zero"}, n : Nat \ {0}]

ASSUME ProgramsAssumption == \A q \in Programs : q \in Seq(Operation)

VARIABLES
  prog,     \* the program, the same for both parties
  at,       \* at[p]: the operation p executes next
  left,     \* left[p]: multiplications of the running call still to do
  todo,     \* todo[p]: steps of the running call still to do
  reg,      \* reg[p]: correlations drawn by the running call
  buf,      \* andgate_out_buffer: a pre-drawn correlation, or Spent
  cnt,      \* check_cnt
  gates,    \* multiplications executed
  checked,  \* multiplications covered by a batch check
  masks,    \* correlations that have masked a value, in order
  hash,     \* calls whose MACs FpAuthHelper has absorbed, in order
  made,     \* rounds published into p's pipe
  used,     \* rounds p has released
  hold,     \* p holds a round to draw from (cur_slot_ >= 0)
  off,      \* its consume offset (cur_off_)
  flushed,  \* p has flushed and waits in acquire_ready()
  joined,   \* rounds p's producer has entered
  producer, \* p's producer thread: "acquire", "round", "exited"
  done,     \* p's pipe is finished
  chan,     \* chan[p]: messages p sent that the peer has not received
  visible   \* how many of them have left p's send buffers

engineVars == <<prog, at, left, todo, reg, buf, cnt, gates, checked, masks, hash>>
drawVars   == <<used, hold, off, flushed>>
roundVars  == <<made, joined, producer>>
netVars    == <<chan, visible>>
vars == <<prog, at, left, todo, reg, buf, cnt, gates, checked, masks, hash,
          made, used, hold, off, flushed, joined, producer, done, chan, visible>>

Spent == -1
Lesser(a, b) == IF a < b THEN a ELSE b

-----------------------------------------------------------------------------
(* The calls, as lists of steps.                                           *)

Flush       == [do |-> "flush"]
Finish      == [do |-> "finish"]
Draw(n, to) == [do |-> "draw", n |-> n, to |-> to]

\* BoolIO's two directions of a transfer `what`.  The sending side of the bit
\* stream flushes whatever it staged before it receives bytes, and the
\* receiving side flushes before it sends bytes.
Send(p, what) ==
  (IF p = BOB THEN <<Flush>> ELSE << >>) \o <<[do |-> "send", what |-> what]>>
Recv(p, what) ==
  (IF p = ALICE THEN <<Flush>> ELSE << >>) \o <<[do |-> "recv", what |-> what]>>

\* A value the prover sends and the verifier receives.
FromProver(p, what) == IF p = ALICE THEN Send(p, what) ELSE Recv(p, what)
FromVerifier(p, what) == IF p = BOB THEN Send(p, what) ELSE Recv(p, what)

\* FpOSTriple(): one correlation, then the first andgate_out_buffer.
Construct == <<Draw(1, "reg"), Draw(CHECK_SZ, "buf")>>
\* Mutant: only the prover draws the correlation that masks the sums.
BatchCheckOneSided(p) ==
  <<Flush>> \o FromVerifier(p, "seed") \o <<Flush>>
            \o (IF p = ALICE THEN <<Draw(1, "reg")>> ELSE << >>)
            \o FromProver(p, "sum") \o <<Flush>>

\* andgate_correctness_check_manage(): the verifier's challenge, one masking
\* correlation, the prover's two sums.
BatchCheck(p) ==
  <<Flush>> \o FromVerifier(p, "seed") \o <<Flush, Draw(1, "reg")>>
            \o FromProver(p, "sum") \o <<Flush>>

\* authenticated_val_input(): draw n correlations, send the masked values.
Input(p, n) == <<Draw(n, "reg")>> \o FromProver(p, "lam")

\* One turn of the loop of auth_compute_mul_send/_recv: a full buffer is
\* checked and drawn anew, then the corrections of one block go out.
MulBlock(p) ==
  (IF cnt[p] = CHECK_SZ THEN BatchCheck(p) \o <<Draw(CHECK_SZ, "buf")>> ELSE << >>)
  \o FromProver(p, "d")

Reveal(p) == FromProver(p, "val")
\* Mutant: the destructor skips the check of the last, partial batch.
DestructUnchecked(p) ==
  FromProver(p, "digest") \o (IF p = ALICE THEN <<Flush>> ELSE << >>) \o <<Finish>>

\* ~FpOSTriple() up to the pipe: the multiplications not yet checked, then the
\* digest of the opened MACs (FpAuthHelper::flush).
Destruct(p) ==
  (IF cnt[p] # 0 THEN BatchCheck(p) ELSE << >>)
  \o FromProver(p, "digest") \o (IF p = ALICE THEN <<Flush>> ELSE << >>)
  \o <<Finish>>

-----------------------------------------------------------------------------
Init ==
  /\ prog \in Programs
  /\ at = [p \in Party |-> 1] /\ left = [p \in Party |-> 0]
  /\ todo = [p \in Party |-> Construct]
  /\ reg = [p \in Party |-> << >>]
  /\ buf = [p \in Party |-> [i \in 0 .. CHECK_SZ - 1 |-> Spent]]
  /\ cnt = [p \in Party |-> 0]
  /\ gates = [p \in Party |-> 0] /\ checked = [p \in Party |-> 0]
  /\ masks = << >> /\ hash = [p \in Party |-> << >>]
  /\ made = [p \in Party |-> 0] /\ used = [p \in Party |-> 0]
  /\ hold = [p \in Party |-> FALSE] /\ off = [p \in Party |-> 0]
  /\ flushed = [p \in Party |-> FALSE]
  /\ joined = [p \in Party |-> 0]
  /\ producer = [p \in Party |-> "acquire"]
  /\ done = [p \in Party |-> FALSE]
  /\ chan = [p \in Party |-> << >>] /\ visible = [p \in Party |-> 0]

(* Engine threads.                                                         *)

\* The next call of the program, or the destructor after the last one.
Call(p) ==
  /\ todo[p] = << >> /\ left[p] = 0 /\ at[p] <= Len(prog) + 1
  /\ at' = [at EXCEPT ![p] = @ + 1]
  /\ reg' = [reg EXCEPT ![p] = << >>]
  /\ IF at[p] = Len(prog) + 1
     THEN /\ todo' = [todo EXCEPT ![p] = Destruct(p)]
          /\ UNCHANGED <<left, hash>>
     ELSE LET o == prog[at[p]] IN
          /\ todo' = [todo EXCEPT ![p] = CASE o.op = "input"  -> Input(p, o.n)
                                           [] o.op = "mul"    -> MulBlock(p)
                                           [] o.op = "reveal" -> Reveal(p)
                                           [] o.op = "zero"   -> << >>]
          /\ left' = [left EXCEPT ![p] = IF o.op = "mul" THEN o.n ELSE 0]
          /\ hash' = IF o.op = "zero" THEN [hash EXCEPT ![p] = Append(@, at[p])] ELSE hash
  /\ UNCHANGED <<prog, buf, cnt, gates, checked, masks>>
  /\ UNCHANGED <<drawVars, roundVars, done, netVars>>

\* The vectorized multiplication starts its next block.
NextBlock(p) ==
  /\ todo[p] = << >> /\ left[p] > 0
  /\ todo' = [todo EXCEPT ![p] = MulBlock(p)]
  /\ UNCHANGED <<prog, at, left, reg, buf, cnt, gates, checked, masks, hash>>
  /\ UNCHANGED <<drawVars, roundVars, done, netVars>>

At(p, step) == todo[p] # << >> /\ Head(todo[p]).do = step

\* io->flush(): everything sent so far reaches the peer.
DoFlush(p) ==
  /\ At(p, "flush")
  /\ visible' = [visible EXCEPT ![p] = Len(chan[p])]
  /\ todo' = [todo EXCEPT ![p] = Tail(@)]
  /\ UNCHANGED <<prog, at, left, reg, buf, cnt, gates, checked, masks, hash>>
  /\ UNCHANGED <<drawVars, roundVars, done, chan>>
\* Mutant: draw_vole_() waits without flushing.
WaitUnflushed(p) ==
  /\ At(p, "draw") /\ ~hold[p] /\ ~flushed[p]
  /\ flushed' = [flushed EXCEPT ![p] = TRUE]
  /\ UNCHANGED <<engineVars, used, hold, off, roundVars, done, netVars>>

\* draw_vole_() between rounds: flush the main socket, then wait.
FlushBeforeWait(p) ==
  /\ At(p, "draw") /\ ~hold[p] /\ ~flushed[p]
  /\ visible' = [visible EXCEPT ![p] = Len(chan[p])]
  /\ flushed' = [flushed EXCEPT ![p] = TRUE]
  /\ UNCHANGED <<engineVars, used, hold, off, roundVars, done, chan>>
\* acquire_ready() returns the next published round.
AcquireReady(p) ==
  /\ At(p, "draw") /\ ~hold[p] /\ flushed[p]
  /\ made[p] > used[p]
  /\ hold' = [hold EXCEPT ![p] = TRUE]
  /\ off' = [off EXCEPT ![p] = 0]
  /\ flushed' = [flushed EXCEPT ![p] = FALSE]
  /\ UNCHANGED <<engineVars, used, roundVars, done, netVars>>

\* One memcpy of draw_vole_(); a drained round is released.
Copy(p) ==
  /\ At(p, "draw") /\ hold[p]
  /\ LET d    == Head(todo[p])
         take == Lesser(d.n, Batch - off[p])
         ids  == [k \in 1 .. take |-> used[p] * Batch + off[p] + k - 1]
     IN  /\ IF d.to = "reg"
            THEN /\ reg' = [reg EXCEPT ![p] = @ \o ids]
                 /\ UNCHANGED <<buf, cnt>>
            ELSE /\ buf' = [buf EXCEPT ![p] = [i \in 0 .. CHECK_SZ - 1 |->
                              LET k == i - (CHECK_SZ - d.n) + 1
                              IN  IF k \in 1 .. take THEN ids[k] ELSE @[i]]]
                 /\ cnt' = [cnt EXCEPT ![p] = 0]
                 /\ UNCHANGED reg
         /\ todo' = [todo EXCEPT ![p] = IF take = d.n THEN Tail(@)
                       ELSE <<Draw(d.n - take, d.to)>> \o Tail(@)]
         /\ IF off[p] + take = Batch
            THEN /\ used' = [used EXCEPT ![p] = @ + 1]
                 /\ hold' = [hold EXCEPT ![p] = FALSE]
                 /\ off' = [off EXCEPT ![p] = 0]
            ELSE /\ off' = [off EXCEPT ![p] = @ + take]
                 /\ UNCHANGED <<used, hold>>
  /\ UNCHANGED <<prog, at, left, gates, checked, masks, hash, flushed>>
  /\ UNCHANGED <<roundVars, done, netVars>>

\* The multiplications of the block in progress.
BlockSize(p) == Lesser(CHECK_SZ - cnt[p], left[p])

\* The transfer `what`: which call it belongs to and what it is computed from,
\* as seen by party p: the correlations that mask it, or the absorbed MACs.
Transfer(p, what) ==
  [at   |-> at[p],
   what |-> what,
   corr |-> CASE what \in {"lam", "sum"} -> reg[p]
              [] what = "d" -> [k \in 1 .. BlockSize(p) |-> buf[p][cnt[p] + k - 1]]
              [] what = "digest" -> hash[p]
              [] OTHER -> << >>]
\* Mutant: a multiplication leaves its pre-drawn correlation in the next slot's
\* place (check_cnt does not advance past the block).
AfterTransferReuses(p, what) ==
  /\ todo' = [todo EXCEPT ![p] = Tail(@)]
  /\ reg' = [reg EXCEPT ![p] = << >>]
  /\ IF what = "d"
     THEN /\ left' = [left EXCEPT ![p] = @ - BlockSize(p)]
          /\ gates' = [gates EXCEPT ![p] = @ + BlockSize(p)]
     ELSE UNCHANGED <<left, gates>>
  /\ hash' = IF what = "val" THEN [hash EXCEPT ![p] = Append(@, at[p] - 1)] ELSE hash
  /\ checked' = IF what = "sum" THEN [checked EXCEPT ![p] = @ + cnt[p]] ELSE checked
  /\ UNCHANGED <<buf, cnt>>

\* What a completed transfer leaves behind on the side of party p.
AfterTransfer(p, what) ==
  /\ todo' = [todo EXCEPT ![p] = Tail(@)]
  /\ reg' = [reg EXCEPT ![p] = << >>]
  /\ IF what = "d"
     THEN /\ buf' = [buf EXCEPT ![p] = [i \in 0 .. CHECK_SZ - 1 |->
                       IF i - cnt[p] \in 0 .. BlockSize(p) - 1 THEN Spent ELSE @[i]]]
          /\ cnt' = [cnt EXCEPT ![p] = @ + BlockSize(p)]
          /\ left' = [left EXCEPT ![p] = @ - BlockSize(p)]
          /\ gates' = [gates EXCEPT ![p] = @ + BlockSize(p)]
     ELSE UNCHANGED <<buf, cnt, left, gates>>
  /\ hash' = IF what = "val" THEN [hash EXCEPT ![p] = Append(@, at[p] - 1)] ELSE hash
  /\ checked' = IF what = "sum" THEN [checked EXCEPT ![p] = @ + cnt[p]] ELSE checked

DoSend(p) ==
  /\ At(p, "send")
  /\ LET m == Transfer(p, Head(todo[p]).what)
     IN  /\ chan' = [chan EXCEPT ![p] = Append(@, m)]
         /\ masks' = IF m.what \in {"lam", "sum", "d"} THEN masks \o m.corr ELSE masks
         /\ AfterTransfer(p, m.what)
  /\ UNCHANGED <<prog, at, drawVars, roundVars, done, visible>>

DoRecv(p) ==
  /\ At(p, "recv")
  /\ visible[Peer(p)] > 0
  /\ chan' = [chan EXCEPT ![Peer(p)] = Tail(@)]
  /\ visible' = [visible EXCEPT ![Peer(p)] = @ - 1]
  /\ AfterTransfer(p, Head(todo[p]).what)
  /\ UNCHANGED <<prog, at, masks, drawVars, roundVars, done>>

\* ~FpOSTriple(): give the held round back ...
GiveBack(p) ==
  /\ At(p, "finish") /\ hold[p]
  /\ used' = [used EXCEPT ![p] = @ + 1]
  /\ hold' = [hold EXCEPT ![p] = FALSE]
  /\ UNCHANGED <<engineVars, off, flushed, roundVars, done, netVars>>

\* ... close the pipe ...
FinishPipe(p) ==
  /\ At(p, "finish") /\ ~hold[p] /\ ~done[p]
  /\ done' = [done EXCEPT ![p] = TRUE]
  /\ UNCHANGED <<engineVars, drawVars, roundVars, netVars>>

\* ... and join the producer thread.
JoinProducer(p) ==
  /\ At(p, "finish") /\ done[p] /\ producer[p] = "exited"
  /\ todo' = [todo EXCEPT ![p] = Tail(@)]
  /\ UNCHANGED <<prog, at, left, reg, buf, cnt, gates, checked, masks, hash>>
  /\ UNCHANGED <<drawVars, roundVars, done, netVars>>

-----------------------------------------------------------------------------
(* Producer threads.                                                       *)
\* Mutant: acquire_free() lets the producer in when every slot is taken.
EnterRoundOffByOne(p) ==
  /\ producer[p] = "acquire"
  /\ \/ done[p] /\ producer' = [producer EXCEPT ![p] = "exited"] /\ UNCHANGED joined
     \/ /\ ~done[p] /\ made[p] - used[p] <= N
        /\ producer' = [producer EXCEPT ![p] = "round"]
        /\ joined' = [joined EXCEPT ![p] = @ + 1]
  /\ UNCHANGED <<engineVars, drawVars, made, done, netVars>>

\* acquire_free(): -1 once the pipe is finished, else a free slot; the sVOLE
\* then enters its next round with the peer.
EnterRound(p) ==
  /\ producer[p] = "acquire"
  /\ \/ /\ done[p]
        /\ producer' = [producer EXCEPT ![p] = "exited"]
        /\ UNCHANGED joined
     \/ /\ ~done[p] /\ made[p] - used[p] < N
        /\ producer' = [producer EXCEPT ![p] = "round"]
        /\ joined' = [joined EXCEPT ![p] = @ + 1]
  /\ UNCHANGED <<engineVars, drawVars, made, done, netVars>>

\* The round's exchange needs the peer's producer in the same round; publish().
EndRound(p) ==
  /\ producer[p] = "round"
  /\ joined[Peer(p)] >= joined[p]
  /\ made' = [made EXCEPT ![p] = @ + 1]
  /\ producer' = [producer EXCEPT ![p] = "acquire"]
  /\ UNCHANGED <<engineVars, drawVars, joined, done, netVars>>

-----------------------------------------------------------------------------
\* The channel writes out staged data on its own when a buffer fills.  Nothing
\* obliges it to, short of a flush.
SpontaneousWrite(p) ==
  /\ visible[p] < Len(chan[p])
  /\ visible' = [visible EXCEPT ![p] = @ + 1]
  /\ UNCHANGED <<engineVars, drawVars, roundVars, done, chan>>

Terminated ==
  /\ \A p \in Party : at[p] = Len(prog) + 2 /\ todo[p] = << >>
  /\ UNCHANGED vars

EngineStep(p) ==
  \/ Call(p) \/ NextBlock(p) \/ DoFlush(p)
  \/ FlushBeforeWait(p) \/ AcquireReady(p) \/ Copy(p)
  \/ DoSend(p) \/ DoRecv(p)
  \/ GiveBack(p) \/ FinishPipe(p) \/ JoinProducer(p)

ProducerStep(p) == EnterRound(p) \/ EndRound(p)

Next ==
  \/ \E p \in Party : EngineStep(p) \/ ProducerStep(p) \/ SpontaneousWrite(p)
  \/ Terminated

\* The four threads are scheduled; nothing is assumed of the send buffers.
Fairness ==
  \A p \in Party : WF_vars(EngineStep(p)) /\ WF_vars(ProducerStep(p))

Spec == Init /\ [][Next]_vars /\ Fairness

-----------------------------------------------------------------------------
(* Properties.                                                             *)

\* Whatever a party takes off the wire is what the peer sent for the same call,
\* masked with the same correlations: the drawn positions of the two sides
\* agree across calls, batch checks and slot boundaries (draw_vole_: "same
\* deterministic correlation stream in the same order").
StreamsAligned ==
  \A p \in Party :
    At(p, "recv") /\ chan[Peer(p)] # << >> =>
      Head(chan[Peer(p)]) = Transfer(p, Head(todo[p]).what)

\* No correlation masks two values: not one of the pre-drawn multiplication
\* masks after a batch check, not one left over at a slot boundary.
MasksFresh == IsInjective(masks)

\* When a party is about to close its pipe, every multiplication it executed has
\* been through a batch check, the last partial batch included.
AllChecked == \A p \in Party : At(p, "finish") => checked[p] = gates[p]

\* One party's draws run at most N rounds ahead of the other's: generating a
\* round takes both producers, and each needs a free slot.
DriftBounded ==
  \A p \in Party : used[p] + (IF hold[p] THEN 1 ELSE 0) <= used[Peer(p)] + N

\* The two producers are in step: a round one of them has published is a round
\* both entered (each fill is "a cross-party exchange", ostriple.h:268-269), and
\* neither enters one without a free slot of its own engine's ring.
RoundsInStep ==
  \A p \in Party :
    /\ joined[p] = IF producer[p] = "round" THEN made[p] + 1 ELSE made[p]
    /\ made[p] <= joined[Peer(p)]
    /\ joined[p] <= used[p] + N
    /\ used[p] + (IF hold[p] THEN 1 ELSE 0) <= made[p]

\* Both parties execute the whole program and its checks: no cycle of an engine
\* waiting for main-socket data, a draw waiting for a round, and a round waiting
\* for the other party's slot (the flush in draw_vole_ "prevents the ...
\* deadlock").
ProofCompletes == \A p \in Party : <>At(p, "finish")

\* What the destructor's comment says: the producers are at the same round when
\* both parties reach it, so finish() and join() end them
\* (ostriple.h:297-300; correlation_pipe.h:14 "neither deadlocks at shutdown").
TeardownCompletes == \A p \in Party : done[p] ~> (producer[p] = "exited")
=============================================================================
