------------------------------ MODULE BoolEngine ------------------------------
(***************************************************************************)
(* The boolean engine of both parties: ZKBoolBase with ZKBoolProver        *)
(* (ALICE) and ZKBoolVerifier (BOB), the polynomial proofs and the         *)
(* permutation proofs that run on it, from construction to destructor.     *)
(*                                                                         *)
(* Both execute the same program.  A call becomes a list of steps (draw,   *)
(* transfer, flush, take a challenge, buffer, fold), computed by each      *)
(* party from its own buffers when it gets there; each step is an action.  *)
(* COTs come from a SilentFerret session on the same socket, streamed or   *)
(* prepaid, or from a producer thread on a second one ("background").      *)
(*                                                                         *)
(* A correlation is its position in its stream and a gate is its number:   *)
(* what the fields compute is left out, what they are computed from is not.*)
(* The bits ALICE sends are staged as BoolIO stages them.                  *)
(***************************************************************************)
EXTENDS Integers, Sequences

CONSTANTS
  Programs,   \* the programs to run: sequences of calls
  Modes,      \* where COTs come from
  N,          \* slots of each party's pipe (BG_SLOTS)
  Batch,      \* COTs per pipe slot, or per refill of cot_buf_
  PerRound,   \* refills of cot_buf_ per Ferret round
  CHECK_SZ,   \* AND gates per batch check
  F2K_SZ,     \* f2k_buffer_sz
  POLY_SZ,    \* PolyProof::buffer_sz
  RAM_SZ,     \* RamPolyPrdt::buffer_sz
  OPE,        \* COTs that mask a check (128 in the code)
  LIMB        \* bits committed per limb by f2k_pack_v (65 in the code)

ASSUME SizesAssumption ==
  {N, Batch, PerRound, CHECK_SZ, F2K_SZ, POLY_SZ, RAM_SZ, OPE, LIMB} \subseteq Nat \ {0}
ASSUME ModesAssumption == Modes \subseteq {"stream", "prepaid", "background"}

ALICE == "ALICE"
BOB   == "BOB"
Party == {ALICE, BOB}
Peer(p) == IF p = ALICE THEN BOB ELSE ALICE
Lesser(a, b) == IF a < b THEN a ELSE b

\* What is buffered until a batch check: AND gates, F_2^k products,
\* polynomial relations, products of a permutation.
Kind == {"and", "f2k", "poly", "prod"}

VARIABLES
  mode,     \* where COTs come from
  calls,    \* calls[p]: calls still to do
  todo,     \* todo[p]: steps left of the call under way
  reg,      \* reg[p]: COTs drawn for the transfer to come
  issued,   \* issued[p][kind]: how many p has executed
  pend,     \* pend[p][kind]: those buffered for the next check
  checked,  \* checked[p][kind]: <<gate, gate whose output MAC was used>>
  f2k,      \* f2k[p]: F_2^k buffers: [ready, runs, base, outs, inBase, inCnt]
  hash,     \* auth_hash: the openings absorbed
  used,     \* slots (refills) p has drained
  hold,     \* p has a slot (refill) to draw from
  off,      \* cur_off_, cot_pos_
  flushed,  \* p has flushed and waits, in acquire_ready() or for bytes
  made,     \* rounds published into p's pipe
  joined,   \* rounds p's producer has entered
  producer, \* p's producer: "none", "begin", "acquire", "round", "exited"
  done,     \* p's pipe is finished
  wire,     \* wire[p]: the messages p has sent
  visible,  \* how many of them have left p's buffers
  got,      \* got[p]: how many of the peer's p has received
  bits,     \* bits[p]: bits of ALICE's stream that passed p
  cuts,     \* cuts[p]: where p has cut a block of them short
  staged,   \* messages in ALICE's staging buffer
  log,      \* log[p]: transcript of p's inner channel: <<sender, message>>
  seeds     \* seeds[p]: the challenges p has derived

gateVars == <<issued, pend, checked, f2k, hash>>
drawVars == <<used, hold, off, flushed>>
pipeVars == <<made, joined, producer, done>>
netVars  == <<wire, visible, got, bits, cuts, staged, log>>
vars == <<mode, calls, todo, reg, issued, pend, checked, f2k, hash, used, hold, off, flushed,
          made, joined, producer, done, wire, visible, got, bits, cuts, staged, log, seeds>>

-----------------------------------------------------------------------------
(* Steps.                                                                  *)

Flush       == [do |-> "flush"]
Fill        == [do |-> "fill"]
Finish      == [do |-> "finish"]
Seed(u)     == [do |-> "seed", use |-> u]
Draw(n)     == [do |-> "draw", n |-> n]
Issue(k, n) == [do |-> "issue", kind |-> k, n |-> n]
Fold(k)     == [do |-> "fold", kind |-> k]
Run(b)      == [do |-> "run", buf |-> b]

\* Transfers: n bits from ALICE, or bytes (n = 0) either way, after which the
\* sender may flush.
Move(sender, what, n, flush) ==
  [do |-> "move", from |-> sender, what |-> what, bits |-> n, flush |-> flush]

Bits(what, n)   == <<Move(ALICE, what, n, FALSE)>>
ToBob(what)     == <<Move(ALICE, what, 0, FALSE)>>
ToBobNow(what)  == <<Move(ALICE, what, 0, TRUE)>>
ToAlice(what)   == <<Move(BOB, what, 0, TRUE)>>

\* A protocol of an external library on the main socket: one message each
\* way, both flushed.
Exchange(what) == <<Flush>> \o ToBobNow(what) \o ToAlice(what)

(* Calls, of a party whose buffers are e.                                  *)
Call(op, n) == [do |-> op, n |-> n]
Copies(n, c) == [i \in 1 .. n |-> c]

\* A masked linear answer of ALICE's: OPE fresh COTs packed into its mask.
Aggregate == <<Draw(OPE)>> \o ToBob("A_star")

\* Mutant: the challenge is derived before the staged bits are sent.
CheckStaleSeed(k) == <<Seed(k), Flush>> \o Aggregate \o <<Flush, Fold(k)>>

\* andgate_correctness_check_manage().
Check(k) == <<Flush, Seed(k)>> \o Aggregate \o <<Flush, Fold(k)>>

\* f2k_check_manage() does the same with the F_2^k products.
F2kCheck == Check("f2k")

\* PolyProof::batch_check(): the verifier's own challenge.
PolyCheck == ToAlice("seed") \o <<Draw(OPE)>> \o ToBobNow("check_sum") \o <<Fold("poly")>>

\* RamPolyPrdt::batch_check().
ProdCheck == <<Flush, Seed("prod")>> \o ToBobNow("sums") \o <<Fold("prod")>>

Full(e, k, size) == Len(e.pend[k]) = size
Pending(e, k)    == e.pend[k] # << >>

\* n COTs, and the n bits they mask.
Masked(n, what) == <<Draw(n)>> \o Bits(what, n)

\* authenticated_bits_input().
Feed(n) == Masked(n, "mask")

\* One turn of auth_compute_and()'s loop, scalar or vectorized, with n gates
\* to do: a check, or the gates up to the end of the batch.
Take(e, n) == IF Full(e, "and", CHECK_SZ) THEN 0 ELSE Lesser(CHECK_SZ - Len(e.pend["and"]), n)
Wave(take) == Masked(take, "gate") \o <<Issue("and", take)>>
And(e, n)  == IF Full(e, "and", CHECK_SZ) THEN Check("and") ELSE Wave(Take(e, n))

\* verify_output().
Reveal(n) == Bits("val", n)

\* f2k_init(): the VOLE's setup and the first run into f2k_auth_buffer.
F2kInit(e) == IF e.f2k.ready THEN << >>
              ELSE Exchange("setup") \o Exchange("vole") \o <<Run("auth")>>

\* f2k_input().
F2kInput(e) ==
  F2kInit(e)
  \o (IF e.f2k.inCnt = F2K_SZ THEN Exchange("vole") \o <<Run("in")>> ELSE << >>)
  \o ToBob("in")

\* f2k_pre_buffer_refill().
F2kRefill(e) ==
  IF e.f2k.ready /\ Len(e.f2k.outs) = F2K_SZ
  THEN Exchange("vole") \o <<Run("auth")>> ELSE << >>

\* The product's output takes the next VOLE element.
Multiply == ToBob("d") \o <<Issue("f2k", 1)>>

\* Mutant: the output buffer is refilled before the check that needs it.
F2kMulRefillFirst(e) ==
  F2kInit(e) \o F2kRefill(e)
  \o (IF Full(e, "f2k", F2K_SZ) THEN F2kCheck ELSE << >>)
  \o Multiply

\* f2k_mul().
F2kMul(e) ==
  F2kInit(e)
  \o (IF Full(e, "f2k", F2K_SZ) THEN F2kCheck ELSE << >>)
  \o F2kRefill(e) \o Multiply

\* zkp_poly_deg2(), zkp_inner_prdt(), zkp_inner_prdt_eq(), and each turn of
\* zkp_inner_prdt_multi().
Poly(e) == (IF Full(e, "poly", POLY_SZ) THEN PolyCheck ELSE << >>) \o <<Issue("poly", 1)>>

\* f2k_pack_v(): an F_2^k value committed as two limbs.
PackV == Feed(LIMB) \o Feed(LIMB)

\* polyPrdtN().
BufferProduct(e) ==
  (IF Full(e, "prod", RAM_SZ) THEN ProdCheck ELSE << >>) \o <<Issue("prod", 1)>>

\* mul_poly_().
Product(e) == PackV \o BufferProduct(e)

\* batch_check() of what the products have left.
Products(e) == IF Pending(e, "prod") THEN ProdCheck ELSE << >>

\* compress() of wide elements: nothing is sent after its challenge.
Compress == <<Flush, Seed("coeff")>>

\* The challenges of check_eq(), which folds what compress() has not.
Challenges(wide) == (IF wide THEN Compress ELSE << >>) \o <<Flush, Seed("r")>>

\* eval_() of n > 0 elements: four factors at a time, the rest one by one.
Eval(n) ==
  Copies((n - 1) \div 4, Call("product", 1)) \o Copies((n - 1) % 4, Call("f2kmul", 1))

\* The calls check_eq() makes after that, on two lists of n elements; the
\* last two are open_eq_() and batch_check().
Permute(n) == Eval(n) \o Eval(n) \o <<Call("open", 1), Call("products", 1)>>

\* What the party's own destructor still checks, and the openings' digest.
LastChecks(e) ==
  (IF Pending(e, "f2k") THEN F2kCheck ELSE << >>)
  \o (IF Pending(e, "and") THEN Check("and") ELSE << >>)
  \o ToBobNow("digest")

\* The end of the COT session.
EndSession(e) == (IF e.mode = "stream" THEN Exchange("end") ELSE << >>) \o <<Finish>>

\* Mutant: the polynomial proof outlives the COT session.
DestroyPolyLast(e) ==
  LastChecks(e) \o EndSession(e) \o (IF Pending(e, "poly") THEN PolyCheck ELSE << >>)

\* The destructors: ~ZKBoolProver() / ~ZKBoolVerifier(), ~PolyProof(), and
\* ~ZKBoolBase() up to the end of the COT session.
Destroy(e) ==
  LastChecks(e) \o (IF Pending(e, "poly") THEN PolyCheck ELSE << >>) \o EndSession(e)

\* The steps of a call, and the calls it makes after them.
Steps(e, c) ==
  CASE c.do = "construct" -> IF e.mode = "background" THEN << >> ELSE Exchange("begin")
    [] c.do = "feed"      -> Feed(c.n)
    [] c.do = "and"       -> And(e, c.n)
    [] c.do = "reveal"    -> Reveal(c.n)
    [] c.do = "f2kin"     -> F2kInput(e)
    [] c.do = "f2kmul"    -> F2kMul(e)
    [] c.do = "poly"      -> Poly(e)
    [] c.do = "product"   -> Product(e)
    [] c.do = "products"  -> Products(e)
    [] c.do = "compress"  -> Compress
    [] c.do = "permute"   -> Challenges(FALSE)
    [] c.do = "permute_wide" -> Challenges(TRUE)
    [] c.do = "open"      -> ToBobNow("macs")
    [] c.do = "destroy"   -> Destroy(e)

Inner(e, c) ==
  CASE c.do = "and" /\ Take(e, c.n) < c.n     -> <<Call("and", c.n - Take(e, c.n))>>
    [] c.do \in {"permute", "permute_wide"}   -> Permute(c.n)
    [] OTHER                                  -> << >>

\* What a program calls.
UserCalls == {"feed", "and", "reveal", "f2kin", "f2kmul", "poly", "compress", "permute",
              "permute_wide"}

ASSUME ProgramsAssumption == Programs \subseteq Seq([do : UserCalls, n : Nat \ {0}])

-----------------------------------------------------------------------------
Init ==
  /\ mode \in Modes
  /\ \E prog \in Programs :
       calls = [p \in Party |-> <<Call("construct", 0)>> \o prog \o <<Call("destroy", 0)>>]
  /\ todo = [p \in Party |-> << >>]
  /\ reg = [p \in Party |-> << >>]
  /\ issued = [p \in Party |-> [k \in Kind |-> 0]]
  /\ pend = [p \in Party |-> [k \in Kind |-> << >>]]
  /\ checked = [p \in Party |-> [k \in Kind |-> << >>]]
  /\ f2k = [p \in Party |-> [ready |-> FALSE, runs |-> 0, base |-> 0, outs |-> << >>,
                             inBase |-> 0, inCnt |-> F2K_SZ]]
  /\ hash = [p \in Party |-> << >>]
  /\ used = [p \in Party |-> 0] /\ hold = [p \in Party |-> FALSE]
  /\ off = [p \in Party |-> 0] /\ flushed = [p \in Party |-> FALSE]
  /\ made = [p \in Party |-> 0]
  /\ joined = [p \in Party |-> IF mode = "background" THEN 1 ELSE 0]
  /\ producer = [p \in Party |-> IF mode = "background" THEN "begin" ELSE "none"]
  /\ done = [p \in Party |-> FALSE]
  /\ wire = [p \in Party |-> << >>] /\ visible = [p \in Party |-> 0]
  /\ got = [p \in Party |-> 0]
  /\ bits = [p \in Party |-> 0] /\ cuts = [p \in Party |-> {}]
  /\ staged = << >>
  /\ log = [p \in Party |-> << >>] /\ seeds = [p \in Party |-> << >>]

At(p, step) == todo[p] # << >> /\ Head(todo[p]).do = step
Next1(p)    == todo' = [todo EXCEPT ![p] = Tail(@)]

Buffers(p) == [mode |-> mode, pend |-> pend[p], f2k |-> f2k[p]]

\* The next call becomes its steps.
BeginCall(p) ==
  /\ todo[p] = << >> /\ calls[p] # << >>
  /\ LET c == Head(calls[p])
     IN  /\ todo' = [todo EXCEPT ![p] = Steps(Buffers(p), c)]
         /\ calls' = [calls EXCEPT ![p] = Inner(Buffers(p), c) \o Tail(@)]
  /\ UNCHANGED <<mode, reg, gateVars, drawVars, pipeVars, netVars, seeds>>

\* flush(): the staged bits, padded to a block, and all that was sent before.
FlushAll(p) ==
  /\ cuts' = [cuts EXCEPT ![p] = @ \cup {bits[p]}]
  /\ visible' = [visible EXCEPT ![p] = Len(wire[p])]
  /\ IF p = ALICE
     THEN log' = [log EXCEPT ![p] = @ \o staged] /\ staged' = << >>
     ELSE UNCHANGED <<log, staged>>
  /\ UNCHANGED <<wire, got, bits>>

DoFlush(p) ==
  /\ At(p, "flush")
  /\ FlushAll(p)
  /\ Next1(p)
  /\ UNCHANGED <<mode, calls, reg, gateVars, drawVars, pipeVars, seeds>>

\* Mutant: the evaluation point is not separated from the coefficients.
TweakNone(use) == 0

\* What is XORed into the digest: every challenge is the digest itself, but for
\* a permutation's evaluation point.
Tweak(use) == IF use = "r" THEN 1 ELSE 0

\* A Fiat-Shamir challenge: the digest of the transcript and its tweak.  `use`
\* and `moved`, how many messages p has sent and received by then, are
\* recorded for the properties only.
DoSeed(p) ==
  /\ At(p, "seed")
  /\ LET use == Head(todo[p]).use
     IN  seeds' = [seeds EXCEPT ![p] = Append(@,
                     [use |-> use, tweak |-> Tweak(use), log |-> log[p],
                      moved |-> Len(wire[p]) + got[p]])]
  /\ Next1(p)
  /\ UNCHANGED <<mode, calls, reg, gateVars, drawVars, pipeVars, netVars>>

(* Draws.                                                                  *)

\* Mutant: bg_next_slot_() waits without flushing.
WaitUnflushed(p) ==
  /\ At(p, "draw") /\ mode = "background" /\ ~hold[p] /\ ~flushed[p]
  /\ flushed' = [flushed EXCEPT ![p] = TRUE]
  /\ UNCHANGED <<mode, calls, todo, reg, gateVars, used, hold, off, pipeVars, netVars, seeds>>

\* bg_next_slot_(): flush the main socket ...
FlushBeforeWait(p) ==
  /\ At(p, "draw") /\ mode = "background" /\ ~hold[p] /\ ~flushed[p]
  /\ FlushAll(p)
  /\ flushed' = [flushed EXCEPT ![p] = TRUE]
  /\ UNCHANGED <<mode, calls, todo, reg, gateVars, used, hold, off, pipeVars, seeds>>

\* ... and wait for the next published round.
AcquireReady(p) ==
  /\ At(p, "draw") /\ flushed[p] /\ made[p] > used[p]
  /\ hold' = [hold EXCEPT ![p] = TRUE] /\ off' = [off EXCEPT ![p] = 0]
  /\ flushed' = [flushed EXCEPT ![p] = FALSE]
  /\ UNCHANGED <<mode, calls, todo, reg, gateVars, used, pipeVars, netVars, seeds>>

\* cot_refill_(): the streaming session meets the peer at the start of a
\* Ferret round; a prepaid one never does.
Refill(p) ==
  /\ At(p, "draw") /\ mode # "background" /\ ~hold[p] /\ ~done[p]
  /\ todo' = [todo EXCEPT ![p] =
       (IF mode = "stream" /\ used[p] % PerRound = 0 THEN Exchange("round") ELSE << >>)
       \o <<Fill>> \o @]
  /\ UNCHANGED <<mode, calls, reg, gateVars, drawVars, pipeVars, netVars, seeds>>

DoFill(p) ==
  /\ At(p, "fill")
  /\ hold' = [hold EXCEPT ![p] = TRUE] /\ off' = [off EXCEPT ![p] = 0]
  /\ Next1(p)
  /\ UNCHANGED <<mode, calls, reg, gateVars, used, flushed, pipeVars, netVars, seeds>>

\* One copy of draw_cot_() or draw_one_cot_(); a drained slot is released.
Copy(p) ==
  /\ At(p, "draw") /\ hold[p]
  /\ LET n    == Head(todo[p]).n
         take == Lesser(n, Batch - off[p])
     IN  /\ reg' = [reg EXCEPT ![p] = @ \o [k \in 1 .. take |->
                                              <<"cot", used[p] * Batch + off[p] + k - 1>>]]
         /\ todo' = [todo EXCEPT ![p] = IF take = n THEN Tail(@)
                                        ELSE <<Draw(n - take)>> \o Tail(@)]
         /\ IF off[p] + take = Batch
            THEN /\ used' = [used EXCEPT ![p] = @ + 1]
                 /\ hold' = [hold EXCEPT ![p] = FALSE]
                 /\ off' = [off EXCEPT ![p] = 0]
            ELSE /\ off' = [off EXCEPT ![p] = @ + take]
                 /\ UNCHANGED <<used, hold>>
  /\ UNCHANGED <<mode, calls, gateVars, flushed, pipeVars, netVars, seeds>>

(* Gates and checks.                                                       *)

\* Gates enter the buffer of their batch; a product of F_2^k also takes the
\* next slot of f2k_auth_buffer.
DoIssue(p) ==
  /\ At(p, "issue")
  /\ LET k   == Head(todo[p]).kind
         n   == Head(todo[p]).n
         ids == [i \in 1 .. n |-> issued[p][k] + i]
     IN  /\ issued' = [issued EXCEPT ![p][k] = @ + n]
         /\ pend' = [pend EXCEPT ![p][k] = @ \o ids]
         /\ f2k' = IF k = "f2k" THEN [f2k EXCEPT ![p].outs = @ \o ids] ELSE f2k
  /\ Next1(p)
  /\ UNCHANGED <<mode, calls, reg, checked, hash, drawVars, pipeVars, netVars, seeds>>

\* The gate whose output MAC the check pairs with the i-th buffered gate:
\* f2k_auth_buffer[omac_base + i] for F_2^k, the triple's own otherwise.
OutputOf(p, k, i) ==
  LET base == Len(f2k[p].outs) - Len(pend[p][k])  \* omac_base
  IN  IF k # "f2k" THEN pend[p][k][i]
      ELSE IF base + i \in DOMAIN f2k[p].outs THEN f2k[p].outs[base + i] ELSE 0

\* What a check sums up: each buffered gate with an output.
Coefficients(p, k) == [i \in DOMAIN pend[p][k] |-> <<pend[p][k][i], OutputOf(p, k, i)>>]

\* The check has covered the buffer and empties it.
DoFold(p) ==
  /\ At(p, "fold")
  /\ LET k == Head(todo[p]).kind
     IN  /\ checked' = [checked EXCEPT ![p][k] = @ \o Coefficients(p, k)]
         /\ pend' = [pend EXCEPT ![p][k] = << >>]
  /\ Next1(p)
  /\ UNCHANGED <<mode, calls, reg, issued, f2k, hash, drawVars, pipeVars, netVars, seeds>>

\* f2k_vole->run() into one of the two buffers.
DoRun(p) ==
  /\ At(p, "run")
  /\ LET f    == f2k[p]
         base == f.runs * F2K_SZ
     IN  f2k' = [f2k EXCEPT ![p] =
           IF Head(todo[p]).buf = "auth"
           THEN [f EXCEPT !.ready = TRUE, !.runs = @ + 1, !.base = base, !.outs = << >>]
           ELSE [f EXCEPT !.runs = @ + 1, !.inBase = base, !.inCnt = 0]]
  /\ Next1(p)
  /\ UNCHANGED <<mode, calls, reg, issued, pend, checked, hash, drawVars, pipeVars, netVars, seeds>>

(* Transfers.                                                              *)

\* The message `what` as party p knows it: what masks it, or what it covers.
Message(p, what) ==
  [what |-> what,
   corr |-> CASE what \in {"mask", "gate", "A_star", "check_sum"} -> reg[p]
              [] what = "in"     -> <<<<"vole", f2k[p].inBase + f2k[p].inCnt>>>>
              [] what = "d"      -> <<<<"vole", f2k[p].base + Len(f2k[p].outs)>>>>
              [] what = "digest" -> hash[p]
              [] OTHER           -> << >>]

\* Mutant: the verifier's f2k_input() does not move on.
AfterTransferProverOnly(p, what) ==
  /\ reg' = [reg EXCEPT ![p] = << >>]
  /\ f2k' = IF what = "in" /\ p = ALICE THEN [f2k EXCEPT ![p].inCnt = @ + 1] ELSE f2k
  /\ hash' = IF what = "val" THEN [hash EXCEPT ![p] = Append(@, bits'[p])] ELSE hash
  /\ UNCHANGED <<issued, pend, checked>>

AfterTransfer(p, what) ==
  /\ reg' = [reg EXCEPT ![p] = << >>]
  /\ f2k' = IF what = "in" THEN [f2k EXCEPT ![p].inCnt = @ + 1] ELSE f2k
  /\ hash' = IF what = "val" THEN [hash EXCEPT ![p] = Append(@, bits'[p])] ELSE hash
  /\ UNCHANGED <<issued, pend, checked>>

\* Bits are staged by ALICE; bytes push the staged bits out first, and with
\* them what was sent before, as BOB's always do.
DoSend(p) ==
  /\ At(p, "move") /\ Head(todo[p]).from = p
  /\ LET s   == Head(todo[p])
         msg == <<p, Len(wire[p]) + 1>>
     IN  /\ wire' = [wire EXCEPT ![p] = Append(@, Message(p, s.what))]
         /\ IF s.bits > 0
            THEN /\ staged' = Append(staged, msg)
                 /\ bits' = [bits EXCEPT ![p] = @ + s.bits]
                 /\ UNCHANGED <<visible, cuts, log>>
            ELSE /\ log' = [log EXCEPT ![p] =
                              Append(IF p = ALICE THEN @ \o staged ELSE @, msg)]
                 /\ visible' = [visible EXCEPT ![p] =
                      IF s.flush THEN Len(wire[p]) + 1
                      ELSE IF p = BOB \/ staged # << >> THEN Len(wire[p]) ELSE @]
                 /\ cuts' = [cuts EXCEPT ![p] = @ \cup {bits[p]}]
                 /\ staged' = IF p = ALICE THEN << >> ELSE staged
                 /\ UNCHANGED bits
         /\ AfterTransfer(p, s.what)
  /\ Next1(p)
  /\ UNCHANGED <<mode, calls, drawVars, pipeVars, got, seeds>>

\* Mutant: recv_data_internal() flushes on ALICE's side only.
ReceiveUnflushed(p) ==
  /\ At(p, "move") /\ Head(todo[p]).from # p /\ Head(todo[p]).bits = 0 /\ ~flushed[p]
  /\ IF p = ALICE THEN FlushAll(p) ELSE UNCHANGED netVars
  /\ flushed' = [flushed EXCEPT ![p] = TRUE]
  /\ UNCHANGED <<mode, calls, todo, reg, gateVars, used, hold, off, pipeVars, seeds>>

\* recv_data_internal(): a party about to receive bytes flushes first ...
FlushBeforeReceive(p) ==
  /\ At(p, "move") /\ Head(todo[p]).from # p /\ Head(todo[p]).bits = 0 /\ ~flushed[p]
  /\ FlushAll(p)
  /\ flushed' = [flushed EXCEPT ![p] = TRUE]
  /\ UNCHANGED <<mode, calls, todo, reg, gateVars, used, hold, off, pipeVars, seeds>>

\* ... and then waits for them.
DoRecv(p) ==
  /\ At(p, "move") /\ Head(todo[p]).from # p /\ (Head(todo[p]).bits = 0 => flushed[p])
  /\ visible[Peer(p)] > got[p]
  /\ LET s == Head(todo[p])
     IN  /\ got' = [got EXCEPT ![p] = @ + 1]
         /\ log' = [log EXCEPT ![p] = Append(@, <<Peer(p), got[p] + 1>>)]
         /\ bits' = [bits EXCEPT ![p] = @ + s.bits]
         /\ AfterTransfer(p, s.what)
  /\ flushed' = [flushed EXCEPT ![p] = FALSE]
  /\ Next1(p)
  /\ UNCHANGED <<mode, calls, used, hold, off, pipeVars, wire, visible, cuts, staged, seeds>>

(* The end of the COT session, and the producers.                          *)

\* ~ZKBoolBase(): the held slot goes back, the pipe is finished ...
FinishPipe(p) ==
  /\ At(p, "finish") /\ ~done[p]
  /\ IF hold[p] /\ mode = "background"
     THEN used' = [used EXCEPT ![p] = @ + 1] /\ hold' = [hold EXCEPT ![p] = FALSE]
     ELSE UNCHANGED <<used, hold>>
  /\ done' = [done EXCEPT ![p] = TRUE]
  /\ UNCHANGED <<mode, calls, todo, reg, gateVars, off, flushed, made, joined, producer, netVars, seeds>>

\* ... and the producer joined.
JoinProducer(p) ==
  /\ At(p, "finish") /\ done[p] /\ producer[p] \in {"none", "exited"}
  /\ Next1(p)
  /\ UNCHANGED <<mode, calls, reg, gateVars, drawVars, pipeVars, netVars, seeds>>

\* Ferret's begin() prepays the first round, with the peer.
Begin(p) ==
  /\ producer[p] = "begin" /\ joined[Peer(p)] > 0
  /\ producer' = [producer EXCEPT ![p] = "acquire"]
  /\ UNCHANGED <<mode, calls, todo, reg, gateVars, drawVars, made, joined, done, netVars, seeds>>

\* acquire_free(): nothing once the pipe is finished, else a free slot; filling
\* it takes part in the round's exchange (the first is prepaid).
EnterRound(p) ==
  /\ producer[p] = "acquire"
  /\ \/ done[p] /\ producer' = [producer EXCEPT ![p] = "exited"] /\ UNCHANGED joined
     \/ /\ ~done[p] /\ made[p] - used[p] < N
        /\ producer' = [producer EXCEPT ![p] = "round"]
        /\ joined' = [joined EXCEPT ![p] = made[p] + 1]
  /\ UNCHANGED <<mode, calls, todo, reg, gateVars, drawVars, made, done, netVars, seeds>>

\* next_chunks_parallel() returns; publish().
EndRound(p) ==
  /\ producer[p] = "round" /\ joined[Peer(p)] > made[p]
  /\ made' = [made EXCEPT ![p] = @ + 1]
  /\ producer' = [producer EXCEPT ![p] = "acquire"]
  /\ UNCHANGED <<mode, calls, todo, reg, gateVars, drawVars, joined, done, netVars, seeds>>

\* A full buffer is written out unasked.
SpontaneousWrite(p) ==
  /\ visible[p] < Len(wire[p])
  /\ visible' = [visible EXCEPT ![p] = @ + 1]
  /\ UNCHANGED <<mode, calls, todo, reg, gateVars, drawVars, pipeVars, wire, got, bits, cuts,
                 staged, log, seeds>>

EngineStep(p) ==
  \/ BeginCall(p) \/ DoFlush(p) \/ DoSeed(p)
  \/ FlushBeforeWait(p) \/ AcquireReady(p) \/ Refill(p) \/ DoFill(p) \/ Copy(p)
  \/ DoIssue(p) \/ DoFold(p) \/ DoRun(p) \/ DoSend(p) \/ FlushBeforeReceive(p) \/ DoRecv(p)
  \/ FinishPipe(p) \/ JoinProducer(p)

ProducerStep(p) == Begin(p) \/ EnterRound(p) \/ EndRound(p)

Terminated == (\A p \in Party : calls[p] = << >> /\ todo[p] = << >>) /\ UNCHANGED vars

Next ==
  \/ \E p \in Party : EngineStep(p) \/ ProducerStep(p) \/ SpontaneousWrite(p)
  \/ Terminated

\* The four threads are scheduled; the channel owes nothing short of a flush.
Fairness == \A p \in Party : WF_vars(EngineStep(p)) /\ WF_vars(ProducerStep(p))

Spec == Init /\ [][Next]_vars /\ Fairness

-----------------------------------------------------------------------------
(* Properties.                                                             *)

\* Whatever a party takes off the wire is what it computed it should be: the
\* same kind of message, masked with the COTs and VOLE positions that it drew
\* for it, the digest over the openings that it absorbed; through batch checks,
\* refills, VOLE runs and slot boundaries each party places on its own
\* ("both parties must call it in lockstep [...] since the wave's draws precede
\* the wave's gate bits", zk_bool_base.h:399-400).
StreamsAligned ==
  \A p \in Party :
    At(p, "move") /\ Head(todo[p]).from # p /\ Len(wire[Peer(p)]) > got[p] =>
      wire[Peer(p)][got[p] + 1] = Message(p, Head(todo[p]).what)

\* BoolIO's premise: the two ends cut ALICE's blocks of bits short at the same
\* bits.  Flushes are made by the engine's calls, its waits for COTs and the
\* byte messages of every protocol on the socket, each end on its own.
CutsAgree ==
  \A b \in 0 .. Lesser(bits[ALICE], bits[BOB]) - 1 : b \in cuts[ALICE] <=> b \in cuts[BOB]

\* All that the code derives a challenge from.
Input(seed) == <<seed.log, seed.tweak>>

\* The k-th Fiat-Shamir challenge is the same on both sides, and depends on
\* every message before it: no gate of the batch it checks, and no element of the
\* permutation, can still be changed when it is known.  Two challenges of a party
\* are derived from different inputs, except that a coefficient vector, after
\* which nothing is sent, may share its digest with what follows: another fold,
\* or the check that a full buffer puts next.  It never shares it with an
\* evaluation point: "r stays independent even when the last fold and this draw
\* share a transcript point" (zk_perm_proof.h:245-247).
ChallengesBind ==
  /\ \A k \in DOMAIN seeds[ALICE] \cap DOMAIN seeds[BOB] : seeds[ALICE][k] = seeds[BOB][k]
  /\ \A p \in Party : \A k \in DOMAIN seeds[p] : Len(seeds[p][k].log) = seeds[p][k].moved
  /\ \A p \in Party : \A k \in DOMAIN seeds[p] : \A j \in 1 .. k - 1 :
       Input(seeds[p][j]) = Input(seeds[p][k]) =>
         seeds[p][j].use = "coeff" /\ seeds[p][k].use # "r"

\* When a party is done with its COT session, each of its AND gates, F_2^k
\* products, polynomial relations and permutation products has been in exactly
\* one batch check, with the output that is its own.
AllChecked ==
  \A p \in Party : At(p, "finish") =>
    \A k \in Kind : checked[p][k] = [i \in 1 .. issued[p][k] |-> <<i, i>>]

\* Both parties execute the program and every check, whichever way the COTs
\* come: no party waits for what its peer has not flushed, and no draw waits for
\* a round that waits for the peer.
ProofCompletes == \A p \in Party : <>At(p, "finish")
=============================================================================
