------------------------------ MODULE MvzkWires ------------------------------
(***************************************************************************)
(* Wires, batches and multiplication checks of the multi-verifier protocol *)
(* (mvzk/zk/prover.h, verifier.h, backend.h, auth.h, mvzk/int_fp.h).       *)
(*                                                                         *)
(* One prover and n verifiers run the same program on IntFp values.  Each  *)
(* party decides by itself when k wires make a batch, when the pool of     *)
(* preprocessed sharings is used up, when correlations must be extended,   *)
(* and when enough products are recorded for a check.  A verifier's wire   *)
(* is empty until its batch arrives; linear expressions and the inputs of  *)
(* products are resolved after that.                                       *)
(*                                                                         *)
(* A call of the program is one entry of prog, and the slot it makes has   *)
(* the entry's index.  A value is a linear form: the coefficient of each   *)
(* fed or multiplied slot, and of the constant one at 0.  A preprocessed   *)
(* sharing is its position in the stream of correlations.  A message names *)
(* the sharings that mask it; a receiver that unmasks with others gets     *)
(* Junk.                                                                   *)
(*                                                                         *)
(* The n-party VOLE is MvzkNVole, seen here as a barrier of all parties;   *)
(* an exchange of the verifiers (mvzk/mesh.h) is a barrier of theirs.      *)
(***************************************************************************)
EXTENDS Integers, FiniteSets, Sequences, SequencesExt

CONSTANTS
  n,                  \* verifiers
  k,                  \* wires per packed sharing
  CompressParam,      \* m, the factor of one compression round
  MultGateBufSz,      \* products that make a check due
  PreAuthSharingNum,  \* packed sharings per refill of the pool
  Usable,             \* correlations per extend
  Calls,              \* kinds of calls the program makes
  MaxCalls            \* calls before finalize (bound of the model)

Verifier == 0 .. n - 1
Prover   == n
Party    == Verifier \union {Prover}
Slot     == 1 .. MaxCalls
Kinds    == {"feed", "pub", "add", "addc", "mult", "drop", "reveal", "check"}

CeilDiv(a, b) == (a + b - 1) \div b

\* Sharings a compression round uses, and the last round.
FoldNeed == CeilDiv(2 * CompressParam - 2, k)
LastNeed == CeilDiv(2 * CompressParam + 2, k)

ASSUME PartiesAssumption == n \in Nat \ {0, 1} /\ k \in Nat \ {0}
ASSUME CheckAssumption ==
  /\ CompressParam \in Nat \ {0, 1} /\ MultGateBufSz \in Nat \ {0}
  /\ PreAuthSharingNum \in Nat /\ PreAuthSharingNum >= LastNeed
  /\ Usable \in Nat \ {0}
ASSUME ProgramAssumption == Calls \subseteq Kinds /\ MaxCalls \in Nat

VARIABLES
  prog,      \* calls made so far by the party that is furthest
  pos,       \* calls each party has completed
  pc,        \* where it is in the present call
  pending,   \* slots of its batch in progress
  batches,   \* batches done
  triples,   \* products recorded since its last check
  dim,       \* length of the inner product left to compress
  pool,      \* preprocessed sharings: indices of the correlations
  ptr,       \* used of them
  authPtr,   \* correlations used of the present extend
  entered,   \* extends entered
  extends,   \* extends completed
  slots,     \* a verifier's slots
  hold,      \* slots it keeps alive for the batch
  seen,      \* batches done at its last afterOp
  transcript,\* messages of the present check
  posted,    \* what it contributed to each exchange of the verifiers
  meshed,    \* exchanges it has completed
  checked,   \* products of completed checks
  buf, wire, \* prover to verifier: not flushed, delivered
  masks      \* sharings the prover has masked a message with

poolVars  == <<pool, ptr, authPtr, entered, extends>>
checkVars == <<transcript, posted, meshed, checked>>
slotVars  == <<slots, hold, seen>>
netVars   == <<buf, wire, masks>>
vars == <<prog, pos, pc, pending, batches, triples, dim, poolVars, slotVars,
          checkVars, netVars>>

-----------------------------------------------------------------------------
(* Values and programs.                                                    *)

Zero    == [a \in 0 .. MaxCalls |-> 0]
Unit(s) == [Zero EXCEPT ![s] = 1]
Junk    == [a \in 0 .. MaxCalls |-> -1]
Sum(x, y) == [a \in 0 .. MaxCalls |-> x[a] + y[a]]

IsFlush(op)  == op.kind \in {"reveal", "check", "finalize"}
IsShared(op) == op.kind \in {"feed", "mult"}
IsLinear(op) == op.kind \in {"add", "addc"}
MakesSlot(op) == IsShared(op) \/ IsLinear(op) \/ op.kind = "pub"

\* The constant of a linear call: x + y has none, x + c has c.
Const(op) == IF op.kind = "add" THEN Zero ELSE Unit(0)

LinearForm(val, terms, c) ==
  FoldLeft(LAMBDA acc, t : Sum(acc, val[t]), c, terms)

\* The value of slot s, given those of the slots before it.
ValueOf(val, s) ==
  CASE IsShared(prog[s])   -> Unit(s)
    [] prog[s].kind = "pub" -> Unit(0)
    [] IsLinear(prog[s])   -> LinearForm(val, prog[s].args, Const(prog[s]))
    [] OTHER               -> Zero

\* The value of each slot, evaluated in program order as the prover does.
Meaning == LET f[s \in DOMAIN prog] == ValueOf(f, s) IN f

Triple(s) == <<Meaning[prog[s].args[1]], Meaning[prog[s].args[2]], Unit(s)>>

\* Slots to which the program has a handle after its first i calls.
Handles(i) ==
  {s \in 1 .. i : MakesSlot(prog[s])
                   /\ \A d \in s .. i : prog[d] # [kind |-> "drop", args |-> <<s>>]}

\* Calls a program can make next.
Callable ==
  LET h == Handles(Len(prog))
      One(kinds) == {[kind |-> c, args |-> <<a>>] : c \in kinds, a \in h}
      Two(kinds) == {[kind |-> c, args |-> ab] :
                       c \in kinds, ab \in {x \in h \X h : x[1] <= x[2]}}
  IN  {[kind |-> "finalize", args |-> <<>>]} \union
      IF Len(prog) = MaxCalls THEN {} ELSE
        {[kind |-> c, args |-> <<>>] : c \in Calls \intersect {"feed", "pub"}}
        \union One(Calls \intersect {"addc", "drop", "reveal", "check"})
        \union Two(Calls \intersect {"add", "mult"})

\* The call party p is in.
Op(p) == prog[pos[p] + 1]

-----------------------------------------------------------------------------
EmptySlot == [ready |-> FALSE, sh |-> Zero, lin |-> <<>>, pub |-> Zero]

Init ==
  /\ prog = <<>>
  /\ pos = [p \in Party |-> 0] /\ pc = [p \in Party |-> "next"]
  /\ pending = [p \in Party |-> <<>>] /\ batches = [p \in Party |-> 0]
  /\ triples = [p \in Party |-> <<>>] /\ dim = [p \in Party |-> 0]
  /\ pool = [p \in Party |-> <<>>]
  /\ ptr = [p \in Party |-> PreAuthSharingNum]
  /\ authPtr = [p \in Party |-> Usable]
  /\ entered = [p \in Party |-> 0] /\ extends = [p \in Party |-> 0]
  /\ slots = [v \in Verifier |-> [s \in Slot |-> EmptySlot]]
  /\ hold = [v \in Verifier |-> {}] /\ seen = [v \in Verifier |-> 0]
  /\ transcript = [v \in Verifier |-> <<>>]
  /\ posted = [v \in Verifier |-> <<>>] /\ meshed = [v \in Verifier |-> 0]
  /\ checked = [v \in Verifier |-> <<>>]
  /\ buf = [v \in Verifier |-> <<>>] /\ wire = [v \in Verifier |-> <<>>]
  /\ masks = <<>>

-----------------------------------------------------------------------------
(* The channels from the prover.                                           *)

Send(msg)     == buf' = [v \in Verifier |-> Append(buf[v], msg)] /\ UNCHANGED wire
Flush         == wire' = [v \in Verifier |-> wire[v] \o buf[v]]
                 /\ buf' = [v \in Verifier |-> <<>>]
SendFlush(msg) == wire' = [v \in Verifier |-> Append(wire[v] \o buf[v], msg)]
                 /\ buf' = [v \in Verifier |-> <<>>]
Arrived(v, kind) == wire[v] # <<>> /\ Head(wire[v]).kind = kind
Receive(v)    == wire' = [wire EXCEPT ![v] = Tail(@)] /\ UNCHANGED <<buf, masks>>

\* The send buffer may be written out before a flush asks for it.
SpontaneousWrite(v) ==
  /\ buf[v] # <<>>
  /\ wire' = [wire EXCEPT ![v] = Append(@, Head(buf[v]))]
  /\ buf' = [buf EXCEPT ![v] = Tail(@)]
  /\ UNCHANGED <<prog, pos, pc, pending, batches, triples, dim, poolVars,
                 slotVars, checkVars, masks>>

-----------------------------------------------------------------------------
(* Preprocessed sharings: the same rule on every party.                    *)

\* Sharings the next message of party p needs.
Need(p) == CASE pc[p] = "batch" -> 1
             [] pc[p] = "round" -> IF dim[p] > CompressParam THEN FoldNeed
                                                             ELSE LastNeed
             [] OTHER           -> 0

Filling(p) == Len(pool[p]) < PreAuthSharingNum
\* ensurePreAuth() refills: the pool is short, or a refill is under way.
Starved(p) == Need(p) > 0 /\ (Filling(p) \/ ptr[p] + Need(p) > PreAuthSharingNum)

\* Sharings the next message is masked with.
NextMasks(p) == SubSeq(pool[p], ptr[p] + 1, ptr[p] + Need(p))
UseMasks(p)  == /\ ptr' = [ptr EXCEPT ![p] = @ + Need(p)]
                /\ UNCHANGED <<pool, authPtr, entered, extends>>

\* First correlation of the present extend that is not consumed yet.
\* Mutant: every refill starts at the beginning of the extend.
FirstOfExtend(p) == (extends[p] - 1) * Usable
FirstLeft(p)     == (extends[p] - 1) * Usable + authPtr[p]

\* randAuthVal(): take what the present extend still has.
RandAuthVal(p) ==
  LET old   == IF Filling(p) THEN pool[p] ELSE <<>>
      short == PreAuthSharingNum - Len(old)
      left  == Usable - authPtr[p]
      take  == IF short < left THEN short ELSE left
  IN  /\ Starved(p) /\ authPtr[p] < Usable
      /\ pool' = [pool EXCEPT ![p] = old \o [l \in 1 .. take |-> FirstLeft(p) + l]]
      /\ authPtr' = [authPtr EXCEPT ![p] = @ + take]
      /\ ptr' = [ptr EXCEPT ![p] = IF take = short THEN 0 ELSE @]
      /\ UNCHANGED <<prog, pos, pc, pending, batches, triples, dim, entered,
                     extends, slotVars, checkVars, netVars>>

\* refill(): flush, then the n-party extend and the nonces with all parties.
EnterExtend(p) ==
  /\ Starved(p) /\ authPtr[p] = Usable /\ entered[p] = extends[p]
  /\ entered' = [entered EXCEPT ![p] = @ + 1]
  /\ IF p = Prover THEN SendFlush([kind |-> "extend"]) ELSE UNCHANGED <<buf, wire>>
  /\ UNCHANGED <<prog, pos, pc, pending, batches, triples, dim, pool, ptr,
                 authPtr, extends, slotVars, checkVars, masks>>

LeaveExtend(p) ==
  /\ entered[p] > extends[p]
  /\ \A q \in Party : entered[q] >= entered[p]
  /\ IF p = Prover THEN UNCHANGED netVars
                   ELSE Arrived(p, "extend") /\ Receive(p)
  /\ extends' = [extends EXCEPT ![p] = @ + 1]
  /\ authPtr' = [authPtr EXCEPT ![p] = 0]
  /\ UNCHANGED <<prog, pos, pc, pending, batches, triples, dim, pool, ptr,
                 entered, slotVars, checkVars>>

-----------------------------------------------------------------------------
(* What prover and verifiers do alike.                                     *)

Goto(p, where) == pc' = [pc EXCEPT ![p] = where]
Finish(p)      == pos' = [pos EXCEPT ![p] = @ + 1] /\ Goto(p, "next")

\* The first party to get there chooses the next call, the others follow.
NextCalls(p) == IF pos[p] = Len(prog) THEN Callable ELSE {Op(p)}
Calling(p, op) == /\ pc[p] = "next"
                  /\ prog' = IF pos[p] = Len(prog) THEN Append(prog, op) ELSE prog

\* share() and shareFlush(): a full batch, or a flush of one begun, is sent.
SharePending(p, op) ==
  pending' = IF IsShared(op) THEN [pending EXCEPT ![p] = Append(@, pos[p] + 1)]
                             ELSE pending
\* Mutant: a flush sends nothing while the batch is not full.
ShareUnpadded(p, op) ==
  /\ SharePending(p, op)
  /\ Goto(p, IF ~IsFlush(op) /\ Len(pending'[p]) = k THEN "batch" ELSE "tail")
  /\ UNCHANGED pos
Share(p, op) ==
  /\ SharePending(p, op)
  /\ Goto(p, IF IsFlush(op) THEN IF pending[p] # <<>> THEN "batch" ELSE "tail"
             ELSE IF Len(pending'[p]) = k THEN "batch" ELSE "tail")
  /\ UNCHANGED pos

\* The end of shareBatch(): a check is due if enough products are recorded.
\* Mutant: products are only checked by finalize.
CheckNeverDue(recorded) == FALSE
CheckDue(recorded) == Len(recorded) >= MultGateBufSz
\* Mutant: a verifier waits for one product more than the prover.
BatchDoneOneSided(p, recorded) ==
  /\ pending' = [pending EXCEPT ![p] = <<>>]
  /\ batches' = [batches EXCEPT ![p] = @ + 1]
  /\ Goto(p, IF CheckDue(recorded) /\ (p = Prover \/ Len(recorded) > MultGateBufSz)
             THEN "com" ELSE "tail")
BatchDone(p, recorded) ==
  /\ pending' = [pending EXCEPT ![p] = <<>>]
  /\ batches' = [batches EXCEPT ![p] = @ + 1]
  /\ Goto(p, IF CheckDue(recorded) THEN "com" ELSE "tail")

Padded(len) == CompressParam * CeilDiv(len, CompressParam)
Fold(p)     == dim' = [dim EXCEPT ![p] = Padded(@ \div CompressParam)]
StartCheck(p) == /\ dim' = [dim EXCEPT ![p] = Padded(Len(triples[p]))]
                 /\ Goto(p, "round")

\* After the flush of finalize: the last check, or the end of the program.
FinalCheck(p) ==
  /\ Goto(p, IF triples[p] # <<>> THEN "com" ELSE "end")
  /\ pos' = IF triples[p] # <<>> THEN pos ELSE [pos EXCEPT ![p] = @ + 1]

-----------------------------------------------------------------------------
(* The prover.                                                             *)

ProverUnchanged == UNCHANGED <<slotVars, checkVars>>

\* feed, mult, a linear call, or the flush a reveal or finalize starts with.
PCall ==
  \E op \in NextCalls(Prover) :
    /\ Calling(Prover, op)
    /\ IF IsShared(op) \/ IsFlush(op)
       THEN Share(Prover, op) ELSE Finish(Prover) /\ UNCHANGED pending
    /\ triples' = IF op.kind # "mult" THEN triples
                  ELSE [triples EXCEPT ![Prover] = Append(@,
                         <<Meaning[op.args[1]], Meaning[op.args[2]], Unit(pos[Prover] + 1)>>)]
    /\ UNCHANGED <<batches, dim, poolVars, netVars>> /\ ProverUnchanged

\* shareBatch(): the values less a preprocessed sharing, not flushed.
PBatch ==
  /\ pc[Prover] = "batch" /\ ~Starved(Prover)
  /\ Send([kind |-> "batch", masks |-> NextMasks(Prover),
           vals |-> [i \in 1 .. k |-> IF i <= Len(pending[Prover])
                                      THEN Meaning[pending[Prover][i]] ELSE Zero]])
  /\ masks' = masks \o NextMasks(Prover)
  /\ UseMasks(Prover) /\ BatchDone(Prover, triples[Prover])
  /\ UNCHANGED <<prog, pos, triples, dim>> /\ ProverUnchanged

\* verifyAuthTriple(): commitments to all that was sent and the nonces.
\* (triples is not sent: it is what the verifiers' opening depends on.)
PCommit ==
  /\ pc[Prover] = "com"
  /\ SendFlush([kind |-> "com", batches |-> batches[Prover],
                nonces |-> extends[Prover], triples |-> triples[Prover]])
  /\ StartCheck(Prover)
  /\ UNCHANGED <<prog, pos, pending, batches, triples, poolVars, masks>>
  /\ ProverUnchanged

\* One compression round; the last one ends the check.
PRound ==
  LET last == dim[Prover] <= CompressParam
  IN  /\ pc[Prover] = "round" /\ ~Starved(Prover)
      /\ SendFlush([kind |-> "diff", last |-> last, masks |-> NextMasks(Prover)])
      /\ masks' = masks \o NextMasks(Prover)
      /\ UseMasks(Prover)
      /\ IF last THEN /\ triples' = [triples EXCEPT ![Prover] = <<>>]
                      /\ Goto(Prover, "tail") /\ UNCHANGED dim
                 ELSE Fold(Prover) /\ UNCHANGED <<triples, pc>>
      /\ UNCHANGED <<prog, pos, pending, batches>> /\ ProverUnchanged

\* The rest of the call: a flush sends what is buffered, reveal the values.
\* Mutant: only values that are sent cause a flush.
PTailUnflushed ==
  IF Op(Prover).kind = "reveal"
  THEN SendFlush([kind |-> "vals", val |-> Meaning[Op(Prover).args[1]]])
  ELSE UNCHANGED <<buf, wire>>
PTailSends ==
  CASE Op(Prover).kind = "reveal" ->
         SendFlush([kind |-> "vals", val |-> Meaning[Op(Prover).args[1]]])
    [] Op(Prover).kind \in {"check", "finalize"} -> Flush
    [] OTHER -> UNCHANGED <<buf, wire>>
PTail ==
  /\ pc[Prover] = "tail"
  /\ PTailSends
  /\ IF Op(Prover).kind = "finalize" THEN FinalCheck(Prover) ELSE Finish(Prover)
  /\ UNCHANGED <<prog, pending, batches, triples, dim, poolVars, masks>>
  /\ ProverUnchanged

PStep == PCall \/ PBatch \/ PCommit \/ PRound \/ PTail

-----------------------------------------------------------------------------
(* A verifier's slots.                                                     *)

\* Unready slots that resolving slot s visits: through unready terms.
Unresolved(sl, s) ==
  LET visited[t \in Slot] ==
        /\ ~sl[t].ready
        /\ t = s \/ \E u \in t + 1 .. s :
                       t \in ToSet(sl[u].lin) /\ visited[u]
  IN  {t \in 1 .. s : visited[t]}

\* Mutant: the public constant of a late linear form is forgotten.
MaterializeNoConst(sl, s) ==
  LET value[t \in Slot] == IF sl[t].ready THEN sl[t].sh
                           ELSE LinearForm(value, sl[t].lin, Zero)
      todo == Unresolved(sl, s)
  IN  [t \in Slot |-> IF t \in todo
         THEN [sl[t] EXCEPT !.ready = TRUE, !.sh = value[t], !.lin = <<>>]
         ELSE sl[t]]
\* materialize(): every one of them gets the value of its linear form.
Materialize(sl, s) ==
  LET value[t \in Slot] == IF sl[t].ready THEN sl[t].sh
                           ELSE LinearForm(value, sl[t].lin, sl[t].pub)
      todo == Unresolved(sl, s)
  IN  [t \in Slot |-> IF t \in todo
         THEN [sl[t] EXCEPT !.ready = TRUE, !.sh = value[t], !.lin = <<>>]
         ELSE sl[t]]

\* A visited slot has no terms: its batch has not arrived.
Premature(sl, s) == \E t \in Unresolved(sl, s) : sl[t].lin = <<>>

\* linear(): evaluated at once if every term is ready.
Linear(sl, s, op) ==
  IF \A i \in DOMAIN op.args : sl[op.args[i]].ready
  THEN [sl EXCEPT ![s] = [ready |-> TRUE, lin |-> <<>>, pub |-> Zero,
          sh |-> LinearForm([t \in Slot |-> sl[t].sh], op.args, Const(op))]]
  ELSE [sl EXCEPT ![s] = [EmptySlot EXCEPT !.lin = op.args, !.pub = Const(op)]]

\* One wire of an arriving batch: a product reads its inputs first.
FillSlot(f, s, val) ==
  LET a == prog[s].args[1]
      b == prog[s].args[2]
      resolved == IF prog[s].kind = "mult"
                  THEN Materialize(Materialize(f.slots, a), b) ELSE f.slots
  IN  [slots   |-> [resolved EXCEPT ![s] = [@ EXCEPT !.ready = TRUE, !.sh = val]],
       triples |-> IF prog[s].kind # "mult" THEN f.triples
                   ELSE Append(f.triples, <<resolved[a].sh, resolved[b].sh, val>>),
       failed  |-> f.failed \/ /\ prog[s].kind = "mult"
                               /\ \E t \in {a, b} : Premature(f.slots, t)]

\* The loop of shareBatch() over the wires of the batch.
FillBatch(v, vals) ==
  LET filled[i \in 0 .. Len(pending[v])] ==
        IF i = 0 THEN [slots |-> slots[v], triples |-> triples[v], failed |-> FALSE]
                 ELSE FillSlot(filled[i - 1], pending[v][i], vals[i])
  IN  filled[Len(pending[v])]

\* afterOp(): what is held is let go when a batch has been filled.  The call's
\* own slot is pushed before that.
\* Mutant: what is held is let go after every call.
AfterOpAlways(v, held) == /\ hold' = [hold EXCEPT ![v] = {}]
                          /\ seen' = [seen EXCEPT ![v] = batches[v]]
AfterOp(v, held) ==
  /\ hold' = [hold EXCEPT ![v] = IF batches[v] # seen[v] THEN {} ELSE held]
  /\ seen' = [seen EXCEPT ![v] = batches[v]]

\* Slots whose memory is valid: those reachable from a handle of the program,
\* from what is held, from the present call or from a pending product.
Alive(v) ==
  LET now == IF pc[v] \in {"next", "end"} THEN {} ELSE {pos[v] + 1} \union ToSet(Op(v).args)
      captured == UNION {ToSet(prog[s].args) : s \in ToSet(pending[v])}
      root == Handles(pos[v]) \union hold[v] \union now \union captured
      alive[t \in Slot] == \/ t \in root
                           \/ \E u \in t + 1 .. MaxCalls :
                                alive[u] /\ t \in ToSet(slots[v][u].lin)
  IN  {t \in Slot : alive[t]}

-----------------------------------------------------------------------------
(* A verifier.                                                             *)

Contribute(v, entry) == posted' = [posted EXCEPT ![v] = Append(@, entry)]

VCall(v) ==
  \E op \in NextCalls(v) :
    /\ Calling(v, op)
    /\ IF IsShared(op) \/ IsFlush(op)
       THEN Share(v, op) ELSE Finish(v) /\ UNCHANGED pending
    /\ slots' =
         CASE IsLinear(op) -> [slots EXCEPT ![v] = Linear(@, pos[v] + 1, op)]
           [] op.kind = "pub" -> [slots EXCEPT ![v][pos[v] + 1] =
                                    [EmptySlot EXCEPT !.ready = TRUE, !.sh = Unit(0)]]
           [] OTHER -> slots
    /\ UNCHANGED <<batches, triples, dim, poolVars, hold, seen, checkVars, netVars>>

\* shareBatch(): unmask the packed sharing and fill the pending wires.
VBatch(v) ==
  /\ pc[v] = "batch" /\ ~Starved(v) /\ Arrived(v, "batch") /\ Receive(v)
  /\ LET msg    == Head(wire[v])
         filled == FillBatch(v, IF msg.masks = NextMasks(v) THEN msg.vals
                                ELSE [i \in 1 .. k |-> Junk])
     IN  /\ slots' = [slots EXCEPT ![v] = filled.slots]
         /\ triples' = [triples EXCEPT ![v] = filled.triples]
         /\ IF filled.failed THEN Goto(v, "error") /\ UNCHANGED <<pending, batches>>
                             ELSE BatchDone(v, filled.triples)
  /\ UseMasks(v)
  /\ UNCHANGED <<prog, pos, dim, hold, seen, checkVars>>

\* verifyAuthTriple(): the commitment must match what this verifier received.
VCommit(v) ==
  /\ pc[v] = "com" /\ Arrived(v, "com") /\ Receive(v)
  /\ LET msg == Head(wire[v])
     IN  IF msg.batches = batches[v] /\ msg.nonces = extends[v]
         THEN StartCheck(v) /\ transcript' = [transcript EXCEPT ![v] = <<msg>>]
         ELSE Goto(v, "failed") /\ UNCHANGED <<dim, transcript>>
  /\ UNCHANGED <<prog, pos, pending, batches, triples, poolVars, slotVars,
                 posted, meshed, checked>>

\* One compression round; after the last the verifiers compare what they
\* received and open the result, which is right if all products are the
\* prover's and every message was unmasked with the prover's sharings.
VRound(v) ==
  /\ pc[v] = "round" /\ ~Starved(v) /\ Arrived(v, "diff") /\ Receive(v)
  /\ LET msg  == Head(wire[v])
         last == dim[v] <= CompressParam
         good == msg.masks = NextMasks(v) /\ msg.last = last
         all  == Append(transcript[v], [msg EXCEPT !.masks = good])
     IN  /\ transcript' = [transcript EXCEPT ![v] = all]
         /\ IF last THEN /\ Contribute(v, [saw |-> all,
                               right |-> /\ triples[v] = all[1].triples
                                         /\ \A i \in 2 .. Len(all) : all[i].masks])
                         /\ Goto(v, "mesh") /\ UNCHANGED dim
                    ELSE Fold(v) /\ UNCHANGED <<posted, pc>>
  /\ UseMasks(v)
  /\ UNCHANGED <<prog, pos, pending, batches, triples, slotVars, meshed, checked>>

\* The rest of the call, after its wires: a reveal receives the claimed
\* values, and claimed or expected values are compared with the wires.
VTail(v) ==
  /\ pc[v] = "tail"
  /\ IF Op(v).kind = "finalize" /\ triples[v] # <<>> THEN UNCHANGED <<hold, seen>>
     ELSE AfterOp(v, IF IsShared(Op(v)) THEN hold[v] \union {pos[v] + 1} ELSE hold[v])
  /\ IF Op(v).kind = "reveal" THEN Arrived(v, "vals") /\ Receive(v)
                              ELSE UNCHANGED netVars
  /\ IF Op(v).kind \in {"reveal", "check"}
     THEN LET w == Op(v).args[1]
              claimed == IF Op(v).kind = "reveal" THEN Head(wire[v]).val ELSE Meaning[w]
              now == Materialize(slots[v], w)
          IN  /\ slots' = [slots EXCEPT ![v] = now]
              /\ IF Premature(slots[v], w) THEN Goto(v, "error") /\ UNCHANGED posted
                 ELSE /\ Goto(v, "open")
                      /\ Contribute(v, [saw |-> <<claimed>>,
                                        right |-> now[w].sh = claimed])
              /\ UNCHANGED pos
     ELSE /\ IF Op(v).kind = "finalize" THEN FinalCheck(v) ELSE Finish(v)
          /\ UNCHANGED <<slots, posted>>
  /\ UNCHANGED <<prog, pending, batches, triples, dim, poolVars, transcript,
                 meshed, checked>>

\* A check has passed: its products are done with.
\* Mutant: they stay recorded.
CheckPassedKeeps(v) == /\ checked' = [checked EXCEPT ![v] = @ \o triples[v]]
                       /\ UNCHANGED triples
CheckPassed(v) == /\ checked' = [checked EXCEPT ![v] = @ \o triples[v]]
                  /\ triples' = [triples EXCEPT ![v] = <<>>]

\* The verifiers' exchange is complete: any wrong part fails it for everyone.
VMesh(v) ==
  LET round == meshed[v] + 1
      passes == \A w \in Verifier : /\ posted[w][round].right
                                    /\ posted[w][round].saw = posted[v][round].saw
  IN  /\ pc[v] \in {"mesh", "open"}
      /\ \A w \in Verifier : Len(posted[w]) >= round
      /\ meshed' = [meshed EXCEPT ![v] = round]
      /\ IF ~passes THEN Goto(v, "failed") /\ UNCHANGED <<pos, triples, checked>>
         ELSE IF pc[v] = "mesh"
         THEN CheckPassed(v) /\ Goto(v, "tail") /\ UNCHANGED pos
         ELSE Finish(v) /\ UNCHANGED <<triples, checked>>
      /\ UNCHANGED <<prog, pending, batches, dim, poolVars, slotVars, transcript,
                     posted, netVars>>

VStep(v) == VCall(v) \/ VBatch(v) \/ VCommit(v) \/ VRound(v) \/ VTail(v) \/ VMesh(v)

-----------------------------------------------------------------------------
Pool(p) == RandAuthVal(p) \/ EnterExtend(p) \/ LeaveExtend(p)

PartyStep(p) == Pool(p) \/ (p = Prover /\ PStep) \/ (p # Prover /\ VStep(p))

Terminated == (\A p \in Party : pc[p] = "end") /\ UNCHANGED vars

Next == \/ \E p \in Party : PartyStep(p)
        \/ \E v \in Verifier : SpontaneousWrite(v)
        \/ Terminated

Spec == Init /\ [][Next]_vars

-----------------------------------------------------------------------------
(* Properties.                                                             *)

\* An honest proof is accepted: no commitment, MAC, echo or product check fails
\* for any program, however its wires fall into batches, checks and refills; and
\* no wire is resolved before its batch has arrived (the internal error of
\* materialize(), int_fp.h:156).
HonestAccepted == \A p \in Party : pc[p] \notin {"failed", "error"}

\* A wire a verifier regards as filled has the prover's value of that wire, also
\* when it was resolved late, in the middle of a batch, or from another late wire.
ReadyIsRight ==
  \A v \in Verifier : \A s \in Slot :
    slots[v][s].ready => s \in DOMAIN prog /\ slots[v][s].sh = Meaning[s]

\* The raw pointers of the wires of a batch (verifier.h:47-49) stay valid until
\* it has been filled, whatever handles the program gives up meanwhile.
PendingAlive == \A v \in Verifier : ToSet(pending[v]) \subseteq Alive(v)

\* Every product of the program is recorded once, with the inputs the program
\* meant and in the prover's order, and at the end all have been checked.
Multiplied(v) ==
  LET upto == pos[v] + (IF pc[v] \in {"next", "end"} THEN 0 ELSE 1)
  IN  {s \in 1 .. upto : prog[s].kind = "mult"} \ ToSet(pending[v])
EachProductOnce ==
  \A v \in Verifier :
    LET recorded == checked[v] \o triples[v]
    IN  /\ ToSet(recorded) = {Triple(s) : s \in Multiplied(v)}
        /\ \A i, j \in 1 .. Len(recorded) : i < j =>
             \E s, t \in Multiplied(v) :
               s < t /\ recorded[i] = Triple(s) /\ recorded[j] = Triple(t)
        /\ pc[v] = "end" => triples[v] = <<>>

\* No sharing masks two messages: values masked alike would be revealed.
MasksFresh == IsInjective(masks)

\* The triple buffers (multGateBufSz + k entries, prover.h:46-48) never overflow.
BufferSuffices == \A p \in Party : Len(triples[p]) <= MultGateBufSz + k - 1

\* Every party finishes the program: no message that another waits for stays in
\* a send buffer, and no two wait for each other, since until the end some party
\* has what its next step waits for without a buffer being written early.
WaitsInExtend(p) ==
  /\ entered[p] > extends[p]
  /\ \/ \E q \in Party : entered[q] < entered[p]
     \/ p # Prover /\ ~Arrived(p, "extend")
WaitsForMessage(v) ==
  \/ pc[v] = "batch" /\ ~Starved(v) /\ ~Arrived(v, "batch")
  \/ pc[v] = "com" /\ ~Arrived(v, "com")
  \/ pc[v] = "round" /\ ~Starved(v) /\ ~Arrived(v, "diff")
  \/ pc[v] = "tail" /\ Op(v).kind = "reveal" /\ ~Arrived(v, "vals")
WaitsForVerifiers(v) ==
  pc[v] \in {"mesh", "open"} /\ \E w \in Verifier : Len(posted[w]) <= meshed[v]
CanGoOn(p) ==
  /\ pc[p] \notin {"end", "error", "failed"}
  /\ ~WaitsInExtend(p)
  /\ p # Prover => ~WaitsForMessage(p) /\ ~WaitsForVerifiers(p)
NobodyStuck == (\A p \in Party : pc[p] = "end") \/ \E p \in Party : CanGoOn(p)

=============================================================================
