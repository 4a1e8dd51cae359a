-------------------------- MODULE BoolEngineProofs --------------------------
(***************************************************************************)
(* What BoolEngine guarantees for every program, every source of COTs and  *)
(* every size of its buffers.                                              *)
(*                                                                         *)
(* What a party does next depends on its calls and its own buffers, never  *)
(* on what it receives or when.  So one machine (Succ) describes both      *)
(* parties: the invariant TwoInv says that each is at a place of one path  *)
(* of the machine.  What the machine does on its own is Good: what is      *)
(* buffered, checked and still to check, and where challenges are derived. *)
(***************************************************************************)
EXTENDS BoolEngine, SequenceTheorems, TLAPS

LEMMA SizesAre ==
  /\ Batch \in Nat /\ Batch > 0 /\ CHECK_SZ \in Nat /\ CHECK_SZ > 0 /\ F2K_SZ \in Nat /\ F2K_SZ > 0
  /\ OPE \in Nat /\ LIMB \in Nat
BY SizesAssumption

-----------------------------------------------------------------------------
(* The machine.                                                            *)

\* What challenges are for.
Use    == Kind \cup {"coeff", "r"}
Entry  == Party \X Nat

\* What the messages are.
Words ==
  {"mask", "gate", "val", "A_star", "in", "d", "seed", "check_sum", "sums", "macs", "digest",
   "setup", "vole", "begin", "round", "end"}
Source == {"cot", "vole"}

Step ==
  [do : {"flush", "fill", "finish"}]
  \cup [do : {"seed"}, use : Use]
  \cup [do : {"draw"}, n : Nat]
  \cup [do : {"issue"}, kind : Kind, n : Nat]
  \cup [do : {"fold"}, kind : Kind]
  \cup [do : {"run"}, buf : {"auth", "in"}]
  \cup [do : {"move"}, from : {ALICE}, what : Words, bits : Nat, flush : BOOLEAN]
  \cup [do : {"move"}, from : {BOB}, what : Words, bits : {0}, flush : BOOLEAN]

CallNames == UserCalls \cup {"construct", "product", "products", "open", "destroy"}
CallSet   == [do : CallNames, n : Nat]
Corr      == Seq(Source \X Nat) \cup Seq(Nat)
Msg       == [what : Words, corr : Corr]
SeedSet   ==
  {x \in [use : Use, tweak : {0, 1}, log : Seq(Entry), moved : Nat] : x.tweak = Tweak(x.use)}
F2kSet    == [ready : BOOLEAN, runs : Nat, base : Nat, outs : Seq(Nat), inBase : Nat, inCnt : Nat]

Idle(q)    == q.todo = << >>
Does(q, s) == q.todo # << >> /\ Head(q.todo).do = s
Buf(q)     == [mode |-> q.mode, pend |-> q.pend, f2k |-> q.f2k]

CanStep(q) == q.todo # << >> \/ q.calls # << >>

\* A draw that has to wait for a round, one that refills, and one that copies.
Waits(q)   == Does(q, "draw") /\ ~q.hold /\ q.mode = "background"
Refills(q) == Does(q, "draw") /\ ~q.hold /\ q.mode # "background"
TakesCots(q) == Does(q, "draw") /\ q.hold
Piece(q)   == Lesser(Head(q.todo).n, Batch - q.off)
Drains(q)  == TakesCots(q) /\ q.off + Piece(q) = Batch

Closes(q)  == Does(q, "finish") /\ ~q.done
Cuts(q)    == Does(q, "flush") \/ Waits(q) \/ (Does(q, "move") /\ Head(q.todo).bits = 0)

CallsAfter(q) ==
  IF Idle(q) THEN Inner(Buf(q), Head(q.calls)) \o Tail(q.calls) ELSE q.calls

TodoAfter(q) ==
  IF Idle(q) THEN Steps(Buf(q), Head(q.calls))
  ELSE IF Waits(q) \/ Closes(q) THEN q.todo
  ELSE IF Refills(q)
  THEN (IF q.mode = "stream" /\ q.used % PerRound = 0 THEN Exchange("round") ELSE << >>)
       \o <<Fill>> \o q.todo
  ELSE IF TakesCots(q) /\ Piece(q) # Head(q.todo).n THEN <<Draw(Head(q.todo).n - Piece(q))>> \o Tail(q.todo)
  ELSE Tail(q.todo)

RegAfter(q) ==
  IF TakesCots(q) THEN q.reg \o [k \in 1 .. Piece(q) |-> <<"cot", q.used * Batch + q.off + k - 1>>]
  ELSE IF Does(q, "move") THEN << >> ELSE q.reg

Ids(q) == [i \in 1 .. Head(q.todo).n |-> q.issued[Head(q.todo).kind] + i]

IssuedAfter(q) ==
  IF Does(q, "issue") THEN [q.issued EXCEPT ![Head(q.todo).kind] = @ + Head(q.todo).n] ELSE q.issued

PendAfter(q) ==
  IF Does(q, "issue") THEN [q.pend EXCEPT ![Head(q.todo).kind] = @ \o Ids(q)]
  ELSE IF Does(q, "fold") THEN [q.pend EXCEPT ![Head(q.todo).kind] = << >>] ELSE q.pend

Output(q, k, i) ==
  LET base == Len(q.f2k.outs) - Len(q.pend[k])
  IN  IF k # "f2k" THEN q.pend[k][i]
      ELSE IF base + i \in DOMAIN q.f2k.outs THEN q.f2k.outs[base + i] ELSE 0

Pairs(q, k) == [i \in DOMAIN q.pend[k] |-> <<q.pend[k][i], Output(q, k, i)>>]

CheckedAfter(q) ==
  IF Does(q, "fold")
  THEN [q.checked EXCEPT ![Head(q.todo).kind] = @ \o Pairs(q, Head(q.todo).kind)] ELSE q.checked

RunAfter(q) ==
  LET base == q.f2k.runs * F2K_SZ
  IN  IF Head(q.todo).buf = "auth"
      THEN [q.f2k EXCEPT !.ready = TRUE, !.runs = @ + 1, !.base = base, !.outs = << >>]
      ELSE [q.f2k EXCEPT !.runs = @ + 1, !.inBase = base, !.inCnt = 0]

F2kAfter(q) ==
  CASE Does(q, "issue") /\ Head(q.todo).kind = "f2k" -> [q.f2k EXCEPT !.outs = @ \o Ids(q)]
    [] Does(q, "run") -> RunAfter(q)
    [] Does(q, "move") /\ Head(q.todo).what = "in" -> [q.f2k EXCEPT !.inCnt = @ + 1]
    [] OTHER -> q.f2k

HashAfter(q) ==
  IF Does(q, "move") /\ Head(q.todo).what = "val"
  THEN Append(q.hash, q.bits + Head(q.todo).bits) ELSE q.hash

UsedAfter(q) ==
  IF Drains(q) \/ (Closes(q) /\ q.hold /\ q.mode = "background") THEN q.used + 1 ELSE q.used

HoldAfter(q) ==
  IF Drains(q) \/ (Closes(q) /\ q.mode = "background") THEN FALSE
  ELSE IF Waits(q) \/ Does(q, "fill") THEN TRUE ELSE q.hold

OffAfter(q) ==
  IF Drains(q) \/ Waits(q) \/ Does(q, "fill") THEN 0
  ELSE IF TakesCots(q) THEN q.off + Piece(q) ELSE q.off

DoneAfter(q) == IF Does(q, "finish") THEN TRUE ELSE q.done
BitsAfter(q) == IF Does(q, "move") THEN q.bits + Head(q.todo).bits ELSE q.bits
CutsAfter(q) == IF Cuts(q) THEN q.cuts \cup {q.bits} ELSE q.cuts

\* The message of the transfer at hand.
Mail(q) ==
  LET what == Head(q.todo).what
  IN  [what |-> what,
       corr |-> CASE what \in {"mask", "gate", "A_star", "check_sum"} -> q.reg
                  [] what = "in"     -> <<<<"vole", q.f2k.inBase + q.f2k.inCnt>>>>
                  [] what = "d"      -> <<<<"vole", q.f2k.base + Len(q.f2k.outs)>>>>
                  [] what = "digest" -> q.hash
                  [] OTHER           -> << >>]

Stamp(q) == <<Head(q.todo).from, Len(q.wire[Head(q.todo).from]) + 1>>
Moved(q) == Len(q.wire[ALICE]) + Len(q.wire[BOB])

WireAfter(q) ==
  IF Does(q, "move") THEN [q.wire EXCEPT ![Head(q.todo).from] = Append(@, Mail(q))] ELSE q.wire

StagedAfter(q) ==
  IF Cuts(q) THEN << >> ELSE IF Does(q, "move") THEN Append(q.staged, Stamp(q)) ELSE q.staged

\* The transcript, with what ALICE has still staged.
LogAfter(q) == IF Does(q, "move") THEN Append(q.log, Stamp(q)) ELSE q.log

SeedsAfter(q) ==
  IF Does(q, "seed")
  THEN Append(q.seeds, [use |-> Head(q.todo).use, tweak |-> Tweak(Head(q.todo).use), log |-> q.log, moved |-> Moved(q)]) ELSE q.seeds

Succ(q) ==
  [mode |-> q.mode, calls |-> CallsAfter(q), todo |-> TodoAfter(q), reg |-> RegAfter(q),
   issued |-> IssuedAfter(q), pend |-> PendAfter(q), checked |-> CheckedAfter(q),
   f2k |-> F2kAfter(q), hash |-> HashAfter(q), used |-> UsedAfter(q), hold |-> HoldAfter(q),
   off |-> OffAfter(q), done |-> DoneAfter(q), bits |-> BitsAfter(q), cuts |-> CutsAfter(q),
   staged |-> StagedAfter(q), wire |-> WireAfter(q), log |-> LogAfter(q), seeds |-> SeedsAfter(q)]

Types(q) ==
  /\ q.mode \in {"stream", "prepaid", "background"}
  /\ q.calls \in Seq(CallSet) /\ q.todo \in Seq(Step)
  /\ q.reg \in Seq(Source \X Nat) /\ q.hash \in Seq(Nat)
  /\ q.issued \in [Kind -> Nat] /\ q.pend \in [Kind -> Seq(Nat)]
  /\ q.checked \in [Kind -> Seq(Nat \X Nat)] /\ q.f2k \in F2kSet
  /\ q.used \in Nat /\ q.hold \in BOOLEAN /\ q.off \in 0 .. Batch - 1 /\ q.done \in BOOLEAN
  /\ q.bits \in Nat /\ q.cuts \in SUBSET Nat /\ q.staged \in Seq(Entry)
  /\ q.wire \in [Party -> Seq(Msg)] /\ q.log \in Seq(Entry) /\ q.seeds \in Seq(SeedSet)

-----------------------------------------------------------------------------
(* The parties.                                                            *)

\* A party that has flushed and waits.
Flushing(p, q) ==
  Waits(q) \/ (Does(q, "move") /\ Head(q.todo).from # p /\ Head(q.todo).bits = 0)

\* p is where the machine is.
SameControl(p, q) ==
  /\ mode = q.mode /\ calls[p] = q.calls /\ todo[p] = q.todo
  /\ used[p] = q.used /\ hold[p] = q.hold /\ off[p] = q.off /\ done[p] = q.done

SameBuffers(p, q) ==
  /\ reg[p] = q.reg /\ issued[p] = q.issued /\ pend[p] = q.pend /\ checked[p] = q.checked
  /\ f2k[p] = q.f2k /\ hash[p] = q.hash

SameNet(p, q) ==
  /\ bits[p] = q.bits /\ seeds[p] = q.seeds
  /\ wire[p] = q.wire[p] /\ got[p] = Len(q.wire[Peer(p)])
  /\ flushed[p] => Flushing(p, q)
  /\ cuts[p] = IF flushed[p] THEN q.cuts \cup {q.bits} ELSE q.cuts
  /\ IF p = ALICE
     THEN /\ staged = IF flushed[p] THEN << >> ELSE q.staged
          /\ log[p] \in Seq(Entry) /\ log[p] \o staged = q.log
     ELSE log[p] = q.log

Matches(p, q) == SameControl(p, q) /\ SameBuffers(p, q) /\ SameNet(p, q)

-----------------------------------------------------------------------------
(* The machine's steps, field by field.                                    *)

LEMMA SuccIs ==
  ASSUME NEW q, NEW s, s = Succ(q)
  PROVE  /\ s.mode = q.mode /\ s.calls = CallsAfter(q) /\ s.todo = TodoAfter(q) /\ s.reg = RegAfter(q)
         /\ s.issued = IssuedAfter(q) /\ s.pend = PendAfter(q) /\ s.checked = CheckedAfter(q)
         /\ s.f2k = F2kAfter(q) /\ s.hash = HashAfter(q) /\ s.used = UsedAfter(q)
         /\ s.hold = HoldAfter(q) /\ s.off = OffAfter(q) /\ s.done = DoneAfter(q)
         /\ s.bits = BitsAfter(q) /\ s.cuts = CutsAfter(q) /\ s.staged = StagedAfter(q)
         /\ s.wire = WireAfter(q) /\ s.log = LogAfter(q) /\ s.seeds = SeedsAfter(q)
BY DEF Succ

SameGates(q, s) ==
  s.issued = q.issued /\ s.pend = q.pend /\ s.checked = q.checked /\ s.f2k = q.f2k /\ s.hash = q.hash
SameDraws(q, s) == s.used = q.used /\ s.hold = q.hold /\ s.off = q.off
SameMoves(q, s) == s.bits = q.bits /\ s.wire = q.wire /\ s.log = q.log

LEMMA SuccCall ==
  ASSUME NEW q, NEW s, s = Succ(q), Idle(q)
  PROVE  /\ s.mode = q.mode /\ s.calls = Inner(Buf(q), Head(q.calls)) \o Tail(q.calls)
         /\ s.todo = Steps(Buf(q), Head(q.calls))
         /\ s.reg = q.reg /\ s.done = q.done /\ s.cuts = q.cuts /\ s.staged = q.staged /\ s.seeds = q.seeds
         /\ SameGates(q, s) /\ SameDraws(q, s) /\ SameMoves(q, s)
<1>1. \A x : ~Does(q, x)
  BY DEF Idle, Does
<1>2. ~Waits(q) /\ ~Refills(q) /\ ~TakesCots(q) /\ ~Drains(q) /\ ~Closes(q) /\ ~Cuts(q)
  BY <1>1 DEF Waits, Refills, TakesCots, Drains, Closes, Cuts
<1>3. /\ s.calls = CallsAfter(q) /\ s.todo = TodoAfter(q)
      /\ CallsAfter(q) = Inner(Buf(q), Head(q.calls)) \o Tail(q.calls)
      /\ TodoAfter(q) = Steps(Buf(q), Head(q.calls))
  BY SuccIs, <1>2 DEF CallsAfter, TodoAfter
<1>4. SameGates(q, s)
  BY SuccIs, <1>1 DEF SameGates, IssuedAfter, PendAfter, CheckedAfter, F2kAfter, HashAfter
<1>5. SameDraws(q, s)
  BY SuccIs, <1>1, <1>2 DEF SameDraws, UsedAfter, HoldAfter, OffAfter
<1>6. SameMoves(q, s)
  BY SuccIs, <1>1 DEF SameMoves, BitsAfter, WireAfter, LogAfter
<1>7. s.reg = q.reg /\ s.cuts = q.cuts /\ s.staged = q.staged /\ s.seeds = q.seeds
  BY SuccIs, <1>1, <1>2 DEF RegAfter, CutsAfter, StagedAfter, SeedsAfter
<1>8. s.done = q.done
  BY SuccIs, <1>1 DEF DoneAfter
<1> QED
  BY SuccIs, <1>3, <1>4, <1>5, <1>6, <1>7, <1>8

LEMMA SuccFlush ==
  ASSUME NEW q, NEW s, s = Succ(q), Does(q, "flush")
  PROVE  /\ s.mode = q.mode /\ s.calls = q.calls /\ s.todo = Tail(q.todo)
         /\ s.reg = q.reg /\ s.seeds = q.seeds /\ s.done = q.done
         /\ s.cuts = q.cuts \cup {q.bits}
         /\ s.staged = << >>
         /\ SameGates(q, s)
         /\ SameDraws(q, s)
         /\ SameMoves(q, s)
<1>1. Does(q, "flush") /\ ~Idle(q) /\ \A x : x # "flush" => ~Does(q, x)
  BY DEF Does, Idle
<1>2. Cuts(q) /\ ~Waits(q) /\ ~Refills(q) /\ ~TakesCots(q) /\ ~Drains(q) /\ ~Closes(q)
  BY <1>1 DEF Waits, Refills, TakesCots, Drains, Closes, Cuts
<1>3. s.calls = q.calls /\ s.todo = Tail(q.todo)
  BY SuccIs, <1>1, <1>2 DEF CallsAfter, TodoAfter
<1>4. s.reg = q.reg /\ s.cuts = q.cuts \cup {q.bits} /\ s.staged = << >> /\ s.seeds = q.seeds
  BY SuccIs, <1>1, <1>2 DEF RegAfter, CutsAfter, StagedAfter, SeedsAfter
<1>5. s.issued = q.issued /\ s.pend = q.pend /\ s.checked = q.checked /\ s.f2k = q.f2k /\ s.hash = q.hash
  BY SuccIs, <1>1, <1>2 DEF IssuedAfter, PendAfter, CheckedAfter, F2kAfter, HashAfter
<1>6. s.used = q.used /\ s.hold = q.hold /\ s.off = q.off /\ s.done = q.done
  BY SuccIs, <1>1, <1>2 DEF UsedAfter, HoldAfter, OffAfter, DoneAfter
<1>7. s.bits = q.bits /\ s.wire = q.wire /\ s.log = q.log
  BY SuccIs, <1>1, <1>2 DEF BitsAfter, WireAfter, LogAfter
<1> QED
  BY SuccIs, <1>3, <1>4, <1>5, <1>6, <1>7 DEF SameGates, SameDraws, SameMoves

LEMMA SuccSeed ==
  ASSUME NEW q, NEW s, s = Succ(q), Does(q, "seed")
  PROVE  /\ s.mode = q.mode /\ s.calls = q.calls /\ s.todo = Tail(q.todo)
         /\ s.reg = q.reg /\ s.cuts = q.cuts /\ s.staged = q.staged /\ s.done = q.done
         /\ s.seeds = Append(q.seeds, [use |-> Head(q.todo).use, tweak |-> Tweak(Head(q.todo).use), log |-> q.log, moved |-> Moved(q)])
         /\ SameGates(q, s)
         /\ SameDraws(q, s)
         /\ SameMoves(q, s)
<1>1. Does(q, "seed") /\ ~Idle(q) /\ \A x : x # "seed" => ~Does(q, x)
  BY DEF Does, Idle
<1>2. ~Cuts(q) /\ ~Waits(q) /\ ~Refills(q) /\ ~TakesCots(q) /\ ~Drains(q) /\ ~Closes(q)
  BY <1>1 DEF Waits, Refills, TakesCots, Drains, Closes, Cuts
<1>3. s.calls = q.calls /\ s.todo = Tail(q.todo)
  BY SuccIs, <1>1, <1>2 DEF CallsAfter, TodoAfter
<1>4. s.reg = q.reg /\ s.cuts = q.cuts /\ s.staged = q.staged /\ s.seeds = Append(q.seeds, [use |-> Head(q.todo).use, tweak |-> Tweak(Head(q.todo).use), log |-> q.log, moved |-> Moved(q)])
  BY SuccIs, <1>1, <1>2 DEF RegAfter, CutsAfter, StagedAfter, SeedsAfter
<1>5. s.issued = q.issued /\ s.pend = q.pend /\ s.checked = q.checked /\ s.f2k = q.f2k /\ s.hash = q.hash
  BY SuccIs, <1>1, <1>2 DEF IssuedAfter, PendAfter, CheckedAfter, F2kAfter, HashAfter
<1>6. s.used = q.used /\ s.hold = q.hold /\ s.off = q.off /\ s.done = q.done
  BY SuccIs, <1>1, <1>2 DEF UsedAfter, HoldAfter, OffAfter, DoneAfter
<1>7. s.bits = q.bits /\ s.wire = q.wire /\ s.log = q.log
  BY SuccIs, <1>1, <1>2 DEF BitsAfter, WireAfter, LogAfter
<1> QED
  BY SuccIs, <1>3, <1>4, <1>5, <1>6, <1>7 DEF SameGates, SameDraws, SameMoves

LEMMA SuccWait ==
  ASSUME NEW q, NEW s, s = Succ(q), Waits(q)
  PROVE  /\ s.mode = q.mode /\ s.calls = q.calls /\ s.todo = q.todo
         /\ s.reg = q.reg /\ s.seeds = q.seeds /\ s.done = q.done
         /\ s.cuts = q.cuts \cup {q.bits}
         /\ s.staged = << >>
         /\ SameGates(q, s)
         /\ s.used = q.used
         /\ s.hold = TRUE
         /\ s.off = 0
         /\ SameMoves(q, s)
<1>1. Does(q, "draw") /\ ~Idle(q) /\ \A x : x # "draw" => ~Does(q, x)
  BY DEF Does, Idle, Waits
<1>2. Cuts(q) /\ ~Refills(q) /\ ~TakesCots(q) /\ ~Drains(q) /\ ~Closes(q)
  BY <1>1 DEF Waits, Refills, TakesCots, Drains, Closes, Cuts
<1>3. s.calls = q.calls /\ s.todo = q.todo
  BY SuccIs, <1>1, <1>2 DEF CallsAfter, TodoAfter
<1>4. s.reg = q.reg /\ s.cuts = q.cuts \cup {q.bits} /\ s.staged = << >> /\ s.seeds = q.seeds
  BY SuccIs, <1>1, <1>2 DEF RegAfter, CutsAfter, StagedAfter, SeedsAfter
<1>5. s.issued = q.issued /\ s.pend = q.pend /\ s.checked = q.checked /\ s.f2k = q.f2k /\ s.hash = q.hash
  BY SuccIs, <1>1, <1>2 DEF IssuedAfter, PendAfter, CheckedAfter, F2kAfter, HashAfter
<1>6. s.used = q.used /\ s.hold = TRUE /\ s.off = 0 /\ s.done = q.done
  BY SuccIs, <1>1, <1>2 DEF UsedAfter, HoldAfter, OffAfter, DoneAfter
<1>7. s.bits = q.bits /\ s.wire = q.wire /\ s.log = q.log
  BY SuccIs, <1>1, <1>2 DEF BitsAfter, WireAfter, LogAfter
<1> QED
  BY SuccIs, <1>3, <1>4, <1>5, <1>6, <1>7 DEF SameGates, SameDraws, SameMoves

LEMMA SuccRefill ==
  ASSUME NEW q, NEW s, s = Succ(q), Refills(q)
  PROVE  /\ s.mode = q.mode /\ s.calls = q.calls /\ s.todo = ((IF q.mode = "stream" /\ q.used % PerRound = 0 THEN Exchange("round") ELSE << >>)
                     \o <<Fill>> \o q.todo)
         /\ s.reg = q.reg /\ s.cuts = q.cuts /\ s.staged = q.staged /\ s.seeds = q.seeds /\ s.done = q.done
         /\ SameGates(q, s)
         /\ SameDraws(q, s)
         /\ SameMoves(q, s)
<1>1. Does(q, "draw") /\ ~Idle(q) /\ \A x : x # "draw" => ~Does(q, x)
  BY DEF Does, Idle, Refills
<1>2. ~Cuts(q) /\ ~Waits(q) /\ ~TakesCots(q) /\ ~Drains(q) /\ ~Closes(q)
  BY <1>1 DEF Waits, Refills, TakesCots, Drains, Closes, Cuts
<1>3. s.calls = q.calls /\ s.todo = ((IF q.mode = "stream" /\ q.used % PerRound = 0 THEN Exchange("round") ELSE << >>)
                    \o <<Fill>> \o q.todo)
  BY SuccIs, <1>1, <1>2 DEF CallsAfter, TodoAfter
<1>4. s.reg = q.reg /\ s.cuts = q.cuts /\ s.staged = q.staged /\ s.seeds = q.seeds
  BY SuccIs, <1>1, <1>2 DEF RegAfter, CutsAfter, StagedAfter, SeedsAfter
<1>5. s.issued = q.issued /\ s.pend = q.pend /\ s.checked = q.checked /\ s.f2k = q.f2k /\ s.hash = q.hash
  BY SuccIs, <1>1, <1>2 DEF IssuedAfter, PendAfter, CheckedAfter, F2kAfter, HashAfter
<1>6. s.used = q.used /\ s.hold = q.hold /\ s.off = q.off /\ s.done = q.done
  BY SuccIs, <1>1, <1>2 DEF UsedAfter, HoldAfter, OffAfter, DoneAfter
<1>7. s.bits = q.bits /\ s.wire = q.wire /\ s.log = q.log
  BY SuccIs, <1>1, <1>2 DEF BitsAfter, WireAfter, LogAfter
<1> QED
  BY SuccIs, <1>3, <1>4, <1>5, <1>6, <1>7 DEF SameGates, SameDraws, SameMoves

LEMMA SuccCopy ==
  ASSUME NEW q, NEW s, s = Succ(q), TakesCots(q)
  PROVE  /\ s.mode = q.mode /\ s.calls = q.calls /\ s.todo = (IF Piece(q) = Head(q.todo).n THEN Tail(q.todo)
                     ELSE <<Draw(Head(q.todo).n - Piece(q))>> \o Tail(q.todo))
         /\ s.cuts = q.cuts /\ s.staged = q.staged /\ s.seeds = q.seeds /\ s.done = q.done
         /\ s.reg = q.reg \o [k \in 1 .. Piece(q) |-> <<"cot", q.used * Batch + q.off + k - 1>>]
         /\ SameGates(q, s)
         /\ s.used = (IF q.off + Piece(q) = Batch THEN q.used + 1 ELSE q.used)
         /\ s.hold = (IF q.off + Piece(q) = Batch THEN FALSE ELSE q.hold)
         /\ s.off = (IF q.off + Piece(q) = Batch THEN 0 ELSE q.off + Piece(q))
         /\ SameMoves(q, s)
<1>1. Does(q, "draw") /\ ~Idle(q) /\ \A x : x # "draw" => ~Does(q, x)
  BY DEF Does, Idle, TakesCots
<1>2. (Drains(q) <=> q.off + Piece(q) = Batch) /\ ~Cuts(q) /\ ~Waits(q) /\ ~Refills(q) /\ ~Closes(q)
  BY <1>1 DEF Waits, Refills, TakesCots, Drains, Closes, Cuts
<1>3. s.calls = q.calls /\ s.todo = (IF Piece(q) = Head(q.todo).n THEN Tail(q.todo)
                    ELSE <<Draw(Head(q.todo).n - Piece(q))>> \o Tail(q.todo))
  BY SuccIs, <1>1, <1>2 DEF CallsAfter, TodoAfter
<1>4. s.reg = q.reg \o [k \in 1 .. Piece(q) |-> <<"cot", q.used * Batch + q.off + k - 1>>] /\ s.cuts = q.cuts /\ s.staged = q.staged /\ s.seeds = q.seeds
  BY SuccIs, <1>1, <1>2 DEF RegAfter, CutsAfter, StagedAfter, SeedsAfter
<1>5. s.issued = q.issued /\ s.pend = q.pend /\ s.checked = q.checked /\ s.f2k = q.f2k /\ s.hash = q.hash
  BY SuccIs, <1>1, <1>2 DEF IssuedAfter, PendAfter, CheckedAfter, F2kAfter, HashAfter
<1>6. s.used = (IF q.off + Piece(q) = Batch THEN q.used + 1 ELSE q.used) /\ s.hold = (IF q.off + Piece(q) = Batch THEN FALSE ELSE q.hold) /\ s.off = (IF q.off + Piece(q) = Batch THEN 0 ELSE q.off + Piece(q)) /\ s.done = q.done
  BY SuccIs, <1>1, <1>2 DEF UsedAfter, HoldAfter, OffAfter, DoneAfter
<1>7. s.bits = q.bits /\ s.wire = q.wire /\ s.log = q.log
  BY SuccIs, <1>1, <1>2 DEF BitsAfter, WireAfter, LogAfter
<1> QED
  BY SuccIs, <1>3, <1>4, <1>5, <1>6, <1>7 DEF SameGates, SameDraws, SameMoves

LEMMA SuccFill ==
  ASSUME NEW q, NEW s, s = Succ(q), Does(q, "fill")
  PROVE  /\ s.mode = q.mode /\ s.calls = q.calls /\ s.todo = Tail(q.todo)
         /\ s.reg = q.reg /\ s.cuts = q.cuts /\ s.staged = q.staged /\ s.seeds = q.seeds /\ s.done = q.done
         /\ SameGates(q, s)
         /\ s.used = q.used
         /\ s.hold = TRUE
         /\ s.off = 0
         /\ SameMoves(q, s)
<1>1. Does(q, "fill") /\ ~Idle(q) /\ \A x : x # "fill" => ~Does(q, x)
  BY DEF Does, Idle
<1>2. ~Cuts(q) /\ ~Waits(q) /\ ~Refills(q) /\ ~TakesCots(q) /\ ~Drains(q) /\ ~Closes(q)
  BY <1>1 DEF Waits, Refills, TakesCots, Drains, Closes, Cuts
<1>3. s.calls = q.calls /\ s.todo = Tail(q.todo)
  BY SuccIs, <1>1, <1>2 DEF CallsAfter, TodoAfter
<1>4. s.reg = q.reg /\ s.cuts = q.cuts /\ s.staged = q.staged /\ s.seeds = q.seeds
  BY SuccIs, <1>1, <1>2 DEF RegAfter, CutsAfter, StagedAfter, SeedsAfter
<1>5. s.issued = q.issued /\ s.pend = q.pend /\ s.checked = q.checked /\ s.f2k = q.f2k /\ s.hash = q.hash
  BY SuccIs, <1>1, <1>2 DEF IssuedAfter, PendAfter, CheckedAfter, F2kAfter, HashAfter
<1>6. s.used = q.used /\ s.hold = TRUE /\ s.off = 0 /\ s.done = q.done
  BY SuccIs, <1>1, <1>2 DEF UsedAfter, HoldAfter, OffAfter, DoneAfter
<1>7. s.bits = q.bits /\ s.wire = q.wire /\ s.log = q.log
  BY SuccIs, <1>1, <1>2 DEF BitsAfter, WireAfter, LogAfter
<1> QED
  BY SuccIs, <1>3, <1>4, <1>5, <1>6, <1>7 DEF SameGates, SameDraws, SameMoves

LEMMA SuccIssue ==
  ASSUME NEW q, NEW s, s = Succ(q), Does(q, "issue")
  PROVE  /\ s.mode = q.mode /\ s.calls = q.calls /\ s.todo = Tail(q.todo)
         /\ s.reg = q.reg /\ s.cuts = q.cuts /\ s.staged = q.staged /\ s.seeds = q.seeds /\ s.done = q.done
         /\ s.checked = q.checked /\ s.hash = q.hash
         /\ s.issued = [q.issued EXCEPT ![Head(q.todo).kind] = @ + Head(q.todo).n]
         /\ s.pend = [q.pend EXCEPT ![Head(q.todo).kind] = @ \o Ids(q)]
         /\ s.f2k = (IF Head(q.todo).kind = "f2k" THEN [q.f2k EXCEPT !.outs = @ \o Ids(q)] ELSE q.f2k)
         /\ SameDraws(q, s)
         /\ SameMoves(q, s)
<1>1. Does(q, "issue") /\ ~Idle(q) /\ \A x : x # "issue" => ~Does(q, x)
  BY DEF Does, Idle
<1>2. ~Cuts(q) /\ ~Waits(q) /\ ~Refills(q) /\ ~TakesCots(q) /\ ~Drains(q) /\ ~Closes(q)
  BY <1>1 DEF Waits, Refills, TakesCots, Drains, Closes, Cuts
<1>3. s.calls = q.calls /\ s.todo = Tail(q.todo)
  BY SuccIs, <1>1, <1>2 DEF CallsAfter, TodoAfter
<1>4. s.reg = q.reg /\ s.cuts = q.cuts /\ s.staged = q.staged /\ s.seeds = q.seeds
  BY SuccIs, <1>1, <1>2 DEF RegAfter, CutsAfter, StagedAfter, SeedsAfter
<1>5. s.issued = [q.issued EXCEPT ![Head(q.todo).kind] = @ + Head(q.todo).n] /\ s.pend = [q.pend EXCEPT ![Head(q.todo).kind] = @ \o Ids(q)] /\ s.checked = q.checked /\ s.f2k = (IF Head(q.todo).kind = "f2k" THEN [q.f2k EXCEPT !.outs = @ \o Ids(q)] ELSE q.f2k) /\ s.hash = q.hash
  BY SuccIs, <1>1, <1>2 DEF IssuedAfter, PendAfter, CheckedAfter, F2kAfter, HashAfter
<1>6. s.used = q.used /\ s.hold = q.hold /\ s.off = q.off /\ s.done = q.done
  BY SuccIs, <1>1, <1>2 DEF UsedAfter, HoldAfter, OffAfter, DoneAfter
<1>7. s.bits = q.bits /\ s.wire = q.wire /\ s.log = q.log
  BY SuccIs, <1>1, <1>2 DEF BitsAfter, WireAfter, LogAfter
<1> QED
  BY SuccIs, <1>3, <1>4, <1>5, <1>6, <1>7 DEF SameGates, SameDraws, SameMoves

LEMMA SuccFold ==
  ASSUME NEW q, NEW s, s = Succ(q), Does(q, "fold")
  PROVE  /\ s.mode = q.mode /\ s.calls = q.calls /\ s.todo = Tail(q.todo)
         /\ s.reg = q.reg /\ s.cuts = q.cuts /\ s.staged = q.staged /\ s.seeds = q.seeds /\ s.done = q.done
         /\ s.issued = q.issued /\ s.f2k = q.f2k /\ s.hash = q.hash
         /\ s.pend = [q.pend EXCEPT ![Head(q.todo).kind] = << >>]
         /\ s.checked = [q.checked EXCEPT ![Head(q.todo).kind] = @ \o Pairs(q, Head(q.todo).kind)]
         /\ SameDraws(q, s)
         /\ SameMoves(q, s)
<1>1. Does(q, "fold") /\ ~Idle(q) /\ \A x : x # "fold" => ~Does(q, x)
  BY DEF Does, Idle
<1>2. ~Cuts(q) /\ ~Waits(q) /\ ~Refills(q) /\ ~TakesCots(q) /\ ~Drains(q) /\ ~Closes(q)
  BY <1>1 DEF Waits, Refills, TakesCots, Drains, Closes, Cuts
<1>3. s.calls = q.calls /\ s.todo = Tail(q.todo)
  BY SuccIs, <1>1, <1>2 DEF CallsAfter, TodoAfter
<1>4. s.reg = q.reg /\ s.cuts = q.cuts /\ s.staged = q.staged /\ s.seeds = q.seeds
  BY SuccIs, <1>1, <1>2 DEF RegAfter, CutsAfter, StagedAfter, SeedsAfter
<1>5. s.issued = q.issued /\ s.pend = [q.pend EXCEPT ![Head(q.todo).kind] = << >>] /\ s.checked = [q.checked EXCEPT ![Head(q.todo).kind] = @ \o Pairs(q, Head(q.todo).kind)] /\ s.f2k = q.f2k /\ s.hash = q.hash
  BY SuccIs, <1>1, <1>2 DEF IssuedAfter, PendAfter, CheckedAfter, F2kAfter, HashAfter
<1>6. s.used = q.used /\ s.hold = q.hold /\ s.off = q.off /\ s.done = q.done
  BY SuccIs, <1>1, <1>2 DEF UsedAfter, HoldAfter, OffAfter, DoneAfter
<1>7. s.bits = q.bits /\ s.wire = q.wire /\ s.log = q.log
  BY SuccIs, <1>1, <1>2 DEF BitsAfter, WireAfter, LogAfter
<1> QED
  BY SuccIs, <1>3, <1>4, <1>5, <1>6, <1>7 DEF SameGates, SameDraws, SameMoves

LEMMA SuccRun ==
  ASSUME NEW q, NEW s, s = Succ(q), Does(q, "run")
  PROVE  /\ s.mode = q.mode /\ s.calls = q.calls /\ s.todo = Tail(q.todo)
         /\ s.reg = q.reg /\ s.cuts = q.cuts /\ s.staged = q.staged /\ s.seeds = q.seeds /\ s.done = q.done
         /\ s.issued = q.issued /\ s.pend = q.pend /\ s.checked = q.checked /\ s.hash = q.hash
         /\ s.f2k = RunAfter(q)
         /\ SameDraws(q, s)
         /\ SameMoves(q, s)
<1>1. Does(q, "run") /\ ~Idle(q) /\ \A x : x # "run" => ~Does(q, x)
  BY DEF Does, Idle
<1>2. ~Cuts(q) /\ ~Waits(q) /\ ~Refills(q) /\ ~TakesCots(q) /\ ~Drains(q) /\ ~Closes(q)
  BY <1>1 DEF Waits, Refills, TakesCots, Drains, Closes, Cuts
<1>3. s.calls = q.calls /\ s.todo = Tail(q.todo)
  BY SuccIs, <1>1, <1>2 DEF CallsAfter, TodoAfter
<1>4. s.reg = q.reg /\ s.cuts = q.cuts /\ s.staged = q.staged /\ s.seeds = q.seeds
  BY SuccIs, <1>1, <1>2 DEF RegAfter, CutsAfter, StagedAfter, SeedsAfter
<1>5. s.issued = q.issued /\ s.pend = q.pend /\ s.checked = q.checked /\ s.f2k = RunAfter(q) /\ s.hash = q.hash
  BY SuccIs, <1>1, <1>2 DEF IssuedAfter, PendAfter, CheckedAfter, F2kAfter, HashAfter
<1>6. s.used = q.used /\ s.hold = q.hold /\ s.off = q.off /\ s.done = q.done
  BY SuccIs, <1>1, <1>2 DEF UsedAfter, HoldAfter, OffAfter, DoneAfter
<1>7. s.bits = q.bits /\ s.wire = q.wire /\ s.log = q.log
  BY SuccIs, <1>1, <1>2 DEF BitsAfter, WireAfter, LogAfter
<1> QED
  BY SuccIs, <1>3, <1>4, <1>5, <1>6, <1>7 DEF SameGates, SameDraws, SameMoves

\* A transfer leaves the gates and moves the cursors.
LEMMA MoveBuffers ==
  ASSUME NEW q, NEW s, s = Succ(q), Does(q, "move")
  PROVE  /\ s.reg = << >> /\ s.issued = q.issued /\ s.pend = q.pend /\ s.checked = q.checked
         /\ s.f2k = (IF Head(q.todo).what = "in" THEN [q.f2k EXCEPT !.inCnt = @ + 1] ELSE q.f2k)
         /\ s.hash = (IF Head(q.todo).what = "val" THEN Append(q.hash, q.bits + Head(q.todo).bits) ELSE q.hash)
<1>1. Does(q, "move") /\ ~Idle(q) /\ \A x : x # "move" => ~Does(q, x)
  BY DEF Does, Idle
<1>2. ~Waits(q) /\ ~Refills(q) /\ ~TakesCots(q)
  BY <1>1 DEF Waits, Refills, TakesCots
<1>3. s.reg = << >>
  BY SuccIs, <1>1, <1>2 DEF RegAfter
<1>8. s.issued = q.issued /\ s.pend = q.pend /\ s.checked = q.checked
  BY SuccIs, <1>1, <1>2 DEF IssuedAfter, PendAfter, CheckedAfter
<1>9. s.f2k = (IF Head(q.todo).what = "in" THEN [q.f2k EXCEPT !.inCnt = @ + 1] ELSE q.f2k)
  <2>1. s.f2k = F2kAfter(q)
    BY SuccIs
  <2>2. ~Does(q, "issue") /\ ~Does(q, "run") /\ Does(q, "move")
    BY ONLY <1>1
  <2> QED
    BY ONLY <2>1, <2>2 DEF F2kAfter
<1>10. s.hash = (IF Head(q.todo).what = "val" THEN Append(q.hash, q.bits + Head(q.todo).bits) ELSE q.hash)
  <2>1. s.hash = HashAfter(q)
    BY SuccIs
  <2> QED
    BY ONLY <2>1, <1>1 DEF HashAfter
<1> QED
  BY ONLY <1>3, <1>8, <1>9, <1>10

LEMMA SuccMove ==
  ASSUME NEW q, NEW s, s = Succ(q), Does(q, "move")
  PROVE  /\ s.mode = q.mode /\ s.calls = q.calls /\ s.todo = Tail(q.todo)
         /\ s.seeds = q.seeds /\ s.done = q.done
         /\ s.reg = << >>
         /\ s.cuts = (IF Head(q.todo).bits = 0 THEN q.cuts \cup {q.bits} ELSE q.cuts)
         /\ s.staged = (IF Head(q.todo).bits = 0 THEN << >> ELSE Append(q.staged, Stamp(q)))
         /\ s.issued = q.issued /\ s.pend = q.pend /\ s.checked = q.checked
         /\ s.f2k = (IF Head(q.todo).what = "in" THEN [q.f2k EXCEPT !.inCnt = @ + 1] ELSE q.f2k)
         /\ s.hash = (IF Head(q.todo).what = "val" THEN Append(q.hash, q.bits + Head(q.todo).bits) ELSE q.hash)
         /\ SameDraws(q, s)
         /\ s.bits = q.bits + Head(q.todo).bits
         /\ s.wire = [q.wire EXCEPT ![Head(q.todo).from] = Append(@, Mail(q))]
         /\ s.log = Append(q.log, Stamp(q))
<1>1. Does(q, "move") /\ ~Idle(q) /\ \A x : x # "move" => ~Does(q, x)
  BY DEF Does, Idle
<1>2. (Cuts(q) <=> Head(q.todo).bits = 0) /\ ~Waits(q) /\ ~Refills(q) /\ ~TakesCots(q) /\ ~Drains(q) /\ ~Closes(q)
  BY <1>1 DEF Waits, Refills, TakesCots, Drains, Closes, Cuts
<1>3. s.calls = q.calls /\ s.todo = Tail(q.todo)
  BY SuccIs, <1>1, <1>2 DEF CallsAfter, TodoAfter
<1>4. s.reg = << >> /\ s.cuts = (IF Head(q.todo).bits = 0 THEN q.cuts \cup {q.bits} ELSE q.cuts) /\ s.staged = (IF Head(q.todo).bits = 0 THEN << >> ELSE Append(q.staged, Stamp(q))) /\ s.seeds = q.seeds
  BY SuccIs, <1>1, <1>2 DEF RegAfter, CutsAfter, StagedAfter, SeedsAfter
<1>5. /\ s.issued = q.issued /\ s.pend = q.pend /\ s.checked = q.checked
      /\ s.f2k = (IF Head(q.todo).what = "in" THEN [q.f2k EXCEPT !.inCnt = @ + 1] ELSE q.f2k)
      /\ s.hash = (IF Head(q.todo).what = "val" THEN Append(q.hash, q.bits + Head(q.todo).bits) ELSE q.hash)
  BY MoveBuffers
<1>6. s.used = q.used /\ s.hold = q.hold /\ s.off = q.off /\ s.done = q.done
  BY SuccIs, <1>1, <1>2 DEF UsedAfter, HoldAfter, OffAfter, DoneAfter
<1>7. s.bits = q.bits + Head(q.todo).bits /\ s.wire = [q.wire EXCEPT ![Head(q.todo).from] = Append(@, Mail(q))] /\ s.log = Append(q.log, Stamp(q))
  BY SuccIs, <1>1, <1>2 DEF BitsAfter, WireAfter, LogAfter
<1> QED
  BY SuccIs, <1>3, <1>4, <1>5, <1>6, <1>7 DEF SameGates, SameDraws, SameMoves

\* It cuts the block, or lengthens it, and is in the transcript.
LEMMA MoveNet ==
  ASSUME NEW q, NEW s, s = Succ(q), Does(q, "move")
  PROVE  /\ s.seeds = q.seeds
         /\ s.cuts = (IF Head(q.todo).bits = 0 THEN q.cuts \cup {q.bits} ELSE q.cuts)
         /\ s.staged = (IF Head(q.todo).bits = 0 THEN << >> ELSE Append(q.staged, Stamp(q)))
         /\ s.bits = q.bits + Head(q.todo).bits
         /\ s.wire = [q.wire EXCEPT ![Head(q.todo).from] = Append(@, Mail(q))]
         /\ s.log = Append(q.log, Stamp(q))
BY SuccMove

LEMMA SuccClose ==
  ASSUME NEW q, NEW s, s = Succ(q), Closes(q)
  PROVE  /\ s.mode = q.mode /\ s.calls = q.calls /\ s.todo = q.todo
         /\ s.reg = q.reg /\ s.cuts = q.cuts /\ s.staged = q.staged /\ s.seeds = q.seeds
         /\ s.done = TRUE
         /\ SameGates(q, s)
         /\ s.off = q.off
         /\ s.used = (IF q.hold /\ q.mode = "background" THEN q.used + 1 ELSE q.used)
         /\ s.hold = (IF q.mode = "background" THEN FALSE ELSE q.hold)
         /\ SameMoves(q, s)
<1>1. Does(q, "finish") /\ ~Idle(q) /\ \A x : x # "finish" => ~Does(q, x)
  BY DEF Does, Idle, Closes
<1>2. ~Cuts(q) /\ ~Waits(q) /\ ~Refills(q) /\ ~TakesCots(q) /\ ~Drains(q)
  BY <1>1 DEF Waits, Refills, TakesCots, Drains, Closes, Cuts
<1>3. s.calls = q.calls /\ s.todo = q.todo
  BY SuccIs, <1>1, <1>2 DEF CallsAfter, TodoAfter
<1>4. s.reg = q.reg /\ s.cuts = q.cuts /\ s.staged = q.staged /\ s.seeds = q.seeds
  BY SuccIs, <1>1, <1>2 DEF RegAfter, CutsAfter, StagedAfter, SeedsAfter
<1>5. s.issued = q.issued /\ s.pend = q.pend /\ s.checked = q.checked /\ s.f2k = q.f2k /\ s.hash = q.hash
  BY SuccIs, <1>1, <1>2 DEF IssuedAfter, PendAfter, CheckedAfter, F2kAfter, HashAfter
<1>6. s.used = (IF q.hold /\ q.mode = "background" THEN q.used + 1 ELSE q.used) /\ s.hold = (IF q.mode = "background" THEN FALSE ELSE q.hold) /\ s.off = q.off /\ s.done = TRUE
  BY SuccIs, <1>1, <1>2 DEF UsedAfter, HoldAfter, OffAfter, DoneAfter
<1>7. s.bits = q.bits /\ s.wire = q.wire /\ s.log = q.log
  BY SuccIs, <1>1, <1>2 DEF BitsAfter, WireAfter, LogAfter
<1> QED
  BY SuccIs, <1>3, <1>4, <1>5, <1>6, <1>7 DEF SameGates, SameDraws, SameMoves

LEMMA SuccEnd ==
  ASSUME NEW q, NEW s, s = Succ(q), Does(q, "finish"), q.done = TRUE
  PROVE  /\ s.mode = q.mode /\ s.calls = q.calls /\ s.todo = Tail(q.todo)
         /\ s.reg = q.reg /\ s.cuts = q.cuts /\ s.staged = q.staged /\ s.seeds = q.seeds
         /\ s.done = TRUE
         /\ SameGates(q, s)
         /\ SameDraws(q, s)
         /\ SameMoves(q, s)
<1>1. Does(q, "finish") /\ ~Idle(q) /\ \A x : x # "finish" => ~Does(q, x)
  BY DEF Does, Idle
<1>2. ~Cuts(q) /\ ~Waits(q) /\ ~Refills(q) /\ ~TakesCots(q) /\ ~Drains(q) /\ ~Closes(q)
  BY <1>1 DEF Waits, Refills, TakesCots, Drains, Closes, Cuts
<1>3. s.calls = q.calls /\ s.todo = Tail(q.todo)
  BY SuccIs, <1>1, <1>2 DEF CallsAfter, TodoAfter
<1>4. s.reg = q.reg /\ s.cuts = q.cuts /\ s.staged = q.staged /\ s.seeds = q.seeds
  BY SuccIs, <1>1, <1>2 DEF RegAfter, CutsAfter, StagedAfter, SeedsAfter
<1>5. s.issued = q.issued /\ s.pend = q.pend /\ s.checked = q.checked /\ s.f2k = q.f2k /\ s.hash = q.hash
  BY SuccIs, <1>1, <1>2 DEF IssuedAfter, PendAfter, CheckedAfter, F2kAfter, HashAfter
<1>6. s.used = q.used /\ s.hold = q.hold /\ s.off = q.off /\ s.done = TRUE
  BY SuccIs, <1>1, <1>2 DEF UsedAfter, HoldAfter, OffAfter, DoneAfter
<1>7. s.bits = q.bits /\ s.wire = q.wire /\ s.log = q.log
  BY SuccIs, <1>1, <1>2 DEF BitsAfter, WireAfter, LogAfter
<1> QED
  BY SuccIs, <1>3, <1>4, <1>5, <1>6, <1>7 DEF SameGates, SameDraws, SameMoves


-----------------------------------------------------------------------------
(* The machine's types.                                                    *)

LEMMA StepIs ==
  ASSUME NEW s \in Step
  PROVE  /\ s.do \in {"flush", "fill", "finish", "seed", "draw", "issue", "fold", "run", "move"}
         /\ s.do = "seed" => s.use \in Use
         /\ s.do = "draw" => s.n \in Nat
         /\ s.do = "issue" => s.kind \in Kind /\ s.n \in Nat
         /\ s.do = "fold" => s.kind \in Kind
         /\ s.do = "run" => s.buf \in {"auth", "in"}
         /\ s.do = "move" => s.from \in Party /\ s.what \in Words /\ s.bits \in Nat /\ s.flush \in BOOLEAN
         /\ s.do = "move" /\ s.from = BOB => s.bits = 0
BY DEF Step, Party, ALICE, BOB

LEMMA StepsAre ==
  /\ Flush \in Step /\ Fill \in Step /\ Finish \in Step
  /\ \A d \in Use : Seed(d) \in Step
  /\ \A n \in Nat : Draw(n) \in Step
  /\ \A k \in Kind, n \in Nat : Issue(k, n) \in Step
  /\ \A k \in Kind : Fold(k) \in Step
  /\ Run("auth") \in Step /\ Run("in") \in Step
  /\ \A w \in Words, f \in BOOLEAN : Move(BOB, w, 0, f) \in Step /\ \A n \in Nat : Move(ALICE, w, n, f) \in Step
<1>1. Flush \in Step /\ Fill \in Step /\ Finish \in Step
  BY DEF Step, Flush, Fill, Finish
<1>2. \A d \in Use : Seed(d) \in Step
  BY DEF Step, Seed
<1>3. \A n \in Nat : Draw(n) \in Step
  BY DEF Step, Draw
<1>4. \A k \in Kind, n \in Nat : Issue(k, n) \in Step
  BY DEF Step, Issue
<1>5. \A k \in Kind : Fold(k) \in Step
  BY DEF Step, Fold
<1>6. Run("auth") \in Step /\ Run("in") \in Step
  BY DEF Step, Run
<1>7. \A w \in Words, f \in BOOLEAN : Move(BOB, w, 0, f) \in Step /\ \A n \in Nat : Move(ALICE, w, n, f) \in Step
  BY DEF Step, Move
<1> QED
  BY <1>1, <1>2, <1>3, <1>4, <1>5, <1>6, <1>7

LEMMA OneTyped == ASSUME NEW S, NEW a \in S PROVE <<a>> \in Seq(S)
OBVIOUS

LEMMA TwoTyped == ASSUME NEW S, NEW a \in S, NEW b \in S PROVE <<a, b>> \in Seq(S)
OBVIOUS

LEMMA CatTyped == ASSUME NEW S, NEW a \in Seq(S), NEW b \in Seq(S) PROVE a \o b \in Seq(S)
OBVIOUS

LEMMA Cat3Typed ==
  ASSUME NEW S, NEW a \in Seq(S), NEW b \in Seq(S), NEW c \in Seq(S) PROVE a \o b \o c \in Seq(S)
OBVIOUS

LEMMA Cat4Typed ==
  ASSUME NEW S, NEW a \in Seq(S), NEW b \in Seq(S), NEW c \in Seq(S), NEW d \in Seq(S)
  PROVE  a \o b \o c \o d \in Seq(S)
OBVIOUS

LEMMA IfTyped ==
  ASSUME NEW S, NEW a \in Seq(S), NEW P PROVE (IF P THEN a ELSE << >>) \in Seq(S)
OBVIOUS

LEMMA KindsAre ==
  /\ "and" \in Kind /\ "f2k" \in Kind /\ "poly" \in Kind /\ "prod" \in Kind
  /\ "and" \in Use /\ "f2k" \in Use /\ "poly" \in Use /\ "prod" \in Use
  /\ "r" \in Use /\ "coeff" \in Use
  /\ ALICE \in Party /\ BOB \in Party /\ OPE \in Nat /\ LIMB \in Nat
BY SizesAre DEF Kind, Use, Party

LEMMA WordsAre ==
  /\ "mask" \in Words /\ "gate" \in Words /\ "val" \in Words /\ "A_star" \in Words /\ "in" \in Words
  /\ "d" \in Words /\ "seed" \in Words /\ "check_sum" \in Words /\ "sums" \in Words
  /\ "macs" \in Words /\ "digest" \in Words /\ "setup" \in Words /\ "vole" \in Words
  /\ "begin" \in Words /\ "round" \in Words /\ "end" \in Words
BY DEF Words

LEMMA KindIsUse == \A k \in Kind : k \in Use
BY DEF Use

-----------------------------------------------------------------------------
(* What the calls are made of: blocks, in which every challenge comes       *)
(* directly after a flush and is followed by a transfer.                    *)

Calm(x)  == x.do \in {"draw", "flush", "fill"}
Plain    == {x \in Step : x.do \notin {"issue", "finish"} /\ (x.do = "seed" => x.use # "r")}
Led(s)   == \A i \in DOMAIN s : s[i].do = "seed" => i > 1 /\ s[i - 1] = Flush

\* Between the i-th step and the next transfer nothing but draws and flushes.
MoveAfter(s, i) ==
  \E j \in DOMAIN s : j > i /\ s[j].do = "move" /\ \A l \in i + 1 .. j - 1 : Calm(s[l])

Covered(s) == \A i \in DOMAIN s : s[i].do = "seed" /\ s[i].use \in Kind => MoveAfter(s, i)
Block(s)   == s \in Seq(Plain) /\ Led(s) /\ Covered(s)

LEMMA PlainAre ==
  /\ Flush \in Plain /\ Fill \in Plain
  /\ Seed("coeff") \in Plain /\ \A d \in Kind : Seed(d) \in Plain
  /\ \A n \in Nat : Draw(n) \in Plain
  /\ \A k \in Kind : Fold(k) \in Plain
  /\ Run("auth") \in Plain /\ Run("in") \in Plain
  /\ \A w \in Words, f \in BOOLEAN : Move(BOB, w, 0, f) \in Plain /\ \A n \in Nat : Move(ALICE, w, n, f) \in Plain
<1>1. Flush \in Plain /\ Fill \in Plain /\ Run("auth") \in Plain /\ Run("in") \in Plain
  BY StepsAre DEF Plain, Flush, Fill, Run
<1>2. Seed("coeff") \in Plain /\ \A d \in Kind : Seed(d) \in Plain
  <2>1. "r" \notin Kind
    BY DEF Kind
  <2> QED
    BY <2>1, StepsAre, KindsAre, KindIsUse DEF Plain, Seed
<1>3. \A n \in Nat : Draw(n) \in Plain
  BY StepsAre DEF Plain, Draw
<1>4. \A k \in Kind : Fold(k) \in Plain
  BY StepsAre DEF Plain, Fold
<1>5. \A w \in Words, f \in BOOLEAN : Move(BOB, w, 0, f) \in Plain /\ \A n \in Nat : Move(ALICE, w, n, f) \in Plain
  BY StepsAre DEF Plain, Move
<1> QED
  BY <1>1, <1>2, <1>3, <1>4, <1>5

LEMMA StepDoes ==
  /\ Flush.do = "flush" /\ Fill.do = "fill" /\ Finish.do = "finish"
  /\ \A d : Seed(d).do = "seed" /\ Seed(d).use = d
  /\ \A n : Draw(n).do = "draw" /\ Draw(n).n = n
  /\ \A k, n : Issue(k, n).do = "issue" /\ Issue(k, n).kind = k /\ Issue(k, n).n = n
  /\ \A k : Fold(k).do = "fold" /\ Fold(k).kind = k
  /\ \A b : Run(b).do = "run" /\ Run(b).buf = b
  /\ \A p, w, n, f : Move(p, w, n, f).do = "move"
BY DEF Flush, Fill, Finish, Seed, Draw, Issue, Fold, Run, Move

LEMMA EmptyBlock == Block(<< >>)
BY DEF Block, Led, Covered

LEMMA OneBlock == ASSUME NEW x \in Plain, x.do # "seed" PROVE Block(<<x>>)
<1>1. <<x>> \in Seq(Plain) /\ DOMAIN <<x>> = {1} /\ <<x>>[1] = x
  OBVIOUS
<1> QED
  BY ONLY <1>1, x.do # "seed" DEF Block, Led, Covered

LEMMA CatIs ==
  ASSUME NEW S, NEW a \in Seq(S), NEW b \in Seq(S)
  PROVE  /\ a \o b \in Seq(S) /\ Len(a \o b) = Len(a) + Len(b) /\ Len(a) \in Nat /\ Len(b) \in Nat
         /\ DOMAIN a = 1 .. Len(a) /\ DOMAIN b = 1 .. Len(b) /\ DOMAIN (a \o b) = 1 .. Len(a) + Len(b)
         /\ \A i \in 1 .. Len(a) : (a \o b)[i] = a[i]
         /\ \A i \in 1 .. Len(b) : (a \o b)[Len(a) + i] = b[i]
         /\ \A i \in Len(a) + 1 .. Len(a) + Len(b) : (a \o b)[i] = b[i - Len(a)]
OBVIOUS

LEMMA LedCat ==
  ASSUME NEW a \in Seq(Step), NEW b \in Seq(Step), Led(a), Led(b)
  PROVE  Led(a \o b)
<1> DEFINE s == a \o b
<1>0. /\ DOMAIN s = 1 .. Len(a) + Len(b) /\ Len(a) \in Nat /\ Len(b) \in Nat
      /\ DOMAIN a = 1 .. Len(a) /\ DOMAIN b = 1 .. Len(b)
      /\ \A i \in 1 .. Len(a) : s[i] = a[i]
      /\ \A i \in Len(a) + 1 .. Len(a) + Len(b) : s[i] = b[i - Len(a)]
  BY CatIs
<1> HIDE DEF s
<1>1. ASSUME NEW i \in DOMAIN s, s[i].do = "seed" PROVE i > 1 /\ s[i - 1] = Flush
  <2>1. CASE i <= Len(a)
    <3>1. i \in DOMAIN a /\ s[i] = a[i]
      BY <1>0, <2>1
    <3>2. i > 1 /\ a[i - 1] = Flush
      BY <1>1, <3>1 DEF Led
    <3> QED
      BY <1>0, <2>1, <3>2
  <2>2. CASE i > Len(a)
    <3>1. i - Len(a) \in DOMAIN b /\ s[i] = b[i - Len(a)]
      BY <1>0, <2>2
    <3>2. i - Len(a) > 1 /\ b[i - Len(a) - 1] = Flush
      BY <1>1, <3>1 DEF Led
    <3>3. i - 1 \in Len(a) + 1 .. Len(a) + Len(b) /\ (i - 1) - Len(a) = i - Len(a) - 1
      BY <1>0, <3>1, <3>2
    <3>4. s[i - 1] = b[(i - 1) - Len(a)]
      BY ONLY <1>0, <3>3
    <3> QED
      BY <1>0, <3>2, <3>3, <3>4
  <2> QED
    BY <1>0, <2>1, <2>2
<1> QED
  BY <1>1 DEF Led, s

LEMMA CoveredCat ==
  ASSUME NEW a \in Seq(Step), NEW b \in Seq(Step), Covered(a), Covered(b)
  PROVE  Covered(a \o b)
<1> DEFINE s == a \o b
<1>0. /\ DOMAIN s = 1 .. Len(a) + Len(b) /\ Len(a) \in Nat /\ Len(b) \in Nat
      /\ DOMAIN a = 1 .. Len(a) /\ DOMAIN b = 1 .. Len(b)
      /\ \A i \in 1 .. Len(a) : s[i] = a[i]
      /\ \A i \in Len(a) + 1 .. Len(a) + Len(b) : s[i] = b[i - Len(a)]
  BY CatIs
<1> HIDE DEF s
<1>1. ASSUME NEW i \in DOMAIN s, s[i].do = "seed", s[i].use \in Kind PROVE MoveAfter(s, i)
  <2>1. CASE i <= Len(a)
    <3>1. i \in DOMAIN a /\ s[i] = a[i]
      BY <1>0, <2>1
    <3>2. PICK j \in DOMAIN a : j > i /\ a[j].do = "move" /\ \A l \in i + 1 .. j - 1 : Calm(a[l])
      BY <1>1, <3>1 DEF Covered, MoveAfter
    <3>3. j \in DOMAIN s /\ s[j] = a[j] /\ \A l \in i + 1 .. j - 1 : s[l] = a[l]
      BY <1>0, <3>2
    <3> QED
      BY <3>2, <3>3 DEF MoveAfter
  <2>2. CASE i > Len(a)
    <3>1. i - Len(a) \in DOMAIN b /\ s[i] = b[i - Len(a)]
      BY <1>0, <2>2
    <3> DEFINE h == i - Len(a)
    <3>2. PICK j \in DOMAIN b : j > h /\ b[j].do = "move" /\ \A l \in h + 1 .. j - 1 : Calm(b[l])
      <4>1. h \in DOMAIN b /\ b[h].do = "seed" /\ b[h].use \in Kind
        BY <1>1, <3>1
      <4> HIDE DEF h
      <4> QED
        BY ONLY <4>1, Covered(b) DEF Covered, MoveAfter
    <3>3. j + Len(a) \in DOMAIN s /\ j + Len(a) > i /\ s[j + Len(a)] = b[j]
      <4>1. j \in 1 .. Len(b) /\ i \in Int /\ h = i - Len(a) /\ j > h
        BY <1>0, <3>2
      <4>2. j + Len(a) \in Len(a) + 1 .. Len(a) + Len(b) /\ (j + Len(a)) - Len(a) = j /\ j + Len(a) > i
            /\ j + Len(a) \in 1 .. Len(a) + Len(b)
        BY ONLY <1>0, <4>1
      <4> QED
        BY ONLY <1>0, <4>2
    <3>4. ASSUME NEW l \in i + 1 .. (j + Len(a)) - 1 PROVE Calm(s[l])
      <4>0. l \in Int /\ i \in Int /\ j \in 1 .. Len(b) /\ i > Len(a)
        BY <1>0, <2>2
      <4>1. l - Len(a) \in h + 1 .. j - 1 /\ l \in Len(a) + 1 .. Len(a) + Len(b)
        BY <1>0, <4>0
      <4>2. Calm(b[l - Len(a)]) /\ s[l] = b[l - Len(a)]
        BY ONLY <1>0, <3>2, <4>1
      <4> QED
        BY ONLY <4>2
    <3> QED
      BY <3>2, <3>3, <3>4 DEF MoveAfter
  <2> QED
    BY <1>0, <2>1, <2>2
<1> QED
  BY <1>1 DEF Covered, s

LEMMA PlainIsStep == Plain \subseteq Step
BY DEF Plain

LEMMA WiderSeq == ASSUME NEW S, NEW R, S \subseteq R, NEW s \in Seq(S) PROVE s \in Seq(R)
OBVIOUS

LEMMA BlockIsSteps == ASSUME NEW s, Block(s) PROVE s \in Seq(Step)
<1>1. s \in Seq(Plain)
  BY DEF Block
<1> QED
  BY ONLY <1>1, PlainIsStep, WiderSeq

LEMMA CatBlock == ASSUME NEW a, NEW b, Block(a), Block(b) PROVE Block(a \o b)
<1>1. a \in Seq(Plain) /\ b \in Seq(Plain) /\ Led(a) /\ Led(b) /\ Covered(a) /\ Covered(b)
  BY DEF Block
<1>2. a \in Seq(Step) /\ b \in Seq(Step)
  BY BlockIsSteps
<1>3. a \o b \in Seq(Plain)
  BY ONLY <1>1, CatTyped
<1>4. Led(a \o b) /\ Covered(a \o b)
  BY ONLY <1>1, <1>2, LedCat, CoveredCat
<1> QED
  BY ONLY <1>3, <1>4 DEF Block

LEMMA Cat3Block == ASSUME NEW a, NEW b, NEW c, Block(a), Block(b), Block(c) PROVE Block(a \o b \o c)
<1>1. Block(a \o b)
  BY CatBlock
<1> QED
  BY <1>1, CatBlock

LEMMA IfBlock == ASSUME NEW a, NEW P, Block(a) PROVE Block(IF P THEN a ELSE << >>)
BY EmptyBlock

\* A challenge, what may come before the next transfer, and the transfer.
LEMMA SeedBlock ==
  ASSUME NEW k \in Kind, NEW w \in Words, NEW f \in BOOLEAN
  PROVE  /\ Block(<<Flush, Seed(k), Move(ALICE, w, 0, f)>>)
         /\ Block(<<Flush, Seed(k), Draw(OPE), Move(ALICE, w, 0, f)>>)
<1> DEFINE m == Move(ALICE, w, 0, f)
           s == <<Flush, Seed(k), m>>
           t == <<Flush, Seed(k), Draw(OPE), m>>
<1>1. Flush \in Plain /\ Seed(k) \in Plain /\ Draw(OPE) \in Plain /\ m \in Plain
  BY PlainAre, KindsAre
<1>2. Flush.do = "flush" /\ Seed(k).do = "seed" /\ Draw(OPE).do = "draw" /\ m.do = "move"
  BY StepDoes
<1> HIDE DEF m
<1>3. s \in Seq(Plain) /\ DOMAIN s = 1 .. 3 /\ s[1] = Flush /\ s[2] = Seed(k) /\ s[3] = m
  BY <1>1
<1>4. t \in Seq(Plain) /\ DOMAIN t = 1 .. 4 /\ t[1] = Flush /\ t[2] = Seed(k) /\ t[3] = Draw(OPE) /\ t[4] = m
  BY <1>1
<1> HIDE DEF s, t
<1>5. MoveAfter(s, 2) /\ MoveAfter(t, 2)
  BY <1>2, <1>3, <1>4 DEF MoveAfter, Calm
<1>6. \A i \in DOMAIN s : s[i].do = "seed" => i = 2
  BY ONLY <1>2, <1>3
<1>7. \A i \in DOMAIN t : t[i].do = "seed" => i = 2
  BY ONLY <1>2, <1>4
<1>8. Block(s)
  BY ONLY <1>3, <1>5, <1>6 DEF Block, Led, Covered
<1>9. Block(t)
  BY ONLY <1>4, <1>5, <1>7 DEF Block, Led, Covered
<1> QED
  BY <1>8, <1>9 DEF s, t, m

LEMMA MovesBlock ==
  ASSUME NEW w \in Words
  PROVE  /\ Block(ToBob(w)) /\ Block(ToBobNow(w)) /\ Block(ToAlice(w))
         /\ \A n \in Nat : Block(Bits(w, n))
<1>1. /\ Move(ALICE, w, 0, FALSE) \in Plain /\ Move(ALICE, w, 0, TRUE) \in Plain
      /\ Move(BOB, w, 0, TRUE) \in Plain /\ \A n \in Nat : Move(ALICE, w, n, FALSE) \in Plain
  BY PlainAre, KindsAre
<1>2. /\ Block(<<Move(ALICE, w, 0, FALSE)>>) /\ Block(<<Move(ALICE, w, 0, TRUE)>>)
      /\ Block(<<Move(BOB, w, 0, TRUE)>>)
      /\ \A n \in Nat : Block(<<Move(ALICE, w, n, FALSE)>>)
  BY <1>1, StepDoes, OneBlock
<1> QED
  BY ONLY <1>2 DEF ToBob, ToBobNow, ToAlice, Bits

LEMMA MaskedBlock ==
  ASSUME NEW w \in Words, NEW n \in Nat
  PROVE  Block(Masked(n, w))
<1>1. Block(<<Draw(n)>>)
  BY PlainAre, StepDoes, OneBlock, KindsAre
<1>2. Block(Bits(w, n))
  BY MovesBlock
<1>3. Block(<<Draw(n)>> \o Bits(w, n))
  BY ONLY <1>1, <1>2, CatBlock
<1> QED
  BY ONLY <1>3 DEF Masked

LEMMA ExchangeBlock ==
  ASSUME NEW w \in Words
  PROVE  Block(Exchange(w))
<1>1. Block(<<Flush>>)
  BY PlainAre, StepDoes, OneBlock, KindsAre
<1>2. Block(ToBobNow(w))
  BY MovesBlock
<1>3. Block(ToAlice(w))
  BY MovesBlock
<1>4. Block(<<Flush>> \o ToBobNow(w) \o ToAlice(w))
  BY ONLY <1>1, <1>2, <1>3, Cat3Block
<1> QED
  BY ONLY <1>4 DEF Exchange

LEMMA Join11 == ASSUME NEW S, NEW a \in S, NEW b \in S PROVE <<a>> \o <<b>> = <<a, b>>
<1>1. <<a>> \in Seq(S) /\ <<b>> \in Seq(S) /\ <<a, b>> \in Seq(S)
  OBVIOUS
<1>2. <<a>> \o <<b>> \in Seq(S) /\ Len(<<a>> \o <<b>>) = 2 /\ Len(<<a, b>>) = 2
  BY <1>1
<1>3. \A i \in 1 .. 2 : (<<a>> \o <<b>>)[i] = <<a, b>>[i]
  BY <1>1
<1> QED
  BY ONLY <1>1, <1>2, <1>3, SeqEqual

LEMMA Join21 ==
  ASSUME NEW S, NEW a \in S, NEW b \in S, NEW c \in S PROVE <<a, b>> \o <<c>> = <<a, b, c>>
<1>1. <<a, b>> \in Seq(S) /\ <<c>> \in Seq(S) /\ <<a, b, c>> \in Seq(S)
  OBVIOUS
<1>2. <<a, b>> \o <<c>> \in Seq(S) /\ Len(<<a, b>> \o <<c>>) = 3 /\ Len(<<a, b, c>>) = 3
  BY <1>1
<1>3. \A i \in 1 .. 3 : (<<a, b>> \o <<c>>)[i] = <<a, b, c>>[i]
  BY <1>1
<1> QED
  BY ONLY <1>1, <1>2, <1>3, SeqEqual

LEMMA Join22 ==
  ASSUME NEW S, NEW a \in S, NEW b \in S, NEW c \in S, NEW d \in S
  PROVE  <<a, b>> \o <<c, d>> = <<a, b, c, d>>
<1>1. <<a, b>> \in Seq(S) /\ <<c, d>> \in Seq(S) /\ <<a, b, c, d>> \in Seq(S)
  OBVIOUS
<1>2. <<a, b>> \o <<c, d>> \in Seq(S) /\ Len(<<a, b>> \o <<c, d>>) = 4 /\ Len(<<a, b, c, d>>) = 4
  BY <1>1
<1>3. \A i \in 1 .. 4 : (<<a, b>> \o <<c, d>>)[i] = <<a, b, c, d>>[i]
  BY <1>1
<1> QED
  BY ONLY <1>1, <1>2, <1>3, SeqEqual

LEMMA CheckIs ==
  ASSUME NEW k \in Kind
  PROVE  Check(k) = <<Flush, Seed(k), Draw(OPE), Move(ALICE, "A_star", 0, FALSE)>> \o <<Flush, Fold(k)>>
<1> DEFINE a == Flush  b == Seed(k)  c == Draw(OPE)  d == Move(ALICE, "A_star", 0, FALSE)  f == Fold(k)
<1>0. a \in Step /\ b \in Step /\ c \in Step /\ d \in Step
  BY StepsAre, KindsAre, KindIsUse, WordsAre
<1>1. Check(k) = <<a, b>> \o (<<c>> \o <<d>>) \o <<a, f>>
  BY DEF Check, Aggregate, ToBob
<1> HIDE DEF a, b, c, d, f
<1>2. <<c>> \o <<d>> = <<c, d>>
  BY ONLY <1>0, Join11
<1>3. <<a, b>> \o <<c, d>> = <<a, b, c, d>>
  BY ONLY <1>0, Join22
<1>4. Check(k) = <<a, b, c, d>> \o <<a, f>>
  BY ONLY <1>1, <1>2, <1>3
<1> QED
  BY ONLY <1>4 DEF a, b, c, d, f

LEMMA ProdCheckIs ==
  ProdCheck = <<Flush, Seed("prod"), Move(ALICE, "sums", 0, TRUE)>> \o <<Fold("prod")>>
<1> DEFINE a == Flush  b == Seed("prod")  c == Move(ALICE, "sums", 0, TRUE)  f == Fold("prod")
<1>0. a \in Step /\ b \in Step /\ c \in Step
  BY StepsAre, KindsAre, WordsAre
<1>1. ProdCheck = <<a, b>> \o <<c>> \o <<f>>
  BY DEF ProdCheck, ToBobNow
<1> HIDE DEF a, b, c, f
<1>2. <<a, b>> \o <<c>> = <<a, b, c>>
  BY ONLY <1>0, Join21
<1>3. ProdCheck = <<a, b, c>> \o <<f>>
  BY ONLY <1>1, <1>2
<1> QED
  BY ONLY <1>3 DEF a, b, c, f

\* A fold's challenge, which checks nothing, needs no transfer after it.
LEMMA CompressBlock == Block(Compress)
<1> DEFINE a == Flush  b == Seed("coeff")  s == <<a, b>>
<1>1. a \in Plain /\ b \in Plain /\ a.do = "flush" /\ b.use = "coeff"
  BY PlainAre, StepDoes
<1>2. a = Flush
  OBVIOUS
<1>3. "coeff" \notin Kind
  BY DEF Kind
<1>4. Compress = s
  BY DEF Compress
<1> HIDE DEF a, b
<1>5. s \in Seq(Plain) /\ DOMAIN s = 1 .. 2 /\ s[1] = a /\ s[2] = b
  BY ONLY <1>1
<1> HIDE DEF s
<1>6. \A i \in DOMAIN s : i = 1 \/ (i = 2 /\ i - 1 = 1)
  BY ONLY <1>5
<1>7. Led(s) /\ Covered(s)
  BY ONLY <1>1, <1>2, <1>3, <1>5, <1>6 DEF Led, Covered
<1> QED
  BY ONLY <1>4, <1>5, <1>7 DEF Block

LEMMA CheckBlock == ASSUME NEW k \in Kind PROVE Block(Check(k))
<1>1. Block(<<Flush, Seed(k), Draw(OPE), Move(ALICE, "A_star", 0, FALSE)>>)
  BY SeedBlock, WordsAre
<1>2. Block(<<Flush>>) /\ Block(<<Fold(k)>>)
  BY PlainAre, StepDoes, OneBlock
<1>3. Block(<<Flush>> \o <<Fold(k)>>)
  BY ONLY <1>2, CatBlock
<1>4. <<Flush>> \o <<Fold(k)>> = <<Flush, Fold(k)>>
  BY Join11, StepsAre
<1>5. Block(<<Flush, Seed(k), Draw(OPE), Move(ALICE, "A_star", 0, FALSE)>> \o <<Flush, Fold(k)>>)
  BY ONLY <1>1, <1>3, <1>4, CatBlock
<1> QED
  BY ONLY <1>5, CheckIs

LEMMA F2kCheckBlock == Block(F2kCheck)
BY CheckBlock, KindsAre DEF F2kCheck

LEMMA ProdCheckBlock == Block(ProdCheck)
<1>1. Block(<<Flush, Seed("prod"), Move(ALICE, "sums", 0, TRUE)>>)
  BY SeedBlock, WordsAre, KindsAre
<1>2. Block(<<Fold("prod")>>)
  BY PlainAre, StepDoes, OneBlock, KindsAre
<1>3. Block(<<Flush, Seed("prod"), Move(ALICE, "sums", 0, TRUE)>> \o <<Fold("prod")>>)
  BY ONLY <1>1, <1>2, CatBlock
<1> QED
  BY ONLY <1>3, ProdCheckIs

LEMMA PolyCheckBlock == Block(PolyCheck)
<1>1. Block(ToAlice("seed")) /\ Block(ToBobNow("check_sum"))
  BY MovesBlock, WordsAre
<1>2. Block(<<Draw(OPE)>>) /\ Block(<<Fold("poly")>>)
  BY PlainAre, StepDoes, OneBlock, KindsAre
<1>3. Block(ToAlice("seed") \o <<Draw(OPE)>> \o ToBobNow("check_sum"))
  BY ONLY <1>1, <1>2, Cat3Block
<1>4. Block(ToAlice("seed") \o <<Draw(OPE)>> \o ToBobNow("check_sum") \o <<Fold("poly")>>)
  BY ONLY <1>2, <1>3, CatBlock
<1> QED
  BY ONLY <1>4 DEF PolyCheck

LEMMA PackVBlock ==
  Block(PackV)
<1>1. Block(Feed(LIMB))
  BY MaskedBlock, WordsAre, KindsAre DEF Feed
<1>2. Block(Feed(LIMB))
  BY MaskedBlock, WordsAre, KindsAre DEF Feed
<1>3. Block(Feed(LIMB) \o Feed(LIMB))
  BY ONLY <1>1, <1>2, CatBlock
<1> QED
  BY ONLY <1>3 DEF PackV

LEMMA F2kInitBlock ==
  ASSUME NEW e
  PROVE  Block(F2kInit(e))
<1>1. Block(Exchange("setup")) /\ Block(Exchange("vole")) /\ Block(<<Run("auth")>>)
  BY ExchangeBlock, WordsAre, PlainAre, StepDoes, OneBlock
<1>2. Block(Exchange("setup") \o Exchange("vole") \o <<Run("auth")>>)
  BY ONLY <1>1, Cat3Block
<1> QED
  BY ONLY <1>2, EmptyBlock DEF F2kInit

LEMMA RunBlock == ASSUME NEW b \in {"auth", "in"} PROVE Block(Exchange("vole") \o <<Run(b)>>)
<1>1. Block(Exchange("vole")) /\ Block(<<Run(b)>>)
  BY ExchangeBlock, WordsAre, PlainAre, StepDoes, OneBlock
<1> QED
  BY ONLY <1>1, CatBlock

LEMMA F2kRefillBlock == ASSUME NEW e PROVE Block(F2kRefill(e))
<1>1. Block(Exchange("vole") \o <<Run("auth")>>)
  BY RunBlock
<1> QED
  BY ONLY <1>1, EmptyBlock DEF F2kRefill

LEMMA F2kInputBlock ==
  ASSUME NEW e
  PROVE  Block(F2kInput(e))
<1>1. Block(F2kInit(e))
  BY F2kInitBlock
<1>2. Block(IF e.f2k.inCnt = F2K_SZ THEN Exchange("vole") \o <<Run("in")>> ELSE << >>)
  BY RunBlock, IfBlock
<1>3. Block(ToBob("in"))
  BY MovesBlock, WordsAre
<1>4. Block(F2kInit(e) \o (IF e.f2k.inCnt = F2K_SZ THEN Exchange("vole") \o <<Run("in")>> ELSE << >>) \o ToBob("in"))
  BY ONLY <1>1, <1>2, <1>3, Cat3Block
<1> QED
  BY ONLY <1>4 DEF F2kInput

\* The steps of a call but the last.
Before(e, c) ==
  CASE c.do = "and"     -> Masked(Take(e, c.n), "gate")
    [] c.do = "f2kmul"  -> F2kInit(e) \o (IF Full(e, "f2k", F2K_SZ) THEN F2kCheck ELSE << >>)
                           \o F2kRefill(e) \o ToBob("d")
    [] c.do = "poly"    -> IF Full(e, "poly", POLY_SZ) THEN PolyCheck ELSE << >>
    [] c.do = "product" -> PackV \o (IF Full(e, "prod", RAM_SZ) THEN ProdCheck ELSE << >>)
    [] c.do = "destroy" -> LastChecks(e) \o (IF Pending(e, "poly") THEN PolyCheck ELSE << >>)
                           \o (IF e.mode = "stream" THEN Exchange("end") ELSE << >>)

\* The last one, of those that end with a gate or with the session.
Ending(e, c) ==
  CASE c.do = "and"     -> Issue("and", Take(e, c.n))
    [] c.do = "f2kmul"  -> Issue("f2k", 1)
    [] c.do = "poly"    -> Issue("poly", 1)
    [] c.do = "product" -> Issue("prod", 1)
    [] c.do = "destroy" -> Finish

Ends(e, c) ==
  c.do \in {"f2kmul", "poly", "product", "destroy"} \/ (c.do = "and" /\ ~Full(e, "and", CHECK_SZ))
Permutes(c) == c.do \in {"permute", "permute_wide"}

LEMMA LastChecksBlock ==
  ASSUME NEW e
  PROVE  Block(LastChecks(e))
<1>1. Block(IF Pending(e, "f2k") THEN F2kCheck ELSE << >>)
  BY F2kCheckBlock, IfBlock
<1>2. Block(IF Pending(e, "and") THEN Check("and") ELSE << >>)
  BY CheckBlock, KindsAre, IfBlock
<1>3. Block(ToBobNow("digest"))
  BY MovesBlock, WordsAre
<1>4. Block((IF Pending(e, "f2k") THEN F2kCheck ELSE << >>) \o (IF Pending(e, "and") THEN Check("and") ELSE << >>) \o ToBobNow("digest"))
  BY ONLY <1>1, <1>2, <1>3, Cat3Block
<1> QED
  BY ONLY <1>4 DEF LastChecks

LEMMA Assoc ==
  ASSUME NEW S, NEW a \in Seq(S), NEW b \in Seq(S), NEW c \in Seq(S)
  PROVE  (a \o b) \o c = a \o (b \o c)
BY ONLY a \in Seq(S), b \in Seq(S), c \in Seq(S), ConcatAssociative

LEMMA EndsWith ==
  ASSUME NEW e, NEW c, Ends(e, c)
  PROVE  Steps(e, c) = Before(e, c) \o <<Ending(e, c)>>
<1>1. CASE c.do = "and" /\ ~Full(e, "and", CHECK_SZ)
  BY ONLY <1>1 DEF Steps, Before, Ending, And, Wave
<1>2. CASE c.do = "f2kmul"
  <2> DEFINE a == F2kInit(e) \o (IF Full(e, "f2k", F2K_SZ) THEN F2kCheck ELSE << >>) \o F2kRefill(e)
             b == ToBob("d")
             i == Issue("f2k", 1)
  <2>1. a \in Seq(Step)
    BY F2kInitBlock, F2kCheckBlock, IfBlock, F2kRefillBlock, Cat3Block, BlockIsSteps
  <2>2. b \in Seq(Step)
    BY MovesBlock, WordsAre, BlockIsSteps
  <2>3. i \in Step
    BY StepsAre, KindsAre
  <2>4. Steps(e, c) = a \o (b \o <<i>>)
    BY ONLY <1>2 DEF Steps, F2kMul, Multiply
  <2>5. Before(e, c) = a \o b /\ Ending(e, c) = i
    BY ONLY <1>2 DEF Before, Ending
  <2> HIDE DEF a, b, i
  <2>6. <<i>> \in Seq(Step)
    BY <2>3
  <2> QED
    BY ONLY <2>1, <2>2, <2>4, <2>5, <2>6, Assoc
<1>3. CASE c.do = "poly"
  BY ONLY <1>3 DEF Steps, Before, Ending, Poly
<1>4. CASE c.do = "product"
  <2> DEFINE a == PackV
             b == IF Full(e, "prod", RAM_SZ) THEN ProdCheck ELSE << >>
             i == Issue("prod", 1)
  <2>1. a \in Seq(Step) /\ b \in Seq(Step)
    BY PackVBlock, ProdCheckBlock, IfBlock, BlockIsSteps
  <2>2. i \in Step
    BY StepsAre, KindsAre
  <2>3. Steps(e, c) = a \o (b \o <<i>>)
    BY ONLY <1>4 DEF Steps, Product, BufferProduct
  <2>4. Before(e, c) = a \o b /\ Ending(e, c) = i
    BY ONLY <1>4 DEF Before, Ending
  <2> HIDE DEF a, b, i
  <2>5. <<i>> \in Seq(Step)
    BY <2>2
  <2> QED
    BY ONLY <2>1, <2>3, <2>4, <2>5, Assoc
<1>5. CASE c.do = "destroy"
  <2> DEFINE a == LastChecks(e) \o (IF Pending(e, "poly") THEN PolyCheck ELSE << >>)
             b == IF e.mode = "stream" THEN Exchange("end") ELSE << >>
  <2>1. a \in Seq(Step)
    BY LastChecksBlock, PolyCheckBlock, IfBlock, CatBlock, BlockIsSteps
  <2>2. b \in Seq(Step)
    BY ExchangeBlock, WordsAre, IfBlock, BlockIsSteps
  <2>3. Finish \in Step
    BY StepsAre
  <2>4. Steps(e, c) = a \o (b \o <<Finish>>)
    BY ONLY <1>5 DEF Steps, Destroy, EndSession
  <2>5. Before(e, c) = a \o b /\ Ending(e, c) = Finish
    BY ONLY <1>5 DEF Before, Ending
  <2> HIDE DEF a, b
  <2>6. <<Finish>> \in Seq(Step)
    BY <2>3
  <2> QED
    BY ONLY <2>1, <2>2, <2>4, <2>5, <2>6, Assoc
<1> QED
  BY ONLY Ends(e, c), <1>1, <1>2, <1>3, <1>4, <1>5 DEF Ends

LEMMA BeforeBlock ==
  ASSUME NEW e, NEW c \in CallSet, Ends(e, c), Take(e, c.n) \in Nat
  PROVE  Block(Before(e, c))
<1>1. CASE c.do = "and"
  <2>1. Block(Masked(Take(e, c.n), "gate"))
    BY MaskedBlock, WordsAre
  <2> QED
    BY ONLY <1>1, <2>1 DEF Before
<1>2. CASE c.do = "f2kmul"
  <2>1. Block(F2kInit(e)) /\ Block(IF Full(e, "f2k", F2K_SZ) THEN F2kCheck ELSE << >>) /\ Block(F2kRefill(e))
    BY F2kInitBlock, F2kCheckBlock, IfBlock, F2kRefillBlock
  <2>2. Block(ToBob("d"))
    BY MovesBlock, WordsAre
  <2>3. Block(F2kInit(e) \o (IF Full(e, "f2k", F2K_SZ) THEN F2kCheck ELSE << >>) \o F2kRefill(e))
    BY ONLY <2>1, Cat3Block
  <2>4. Block((F2kInit(e) \o (IF Full(e, "f2k", F2K_SZ) THEN F2kCheck ELSE << >>) \o F2kRefill(e)) \o ToBob("d"))
    BY ONLY <2>2, <2>3, CatBlock
  <2> QED
    BY ONLY <1>2, <2>4 DEF Before
<1>3. CASE c.do = "poly"
  <2>1. Block(IF Full(e, "poly", POLY_SZ) THEN PolyCheck ELSE << >>)
    BY PolyCheckBlock, IfBlock
  <2> QED
    BY ONLY <1>3, <2>1 DEF Before
<1>4. CASE c.do = "product"
  <2>1. Block(PackV) /\ Block(IF Full(e, "prod", RAM_SZ) THEN ProdCheck ELSE << >>)
    BY PackVBlock, ProdCheckBlock, IfBlock
  <2>2. Block(PackV \o (IF Full(e, "prod", RAM_SZ) THEN ProdCheck ELSE << >>))
    BY ONLY <2>1, CatBlock
  <2> QED
    BY ONLY <1>4, <2>2 DEF Before
<1>5. CASE c.do = "destroy"
  <2>1. Block(LastChecks(e)) /\ Block(IF Pending(e, "poly") THEN PolyCheck ELSE << >>)
    BY LastChecksBlock, PolyCheckBlock, IfBlock
  <2>2. Block(IF e.mode = "stream" THEN Exchange("end") ELSE << >>)
    BY ExchangeBlock, WordsAre, IfBlock
  <2>3. Block(LastChecks(e) \o (IF Pending(e, "poly") THEN PolyCheck ELSE << >>)
              \o (IF e.mode = "stream" THEN Exchange("end") ELSE << >>))
    BY ONLY <2>1, <2>2, Cat3Block
  <2> QED
    BY ONLY <1>5, <2>3 DEF Before
<1> QED
  BY ONLY Ends(e, c), <1>1, <1>2, <1>3, <1>4, <1>5 DEF Ends

LEMMA EndingIs ==
  ASSUME NEW e, NEW c, Ends(e, c), Take(e, c.n) \in Nat
  PROVE  /\ Ending(e, c) \in Step /\ Ending(e, c).do \in {"issue", "finish"}
         /\ Ending(e, c).do = "finish" <=> c.do = "destroy"
         /\ Ending(e, c).do = "issue" =>
              Ending(e, c) = Issue(Ending(e, c).kind, Ending(e, c).n)
         /\ Ending(e, c).do = "issue" =>
              Ending(e, c).kind = CASE c.do = "and" -> "and" [] c.do = "f2kmul" -> "f2k"
                                    [] c.do = "poly" -> "poly" [] c.do = "product" -> "prod"
         /\ c.do = "and" => Ending(e, c).n = Take(e, c.n)
<1>1. CASE c.do = "and"
  BY ONLY <1>1, Take(e, c.n) \in Nat, StepsAre, StepDoes, KindsAre DEF Ending
<1>2. CASE c.do = "f2kmul"
  BY ONLY <1>2, StepsAre, StepDoes, KindsAre DEF Ending
<1>3. CASE c.do = "poly"
  BY ONLY <1>3, StepsAre, StepDoes, KindsAre DEF Ending
<1>4. CASE c.do = "product"
  BY ONLY <1>4, StepsAre, StepDoes, KindsAre DEF Ending
<1>5. CASE c.do = "destroy"
  BY ONLY <1>5, StepsAre, StepDoes DEF Ending
<1> QED
  BY ONLY Ends(e, c), <1>1, <1>2, <1>3, <1>4, <1>5 DEF Ends

\* The calls that end otherwise are blocks, but for the challenges.
LEMMA OtherBlock ==
  ASSUME NEW e, NEW c \in CallSet, ~Ends(e, c), ~Permutes(c)
  PROVE  Block(Steps(e, c))
<1>0. c.n \in Nat /\ c.do \in CallNames
  BY DEF CallSet
<1>1. CASE c.do = "construct"
  <2>1. Block(IF e.mode = "background" THEN << >> ELSE Exchange("begin"))
    BY ExchangeBlock, WordsAre, EmptyBlock
  <2> QED
    BY ONLY <1>1, <2>1 DEF Steps
<1>2. CASE c.do = "feed"
  <2>1. Block(Masked(c.n, "mask"))
    BY <1>0, MaskedBlock, WordsAre
  <2> QED
    BY ONLY <1>2, <2>1 DEF Steps, Feed
<1>3. CASE c.do = "and"
  <2>1. Full(e, "and", CHECK_SZ)
    BY <1>3 DEF Ends
  <2>2. Block(Check("and"))
    BY CheckBlock, KindsAre
  <2> QED
    BY ONLY <1>3, <2>1, <2>2 DEF Steps, And
<1>4. CASE c.do = "reveal"
  <2>1. Block(Bits("val", c.n))
    BY <1>0, MovesBlock, WordsAre
  <2> QED
    BY ONLY <1>4, <2>1 DEF Steps, Reveal
<1>5. CASE c.do = "f2kin"
  BY ONLY <1>5, F2kInputBlock DEF Steps
<1>6. CASE c.do = "products"
  <2>1. Block(Products(e))
    BY ONLY ProdCheckBlock, EmptyBlock DEF Products
  <2> QED
    BY ONLY <1>6, <2>1 DEF Steps
<1>7. CASE c.do = "open"
  <2>1. Block(ToBobNow("macs"))
    BY MovesBlock, WordsAre
  <2> QED
    BY ONLY <1>7, <2>1 DEF Steps
<1>8. CASE c.do = "compress"
  BY ONLY <1>8, CompressBlock DEF Steps
<1> QED
  BY ONLY <1>0, ~Ends(e, c), ~Permutes(c), <1>1, <1>2, <1>3, <1>4, <1>5, <1>6, <1>7, <1>8
  DEF Ends, Permutes, CallNames, UserCalls

LEMMA ChallengesAre ==
  /\ Challenges(TRUE) = <<Flush, Seed("coeff"), Flush, Seed("r")>>
  /\ Challenges(FALSE) = <<Flush, Seed("r")>>
<1> DEFINE a == Flush  b == Seed("coeff")  c == Seed("r")
<1>0. a \in Step /\ b \in Step /\ c \in Step
  BY StepsAre, KindsAre
<1>1. Challenges(TRUE) = <<a, b>> \o <<a, c>> /\ Challenges(FALSE) = << >> \o <<a, c>>
  BY DEF Challenges, Compress
<1> HIDE DEF a, b, c
<1>2. <<a, b>> \o <<a, c>> = <<a, b, a, c>>
  BY ONLY <1>0, Join22
<1>3. <<a, c>> \in Seq(Step)
  BY ONLY <1>0, TwoTyped
<1>4. << >> \o <<a, c>> = <<a, c>>
  BY ONLY <1>3, ConcatEmptySeq
<1>5. Challenges(TRUE) = <<a, b, a, c>> /\ Challenges(FALSE) = <<a, c>>
  BY ONLY <1>1, <1>2, <1>4
<1> QED
  BY ONLY <1>5 DEF a, b, c

LEMMA PermuteIs ==
  ASSUME NEW e, NEW c, Permutes(c)
  PROVE  /\ Steps(e, c) = IF c.do = "permute" THEN <<Flush, Seed("r")>>
                          ELSE <<Flush, Seed("coeff"), Flush, Seed("r")>>
         /\ Inner(e, c) = Permute(c.n)
<1>1. CASE c.do = "permute"
  BY ONLY <1>1, ChallengesAre DEF Steps, Inner
<1>2. CASE c.do = "permute_wide"
  BY ONLY <1>2, ChallengesAre DEF Steps, Inner
<1> QED
  BY ONLY Permutes(c), <1>1, <1>2 DEF Permutes

LEMMA TakeIs ==
  ASSUME NEW e, e.pend \in [Kind -> Seq(Nat)], Len(e.pend["and"]) <= CHECK_SZ, NEW n \in Nat
  PROVE  /\ Take(e, n) \in 0 .. n
         /\ Full(e, "and", CHECK_SZ) => Take(e, n) = 0
         /\ ~Full(e, "and", CHECK_SZ) => Len(e.pend["and"]) + Take(e, n) <= CHECK_SZ
<1> DEFINE l == Len(e.pend["and"])  t == Take(e, n)
<1>1. l \in Nat /\ l <= CHECK_SZ
  BY KindsAre
<1>2. Full(e, "and", CHECK_SZ) <=> l = CHECK_SZ
  BY ONLY TRUE DEF Full
<1>3. t = IF l = CHECK_SZ THEN 0 ELSE IF CHECK_SZ - l < n THEN CHECK_SZ - l ELSE n
  BY ONLY <1>2 DEF Take, Lesser
<1>4. CHECK_SZ \in Nat /\ n \in Nat
  BY SizesAre
<1> HIDE DEF l, t
<1>5. t \in 0 .. n /\ (l = CHECK_SZ => t = 0) /\ (l # CHECK_SZ => l + t <= CHECK_SZ)
  BY ONLY <1>1, <1>3, <1>4
<1> QED
  BY ONLY <1>2, <1>5 DEF l, t

LEMMA CopiesTyped ==
  ASSUME NEW S, NEW x \in S, NEW m \in Int PROVE Copies(m, x) \in Seq(S)
<1>1. CASE m \in Nat
  BY <1>1 DEF Copies
<1>2. CASE m \notin Nat
  <2>1. 1 .. m = {}
    BY <1>2
  <2>2. Copies(m, x) = << >>
    BY <2>1 DEF Copies
  <2> QED
    BY <2>2
<1> QED
  BY <1>1, <1>2

LEMMA CallIs == ASSUME NEW op \in CallNames, NEW n \in Nat PROVE Call(op, n) \in CallSet
BY DEF Call, CallSet

LEMMA PermuteTyped == ASSUME NEW n \in Nat PROVE Permute(n) \in Seq(CallSet)
<1>1. Call("product", 1) \in CallSet /\ Call("f2kmul", 1) \in CallSet
      /\ Call("open", 1) \in CallSet /\ Call("products", 1) \in CallSet
  BY CallIs DEF CallNames, UserCalls
<1>2. (n - 1) \div 4 \in Int /\ (n - 1) % 4 \in Int
  OBVIOUS
<1>3. Copies((n - 1) \div 4, Call("product", 1)) \in Seq(CallSet)
      /\ Copies((n - 1) % 4, Call("f2kmul", 1)) \in Seq(CallSet)
  BY ONLY <1>1, <1>2, CopiesTyped
<1>4. Eval(n) \in Seq(CallSet)
  BY ONLY <1>3, CatTyped DEF Eval
<1>5. <<Call("open", 1), Call("products", 1)>> \in Seq(CallSet)
  BY ONLY <1>1, TwoTyped
<1>6. Eval(n) \o Eval(n) \o <<Call("open", 1), Call("products", 1)>> \in Seq(CallSet)
  BY ONLY <1>4, <1>5, Cat3Typed
<1> QED
  BY ONLY <1>6 DEF Permute

-----------------------------------------------------------------------------
(* The machine's types.                                                    *)

\* Gates fit into their batch.
Fits(q) ==
  /\ Len(q.pend["and"]) <= CHECK_SZ
  /\ \A i \in DOMAIN q.todo :
       q.todo[i].do = "issue" /\ q.todo[i].kind = "and" => Len(q.pend["and"]) + q.todo[i].n <= CHECK_SZ

LEMMA StepsTyped ==
  ASSUME NEW e, e.pend \in [Kind -> Seq(Nat)], Len(e.pend["and"]) <= CHECK_SZ, NEW c \in CallSet
  PROVE  Steps(e, c) \in Seq(Step) /\ Inner(e, c) \in Seq(CallSet)
<1>0. c.n \in Nat /\ c.do \in CallNames
  BY DEF CallSet
<1>s. Take(e, c.n) \in 0 .. c.n
  BY <1>0, TakeIs
<1>t. Take(e, c.n) \in 0 .. c.n /\ Take(e, c.n) \in Nat
  BY ONLY <1>0, <1>s
<1>1. Steps(e, c) \in Seq(Step)
  <2>1. CASE Ends(e, c)
    <3>1. Before(e, c) \in Seq(Step)
      BY <1>t, <2>1, BeforeBlock, BlockIsSteps
    <3>2. <<Ending(e, c)>> \in Seq(Step)
      BY <1>t, <2>1, EndingIs, OneTyped
    <3>3. Before(e, c) \o <<Ending(e, c)>> \in Seq(Step)
      BY ONLY <3>1, <3>2, CatTyped
    <3> QED
      BY ONLY <2>1, <3>3, EndsWith
  <2>2. CASE Permutes(c)
    <3> DEFINE a == Flush  b == Seed("coeff")  d == Seed("r")
    <3>1. a \in Step /\ b \in Step /\ d \in Step
      BY StepsAre, KindsAre
    <3>2. Steps(e, c) = IF c.do = "permute" THEN <<a, d>> ELSE <<a, b, a, d>>
      BY <2>2, PermuteIs
    <3> HIDE DEF a, b, d
    <3>3. <<a, d>> \in Seq(Step) /\ <<a, b, a, d>> \in Seq(Step)
      BY ONLY <3>1
    <3> QED
      BY ONLY <3>2, <3>3
  <2>3. CASE ~Ends(e, c) /\ ~Permutes(c)
    BY <2>3, OtherBlock, BlockIsSteps
  <2> QED
    BY ONLY <2>1, <2>2, <2>3
<1>2. CASE c.do = "and" /\ Take(e, c.n) < c.n
  <2>1. c.n - Take(e, c.n) \in Nat
    BY <1>0, <1>2, <1>t
  <2>2. Call("and", c.n - Take(e, c.n)) \in CallSet
    BY <2>1, CallIs DEF CallNames, UserCalls
  <2>3. <<Call("and", c.n - Take(e, c.n))>> \in Seq(CallSet)
    BY ONLY <2>2, OneTyped
  <2>4. Inner(e, c) = <<Call("and", c.n - Take(e, c.n))>>
    BY ONLY <1>2 DEF Inner
  <2> QED
    BY ONLY <1>1, <2>3, <2>4
<1>3. CASE Permutes(c)
  BY <1>0, <1>1, <1>3, PermuteIs, PermuteTyped
<1>4. CASE ~(c.do = "and" /\ Take(e, c.n) < c.n) /\ ~Permutes(c)
  <2>1. Inner(e, c) = << >>
    BY ONLY <1>4 DEF Inner, Permutes
  <2> QED
    BY <1>1, <2>1
<1> QED
  BY ONLY <1>2, <1>3, <1>4

\* What a step that is under way works on.
LEMMA AtHand ==
  ASSUME NEW q, Types(q), q.todo # << >>
  PROVE  Head(q.todo) \in Step /\ Tail(q.todo) \in Seq(Step)
BY DEF Types

LEMMA PieceIs ==
  ASSUME NEW q, Types(q), TakesCots(q)
  PROVE  /\ Head(q.todo).n \in Nat /\ Piece(q) \in Nat /\ Head(q.todo).n - Piece(q) \in Nat
         /\ q.off + Piece(q) <= Batch /\ q.todo # << >>
<1>1. q.todo # << >> /\ Head(q.todo).do = "draw"
  BY DEF TakesCots, Does
<1>2. Head(q.todo) \in Step
  BY <1>1, AtHand
<1>3. Head(q.todo).n \in Nat
  BY <1>1, <1>2, StepIs
<1>4. q.off \in 0 .. Batch - 1 /\ Batch \in Nat
  BY SizesAre DEF Types
<1> DEFINE h == Head(q.todo).n  o == q.off  t == IF h < Batch - o THEN h ELSE Batch - o
<1>5. Piece(q) = t
  BY DEF Piece, Lesser
<1>6. h \in Nat /\ o \in 0 .. Batch - 1
  BY ONLY <1>3, <1>4
<1> HIDE DEF h, o
<1>7. t \in Nat /\ h - t \in Nat /\ o + t <= Batch
  BY ONLY <1>4, <1>6
<1> QED
  BY ONLY <1>1, <1>3, <1>5, <1>7 DEF h, o

LEMMA RefillPrefix ==
  ASSUME NEW q
  PROVE  (IF q.mode = "stream" /\ q.used % PerRound = 0 THEN Exchange("round") ELSE << >>) \o <<Fill>> \in Seq(Step)
<1>1. (IF q.mode = "stream" /\ q.used % PerRound = 0 THEN Exchange("round") ELSE << >>) \in Seq(Step)
  BY ExchangeBlock, WordsAre, IfBlock, BlockIsSteps
<1>2. <<Fill>> \in Seq(Step)
  BY StepsAre, OneTyped
<1> QED
  BY ONLY <1>1, <1>2, CatTyped

LEMMA CallsTyped ==
  ASSUME NEW q, Types(q), Fits(q), CanStep(q)
  PROVE  CallsAfter(q) \in Seq(CallSet) /\ (Idle(q) => Head(q.calls) \in CallSet)
<1>1. CASE Idle(q)
  <2>1. q.calls \in Seq(CallSet) /\ q.calls # << >>
    BY <1>1 DEF Types, CanStep, Idle
  <2>2. Head(q.calls) \in CallSet /\ Tail(q.calls) \in Seq(CallSet)
    BY ONLY <2>1
  <2>3. Buf(q).pend = q.pend
    BY DEF Buf
  <2>4. Buf(q).pend \in [Kind -> Seq(Nat)] /\ Len(Buf(q).pend["and"]) <= CHECK_SZ
    BY <2>3 DEF Types, Fits
  <2>5. Inner(Buf(q), Head(q.calls)) \in Seq(CallSet)
    BY ONLY <2>2, <2>4, StepsTyped
  <2>6. Inner(Buf(q), Head(q.calls)) \o Tail(q.calls) \in Seq(CallSet)
    BY ONLY <2>2, <2>5, CatTyped
  <2> QED
    BY <1>1, <2>2, <2>6 DEF CallsAfter
<1>2. CASE ~Idle(q)
  BY <1>2 DEF CallsAfter, Types
<1> QED
  BY <1>1, <1>2

LEMMA TodoTyped ==
  ASSUME NEW q, Types(q), Fits(q), CanStep(q)
  PROVE  TodoAfter(q) \in Seq(Step)
<1>1. CASE Idle(q)
  <2>1. Head(q.calls) \in CallSet
    BY <1>1, CallsTyped
  <2>2. Buf(q).pend = q.pend
    BY DEF Buf
  <2>3. Buf(q).pend \in [Kind -> Seq(Nat)] /\ Len(Buf(q).pend["and"]) <= CHECK_SZ
    BY <2>2 DEF Types, Fits
  <2>4. Steps(Buf(q), Head(q.calls)) \in Seq(Step)
    BY ONLY <2>1, <2>3, StepsTyped
  <2> QED
    BY ONLY <1>1, <2>4 DEF TodoAfter
<1>2. CASE ~Idle(q)
  <2>0. q.todo \in Seq(Step) /\ q.todo # << >>
    BY <1>2 DEF Types, Idle
  <2>1. Tail(q.todo) \in Seq(Step)
    BY <2>0, AtHand
  <2>2. CASE Waits(q) \/ Closes(q)
    BY ONLY <1>2, <2>0, <2>2 DEF TodoAfter
  <2>3. CASE ~(Waits(q) \/ Closes(q)) /\ Refills(q)
    <3>1. (IF q.mode = "stream" /\ q.used % PerRound = 0 THEN Exchange("round") ELSE << >>) \o <<Fill>> \o q.todo
          \in Seq(Step)
      BY <2>0, RefillPrefix, CatTyped
    <3> QED
      BY ONLY <1>2, <2>3, <3>1 DEF TodoAfter
  <2>4. CASE ~(Waits(q) \/ Closes(q)) /\ ~Refills(q)
    <3>1. CASE TakesCots(q)
      <4>1. Draw(Head(q.todo).n - Piece(q)) \in Step
        BY <3>1, PieceIs, StepsAre
      <4>2. <<Draw(Head(q.todo).n - Piece(q))>> \o Tail(q.todo) \in Seq(Step)
        BY ONLY <2>1, <4>1, OneTyped, CatTyped
      <4> QED
        BY ONLY <1>2, <2>1, <2>4, <4>2 DEF TodoAfter
    <3>2. CASE ~TakesCots(q)
      BY ONLY <1>2, <2>1, <2>4, <3>2 DEF TodoAfter
    <3> QED
      BY <3>1, <3>2
  <2> QED
    BY <2>2, <2>3, <2>4
<1> QED
  BY <1>1, <1>2

LEMMA RegTyped ==
  ASSUME NEW q, Types(q)
  PROVE  RegAfter(q) \in Seq(Source \X Nat)
<1>0. q.reg \in Seq(Source \X Nat) /\ q.used \in Nat /\ q.off \in Nat /\ Batch \in Nat
  BY SizesAre DEF Types
<1>1. CASE TakesCots(q)
  <2>1. Piece(q) \in Nat
    BY <1>1, PieceIs
  <2> DEFINE new == [k \in 1 .. Piece(q) |-> <<"cot", q.used * Batch + q.off + k - 1>>]
  <2>2. \A k \in 1 .. Piece(q) : q.used * Batch + q.off + k - 1 \in Nat
    <3>1. q.used * Batch \in Nat
      BY ONLY <1>0
    <3>2. \A m \in Nat, o \in Nat, k \in 1 .. Piece(q) : m + o + k - 1 \in Nat
      BY ONLY <2>1
    <3> QED
      BY ONLY <1>0, <3>1, <3>2
  <2>3. "cot" \in Source
    BY DEF Source
  <2>4. \A k \in 1 .. Piece(q) : <<"cot", q.used * Batch + q.off + k - 1>> \in Source \X Nat
    BY ONLY <2>2, <2>3
  <2>5. new \in Seq(Source \X Nat)
    BY ONLY <2>1, <2>4
  <2>6. q.reg \o new \in Seq(Source \X Nat)
    BY ONLY <1>0, <2>5, CatTyped
  <2> QED
    BY ONLY <1>1, <2>6 DEF RegAfter
<1>2. CASE ~TakesCots(q)
  BY ONLY <1>0, <1>2 DEF RegAfter
<1> QED
  BY <1>1, <1>2

LEMMA IdsTyped ==
  ASSUME NEW q, Types(q), Does(q, "issue")
  PROVE  /\ Head(q.todo).kind \in Kind /\ Head(q.todo).n \in Nat
         /\ Ids(q) \in Seq(Nat) /\ Len(Ids(q)) = Head(q.todo).n
<1>1. Head(q.todo) \in Step /\ Head(q.todo).do = "issue"
  BY AtHand DEF Does
<1>2. Head(q.todo).kind \in Kind /\ Head(q.todo).n \in Nat
  BY <1>1, StepIs
<1>3. q.issued[Head(q.todo).kind] \in Nat
  BY <1>2 DEF Types
<1> QED
  BY ONLY <1>2, <1>3 DEF Ids

LEMMA GatesTyped ==
  ASSUME NEW q, Types(q)
  PROVE  /\ IssuedAfter(q) \in [Kind -> Nat] /\ PendAfter(q) \in [Kind -> Seq(Nat)]
         /\ CheckedAfter(q) \in [Kind -> Seq(Nat \X Nat)] /\ F2kAfter(q) \in F2kSet
<1>0. /\ q.issued \in [Kind -> Nat] /\ q.pend \in [Kind -> Seq(Nat)]
      /\ q.checked \in [Kind -> Seq(Nat \X Nat)] /\ q.f2k \in F2kSet
  BY DEF Types
<1>1. IssuedAfter(q) \in [Kind -> Nat]
  <2>1. CASE Does(q, "issue")
    <3> DEFINE k == Head(q.todo).kind  n == Head(q.todo).n
    <3>1. k \in Kind /\ n \in Nat
      BY <2>1, IdsTyped
    <3>2. IssuedAfter(q) = [q.issued EXCEPT ![k] = q.issued[k] + n]
      BY <2>1 DEF IssuedAfter
    <3> HIDE DEF k, n
    <3> QED
      BY ONLY <1>0, <3>1, <3>2
  <2>2. CASE ~Does(q, "issue")
    BY ONLY <1>0, <2>2 DEF IssuedAfter
  <2> QED
    BY <2>1, <2>2
<1>2. PendAfter(q) \in [Kind -> Seq(Nat)]
  <2>1. CASE Does(q, "issue")
    <3> DEFINE k == Head(q.todo).kind
    <3>1. k \in Kind /\ q.pend[k] \o Ids(q) \in Seq(Nat)
      BY <1>0, <2>1, IdsTyped, CatTyped
    <3>2. PendAfter(q) = [q.pend EXCEPT ![k] = q.pend[k] \o Ids(q)]
      BY <2>1 DEF PendAfter
    <3> HIDE DEF k
    <3> QED
      BY ONLY <1>0, <3>1, <3>2
  <2>2. CASE ~Does(q, "issue")
    <3>1. \A k \in Kind : [q.pend EXCEPT ![k] = << >>] \in [Kind -> Seq(Nat)]
      BY ONLY <1>0
    <3>2. Does(q, "fold") => Head(q.todo).kind \in Kind
      BY AtHand, StepIs DEF Does
    <3> QED
      BY ONLY <1>0, <2>2, <3>1, <3>2 DEF PendAfter
  <2> QED
    BY <2>1, <2>2
<1>3. CheckedAfter(q) \in [Kind -> Seq(Nat \X Nat)]
  <2>1. CASE Does(q, "fold")
    <3> DEFINE k == Head(q.todo).kind
    <3>1. k \in Kind
      BY <2>1, AtHand, StepIs DEF Does
    <3>2. q.pend[k] \in Seq(Nat) /\ q.checked[k] \in Seq(Nat \X Nat) /\ q.f2k.outs \in Seq(Nat)
      BY <1>0, <3>1 DEF F2kSet
    <3> DEFINE a == q.pend[k]  b == q.f2k.outs
    <3>3. \A i \in DOMAIN a : Output(q, k, i) \in Nat
      <4> HIDE DEF k
      <4>1. \A i \in DOMAIN a : a[i] \in Nat
        BY ONLY <3>2
      <4>2. \A i \in DOMAIN b : b[i] \in Nat
        BY ONLY <3>2
      <4>3. \A i : Output(q, k, i) = IF k # "f2k" THEN a[i]
                                     ELSE IF Len(b) - Len(a) + i \in DOMAIN b THEN b[Len(b) - Len(a) + i] ELSE 0
        BY DEF Output
      <4> HIDE DEF a, b
      <4> QED
        BY ONLY <4>1, <4>2, <4>3
    <3> HIDE DEF k
    <3>4. Pairs(q, k) \in Seq(Nat \X Nat)
      <4>1. Pairs(q, k) = [i \in DOMAIN a |-> <<a[i], Output(q, k, i)>>]
        BY DEF Pairs
      <4>2. a \in Seq(Nat)
        BY <3>2
      <4> HIDE DEF a
      <4>3. Len(a) \in Nat /\ DOMAIN a = 1 .. Len(a) /\ \A i \in 1 .. Len(a) : a[i] \in Nat
        BY ONLY <4>2
      <4>4. \A i \in 1 .. Len(a) : <<a[i], Output(q, k, i)>> \in Nat \X Nat
        BY ONLY <3>3, <4>3
      <4>5. [i \in 1 .. Len(a) |-> <<a[i], Output(q, k, i)>>] \in Seq(Nat \X Nat)
        BY ONLY <4>3, <4>4
      <4> QED
        BY ONLY <4>1, <4>3, <4>5
    <3> HIDE DEF a, b
    <3>5. q.checked[k] \o Pairs(q, k) \in Seq(Nat \X Nat)
      BY ONLY <3>2, <3>4, CatTyped
    <3>6. CheckedAfter(q) = [q.checked EXCEPT ![k] = q.checked[k] \o Pairs(q, k)]
      BY <2>1 DEF CheckedAfter, k
    <3> QED
      BY ONLY <1>0, <3>1, <3>5, <3>6
  <2>2. CASE ~Does(q, "fold")
    BY <1>0, <2>2 DEF CheckedAfter
  <2> QED
    BY <2>1, <2>2
<1>4. F2kAfter(q) \in F2kSet
  <2>0. /\ q.f2k.ready \in BOOLEAN /\ q.f2k.runs \in Nat /\ q.f2k.base \in Nat /\ q.f2k.outs \in Seq(Nat)
        /\ q.f2k.inBase \in Nat /\ q.f2k.inCnt \in Nat
    BY <1>0 DEF F2kSet
  <2>1. CASE Does(q, "issue")
    <3>1. q.f2k.outs \o Ids(q) \in Seq(Nat)
      BY <2>0, <2>1, IdsTyped, CatTyped
    <3>2. [q.f2k EXCEPT !.outs = q.f2k.outs \o Ids(q)] \in F2kSet
      BY ONLY <1>0, <3>1 DEF F2kSet
    <3>3. F2kAfter(q) = IF Head(q.todo).kind = "f2k" THEN [q.f2k EXCEPT !.outs = @ \o Ids(q)] ELSE q.f2k
      BY <2>1 DEF F2kAfter, Does
    <3> QED
      BY <1>0, <3>2, <3>3
  <2>2. CASE Does(q, "run")
    <3>1. F2kAfter(q) = RunAfter(q)
      BY <2>2 DEF F2kAfter, Does
    <3> DEFINE f == q.f2k  b == q.f2k.runs * F2K_SZ  m == q.f2k.runs + 1
    <3>2. b \in Nat /\ m \in Nat
      BY ONLY <2>0, SizesAre
    <3>4. f \in F2kSet
      BY <1>0
    <3>5. RunAfter(q) = IF Head(q.todo).buf = "auth"
                        THEN [f EXCEPT !.ready = TRUE, !.runs = m, !.base = b, !.outs = << >>]
                        ELSE [f EXCEPT !.runs = m, !.inBase = b, !.inCnt = 0]
      BY DEF RunAfter
    <3> HIDE DEF f, b, m
    <3>6. [f EXCEPT !.ready = TRUE, !.runs = m, !.base = b, !.outs = << >>] \in F2kSet
      <4> DEFINE g == [f EXCEPT !.runs = m, !.base = b, !.outs = << >>]
      <4>0. [f EXCEPT !.runs = m, !.base = b] \in F2kSet
        BY ONLY <3>2, <3>4 DEF F2kSet
      <4>a. g = [[f EXCEPT !.runs = m, !.base = b] EXCEPT !.outs = << >>]
        BY ONLY <3>4 DEF F2kSet
      <4>b. \A h \in F2kSet : [h EXCEPT !.outs = << >>] \in F2kSet
        BY ONLY EmptySeq DEF F2kSet
      <4>1. g \in F2kSet
        BY ONLY <4>0, <4>a, <4>b
      <4>2. [f EXCEPT !.ready = TRUE, !.runs = m, !.base = b, !.outs = << >>] = [g EXCEPT !.ready = TRUE]
        BY ONLY <3>4 DEF F2kSet
      <4> HIDE DEF g
      <4>3. [g EXCEPT !.ready = TRUE] \in F2kSet
        BY ONLY <4>1 DEF F2kSet
      <4> QED
        BY ONLY <4>2, <4>3
    <3>7. [f EXCEPT !.runs = m, !.inBase = b, !.inCnt = 0] \in F2kSet
      BY ONLY <3>2, <3>4 DEF F2kSet
    <3>3. RunAfter(q) \in F2kSet
      BY ONLY <3>5, <3>6, <3>7
    <3> QED
      BY <3>1, <3>3
  <2>3. CASE Does(q, "move")
    <3> DEFINE f == q.f2k
    <3>1. F2kAfter(q) = IF Head(q.todo).what = "in" THEN [f EXCEPT !.inCnt = @ + 1] ELSE f
      BY <2>3 DEF F2kAfter, Does
    <3>2. f \in F2kSet
      BY <1>0
    <3> HIDE DEF f
    <3>3. [f EXCEPT !.inCnt = @ + 1] \in F2kSet
      BY ONLY <3>2 DEF F2kSet
    <3> QED
      BY ONLY <3>1, <3>2, <3>3
  <2>4. CASE ~Does(q, "issue") /\ ~Does(q, "run") /\ ~Does(q, "move")
    BY <1>0, <2>4 DEF F2kAfter
  <2> QED
    BY <2>1, <2>2, <2>3, <2>4
<1> QED
  BY <1>1, <1>2, <1>3, <1>4

LEMMA DrawsTyped ==
  ASSUME NEW q, Types(q)
  PROVE  /\ UsedAfter(q) \in Nat /\ HoldAfter(q) \in BOOLEAN /\ OffAfter(q) \in 0 .. Batch - 1
         /\ DoneAfter(q) \in BOOLEAN
<1>0. /\ q.used \in Nat /\ q.hold \in BOOLEAN /\ q.off \in 0 .. Batch - 1 /\ q.done \in BOOLEAN
      /\ Batch \in Nat /\ Batch > 0
  BY SizesAre DEF Types
<1>1. UsedAfter(q) \in Nat /\ HoldAfter(q) \in BOOLEAN /\ DoneAfter(q) \in BOOLEAN
  <2>1. UsedAfter(q) \in {q.used, q.used + 1}
    BY DEF UsedAfter
  <2>2. UsedAfter(q) \in Nat
    BY ONLY <1>0, <2>1
  <2>3. HoldAfter(q) \in BOOLEAN
    BY ONLY <1>0, Zenon DEF HoldAfter
  <2>4. DoneAfter(q) \in BOOLEAN
    BY ONLY <1>0, Zenon DEF DoneAfter
  <2> QED
    BY ONLY <2>2, <2>3, <2>4
<1>2. OffAfter(q) \in 0 .. Batch - 1
  <2>1. CASE TakesCots(q) /\ ~Drains(q)
    <3>1. q.off + Piece(q) \in Nat /\ q.off + Piece(q) <= Batch /\ q.off + Piece(q) # Batch
      BY <1>0, <2>1, PieceIs DEF Drains
    <3>2. OffAfter(q) \in {0, q.off + Piece(q)}
      BY ONLY <2>1 DEF OffAfter
    <3> QED
      BY ONLY <1>0, <3>1, <3>2
  <2>2. CASE ~(TakesCots(q) /\ ~Drains(q))
    BY ONLY <1>0, <2>2 DEF OffAfter
  <2> QED
    BY <2>1, <2>2
<1> QED
  BY <1>1, <1>2

LEMMA MailTyped ==
  ASSUME NEW q, Types(q), Does(q, "move")
  PROVE  /\ Mail(q) \in Msg /\ Head(q.todo).from \in Party /\ Head(q.todo).bits \in Nat
         /\ Stamp(q) \in Entry
<1>1. Head(q.todo) \in Step /\ Head(q.todo).do = "move"
  BY AtHand DEF Does
<1>2. /\ Head(q.todo).from \in Party /\ Head(q.todo).bits \in Nat /\ Head(q.todo).what \in Words
  BY <1>1, StepIs
<1>3. /\ q.reg \in Seq(Source \X Nat) /\ q.hash \in Seq(Nat) /\ q.wire \in [Party -> Seq(Msg)]
      /\ q.f2k.inBase + q.f2k.inCnt \in Nat /\ q.f2k.base + Len(q.f2k.outs) \in Nat
  <2>1. q.reg \in Seq(Source \X Nat) /\ q.hash \in Seq(Nat) /\ q.wire \in [Party -> Seq(Msg)] /\ q.f2k \in F2kSet
    BY DEF Types
  <2>2. q.f2k.inBase \in Nat /\ q.f2k.inCnt \in Nat /\ q.f2k.base \in Nat /\ Len(q.f2k.outs) \in Nat
    BY ONLY <2>1 DEF F2kSet
  <2> QED
    BY ONLY <2>1, <2>2
<1>4. "vole" \in Source
  BY DEF Source
<1>5. \A n \in Nat : <<<<"vole", n>>>> \in Seq(Source \X Nat)
  BY <1>4
<1>6. Mail(q).corr \in Corr
  BY ONLY <1>3, <1>5 DEF Mail, Corr
<1>7. Mail(q) = [what |-> Head(q.todo).what, corr |-> Mail(q).corr]
  BY DEF Mail
<1>8. Mail(q) \in Msg
  BY ONLY <1>2, <1>6, <1>7 DEF Msg
<1>9. Stamp(q) \in Entry
  <2>1. Len(q.wire[Head(q.todo).from]) + 1 \in Nat
    BY <1>2, <1>3
  <2> QED
    BY ONLY <1>2, <2>1 DEF Stamp, Entry
<1> QED
  BY <1>2, <1>8, <1>9

LEMMA NetTyped ==
  ASSUME NEW q, Types(q)
  PROVE  /\ HashAfter(q) \in Seq(Nat) /\ BitsAfter(q) \in Nat /\ CutsAfter(q) \in SUBSET Nat
         /\ StagedAfter(q) \in Seq(Entry) /\ WireAfter(q) \in [Party -> Seq(Msg)]
         /\ LogAfter(q) \in Seq(Entry) /\ SeedsAfter(q) \in Seq(SeedSet)
<1>0. /\ q.hash \in Seq(Nat) /\ q.bits \in Nat /\ q.cuts \in SUBSET Nat /\ q.staged \in Seq(Entry)
      /\ q.wire \in [Party -> Seq(Msg)] /\ q.log \in Seq(Entry) /\ q.seeds \in Seq(SeedSet)
  BY DEF Types
<1>1. HashAfter(q) \in Seq(Nat) /\ BitsAfter(q) \in Nat
  BY <1>0, MailTyped DEF HashAfter, BitsAfter
<1>2. CutsAfter(q) \in SUBSET Nat
  BY <1>0 DEF CutsAfter
<1>3. StagedAfter(q) \in Seq(Entry) /\ LogAfter(q) \in Seq(Entry)
  <2>1. CASE Does(q, "move")
    <3>1. Append(q.staged, Stamp(q)) \in Seq(Entry) /\ Append(q.log, Stamp(q)) \in Seq(Entry)
      BY <1>0, <2>1, MailTyped
    <3> QED
      BY <1>0, <3>1 DEF StagedAfter, LogAfter
  <2>2. CASE ~Does(q, "move")
    BY <1>0, <2>2 DEF StagedAfter, LogAfter
  <2> QED
    BY <2>1, <2>2
<1>4. WireAfter(q) \in [Party -> Seq(Msg)]
  <2>1. CASE Does(q, "move")
    <3> DEFINE p == Head(q.todo).from
    <3>1. p \in Party /\ Mail(q) \in Msg
      BY <2>1, MailTyped
    <3>2. WireAfter(q) = [q.wire EXCEPT ![p] = Append(q.wire[p], Mail(q))]
      BY <2>1 DEF WireAfter
    <3> HIDE DEF p
    <3>3. Append(q.wire[p], Mail(q)) \in Seq(Msg)
      BY ONLY <1>0, <3>1
    <3> QED
      BY ONLY <1>0, <3>1, <3>2, <3>3
  <2>2. CASE ~Does(q, "move")
    BY <1>0, <2>2 DEF WireAfter
  <2> QED
    BY <2>1, <2>2
<1>5. SeedsAfter(q) \in Seq(SeedSet)
  <2>1. CASE Does(q, "seed")
    <3>1. Head(q.todo).use \in Use
      BY <2>1, AtHand, StepIs DEF Does
    <3>2. Moved(q) \in Nat
      <4>1. Len(q.wire[ALICE]) \in Nat /\ Len(q.wire[BOB]) \in Nat
        BY <1>0, KindsAre
      <4> DEFINE a == Len(q.wire[ALICE])  b == Len(q.wire[BOB])
      <4>2. Moved(q) = a + b
        BY DEF Moved
      <4>3. a \in Nat /\ b \in Nat
        BY <4>1
      <4> HIDE DEF a, b
      <4> QED
        BY ONLY <4>2, <4>3
    <3>3. [use |-> Head(q.todo).use, tweak |-> Tweak(Head(q.todo).use), log |-> q.log, moved |-> Moved(q)] \in SeedSet
      BY <1>0, <3>1, <3>2 DEF SeedSet, Tweak
    <3> QED
      BY <1>0, <2>1, <3>3 DEF SeedsAfter
  <2>2. CASE ~Does(q, "seed")
    BY <1>0, <2>2 DEF SeedsAfter
  <2> QED
    BY <2>1, <2>2
<1> QED
  BY <1>1, <1>2, <1>3, <1>4, <1>5

LEMMA SuccTyped ==
  ASSUME NEW q, Types(q), Fits(q), CanStep(q)
  PROVE  Types(Succ(q))
<1>1. /\ CallsAfter(q) \in Seq(CallSet) /\ TodoAfter(q) \in Seq(Step) /\ RegAfter(q) \in Seq(Source \X Nat)
  BY CallsTyped, TodoTyped, RegTyped
<1>2. q.mode \in {"stream", "prepaid", "background"}
  BY DEF Types
<1> DEFINE s == Succ(q)
<1>3. /\ s.mode = q.mode /\ s.calls = CallsAfter(q) /\ s.todo = TodoAfter(q) /\ s.reg = RegAfter(q)
      /\ s.issued = IssuedAfter(q) /\ s.pend = PendAfter(q) /\ s.checked = CheckedAfter(q)
      /\ s.f2k = F2kAfter(q) /\ s.hash = HashAfter(q) /\ s.used = UsedAfter(q)
      /\ s.hold = HoldAfter(q) /\ s.off = OffAfter(q) /\ s.done = DoneAfter(q)
      /\ s.bits = BitsAfter(q) /\ s.cuts = CutsAfter(q) /\ s.staged = StagedAfter(q)
      /\ s.wire = WireAfter(q) /\ s.log = LogAfter(q) /\ s.seeds = SeedsAfter(q)
  BY SuccIs
<1> HIDE DEF s
<1>5. /\ IssuedAfter(q) \in [Kind -> Nat] /\ PendAfter(q) \in [Kind -> Seq(Nat)]
      /\ CheckedAfter(q) \in [Kind -> Seq(Nat \X Nat)] /\ F2kAfter(q) \in F2kSet
      /\ UsedAfter(q) \in Nat /\ HoldAfter(q) \in BOOLEAN /\ OffAfter(q) \in 0 .. Batch - 1
      /\ DoneAfter(q) \in BOOLEAN
      /\ HashAfter(q) \in Seq(Nat) /\ BitsAfter(q) \in Nat /\ CutsAfter(q) \in SUBSET Nat
      /\ StagedAfter(q) \in Seq(Entry) /\ WireAfter(q) \in [Party -> Seq(Msg)]
      /\ LogAfter(q) \in Seq(Entry) /\ SeedsAfter(q) \in Seq(SeedSet)
  BY GatesTyped, DrawsTyped, NetTyped
<1>4. Types(s)
  BY ONLY <1>1, <1>2, <1>3, <1>5, Zenon DEF Types
<1> QED
  BY ONLY <1>4 DEF s

-----------------------------------------------------------------------------
(* The steps to come: a challenge comes directly after a flush, a gate or   *)
(* the end of the session last, and so does a permutation's point.          *)

LedIn(s)    == \A i \in DOMAIN s : i > 1 /\ s[i].do = "seed" => s[i - 1].do = "flush"
EndsLast(s) == \A i \in DOMAIN s : s[i].do \in {"issue", "finish"} => i = Len(s)
NamesLast(s) ==
  \A i \in DOMAIN s : s[i].do = "seed" /\ s[i].use = "r" => i = Len(s)
Shaped(s)   == LedIn(s) /\ Covered(s) /\ EndsLast(s) /\ NamesLast(s)

\* Steps that neither derive a challenge nor end a call.
Comm == {x \in Step : x.do \in {"draw", "flush", "fill", "move"}}

\* A challenge that is next finds nothing staged.
HeadLed(q) == Does(q, "seed") => q.staged = << >>

LEMMA HeadIs ==
  ASSUME NEW s \in Seq(Step), s # << >>
  PROVE  /\ Len(s) \in Nat /\ Len(s) >= 1 /\ DOMAIN s = 1 .. Len(s) /\ Head(s) = s[1] /\ s[1] \in Step
         /\ Tail(s) \in Seq(Step) /\ Len(Tail(s)) = Len(s) - 1 /\ DOMAIN Tail(s) = 1 .. Len(s) - 1
         /\ \A i \in 1 .. Len(s) - 1 : Tail(s)[i] = s[i + 1]
OBVIOUS

LEMMA TailShaped ==
  ASSUME NEW s \in Seq(Step), s # << >>, Shaped(s)
  PROVE  Shaped(Tail(s))
<1> DEFINE t == Tail(s)  n == Len(s)
<1>0. /\ n \in Nat /\ n >= 1 /\ DOMAIN s = 1 .. n /\ Len(t) = n - 1 /\ DOMAIN t = 1 .. n - 1
      /\ \A i \in 1 .. n - 1 : t[i] = s[i + 1]
  BY HeadIs
<1>1. LedIn(s) /\ Covered(s) /\ EndsLast(s) /\ NamesLast(s) /\ n = Len(s)
  BY DEF Shaped
<1> HIDE DEF t, n
<1>2. \A i \in DOMAIN t : i \in Int /\ i + 1 \in DOMAIN s /\ t[i] = s[i + 1] /\ i >= 1
  BY ONLY <1>0
<1>3. LedIn(t)
  <2>1. ASSUME NEW i \in DOMAIN t, i > 1, t[i].do = "seed" PROVE t[i - 1].do = "flush"
    <3>1. i + 1 \in DOMAIN s /\ i + 1 > 1 /\ s[i + 1].do = "seed" /\ (i + 1) - 1 = i
      BY ONLY <1>2, <2>1, i \in DOMAIN t
    <3>2. s[i].do = "flush"
      BY ONLY <1>1, <3>1 DEF LedIn
    <3>3. i - 1 \in 1 .. n - 1 /\ (i - 1) + 1 = i
      BY ONLY <1>0, <2>1, i \in DOMAIN t
    <3> QED
      BY ONLY <1>0, <3>2, <3>3
  <2> QED
    BY ONLY <2>1 DEF LedIn
<1>4. Covered(t)
  <2>1. ASSUME NEW i \in DOMAIN t, t[i].do = "seed", t[i].use \in Kind PROVE MoveAfter(t, i)
    <3>1. i \in Int /\ i + 1 \in DOMAIN s /\ s[i + 1].do = "seed" /\ s[i + 1].use \in Kind
      BY ONLY <1>2, <2>1, i \in DOMAIN t
    <3>2. PICK j \in DOMAIN s : j > i + 1 /\ s[j].do = "move" /\ \A l \in (i + 1) + 1 .. j - 1 : Calm(s[l])
      BY ONLY <1>1, <3>1 DEF Covered, MoveAfter
    <3>3. j - 1 \in DOMAIN t /\ j - 1 > i /\ t[j - 1] = s[j]
      <4>1. j \in 1 .. n /\ j > i + 1 /\ i >= 1
        BY ONLY <1>0, <1>2, <3>2, i \in DOMAIN t, j \in DOMAIN s
      <4>2. j - 1 \in 1 .. n - 1 /\ (j - 1) + 1 = j /\ j - 1 > i
        BY ONLY <1>0, <3>1, <4>1
      <4> QED
        BY ONLY <1>0, <4>2
    <3>4. ASSUME NEW l \in i + 1 .. (j - 1) - 1 PROVE Calm(t[l])
      <4>1. l + 1 \in (i + 1) + 1 .. j - 1 /\ l \in 1 .. n - 1
        BY ONLY <1>0, <1>2, <3>1, j \in DOMAIN s, i \in DOMAIN t, l \in i + 1 .. (j - 1) - 1
      <4> QED
        BY ONLY <1>0, <3>2, <4>1
    <3> QED
      BY ONLY <3>2, <3>3, <3>4 DEF MoveAfter
  <2> QED
    BY ONLY <2>1 DEF Covered
<1>5. \A i \in DOMAIN t : i + 1 = n => i = Len(t)
  BY ONLY <1>0
<1>6. EndsLast(t)
  BY ONLY <1>1, <1>2, <1>5 DEF EndsLast
<1>7. NamesLast(t)
  BY ONLY <1>1, <1>2, <1>5 DEF NamesLast
<1> QED
  BY ONLY <1>3, <1>4, <1>6, <1>7 DEF Shaped, t

LEMMA PrefixShaped ==
  ASSUME NEW a \in Seq(Comm), NEW s \in Seq(Step), Shaped(s), s # << >> => Head(s).do # "seed"
  PROVE  Shaped(a \o s)
<1> DEFINE t == a \o s  n == Len(s)  m == Len(a)
<1>0. /\ n \in Nat /\ m \in Nat /\ DOMAIN s = 1 .. n /\ Len(t) = m + n /\ DOMAIN t = 1 .. m + n
      /\ \A i \in 1 .. m : t[i] = a[i] /\ a[i] \in Comm
      /\ \A i \in m + 1 .. m + n : t[i] = s[i - m]
  <2>1. Comm \subseteq Step
    BY DEF Comm
  <2>2. a \in Seq(Step)
    BY ONLY <2>1, WiderSeq, a \in Seq(Comm)
  <2>3. \A i \in 1 .. m : a[i] \in Comm
    OBVIOUS
  <2> QED
    BY <2>2, <2>3, CatIs
<1>1. LedIn(s) /\ Covered(s) /\ EndsLast(s) /\ NamesLast(s) /\ n = Len(s)
  BY DEF Shaped
<1>h. n >= 1 => s[1].do # "seed"
  BY <1>0
<1> HIDE DEF t, n, m
<1>2. \A i \in DOMAIN t : i \in 1 .. m => t[i].do \in {"draw", "flush", "fill", "move"}
  BY ONLY <1>0 DEF Comm
<1>3. \A i \in DOMAIN t : i \notin 1 .. m =>
        i \in Int /\ i - m \in DOMAIN s /\ t[i] = s[i - m] /\ i - m >= 1
  BY ONLY <1>0
<1>4. LedIn(t)
  <2>1. ASSUME NEW i \in DOMAIN t, i > 1, t[i].do = "seed" PROVE t[i - 1].do = "flush"
    <3>1. i \notin 1 .. m
      BY ONLY <1>2, <2>1, i \in DOMAIN t
    <3>2. i \in Int /\ i - m \in DOMAIN s /\ s[i - m].do = "seed" /\ i - m >= 1
      BY ONLY <1>3, <2>1, <3>1, i \in DOMAIN t
    <3>3. i - m > 1
      BY ONLY <1>0, <1>h, <3>2
    <3>4. s[(i - m) - 1].do = "flush"
      BY ONLY <1>1, <3>2, <3>3 DEF LedIn
    <3>5. i - 1 \in m + 1 .. m + n /\ (i - 1) - m = (i - m) - 1
      BY ONLY <1>0, <3>2, <3>3
    <3> QED
      BY ONLY <1>0, <3>4, <3>5
  <2> QED
    BY ONLY <2>1 DEF LedIn
<1>5. Covered(t)
  <2>1. ASSUME NEW i \in DOMAIN t, t[i].do = "seed", t[i].use \in Kind PROVE MoveAfter(t, i)
    <3>1. i \notin 1 .. m
      BY ONLY <1>2, <2>1, i \in DOMAIN t
    <3> DEFINE h == i - m
    <3>2. i \in Int /\ h \in DOMAIN s /\ s[h].do = "seed" /\ s[h].use \in Kind /\ h >= 1 /\ i = h + m /\ h \in Int
      BY ONLY <1>0, <1>3, <2>1, <3>1, i \in DOMAIN t
    <3> HIDE DEF h
    <3>3. PICK j \in DOMAIN s : j > h /\ s[j].do = "move" /\ \A l \in h + 1 .. j - 1 : Calm(s[l])
      BY ONLY <1>1, <3>2 DEF Covered, MoveAfter
    <3>4. j \in 1 .. n
      BY ONLY <1>0, j \in DOMAIN s
    <3>5. j + m \in DOMAIN t /\ j + m > i /\ t[j + m] = s[j]
      <4>1. j + m \in m + 1 .. m + n /\ (j + m) - m = j /\ j + m > i /\ j + m \in 1 .. m + n
        BY ONLY <1>0, <3>2, <3>3, <3>4
      <4> QED
        BY ONLY <1>0, <4>1
    <3>6. ASSUME NEW l \in i + 1 .. (j + m) - 1 PROVE Calm(t[l])
      <4>1. l - m \in h + 1 .. j - 1 /\ l \in m + 1 .. m + n
        BY ONLY <1>0, <3>2, <3>4, l \in i + 1 .. (j + m) - 1
      <4> QED
        BY ONLY <1>0, <3>3, <4>1
    <3> QED
      BY ONLY <3>3, <3>5, <3>6 DEF MoveAfter
  <2> QED
    BY ONLY <2>1 DEF Covered
<1>6. \A i \in DOMAIN t : i - m = n => i = Len(t)
  BY ONLY <1>0
<1>7. EndsLast(t)
  BY ONLY <1>1, <1>2, <1>3, <1>6 DEF EndsLast
<1>8. NamesLast(t)
  BY ONLY <1>1, <1>2, <1>3, <1>6 DEF NamesLast
<1> QED
  BY ONLY <1>4, <1>5, <1>7, <1>8 DEF Shaped, t

LEMMA BlockShaped == ASSUME NEW s, Block(s) PROVE Shaped(s)
<1>1. s \in Seq(Plain) /\ Led(s) /\ Covered(s)
  BY DEF Block
<1>2. \A i \in DOMAIN s : s[i] \in Plain
  BY <1>1
<1>3. \A i \in DOMAIN s : s[i].do \notin {"issue", "finish"} /\ (s[i].do = "seed" => s[i].use # "r")
  BY ONLY <1>2 DEF Plain, Kind
<1>4. EndsLast(s) /\ NamesLast(s)
  BY ONLY <1>3 DEF EndsLast, NamesLast
<1>5. LedIn(s)
  BY ONLY <1>1, StepDoes DEF Led, LedIn
<1> QED
  BY ONLY <1>1, <1>4, <1>5 DEF Shaped

LEMMA EndedShaped ==
  ASSUME NEW a, Block(a), NEW x \in Step, x.do \in {"issue", "finish"}
  PROVE  Shaped(a \o <<x>>)
<1> DEFINE t == a \o <<x>>  m == Len(a)
<1>1. a \in Seq(Plain) /\ Led(a) /\ Covered(a) /\ a \in Seq(Step) /\ <<x>> \in Seq(Step)
  BY BlockIsSteps DEF Block
<1>2. /\ m \in Nat /\ DOMAIN a = 1 .. m /\ DOMAIN t = 1 .. m + 1 /\ Len(t) = m + 1
      /\ \A i \in 1 .. m : t[i] = a[i] /\ a[i] \in Plain
      /\ t[m + 1] = x
  <2>1. \A i \in 1 .. m : a[i] \in Plain
    BY <1>1
  <2>2. Len(<<x>>) = 1 /\ <<x>>[1] = x
    OBVIOUS
  <2> QED
    BY <1>1, <2>1, <2>2, CatIs
<1>3. Led(<<x>>) /\ Covered(<<x>>)
  BY DEF Led, Covered
<1>4. Led(t) /\ Covered(t)
  BY ONLY <1>1, <1>3, LedCat, CoveredCat
<1> HIDE DEF t, m
<1>5. \A i \in DOMAIN t : i # m + 1 =>
        t[i].do \notin {"issue", "finish"} /\ (t[i].do = "seed" => t[i].use # "r")
  BY ONLY <1>2 DEF Plain, Kind
<1>6. EndsLast(t) /\ NamesLast(t)
  BY ONLY <1>2, <1>5, x.do \in {"issue", "finish"} DEF EndsLast, NamesLast
<1>7. LedIn(t)
  BY ONLY <1>4, StepDoes DEF Led, LedIn
<1> QED
  BY ONLY <1>4, <1>6, <1>7 DEF Shaped, t

LEMMA StepsShaped ==
  ASSUME NEW e, e.pend \in [Kind -> Seq(Nat)], Len(e.pend["and"]) <= CHECK_SZ, NEW c \in CallSet
  PROVE  /\ Shaped(Steps(e, c))
         /\ \A i \in DOMAIN Steps(e, c) :
              /\ Steps(e, c)[i].do = "issue" => Ends(e, c) /\ Steps(e, c)[i] = Ending(e, c)
              /\ Steps(e, c)[i].do = "finish" => c.do = "destroy"
              /\ Steps(e, c)[i].do = "seed" /\ Steps(e, c)[i].use = "r" => Permutes(c)
         /\ Steps(e, c) # << >> => Head(Steps(e, c)).do # "seed"
<1>0. c.n \in Nat /\ Take(e, c.n) \in 0 .. c.n
  BY TakeIs DEF CallSet
<1>t. Take(e, c.n) \in Nat
  BY ONLY <1>0
<1> DEFINE s == Steps(e, c)
<1>1. CASE Ends(e, c)
  <2> DEFINE a == Before(e, c)  x == Ending(e, c)
  <2>1. Block(a) /\ s = a \o <<x>>
    BY <1>1, <1>t, BeforeBlock, EndsWith
  <2>2. x \in Step /\ x.do \in {"issue", "finish"} /\ (x.do = "finish" <=> c.do = "destroy")
    BY <1>1, <1>t, EndingIs
  <2> HIDE DEF a, x
  <2>3. Shaped(s)
    BY ONLY <2>1, <2>2, EndedShaped
  <2>4. a \in Seq(Plain) /\ a \in Seq(Step) /\ <<x>> \in Seq(Step) /\ Led(a)
    BY ONLY <2>1, <2>2, BlockIsSteps, OneTyped DEF Block
  <2>5. /\ Len(a) \in Nat /\ DOMAIN s = 1 .. Len(a) + 1 /\ s[Len(a) + 1] = x
        /\ \A i \in 1 .. Len(a) : s[i] = a[i] /\ a[i] \in Plain /\ i \in DOMAIN a
    <3>1. \A i \in 1 .. Len(a) : a[i] \in Plain
      BY ONLY <2>4
    <3>2. Len(<<x>>) = 1 /\ <<x>>[1] = x
      OBVIOUS
    <3> QED
      BY ONLY <2>1, <2>4, <3>1, <3>2, CatIs
  <2>6. \A i \in DOMAIN s : i # Len(a) + 1 =>
          s[i].do \notin {"issue", "finish"} /\ (s[i].do = "seed" => s[i].use # "r")
    BY ONLY <2>5 DEF Plain, Kind
  <2>7. \A i \in DOMAIN s : (s[i].do = "issue" => s[i] = x) /\ (s[i].do = "finish" => c.do = "destroy")
                            /\ ~(s[i].do = "seed" /\ s[i].use = "r")
    BY ONLY <2>2, <2>5, <2>6
  <2>8. Head(s) = s[1] /\ 1 \in DOMAIN s
    BY ONLY <2>1, <2>4, <2>5
  <2>9. s[1].do # "seed"
    <3>1. CASE Len(a) = 0
      BY ONLY <2>2, <2>5, <3>1
    <3>2. CASE Len(a) # 0
      <4>1. 1 \in 1 .. Len(a)
        BY ONLY <2>5, <3>2
      <4> QED
        BY ONLY <2>4, <2>5, <4>1 DEF Led
    <3> QED
      BY <3>1, <3>2
  <2> QED
    BY ONLY <1>1, <2>3, <2>7, <2>8, <2>9 DEF x
<1>2. CASE Permutes(c)
  <2> DEFINE f == Flush  b == Seed("coeff")  d == Seed("r")
  <2>1. s = IF c.do = "permute" THEN <<f, d>> ELSE <<f, b, f, d>>
    BY <1>2, PermuteIs
  <2>2. /\ f.do = "flush" /\ b.do = "seed" /\ d.do = "seed" /\ b.use = "coeff" /\ d.use = "r"
    BY StepDoes
  <2>3. "coeff" \notin Kind /\ "r" \notin Kind
    BY DEF Kind
  <2> HIDE DEF f, b, d
  <2>4. Shaped(<<f, d>>) /\ Head(<<f, d>>).do = "flush"
        /\ \A i \in DOMAIN <<f, d>> : <<f, d>>[i].do \notin {"issue", "finish"}
    <3> DEFINE t == <<f, d>>
    <3>1. DOMAIN t = 1 .. 2 /\ Len(t) = 2 /\ t[1] = f /\ t[2] = d /\ Head(t) = f
      OBVIOUS
    <3> HIDE DEF t
    <3>2. \A i \in DOMAIN t : i = 1 \/ i = 2
      BY ONLY <3>1
    <3>3. LedIn(t) /\ Covered(t) /\ EndsLast(t) /\ NamesLast(t)
      BY ONLY <2>2, <2>3, <3>1, <3>2 DEF LedIn, Covered, EndsLast, NamesLast
    <3> QED
      BY ONLY <2>2, <3>1, <3>2, <3>3 DEF Shaped, t
  <2>5. Shaped(<<f, b, f, d>>) /\ Head(<<f, b, f, d>>).do = "flush"
        /\ \A i \in DOMAIN <<f, b, f, d>> : <<f, b, f, d>>[i].do \notin {"issue", "finish"}
    <3> DEFINE t == <<f, b, f, d>>
    <3>1. DOMAIN t = 1 .. 4 /\ Len(t) = 4 /\ t[1] = f /\ t[2] = b /\ t[3] = f /\ t[4] = d /\ Head(t) = f
      OBVIOUS
    <3> HIDE DEF t
    <3>2. \A i \in DOMAIN t : i = 1 \/ i = 2 \/ i = 3 \/ i = 4
      BY ONLY <3>1
    <3>3. LedIn(t) /\ Covered(t) /\ EndsLast(t) /\ NamesLast(t)
      BY ONLY <2>2, <2>3, <3>1, <3>2 DEF LedIn, Covered, EndsLast, NamesLast
    <3> QED
      BY ONLY <2>2, <3>1, <3>2, <3>3 DEF Shaped, t
  <2> QED
    BY ONLY <1>2, <2>1, <2>4, <2>5
<1>3. CASE ~Ends(e, c) /\ ~Permutes(c)
  <2>1. Block(s)
    BY <1>3, OtherBlock
  <2>2. Shaped(s) /\ s \in Seq(Plain) /\ Led(s)
    BY ONLY <2>1, BlockShaped DEF Block
  <2>3. \A i \in DOMAIN s : s[i] \in Plain
    BY ONLY <2>2
  <2>4. \A i \in DOMAIN s : s[i].do \notin {"issue", "finish"} /\ ~(s[i].do = "seed" /\ s[i].use = "r")
    BY ONLY <2>3 DEF Plain, Kind
  <2>5. s # << >> => 1 \in DOMAIN s /\ Head(s) = s[1]
    BY ONLY <2>2
  <2> QED
    BY ONLY <2>2, <2>4, <2>5 DEF Led
<1> QED
  BY ONLY <1>1, <1>2, <1>3

LEMMA PrefixHead ==
  ASSUME NEW a \in Seq(Comm), NEW s \in Seq(Step), a \o s # << >>, s # << >> => Head(s).do # "seed"
  PROVE  Head(a \o s).do # "seed"
<1> DEFINE t == a \o s
<1>1. Comm \subseteq Step /\ \A x \in Comm : x.do # "seed"
  BY DEF Comm
<1>2. a \in Seq(Step)
  BY ONLY <1>1, WiderSeq, a \in Seq(Comm)
<1>3. t \in Seq(Step) /\ t # << >>
  BY <1>2, CatTyped
<1>4. /\ Len(a) \in Nat /\ Len(s) \in Nat /\ Len(t) = Len(a) + Len(s)
      /\ \A i \in 1 .. Len(a) : t[i] = a[i]
      /\ \A i \in 1 .. Len(s) : t[Len(a) + i] = s[i]
  BY <1>2, CatIs
<1>5. \A i \in 1 .. Len(a) : a[i] \in Comm
  OBVIOUS
<1> HIDE DEF t
<1>6. Head(t) = t[1] /\ Len(t) >= 1
  BY ONLY <1>3, HeadIs
<1>7. CASE Len(a) >= 1
  <2>1. 1 \in 1 .. Len(a)
    BY ONLY <1>4, <1>7
  <2> QED
    BY ONLY <1>1, <1>4, <1>5, <1>6, <2>1 DEF t
<1>8. CASE ~(Len(a) >= 1)
  <2>1. 1 \in 1 .. Len(s) /\ Len(a) + 1 = 1 /\ Len(s) >= 1
    BY ONLY <1>4, <1>6, <1>8
  <2>2. s # << >> /\ Head(s) = s[1]
    <3>1. s # << >>
      BY ONLY <2>1
    <3> QED
      BY ONLY <3>1, s \in Seq(Step), HeadIs
  <2>3. t[1] = s[1]
    BY ONLY <1>4, <2>1
  <2> QED
    BY <1>6, <2>2, <2>3 DEF t
<1> QED
  BY <1>7, <1>8

-----------------------------------------------------------------------------
(* What a step leaves of the steps to come.                                *)

Some(s, X) == \E i \in DOMAIN s : s[i] \in X

LEMMA SomeTail ==
  ASSUME NEW s \in Seq(Step), s # << >>, NEW X
  PROVE  Some(s, X) <=> Head(s) \in X \/ Some(Tail(s), X)
<1> DEFINE t == Tail(s)  n == Len(s)
<1>0. /\ n \in Nat /\ n >= 1 /\ DOMAIN s = 1 .. n /\ Head(s) = s[1] /\ DOMAIN t = 1 .. n - 1
      /\ \A i \in 1 .. n - 1 : t[i] = s[i + 1]
  BY HeadIs
<1> HIDE DEF t, n
<1>1. ASSUME Some(s, X) PROVE Head(s) \in X \/ Some(t, X)
  <2>1. PICK i \in DOMAIN s : s[i] \in X
    BY <1>1 DEF Some
  <2>2. CASE i = 1
    BY ONLY <1>0, <2>1, <2>2
  <2>3. CASE i # 1
    <3>1. i - 1 \in 1 .. n - 1 /\ (i - 1) + 1 = i
      BY ONLY <1>0, <2>3, i \in DOMAIN s
    <3>2. i - 1 \in DOMAIN t /\ t[i - 1] \in X
      BY ONLY <1>0, <2>1, <3>1
    <3> QED
      BY ONLY <3>2 DEF Some
  <2> QED
    BY <2>2, <2>3
<1>2. ASSUME Head(s) \in X PROVE Some(s, X)
  BY ONLY <1>0, <1>2 DEF Some
<1>3. ASSUME Some(t, X) PROVE Some(s, X)
  <2>1. PICK i \in DOMAIN t : t[i] \in X
    BY <1>3 DEF Some
  <2>2. i + 1 \in DOMAIN s /\ s[i + 1] \in X
    BY ONLY <1>0, <2>1, i \in DOMAIN t
  <2> QED
    BY ONLY <2>2 DEF Some
<1> QED
  BY ONLY <1>1, <1>2, <1>3 DEF t

LEMMA SomeCat ==
  ASSUME NEW a \in Seq(Step), NEW b \in Seq(Step), NEW X
  PROVE  Some(a \o b, X) <=> Some(a, X) \/ Some(b, X)
<1> DEFINE t == a \o b  m == Len(a)  n == Len(b)
<1>0. /\ DOMAIN t = 1 .. m + n /\ m \in Nat /\ n \in Nat /\ DOMAIN a = 1 .. m /\ DOMAIN b = 1 .. n
      /\ \A i \in 1 .. m : t[i] = a[i]
      /\ \A i \in m + 1 .. m + n : t[i] = b[i - m]
      /\ \A i \in 1 .. n : t[m + i] = b[i]
  BY CatIs
<1> HIDE DEF t, m, n
<1>1. ASSUME Some(t, X) PROVE Some(a, X) \/ Some(b, X)
  <2>1. PICK i \in DOMAIN t : t[i] \in X
    BY <1>1 DEF Some
  <2>2. CASE i <= m
    <3>1. i \in DOMAIN a /\ a[i] \in X
      BY ONLY <1>0, <2>1, <2>2, i \in DOMAIN t
    <3> QED
      BY ONLY <3>1 DEF Some
  <2>3. CASE ~(i <= m)
    <3>1. i - m \in DOMAIN b /\ b[i - m] \in X
      BY ONLY <1>0, <2>1, <2>3, i \in DOMAIN t
    <3> QED
      BY ONLY <3>1 DEF Some
  <2> QED
    BY <2>2, <2>3
<1>2. ASSUME Some(a, X) PROVE Some(t, X)
  <2>1. PICK i \in DOMAIN a : a[i] \in X
    BY <1>2 DEF Some
  <2>2. i \in DOMAIN t /\ t[i] \in X
    BY ONLY <1>0, <2>1, i \in DOMAIN a
  <2> QED
    BY ONLY <2>2 DEF Some
<1>3. ASSUME Some(b, X) PROVE Some(t, X)
  <2>1. PICK i \in DOMAIN b : b[i] \in X
    BY <1>3 DEF Some
  <2>2. m + i \in DOMAIN t /\ t[m + i] \in X
    BY ONLY <1>0, <2>1, i \in DOMAIN b
  <2> QED
    BY ONLY <2>2 DEF Some
<1> QED
  BY ONLY <1>1, <1>2, <1>3 DEF t

LEMMA CommIsStep == Comm \subseteq Step
BY DEF Comm

LEMMA NoneComm ==
  ASSUME NEW a \in Seq(Comm), NEW X, X \cap Comm = {}
  PROVE  ~Some(a, X)
<1>1. \A i \in DOMAIN a : a[i] \in Comm
  OBVIOUS
<1> QED
  BY ONLY <1>1, X \cap Comm = {} DEF Some

LEMMA TodoForms ==
  ASSUME NEW q, Types(q), ~Idle(q)
  PROVE  \/ (Waits(q) \/ Closes(q)) /\ TodoAfter(q) = q.todo
         \/ Refills(q) /\ \E a \in Seq(Comm) : TodoAfter(q) = a \o q.todo
         \/ TakesCots(q) /\ \E a \in Seq(Comm) : TodoAfter(q) = a \o Tail(q.todo)
         \/ ~Does(q, "draw") /\ ~Closes(q) /\ TodoAfter(q) = Tail(q.todo)
<1>0. q.todo \in Seq(Step) /\ q.todo # << >> /\ Tail(q.todo) \in Seq(Step)
  BY AtHand DEF Types, Idle
<1>d. Does(q, "draw") => Waits(q) \/ Refills(q) \/ TakesCots(q)
  BY DEF Waits, Refills, TakesCots
<1>c. Flush \in Comm /\ Fill \in Comm /\ \A n \in Nat : Draw(n) \in Comm
  BY StepsAre, StepDoes DEF Comm
<1>1. CASE Waits(q) \/ Closes(q)
  BY ONLY <1>1, ~Idle(q) DEF TodoAfter
<1>2. CASE ~(Waits(q) \/ Closes(q)) /\ Refills(q)
  <2> DEFINE x == Exchange("round")
             r == IF q.mode = "stream" /\ q.used % PerRound = 0 THEN x ELSE << >>
  <2>1. x \in Seq(Comm)
    <3> DEFINE u == Move(ALICE, "round", 0, TRUE)  v == Move(BOB, "round", 0, TRUE)
    <3>1. u \in Comm /\ v \in Comm
      <4>1. u \in Step /\ v \in Step
        BY StepsAre, KindsAre, WordsAre
      <4>2. u.do = "move" /\ v.do = "move"
        BY DEF Move
      <4> QED
        BY ONLY <4>1, <4>2 DEF Comm
    <3>2. x = <<Flush>> \o <<u>> \o <<v>>
      BY DEF Exchange, ToBobNow, ToAlice
    <3> HIDE DEF u, v, x
    <3>3. <<Flush>> \in Seq(Comm) /\ <<u>> \in Seq(Comm) /\ <<v>> \in Seq(Comm)
      BY ONLY <1>c, <3>1, OneTyped
    <3> QED
      BY ONLY <3>2, <3>3, Cat3Typed
  <2>2. r \in Seq(Comm)
    BY ONLY <2>1, IfTyped
  <2>3. <<Fill>> \in Seq(Comm)
    BY ONLY <1>c, OneTyped
  <2>4. TodoAfter(q) = r \o <<Fill>> \o q.todo
    BY ONLY <1>2, ~Idle(q) DEF TodoAfter
  <2> HIDE DEF r
  <2>5. r \o <<Fill>> \in Seq(Comm)
    BY ONLY <2>2, <2>3, CatTyped
  <2> QED
    BY ONLY <1>2, <2>4, <2>5
<1>3. CASE ~(Waits(q) \/ Closes(q)) /\ ~Refills(q) /\ TakesCots(q)
  <2> DEFINE r == Head(q.todo).n - Piece(q)
  <2>1. CASE Piece(q) # Head(q.todo).n
    <3>1. r \in Nat
      BY <1>3, PieceIs
    <3>2. TodoAfter(q) = <<Draw(r)>> \o Tail(q.todo)
      BY ONLY <1>3, <2>1, ~Idle(q) DEF TodoAfter
    <3> HIDE DEF r
    <3>3. <<Draw(r)>> \in Seq(Comm)
      BY ONLY <1>c, <3>1, OneTyped
    <3> QED
      BY ONLY <1>3, <3>2, <3>3
  <2>2. CASE ~(Piece(q) # Head(q.todo).n)
    <3>1. TodoAfter(q) = Tail(q.todo)
      BY ONLY <1>3, <2>2, ~Idle(q) DEF TodoAfter
    <3>2. << >> \in Seq(Comm) /\ << >> \o Tail(q.todo) = Tail(q.todo)
      BY ONLY <1>0, EmptySeq, ConcatEmptySeq
    <3> QED
      BY ONLY <1>3, <3>1, <3>2
  <2> QED
    BY <2>1, <2>2
<1>4. CASE ~(Waits(q) \/ Closes(q)) /\ ~Refills(q) /\ ~TakesCots(q)
  <2>1. TodoAfter(q) = Tail(q.todo)
    BY ONLY <1>4, ~Idle(q) DEF TodoAfter
  <2> QED
    BY ONLY <1>4, <1>d, <2>1
<1> QED
  BY ONLY <1>1, <1>2, <1>3, <1>4

\* A step is left exactly as long as it has not been the one at hand.
LEMMA SomeAfter ==
  ASSUME NEW q, Types(q), ~Idle(q), NEW X, X \cap Comm = {}
  PROVE  /\ Some(TodoAfter(q), X) => Some(q.todo, X)
         /\ Some(q.todo, X) => Some(TodoAfter(q), X) \/ (Head(q.todo) \in X /\ ~Closes(q))
         /\ Closes(q) \/ Head(q.todo) \notin X => (Some(q.todo, X) <=> Some(TodoAfter(q), X))
<1>0. q.todo \in Seq(Step) /\ q.todo # << >> /\ Tail(q.todo) \in Seq(Step) /\ Head(q.todo) \in Step
  BY AtHand DEF Types, Idle
<1>1. Some(q.todo, X) <=> Head(q.todo) \in X \/ Some(Tail(q.todo), X)
  BY ONLY <1>0, SomeTail
<1>2. Does(q, "draw") => Head(q.todo) \notin X
  BY ONLY <1>0, X \cap Comm = {} DEF Does, Comm
<1>3. Waits(q) \/ Refills(q) \/ TakesCots(q) => Does(q, "draw")
  BY DEF Waits, Refills, TakesCots
<1>4. CASE (Waits(q) \/ Closes(q)) /\ TodoAfter(q) = q.todo
  BY ONLY <1>1, <1>2, <1>3, <1>4
<1>5. CASE Refills(q) /\ \E a \in Seq(Comm) : TodoAfter(q) = a \o q.todo
  <2>1. PICK a \in Seq(Comm) : TodoAfter(q) = a \o q.todo
    BY <1>5
  <2>2. a \in Seq(Step) /\ ~Some(a, X)
    BY ONLY a \in Seq(Comm), X \cap Comm = {}, CommIsStep, WiderSeq, NoneComm
  <2>3. Some(a \o q.todo, X) <=> Some(a, X) \/ Some(q.todo, X)
    BY ONLY <1>0, <2>2, SomeCat
  <2> QED
    BY ONLY <2>1, <2>2, <2>3
<1>6. CASE TakesCots(q) /\ \E a \in Seq(Comm) : TodoAfter(q) = a \o Tail(q.todo)
  <2>1. PICK a \in Seq(Comm) : TodoAfter(q) = a \o Tail(q.todo)
    BY <1>6
  <2>2. a \in Seq(Step) /\ ~Some(a, X)
    BY ONLY a \in Seq(Comm), X \cap Comm = {}, CommIsStep, WiderSeq, NoneComm
  <2>3. Some(a \o Tail(q.todo), X) <=> Some(a, X) \/ Some(Tail(q.todo), X)
    BY ONLY <1>0, <2>2, SomeCat
  <2> QED
    BY ONLY <1>1, <1>2, <1>3, <1>6, <2>1, <2>2, <2>3
<1>7. CASE ~Does(q, "draw") /\ ~Closes(q) /\ TodoAfter(q) = Tail(q.todo)
  BY ONLY <1>1, <1>7
<1> QED
  BY TodoForms, <1>4, <1>5, <1>6, <1>7

\* After a step that is not a draw, no step of X is left of a list that X ends.
LEMMA EndAtHand ==
  ASSUME NEW q, Types(q), Shaped(q.todo), Does(q, "issue") \/ (Does(q, "finish") /\ ~Closes(q))
  PROVE  TodoAfter(q) = << >> /\ Len(q.todo) = 1
<1>0. q.todo \in Seq(Step) /\ q.todo # << >> /\ ~Idle(q) /\ Head(q.todo).do \in {"issue", "finish"}
  BY DEF Types, Does, Idle
<1>1. /\ Len(q.todo) \in Nat /\ Len(q.todo) >= 1 /\ DOMAIN q.todo = 1 .. Len(q.todo) /\ Head(q.todo) = q.todo[1]
      /\ Tail(q.todo) \in Seq(Step) /\ Len(Tail(q.todo)) = Len(q.todo) - 1
  BY ONLY <1>0, HeadIs
<1>2. Len(q.todo) = 1
  <2>1. EndsLast(q.todo)
    BY DEF Shaped
  <2>2. 1 \in DOMAIN q.todo /\ q.todo[1].do \in {"issue", "finish"}
    BY ONLY <1>0, <1>1
  <2> QED
    BY ONLY <2>1, <2>2 DEF EndsLast
<1>3. Tail(q.todo) = << >>
  <2> DEFINE t == Tail(q.todo)
  <2>1. t \in Seq(Step) /\ Len(t) = 0
    BY ONLY <1>1, <1>2
  <2> HIDE DEF t
  <2>2. t # << >> => Len(t) \in Nat \ {0}
    BY ONLY <2>1, EmptySeq
  <2> QED
    BY ONLY <2>1, <2>2 DEF t
<1>4. TodoAfter(q) = Tail(q.todo)
  <2>1. ~Does(q, "draw") /\ ~Closes(q)
    BY DEF Does, Closes
  <2> QED
    BY ONLY <1>0, <2>1, ~Idle(q) DEF TodoAfter, Waits, Refills, TakesCots
<1> QED
  BY ONLY <1>2, <1>3, <1>4

-----------------------------------------------------------------------------
(* The machine's shape is kept.                                            *)

Sound(q) == Types(q) /\ Fits(q) /\ Shaped(q.todo) /\ HeadLed(q)

\* The first call's steps, and what the machine makes of a call.
LEMMA CallShaped ==
  ASSUME NEW q, Types(q), Fits(q), CanStep(q), Idle(q)
  PROVE  /\ Head(q.calls) \in CallSet /\ q.calls # << >>
         /\ Buf(q).pend = q.pend /\ Buf(q).f2k = q.f2k /\ Buf(q).mode = q.mode
         /\ Buf(q).pend \in [Kind -> Seq(Nat)] /\ Len(Buf(q).pend["and"]) <= CHECK_SZ
         /\ TodoAfter(q) = Steps(Buf(q), Head(q.calls))
         /\ Take(Buf(q), Head(q.calls).n) \in Nat
<1>1. Head(q.calls) \in CallSet /\ q.calls # << >>
  BY CallsTyped DEF CanStep, Idle
<1>2. Buf(q).pend = q.pend /\ Buf(q).f2k = q.f2k /\ Buf(q).mode = q.mode
  BY DEF Buf
<1>3. Buf(q).pend \in [Kind -> Seq(Nat)] /\ Len(Buf(q).pend["and"]) <= CHECK_SZ
  BY <1>2 DEF Types, Fits
<1>4. TodoAfter(q) = Steps(Buf(q), Head(q.calls))
  BY ONLY Idle(q) DEF TodoAfter
<1>5. Take(Buf(q), Head(q.calls).n) \in Nat
  <2>1. Head(q.calls).n \in Nat
    BY ONLY <1>1 DEF CallSet
  <2>2. Take(Buf(q), Head(q.calls).n) \in 0 .. Head(q.calls).n
    BY ONLY <1>3, <2>1, TakeIs
  <2> QED
    BY ONLY <2>1, <2>2
<1> QED
  BY ONLY <1>1, <1>2, <1>3, <1>4, <1>5

LEMMA SecondSeed ==
  ASSUME NEW s \in Seq(Step), s # << >>, Shaped(s), Tail(s) # << >>, Head(Tail(s)).do = "seed"
  PROVE  Head(s).do = "flush"
<1> DEFINE t == Tail(s)
<1>1. /\ Len(s) \in Nat /\ DOMAIN s = 1 .. Len(s) /\ Head(s) = s[1] /\ t \in Seq(Step) /\ Len(t) = Len(s) - 1
      /\ \A i \in 1 .. Len(s) - 1 : t[i] = s[i + 1]
  BY HeadIs
<1>2. Len(t) >= 1 /\ Head(t) = t[1]
  <2>1. t \in Seq(Step) /\ t # << >>
    BY <1>1
  <2> HIDE DEF t
  <2> QED
    BY ONLY <2>1, HeadIs
<1>3. t[1].do = "seed"
  BY <1>2
<1> HIDE DEF t
<1>4. 2 \in DOMAIN s /\ s[2].do = "seed" /\ 2 - 1 = 1 /\ 2 > 1
  BY ONLY <1>1, <1>2, <1>3
<1>5. LedIn(s)
  BY DEF Shaped
<1>6. s[2 - 1].do = "flush"
  BY ONLY <1>4, <1>5 DEF LedIn
<1> QED
  BY ONLY <1>1, <1>4, <1>6

LEMMA ShapeKept ==
  ASSUME NEW q, Sound(q), CanStep(q)
  PROVE  /\ Shaped(TodoAfter(q))
         /\ TodoAfter(q) # << >> /\ Head(TodoAfter(q)).do = "seed" => Does(q, "flush")
<1>0. Types(q) /\ Fits(q) /\ Shaped(q.todo) /\ q.todo \in Seq(Step)
  BY DEF Sound, Types
<1>1. CASE Idle(q)
  <2>1. /\ Head(q.calls) \in CallSet
        /\ Buf(q).pend \in [Kind -> Seq(Nat)] /\ Len(Buf(q).pend["and"]) <= CHECK_SZ
        /\ TodoAfter(q) = Steps(Buf(q), Head(q.calls))
    BY <1>0, <1>1, CallShaped
  <2> QED
    BY ONLY <2>1, StepsShaped
<1>2. CASE ~Idle(q)
  <2>0. q.todo # << >> /\ Tail(q.todo) \in Seq(Step) /\ Shaped(Tail(q.todo))
    BY <1>0, <1>2, AtHand, TailShaped DEF Idle
  <2>1. CASE (Waits(q) \/ Closes(q)) /\ TodoAfter(q) = q.todo
    <3>1. Head(q.todo).do \in {"draw", "finish"}
      BY ONLY <2>1 DEF Waits, Closes, Does
    <3> QED
      BY ONLY <1>0, <2>1, <3>1
  <2>2. CASE Refills(q) /\ \E a \in Seq(Comm) : TodoAfter(q) = a \o q.todo
    <3>1. PICK a \in Seq(Comm) : TodoAfter(q) = a \o q.todo
      BY <2>2
    <3>2. Head(q.todo).do # "seed"
      BY ONLY <2>2 DEF Refills, Does
    <3>3. Shaped(a \o q.todo)
      BY ONLY <1>0, <3>2, a \in Seq(Comm), PrefixShaped
    <3>4. Head(a \o q.todo).do # "seed"
      BY ONLY <1>0, <2>0, <3>2, a \in Seq(Comm), PrefixHead
    <3> QED
      BY ONLY <3>1, <3>3, <3>4
  <2>3. CASE TakesCots(q) /\ \E a \in Seq(Comm) : TodoAfter(q) = a \o Tail(q.todo)
    <3>1. PICK a \in Seq(Comm) : TodoAfter(q) = a \o Tail(q.todo)
      BY <2>3
    <3>2. Head(q.todo).do = "draw"
      BY ONLY <2>3 DEF TakesCots, Does
    <3>3. Tail(q.todo) # << >> => Head(Tail(q.todo)).do # "seed"
      BY ONLY <1>0, <2>0, <3>2, SecondSeed
    <3>4. Shaped(a \o Tail(q.todo))
      BY ONLY <2>0, <3>3, a \in Seq(Comm), PrefixShaped
    <3>5. a \o Tail(q.todo) # << >> => Head(a \o Tail(q.todo)).do # "seed"
      BY ONLY <2>0, <3>3, a \in Seq(Comm), PrefixHead
    <3> QED
      BY ONLY <3>1, <3>4, <3>5
  <2>4. CASE ~Does(q, "draw") /\ ~Closes(q) /\ TodoAfter(q) = Tail(q.todo)
    <3>1. Tail(q.todo) # << >> /\ Head(Tail(q.todo)).do = "seed" => Head(q.todo).do = "flush"
      BY ONLY <1>0, <2>0, SecondSeed
    <3> QED
      BY ONLY <2>0, <2>4, <3>1 DEF Does
  <2> QED
    BY ONLY <1>0, <1>2, <2>1, <2>2, <2>3, <2>4, TodoForms
<1> QED
  BY <1>1, <1>2

Gates(k) == {x \in Step : x.do = "issue" /\ x.kind = k}

LEMMA FitsKept ==
  ASSUME NEW q, Sound(q), CanStep(q)
  PROVE  Fits(Succ(q))
<1> DEFINE s == Succ(q)
<1>0. Types(q) /\ Fits(q) /\ Shaped(q.todo) /\ q.todo \in Seq(Step) /\ q.pend \in [Kind -> Seq(Nat)]
  BY DEF Sound, Types
<1>s. s.pend = PendAfter(q) /\ s.todo = TodoAfter(q)
  BY SuccIs
<1>k. "and" \in Kind
  BY KindsAre
<1>n. CHECK_SZ \in Nat
  BY SizesAre
<1> HIDE DEF s
<1> SUFFICES Fits(s)
  BY DEF s
<1>f. Len(q.pend["and"]) <= CHECK_SZ /\ Len(q.pend["and"]) \in Nat
  BY <1>0, <1>k DEF Fits
<1>1. CASE Idle(q)
  <2>1. /\ Head(q.calls) \in CallSet /\ Buf(q).pend = q.pend
        /\ Buf(q).pend \in [Kind -> Seq(Nat)] /\ Len(Buf(q).pend["and"]) <= CHECK_SZ
        /\ TodoAfter(q) = Steps(Buf(q), Head(q.calls)) /\ Take(Buf(q), Head(q.calls).n) \in Nat
    BY <1>0, <1>1, CallShaped
  <2> DEFINE e == Buf(q)  c == Head(q.calls)
  <2>2. c.n \in Nat
    BY <2>1 DEF CallSet
  <2>3. PendAfter(q) = q.pend
    BY ONLY <1>1 DEF PendAfter, Does, Idle
  <2>4. ASSUME NEW i \in DOMAIN Steps(e, c), Steps(e, c)[i].do = "issue", Steps(e, c)[i].kind = "and"
        PROVE  Len(q.pend["and"]) + Steps(e, c)[i].n <= CHECK_SZ
    <3>1. Ends(e, c) /\ Steps(e, c)[i] = Ending(e, c)
      BY <2>1, <2>4, StepsShaped
    <3>2. Ending(e, c).do = "issue" /\ Ending(e, c).kind = "and"
      BY <2>4, <3>1
    <3>3. c.do = "and" /\ Ending(e, c).n = Take(e, c.n)
      <4>1. c.do \in {"f2kmul", "poly", "product", "destroy", "and"}
        BY ONLY <3>1 DEF Ends
      <4>2. Take(e, c.n) \in Nat
        BY <2>1
      <4> HIDE DEF e, c
      <4> QED
        BY ONLY <3>1, <3>2, <4>1, <4>2, EndingIs
    <3>4. ~Full(e, "and", CHECK_SZ)
      BY ONLY <3>1, <3>3 DEF Ends
    <3>5. Len(e.pend["and"]) + Take(e, c.n) <= CHECK_SZ
      BY <2>1, <2>2, <3>4, TakeIs
    <3> QED
      BY <2>1, <3>1, <3>3, <3>5
  <2> QED
    BY ONLY <1>s, <1>f, <2>1, <2>3, <2>4 DEF Fits
<1>2. CASE ~Idle(q)
  <2>1. \A i \in DOMAIN s.todo : s.todo[i].do = "issue" /\ s.todo[i].kind = "and" =>
          Len(q.pend["and"]) + s.todo[i].n <= CHECK_SZ
    <3> TAKE i \in DOMAIN s.todo
    <3> HAVE s.todo[i].do = "issue" /\ s.todo[i].kind = "and"
    <3> DEFINE X == {s.todo[i]}
    <3>1. Some(TodoAfter(q), X)
      BY <1>s DEF Some
    <3>2. X \cap Comm = {}
      BY DEF Comm
    <3>3. Some(q.todo, X)
      BY <1>0, <1>2, <3>1, <3>2, SomeAfter
    <3>4. PICK j \in DOMAIN q.todo : q.todo[j] = s.todo[i]
      BY <3>3 DEF Some
    <3> QED
      BY <1>0, <3>4 DEF Fits
  <2>2. CASE Does(q, "issue")
    <3>1. s.todo = << >>
      BY <1>0, <1>s, <2>2, EndAtHand
    <3>2. \A i \in DOMAIN s.todo : FALSE
      BY <3>1
    <3>3. Len(s.pend["and"]) <= CHECK_SZ
      <4> DEFINE k == Head(q.todo).kind
      <4>1. k \in Kind /\ Ids(q) \in Seq(Nat) /\ Len(Ids(q)) = Head(q.todo).n /\ Head(q.todo).n \in Nat
        BY <1>0, <2>2, IdsTyped
      <4>2. s.pend = [q.pend EXCEPT ![k] = q.pend[k] \o Ids(q)]
        BY <1>s, <2>2 DEF PendAfter
      <4>3. k = "and" => Len(q.pend["and"]) + Head(q.todo).n <= CHECK_SZ
        <5>1. 1 \in DOMAIN q.todo /\ q.todo[1] = Head(q.todo) /\ Head(q.todo).do = "issue"
          BY <1>0, <2>2, HeadIs DEF Does
        <5> QED
          BY <1>0, <5>1 DEF Fits
      <4> HIDE DEF k
      <4>4. CASE k = "and"
        <5>1. s.pend["and"] = q.pend["and"] \o Ids(q)
          BY ONLY <1>0, <1>k, <4>2, <4>4
        <5>2. q.pend["and"] \in Seq(Nat)
          BY ONLY <1>0, <1>k
        <5>3. Len(q.pend["and"] \o Ids(q)) = Len(q.pend["and"]) + Len(Ids(q))
          <6> DEFINE a == q.pend["and"]  b == Ids(q)
          <6>1. a \in Seq(Nat) /\ b \in Seq(Nat)
            BY ONLY <4>1, <5>2
          <6> HIDE DEF a, b
          <6>2. Len(a \o b) = Len(a) + Len(b)
            BY ONLY <6>1, ConcatProperties
          <6> QED
            BY ONLY <6>2 DEF a, b
        <5> QED
          BY ONLY <4>1, <4>3, <4>4, <5>1, <5>3
      <4>5. CASE k # "and"
        <5>1. s.pend["and"] = q.pend["and"]
          BY ONLY <1>0, <1>k, <4>2, <4>5
        <5> QED
          BY ONLY <1>f, <5>1
      <4> QED
        BY <4>4, <4>5
    <3> QED
      BY ONLY <3>2, <3>3 DEF Fits
  <2>3. CASE ~Does(q, "issue")
    <3>1. s.pend["and"] = q.pend["and"] \/ s.pend["and"] = << >>
      <4>1. CASE Does(q, "fold")
        <5> DEFINE k == Head(q.todo).kind
        <5>1. s.pend = [q.pend EXCEPT ![k] = << >>]
          BY ONLY <1>s, <2>3, <4>1 DEF PendAfter
        <5> HIDE DEF k
        <5> QED
          BY ONLY <1>0, <1>k, <5>1
      <4>2. CASE ~Does(q, "fold")
        BY ONLY <1>s, <2>3, <4>2 DEF PendAfter
      <4> QED
        BY <4>1, <4>2
    <3>2. Len(<< >>) = 0
      OBVIOUS
    <3>3. CASE s.pend["and"] = q.pend["and"]
      BY ONLY <1>f, <2>1, <3>3 DEF Fits
    <3>4. CASE s.pend["and"] = << >>
      <4>1. ASSUME NEW i \in DOMAIN s.todo, s.todo[i].do = "issue", s.todo[i].kind = "and"
            PROVE  Len(s.pend["and"]) + s.todo[i].n <= CHECK_SZ
        <5>1. Len(q.pend["and"]) + s.todo[i].n <= CHECK_SZ
          BY ONLY <2>1, <4>1, i \in DOMAIN s.todo
        <5>2. s.todo[i].n \in Nat
          <6>1. s.todo \in Seq(Step)
            BY <1>0, <1>s, TodoTyped
          <6>2. s.todo[i] \in Step
            BY ONLY <6>1, i \in DOMAIN s.todo
          <6> QED
            BY ONLY <4>1, <6>2, StepIs
        <5> QED
          BY ONLY <1>f, <1>n, <3>2, <3>4, <5>1, <5>2
      <4> QED
        BY ONLY <1>n, <3>2, <3>4, <4>1 DEF Fits
    <3> QED
      BY <3>1, <3>3, <3>4
  <2> QED
    BY <2>2, <2>3
<1> QED
  BY <1>1, <1>2

LEMMA SoundKept ==
  ASSUME NEW q, Sound(q), CanStep(q)
  PROVE  Sound(Succ(q))
<1> DEFINE s == Succ(q)
<1>1. Types(s) /\ Fits(s)
  BY SuccTyped, FitsKept DEF Sound
<1>2. s.todo = TodoAfter(q) /\ s.staged = StagedAfter(q)
  BY SuccIs
<1> HIDE DEF s
<1>3. Shaped(s.todo)
  BY <1>2, ShapeKept
<1>4. HeadLed(s)
  <2>1. Does(s, "seed") => Does(q, "flush")
    BY <1>2, ShapeKept DEF Does
  <2>2. Does(q, "flush") => StagedAfter(q) = << >>
    BY DEF StagedAfter, Cuts
  <2> QED
    BY ONLY <1>2, <2>1, <2>2 DEF HeadLed
<1> QED
  BY ONLY <1>1, <1>3, <1>4 DEF Sound, s


-----------------------------------------------------------------------------
(* Lists in which what is in A comes after something in B.                 *)

Preceded(s, A, B) == \A i \in DOMAIN s : s[i] \in A => \E j \in 1 .. i - 1 : s[j] \in B

LEMMA ListIs ==
  ASSUME NEW S, NEW s \in Seq(S), s # << >>
  PROVE  /\ Len(s) \in Nat /\ Len(s) >= 1 /\ DOMAIN s = 1 .. Len(s) /\ Head(s) = s[1] /\ s[1] \in S
         /\ Tail(s) \in Seq(S) /\ Len(Tail(s)) = Len(s) - 1 /\ DOMAIN Tail(s) = 1 .. Len(s) - 1
         /\ \A i \in 1 .. Len(s) - 1 : Tail(s)[i] = s[i + 1]
OBVIOUS

LEMMA PrecededNone ==
  ASSUME NEW s, NEW A, NEW B, ~Some(s, A)
  PROVE  Preceded(s, A, B)
BY DEF Preceded, Some

LEMMA PrecededTail ==
  ASSUME NEW S, NEW s \in Seq(S), s # << >>, NEW A, NEW B, Preceded(s, A, B)
  PROVE  Head(s) \notin A /\ (Head(s) \notin B => Preceded(Tail(s), A, B))
<1> DEFINE t == Tail(s)  n == Len(s)
<1>1. /\ n \in Nat /\ n >= 1 /\ DOMAIN s = 1 .. n /\ Head(s) = s[1] /\ DOMAIN t = 1 .. n - 1
      /\ \A i \in 1 .. n - 1 : t[i] = s[i + 1]
  BY ListIs
<1> HIDE DEF t, n
<1>2. Head(s) \notin A
  <2>1. 1 \in DOMAIN s /\ \A j \in 1 .. 1 - 1 : FALSE
    BY ONLY <1>1
  <2> QED
    BY ONLY <1>1, <2>1, Preceded(s, A, B) DEF Preceded
<1>3. ASSUME Head(s) \notin B, NEW i \in DOMAIN t, t[i] \in A PROVE \E j \in 1 .. i - 1 : t[j] \in B
  <2>1. i \in 1 .. n - 1 /\ i + 1 \in DOMAIN s /\ s[i + 1] \in A
    BY ONLY <1>1, <1>3, i \in DOMAIN t
  <2>2. PICK j \in 1 .. (i + 1) - 1 : s[j] \in B
    BY ONLY <2>1, Preceded(s, A, B) DEF Preceded
  <2>3. j # 1
    BY ONLY <1>1, <1>3, <2>2
  <2>4. j - 1 \in 1 .. i - 1 /\ j - 1 \in 1 .. n - 1 /\ (j - 1) + 1 = j
    BY ONLY <1>1, <2>1, <2>3, j \in 1 .. (i + 1) - 1
  <2>5. t[j - 1] = s[j]
    BY ONLY <1>1, <2>4
  <2> QED
    BY ONLY <2>2, <2>4, <2>5
<1> QED
  BY ONLY <1>2, <1>3 DEF Preceded, t

LEMMA PrecededCat ==
  ASSUME NEW S, NEW a \in Seq(S), NEW b \in Seq(S), NEW A, NEW B, Preceded(a, A, B),
         Some(a, B) \/ Preceded(b, A, B)
  PROVE  Preceded(a \o b, A, B)
<1> DEFINE t == a \o b  m == Len(a)  n == Len(b)
<1>0. /\ DOMAIN t = 1 .. m + n /\ m \in Nat /\ n \in Nat /\ DOMAIN a = 1 .. m /\ DOMAIN b = 1 .. n
      /\ \A i \in 1 .. m : t[i] = a[i]
      /\ \A i \in m + 1 .. m + n : t[i] = b[i - m]
      /\ \A i \in 1 .. n : t[m + i] = b[i]
  BY CatIs
<1> HIDE DEF t, m, n
<1>1. ASSUME NEW i \in DOMAIN t, t[i] \in A PROVE \E j \in 1 .. i - 1 : t[j] \in B
  <2>1. CASE i <= m
    <3>1. i \in DOMAIN a /\ a[i] \in A
      BY ONLY <1>0, <1>1, <2>1, i \in DOMAIN t
    <3>2. PICK j \in 1 .. i - 1 : a[j] \in B
      BY ONLY <3>1, Preceded(a, A, B) DEF Preceded
    <3>3. t[j] = a[j]
      BY ONLY <1>0, <3>1, j \in 1 .. i - 1
    <3> QED
      BY ONLY <3>2, <3>3
  <2>2. CASE i > m /\ Some(a, B)
    <3>1. PICK j \in DOMAIN a : a[j] \in B
      BY <2>2 DEF Some
    <3>2. j \in 1 .. i - 1 /\ t[j] = a[j]
      BY ONLY <1>0, <2>2, i \in DOMAIN t, j \in DOMAIN a
    <3> QED
      BY ONLY <3>1, <3>2
  <2>3. CASE i > m /\ Preceded(b, A, B)
    <3>1. i - m \in DOMAIN b /\ b[i - m] \in A
      BY ONLY <1>0, <1>1, <2>3, i \in DOMAIN t
    <3>2. PICK j \in 1 .. (i - m) - 1 : b[j] \in B
      BY ONLY <2>3, <3>1 DEF Preceded
    <3>3. m + j \in 1 .. i - 1 /\ t[m + j] = b[j]
      BY ONLY <1>0, <3>1, i \in DOMAIN t, j \in 1 .. (i - m) - 1
    <3> QED
      BY ONLY <3>2, <3>3
  <2> QED
    <3>1. i <= m \/ i > m
      BY ONLY <1>0, i \in DOMAIN t
    <3> QED
      BY <2>1, <2>2, <2>3, <3>1
<1> QED
  BY ONLY <1>1 DEF Preceded, t

\* A step is left preceded as long as no predecessor has been the one at hand.
LEMMA PrecededAfter ==
  ASSUME NEW q, Types(q), ~Idle(q), NEW A, NEW B, A \cap Comm = {}, Preceded(q.todo, A, B),
         Head(q.todo) \notin B \/ Closes(q) \/ Waits(q)
  PROVE  Preceded(TodoAfter(q), A, B)
<1>0. q.todo \in Seq(Step) /\ q.todo # << >> /\ Tail(q.todo) \in Seq(Step)
  BY AtHand DEF Types, Idle
<1>1. CASE (Waits(q) \/ Closes(q)) /\ TodoAfter(q) = q.todo
  BY ONLY <1>1, Preceded(q.todo, A, B)
<1>2. ASSUME NEW a \in Seq(Comm), NEW b \in Seq(Step), Preceded(b, A, B) PROVE Preceded(a \o b, A, B)
  <2>1. a \in Seq(Step) /\ ~Some(a, A)
    BY ONLY a \in Seq(Comm), A \cap Comm = {}, CommIsStep, WiderSeq, NoneComm
  <2>2. Preceded(a, A, B)
    BY ONLY <2>1, PrecededNone
  <2> QED
    BY ONLY <1>2, <2>1, <2>2, b \in Seq(Step), PrecededCat
<1>3. Head(q.todo) \notin B => Preceded(Tail(q.todo), A, B)
  BY ONLY <1>0, Preceded(q.todo, A, B), PrecededTail
<1>4. CASE Refills(q) /\ \E a \in Seq(Comm) : TodoAfter(q) = a \o q.todo
  BY ONLY <1>0, <1>2, <1>4, Preceded(q.todo, A, B)
<1>5. TakesCots(q) => ~Closes(q) /\ ~Waits(q)
  BY DEF TakesCots, Closes, Waits, Does
<1>6. CASE TakesCots(q) /\ \E a \in Seq(Comm) : TodoAfter(q) = a \o Tail(q.todo)
  BY ONLY <1>0, <1>2, <1>3, <1>5, <1>6, Head(q.todo) \notin B \/ Closes(q) \/ Waits(q)
<1>7. CASE ~Does(q, "draw") /\ ~Closes(q) /\ TodoAfter(q) = Tail(q.todo)
  <2>1. ~Waits(q)
    BY ONLY <1>7 DEF Waits
  <2> QED
    BY ONLY <1>3, <1>7, <2>1, Head(q.todo) \notin B \/ Closes(q) \/ Waits(q)
<1> QED
  BY ONLY <1>1, <1>4, <1>6, <1>7, Types(q), ~Idle(q), TodoForms

LEMMA SomeLater ==
  ASSUME NEW S, NEW a \in Seq(S), NEW b \in Seq(S), NEW X, Some(b, X)
  PROVE  Some(a \o b, X)
<1> DEFINE t == a \o b  m == Len(a)  n == Len(b)
<1>0. /\ DOMAIN t = 1 .. m + n /\ m \in Nat /\ n \in Nat /\ DOMAIN b = 1 .. n
      /\ \A i \in m + 1 .. m + n : t[i] = b[i - m]
  BY CatIs
<1> HIDE DEF t, m, n
<1>1. PICK i \in DOMAIN b : b[i] \in X
  BY DEF Some
<1>2. m + i \in DOMAIN t /\ m + i \in m + 1 .. m + n /\ (m + i) - m = i
  BY ONLY <1>0, i \in DOMAIN b
<1>3. t[m + i] \in X
  BY ONLY <1>0, <1>1, <1>2
<1> QED
  BY ONLY <1>2, <1>3 DEF Some, t

LEMMA SomeOne == ASSUME NEW X, NEW x \in X PROVE Some(<<x>>, X)
BY DEF Some

-----------------------------------------------------------------------------
(* The challenges.  Each covers all that was transferred.  After those of   *)
(* a check a transfer comes before the next challenge that the digest       *)
(* alone would make the same, and after a permutation's point, which is     *)
(* tweaked, one comes before the next point: in the steps to come or in the *)
(* opening that ends the permutation.                                       *)

\* Challenges that a transcript makes the same as one for d.
Seeds(d)     == {x \in Step : x.do = "seed" /\ Tweak(x.use) = Tweak(d)}
Moves        == {x \in Step : x.do = "move"}
Permutations == {c \in CallSet : Permutes(c)}
Opens        == {c \in CallSet : c.do = "open"}
Lasting      == Kind \cup {"r"}

Opened(q)    == Preceded(q.calls, Permutations, Opens)
Recent(q, d) == \E k \in DOMAIN q.seeds : q.seeds[k].use = d /\ q.seeds[k].moved = Moved(q)
Parted(q, d) ==
  /\ Preceded(q.todo, Seeds(d), Moves)
  /\ Some(q.todo, Moves) \/ (d = "r" /\ Opened(q))

Whole(q) ==
  /\ Len(q.log) = Moved(q)
  /\ \A k \in DOMAIN q.seeds : Len(q.seeds[k].log) = q.seeds[k].moved /\ q.seeds[k].moved <= Moved(q)

\* Only a coefficient vector shares its input, and not with a point.
Once(x) ==
  \A k \in DOMAIN x : \A j \in 1 .. k - 1 :
    Input(x[j]) = Input(x[k]) => x[j].use = "coeff" /\ x[k].use # "r"

Binding(q) ==
  /\ Whole(q) /\ Once(q.seeds)
  /\ \A d \in Lasting : Recent(q, d) => Parted(q, d)
  /\ Some(q.todo, Seeds("r")) => Opened(q)

LEMMA MovedSum ==
  ASSUME NEW q, NEW a, NEW b, a = Len(q.wire[ALICE]), b = Len(q.wire[BOB])
  PROVE  Moved(q) = a + b
BY DEF Moved

LEMMA MovedIs ==
  ASSUME NEW q, Types(q), NEW s, s = Succ(q)
  PROVE  /\ Moved(q) \in Nat /\ Moved(s) = IF Does(q, "move") THEN Moved(q) + 1 ELSE Moved(q)
         /\ Len(s.log) = IF Does(q, "move") THEN Len(q.log) + 1 ELSE Len(q.log)
         /\ Len(q.log) \in Nat
<1>1. s.wire = WireAfter(q) /\ s.log = LogAfter(q)
  BY SuccIs
<1>2. q.wire \in [Party -> Seq(Msg)] /\ q.log \in Seq(Entry)
  BY DEF Types
<1>3. ALICE \in Party /\ BOB \in Party /\ ALICE # BOB
  BY DEF Party, ALICE, BOB
<1>4. q.wire[ALICE] \in Seq(Msg) /\ q.wire[BOB] \in Seq(Msg)
  BY ONLY <1>2, <1>3
<1>5. Len(q.wire[ALICE]) \in Nat /\ Len(q.wire[BOB]) \in Nat /\ Len(q.log) \in Nat
  BY ONLY <1>2, <1>4, LenProperties
<1> DEFINE a == Len(q.wire[ALICE])  b == Len(q.wire[BOB])
<1>u. Moved(q) = a + b /\ a \in Nat /\ b \in Nat
  <2>1. a \in Nat /\ b \in Nat
    BY ONLY <1>5
  <2> QED
    BY ONLY <2>1, MovedSum
<1> HIDE DEF a, b
<1>m. Moved(q) \in Nat
  BY ONLY <1>u
<1>6. CASE Does(q, "move")
  <2> DEFINE o == Head(q.todo).from  m == Mail(q)
  <2>1. m \in Msg /\ o \in Party /\ Stamp(q) \in Entry
    BY <1>6, MailTyped
  <2>2. s.wire = [q.wire EXCEPT ![o] = Append(q.wire[o], m)] /\ s.log = Append(q.log, Stamp(q))
    BY ONLY <1>1, <1>6 DEF WireAfter, LogAfter
  <2> HIDE DEF o, m
  <2>3. Len(s.log) = Len(q.log) + 1
    BY ONLY <1>2, <2>1, <2>2, AppendProperties
  <2>4. o = ALICE \/ o = BOB
    BY ONLY <2>1 DEF Party
  <2>5. CASE o = ALICE
    <3>1. s.wire[ALICE] = Append(q.wire[ALICE], m) /\ s.wire[BOB] = q.wire[BOB]
      BY ONLY <1>2, <1>3, <2>2, <2>5
    <3>2. Len(s.wire[ALICE]) = Len(q.wire[ALICE]) + 1
      BY ONLY <1>4, <2>1, <3>1, AppendProperties
    <3>3. Moved(s) = Moved(q) + 1
      <4>1. Len(s.wire[ALICE]) = a + 1 /\ Len(s.wire[BOB]) = b
        BY ONLY <3>1, <3>2 DEF a, b
      <4>2. Moved(s) = (a + 1) + b
        BY ONLY <4>1, MovedSum
      <4> QED
        BY ONLY <1>u, <4>2
    <3> QED
      BY ONLY <1>5, <1>6, <1>m, <2>3, <3>3
  <2>6. CASE o = BOB
    <3>1. s.wire[BOB] = Append(q.wire[BOB], m) /\ s.wire[ALICE] = q.wire[ALICE]
      BY ONLY <1>2, <1>3, <2>2, <2>6
    <3>2. Len(s.wire[BOB]) = Len(q.wire[BOB]) + 1
      BY ONLY <1>4, <2>1, <3>1, AppendProperties
    <3>3. Moved(s) = Moved(q) + 1
      <4>1. Len(s.wire[ALICE]) = a /\ Len(s.wire[BOB]) = b + 1
        BY ONLY <3>1, <3>2 DEF a, b
      <4>2. Moved(s) = a + (b + 1)
        BY ONLY <4>1, MovedSum
      <4> QED
        BY ONLY <1>u, <4>2
    <3> QED
      BY ONLY <1>5, <1>6, <1>m, <2>3, <3>3
  <2> QED
    BY <2>4, <2>5, <2>6
<1>7. CASE ~Does(q, "move")
  <2>1. s.wire = q.wire /\ s.log = q.log
    BY ONLY <1>1, <1>7 DEF WireAfter, LogAfter
  <2>2. Moved(s) = Moved(q)
    BY ONLY <2>1 DEF Moved
  <2> QED
    BY ONLY <1>5, <1>7, <1>m, <2>1, <2>2
<1> QED
  BY <1>6, <1>7

LEMMA AppendIs ==
  ASSUME NEW S, NEW s \in Seq(S), NEW x, NEW k \in DOMAIN Append(s, x)
  PROVE  /\ (Append(s, x)[k] = x /\ k = Len(s) + 1) \/ (k \in DOMAIN s /\ Append(s, x)[k] = s[k])
         /\ DOMAIN s = 1 .. Len(s) /\ Len(s) \in Nat
OBVIOUS

LEMMA WholeKept ==
  ASSUME NEW q, Types(q), Whole(q), NEW s, s = Succ(q)
  PROVE  Whole(s)
<1>1. /\ Moved(q) \in Nat /\ Moved(s) = IF Does(q, "move") THEN Moved(q) + 1 ELSE Moved(q)
      /\ Len(s.log) = IF Does(q, "move") THEN Len(q.log) + 1 ELSE Len(q.log)
  BY MovedIs
<1>2. Len(q.log) = Moved(q)
      /\ \A k \in DOMAIN q.seeds : Len(q.seeds[k].log) = q.seeds[k].moved /\ q.seeds[k].moved <= Moved(q)
  BY DEF Whole
<1>3. q.seeds \in Seq(SeedSet) /\ s.seeds = SeedsAfter(q)
  BY SuccIs DEF Types
<1>4. \A k \in DOMAIN q.seeds : q.seeds[k].moved \in Nat
  <2>1. \A k \in DOMAIN q.seeds : q.seeds[k] \in SeedSet
    BY ONLY <1>3
  <2> QED
    BY ONLY <2>1 DEF SeedSet
<1>5. Len(s.log) = Moved(s) /\ Moved(q) <= Moved(s) /\ Moved(s) \in Nat
  BY ONLY <1>1, <1>2
<1>6. ASSUME NEW k \in DOMAIN s.seeds PROVE Len(s.seeds[k].log) = s.seeds[k].moved /\ s.seeds[k].moved <= Moved(s)
  <2>1. CASE Does(q, "seed")
    <3> DEFINE x == [use |-> Head(q.todo).use, tweak |-> Tweak(Head(q.todo).use), log |-> q.log, moved |-> Moved(q)]
    <3>1. s.seeds = Append(q.seeds, x) /\ x.log = q.log /\ x.moved = Moved(q)
      BY ONLY <1>3, <2>1 DEF SeedsAfter
    <3> HIDE DEF x
    <3>2. s.seeds[k] = x \/ (k \in DOMAIN q.seeds /\ s.seeds[k] = q.seeds[k])
      BY ONLY <1>3, <3>1, k \in DOMAIN s.seeds, AppendIs
    <3> QED
      BY ONLY <1>1, <1>2, <1>4, <1>5, <3>1, <3>2
  <2>2. CASE ~Does(q, "seed")
    <3>1. s.seeds = q.seeds
      BY ONLY <1>3, <2>2 DEF SeedsAfter
    <3> QED
      BY ONLY <1>1, <1>2, <1>4, <1>5, <3>1, k \in DOMAIN s.seeds
  <2> QED
    BY <2>1, <2>2
<1> QED
  BY ONLY <1>5, <1>6 DEF Whole

\* A permutation opens after its products and checks what they leave.
LEMMA PermuteForm ==
  ASSUME NEW n \in Nat
  PROVE  \E a \in Seq({c \in CallSet : c.do \in {"product", "f2kmul"}}) :
           Permute(n) = a \o <<Call("open", 1), Call("products", 1)>>
<1> DEFINE S == {c \in CallSet : c.do \in {"product", "f2kmul"}}
<1>1. Call("product", 1) \in S /\ Call("f2kmul", 1) \in S
  <2>1. Call("product", 1) \in CallSet /\ Call("f2kmul", 1) \in CallSet
    BY CallIs DEF CallNames, UserCalls
  <2> QED
    BY <2>1 DEF Call
<1> HIDE DEF S
<1>2. (n - 1) \div 4 \in Int /\ (n - 1) % 4 \in Int
  OBVIOUS
<1>3. Copies((n - 1) \div 4, Call("product", 1)) \in Seq(S)
      /\ Copies((n - 1) % 4, Call("f2kmul", 1)) \in Seq(S)
  BY ONLY <1>1, <1>2, CopiesTyped
<1>4. Eval(n) \in Seq(S)
  BY ONLY <1>3, CatTyped DEF Eval
<1>5. Eval(n) \o Eval(n) \in Seq(S)
  BY ONLY <1>4, CatTyped
<1>6. Permute(n) = (Eval(n) \o Eval(n)) \o <<Call("open", 1), Call("products", 1)>>
  BY DEF Permute
<1> QED
  BY ONLY <1>5, <1>6 DEF S

LEMMA InnerIs ==
  ASSUME NEW e, NEW c, ~Permutes(c)
  PROVE  Inner(e, c) = << >> \/ (c.do = "and" /\ Inner(e, c) = <<Call("and", c.n - Take(e, c.n))>>)
BY DEF Inner, Permutes

LEMMA NoneIn ==
  ASSUME NEW S, NEW a \in Seq(S), NEW X, X \cap S = {}
  PROVE  ~Some(a, X)
BY DEF Some

\* What a call leaves of the calls to come.
LEMMA CallsForm ==
  ASSUME NEW q, Types(q), Fits(q), CanStep(q), Idle(q), NEW c, c = Head(q.calls)
  PROVE  /\ CallsAfter(q) = Inner(Buf(q), c) \o Tail(q.calls) /\ Tail(q.calls) \in Seq(CallSet)
         /\ q.calls \in Seq(CallSet) /\ q.calls # << >> /\ c \in CallSet /\ c.n \in Nat
         /\ Permutes(c) => Inner(Buf(q), c) = Permute(c.n) /\ Permute(c.n) \in Seq(CallSet)
         /\ ~Permutes(c) => Inner(Buf(q), c) \in Seq({x \in CallSet : x.do = "and" /\ c.do = "and"})
<1>1. q.calls \in Seq(CallSet) /\ q.calls # << >> /\ c \in CallSet
  BY CallShaped DEF Types
<1>2. Tail(q.calls) \in Seq(CallSet) /\ CallsAfter(q) = Inner(Buf(q), c) \o Tail(q.calls)
  BY <1>1, ListIs DEF CallsAfter
<1>3. c.n \in Nat
  BY ONLY <1>1 DEF CallSet
<1>4. Permutes(c) => Inner(Buf(q), c) = Permute(c.n) /\ Permute(c.n) \in Seq(CallSet)
  BY ONLY <1>3, PermuteIs, PermuteTyped
<1>5. ASSUME ~Permutes(c) PROVE Inner(Buf(q), c) \in Seq({x \in CallSet : x.do = "and" /\ c.do = "and"})
  <2> DEFINE S == {x \in CallSet : x.do = "and" /\ c.do = "and"}  r == c.n - Take(Buf(q), c.n)
  <2>1. CASE Inner(Buf(q), c) = << >>
    BY ONLY <2>1, EmptySeq
  <2>2. CASE c.do = "and" /\ Inner(Buf(q), c) = <<Call("and", r)>>
    <3>1. r \in Nat
      <4>1. Buf(q).pend \in [Kind -> Seq(Nat)] /\ Len(Buf(q).pend["and"]) <= CHECK_SZ
        BY CallShaped
      <4>2. Take(Buf(q), c.n) \in 0 .. c.n
        BY ONLY <1>3, <4>1, TakeIs
      <4> QED
        BY ONLY <1>3, <4>2
    <3> HIDE DEF r
    <3>2. Call("and", r) \in S
      <4>1. "and" \in CallNames
        BY DEF CallNames, UserCalls
      <4>2. Call("and", r) \in CallSet
        BY ONLY <3>1, <4>1, CallIs
      <4> QED
        BY ONLY <2>2, <4>2 DEF Call
    <3> HIDE DEF S
    <3>3. <<Call("and", r)>> \in Seq(S)
      BY ONLY <3>2, OneTyped
    <3> QED
      BY ONLY <2>2, <3>3 DEF S
  <2> QED
    BY ONLY <1>5, <2>1, <2>2, InnerIs
<1> QED
  BY ONLY <1>1, <1>2, <1>3, <1>4, <1>5

LEMMA OpenedKept ==
  ASSUME NEW q, Types(q), Fits(q), CanStep(q), NEW s, s = Succ(q)
  PROVE  /\ Idle(q) /\ Permutes(Head(q.calls)) => Opened(s)
         /\ Opened(q) /\ Idle(q) => ~Permutes(Head(q.calls)) /\ (Head(q.calls).do # "open" => Opened(s))
         /\ Opened(q) /\ ~Idle(q) => Opened(s)
<1> DEFINE c == Head(q.calls)
<1>1. s.calls = CallsAfter(q)
  BY SuccIs
<1>2. Opened(q) /\ ~Idle(q) => Opened(s)
  BY ONLY <1>1 DEF CallsAfter, Opened
<1>3. ASSUME Idle(q) PROVE /\ CallsAfter(q) = Inner(Buf(q), c) \o Tail(q.calls) /\ Tail(q.calls) \in Seq(CallSet)
                           /\ q.calls \in Seq(CallSet) /\ q.calls # << >> /\ c \in CallSet /\ c.n \in Nat
                           /\ Permutes(c) => Inner(Buf(q), c) = Permute(c.n) /\ Permute(c.n) \in Seq(CallSet)
                           /\ ~Permutes(c) => Inner(Buf(q), c) \in Seq({x \in CallSet : x.do = "and" /\ c.do = "and"})
  BY <1>3, CallsForm
<1> HIDE DEF c
<1>4. ASSUME Idle(q), Permutes(c) PROVE Opened(s)
  <2> DEFINE b == <<Call("open", 1), Call("products", 1)>>  S == {x \in CallSet : x.do \in {"product", "f2kmul"}}
  <2>1. PICK a \in Seq(S) : Permute(c.n) = a \o b
    BY ONLY <1>3, <1>4, PermuteForm
  <2>2. Call("open", 1) \in Opens /\ Call("products", 1) \in CallSet /\ Call("open", 1) \in CallSet
    <3>1. Call("open", 1) \in CallSet /\ Call("products", 1) \in CallSet
      BY CallIs DEF CallNames
    <3> QED
      BY ONLY <3>1 DEF Opens, Call
  <2>3. ~Some(a, Permutations)
    <3>1. Permutations \cap S = {}
      BY DEF Permutations, Permutes
    <3> HIDE DEF S
    <3> QED
      BY ONLY <3>1, a \in Seq(S), NoneIn
  <2>4. ~Some(b, Permutations) /\ Some(b, Opens)
    BY ONLY <2>2 DEF Some, Permutations, Permutes, Call
  <2>5. S \subseteq CallSet
    OBVIOUS
  <2> HIDE DEF S
  <2>6. a \in Seq(CallSet) /\ b \in Seq(CallSet)
    BY ONLY <2>2, <2>5, a \in Seq(S), WiderSeq, TwoTyped
  <2> HIDE DEF b
  <2>7. Some(Permute(c.n), Opens)
    BY ONLY <2>1, <2>4, <2>6, SomeLater
  <2>8. Preceded(a, Permutations, Opens) /\ Preceded(b, Permutations, Opens)
    BY ONLY <2>3, <2>4, PrecededNone
  <2>9. Preceded(Permute(c.n), Permutations, Opens)
    BY ONLY <2>1, <2>6, <2>8, PrecededCat
  <2>10. Preceded(Permute(c.n) \o Tail(q.calls), Permutations, Opens)
    BY ONLY <1>3, <1>4, <2>7, <2>9, PrecededCat
  <2> QED
    BY ONLY <1>1, <1>3, <1>4, <2>10 DEF Opened
<1>5. ASSUME Opened(q), Idle(q) PROVE ~Permutes(c) /\ (c.do # "open" => Opened(s))
  <2>1. c \notin Permutations /\ (c \notin Opens => Preceded(Tail(q.calls), Permutations, Opens))
    BY ONLY <1>3, <1>5, PrecededTail DEF Opened, c
  <2>2. ~Permutes(c)
    BY ONLY <1>3, <1>5, <2>1 DEF Permutations
  <2>3. ASSUME c.do # "open" PROVE Opened(s)
    <3> DEFINE S == {x \in CallSet : x.do = "and" /\ c.do = "and"}  a == Inner(Buf(q), c)
    <3>1. Preceded(Tail(q.calls), Permutations, Opens)
      BY ONLY <2>1, <2>3 DEF Opens
    <3>2. a \in Seq(S)
      BY ONLY <1>3, <1>5, <2>2
    <3>3. Permutations \cap S = {} /\ S \subseteq CallSet
      BY DEF Permutations, Permutes
    <3> HIDE DEF S, a
    <3>4. a \in Seq(CallSet) /\ ~Some(a, Permutations)
      BY ONLY <3>2, <3>3, WiderSeq, NoneIn
    <3>5. Preceded(a, Permutations, Opens)
      BY ONLY <3>4, PrecededNone
    <3>6. Preceded(a \o Tail(q.calls), Permutations, Opens)
      BY ONLY <1>3, <1>5, <3>1, <3>4, <3>5, PrecededCat
    <3> QED
      BY ONLY <1>1, <1>3, <1>5, <3>6 DEF Opened, a
  <2> QED
    BY <2>2, <2>3
<1> QED
  BY ONLY <1>2, <1>4, <1>5 DEF c

LEMMA SeedsApart ==
  ASSUME NEW d
  PROVE  Seeds(d) \cap Comm = {}
BY DEF Seeds, Comm

LEMMA MovesKept ==
  ASSUME NEW q, Types(q), ~Idle(q), Some(q.todo, Moves), ~Does(q, "move")
  PROVE  Some(TodoAfter(q), Moves)
<1>0. q.todo \in Seq(Step) /\ q.todo # << >> /\ Tail(q.todo) \in Seq(Step)
  BY AtHand DEF Types, Idle
<1>1. Head(q.todo) \notin Moves
  BY ONLY <1>0, ~Does(q, "move") DEF Does, Moves
<1>2. Some(Tail(q.todo), Moves)
  BY ONLY <1>0, <1>1, Some(q.todo, Moves), SomeTail
<1>3. ASSUME NEW a \in Seq(Comm), NEW b \in Seq(Step), Some(b, Moves) PROVE Some(a \o b, Moves)
  <2>1. a \in Seq(Step)
    BY ONLY a \in Seq(Comm), CommIsStep, WiderSeq
  <2> QED
    BY ONLY <1>3, <2>1, b \in Seq(Step), SomeLater
<1> QED
  BY ONLY <1>0, <1>2, <1>3, Some(q.todo, Moves), Types(q), ~Idle(q), TodoForms

\* After the challenge of a check comes its transfer, after a permutation's
\* point no second one.
LEMMA AfterSeed ==
  ASSUME NEW q, Types(q), Shaped(q.todo), Does(q, "seed"), NEW d \in Lasting, d = Head(q.todo).use
  PROVE  /\ TodoAfter(q) = Tail(q.todo) /\ Preceded(Tail(q.todo), Seeds(d), Moves) /\ Head(q.todo) \in Seeds(d)
         /\ d \in Kind => Some(Tail(q.todo), Moves)
<1> DEFINE s == q.todo  t == Tail(s)  n == Len(s)
<1>0. s \in Seq(Step) /\ s # << >> /\ Head(s).do = "seed"
  BY DEF Types, Does
<1>1. /\ n \in Nat /\ n >= 1 /\ DOMAIN s = 1 .. n /\ Head(s) = s[1] /\ DOMAIN t = 1 .. n - 1 /\ t \in Seq(Step)
      /\ s[1] \in Step /\ \A i \in 1 .. n - 1 : t[i] = s[i + 1]
  BY <1>0, ListIs
<1>2. TodoAfter(q) = t
  <2>1. ~Idle(q) /\ ~Waits(q) /\ ~Closes(q) /\ ~Refills(q) /\ ~TakesCots(q)
    BY <1>0 DEF Idle, Waits, Closes, Refills, TakesCots, Does
  <2> QED
    BY ONLY <2>1 DEF TodoAfter
<1>3. Covered(s) /\ NamesLast(s)
  BY DEF Shaped
<1>h. s[1].do = "seed" /\ s[1].use = d /\ 1 \in DOMAIN s
  BY <1>0, <1>1
<1> HIDE DEF s, t, n
<1>4. ASSUME d \in Kind PROVE Some(t, Moves) /\ Preceded(t, Seeds(d), Moves)
  <2>1. MoveAfter(s, 1)
    BY ONLY <1>3, <1>4, <1>h DEF Covered
  <2>2. PICK j \in DOMAIN s : j > 1 /\ s[j].do = "move" /\ \A l \in 1 + 1 .. j - 1 : Calm(s[l])
    BY <2>1 DEF MoveAfter
  <2>3. j - 1 \in 1 .. n - 1 /\ (j - 1) + 1 = j /\ j \in 1 .. n
    BY ONLY <1>1, <2>2, j \in DOMAIN s
  <2>4. t[j - 1] \in Moves
    <3>1. t[j - 1] = s[j] /\ t[j - 1] \in Step
      BY ONLY <1>1, <2>3
    <3> QED
      BY ONLY <2>2, <3>1 DEF Moves
  <2>5. Some(t, Moves)
    BY ONLY <1>1, <2>3, <2>4 DEF Some
  <2>6. ASSUME NEW i \in DOMAIN t, t[i] \in Seeds(d) PROVE \E k \in 1 .. i - 1 : t[k] \in Moves
    <3>1. i \in 1 .. n - 1 /\ t[i] = s[i + 1] /\ s[i + 1].do = "seed"
      BY ONLY <1>1, <2>6 DEF Seeds
    <3>2. ~Calm(s[i + 1]) /\ s[i + 1].do # "move"
      BY ONLY <3>1 DEF Calm
    <3>3. ~(i + 1 \in 2 .. j - 1) /\ i + 1 # j
      BY ONLY <2>2, <3>2
    <3>4. j - 1 \in 1 .. i - 1
      BY ONLY <2>3, <3>1, <3>3
    <3> QED
      BY ONLY <2>4, <3>4
  <2> QED
    BY ONLY <2>5, <2>6 DEF Preceded
<1>5. ASSUME d \notin Kind PROVE Preceded(t, Seeds(d), Moves)
  <2>1. d = "r"
    BY ONLY d \in Lasting, <1>5 DEF Lasting
  <2>2. ASSUME NEW i \in DOMAIN t, t[i] \in Seeds(d) PROVE FALSE
    <3>1. i \in 1 .. n - 1 /\ i + 1 \in DOMAIN s /\ s[i + 1].do = "seed" /\ Tweak(s[i + 1].use) = Tweak("r")
      BY ONLY <1>1, <2>1, <2>2 DEF Seeds
    <3>2. s[i + 1].use = "r"
      BY ONLY <3>1 DEF Tweak
    <3>3. 1 = n /\ i + 1 = n
      BY ONLY <1>1, <1>3, <1>h, <2>1, <3>1, <3>2 DEF NamesLast, n
    <3> QED
      BY ONLY <3>1, <3>3
  <2> QED
    BY ONLY <2>2 DEF Preceded
<1>6. s[1] \in Seeds(d)
  BY ONLY <1>1, <1>h DEF Seeds
<1> QED
  BY ONLY <1>1, <1>2, <1>4, <1>5, <1>6 DEF s, t

LEMMA RecentKept ==
  ASSUME NEW q, Types(q), Whole(q), NEW s, s = Succ(q), NEW d, Recent(s, d)
  PROVE  /\ ~Does(q, "move")
         /\ Recent(q, d) \/ (Does(q, "seed") /\ Head(q.todo).use = d)
<1>1. Moved(q) \in Nat /\ Moved(s) = IF Does(q, "move") THEN Moved(q) + 1 ELSE Moved(q)
  BY MovedIs
<1>2. \A k \in DOMAIN q.seeds : q.seeds[k].moved <= Moved(q)
  BY DEF Whole
<1>3. q.seeds \in Seq(SeedSet) /\ s.seeds = SeedsAfter(q)
  BY SuccIs DEF Types
<1>4. \A k \in DOMAIN q.seeds : q.seeds[k].moved \in Nat
  <2>1. \A k \in DOMAIN q.seeds : q.seeds[k] \in SeedSet
    BY ONLY <1>3
  <2> QED
    BY ONLY <2>1 DEF SeedSet
<1>5. PICK k \in DOMAIN s.seeds : s.seeds[k].use = d /\ s.seeds[k].moved = Moved(s)
  BY DEF Recent
<1>6. CASE Does(q, "seed")
  <2> DEFINE x == [use |-> Head(q.todo).use, tweak |-> Tweak(Head(q.todo).use), log |-> q.log, moved |-> Moved(q)]
  <2>1. s.seeds = Append(q.seeds, x) /\ x.use = Head(q.todo).use
    BY ONLY <1>3, <1>6 DEF SeedsAfter
  <2> HIDE DEF x
  <2>2. s.seeds[k] = x \/ (k \in DOMAIN q.seeds /\ s.seeds[k] = q.seeds[k])
    BY ONLY <1>3, <2>1, k \in DOMAIN s.seeds, AppendIs
  <2>3. ~Does(q, "move")
    BY ONLY <1>6 DEF Does
  <2> QED
    BY ONLY <1>1, <1>5, <1>6, <2>1, <2>2, <2>3 DEF Recent
<1>7. CASE ~Does(q, "seed")
  <2>1. s.seeds = q.seeds
    BY ONLY <1>3, <1>7 DEF SeedsAfter
  <2>2. k \in DOMAIN q.seeds /\ q.seeds[k].use = d /\ q.seeds[k].moved = Moved(s) /\ q.seeds[k].moved <= Moved(q)
    BY ONLY <1>2, <1>5, <2>1, k \in DOMAIN s.seeds
  <2>3. ~Does(q, "move")
    BY ONLY <1>1, <2>2
  <2> QED
    BY ONLY <1>1, <2>2, <2>3 DEF Recent
<1> QED
  BY <1>6, <1>7

LEMMA OnceAppend ==
  ASSUME NEW S, NEW a \in Seq(S), Once(a), NEW x,
         \A j \in DOMAIN a : Input(a[j]) = Input(x) => a[j].use = "coeff" /\ x.use # "r"
  PROVE  Once(Append(a, x))
<1> DEFINE t == Append(a, x)  n == Len(a)
<1>1. /\ n \in Nat /\ DOMAIN a = 1 .. n /\ DOMAIN t = 1 .. n + 1 /\ t[n + 1] = x
      /\ \A i \in 1 .. n : t[i] = a[i]
  OBVIOUS
<1> HIDE DEF t, n
<1>2. ASSUME NEW k \in DOMAIN t, NEW j \in 1 .. k - 1, Input(t[j]) = Input(t[k])
      PROVE  t[j].use = "coeff" /\ t[k].use # "r"
  <2>1. k \in 1 .. n + 1 /\ j \in 1 .. n /\ j \in DOMAIN a /\ t[j] = a[j]
    BY ONLY <1>1, k \in DOMAIN t, j \in 1 .. k - 1
  <2>2. CASE k = n + 1
    <3>1. t[k] = x
      BY ONLY <1>1, <2>2
    <3> QED
      BY ONLY <1>2, <2>1, <3>1, \A i \in DOMAIN a : Input(a[i]) = Input(x) => a[i].use = "coeff" /\ x.use # "r"
  <2>3. CASE k # n + 1
    <3>1. k \in 1 .. n
      BY ONLY <1>1, <2>1, <2>3
    <3>2. k \in DOMAIN a /\ t[k] = a[k]
      BY ONLY <1>1, <3>1
    <3> QED
      BY ONLY <1>2, <2>1, <3>2, Once(a), j \in 1 .. k - 1 DEF Once
  <2> QED
    BY ONLY <2>2, <2>3
<1> QED
  BY ONLY <1>2 DEF Once, t

\* What an earlier challenge of the same input was for.
LEMMA SameInput ==
  ASSUME NEW S, NEW q, Whole(q), NEW k \in DOMAIN q.seeds, q.seeds[k] \in SeedSet, NEW u,
         Input(q.seeds[k]) = <<q.log, Tweak(u)>>
  PROVE  /\ q.seeds[k].use \in Use /\ q.seeds[k].moved = Moved(q)
         /\ Tweak(q.seeds[k].use) = Tweak(u)
<1> DEFINE y == q.seeds[k]
<1>1. y.tweak = Tweak(y.use) /\ y.use \in Use
  BY DEF SeedSet
<1>2. y.log = q.log /\ y.tweak = Tweak(u)
  BY DEF Input
<1>3. Len(y.log) = y.moved /\ Len(q.log) = Moved(q)
  BY DEF Whole
<1> HIDE DEF y
<1>4. y.use \in Use /\ y.moved = Moved(q) /\ Tweak(y.use) = Tweak(u)
  BY ONLY <1>1, <1>2, <1>3
<1> QED
  BY ONLY <1>4 DEF y

LEMMA BindingKept ==
  ASSUME NEW q, Sound(q), Binding(q), CanStep(q), NEW s, s = Succ(q)
  PROVE  Binding(s)
<1> DEFINE c == Head(q.calls)  e == Buf(q)
<1>0. Types(q) /\ Fits(q) /\ Shaped(q.todo) /\ q.todo \in Seq(Step) /\ q.seeds \in Seq(SeedSet)
  BY DEF Sound, Types
<1>b. /\ Whole(q) /\ Once(q.seeds) /\ (\A d \in Lasting : Recent(q, d) => Parted(q, d))
      /\ Some(q.todo, Seeds("r")) => Opened(q)
  BY DEF Binding
<1>s. s.todo = TodoAfter(q) /\ s.seeds = SeedsAfter(q)
  BY SuccIs
<1>o. /\ Idle(q) /\ Permutes(c) => Opened(s)
      /\ Opened(q) /\ Idle(q) => ~Permutes(c) /\ (c.do # "open" => Opened(s))
      /\ Opened(q) /\ ~Idle(q) => Opened(s)
  BY <1>0, OpenedKept
<1>1. Whole(s)
  BY <1>0, <1>b, WholeKept
<1>c. Idle(q) => /\ e.pend \in [Kind -> Seq(Nat)] /\ Len(e.pend["and"]) <= CHECK_SZ
                 /\ s.todo = Steps(e, c) /\ c \in CallSet
  BY <1>0, <1>s, CallShaped
<1> HIDE DEF c, e
<1>i. ASSUME Idle(q), Some(s.todo, Seeds("r")) PROVE Permutes(c)
  <2>1. PICK i \in DOMAIN Steps(e, c) : Steps(e, c)[i] \in Seeds("r")
    BY ONLY <1>c, <1>i DEF Some
  <2>2. Steps(e, c)[i].do = "seed" /\ Steps(e, c)[i].use = "r"
    BY ONLY <2>1 DEF Seeds, Tweak
  <2> QED
    BY ONLY <1>c, <1>i, <2>2, i \in DOMAIN Steps(e, c), StepsShaped
<1>2. ASSUME Some(s.todo, Seeds("r")) PROVE Opened(s)
  <2>1. CASE Idle(q)
    BY ONLY <1>i, <1>o, <1>2, <2>1
  <2>2. CASE ~Idle(q)
    <3>1. Some(q.todo, Seeds("r"))
      BY ONLY <1>0, <1>s, <1>2, <2>2, SeedsApart, SomeAfter
    <3> QED
      BY ONLY <1>b, <1>o, <2>2, <3>1
  <2> QED
    BY <2>1, <2>2
<1>3. Once(s.seeds)
  <2>1. CASE Does(q, "seed")
    <3> DEFINE u == Head(q.todo).use  x == [use |-> u, tweak |-> Tweak(u), log |-> q.log, moved |-> Moved(q)]
    <3>1. s.seeds = Append(q.seeds, x)
      BY ONLY <1>s, <2>1 DEF SeedsAfter
    <3>2. Input(x) = <<q.log, Tweak(u)>> /\ x.use = u
      BY DEF Input
    <3>3. q.todo # << >> /\ Head(q.todo) \in Step /\ Head(q.todo).do = "seed"
      <4>1. q.todo # << >> /\ Head(q.todo).do = "seed"
        BY ONLY <2>1 DEF Does
      <4> QED
        BY ONLY <1>0, <4>1, ListIs
    <3>4. \A d : Tweak(d) = Tweak(u) => Head(q.todo) \in Seeds(d)
      BY ONLY <3>3 DEF Seeds
    <3> HIDE DEF x, u
    <3>5. ASSUME NEW k \in DOMAIN q.seeds, Input(q.seeds[k]) = Input(x)
          PROVE  q.seeds[k].use = "coeff" /\ x.use # "r"
      <4> DEFINE d == q.seeds[k].use
      <4>1. q.seeds[k] \in SeedSet
        BY ONLY <1>0, k \in DOMAIN q.seeds
      <4>2. d \in Use /\ q.seeds[k].moved = Moved(q) /\ Tweak(d) = Tweak(u)
        BY ONLY <1>b, <3>2, <3>5, <4>1, k \in DOMAIN q.seeds, SameInput
      <4>3. Recent(q, d)
        BY ONLY <4>2, k \in DOMAIN q.seeds DEF Recent
      <4> HIDE DEF d
      <4>4. ASSUME d \in Lasting PROVE FALSE
        <5>1. Preceded(q.todo, Seeds(d), Moves)
          BY ONLY <1>b, <4>3, <4>4 DEF Parted
        <5>2. Head(q.todo) \in Seeds(d)
          BY ONLY <3>4, <4>2
        <5> QED
          BY ONLY <1>0, <3>3, <5>1, <5>2, PrecededTail
      <4>5. d = "coeff"
        BY ONLY <4>2, <4>4 DEF Use, Lasting
      <4>6. u # "r"
        BY ONLY <4>2, <4>5 DEF Tweak
      <4> QED
        BY ONLY <3>2, <4>5, <4>6 DEF d
    <3> QED
      BY ONLY <1>0, <1>b, <3>1, <3>5, OnceAppend
  <2>2. CASE ~Does(q, "seed")
    BY ONLY <1>b, <1>s, <2>2 DEF SeedsAfter
  <2> QED
    BY <2>1, <2>2
<1>4. ASSUME NEW d \in Lasting, Recent(s, d) PROVE Parted(s, d)
  <2>1. ~Does(q, "move") /\ (Recent(q, d) \/ (Does(q, "seed") /\ Head(q.todo).use = d))
    BY ONLY <1>0, <1>b, <1>4, s = Succ(q), RecentKept
  <2>2. CASE Does(q, "seed") /\ Head(q.todo).use = d
    <3>1. /\ s.todo = Tail(q.todo) /\ Preceded(Tail(q.todo), Seeds(d), Moves) /\ Head(q.todo) \in Seeds(d)
          /\ d \in Kind => Some(Tail(q.todo), Moves)
      BY ONLY <1>0, <1>s, <2>2, d \in Lasting, AfterSeed
    <3>2. d = "r" => Opened(s)
      <4>1. ~Idle(q) /\ q.todo # << >>
        BY ONLY <2>2 DEF Does, Idle
      <4>2. Some(q.todo, Seeds(d))
        BY ONLY <1>0, <3>1, <4>1, SomeTail
      <4> QED
        BY ONLY <1>b, <1>o, <4>1, <4>2
    <3>3. d \in Kind \/ d = "r"
      BY ONLY d \in Lasting DEF Lasting
    <3> QED
      BY ONLY <3>1, <3>2, <3>3 DEF Parted
  <2>3. CASE Recent(q, d) /\ Idle(q)
    <3>1. Parted(q, d) /\ ~Some(q.todo, Moves)
      <4>1. DOMAIN q.todo = {}
        BY ONLY <2>3 DEF Idle
      <4>2. ~Some(q.todo, Moves)
        BY ONLY <4>1 DEF Some
      <4> QED
        BY ONLY <1>b, <2>3, <4>2, d \in Lasting
    <3>2. d = "r" /\ Opened(q)
      BY ONLY <3>1 DEF Parted
    <3>3. ~Permutes(c) /\ (c.do # "open" => Opened(s))
      BY ONLY <1>o, <2>3, <3>2
    <3>4. Preceded(s.todo, Seeds(d), Moves)
      BY ONLY <1>i, <2>3, <3>2, <3>3, PrecededNone
    <3>5. c.do = "open" => Some(s.todo, Moves)
      <4>1. c.do = "open" => s.todo = ToBobNow("macs")
        BY ONLY <1>c, <2>3 DEF Steps
      <4> DEFINE m == Move(ALICE, "macs", 0, TRUE)
      <4>2. m \in Moves
        <5>1. m \in Step
          BY StepsAre, WordsAre
        <5>2. m.do = "move"
          BY DEF Move
        <5> QED
          BY ONLY <5>1, <5>2 DEF Moves
      <4>3. ToBobNow("macs") = <<m>>
        BY DEF ToBobNow
      <4> HIDE DEF m
      <4>4. Some(<<m>>, Moves)
        BY ONLY <4>2, SomeOne
      <4> QED
        BY ONLY <4>1, <4>3, <4>4
    <3> QED
      BY ONLY <3>2, <3>3, <3>4, <3>5 DEF Parted
  <2>4. CASE Recent(q, d) /\ ~Idle(q)
    <3>1. Preceded(q.todo, Seeds(d), Moves) /\ (Some(q.todo, Moves) \/ (d = "r" /\ Opened(q)))
      BY ONLY <1>b, <2>4, d \in Lasting DEF Parted
    <3>2. Head(q.todo) \notin Moves
      BY ONLY <2>1, <2>4 DEF Does, Idle, Moves
    <3>3. Preceded(s.todo, Seeds(d), Moves)
      BY ONLY <1>0, <1>s, <2>4, <3>1, <3>2, SeedsApart, PrecededAfter
    <3>4. Some(q.todo, Moves) => Some(s.todo, Moves)
      BY ONLY <1>0, <1>s, <2>1, <2>4, MovesKept
    <3> QED
      BY ONLY <1>o, <2>4, <3>1, <3>3, <3>4 DEF Parted
  <2> QED
    BY ONLY <2>1, <2>2, <2>3, <2>4
<1> QED
  BY ONLY <1>1, <1>2, <1>3, <1>4 DEF Binding

-----------------------------------------------------------------------------
(* Lists in which something in B comes after what is in A.                 *)

Followed(s, A, B) == \A i \in DOMAIN s : s[i] \in A => \E j \in DOMAIN s : j > i /\ s[j] \in B

LEMMA SomeEarlier ==
  ASSUME NEW S, NEW a \in Seq(S), NEW b \in Seq(S), NEW X, Some(a, X)
  PROVE  Some(a \o b, X)
<1> DEFINE t == a \o b  m == Len(a)  n == Len(b)
<1>0. /\ DOMAIN t = 1 .. m + n /\ m \in Nat /\ n \in Nat /\ DOMAIN a = 1 .. m
      /\ \A i \in 1 .. m : t[i] = a[i]
  BY CatIs
<1> HIDE DEF t, m, n
<1>1. PICK i \in DOMAIN a : a[i] \in X
  BY DEF Some
<1>2. i \in DOMAIN t /\ t[i] = a[i]
  BY ONLY <1>0, i \in DOMAIN a
<1> QED
  BY ONLY <1>1, <1>2 DEF Some, t

LEMMA FollowedNone ==
  ASSUME NEW s, NEW A, NEW B, ~Some(s, A)
  PROVE  Followed(s, A, B)
BY DEF Followed, Some

LEMMA FollowedTail ==
  ASSUME NEW S, NEW s \in Seq(S), s # << >>, NEW A, NEW B, Followed(s, A, B)
  PROVE  Followed(Tail(s), A, B) /\ (Head(s) \in A => Some(Tail(s), B))
<1> DEFINE t == Tail(s)  n == Len(s)
<1>1. /\ n \in Nat /\ n >= 1 /\ DOMAIN s = 1 .. n /\ Head(s) = s[1] /\ DOMAIN t = 1 .. n - 1
      /\ \A i \in 1 .. n - 1 : t[i] = s[i + 1]
  BY ListIs
<1> HIDE DEF t, n
<1>2. ASSUME NEW i \in DOMAIN s, s[i] \in A PROVE \E j \in DOMAIN t : j > i - 1 /\ t[j] \in B
  <2>1. PICK j \in DOMAIN s : j > i /\ s[j] \in B
    BY ONLY <1>2, Followed(s, A, B), i \in DOMAIN s DEF Followed
  <2>2. j - 1 \in 1 .. n - 1 /\ (j - 1) + 1 = j /\ j - 1 > i - 1 /\ j - 1 \in DOMAIN t
    BY ONLY <1>1, <2>1, i \in DOMAIN s, j \in DOMAIN s
  <2>3. t[j - 1] = s[j]
    BY ONLY <1>1, <2>2
  <2> QED
    BY ONLY <2>1, <2>2, <2>3
<1>3. Head(s) \in A => Some(t, B)
  BY ONLY <1>1, <1>2 DEF Some
<1>4. ASSUME NEW i \in DOMAIN t, t[i] \in A PROVE \E j \in DOMAIN t : j > i /\ t[j] \in B
  <2>1. i + 1 \in DOMAIN s /\ s[i + 1] \in A /\ (i + 1) - 1 = i
    BY ONLY <1>1, <1>4, i \in DOMAIN t
  <2> QED
    BY ONLY <1>2, <2>1
<1> QED
  BY ONLY <1>3, <1>4 DEF Followed, t

LEMMA FollowedCat ==
  ASSUME NEW S, NEW a \in Seq(S), NEW b \in Seq(S), NEW A, NEW B, Followed(b, A, B),
         Followed(a, A, B) \/ Some(b, B)
  PROVE  Followed(a \o b, A, B)
<1> DEFINE t == a \o b  m == Len(a)  n == Len(b)
<1>0. /\ DOMAIN t = 1 .. m + n /\ m \in Nat /\ n \in Nat /\ DOMAIN a = 1 .. m /\ DOMAIN b = 1 .. n
      /\ \A i \in 1 .. m : t[i] = a[i]
      /\ \A i \in m + 1 .. m + n : t[i] = b[i - m]
      /\ \A i \in 1 .. n : t[m + i] = b[i]
  BY CatIs
<1> HIDE DEF t, m, n
<1>1. ASSUME NEW i \in DOMAIN t, t[i] \in A PROVE \E j \in DOMAIN t : j > i /\ t[j] \in B
  <2>1. CASE i <= m /\ Followed(a, A, B)
    <3>1. i \in DOMAIN a /\ a[i] \in A
      BY ONLY <1>0, <1>1, <2>1, i \in DOMAIN t
    <3>2. PICK j \in DOMAIN a : j > i /\ a[j] \in B
      BY ONLY <2>1, <3>1 DEF Followed
    <3>3. t[j] = a[j] /\ j \in DOMAIN t
      BY ONLY <1>0, j \in DOMAIN a
    <3> QED
      BY ONLY <3>2, <3>3
  <2>2. CASE i <= m /\ Some(b, B)
    <3>1. PICK j \in DOMAIN b : b[j] \in B
      BY <2>2 DEF Some
    <3>2. m + j \in DOMAIN t /\ m + j > i /\ t[m + j] = b[j]
      BY ONLY <1>0, <2>2, i \in DOMAIN t, j \in DOMAIN b
    <3> QED
      BY ONLY <3>1, <3>2
  <2>3. CASE i > m
    <3>1. i - m \in DOMAIN b /\ b[i - m] \in A
      BY ONLY <1>0, <1>1, <2>3, i \in DOMAIN t
    <3>2. PICK j \in DOMAIN b : j > i - m /\ b[j] \in B
      BY ONLY <3>1, Followed(b, A, B) DEF Followed
    <3>3. m + j \in DOMAIN t /\ m + j > i /\ t[m + j] = b[j]
      BY ONLY <1>0, <3>2, i \in DOMAIN t, j \in DOMAIN b
    <3> QED
      BY ONLY <3>2, <3>3
  <2> QED
    <3>1. i <= m \/ i > m
      BY ONLY <1>0, i \in DOMAIN t
    <3> QED
      BY <2>1, <2>2, <2>3, <3>1
<1> QED
  BY ONLY <1>1 DEF Followed, t

LEMMA FollowedAfter ==
  ASSUME NEW q, Types(q), ~Idle(q), NEW A, NEW B, A \cap Comm = {}, Followed(q.todo, A, B)
  PROVE  Followed(TodoAfter(q), A, B)
<1>0. q.todo \in Seq(Step) /\ q.todo # << >> /\ Tail(q.todo) \in Seq(Step)
  BY AtHand DEF Types, Idle
<1>1. ASSUME NEW a \in Seq(Comm), NEW b \in Seq(Step), Followed(b, A, B) PROVE Followed(a \o b, A, B)
  <2>1. a \in Seq(Step) /\ ~Some(a, A)
    BY ONLY a \in Seq(Comm), A \cap Comm = {}, CommIsStep, WiderSeq, NoneComm
  <2>2. Followed(a, A, B)
    BY ONLY <2>1, FollowedNone
  <2> QED
    BY ONLY <1>1, <2>1, <2>2, b \in Seq(Step), FollowedCat
<1>2. Followed(Tail(q.todo), A, B)
  BY ONLY <1>0, Followed(q.todo, A, B), FollowedTail
<1> QED
  BY ONLY <1>0, <1>1, <1>2, Followed(q.todo, A, B), Types(q), ~Idle(q), TodoForms

-----------------------------------------------------------------------------
(* What the calls' steps contain.                                          *)

Folds(k) == {x \in Step : x.do = "fold" /\ x.kind = k}
AuthRuns == {x \in Step : x.do = "run" /\ x.buf = "auth"}
Closings == {x \in Step : x.do = "finish"}

LEMMA SomeSet ==
  ASSUME NEW k
  PROVE  Folds(k) \cap Comm = {} /\ Gates(k) \cap Comm = {} /\ AuthRuns \cap Comm = {} /\ Closings \cap Comm = {}
BY DEF Folds, Gates, AuthRuns, Closings, Comm

LEMMA CommPieces ==
  /\ \A n \in Nat : Draw(n) \in Comm
  /\ Flush \in Comm /\ Fill \in Comm
  /\ \A w \in Words : ToBob(w) \in Seq(Comm) /\ ToBobNow(w) \in Seq(Comm) /\ ToAlice(w) \in Seq(Comm)
  /\ \A w \in Words : Exchange(w) \in Seq(Comm)
  /\ \A w \in Words, n \in Nat : Bits(w, n) \in Seq(Comm) /\ Masked(n, w) \in Seq(Comm)
<1>1. Flush \in Comm /\ Fill \in Comm /\ \A n \in Nat : Draw(n) \in Comm
  BY StepsAre, StepDoes DEF Comm
<1>2. ASSUME NEW w \in Words, NEW n \in Nat, NEW f \in BOOLEAN
      PROVE  Move(ALICE, w, n, f) \in Comm /\ Move(BOB, w, 0, f) \in Comm
  <2>1. Move(ALICE, w, n, f) \in Step /\ Move(BOB, w, 0, f) \in Step
    BY StepsAre
  <2>2. Move(ALICE, w, n, f).do = "move" /\ Move(BOB, w, 0, f).do = "move"
    BY DEF Move
  <2> QED
    BY ONLY <2>1, <2>2 DEF Comm
<1>3. ASSUME NEW w \in Words PROVE ToBob(w) \in Seq(Comm) /\ ToBobNow(w) \in Seq(Comm) /\ ToAlice(w) \in Seq(Comm)
  BY <1>2, OneTyped DEF ToBob, ToBobNow, ToAlice
<1>4. ASSUME NEW w \in Words PROVE Exchange(w) \in Seq(Comm)
  <2>1. <<Flush>> \in Seq(Comm)
    BY <1>1, OneTyped
  <2> QED
    BY ONLY <1>3, <2>1, w \in Words, Cat3Typed DEF Exchange
<1>5. ASSUME NEW w \in Words, NEW n \in Nat PROVE Bits(w, n) \in Seq(Comm) /\ Masked(n, w) \in Seq(Comm)
  <2>1. Bits(w, n) \in Seq(Comm)
    BY <1>2, OneTyped DEF Bits
  <2>2. <<Draw(n)>> \in Seq(Comm)
    BY ONLY <1>1, n \in Nat, OneTyped
  <2> QED
    BY ONLY <2>1, <2>2, CatTyped DEF Masked
<1> QED
  BY ONLY <1>1, <1>3, <1>4, <1>5

LEMMA ChecksIn ==
  ASSUME NEW S, Comm \subseteq S, NEW k \in Kind, Fold(k) \in S
  PROVE  /\ Seed(k) \in S => Check(k) \in Seq(S)
         /\ k = "prod" /\ Seed(k) \in S => ProdCheck \in Seq(S)
         /\ k = "poly" => PolyCheck \in Seq(S)
<1>1. Flush \in S /\ Draw(OPE) \in S
  BY CommPieces, KindsAre
<1>2. \A w \in Words : ToBob(w) \in Seq(S) /\ ToBobNow(w) \in Seq(S) /\ ToAlice(w) \in Seq(S)
  BY CommPieces, WiderSeq
<1>3. <<Fold(k)>> \in Seq(S) /\ <<Draw(OPE)>> \in Seq(S) /\ <<Flush, Fold(k)>> \in Seq(S)
  BY ONLY <1>1, Fold(k) \in S, OneTyped, TwoTyped
<1>4. ASSUME Seed(k) \in S PROVE Check(k) \in Seq(S)
  <2>1. <<Flush, Seed(k)>> \in Seq(S)
    BY ONLY <1>1, <1>4, TwoTyped
  <2>2. Aggregate \in Seq(S)
    BY ONLY <1>2, <1>3, WordsAre, CatTyped DEF Aggregate
  <2> QED
    BY ONLY <1>3, <2>1, <2>2, Cat3Typed DEF Check
<1>5. ASSUME Seed(k) \in S, k = "prod" PROVE ProdCheck \in Seq(S)
  <2>1. <<Flush, Seed("prod")>> \in Seq(S)
    BY ONLY <1>1, <1>5, TwoTyped
  <2> QED
    BY ONLY <1>2, <1>3, <1>5, <2>1, WordsAre, Cat3Typed DEF ProdCheck
<1>6. ASSUME k = "poly" PROVE PolyCheck \in Seq(S)
  BY ONLY <1>2, <1>3, <1>6, WordsAre, Cat4Typed DEF PolyCheck
<1> QED
  BY ONLY <1>4, <1>5, <1>6

\* The checks do fold.
LEMMA ChecksFold ==
  /\ \A k \in Kind : Some(Check(k), Folds(k)) /\ Check(k) \in Seq(Step)
  /\ Some(ProdCheck, Folds("prod")) /\ ProdCheck \in Seq(Step)
  /\ Some(PolyCheck, Folds("poly")) /\ PolyCheck \in Seq(Step)
<1>1. ASSUME NEW k \in Kind PROVE Fold(k) \in Folds(k) /\ Fold(k) \in Step /\ Seed(k) \in Step
  <2>1. Fold(k) \in Step /\ Seed(k) \in Step
    BY StepsAre, KindIsUse
  <2>2. Fold(k).do = "fold" /\ Fold(k).kind = k
    BY StepDoes
  <2> QED
    BY ONLY <2>1, <2>2 DEF Folds
<1>2. ASSUME NEW k \in Kind
      PROVE  /\ Check(k) \in Seq(Step) /\ (k = "prod" => ProdCheck \in Seq(Step)) /\ (k = "poly" => PolyCheck \in Seq(Step))
  BY ONLY <1>1, k \in Kind, CommIsStep, ChecksIn
<1>3. Flush \in Step /\ Draw(OPE) \in Step /\ \A w \in Words : ToBob(w) \in Seq(Step) /\ ToBobNow(w) \in Seq(Step) /\ ToAlice(w) \in Seq(Step)
  BY CommPieces, CommIsStep, KindsAre, WiderSeq
<1>4. ASSUME NEW k \in Kind PROVE Some(Check(k), Folds(k))
  <2> DEFINE a == <<Flush, Seed(k)>> \o Aggregate
  <2>1. a \in Seq(Step)
    <3>1. <<Flush, Seed(k)>> \in Seq(Step) /\ <<Draw(OPE)>> \in Seq(Step) /\ ToBob("A_star") \in Seq(Step)
      BY ONLY <1>1, <1>3, k \in Kind, WordsAre, TwoTyped, OneTyped
    <3>2. Aggregate \in Seq(Step)
      BY ONLY <3>1, CatTyped DEF Aggregate
    <3> QED
      BY ONLY <3>1, <3>2, CatTyped
  <2>2. Check(k) = a \o <<Flush, Fold(k)>>
    BY DEF Check
  <2> HIDE DEF a
  <2>3. <<Flush, Fold(k)>> \in Seq(Step)
    BY ONLY <1>1, <1>3, k \in Kind, TwoTyped
  <2>4. <<Flush, Fold(k)>> = <<Flush>> \o <<Fold(k)>> /\ <<Flush>> \in Seq(Step) /\ <<Fold(k)>> \in Seq(Step)
    BY ONLY <1>1, <1>3, k \in Kind, Join11, OneTyped
  <2>5. Some(<<Fold(k)>>, Folds(k))
    BY ONLY <1>1, k \in Kind, SomeOne
  <2>6. Some(<<Flush, Fold(k)>>, Folds(k))
    BY ONLY <2>4, <2>5, SomeLater
  <2> QED
    BY ONLY <2>1, <2>2, <2>3, <2>6, SomeLater
<1>5. "prod" \in Kind /\ "poly" \in Kind
  BY KindsAre
<1>6. Some(ProdCheck, Folds("prod"))
  <2> DEFINE a == <<Flush, Seed("prod")>> \o ToBobNow("sums")
  <2>1. ProdCheck = a \o <<Fold("prod")>>
    BY DEF ProdCheck
  <2>2. a \in Seq(Step)
    <3>1. <<Flush, Seed("prod")>> \in Seq(Step) /\ ToBobNow("sums") \in Seq(Step)
      BY ONLY <1>1, <1>3, <1>5, WordsAre, TwoTyped
    <3> QED
      BY ONLY <3>1, CatTyped
  <2> HIDE DEF a
  <2>3. <<Fold("prod")>> \in Seq(Step) /\ Some(<<Fold("prod")>>, Folds("prod"))
    BY ONLY <1>1, <1>5, SomeOne, OneTyped
  <2> QED
    BY ONLY <2>1, <2>2, <2>3, SomeLater
<1>7. Some(PolyCheck, Folds("poly"))
  <2> DEFINE a == ToAlice("seed") \o <<Draw(OPE)>> \o ToBobNow("check_sum")
  <2>1. PolyCheck = a \o <<Fold("poly")>>
    BY DEF PolyCheck
  <2>2. a \in Seq(Step)
    <3>1. ToAlice("seed") \in Seq(Step) /\ <<Draw(OPE)>> \in Seq(Step) /\ ToBobNow("check_sum") \in Seq(Step)
      BY ONLY <1>1, <1>3, <1>5, WordsAre, OneTyped
    <3> QED
      BY ONLY <3>1, Cat3Typed
  <2> HIDE DEF a
  <2>3. <<Fold("poly")>> \in Seq(Step) /\ Some(<<Fold("poly")>>, Folds("poly"))
    BY ONLY <1>1, <1>5, SomeOne, OneTyped
  <2> QED
    BY ONLY <2>1, <2>2, <2>3, SomeLater
<1> QED
  BY ONLY <1>2, <1>4, <1>5, <1>6, <1>7

\* Nothing comes into a call but draws, transfers, and what belongs to it.
LEMMA StepsIn ==
  ASSUME NEW S, Comm \subseteq S,
         \A k \in Kind, n \in Nat : Issue(k, n) \in S, \A d \in Use : Seed(d) \in S, Finish \in S,
         \A k \in Kind : k # "f2k" => Fold(k) \in S,
         NEW e, NEW c \in CallSet, Take(e, c.n) \in Nat, c.do # "f2kmul",
         c.do = "f2kin" => Run("in") \in S /\ (e.f2k.ready \/ Run("auth") \in S),
         c.do = "destroy" => Fold("f2k") \in S
  PROVE  Steps(e, c) \in Seq(S)
<1> DEFINE P == \A w \in Words : ToBob(w) \in Seq(S) /\ ToBobNow(w) \in Seq(S) /\ ToAlice(w) \in Seq(S)
                                 /\ Exchange(w) \in Seq(S)
           R == \A w \in Words, n \in Nat : Bits(w, n) \in Seq(S) /\ Masked(n, w) \in Seq(S)
<1>1. P /\ R /\ << >> \in Seq(S) /\ Flush \in S
  <2>1. P
    BY CommPieces, WiderSeq
  <2>2. R
    BY CommPieces, WiderSeq
  <2>3. << >> \in Seq(S) /\ Flush \in S
    BY CommPieces
  <2> QED
    BY ONLY <2>1, <2>2, <2>3
<1>c. c.n \in Nat /\ c.do \in CallNames
  BY DEF CallSet
<1> HIDE DEF P, R
<1>k. "and" \in Kind /\ "poly" \in Kind /\ "prod" \in Kind /\ "f2k" \in Kind /\ LIMB \in Nat /\ 1 \in Nat
  BY KindsAre
<1>2. Check("and") \in Seq(S) /\ PolyCheck \in Seq(S) /\ ProdCheck \in Seq(S)
  <2>1. Fold("and") \in S /\ Fold("poly") \in S /\ Fold("prod") \in S
    BY ONLY <1>k, \A k \in Kind : k # "f2k" => Fold(k) \in S
  <2>2. Seed("and") \in S /\ Seed("poly") \in S /\ Seed("prod") \in S
    BY ONLY <1>k, KindIsUse, \A d \in Use : Seed(d) \in S
  <2>3. Check("and") \in Seq(S)
    BY ONLY <1>k, <2>1, <2>2, Comm \subseteq S, ChecksIn
  <2>4. PolyCheck \in Seq(S)
    BY ONLY <1>k, <2>1, <2>2, Comm \subseteq S, ChecksIn
  <2>5. ProdCheck \in Seq(S)
    BY ONLY <1>k, <2>1, <2>2, Comm \subseteq S, ChecksIn
  <2> QED
    BY ONLY <2>3, <2>4, <2>5
<1>3. \A k \in Kind : <<Issue(k, 1)>> \in Seq(S)
  BY ONLY <1>k, \A k \in Kind, n \in Nat : Issue(k, n) \in S, OneTyped
<1>4. \A n \in Nat : Feed(n) \in Seq(S)
  BY ONLY <1>1, WordsAre DEF Feed, R
<1>5. CASE c.do = "construct"
  BY ONLY <1>1, <1>5, WordsAre DEF Steps, P
<1>6. CASE c.do = "feed"
  BY ONLY <1>4, <1>6, <1>c DEF Steps
<1>7. CASE c.do = "and"
  <2> DEFINE t == Take(e, c.n)
  <2>1. t \in Nat
    OBVIOUS
  <2> HIDE DEF t
  <2>2. <<Issue("and", t)>> \in Seq(S)
    BY ONLY <1>k, <2>1, \A k \in Kind, n \in Nat : Issue(k, n) \in S, OneTyped
  <2>3. Wave(t) \in Seq(S)
    BY ONLY <1>1, <2>1, <2>2, WordsAre, CatTyped DEF Wave, R
  <2> QED
    BY ONLY <1>2, <1>7, <2>3 DEF Steps, And, t
<1>8. CASE c.do = "reveal"
  BY ONLY <1>1, <1>8, <1>c, WordsAre DEF Steps, Reveal, R
<1>9. CASE c.do = "f2kin"
  <2>1. F2kInit(e) \in Seq(S)
    <3>1. CASE e.f2k.ready
      BY ONLY <1>1, <3>1 DEF F2kInit
    <3>2. CASE ~e.f2k.ready
      <4>1. <<Run("auth")>> \in Seq(S)
        BY <1>9, <3>2, OneTyped
      <4>2. Exchange("setup") \o Exchange("vole") \o <<Run("auth")>> \in Seq(S)
        BY ONLY <1>1, <4>1, WordsAre, Cat3Typed DEF P
      <4> QED
        BY ONLY <3>2, <4>2 DEF F2kInit
    <3> QED
      BY <3>1, <3>2
  <2>2. <<Run("in")>> \in Seq(S)
    BY <1>9, OneTyped
  <2>3. Exchange("vole") \o <<Run("in")>> \in Seq(S)
    BY ONLY <1>1, <2>2, WordsAre, CatTyped DEF P
  <2>4. (IF e.f2k.inCnt = F2K_SZ THEN Exchange("vole") \o <<Run("in")>> ELSE << >>) \in Seq(S)
    BY ONLY <2>3, IfTyped
  <2>5. F2kInput(e) \in Seq(S)
    BY ONLY <1>1, <2>1, <2>4, WordsAre, Cat3Typed DEF F2kInput, P
  <2> QED
    BY ONLY <1>9, <2>5 DEF Steps
<1>10. CASE c.do = "poly"
  <2>1. (IF Full(e, "poly", POLY_SZ) THEN PolyCheck ELSE << >>) \in Seq(S)
    BY ONLY <1>2, IfTyped
  <2>2. Poly(e) \in Seq(S)
    BY ONLY <1>3, <1>k, <2>1, CatTyped DEF Poly
  <2> QED
    BY ONLY <1>10, <2>2 DEF Steps
<1>11. CASE c.do = "product"
  <2>1. (IF Full(e, "prod", RAM_SZ) THEN ProdCheck ELSE << >>) \in Seq(S)
    BY ONLY <1>2, IfTyped
  <2>2. BufferProduct(e) \in Seq(S)
    BY ONLY <1>3, <1>k, <2>1, CatTyped DEF BufferProduct
  <2>3. PackV \in Seq(S)
    BY ONLY <1>4, <1>k, CatTyped DEF PackV
  <2>4. Product(e) \in Seq(S)
    BY ONLY <2>2, <2>3, CatTyped DEF Product
  <2> QED
    BY ONLY <1>11, <2>4 DEF Steps
<1>12. CASE c.do = "products"
  <2>1. Products(e) \in Seq(S)
    BY ONLY <1>1, <1>2 DEF Products
  <2> QED
    BY ONLY <1>12, <2>1 DEF Steps
<1>13. CASE Permutes(c)
  <2>1. Seed("r") \in S /\ Seed("coeff") \in S
    BY ONLY KindsAre, \A d \in Use : Seed(d) \in S
  <2>2. <<Flush, Seed("r")>> \in Seq(S) /\ <<Flush, Seed("coeff"), Flush, Seed("r")>> \in Seq(S)
    BY ONLY <1>1, <2>1
  <2> QED
    BY ONLY <1>13, <2>2, PermuteIs
<1>14. CASE c.do = "open"
  BY ONLY <1>1, <1>14, WordsAre DEF Steps, P
<1>15. CASE c.do = "destroy"
  <2>1. F2kCheck \in Seq(S)
    <3>1. Fold("f2k") \in S
      BY ONLY <1>15, c.do = "destroy" => Fold("f2k") \in S
    <3>2. Seed("f2k") \in S
      BY ONLY <1>k, KindIsUse, \A d \in Use : Seed(d) \in S
    <3> QED
      BY ONLY <1>k, <3>1, <3>2, Comm \subseteq S, ChecksIn DEF F2kCheck
  <2>2. LastChecks(e) \in Seq(S)
    <3> DEFINE u == IF Pending(e, "f2k") THEN F2kCheck ELSE << >>
               v == IF Pending(e, "and") THEN Check("and") ELSE << >>
    <3>1. u \in Seq(S) /\ v \in Seq(S)
      BY ONLY <1>2, <2>1, IfTyped
    <3>2. LastChecks(e) = u \o v \o ToBobNow("digest")
      BY DEF LastChecks
    <3> HIDE DEF u, v
    <3> QED
      BY ONLY <1>1, <3>1, <3>2, WordsAre, Cat3Typed DEF P
  <2>3. EndSession(e) \in Seq(S)
    <3> DEFINE u == IF e.mode = "stream" THEN Exchange("end") ELSE << >>
    <3>1. Exchange("end") \in Seq(S)
      BY ONLY <1>1, WordsAre DEF P
    <3>2. u \in Seq(S) /\ <<Finish>> \in Seq(S)
      BY ONLY <3>1, Finish \in S, IfTyped, OneTyped
    <3>3. EndSession(e) = u \o <<Finish>>
      BY DEF EndSession
    <3> HIDE DEF u
    <3> QED
      BY ONLY <3>2, <3>3, CatTyped
  <2>4. Destroy(e) \in Seq(S)
    <3> DEFINE u == IF Pending(e, "poly") THEN PolyCheck ELSE << >>
    <3>1. u \in Seq(S)
      BY ONLY <1>2, IfTyped
    <3>2. Destroy(e) = LastChecks(e) \o u \o EndSession(e)
      BY DEF Destroy
    <3> HIDE DEF u
    <3> QED
      BY ONLY <2>2, <2>3, <3>1, <3>2, Cat3Typed
  <2> QED
    BY ONLY <1>15, <2>4 DEF Steps
<1>16. CASE c.do = "compress"
  <2>1. Seed("coeff") \in S
    BY ONLY KindsAre, \A d \in Use : Seed(d) \in S
  <2>2. Compress \in Seq(S)
    BY ONLY <1>1, <2>1, TwoTyped DEF Compress
  <2> QED
    BY ONLY <1>16, <2>2 DEF Steps
<1> QED
  <2>1. c.do \in {"construct", "feed", "and", "reveal", "f2kin", "poly", "product", "products",
                  "open", "destroy", "compress"} \/ Permutes(c)
    BY ONLY <1>c, c.do # "f2kmul" DEF CallNames, UserCalls, Permutes
  <2> QED
    BY ONLY <2>1, <1>5, <1>6, <1>7, <1>8, <1>9, <1>10, <1>11, <1>12, <1>13, <1>14, <1>15, <1>16

NoRun  == {x \in Step : x.do # "run"} \cup {Run("in")}
NoFold == {x \in Step : ~(x.do = "fold" /\ x.kind = "f2k")}

LEMMA NoneOf ==
  /\ AuthRuns \cap NoRun = {} /\ Folds("f2k") \cap NoFold = {}
  /\ Comm \subseteq NoRun /\ Comm \subseteq NoFold /\ NoRun \subseteq Step /\ NoFold \subseteq Step
  /\ \A k \in Kind, n \in Nat : Issue(k, n) \in NoRun /\ Issue(k, n) \in NoFold
  /\ \A d \in Use : Seed(d) \in NoRun /\ Seed(d) \in NoFold
  /\ Finish \in NoRun /\ Finish \in NoFold
  /\ \A k \in Kind : Fold(k) \in NoRun /\ (k # "f2k" => Fold(k) \in NoFold)
  /\ Run("in") \in NoRun /\ Run("in") \in NoFold /\ Run("auth") \in NoFold
<1>1. AuthRuns \cap NoRun = {} /\ Folds("f2k") \cap NoFold = {}
  BY StepDoes DEF AuthRuns, NoRun, Folds, NoFold
<1>2. Comm \subseteq NoRun /\ Comm \subseteq NoFold /\ NoRun \subseteq Step /\ NoFold \subseteq Step
  BY StepsAre DEF Comm, NoRun, NoFold
<1>3. \A k \in Kind, n \in Nat : Issue(k, n) \in NoRun /\ Issue(k, n) \in NoFold
  BY StepsAre, StepDoes DEF NoRun, NoFold
<1>4. \A d \in Use : Seed(d) \in NoRun /\ Seed(d) \in NoFold
  BY StepsAre, StepDoes DEF NoRun, NoFold
<1>5. Finish \in NoRun /\ Finish \in NoFold
  BY StepsAre, StepDoes DEF NoRun, NoFold
<1>6. \A k \in Kind : Fold(k) \in NoRun /\ (k # "f2k" => Fold(k) \in NoFold)
  BY StepsAre, StepDoes DEF NoRun, NoFold
<1>7. Run("in") \in NoRun /\ Run("in") \in NoFold /\ Run("auth") \in NoFold
  BY StepsAre, StepDoes DEF NoRun, NoFold
<1> QED
  BY ONLY <1>1, <1>2, <1>3, <1>4, <1>5, <1>6, <1>7

\* Only a product and the first F_2^k call run the VOLE into the outputs; only
\* a product and the destructor check products.
LEMMA NoRunsIn ==
  ASSUME NEW e, NEW c \in CallSet, Take(e, c.n) \in Nat, c.do # "f2kmul", c.do = "f2kin" => e.f2k.ready
  PROVE  ~Some(Steps(e, c), AuthRuns)
<1>1. Steps(e, c) \in Seq(NoRun)
  <2>1. Fold("f2k") \in NoRun
    BY NoneOf, KindsAre
  <2> QED
    BY <2>1, NoneOf, StepsIn
<1> QED
  BY ONLY <1>1, NoneOf, NoneIn

LEMMA NoFoldsIn ==
  ASSUME NEW e, NEW c \in CallSet, Take(e, c.n) \in Nat, c.do \notin {"f2kmul", "destroy"}
  PROVE  ~Some(Steps(e, c), Folds("f2k"))
<1>1. Steps(e, c) \in Seq(NoFold)
  BY NoneOf, StepsIn
<1> QED
  BY ONLY <1>1, NoneOf, NoneIn

\* A product: when the output buffer is full the batch is, and the check comes
\* before the run.
LEMMA F2kMulSteps ==
  ASSUME NEW e, NEW c, c.do = "f2kmul",
         \/ ~e.f2k.ready /\ ~Full(e, "f2k", F2K_SZ)
         \/ e.f2k.ready /\ (Full(e, "f2k", F2K_SZ) <=> Len(e.f2k.outs) = F2K_SZ)
  PROVE  /\ ~e.f2k.ready => Some(Steps(e, c), AuthRuns)
         /\ ~e.f2k.ready \/ Preceded(Steps(e, c), AuthRuns, Folds("f2k"))
         /\ Followed(Steps(e, c), Folds("f2k"), AuthRuns)
         /\ e.f2k.ready /\ ~Some(Steps(e, c), AuthRuns) => Len(e.f2k.outs) # F2K_SZ
<1> DEFINE x == Exchange("vole") \o <<Run("auth")>>  y == Exchange("setup") \o Exchange("vole") \o <<Run("auth")>>
<1>1. x \in Seq(NoFold) /\ y \in Seq(NoFold) /\ Multiply \in Seq(NoFold) /\ Multiply \in Seq(NoRun)
  <2>1. Exchange("vole") \in Seq(NoFold) /\ Exchange("setup") \in Seq(NoFold)
        /\ ToBob("d") \in Seq(NoFold) /\ ToBob("d") \in Seq(NoRun)
    <3>1. Exchange("vole") \in Seq(Comm) /\ Exchange("setup") \in Seq(Comm) /\ ToBob("d") \in Seq(Comm)
      BY CommPieces, WordsAre
    <3> QED
      BY ONLY <3>1, NoneOf, WiderSeq
  <2>2. <<Run("auth")>> \in Seq(NoFold) /\ <<Issue("f2k", 1)>> \in Seq(NoFold) /\ <<Issue("f2k", 1)>> \in Seq(NoRun)
    <3>1. Issue("f2k", 1) \in NoFold /\ Issue("f2k", 1) \in NoRun /\ Run("auth") \in NoFold
      BY NoneOf, KindsAre
    <3> QED
      BY ONLY <3>1, OneTyped
  <2> QED
    BY ONLY <2>1, <2>2, CatTyped, Cat3Typed DEF Multiply
<1>2. x \in Seq(Step) /\ y \in Seq(Step) /\ Multiply \in Seq(Step)
  BY ONLY <1>1, NoneOf, WiderSeq
<1>3. Some(x, AuthRuns) /\ Some(y, AuthRuns)
  <2>1. Run("auth") \in AuthRuns
    BY StepsAre, StepDoes DEF AuthRuns
  <2>2. Some(<<Run("auth")>>, AuthRuns) /\ <<Run("auth")>> \in Seq(Step)
    <3>1. Run("auth") \in Step
      BY StepsAre
    <3> QED
      BY ONLY <2>1, <3>1, SomeOne, OneTyped
  <2>3. Exchange("vole") \in Seq(Step) /\ Exchange("setup") \in Seq(Step)
    BY CommPieces, CommIsStep, WordsAre, WiderSeq
  <2>4. Exchange("setup") \o Exchange("vole") \in Seq(Step)
    BY ONLY <2>3, CatTyped
  <2> QED
    BY ONLY <2>2, <2>3, <2>4, SomeLater
<1>4. ~Some(x, Folds("f2k")) /\ ~Some(y, Folds("f2k")) /\ ~Some(Multiply, Folds("f2k")) /\ ~Some(Multiply, AuthRuns)
  BY ONLY <1>1, NoneOf, NoneIn
<1> DEFINE h == F2kCheck  z == Multiply
<1>h. h \in Seq(Step) /\ Some(h, Folds("f2k")) /\ ~Some(h, AuthRuns)
  <2>1. h \in Seq(Step) /\ Some(h, Folds("f2k"))
    BY ChecksFold, KindsAre DEF F2kCheck
  <2>2. h \in Seq(NoRun)
    <3>1. Fold("f2k") \in NoRun /\ Seed("f2k") \in NoRun /\ "f2k" \in Kind
      BY NoneOf, KindsAre
    <3> QED
      BY ONLY <3>1, NoneOf, ChecksIn DEF F2kCheck
  <2> QED
    BY ONLY <2>1, <2>2, NoneOf, NoneIn
<1>s. Steps(e, c) = F2kMul(e)
  BY ONLY c.do = "f2kmul" DEF Steps
<1>m. \A a : a = << >> => a \in Seq(Step)
  BY EmptySeq
<1>5. CASE ~e.f2k.ready /\ ~Full(e, "f2k", F2K_SZ)
  <2>1. F2kMul(e) = y \o << >> \o << >> \o z
    BY ONLY <1>5 DEF F2kMul, F2kInit, F2kRefill
  <2> HIDE DEF x, y, z, h
  <2>2. F2kMul(e) = y \o z
    BY ONLY <1>2, <2>1, ConcatEmptySeq DEF z
  <2>3. Some(y \o z, AuthRuns) /\ ~Some(y \o z, Folds("f2k"))
    BY ONLY <1>2, <1>3, <1>4, SomeCat DEF z
  <2> QED
    BY ONLY <1>5, <1>s, <2>2, <2>3, FollowedNone
<1>6. CASE e.f2k.ready /\ Full(e, "f2k", F2K_SZ) /\ Len(e.f2k.outs) = F2K_SZ
  <2>1. F2kMul(e) = << >> \o h \o x \o z
    BY ONLY <1>6 DEF F2kMul, F2kInit, F2kRefill
  <2> HIDE DEF x, y, z, h
  <2>2. F2kMul(e) = (h \o x) \o z /\ h \o x \in Seq(Step) /\ z \in Seq(Step)
    BY ONLY <1>2, <1>h, <2>1, ConcatEmptySeq, CatTyped DEF z
  <2>3. Some(h \o x, AuthRuns) /\ Some(h \o x, Folds("f2k"))
    BY ONLY <1>2, <1>3, <1>h, SomeEarlier, SomeLater
  <2>4. Preceded(h \o x, AuthRuns, Folds("f2k"))
    BY ONLY <1>2, <1>h, PrecededNone, PrecededCat
  <2>5. Preceded((h \o x) \o z, AuthRuns, Folds("f2k"))
    BY ONLY <2>2, <2>3, <2>4, PrecededCat
  <2>6. Followed(x, Folds("f2k"), AuthRuns) /\ Followed(z, Folds("f2k"), AuthRuns)
    BY ONLY <1>4, FollowedNone DEF z
  <2>7. Followed(h \o x, Folds("f2k"), AuthRuns)
    BY ONLY <1>2, <1>3, <1>h, <2>6, FollowedCat
  <2>8. Followed((h \o x) \o z, Folds("f2k"), AuthRuns)
    BY ONLY <2>2, <2>6, <2>7, FollowedCat
  <2>9. Some((h \o x) \o z, AuthRuns)
    BY ONLY <2>2, <2>3, SomeEarlier
  <2> QED
    BY ONLY <1>6, <1>s, <2>2, <2>5, <2>8, <2>9
<1>7. CASE e.f2k.ready /\ ~Full(e, "f2k", F2K_SZ) /\ Len(e.f2k.outs) # F2K_SZ
  <2>1. F2kMul(e) = << >> \o << >> \o << >> \o z
    BY ONLY <1>7 DEF F2kMul, F2kInit, F2kRefill
  <2> HIDE DEF x, y, z, h
  <2>2. F2kMul(e) = z
    BY ONLY <1>2, <2>1, ConcatEmptySeq, EmptySeq DEF z
  <2> QED
    BY ONLY <1>4, <1>7, <1>s, <2>2, PrecededNone, FollowedNone DEF z
<1> QED
  BY <1>5, <1>6, <1>7

\* The destructor checks what is left of gates, products and relations.
LEMMA DestroySteps ==
  ASSUME NEW e, NEW c, c.do = "destroy", NEW k \in {"f2k", "and", "poly"}, Pending(e, k)
  PROVE  Some(Steps(e, c), Folds(k))
<1> DEFINE u == IF Pending(e, "f2k") THEN F2kCheck ELSE << >>
           v == IF Pending(e, "and") THEN Check("and") ELSE << >>
           w == ToBobNow("digest")
           x == IF Pending(e, "poly") THEN PolyCheck ELSE << >>
           y == EndSession(e)
<1>1. Steps(e, c) = ((u \o v \o w) \o x) \o y
  BY ONLY c.do = "destroy" DEF Steps, Destroy, LastChecks
<1>2. u \in Seq(Step) /\ v \in Seq(Step) /\ x \in Seq(Step)
  <2>1. F2kCheck \in Seq(Step) /\ Check("and") \in Seq(Step) /\ PolyCheck \in Seq(Step)
    BY ChecksFold, KindsAre DEF F2kCheck
  <2> QED
    BY ONLY <2>1, IfTyped
<1>3. w \in Seq(Step) /\ y \in Seq(Step)
  <2>1. w \in Seq(Step) /\ Exchange("end") \in Seq(Step)
    BY CommPieces, CommIsStep, WordsAre, WiderSeq
  <2>2. <<Finish>> \in Seq(Step)
    BY StepsAre, OneTyped
  <2> DEFINE o == IF e.mode = "stream" THEN Exchange("end") ELSE << >>
  <2>3. o \in Seq(Step)
    BY ONLY <2>1, IfTyped
  <2>4. y = o \o <<Finish>>
    BY DEF EndSession
  <2> HIDE DEF o, y
  <2> QED
    BY ONLY <2>1, <2>2, <2>3, <2>4, CatTyped
<1>4. /\ Pending(e, "f2k") => Some(u, Folds("f2k"))
      /\ Pending(e, "and") => Some(v, Folds("and"))
      /\ Pending(e, "poly") => Some(x, Folds("poly"))
  BY ChecksFold, KindsAre DEF F2kCheck
<1> HIDE DEF u, v, w, x, y
<1>5. u \o v \in Seq(Step) /\ u \o v \o w \in Seq(Step) /\ (u \o v \o w) \o x \in Seq(Step)
  BY ONLY <1>2, <1>3, CatTyped
<1>6. Some(u \o v \o w, Folds(k)) \/ Some(x, Folds(k))
  <2>1. CASE k = "f2k"
    <3>1. Some(u \o v, Folds(k))
      BY ONLY <1>2, <1>4, <2>1, Pending(e, k), SomeEarlier
    <3> QED
      BY ONLY <1>3, <1>5, <3>1, SomeEarlier
  <2>2. CASE k = "and"
    <3>1. Some(u \o v, Folds(k))
      BY ONLY <1>2, <1>4, <2>2, Pending(e, k), SomeLater
    <3> QED
      BY ONLY <1>3, <1>5, <3>1, SomeEarlier
  <2>3. CASE k = "poly"
    BY ONLY <1>4, <2>3, Pending(e, k)
  <2> QED
    BY <2>1, <2>2, <2>3
<1>7. Some((u \o v \o w) \o x, Folds(k))
  BY ONLY <1>2, <1>5, <1>6, SomeEarlier, SomeLater
<1> QED
  BY ONLY <1>1, <1>3, <1>5, <1>7, SomeEarlier

LEMMA ProductsSteps ==
  ASSUME NEW e, NEW c, c.do = "products", Pending(e, "prod")
  PROVE  Some(Steps(e, c), Folds("prod"))
<1>1. Steps(e, c) = ProdCheck
  BY DEF Steps, Products
<1> QED
  BY ONLY <1>1, ChecksFold

\* Which call issues which gate.
LEMMA GatesIn ==
  ASSUME NEW e, e.pend \in [Kind -> Seq(Nat)], Len(e.pend["and"]) <= CHECK_SZ, NEW c \in CallSet,
         Take(e, c.n) \in Nat
  PROVE  /\ Some(Steps(e, c), Gates("f2k")) => c.do = "f2kmul"
         /\ Some(Steps(e, c), Gates("prod")) => c.do = "product"
         /\ Some(Steps(e, c), Closings) => c.do = "destroy"
<1>1. ASSUME NEW k, Some(Steps(e, c), Gates(k))
      PROVE  /\ k = CASE c.do = "and" -> "and" [] c.do = "f2kmul" -> "f2k"
                      [] c.do = "poly" -> "poly" [] c.do = "product" -> "prod"
             /\ c.do \in {"and", "f2kmul", "poly", "product"}
  <2>1. PICK i \in DOMAIN Steps(e, c) : Steps(e, c)[i] \in Gates(k)
    BY <1>1 DEF Some
  <2>2. Steps(e, c)[i].do = "issue" /\ Steps(e, c)[i].kind = k
    BY <2>1 DEF Gates
  <2>3. Ends(e, c) /\ Steps(e, c)[i] = Ending(e, c)
    BY <2>2, StepsShaped
  <2>4. Ending(e, c).do = "issue" /\ Ending(e, c).kind = k
    BY <2>2, <2>3
  <2>5. /\ Ending(e, c).do = "finish" <=> c.do = "destroy"
        /\ k = CASE c.do = "and" -> "and" [] c.do = "f2kmul" -> "f2k"
                 [] c.do = "poly" -> "poly" [] c.do = "product" -> "prod"
    BY ONLY <2>3, <2>4, Take(e, c.n) \in Nat, EndingIs
  <2>6. c.do \in {"f2kmul", "poly", "product", "destroy", "and"}
    BY ONLY <2>3 DEF Ends
  <2> QED
    BY ONLY <2>4, <2>5, <2>6
<1>2. ASSUME Some(Steps(e, c), Closings) PROVE c.do = "destroy"
  <2>1. PICK i \in DOMAIN Steps(e, c) : Steps(e, c)[i] \in Closings
    BY <1>2 DEF Some
  <2>2. Steps(e, c)[i].do = "finish"
    BY <2>1 DEF Closings
  <2> QED
    BY <2>2, StepsShaped
<1>3. Some(Steps(e, c), Gates("f2k")) => c.do = "f2kmul"
  BY <1>1
<1>4. Some(Steps(e, c), Gates("prod")) => c.do = "product"
  BY <1>1
<1> QED
  BY ONLY <1>2, <1>3, <1>4

-----------------------------------------------------------------------------
(* The books of a party: of each kind, gates are numbered as they come, the *)
(* first have been checked, each with its own output, and the rest wait.    *)

Book(q, k) ==
  /\ Len(q.checked[k]) + Len(q.pend[k]) = q.issued[k]
  /\ \A i \in DOMAIN q.checked[k] : q.checked[k][i] = <<i, i>>
  /\ \A i \in DOMAIN q.pend[k] : q.pend[k][i] = Len(q.checked[k]) + i
Books(q) == \A k \in Kind : Book(q, k)

\* The output buffer ends with the outputs of the products that wait.
Outs(q) ==
  /\ Len(q.pend["f2k"]) <= Len(q.f2k.outs)
  /\ \A i \in DOMAIN q.pend["f2k"] :
       q.f2k.outs[Len(q.f2k.outs) - Len(q.pend["f2k"]) + i] = q.pend["f2k"][i]

LEMMA OutputIs ==
  ASSUME NEW q, Types(q), Outs(q), NEW k \in Kind, NEW i \in DOMAIN q.pend[k]
  PROVE  Output(q, k, i) = q.pend[k][i]
<1>1. q.pend[k] \in Seq(Nat) /\ q.f2k.outs \in Seq(Nat)
  BY DEF Types, F2kSet
<1>2. CASE k # "f2k"
  BY ONLY <1>2 DEF Output
<1>3. CASE k = "f2k"
  <2> DEFINE a == q.pend["f2k"]  b == q.f2k.outs
  <2>1. a \in Seq(Nat) /\ b \in Seq(Nat) /\ i \in DOMAIN a
    BY <1>1, <1>3
  <2>2. Len(a) <= Len(b) /\ b[Len(b) - Len(a) + i] = a[i]
    BY ONLY <2>1, Outs(q) DEF Outs
  <2>3. Output(q, k, i) = IF Len(b) - Len(a) + i \in DOMAIN b THEN b[Len(b) - Len(a) + i] ELSE 0
    BY ONLY <1>3 DEF Output
  <2>4. q.pend[k][i] = a[i]
    BY ONLY <1>3
  <2> HIDE DEF a, b
  <2>5. Len(b) - Len(a) + i \in DOMAIN b
    BY ONLY <2>1, <2>2
  <2> QED
    BY ONLY <2>2, <2>3, <2>4, <2>5
<1> QED
  BY <1>2, <1>3

LEMMA Regroup ==
  ASSUME NEW a \in Int, NEW l \in Int, NEW i \in Int
  PROVE  (a + l) + (i - l) = a + i
OBVIOUS

LEMMA BookAdd ==
  ASSUME NEW lc \in Nat, NEW p \in Seq(Nat), NEW m \in Nat, lc + Len(p) = m,
         \A i \in DOMAIN p : p[i] = lc + i, NEW d \in Seq(Nat), \A i \in DOMAIN d : d[i] = m + i
  PROVE  lc + Len(p \o d) = m + Len(d) /\ \A i \in DOMAIN (p \o d) : (p \o d)[i] = lc + i
<1> DEFINE t == p \o d  l == Len(p)  n == Len(d)
<1>2. /\ Len(t) = l + n /\ DOMAIN t = 1 .. l + n /\ l \in Nat /\ n \in Nat
      /\ DOMAIN p = 1 .. l /\ DOMAIN d = 1 .. n
      /\ \A i \in 1 .. l : t[i] = p[i]
      /\ \A i \in l + 1 .. l + n : t[i] = d[i - l]
  BY ONLY p \in Seq(Nat), d \in Seq(Nat), CatIs
<1>3. lc + l = m /\ (\A i \in 1 .. l : p[i] = lc + i) /\ \A i \in 1 .. n : d[i] = m + i
  BY <1>2
<1> HIDE DEF t, l, n
<1>4. ASSUME NEW i \in DOMAIN t PROVE t[i] = lc + i
  <2>1. CASE i \in 1 .. l
    BY ONLY <1>2, <1>3, <2>1
  <2>2. CASE i \in l + 1 .. l + n
    <3>1. i - l \in 1 .. n /\ i \in Int /\ l \in Int /\ lc \in Int
      BY ONLY <1>2, <2>2, lc \in Nat
    <3>2. t[i] = m + (i - l)
      BY ONLY <1>2, <1>3, <2>2, <3>1
    <3>3. (lc + l) + (i - l) = lc + i
      BY ONLY <3>1, Regroup
    <3> QED
      BY ONLY <1>3, <3>2, <3>3
  <2> QED
    BY ONLY <1>2, <2>1, <2>2, i \in DOMAIN t
<1>5. lc + Len(t) = m + n
  BY ONLY <1>2, <1>3, lc \in Nat, m \in Nat
<1> QED
  BY ONLY <1>4, <1>5 DEF t, n

LEMMA BookFold ==
  ASSUME NEW c \in Seq(Nat \X Nat), NEW p \in Seq(Nat), NEW d \in Seq(Nat \X Nat), Len(d) = Len(p),
         \A i \in DOMAIN c : c[i] = <<i, i>>,
         \A i \in DOMAIN d : d[i] = <<Len(c) + i, Len(c) + i>>
  PROVE  Len(c \o d) = Len(c) + Len(p) /\ \A i \in DOMAIN (c \o d) : (c \o d)[i] = <<i, i>>
<1> DEFINE t == c \o d  l == Len(c)  n == Len(d)  S == Nat \X Nat
<1>1. /\ Len(t) = l + n /\ DOMAIN t = 1 .. l + n /\ l \in Nat /\ n \in Nat /\ DOMAIN c = 1 .. l /\ DOMAIN d = 1 .. n
      /\ \A i \in 1 .. l : t[i] = c[i]
      /\ \A i \in l + 1 .. l + n : t[i] = d[i - l]
  <2>1. c \in Seq(S) /\ d \in Seq(S)
    OBVIOUS
  <2> HIDE DEF S
  <2> QED
    BY ONLY <2>1, CatIs
<1> HIDE DEF S
<1>2. (\A i \in 1 .. l : c[i] = <<i, i>>) /\ \A i \in 1 .. n : d[i] = <<l + i, l + i>>
  BY <1>1
<1> HIDE DEF t, l
<1>3. ASSUME NEW i \in DOMAIN t PROVE t[i] = <<i, i>>
  <2>1. CASE i \in 1 .. l
    BY ONLY <1>1, <1>2, <2>1
  <2>2. CASE i \in l + 1 .. l + n
    <3>1. i - l \in 1 .. n /\ l + (i - l) = i
      BY ONLY <1>1, <2>2
    <3> QED
      BY ONLY <1>1, <1>2, <2>2, <3>1
  <2> QED
    BY ONLY <1>1, <2>1, <2>2, i \in DOMAIN t
<1> QED
  BY ONLY <1>1, <1>3, Len(d) = Len(p) DEF t, l, n

LEMMA TwiceTyped ==
  ASSUME NEW p \in Seq(Nat), NEW d, d = [i \in DOMAIN p |-> <<p[i], p[i]>>]
  PROVE  d \in Seq(Nat \X Nat) /\ Len(d) = Len(p) /\ DOMAIN d = DOMAIN p /\ \A i \in DOMAIN d : d[i] = <<p[i], p[i]>>
<1> DEFINE n == Len(p)  S == Nat \X Nat
<1>1. n \in Nat /\ DOMAIN p = 1 .. n /\ \A i \in 1 .. n : p[i] \in Nat
  OBVIOUS
<1>2. \A i \in 1 .. n : <<p[i], p[i]>> \in S
  BY <1>1
<1> HIDE DEF n, S
<1>3. d = [i \in 1 .. n |-> <<p[i], p[i]>>]
  BY ONLY <1>1, d = [i \in DOMAIN p |-> <<p[i], p[i]>>]
<1>4. d \in Seq(S) /\ Len(d) = n /\ DOMAIN d = 1 .. n
  <2>1. d \in [1 .. n -> S]
    BY ONLY <1>2, <1>3
  <2> QED
    BY ONLY <1>1, <2>1, LenProperties
<1> QED
  BY ONLY <1>1, <1>3, <1>4 DEF n, S

LEMMA BooksKept ==
  ASSUME NEW q, Types(q), Books(q), Outs(q), NEW s, s = Succ(q)
  PROVE  Books(s)
<1>0. /\ q.issued \in [Kind -> Nat] /\ q.pend \in [Kind -> Seq(Nat)] /\ q.checked \in [Kind -> Seq(Nat \X Nat)]
  BY DEF Types
<1>s. s.issued = IssuedAfter(q) /\ s.pend = PendAfter(q) /\ s.checked = CheckedAfter(q)
  BY SuccIs
<1>1. ASSUME NEW k \in Kind PROVE Book(s, k)
  <2> DEFINE c == q.checked[k]  p == q.pend[k]  m == q.issued[k]
  <2>0. c \in Seq(Nat \X Nat) /\ p \in Seq(Nat) /\ m \in Nat /\ Len(c) \in Nat
    BY ONLY <1>0, k \in Kind, LenProperties
  <2>1. /\ Len(c) + Len(p) = m
        /\ \A i \in DOMAIN c : c[i] = <<i, i>>
        /\ \A i \in DOMAIN p : p[i] = Len(c) + i
    BY DEF Books, Book
  <2>2. CASE Does(q, "issue") /\ Head(q.todo).kind = k
    <3> DEFINE n == Head(q.todo).n  d == [i \in 1 .. n |-> m + i]
    <3>1. n \in Nat
      BY ONLY <2>2, Types(q), IdsTyped
    <3>2. s.checked = q.checked /\ s.pend = [q.pend EXCEPT ![k] = p \o d] /\ s.issued = [q.issued EXCEPT ![k] = m + n]
      <4>1. ~Does(q, "fold")
        BY ONLY <2>2 DEF Does
      <4> QED
        BY ONLY <1>s, <2>2, <4>1 DEF CheckedAfter, PendAfter, IssuedAfter, Ids
    <3> HIDE DEF n
    <3>3. s.checked[k] = c /\ s.pend[k] = p \o d /\ s.issued[k] = m + n
      BY ONLY <1>0, <3>2, k \in Kind
    <3> HIDE DEF c, p, m, d
    <3>4. d \in Seq(Nat) /\ Len(d) = n /\ \A i \in DOMAIN d : d[i] = m + i
      <4>1. d = [i \in 1 .. n |-> m + i]
        BY DEF d
      <4> QED
        BY ONLY <2>0, <3>1, <4>1
    <3>5. Len(c) + Len(p \o d) = m + n /\ \A i \in DOMAIN (p \o d) : (p \o d)[i] = Len(c) + i
      <4> DEFINE lc == Len(c)
      <4>1. lc \in Nat /\ lc + Len(p) = m /\ \A i \in DOMAIN p : p[i] = lc + i
        BY ONLY <2>0, <2>1
      <4> HIDE DEF lc
      <4>2. lc + Len(p \o d) = m + Len(d) /\ \A i \in DOMAIN (p \o d) : (p \o d)[i] = lc + i
        <5>1. p \in Seq(Nat) /\ d \in Seq(Nat) /\ m \in Nat /\ lc \in Nat
          BY ONLY <2>0, <3>4, <4>1
        <5> QED
          BY ONLY <3>4, <4>1, <5>1, BookAdd
      <4> QED
        BY ONLY <3>4, <4>2 DEF lc
    <3> QED
      BY ONLY <2>1, <3>3, <3>5 DEF Book
  <2>3. CASE Does(q, "fold") /\ Head(q.todo).kind = k
    <3> DEFINE d == Pairs(q, k)
    <3>1. s.checked = [q.checked EXCEPT ![k] = c \o d] /\ s.pend = [q.pend EXCEPT ![k] = << >>] /\ s.issued = q.issued
      <4>1. ~Does(q, "issue")
        BY ONLY <2>3 DEF Does
      <4> QED
        BY ONLY <1>s, <2>3, <4>1 DEF CheckedAfter, PendAfter, IssuedAfter
    <3>2. d = [i \in DOMAIN p |-> <<p[i], p[i]>>]
      <4>1. \A i \in DOMAIN q.pend[k] : Output(q, k, i) = q.pend[k][i]
        BY OutputIs
      <4> QED
        BY ONLY <4>1 DEF Pairs
    <3>3. s.checked[k] = c \o d /\ s.pend[k] = << >> /\ s.issued[k] = m
      <4> HIDE DEF d
      <4> QED
        BY ONLY <1>0, <3>1, k \in Kind
    <3> HIDE DEF c, p, m, d
    <3>4. d \in Seq(Nat \X Nat) /\ Len(d) = Len(p) /\ DOMAIN d = DOMAIN p /\ \A i \in DOMAIN d : d[i] = <<p[i], p[i]>>
      BY ONLY <2>0, <3>2, TwiceTyped
    <3>5. \A i \in DOMAIN d : d[i] = <<Len(c) + i, Len(c) + i>>
      BY ONLY <2>1, <3>4
    <3>6. Len(c \o d) = Len(c) + Len(p) /\ \A i \in DOMAIN (c \o d) : (c \o d)[i] = <<i, i>>
      BY ONLY <2>0, <2>1, <3>4, <3>5, BookFold
    <3>7. Len(<< >>) = 0 /\ DOMAIN << >> = {} /\ Len(c \o d) \in Nat
      <4>1. c \o d \in Seq(Nat \X Nat)
        BY ONLY <2>0, <3>4, CatTyped
      <4> QED
        BY ONLY <4>1, LenProperties
    <3>8. Len(s.checked[k]) + Len(s.pend[k]) = s.issued[k]
      BY ONLY <2>0, <2>1, <3>3, <3>6, <3>7
    <3> QED
      BY ONLY <3>3, <3>6, <3>7, <3>8 DEF Book
  <2>4. CASE ~(Does(q, "issue") /\ Head(q.todo).kind = k) /\ ~(Does(q, "fold") /\ Head(q.todo).kind = k)
    <3>1. s.checked[k] = c
      <4> DEFINE h == Head(q.todo).kind  x == q.checked[h] \o Pairs(q, h)
      <4>1. s.checked = (IF Does(q, "fold") THEN [q.checked EXCEPT ![h] = x] ELSE q.checked)
        BY ONLY <1>s DEF CheckedAfter
      <4> HIDE DEF x
      <4>2. Does(q, "fold") => h # k
        BY ONLY <2>4
      <4> HIDE DEF h
      <4> QED
        BY ONLY <1>0, <4>1, <4>2, k \in Kind
    <3>2. s.pend[k] = p /\ s.issued[k] = m
      <4> DEFINE h == Head(q.todo).kind  x == q.pend[h] \o Ids(q)  y == q.issued[h] + Head(q.todo).n
      <4>1. s.pend = (IF Does(q, "issue") THEN [q.pend EXCEPT ![h] = x]
                      ELSE IF Does(q, "fold") THEN [q.pend EXCEPT ![h] = << >>] ELSE q.pend)
            /\ s.issued = (IF Does(q, "issue") THEN [q.issued EXCEPT ![h] = y] ELSE q.issued)
        BY ONLY <1>s DEF PendAfter, IssuedAfter
      <4> HIDE DEF x, y
      <4>2. Does(q, "fold") \/ Does(q, "issue") => h # k
        BY ONLY <2>4
      <4> HIDE DEF h
      <4> QED
        BY ONLY <1>0, <4>1, <4>2, k \in Kind
    <3> HIDE DEF c, p, m
    <3> QED
      BY ONLY <2>1, <3>1, <3>2 DEF Book
  <2> QED
    BY <2>2, <2>3, <2>4
<1> QED
  BY ONLY <1>1 DEF Books

-----------------------------------------------------------------------------
(* The destructor is the last call.                                        *)

Lasts(q) == \A i \in DOMAIN q.calls : q.calls[i].do = "destroy" => i = Len(q.calls)

LEMMA LastsCat ==
  ASSUME NEW S, NEW a \in Seq(S), NEW b \in Seq(S), \A i \in DOMAIN a : a[i].do # "destroy",
         \A i \in DOMAIN b : b[i].do = "destroy" => i = Len(b)
  PROVE  \A i \in DOMAIN (a \o b) : (a \o b)[i].do = "destroy" => i = Len(a \o b)
<1> DEFINE t == a \o b  m == Len(a)  n == Len(b)
<1>0. /\ Len(t) = m + n /\ DOMAIN t = 1 .. m + n /\ m \in Nat /\ n \in Nat
      /\ DOMAIN a = 1 .. m /\ DOMAIN b = 1 .. n
      /\ \A i \in 1 .. m : t[i] = a[i]
      /\ \A i \in m + 1 .. m + n : t[i] = b[i - m]
  BY CatIs
<1>b. \A i \in DOMAIN b : b[i].do = "destroy" => i = n
  OBVIOUS
<1> HIDE DEF t, m, n
<1>1. ASSUME NEW i \in DOMAIN t, t[i].do = "destroy" PROVE i = m + n
  <2>1. CASE i \in 1 .. m
    <3>1. i \in DOMAIN a /\ a[i].do = "destroy"
      BY ONLY <1>0, <1>1, <2>1
    <3> QED
      BY ONLY <3>1, \A j \in DOMAIN a : a[j].do # "destroy"
  <2>2. CASE i \in m + 1 .. m + n
    <3>1. i - m \in DOMAIN b /\ b[i - m].do = "destroy"
      BY ONLY <1>0, <1>1, <2>2
    <3>2. i - m = n
      BY ONLY <1>b, <3>1
    <3> QED
      BY ONLY <1>0, <2>2, <3>2
  <2> QED
    BY ONLY <1>0, <2>1, <2>2, i \in DOMAIN t
<1> QED
  BY ONLY <1>0, <1>1 DEF t

LEMMA InnerNoDestroy ==
  ASSUME NEW q, Types(q), Fits(q), CanStep(q), Idle(q), NEW c, c = Head(q.calls)
  PROVE  /\ Inner(Buf(q), c) \in Seq(CallSet)
         /\ \A i \in DOMAIN Inner(Buf(q), c) : Inner(Buf(q), c)[i].do # "destroy"
<1> DEFINE a == Inner(Buf(q), c)
<1>0. c.n \in Nat /\ (Permutes(c) => a = Permute(c.n) /\ Permute(c.n) \in Seq(CallSet))
      /\ (~Permutes(c) => a \in Seq({x \in CallSet : x.do = "and" /\ c.do = "and"}))
  BY CallsForm
<1> HIDE DEF a
<1>1. CASE Permutes(c)
  <2> DEFINE S == {x \in CallSet : x.do \in {"product", "f2kmul"}}  T == {x \in CallSet : x.do # "destroy"}
             b == <<Call("open", 1), Call("products", 1)>>
  <2>1. PICK d \in Seq(S) : Permute(c.n) = d \o b
    BY ONLY <1>0, PermuteForm
  <2>2. S \subseteq T
    OBVIOUS
  <2>3. Call("open", 1) \in T /\ Call("products", 1) \in T
    <3>1. Call("open", 1) \in CallSet /\ Call("products", 1) \in CallSet
      BY CallIs DEF CallNames
    <3> QED
      BY ONLY <3>1 DEF Call
  <2>5. \A x \in T : x.do # "destroy"
    OBVIOUS
  <2> HIDE DEF S, T
  <2>4. a \in Seq(T)
    <3>1. d \in Seq(T) /\ b \in Seq(T)
      BY ONLY <2>2, <2>3, d \in Seq(S), WiderSeq, TwoTyped
    <3> HIDE DEF b
    <3> QED
      BY ONLY <1>0, <1>1, <2>1, <3>1, CatTyped
  <2>6. \A i \in DOMAIN a : a[i] \in T
    BY ONLY <2>4
  <2> QED
    BY ONLY <1>0, <1>1, <2>5, <2>6 DEF a
<1>2. CASE ~Permutes(c)
  <2> DEFINE S == {x \in CallSet : x.do = "and" /\ c.do = "and"}
  <2>1. S \subseteq CallSet /\ \A x \in S : x.do # "destroy"
    OBVIOUS
  <2>2. a \in Seq(S)
    BY ONLY <1>0, <1>2
  <2> HIDE DEF S
  <2>3. a \in Seq(CallSet) /\ \A i \in DOMAIN a : a[i] \in S
    BY ONLY <2>1, <2>2, WiderSeq
  <2> QED
    BY ONLY <2>1, <2>3 DEF a
<1> QED
  BY <1>1, <1>2

LEMMA LastsKept ==
  ASSUME NEW q, Types(q), Fits(q), Lasts(q), CanStep(q), NEW s, s = Succ(q)
  PROVE  Lasts(s) /\ (Idle(q) /\ Head(q.calls).do = "destroy" => s.calls = << >>)
<1>1. s.calls = CallsAfter(q)
  BY SuccIs
<1>2. CASE ~Idle(q)
  <2>1. s.calls = q.calls
    BY ONLY <1>1, <1>2 DEF CallsAfter
  <2> QED
    BY ONLY <1>2, <2>1, Lasts(q) DEF Lasts
<1>3. CASE Idle(q)
  <2> DEFINE c == Head(q.calls)  a == Inner(Buf(q), c)  b == Tail(q.calls)  l == q.calls
  <2>1. /\ CallsAfter(q) = a \o b /\ b \in Seq(CallSet) /\ l \in Seq(CallSet) /\ l # << >>
        /\ ~Permutes(c) => a \in Seq({x \in CallSet : x.do = "and" /\ c.do = "and"})
    BY <1>3, CallsForm
  <2>2. a \in Seq(CallSet) /\ \A i \in DOMAIN a : a[i].do # "destroy"
    BY <1>3, InnerNoDestroy
  <2>3. /\ Len(l) \in Nat /\ Len(l) >= 1 /\ DOMAIN l = 1 .. Len(l) /\ c = l[1]
        /\ Len(b) = Len(l) - 1 /\ DOMAIN b = 1 .. Len(l) - 1
        /\ \A i \in 1 .. Len(l) - 1 : b[i] = l[i + 1]
    BY ONLY <2>1, ListIs
  <2>4. \A i \in DOMAIN l : l[i].do = "destroy" => i = Len(l)
    BY DEF Lasts
  <2> HIDE DEF a, b, c, l
  <2>5. ASSUME NEW i \in DOMAIN b, b[i].do = "destroy" PROVE i = Len(b)
    <3>1. i + 1 \in DOMAIN l /\ l[i + 1].do = "destroy" /\ i \in Nat
      BY ONLY <2>3, <2>5
    <3>2. i + 1 = Len(l)
      BY ONLY <2>4, <3>1
    <3> QED
      BY ONLY <2>3, <3>1, <3>2
  <2>6. Lasts(s)
    <3>1. \A i \in DOMAIN (a \o b) : (a \o b)[i].do = "destroy" => i = Len(a \o b)
      BY ONLY <2>1, <2>2, <2>5, LastsCat
    <3>2. s.calls = a \o b
      BY ONLY <1>1, <2>1
    <3> QED
      BY ONLY <3>1, <3>2 DEF Lasts
  <2>7. ASSUME c.do = "destroy" PROVE s.calls = << >>
    <3>1. 1 \in DOMAIN l /\ l[1].do = "destroy"
      BY ONLY <2>3, <2>7
    <3>2. Len(b) = 0
      BY ONLY <2>3, <2>4, <3>1
    <3>3. b = << >>
      BY ONLY <2>1, <3>2, EmptySeq
    <3>4. a = << >>
      <4> DEFINE S == {x \in CallSet : x.do = "and" /\ c.do = "and"}
      <4>1. S = {}
        BY ONLY <2>7
      <4>2. a \in Seq(S)
        BY ONLY <2>1, <2>7 DEF Permutes
      <4> HIDE DEF S
      <4>3. Len(a) = 0
        BY ONLY <4>1, <4>2
      <4> QED
        BY ONLY <4>2, <4>3, EmptySeq
    <3> QED
      BY ONLY <1>1, <2>1, <3>3, <3>4
  <2> QED
    BY ONLY <2>6, <2>7 DEF c
<1> QED
  BY <1>2, <1>3

-----------------------------------------------------------------------------
(* The output buffer of the F_2^k products.  A run into it comes when no    *)
(* product waits for a check; a check of products is followed by a run, or  *)
(* by the end.                                                              *)

F2kFine(q) ==
  /\ Outs(q)
  /\ q.pend["f2k"] = << >> \/ Preceded(q.todo, AuthRuns, Folds("f2k"))
  /\ ~q.f2k.ready => q.pend["f2k"] = << >> /\ (Some(q.todo, Gates("f2k")) => Some(q.todo, AuthRuns))
  /\ q.calls = << >> \/ Followed(q.todo, Folds("f2k"), AuthRuns)
  /\ Len(q.f2k.outs) = Len(q.pend["f2k"]) \/ Some(q.todo, AuthRuns) \/ q.calls = << >>

LEMMA TailsAppend ==
  ASSUME NEW p \in Seq(Nat), NEW o \in Seq(Nat), NEW d \in Seq(Nat), Len(p) <= Len(o),
         \A i \in DOMAIN p : o[Len(o) - Len(p) + i] = p[i]
  PROVE  /\ Len(p \o d) <= Len(o \o d)
         /\ \A i \in DOMAIN (p \o d) : (o \o d)[Len(o \o d) - Len(p \o d) + i] = (p \o d)[i]
         /\ Len(o) = Len(p) => Len(o \o d) = Len(p \o d)
<1> DEFINE a == p \o d  b == o \o d  l == Len(p)  m == Len(o)  n == Len(d)
<1>1. /\ Len(a) = l + n /\ DOMAIN a = 1 .. l + n /\ l \in Nat /\ n \in Nat /\ DOMAIN p = 1 .. l /\ DOMAIN d = 1 .. n
      /\ \A i \in 1 .. l : a[i] = p[i]
      /\ \A i \in l + 1 .. l + n : a[i] = d[i - l]
  BY ONLY p \in Seq(Nat), d \in Seq(Nat), CatIs
<1>2. /\ Len(b) = m + n /\ m \in Nat /\ DOMAIN o = 1 .. m
      /\ \A i \in 1 .. m : b[i] = o[i]
      /\ \A i \in m + 1 .. m + n : b[i] = d[i - m]
  BY ONLY o \in Seq(Nat), d \in Seq(Nat), CatIs
<1>3. l <= m /\ \A i \in 1 .. l : o[m - l + i] = p[i]
  BY <1>1
<1> HIDE DEF a, b, l, m, n
<1>4. Len(b) - Len(a) = m - l
  BY ONLY <1>1, <1>2
<1>5. ASSUME NEW i \in DOMAIN a PROVE b[m - l + i] = a[i]
  <2>1. CASE i \in 1 .. l
    <3>1. m - l + i \in 1 .. m
      BY ONLY <1>1, <1>2, <1>3, <2>1
    <3> QED
      BY ONLY <1>1, <1>2, <1>3, <2>1, <3>1
  <2>2. CASE i \in l + 1 .. l + n
    <3>1. m - l + i \in m + 1 .. m + n /\ (m - l + i) - m = i - l
      BY ONLY <1>1, <1>2, <1>3, <2>2
    <3> QED
      BY ONLY <1>1, <1>2, <2>2, <3>1
  <2> QED
    BY ONLY <1>1, <2>1, <2>2, i \in DOMAIN a
<1>6. Len(a) <= Len(b) /\ (m = l => Len(b) = Len(a))
  BY ONLY <1>1, <1>2, <1>3
<1> QED
  BY ONLY <1>4, <1>5, <1>6 DEF a, b, l, m

\* How a step changes the products and their outputs.
LEMMA F2kChange ==
  ASSUME NEW q, Types(q), NEW s, s = Succ(q)
  PROVE  /\ Does(q, "issue") /\ Head(q.todo).kind = "f2k" =>
              /\ Ids(q) \in Seq(Nat) /\ s.pend["f2k"] = q.pend["f2k"] \o Ids(q)
              /\ s.f2k.outs = q.f2k.outs \o Ids(q) /\ s.f2k.ready = q.f2k.ready
         /\ Does(q, "fold") /\ Head(q.todo).kind = "f2k" =>
              s.pend["f2k"] = << >> /\ s.f2k.outs = q.f2k.outs /\ s.f2k.ready = q.f2k.ready
         /\ Does(q, "run") /\ Head(q.todo).buf = "auth" =>
              s.pend["f2k"] = q.pend["f2k"] /\ s.f2k.outs = << >> /\ s.f2k.ready = TRUE
         /\ \/ Does(q, "issue") /\ Head(q.todo).kind = "f2k"
            \/ Does(q, "fold") /\ Head(q.todo).kind = "f2k"
            \/ Does(q, "run") /\ Head(q.todo).buf = "auth"
            \/ s.pend["f2k"] = q.pend["f2k"] /\ s.f2k.outs = q.f2k.outs /\ s.f2k.ready = q.f2k.ready
<1> DEFINE k == Head(q.todo).kind
<1>0. /\ s.pend = PendAfter(q) /\ s.f2k = F2kAfter(q) /\ q.pend \in [Kind -> Seq(Nat)] /\ q.f2k \in F2kSet
      /\ "f2k" \in Kind
  BY SuccIs, KindsAre DEF Types
<1>1. CASE Does(q, "issue")
  <2> DEFINE d == Ids(q)  p == q.pend[k] \o d  o == q.f2k.outs \o d
  <2>1. d \in Seq(Nat) /\ k \in Kind
    BY <1>1, IdsTyped
  <2>2. s.pend = [q.pend EXCEPT ![k] = p]
    BY ONLY <1>0, <1>1 DEF PendAfter
  <2>3. s.f2k = (IF k = "f2k" THEN [q.f2k EXCEPT !.outs = o] ELSE q.f2k)
    <3>1. ~Does(q, "run") /\ ~Does(q, "move")
      BY ONLY <1>1 DEF Does
    <3> QED
      BY ONLY <1>0, <1>1, <3>1 DEF F2kAfter
  <2>4. ~Does(q, "fold") /\ ~Does(q, "run")
    BY ONLY <1>1 DEF Does
  <2> HIDE DEF k, p, o, d
  <2>5. s.pend["f2k"] = IF k = "f2k" THEN p ELSE q.pend["f2k"]
    BY ONLY <1>0, <2>2
  <2>6. s.f2k.ready = q.f2k.ready /\ s.f2k.outs = IF k = "f2k" THEN o ELSE q.f2k.outs
    BY ONLY <1>0, <2>3 DEF F2kSet
  <2> QED
    BY ONLY <1>1, <2>1, <2>4, <2>5, <2>6 DEF k, p, o, d
<1>2. CASE Does(q, "fold")
  <2>1. s.pend = [q.pend EXCEPT ![k] = << >>] /\ s.f2k = q.f2k
    <3>1. ~Does(q, "issue") /\ ~Does(q, "run") /\ ~Does(q, "move")
      BY ONLY <1>2 DEF Does
    <3> QED
      BY ONLY <1>0, <1>2, <3>1 DEF PendAfter, F2kAfter
  <2>2. ~Does(q, "issue") /\ ~Does(q, "run")
    BY ONLY <1>2 DEF Does
  <2> HIDE DEF k
  <2>3. s.pend["f2k"] = IF k = "f2k" THEN << >> ELSE q.pend["f2k"]
    BY ONLY <1>0, <2>1
  <2> QED
    BY ONLY <1>2, <2>1, <2>2, <2>3 DEF k
<1>3. CASE Does(q, "run")
  <2>0. ~Does(q, "issue") /\ ~Does(q, "fold") /\ ~Does(q, "move")
    BY ONLY <1>3 DEF Does
  <2>1. s.pend = q.pend /\ s.f2k = RunAfter(q)
    BY ONLY <1>0, <1>3, <2>0 DEF PendAfter, F2kAfter
  <2> DEFINE x == q.f2k.runs * F2K_SZ  y == q.f2k.runs + 1
  <2>2. RunAfter(q) = IF Head(q.todo).buf = "auth"
                      THEN [q.f2k EXCEPT !.ready = TRUE, !.runs = y, !.base = x, !.outs = << >>]
                      ELSE [q.f2k EXCEPT !.runs = y, !.inBase = x, !.inCnt = 0]
    BY DEF RunAfter
  <2> HIDE DEF x, y
  <2>3. CASE Head(q.todo).buf = "auth"
    <3>1. s.f2k = [q.f2k EXCEPT !.ready = TRUE, !.runs = y, !.base = x, !.outs = << >>]
      BY ONLY <2>1, <2>2, <2>3
    <3>2. s.f2k.outs = << >> /\ s.f2k.ready = TRUE
      BY ONLY <1>0, <3>1 DEF F2kSet
    <3> QED
      BY ONLY <1>3, <2>0, <2>1, <2>3, <3>2
  <2>4. CASE Head(q.todo).buf # "auth"
    <3>1. s.f2k = [q.f2k EXCEPT !.runs = y, !.inBase = x, !.inCnt = 0]
      BY ONLY <2>1, <2>2, <2>4
    <3>2. s.f2k.outs = q.f2k.outs /\ s.f2k.ready = q.f2k.ready
      BY ONLY <1>0, <3>1 DEF F2kSet
    <3> QED
      BY ONLY <1>3, <2>0, <2>1, <2>4, <3>2
  <2> QED
    BY <2>3, <2>4
<1>4. CASE ~Does(q, "issue") /\ ~Does(q, "fold") /\ ~Does(q, "run")
  <2>1. s.pend = q.pend
    BY ONLY <1>0, <1>4 DEF PendAfter
  <2> DEFINE y == q.f2k.inCnt + 1
  <2>2. s.f2k = q.f2k \/ s.f2k = [q.f2k EXCEPT !.inCnt = y]
    BY ONLY <1>0, <1>4 DEF F2kAfter
  <2> HIDE DEF y
  <2>3. s.f2k.outs = q.f2k.outs /\ s.f2k.ready = q.f2k.ready
    BY ONLY <1>0, <2>2 DEF F2kSet
  <2> QED
    BY ONLY <1>4, <2>1, <2>3
<1> QED
  BY ONLY <1>1, <1>2, <1>3, <1>4

\* The kinds of the step at hand.
LEMMA HandIs ==
  ASSUME NEW q, Types(q), ~Idle(q)
  PROVE  /\ q.todo \in Seq(Step) /\ q.todo # << >> /\ Head(q.todo) \in Step
         /\ \A k : Head(q.todo) \in Gates(k) <=> Does(q, "issue") /\ Head(q.todo).kind = k
         /\ \A k : Head(q.todo) \in Folds(k) <=> Does(q, "fold") /\ Head(q.todo).kind = k
         /\ Head(q.todo) \in AuthRuns <=> Does(q, "run") /\ Head(q.todo).buf = "auth"
         /\ Head(q.todo) \in Closings <=> Does(q, "finish")
BY AtHand DEF Types, Idle, Gates, Folds, AuthRuns, Closings, Does

LEMMA F2kStepKept ==
  ASSUME NEW q, Sound(q), F2kFine(q), CanStep(q), ~Idle(q), NEW s, s = Succ(q)
  PROVE  F2kFine(s)
<1> DEFINE G == Does(q, "issue") /\ Head(q.todo).kind = "f2k"
           D == Does(q, "fold") /\ Head(q.todo).kind = "f2k"
           A == Does(q, "run") /\ Head(q.todo).buf = "auth"
           p == q.pend["f2k"]  o == q.f2k.outs  r == q.f2k.ready
           pp == s.pend["f2k"]  oo == s.f2k.outs  rr == s.f2k.ready  d == Ids(q)
           F == Folds("f2k")
<1>0. Types(q) /\ Shaped(q.todo) /\ p \in Seq(Nat) /\ o \in Seq(Nat)
  <2>1. Types(q) /\ Shaped(q.todo)
    BY DEF Sound
  <2> QED
    BY <2>1, KindsAre DEF Types, F2kSet
<1>s. s.todo = TodoAfter(q) /\ s.calls = q.calls
  BY SuccIs DEF CallsAfter
<1>h. /\ q.todo \in Seq(Step) /\ q.todo # << >>
      /\ Head(q.todo) \in Gates("f2k") <=> G
      /\ Head(q.todo) \in F <=> D
      /\ Head(q.todo) \in AuthRuns <=> A
  BY <1>0, HandIs
<1>x. F \cap Comm = {} /\ AuthRuns \cap Comm = {} /\ Gates("f2k") \cap Comm = {}
  BY SomeSet
<1>e. Does(q, "issue") => s.todo = << >> /\ Len(q.todo) = 1
  BY <1>0, <1>s, EndAtHand
<1>w. A => ~Closes(q) /\ ~Waits(q)
  BY DEF Closes, Waits, Does
<1>a. D => TodoAfter(q) = Tail(q.todo)
  <2>1. Does(q, "fold") => ~Waits(q) /\ ~Closes(q) /\ ~Refills(q) /\ ~TakesCots(q)
    BY DEF Waits, Closes, Refills, TakesCots, Does
  <2> QED
    BY ONLY <2>1, ~Idle(q) DEF TodoAfter
<1>c. /\ G => d \in Seq(Nat) /\ pp = p \o d /\ oo = o \o d /\ rr = r
      /\ D => pp = << >> /\ oo = o /\ rr = r
      /\ A => pp = p /\ oo = << >> /\ rr = TRUE
      /\ G \/ D \/ A \/ (pp = p /\ oo = o /\ rr = r)
  BY <1>0, F2kChange
<1>f. /\ Len(p) <= Len(o) /\ \A i \in DOMAIN p : o[Len(o) - Len(p) + i] = p[i]
      /\ p = << >> \/ Preceded(q.todo, AuthRuns, F)
      /\ ~r => p = << >> /\ (Some(q.todo, Gates("f2k")) => Some(q.todo, AuthRuns))
      /\ q.calls = << >> \/ Followed(q.todo, F, AuthRuns)
      /\ Len(o) = Len(p) \/ Some(q.todo, AuthRuns) \/ q.calls = << >>
  BY DEF F2kFine, Outs
<1>n. Len(<< >>) = 0 /\ DOMAIN << >> = {} /\ \A X : ~Some(<< >>, X)
  BY DEF Some
<1> HIDE DEF G, D, A, p, o, r, pp, oo, rr, d, F
<1>l. Len(p) \in Nat /\ Len(o) \in Nat
  BY ONLY <1>0, LenProperties
<1>r. A => p = << >>
  BY ONLY <1>f, <1>h, PrecededTail
<1>t. /\ Some(q.todo, AuthRuns) => Some(s.todo, AuthRuns) \/ A
      /\ ~A => (Some(s.todo, AuthRuns) <=> Some(q.todo, AuthRuns))
  BY ONLY <1>0, <1>h, <1>s, <1>x, ~Idle(q), SomeAfter
<1>g. Does(q, "issue") => ~Some(q.todo, AuthRuns)
  <2>1. ASSUME Does(q, "issue"), Some(q.todo, AuthRuns) PROVE FALSE
    <3>1. ~A
      BY ONLY <2>1 DEF A, Does
    <3> QED
      BY ONLY <1>e, <1>n, <1>t, <2>1, <3>1
  <2> QED
    BY <2>1
<1>gi. G => Does(q, "issue")
  BY ONLY DEF G
<1>1. Len(pp) <= Len(oo) /\ \A i \in DOMAIN pp : oo[Len(oo) - Len(pp) + i] = pp[i]
  <2>1. CASE G
    <3>1. /\ Len(p \o d) <= Len(o \o d)
          /\ \A i \in DOMAIN (p \o d) : (o \o d)[Len(o \o d) - Len(p \o d) + i] = (p \o d)[i]
      BY ONLY <1>0, <1>c, <1>f, <2>1, TailsAppend
    <3> QED
      BY ONLY <1>c, <2>1, <3>1
  <2>2. CASE D
    BY ONLY <1>c, <1>l, <1>n, <2>2
  <2>3. CASE A
    BY ONLY <1>c, <1>n, <1>r, <2>3
  <2>4. CASE pp = p /\ oo = o /\ rr = r
    BY ONLY <1>f, <2>4
  <2> QED
    BY ONLY <1>c, <2>1, <2>2, <2>3, <2>4
<1>2. pp = << >> \/ Preceded(s.todo, AuthRuns, F)
  <2>1. CASE Does(q, "issue")
    BY ONLY <1>e, <1>n, <2>1, PrecededNone
  <2>2. CASE D
    BY ONLY <1>c, <2>2
  <2>3. CASE ~Does(q, "issue") /\ ~D
    <3>1. pp = p
      BY ONLY <1>c, <1>gi, <2>3
    <3>2. Head(q.todo) \notin F
      BY ONLY <1>h, <2>3
    <3>3. p = << >> \/ Preceded(s.todo, AuthRuns, F)
      BY ONLY <1>0, <1>f, <1>s, <1>x, <3>2, ~Idle(q), PrecededAfter
    <3> QED
      BY ONLY <3>1, <3>3
  <2> QED
    BY <2>1, <2>2, <2>3
<1>3. ASSUME ~rr PROVE pp = << >> /\ (Some(s.todo, Gates("f2k")) => Some(s.todo, AuthRuns))
  <2>1. ~A /\ ~r /\ p = << >>
    BY ONLY <1>c, <1>f, <1>3
  <2>2. ~G
    <3>1. Head(q.todo) \in Gates("f2k") => Some(q.todo, Gates("f2k"))
      BY ONLY <1>h, SomeTail
    <3> QED
      BY ONLY <1>f, <1>g, <1>gi, <1>h, <2>1, <3>1
  <2>3. pp = << >>
    BY ONLY <1>c, <2>1, <2>2
  <2>4. Some(s.todo, Gates("f2k")) => Some(q.todo, Gates("f2k"))
    BY ONLY <1>0, <1>s, <1>x, ~Idle(q), SomeAfter
  <2> QED
    BY ONLY <1>f, <1>t, <2>1, <2>3, <2>4
<1>4. q.calls = << >> \/ Followed(s.todo, F, AuthRuns)
  BY ONLY <1>0, <1>f, <1>s, <1>x, ~Idle(q), FollowedAfter
<1>5. Len(oo) = Len(pp) \/ Some(s.todo, AuthRuns) \/ q.calls = << >>
  <2>1. CASE A
    BY ONLY <1>c, <1>r, <2>1
  <2>2. CASE D /\ q.calls # << >>
    <3>1. Some(Tail(q.todo), AuthRuns)
      BY ONLY <1>f, <1>h, <2>2, FollowedTail
    <3> QED
      BY ONLY <1>a, <1>s, <2>2, <3>1
  <2>3. CASE G
    <3>1. Len(o) = Len(p) => Len(o \o d) = Len(p \o d)
      BY ONLY <1>0, <1>c, <1>f, <2>3, TailsAppend
    <3> QED
      BY ONLY <1>c, <1>f, <1>g, <1>gi, <2>3, <3>1
  <2>4. CASE ~A /\ pp = p /\ oo = o
    BY ONLY <1>f, <1>t, <2>4
  <2> QED
    BY ONLY <1>c, <2>1, <2>2, <2>3, <2>4
<1> QED
  <2>1. s.calls = q.calls
    BY ONLY <1>s
  <2> QED
    BY ONLY <1>1, <1>2, <1>3, <1>4, <1>5, <2>1 DEF F2kFine, Outs, pp, oo, rr, F

LEMMA F2kCallKept ==
  ASSUME NEW q, Sound(q), F2kFine(q), Lasts(q), CanStep(q), Idle(q), NEW s, s = Succ(q)
  PROVE  F2kFine(s)
<1> DEFINE c == Head(q.calls)  e == Buf(q)  p == q.pend["f2k"]  o == q.f2k.outs  r == q.f2k.ready
           F == Folds("f2k")  t == Steps(e, c)
<1>0. Types(q) /\ Fits(q) /\ p \in Seq(Nat) /\ o \in Seq(Nat)
  <2>1. Types(q) /\ Fits(q)
    BY DEF Sound
  <2> QED
    BY <2>1, KindsAre DEF Types, F2kSet
<1>1. /\ s.todo = t /\ s.pend["f2k"] = p /\ s.f2k.outs = o /\ s.f2k.ready = r
  <2>1. s.todo = Steps(Buf(q), Head(q.calls)) /\ SameGates(q, s)
    BY SuccCall
  <2>2. s.pend = q.pend /\ s.f2k = q.f2k
    BY ONLY <2>1 DEF SameGates
  <2> QED
    BY ONLY <2>1, <2>2
<1>2. /\ c \in CallSet /\ q.calls # << >> /\ e.pend["f2k"] = p /\ e.f2k = q.f2k
      /\ e.pend \in [Kind -> Seq(Nat)] /\ Len(e.pend["and"]) <= CHECK_SZ /\ Take(e, c.n) \in Nat
  BY <1>0, CallShaped
<1>3. c.do = "destroy" => s.calls = << >>
  BY <1>0, LastsKept
<1>4. /\ Outs(q) /\ Len(p) <= Len(o) /\ (~r => p = << >>) /\ Len(o) = Len(p)
  <2>1. ~Some(q.todo, AuthRuns)
    <3>1. DOMAIN q.todo = {}
      BY DEF Idle
    <3> QED
      BY ONLY <3>1 DEF Some
  <2> QED
    BY <1>2, <2>1 DEF F2kFine, Outs
<1>5. Full(e, "f2k", F2K_SZ) <=> Len(p) = F2K_SZ
  BY ONLY <1>2 DEF Full
<1> HIDE DEF t
<1>6. c.do = "f2kmul" => /\ ~r => Some(t, AuthRuns)
                         /\ ~r \/ Preceded(t, AuthRuns, F)
                         /\ Followed(t, F, AuthRuns)
  <2>1. \/ ~e.f2k.ready /\ ~Full(e, "f2k", F2K_SZ)
        \/ e.f2k.ready /\ (Full(e, "f2k", F2K_SZ) <=> Len(e.f2k.outs) = F2K_SZ)
    <3>1. p = << >> => Len(p) = 0
      BY ONLY <1>0, EmptySeq
    <3>2. F2K_SZ # 0
      BY SizesAre
    <3> HIDE DEF e, p
    <3> QED
      BY ONLY <1>2, <1>4, <1>5, <3>1, <3>2
  <2> HIDE DEF e, c
  <2>2. c.do = "f2kmul" => /\ ~e.f2k.ready => Some(Steps(e, c), AuthRuns)
                           /\ ~e.f2k.ready \/ Preceded(Steps(e, c), AuthRuns, Folds("f2k"))
                           /\ Followed(Steps(e, c), Folds("f2k"), AuthRuns)
    BY ONLY <2>1, F2kMulSteps
  <2> QED
    BY ONLY <1>2, <2>2 DEF t
<1>7. c.do \notin {"f2kmul", "destroy"} => ~Some(t, F)
  BY ONLY <1>2, NoFoldsIn DEF t
<1>8. c.do # "f2kmul" => ~Some(t, AuthRuns) \/ (c.do = "f2kin" /\ ~r)
  BY ONLY <1>2, NoRunsIn DEF t
<1>9. Some(t, Gates("f2k")) => c.do = "f2kmul"
  BY ONLY <1>2, GatesIn DEF t
<1>10. ~Some(t, AuthRuns) => Preceded(t, AuthRuns, F)
  BY ONLY PrecededNone
<1>11. ~Some(t, F) => Followed(t, F, AuthRuns)
  BY ONLY FollowedNone
<1> HIDE DEF c, p, o, r, F
<1>12. p = << >> \/ Preceded(t, AuthRuns, F)
  BY ONLY <1>4, <1>6, <1>8, <1>10
<1>13. s.calls = << >> \/ Followed(t, F, AuthRuns)
  BY ONLY <1>3, <1>6, <1>7, <1>11
<1>14. ~r => p = << >> /\ (Some(t, Gates("f2k")) => Some(t, AuthRuns))
  BY ONLY <1>4, <1>6, <1>9
<1>15. Outs(s)
  BY ONLY <1>1, <1>4 DEF Outs, p, o
<1> QED
  BY ONLY <1>1, <1>4, <1>12, <1>13, <1>14, <1>15 DEF F2kFine, p, o, r, F

LEMMA F2kKept ==
  ASSUME NEW q, Sound(q), F2kFine(q), Lasts(q), CanStep(q), NEW s, s = Succ(q)
  PROVE  F2kFine(s)
BY F2kStepKept, F2kCallKept

-----------------------------------------------------------------------------
(* The end.  Every product of a permutation is followed by the check of      *)
(* what the products left, and the destructor's steps check the rest.       *)

Factors == {c \in CallSet : c.do = "product"}
Sweeps  == {c \in CallSet : c.do = "products"}

Settled(q) == Some(q.calls, Sweeps)

Accounted(q) ==
  /\ Followed(q.calls, Factors, Sweeps)
  /\ q.pend["prod"] # << >> \/ Some(q.todo, Gates("prod")) =>
       Settled(q) \/ (Some(q.todo, Folds("prod")) /\ ~Some(q.todo, Gates("prod")))
  /\ Some(q.todo, Closings) => \A k \in Kind : q.pend[k] = << >> \/ Some(q.todo, Folds(k))

LEMMA SomeHead ==
  ASSUME NEW S, NEW s \in Seq(S), s # << >>, NEW X, Some(s, X)
  PROVE  Head(s) \in X \/ Some(Tail(s), X)
<1> DEFINE t == Tail(s)  n == Len(s)
<1>0. /\ n \in Nat /\ n >= 1 /\ DOMAIN s = 1 .. n /\ Head(s) = s[1] /\ DOMAIN t = 1 .. n - 1
      /\ \A i \in 1 .. n - 1 : t[i] = s[i + 1]
  BY ListIs
<1> HIDE DEF t, n
<1>1. PICK i \in DOMAIN s : s[i] \in X
  BY DEF Some
<1>2. CASE i = 1
  BY ONLY <1>0, <1>1, <1>2
<1>3. CASE i # 1
  <2>1. i - 1 \in DOMAIN t /\ t[i - 1] = s[i]
    BY ONLY <1>0, <1>3, i \in DOMAIN s
  <2> QED
    BY ONLY <1>1, <2>1 DEF Some, t
<1> QED
  BY <1>2, <1>3

\* A permutation's calls end with the check of its products.
LEMMA PermuteFollowed ==
  ASSUME NEW n \in Nat, Permute(n) \in Seq(CallSet)
  PROVE  Followed(Permute(n), Factors, Sweeps)
<1> DEFINE S == {x \in CallSet : x.do \in {"product", "f2kmul"}}  b == <<Call("open", 1), Call("products", 1)>>
<1>1. PICK a \in Seq(S) : Permute(n) = a \o b
  BY PermuteForm
<1>2. S \subseteq CallSet
  OBVIOUS
<1> HIDE DEF S
<1>3. Call("open", 1) \in CallSet /\ Call("products", 1) \in CallSet
  BY CallIs DEF CallNames
<1>4. ~Some(b, Factors) /\ Some(b, Sweeps)
  BY ONLY <1>3 DEF Some, Factors, Sweeps, Call
<1>5. a \in Seq(CallSet) /\ b \in Seq(CallSet)
  BY ONLY <1>2, <1>3, a \in Seq(S), WiderSeq, TwoTyped
<1> HIDE DEF b
<1>6. Followed(b, Factors, Sweeps)
  BY ONLY <1>4, FollowedNone
<1> QED
  BY ONLY <1>1, <1>4, <1>5, <1>6, FollowedCat

LEMMA FollowedCalls ==
  ASSUME NEW q, Types(q), Fits(q), CanStep(q), Idle(q), Followed(q.calls, Factors, Sweeps)
  PROVE  /\ Followed(CallsAfter(q), Factors, Sweeps)
         /\ Head(q.calls).do = "product" => Some(CallsAfter(q), Sweeps)
         /\ Some(q.calls, Sweeps) => Head(q.calls).do = "products" \/ Some(CallsAfter(q), Sweeps)
<1> DEFINE c == Head(q.calls)  a == Inner(Buf(q), c)  b == Tail(q.calls)
<1>1. /\ CallsAfter(q) = a \o b /\ b \in Seq(CallSet) /\ q.calls \in Seq(CallSet) /\ q.calls # << >>
      /\ c \in CallSet /\ c.n \in Nat
      /\ Permutes(c) => a = Permute(c.n) /\ Permute(c.n) \in Seq(CallSet)
      /\ ~Permutes(c) => a \in Seq({x \in CallSet : x.do = "and" /\ c.do = "and"})
  BY CallsForm
<1>2. a \in Seq(CallSet)
  BY InnerNoDestroy
<1>3. Followed(b, Factors, Sweeps) /\ (c \in Factors => Some(b, Sweeps))
  BY ONLY <1>1, Followed(q.calls, Factors, Sweeps), FollowedTail
<1>h. Some(q.calls, Sweeps) => c \in Sweeps \/ Some(b, Sweeps)
  BY ONLY <1>1, SomeHead
<1> HIDE DEF a, b, c
<1>4. Followed(a, Factors, Sweeps)
  <2>1. CASE Permutes(c)
    BY ONLY <1>1, <2>1, PermuteFollowed
  <2>2. CASE ~Permutes(c)
    <3> DEFINE S == {x \in CallSet : x.do = "and" /\ c.do = "and"}
    <3>1. Factors \cap S = {}
      BY DEF Factors
    <3>2. a \in Seq(S)
      BY ONLY <1>1, <2>2
    <3> HIDE DEF S
    <3> QED
      BY ONLY <3>1, <3>2, NoneIn, FollowedNone
  <2> QED
    BY <2>1, <2>2
<1>5. Followed(a \o b, Factors, Sweeps)
  BY ONLY <1>1, <1>2, <1>3, <1>4, FollowedCat
<1>6. Some(b, Sweeps) => Some(a \o b, Sweeps)
  BY ONLY <1>1, <1>2, SomeLater
<1>7. (c.do = "product" => c \in Factors) /\ (c \in Sweeps => c.do = "products")
  BY ONLY <1>1 DEF Factors, Sweeps
<1> QED
  BY ONLY <1>1, <1>3, <1>5, <1>6, <1>7, <1>h DEF c

LEMMA PendChange ==
  ASSUME NEW q, Types(q), NEW s, s = Succ(q), NEW k \in Kind
  PROVE  /\ Does(q, "fold") /\ Head(q.todo).kind = k => s.pend[k] = << >>
         /\ \/ s.pend[k] = q.pend[k]
            \/ Does(q, "fold") /\ Head(q.todo).kind = k
            \/ Does(q, "issue") /\ Head(q.todo).kind = k
<1> DEFINE h == Head(q.todo).kind  x == q.pend[h] \o Ids(q)
<1>1. s.pend = (IF Does(q, "issue") THEN [q.pend EXCEPT ![h] = x]
                ELSE IF Does(q, "fold") THEN [q.pend EXCEPT ![h] = << >>] ELSE q.pend)
  BY SuccIs DEF PendAfter
<1>2. q.pend \in [Kind -> Seq(Nat)]
  BY DEF Types
<1>3. Does(q, "fold") => ~Does(q, "issue")
  BY DEF Does
<1> HIDE DEF h, x
<1>4. /\ Does(q, "fold") /\ h = k => s.pend[k] = << >>
      /\ s.pend[k] = q.pend[k] \/ (Does(q, "fold") /\ h = k) \/ (Does(q, "issue") /\ h = k)
  BY ONLY <1>1, <1>2, <1>3, k \in Kind
<1> QED
  BY ONLY <1>4 DEF h

LEMMA EndStepKept ==
  ASSUME NEW q, Sound(q), Accounted(q), CanStep(q), ~Idle(q), NEW s, s = Succ(q)
  PROVE  Accounted(s)
<1>0. Types(q) /\ Shaped(q.todo) /\ "prod" \in Kind
  BY KindsAre DEF Sound
<1>s. s.todo = TodoAfter(q) /\ s.calls = q.calls
  BY SuccIs DEF CallsAfter
<1>e. Does(q, "issue") => s.todo = << >>
  BY <1>0, <1>s, EndAtHand
<1>h. /\ q.todo \in Seq(Step) /\ q.todo # << >>
      /\ \A k : Head(q.todo) \in Gates(k) <=> Does(q, "issue") /\ Head(q.todo).kind = k
      /\ \A k : Head(q.todo) \in Folds(k) <=> Does(q, "fold") /\ Head(q.todo).kind = k
  BY <1>0, HandIs
<1>p. ASSUME NEW k \in Kind
      PROVE  /\ Head(q.todo) \in Folds(k) => s.pend[k] = << >>
             /\ s.pend[k] = q.pend[k] \/ Head(q.todo) \in Folds(k) \/ Head(q.todo) \in Gates(k)
  BY ONLY <1>0, <1>h, s = Succ(q), k \in Kind, PendChange
<1>f. ASSUME NEW k, Some(q.todo, Folds(k)) PROVE Some(s.todo, Folds(k)) \/ Head(q.todo) \in Folds(k)
  BY ONLY <1>0, <1>s, <1>f, ~Idle(q), SomeSet, SomeAfter
<1>q. /\ Followed(q.calls, Factors, Sweeps)
      /\ q.pend["prod"] # << >> \/ Some(q.todo, Gates("prod")) =>
           Settled(q) \/ (Some(q.todo, Folds("prod")) /\ ~Some(q.todo, Gates("prod")))
      /\ Some(q.todo, Closings) => \A k \in Kind : q.pend[k] = << >> \/ Some(q.todo, Folds(k))
  BY DEF Accounted
<1>c. Settled(s) <=> Settled(q)
  BY ONLY <1>s DEF Settled
<1>1. ASSUME s.pend["prod"] # << >> \/ Some(s.todo, Gates("prod")), ~Settled(s)
      PROVE  Some(s.todo, Folds("prod")) /\ ~Some(s.todo, Gates("prod"))
  <2>1. ~Some(q.todo, Gates("prod"))
    BY ONLY <1>1, <1>c, <1>q
  <2>2. ~Some(s.todo, Gates("prod"))
    BY ONLY <1>0, <1>s, <2>1, ~Idle(q), SomeSet, SomeAfter
  <2>3. Head(q.todo) \notin Gates("prod")
    BY ONLY <1>h, <2>1, SomeTail
  <2>4. Head(q.todo) \notin Folds("prod") /\ q.pend["prod"] # << >>
    BY ONLY <1>0, <1>1, <1>p, <2>2, <2>3
  <2>5. Some(q.todo, Folds("prod"))
    BY ONLY <1>1, <1>c, <1>q, <2>4
  <2> QED
    BY ONLY <1>f, <2>2, <2>4, <2>5
<1>2. ASSUME Some(s.todo, Closings), NEW k \in Kind PROVE s.pend[k] = << >> \/ Some(s.todo, Folds(k))
  <2>1. Some(q.todo, Closings)
    BY ONLY <1>0, <1>2, <1>s, ~Idle(q), SomeSet, SomeAfter
  <2>2. ~Does(q, "issue")
    <3>1. ~Some(<< >>, Closings)
      BY DEF Some
    <3> QED
      BY ONLY <1>2, <1>e, <3>1
  <2>3. Head(q.todo) \notin Gates(k)
    BY ONLY <1>h, <2>2
  <2>4. q.pend[k] = << >> \/ Some(q.todo, Folds(k))
    BY ONLY <1>q, <2>1, k \in Kind
  <2> QED
    BY ONLY <1>f, <1>p, <2>3, <2>4, k \in Kind
<1> QED
  BY ONLY <1>q, <1>s, <1>1, <1>2 DEF Accounted

LEMMA EndCallKept ==
  ASSUME NEW q, Sound(q), Accounted(q), Lasts(q), CanStep(q), Idle(q), NEW s, s = Succ(q)
  PROVE  Accounted(s)
<1> DEFINE c == Head(q.calls)  e == Buf(q)  t == Steps(e, c)
<1>0. Types(q) /\ Fits(q)
  BY DEF Sound
<1>1. s.todo = t /\ s.pend = q.pend /\ s.calls = CallsAfter(q)
  <2>1. s.todo = Steps(Buf(q), Head(q.calls)) /\ SameGates(q, s)
    BY SuccCall
  <2>2. s.pend = q.pend
    BY ONLY <2>1 DEF SameGates
  <2> QED
    BY ONLY <2>1, <2>2, s = Succ(q), SuccIs
<1>2. /\ c \in CallSet /\ q.calls # << >> /\ e.pend = q.pend
      /\ e.pend \in [Kind -> Seq(Nat)] /\ Len(e.pend["and"]) <= CHECK_SZ /\ Take(e, c.n) \in Nat
  BY <1>0, CallShaped
<1>n. \A X : ~Some(q.todo, X)
  <2>1. DOMAIN q.todo = {}
    BY DEF Idle
  <2> QED
    BY ONLY <2>1 DEF Some
<1>q. /\ Followed(q.calls, Factors, Sweeps)
      /\ q.pend["prod"] # << >> => Some(q.calls, Sweeps)
  BY <1>n DEF Accounted, Settled
<1>3. /\ Followed(s.calls, Factors, Sweeps)
      /\ c.do = "product" => Some(s.calls, Sweeps)
      /\ Some(q.calls, Sweeps) => c.do = "products" \/ Some(s.calls, Sweeps)
  BY <1>0, <1>1, <1>q, FollowedCalls
<1>d. c.do = "destroy" => s.calls = << >>
  BY <1>0, LastsKept
<1> HIDE DEF t
<1>g. /\ Some(t, Gates("prod")) => c.do = "product"
      /\ Some(t, Closings) => c.do = "destroy"
  BY ONLY <1>2, GatesIn DEF t
<1>p. \A k : Pending(e, k) <=> q.pend[k] # << >>
  BY ONLY <1>2 DEF Pending
<1>4. ASSUME s.pend["prod"] # << >> \/ Some(t, Gates("prod")), ~Settled(s)
      PROVE  Some(t, Folds("prod")) /\ ~Some(t, Gates("prod"))
  <2>1. ~Some(s.calls, Sweeps)
    BY ONLY <1>4 DEF Settled
  <2>2. ~Some(t, Gates("prod"))
    BY ONLY <1>3, <1>g, <2>1
  <2>3. c.do = "products" /\ q.pend["prod"] # << >>
    BY ONLY <1>1, <1>3, <1>4, <1>q, <2>1, <2>2
  <2>4. Some(t, Folds("prod"))
    BY ONLY <1>p, <2>3, ProductsSteps DEF t
  <2> QED
    BY ONLY <2>2, <2>4
<1>5. ASSUME Some(t, Closings), NEW k \in Kind PROVE s.pend[k] = << >> \/ Some(t, Folds(k))
  <2>1. c.do = "destroy"
    BY ONLY <1>5, <1>g
  <2>2. q.pend["prod"] = << >>
    <3>1. ~Some(<< >>, Sweeps)
      BY DEF Some
    <3>2. ~Some(q.calls, Sweeps)
      BY ONLY <1>3, <1>d, <2>1, <3>1
    <3> QED
      BY ONLY <1>q, <3>2
  <2>3. k \in {"f2k", "and", "poly"} /\ Pending(e, k) => Some(Steps(e, c), Folds(k))
    BY ONLY <2>1, DestroySteps
  <2>4. k \in {"f2k", "and", "poly"} \/ k = "prod"
    BY ONLY k \in Kind DEF Kind
  <2> QED
    BY ONLY <1>1, <1>p, <2>2, <2>3, <2>4 DEF t
<1> QED
  BY ONLY <1>1, <1>3, <1>4, <1>5 DEF Accounted

LEMMA EndKept ==
  ASSUME NEW q, Sound(q), Accounted(q), Lasts(q), CanStep(q), NEW s, s = Succ(q)
  PROVE  Accounted(s)
BY EndStepKept, EndCallKept

-----------------------------------------------------------------------------
(* A party and the machine.                                                *)

Indexed ==
  /\ DOMAIN calls = Party /\ DOMAIN todo = Party /\ DOMAIN reg = Party /\ DOMAIN hash = Party
  /\ DOMAIN issued = Party /\ DOMAIN pend = Party /\ DOMAIN checked = Party /\ DOMAIN f2k = Party
  /\ DOMAIN used = Party /\ DOMAIN hold = Party /\ DOMAIN off = Party /\ DOMAIN flushed = Party
  /\ DOMAIN done = Party /\ DOMAIN wire = Party /\ DOMAIN got = Party /\ DOMAIN bits = Party
  /\ DOMAIN cuts = Party /\ DOMAIN log = Party /\ DOMAIN seeds = Party

Follows(p, q) == Indexed /\ Sound(q) /\ Matches(p, q)

LEMMA HeadDoes ==
  ASSUME NEW p \in Party, NEW q, SameControl(p, q), NEW x
  PROVE  /\ At(p, x) <=> Does(q, x)
         /\ todo[p] = << >> <=> Idle(q)
         /\ Head(todo[p]) = Head(q.todo)
BY DEF SameControl, At, Does, Idle

LEMMA SharedAt ==
  ASSUME NEW p \in Party, NEW q, Follows(p, q)
  PROVE  Indexed /\ SameControl(p, q) /\ SameBuffers(p, q) /\ SameNet(p, q) /\ Types(q) /\ HeadLed(q)
BY DEF Follows, Matches, Sound

\* p has done what the machine does, without a transfer or a flush.
LEMMA QuietNet ==
  ASSUME NEW p, NEW q, NEW s, SameNet(p, q), ~flushed[p],
         bits'[p] = bits[p], wire'[p] = wire[p], got'[p] = got[p], cuts'[p] = cuts[p],
         log'[p] = log[p], flushed'[p] = flushed[p], staged' = staged,
         s.bits = q.bits, s.wire = q.wire, s.log = q.log, s.staged = q.staged, s.cuts = q.cuts,
         seeds'[p] = s.seeds
  PROVE  SameNet(p, s)'
BY DEF SameNet

LEMMA BeginCallIs ==
  ASSUME NEW p \in Party, NEW q, Follows(p, q), BeginCall(p), NEW s, s = Succ(q)
  PROVE  CanStep(q) /\ Matches(p, s)'
<1>1. Indexed /\ SameControl(p, q) /\ SameBuffers(p, q) /\ SameNet(p, q) /\ Types(q) /\ HeadLed(q)
  BY SharedAt
<1>2. Idle(q)
  BY <1>1, HeadDoes DEF BeginCall, Waits, Refills, TakesCots, Closes, SameControl, SameNet, Flushing
<1>3. CanStep(q)
  BY <1>1, <1>2 DEF CanStep, Does, Idle, Waits, Refills, TakesCots, Closes, BeginCall, SameControl
<1>s. /\ s.mode = q.mode /\ s.calls = Inner(Buf(q), Head(q.calls)) \o Tail(q.calls)
      /\ s.todo = Steps(Buf(q), Head(q.calls))
      /\ s.reg = q.reg /\ s.done = q.done /\ s.cuts = q.cuts /\ s.staged = q.staged /\ s.seeds = q.seeds
      /\ SameGates(q, s) /\ SameDraws(q, s) /\ SameMoves(q, s)
  BY ONLY <1>2, SuccCall, s = Succ(q)
<1>4. /\ mode' = mode
      /\ calls'[p] = Inner(Buffers(p), Head(calls[p])) \o Tail(calls[p])
      /\ todo'[p] = Steps(Buffers(p), Head(calls[p]))
      /\ used'[p] = used[p]
      /\ hold'[p] = hold[p]
      /\ off'[p] = off[p]
      /\ done'[p] = done[p]
  BY <1>1 DEF Indexed, BeginCall, Next1, drawVars, pipeVars
<1>5. /\ reg'[p] = reg[p]
      /\ issued'[p] = issued[p]
      /\ pend'[p] = pend[p]
      /\ checked'[p] = checked[p]
      /\ f2k'[p] = f2k[p]
      /\ hash'[p] = hash[p]
  BY <1>1 DEF Indexed, BeginCall, gateVars
<1>6. /\ bits'[p] = bits[p]
      /\ seeds'[p] = seeds[p]
      /\ wire'[p] = wire[p]
      /\ got'[p] = got[p]
      /\ cuts'[p] = cuts[p]
      /\ log'[p] = log[p]
      /\ flushed'[p] = flushed[p]
      /\ staged' = staged
  BY <1>1 DEF Indexed, BeginCall, FlushAll, netVars, drawVars, ALICE, BOB
<1>7. SameControl(p, s)'
  <2>1. /\ s.mode = q.mode
        /\ s.calls = Inner(Buf(q), Head(q.calls)) \o Tail(q.calls)
        /\ s.todo = Steps(Buf(q), Head(q.calls))
        /\ s.used = q.used
        /\ s.hold = q.hold
        /\ s.off = q.off
        /\ s.done = q.done
    BY ONLY <1>s DEF SameDraws
  <2>2. /\ mode = q.mode
        /\ calls[p] = q.calls
        /\ todo[p] = q.todo
        /\ used[p] = q.used
        /\ hold[p] = q.hold
        /\ off[p] = q.off
        /\ done[p] = q.done
    BY ONLY <1>1 DEF SameControl
  <2>3. Buffers(p) = Buf(q)
    BY ONLY <1>1 DEF SameControl, SameBuffers, Buffers, Buf
  <2> QED
    BY ONLY <1>4, <2>1, <2>2, <2>3 DEF SameControl
<1>8. SameBuffers(p, s)'
  <2>1. /\ s.reg = q.reg
        /\ s.issued = q.issued
        /\ s.pend = q.pend
        /\ s.checked = q.checked
        /\ s.f2k = q.f2k
        /\ s.hash = q.hash
    BY ONLY <1>s DEF SameGates
  <2>2. /\ reg[p] = q.reg
        /\ issued[p] = q.issued
        /\ pend[p] = q.pend
        /\ checked[p] = q.checked
        /\ f2k[p] = q.f2k
        /\ hash[p] = q.hash
    BY ONLY <1>1 DEF SameBuffers
  <2> QED
    BY ONLY <1>5, <2>1, <2>2 DEF SameBuffers
<1>9. SameNet(p, s)'
  <2>1. s.bits = q.bits /\ s.seeds = q.seeds /\ s.wire = q.wire /\ s.log = q.log /\ s.staged = q.staged
        /\ s.cuts = q.cuts
    BY ONLY <1>s DEF SameMoves
  <2>2. ~flushed[p]
    BY ONLY <1>1, <1>2 DEF SameNet, Flushing, Waits, Refills, TakesCots, Closes, Does, Idle
  <2>3. seeds[p] = q.seeds
    BY ONLY <1>1 DEF SameNet
  <2> QED
    BY ONLY <1>1, <1>6, <2>1, <2>2, <2>3, QuietNet
<1> QED
  BY <1>3, <1>7, <1>8, <1>9 DEF Matches

LEMMA DoFlushIs ==
  ASSUME NEW p \in Party, NEW q, Follows(p, q), DoFlush(p), NEW s, s = Succ(q)
  PROVE  CanStep(q) /\ Matches(p, s)'
<1>1. Indexed /\ SameControl(p, q) /\ SameBuffers(p, q) /\ SameNet(p, q) /\ Types(q) /\ HeadLed(q)
  BY SharedAt
<1>2. Does(q, "flush")
  BY <1>1, HeadDoes DEF DoFlush, Waits, Refills, TakesCots, Closes, SameControl, SameNet, Flushing
<1>3. CanStep(q)
  BY <1>1, <1>2 DEF CanStep, Does, Idle, Waits, Refills, TakesCots, Closes, DoFlush, SameControl
<1>s. /\ s.mode = q.mode /\ s.calls = q.calls /\ s.todo = Tail(q.todo)
      /\ s.reg = q.reg /\ s.seeds = q.seeds /\ s.done = q.done
      /\ s.cuts = q.cuts \cup {q.bits}
      /\ s.staged = << >>
      /\ SameGates(q, s)
      /\ SameDraws(q, s)
      /\ SameMoves(q, s)
  BY ONLY <1>2, SuccFlush, s = Succ(q)
<1>4. /\ mode' = mode
      /\ calls'[p] = calls[p]
      /\ todo'[p] = Tail(todo[p])
      /\ used'[p] = used[p]
      /\ hold'[p] = hold[p]
      /\ off'[p] = off[p]
      /\ done'[p] = done[p]
  BY <1>1 DEF Indexed, DoFlush, Next1, drawVars, pipeVars
<1>5. /\ reg'[p] = reg[p]
      /\ issued'[p] = issued[p]
      /\ pend'[p] = pend[p]
      /\ checked'[p] = checked[p]
      /\ f2k'[p] = f2k[p]
      /\ hash'[p] = hash[p]
  BY <1>1 DEF Indexed, DoFlush, gateVars
<1>6. /\ bits'[p] = bits[p]
      /\ seeds'[p] = seeds[p]
      /\ wire'[p] = wire[p]
      /\ got'[p] = got[p]
      /\ cuts'[p] = cuts[p] \cup {bits[p]}
      /\ log'[p] = (IF p = ALICE THEN log[p] \o staged ELSE log[p])
      /\ flushed'[p] = flushed[p]
      /\ staged' = (IF p = ALICE THEN << >> ELSE staged)
  BY <1>1 DEF Indexed, DoFlush, FlushAll, netVars, drawVars, ALICE, BOB
<1>7. SameControl(p, s)'
  <2>1. /\ s.mode = q.mode
        /\ s.calls = q.calls
        /\ s.todo = Tail(q.todo)
        /\ s.used = q.used
        /\ s.hold = q.hold
        /\ s.off = q.off
        /\ s.done = q.done
    BY ONLY <1>s DEF SameDraws
  <2>2. /\ mode = q.mode
        /\ calls[p] = q.calls
        /\ todo[p] = q.todo
        /\ used[p] = q.used
        /\ hold[p] = q.hold
        /\ off[p] = q.off
        /\ done[p] = q.done
    BY ONLY <1>1 DEF SameControl
  <2> QED
    BY ONLY <1>4, <2>1, <2>2 DEF SameControl
<1>8. SameBuffers(p, s)'
  <2>1. /\ s.reg = q.reg
        /\ s.issued = q.issued
        /\ s.pend = q.pend
        /\ s.checked = q.checked
        /\ s.f2k = q.f2k
        /\ s.hash = q.hash
    BY ONLY <1>s DEF SameGates
  <2>2. /\ reg[p] = q.reg
        /\ issued[p] = q.issued
        /\ pend[p] = q.pend
        /\ checked[p] = q.checked
        /\ f2k[p] = q.f2k
        /\ hash[p] = q.hash
    BY ONLY <1>1 DEF SameBuffers
  <2> QED
    BY ONLY <1>5, <2>1, <2>2 DEF SameBuffers
<1>9. SameNet(p, s)'
  <2>1. s.bits = q.bits /\ s.seeds = q.seeds /\ s.wire = q.wire /\ s.log = q.log /\ s.staged = << >>
        /\ s.cuts = q.cuts \cup {q.bits}
    BY ONLY <1>s DEF SameMoves
  <2>2. ~flushed[p]
    BY ONLY <1>1, <1>2 DEF SameNet, Flushing, Waits, Does
  <2>3. p = ALICE => /\ staged \in Seq(Entry) /\ log[p] \in Seq(Entry)
                     /\ log[p] \o staged \in Seq(Entry) /\ (log[p] \o staged) \o << >> = q.log
    BY ONLY <1>1, <2>2, CatTyped, ConcatEmptySeq DEF SameNet, Types
  <2>4. p = ALICE => log'[p] = log[p] \o staged /\ staged' = << >>
    BY ONLY <1>6
  <2>5. p # ALICE => log'[p] = log[p]
    BY ONLY <1>6
  <2> QED
    BY ONLY <1>1, <1>6, <2>1, <2>2, <2>3, <2>4, <2>5 DEF SameNet
<1> QED
  BY <1>3, <1>7, <1>8, <1>9 DEF Matches

LEMMA DoSeedIs ==
  ASSUME NEW p \in Party, NEW q, Follows(p, q), DoSeed(p), NEW s, s = Succ(q)
  PROVE  CanStep(q) /\ Matches(p, s)'
<1>1. Indexed /\ SameControl(p, q) /\ SameBuffers(p, q) /\ SameNet(p, q) /\ Types(q) /\ HeadLed(q)
  BY SharedAt
<1>2. Does(q, "seed")
  BY <1>1, HeadDoes DEF DoSeed, Waits, Refills, TakesCots, Closes, SameControl, SameNet, Flushing
<1>3. CanStep(q)
  BY <1>1, <1>2 DEF CanStep, Does, Idle, Waits, Refills, TakesCots, Closes, DoSeed, SameControl
<1>s. /\ s.mode = q.mode /\ s.calls = q.calls /\ s.todo = Tail(q.todo)
      /\ s.reg = q.reg /\ s.cuts = q.cuts /\ s.staged = q.staged /\ s.done = q.done
      /\ s.seeds = Append(q.seeds, [use |-> Head(q.todo).use, tweak |-> Tweak(Head(q.todo).use), log |-> q.log, moved |-> Moved(q)])
      /\ SameGates(q, s)
      /\ SameDraws(q, s)
      /\ SameMoves(q, s)
  BY ONLY <1>2, SuccSeed, s = Succ(q)
<1>4. /\ mode' = mode
      /\ calls'[p] = calls[p]
      /\ todo'[p] = Tail(todo[p])
      /\ used'[p] = used[p]
      /\ hold'[p] = hold[p]
      /\ off'[p] = off[p]
      /\ done'[p] = done[p]
  BY <1>1 DEF Indexed, DoSeed, Next1, drawVars, pipeVars
<1>5. /\ reg'[p] = reg[p]
      /\ issued'[p] = issued[p]
      /\ pend'[p] = pend[p]
      /\ checked'[p] = checked[p]
      /\ f2k'[p] = f2k[p]
      /\ hash'[p] = hash[p]
  BY <1>1 DEF Indexed, DoSeed, gateVars
<1>6. /\ bits'[p] = bits[p]
      /\ seeds'[p] = Append(seeds[p], [use |-> Head(todo[p]).use, tweak |-> Tweak(Head(todo[p]).use), log |-> log[p], moved |-> Len(wire[p]) + got[p]])
      /\ wire'[p] = wire[p]
      /\ got'[p] = got[p]
      /\ cuts'[p] = cuts[p]
      /\ log'[p] = log[p]
      /\ flushed'[p] = flushed[p]
      /\ staged' = staged
  BY <1>1 DEF Indexed, DoSeed, FlushAll, netVars, drawVars, ALICE, BOB
<1>7. SameControl(p, s)'
  <2>1. /\ s.mode = q.mode
        /\ s.calls = q.calls
        /\ s.todo = Tail(q.todo)
        /\ s.used = q.used
        /\ s.hold = q.hold
        /\ s.off = q.off
        /\ s.done = q.done
    BY ONLY <1>s DEF SameDraws
  <2>2. /\ mode = q.mode
        /\ calls[p] = q.calls
        /\ todo[p] = q.todo
        /\ used[p] = q.used
        /\ hold[p] = q.hold
        /\ off[p] = q.off
        /\ done[p] = q.done
    BY ONLY <1>1 DEF SameControl
  <2> QED
    BY ONLY <1>4, <2>1, <2>2 DEF SameControl
<1>8. SameBuffers(p, s)'
  <2>1. /\ s.reg = q.reg
        /\ s.issued = q.issued
        /\ s.pend = q.pend
        /\ s.checked = q.checked
        /\ s.f2k = q.f2k
        /\ s.hash = q.hash
    BY ONLY <1>s DEF SameGates
  <2>2. /\ reg[p] = q.reg
        /\ issued[p] = q.issued
        /\ pend[p] = q.pend
        /\ checked[p] = q.checked
        /\ f2k[p] = q.f2k
        /\ hash[p] = q.hash
    BY ONLY <1>1 DEF SameBuffers
  <2> QED
    BY ONLY <1>5, <2>1, <2>2 DEF SameBuffers
<1>9. SameNet(p, s)'
  <2>1. s.bits = q.bits /\ s.wire = q.wire /\ s.log = q.log /\ s.staged = q.staged /\ s.cuts = q.cuts
    BY ONLY <1>s DEF SameMoves
  <2>2. ~flushed[p]
    BY ONLY <1>1, <1>2 DEF SameNet, Flushing, Waits, Does
  <2>3. log[p] = q.log
    <3>1. p = ALICE => staged = << >> /\ log[p] \in Seq(Entry) /\ log[p] \o staged = q.log
      BY ONLY <1>1, <1>2, <2>2 DEF SameNet, HeadLed
    <3> QED
      BY ONLY <1>1, <3>1, ConcatEmptySeq DEF SameNet
  <2>4. Len(wire[p]) + got[p] = Moved(q)
    <3>1. wire[p] = q.wire[p] /\ got[p] = Len(q.wire[Peer(p)]) /\ p \in Party
      BY ONLY <1>1, p \in Party DEF SameNet
    <3>2. q.wire[ALICE] \in Seq(Msg) /\ q.wire[BOB] \in Seq(Msg)
      BY ONLY <1>1, KindsAre DEF Types
    <3>3. Len(q.wire[ALICE]) \in Nat /\ Len(q.wire[BOB]) \in Nat
      BY ONLY <3>2, LenProperties
    <3>4. \/ p = ALICE /\ Peer(p) = BOB
          \/ p = BOB /\ Peer(p) = ALICE
      BY ONLY p \in Party DEF Peer, Party, ALICE, BOB
    <3>5. CASE p = ALICE /\ Peer(p) = BOB
      BY ONLY <3>1, <3>5 DEF Moved
    <3>6. CASE p = BOB /\ Peer(p) = ALICE
      <4>1. Len(wire[p]) = Len(q.wire[BOB]) /\ got[p] = Len(q.wire[ALICE])
        BY ONLY <3>1, <3>6
      <4> DEFINE a == Len(q.wire[ALICE])  b == Len(q.wire[BOB])  x == Len(wire[p])  y == got[p]
      <4>2. a \in Nat /\ b \in Nat /\ x = b /\ y = a
        BY ONLY <3>3, <4>1
      <4> HIDE DEF a, b, x, y
      <4>3. x + y = a + b
        BY ONLY <4>2
      <4> QED
        BY ONLY <4>3 DEF a, b, x, y, Moved
    <3> QED
      BY ONLY <3>4, <3>5, <3>6
  <2>5. seeds'[p] = s.seeds
    <3>1. s.seeds = Append(q.seeds, [use |-> Head(q.todo).use, tweak |-> Tweak(Head(q.todo).use), log |-> q.log, moved |-> Moved(q)])
      BY ONLY <1>s
    <3>2. seeds[p] = q.seeds /\ Head(todo[p]) = Head(q.todo)
      BY ONLY <1>1 DEF SameNet, SameControl
    <3> QED
      BY ONLY <1>6, <2>3, <2>4, <3>1, <3>2
  <2> QED
    BY ONLY <1>1, <1>6, <2>1, <2>2, <2>5, QuietNet
<1> QED
  BY <1>3, <1>7, <1>8, <1>9 DEF Matches

LEMMA AcquireReadyIs ==
  ASSUME NEW p \in Party, NEW q, Follows(p, q), AcquireReady(p), NEW s, s = Succ(q)
  PROVE  CanStep(q) /\ Matches(p, s)'
<1>1. Indexed /\ SameControl(p, q) /\ SameBuffers(p, q) /\ SameNet(p, q) /\ Types(q) /\ HeadLed(q)
  BY SharedAt
<1>2. Waits(q)
  <2>1. At(p, "draw") /\ flushed[p]
    BY DEF AcquireReady
  <2>2. Does(q, "draw")
    BY ONLY <1>1, <2>1, HeadDoes, p \in Party
  <2>3. Flushing(p, q) /\ ~Does(q, "move")
    BY ONLY <1>1, <2>1, <2>2 DEF SameNet, Does
  <2> QED
    BY ONLY <2>3 DEF Flushing
<1>3. CanStep(q)
  BY <1>1, <1>2 DEF CanStep, Does, Idle, Waits, Refills, TakesCots, Closes, AcquireReady, SameControl
<1>s. /\ s.mode = q.mode /\ s.calls = q.calls /\ s.todo = q.todo
      /\ s.reg = q.reg /\ s.seeds = q.seeds /\ s.done = q.done
      /\ s.cuts = q.cuts \cup {q.bits}
      /\ s.staged = << >>
      /\ SameGates(q, s)
      /\ s.used = q.used
      /\ s.hold = TRUE
      /\ s.off = 0
      /\ SameMoves(q, s)
  BY ONLY <1>2, SuccWait, s = Succ(q)
<1>4. /\ mode' = mode
      /\ calls'[p] = calls[p]
      /\ todo'[p] = todo[p]
      /\ used'[p] = used[p]
      /\ hold'[p] = TRUE
      /\ off'[p] = 0
      /\ done'[p] = done[p]
  BY <1>1 DEF Indexed, AcquireReady, Next1, drawVars, pipeVars
<1>5. /\ reg'[p] = reg[p]
      /\ issued'[p] = issued[p]
      /\ pend'[p] = pend[p]
      /\ checked'[p] = checked[p]
      /\ f2k'[p] = f2k[p]
      /\ hash'[p] = hash[p]
  BY <1>1 DEF Indexed, AcquireReady, gateVars
<1>6. /\ bits'[p] = bits[p]
      /\ seeds'[p] = seeds[p]
      /\ wire'[p] = wire[p]
      /\ got'[p] = got[p]
      /\ cuts'[p] = cuts[p]
      /\ log'[p] = log[p]
      /\ flushed'[p] = FALSE
      /\ staged' = staged
  BY <1>1 DEF Indexed, AcquireReady, FlushAll, netVars, drawVars, ALICE, BOB
<1>7. SameControl(p, s)'
  <2>1. /\ s.mode = q.mode
        /\ s.calls = q.calls
        /\ s.todo = q.todo
        /\ s.used = q.used
        /\ s.hold = TRUE
        /\ s.off = 0
        /\ s.done = q.done
    BY ONLY <1>s DEF SameDraws
  <2>2. /\ mode = q.mode
        /\ calls[p] = q.calls
        /\ todo[p] = q.todo
        /\ used[p] = q.used
        /\ hold[p] = q.hold
        /\ off[p] = q.off
        /\ done[p] = q.done
    BY ONLY <1>1 DEF SameControl
  <2> QED
    BY ONLY <1>4, <2>1, <2>2 DEF SameControl
<1>8. SameBuffers(p, s)'
  <2>1. /\ s.reg = q.reg
        /\ s.issued = q.issued
        /\ s.pend = q.pend
        /\ s.checked = q.checked
        /\ s.f2k = q.f2k
        /\ s.hash = q.hash
    BY ONLY <1>s DEF SameGates
  <2>2. /\ reg[p] = q.reg
        /\ issued[p] = q.issued
        /\ pend[p] = q.pend
        /\ checked[p] = q.checked
        /\ f2k[p] = q.f2k
        /\ hash[p] = q.hash
    BY ONLY <1>1 DEF SameBuffers
  <2> QED
    BY ONLY <1>5, <2>1, <2>2 DEF SameBuffers
<1>9. SameNet(p, s)'
  <2>1. s.bits = q.bits /\ s.seeds = q.seeds /\ s.wire = q.wire /\ s.log = q.log /\ s.staged = << >>
        /\ s.cuts = q.cuts \cup {q.bits}
    BY ONLY <1>s DEF SameMoves
  <2>2. flushed[p]
    BY DEF AcquireReady
  <2> QED
    BY ONLY <1>1, <1>6, <2>1, <2>2 DEF SameNet
<1> QED
  BY <1>3, <1>7, <1>8, <1>9 DEF Matches

LEMMA RefillIs ==
  ASSUME NEW p \in Party, NEW q, Follows(p, q), Refill(p), NEW s, s = Succ(q)
  PROVE  CanStep(q) /\ Matches(p, s)'
<1>1. Indexed /\ SameControl(p, q) /\ SameBuffers(p, q) /\ SameNet(p, q) /\ Types(q) /\ HeadLed(q)
  BY SharedAt
<1>2. Refills(q)
  BY <1>1, HeadDoes DEF Refill, Waits, Refills, TakesCots, Closes, SameControl, SameNet, Flushing
<1>3. CanStep(q)
  BY <1>1, <1>2 DEF CanStep, Does, Idle, Waits, Refills, TakesCots, Closes, Refill, SameControl
<1>s. /\ s.mode = q.mode /\ s.calls = q.calls /\ s.todo = ((IF q.mode = "stream" /\ q.used % PerRound = 0 THEN Exchange("round") ELSE << >>)
                  \o <<Fill>> \o q.todo)
      /\ s.reg = q.reg /\ s.cuts = q.cuts /\ s.staged = q.staged /\ s.seeds = q.seeds /\ s.done = q.done
      /\ SameGates(q, s)
      /\ SameDraws(q, s)
      /\ SameMoves(q, s)
  BY ONLY <1>2, SuccRefill, s = Succ(q)
<1>4. /\ mode' = mode
      /\ calls'[p] = calls[p]
      /\ todo'[p] = (IF mode = "stream" /\ used[p] % PerRound = 0 THEN Exchange("round") ELSE << >>)
                     \o <<Fill>> \o todo[p]
      /\ used'[p] = used[p]
      /\ hold'[p] = hold[p]
      /\ off'[p] = off[p]
      /\ done'[p] = done[p]
  BY <1>1 DEF Indexed, Refill, Next1, drawVars, pipeVars
<1>5. /\ reg'[p] = reg[p]
      /\ issued'[p] = issued[p]
      /\ pend'[p] = pend[p]
      /\ checked'[p] = checked[p]
      /\ f2k'[p] = f2k[p]
      /\ hash'[p] = hash[p]
  BY <1>1 DEF Indexed, Refill, gateVars
<1>6. /\ bits'[p] = bits[p]
      /\ seeds'[p] = seeds[p]
      /\ wire'[p] = wire[p]
      /\ got'[p] = got[p]
      /\ cuts'[p] = cuts[p]
      /\ log'[p] = log[p]
      /\ flushed'[p] = flushed[p]
      /\ staged' = staged
  BY <1>1 DEF Indexed, Refill, FlushAll, netVars, drawVars, ALICE, BOB
<1>7. SameControl(p, s)'
  <2>1. /\ s.mode = q.mode
        /\ s.calls = q.calls
        /\ s.todo = (IF q.mode = "stream" /\ q.used % PerRound = 0 THEN Exchange("round") ELSE << >>)
                     \o <<Fill>> \o q.todo
        /\ s.used = q.used
        /\ s.hold = q.hold
        /\ s.off = q.off
        /\ s.done = q.done
    BY ONLY <1>s DEF SameDraws
  <2>2. /\ mode = q.mode
        /\ calls[p] = q.calls
        /\ todo[p] = q.todo
        /\ used[p] = q.used
        /\ hold[p] = q.hold
        /\ off[p] = q.off
        /\ done[p] = q.done
    BY ONLY <1>1 DEF SameControl
  <2> QED
    BY ONLY <1>4, <2>1, <2>2 DEF SameControl
<1>8. SameBuffers(p, s)'
  <2>1. /\ s.reg = q.reg
        /\ s.issued = q.issued
        /\ s.pend = q.pend
        /\ s.checked = q.checked
        /\ s.f2k = q.f2k
        /\ s.hash = q.hash
    BY ONLY <1>s DEF SameGates
  <2>2. /\ reg[p] = q.reg
        /\ issued[p] = q.issued
        /\ pend[p] = q.pend
        /\ checked[p] = q.checked
        /\ f2k[p] = q.f2k
        /\ hash[p] = q.hash
    BY ONLY <1>1 DEF SameBuffers
  <2> QED
    BY ONLY <1>5, <2>1, <2>2 DEF SameBuffers
<1>9. SameNet(p, s)'
  <2>1. s.bits = q.bits /\ s.seeds = q.seeds /\ s.wire = q.wire /\ s.log = q.log /\ s.staged = q.staged
        /\ s.cuts = q.cuts
    BY ONLY <1>s DEF SameMoves
  <2>2. ~flushed[p]
    BY ONLY <1>1, <1>2 DEF SameNet, Flushing, Waits, Refills, TakesCots, Closes, Does, Idle
  <2>3. seeds[p] = q.seeds
    BY ONLY <1>1 DEF SameNet
  <2> QED
    BY ONLY <1>1, <1>6, <2>1, <2>2, <2>3, QuietNet
<1> QED
  BY <1>3, <1>7, <1>8, <1>9 DEF Matches

LEMMA DoFillIs ==
  ASSUME NEW p \in Party, NEW q, Follows(p, q), DoFill(p), NEW s, s = Succ(q)
  PROVE  CanStep(q) /\ Matches(p, s)'
<1>1. Indexed /\ SameControl(p, q) /\ SameBuffers(p, q) /\ SameNet(p, q) /\ Types(q) /\ HeadLed(q)
  BY SharedAt
<1>2. Does(q, "fill")
  BY <1>1, HeadDoes DEF DoFill, Waits, Refills, TakesCots, Closes, SameControl, SameNet, Flushing
<1>3. CanStep(q)
  BY <1>1, <1>2 DEF CanStep, Does, Idle, Waits, Refills, TakesCots, Closes, DoFill, SameControl
<1>s. /\ s.mode = q.mode /\ s.calls = q.calls /\ s.todo = Tail(q.todo)
      /\ s.reg = q.reg /\ s.cuts = q.cuts /\ s.staged = q.staged /\ s.seeds = q.seeds /\ s.done = q.done
      /\ SameGates(q, s)
      /\ s.used = q.used
      /\ s.hold = TRUE
      /\ s.off = 0
      /\ SameMoves(q, s)
  BY ONLY <1>2, SuccFill, s = Succ(q)
<1>4. /\ mode' = mode
      /\ calls'[p] = calls[p]
      /\ todo'[p] = Tail(todo[p])
      /\ used'[p] = used[p]
      /\ hold'[p] = TRUE
      /\ off'[p] = 0
      /\ done'[p] = done[p]
  BY <1>1 DEF Indexed, DoFill, Next1, drawVars, pipeVars
<1>5. /\ reg'[p] = reg[p]
      /\ issued'[p] = issued[p]
      /\ pend'[p] = pend[p]
      /\ checked'[p] = checked[p]
      /\ f2k'[p] = f2k[p]
      /\ hash'[p] = hash[p]
  BY <1>1 DEF Indexed, DoFill, gateVars
<1>6. /\ bits'[p] = bits[p]
      /\ seeds'[p] = seeds[p]
      /\ wire'[p] = wire[p]
      /\ got'[p] = got[p]
      /\ cuts'[p] = cuts[p]
      /\ log'[p] = log[p]
      /\ flushed'[p] = flushed[p]
      /\ staged' = staged
  BY <1>1 DEF Indexed, DoFill, FlushAll, netVars, drawVars, ALICE, BOB
<1>7. SameControl(p, s)'
  <2>1. /\ s.mode = q.mode
        /\ s.calls = q.calls
        /\ s.todo = Tail(q.todo)
        /\ s.used = q.used
        /\ s.hold = TRUE
        /\ s.off = 0
        /\ s.done = q.done
    BY ONLY <1>s DEF SameDraws
  <2>2. /\ mode = q.mode
        /\ calls[p] = q.calls
        /\ todo[p] = q.todo
        /\ used[p] = q.used
        /\ hold[p] = q.hold
        /\ off[p] = q.off
        /\ done[p] = q.done
    BY ONLY <1>1 DEF SameControl
  <2> QED
    BY ONLY <1>4, <2>1, <2>2 DEF SameControl
<1>8. SameBuffers(p, s)'
  <2>1. /\ s.reg = q.reg
        /\ s.issued = q.issued
        /\ s.pend = q.pend
        /\ s.checked = q.checked
        /\ s.f2k = q.f2k
        /\ s.hash = q.hash
    BY ONLY <1>s DEF SameGates
  <2>2. /\ reg[p] = q.reg
        /\ issued[p] = q.issued
        /\ pend[p] = q.pend
        /\ checked[p] = q.checked
        /\ f2k[p] = q.f2k
        /\ hash[p] = q.hash
    BY ONLY <1>1 DEF SameBuffers
  <2> QED
    BY ONLY <1>5, <2>1, <2>2 DEF SameBuffers
<1>9. SameNet(p, s)'
  <2>1. s.bits = q.bits /\ s.seeds = q.seeds /\ s.wire = q.wire /\ s.log = q.log /\ s.staged = q.staged
        /\ s.cuts = q.cuts
    BY ONLY <1>s DEF SameMoves
  <2>2. ~flushed[p]
    BY ONLY <1>1, <1>2 DEF SameNet, Flushing, Waits, Refills, TakesCots, Closes, Does, Idle
  <2>3. seeds[p] = q.seeds
    BY ONLY <1>1 DEF SameNet
  <2> QED
    BY ONLY <1>1, <1>6, <2>1, <2>2, <2>3, QuietNet
<1> QED
  BY <1>3, <1>7, <1>8, <1>9 DEF Matches

LEMMA CopyIs ==
  ASSUME NEW p \in Party, NEW q, Follows(p, q), Copy(p), NEW s, s = Succ(q)
  PROVE  CanStep(q) /\ Matches(p, s)'
<1> DEFINE m == Lesser(Head(todo[p]).n, Batch - off[p])
<1>1. Indexed /\ SameControl(p, q) /\ SameBuffers(p, q) /\ SameNet(p, q) /\ Types(q) /\ HeadLed(q)
  BY SharedAt
<1>2. TakesCots(q)
  BY <1>1, HeadDoes DEF Copy, Waits, Refills, TakesCots, Closes, SameControl, SameNet, Flushing
<1>3. CanStep(q)
  BY <1>1, <1>2 DEF CanStep, Does, Idle, Waits, Refills, TakesCots, Closes, Copy, SameControl
<1>s. /\ s.mode = q.mode /\ s.calls = q.calls /\ s.todo = (IF Piece(q) = Head(q.todo).n THEN Tail(q.todo)
                  ELSE <<Draw(Head(q.todo).n - Piece(q))>> \o Tail(q.todo))
      /\ s.cuts = q.cuts /\ s.staged = q.staged /\ s.seeds = q.seeds /\ s.done = q.done
      /\ s.reg = q.reg \o [k \in 1 .. Piece(q) |-> <<"cot", q.used * Batch + q.off + k - 1>>]
      /\ SameGates(q, s)
      /\ s.used = (IF q.off + Piece(q) = Batch THEN q.used + 1 ELSE q.used)
      /\ s.hold = (IF q.off + Piece(q) = Batch THEN FALSE ELSE q.hold)
      /\ s.off = (IF q.off + Piece(q) = Batch THEN 0 ELSE q.off + Piece(q))
      /\ SameMoves(q, s)
  BY ONLY <1>2, SuccCopy, s = Succ(q)
<1>4. /\ mode' = mode
      /\ calls'[p] = calls[p]
      /\ todo'[p] = (IF m = Head(todo[p]).n THEN Tail(todo[p]) ELSE <<Draw(Head(todo[p]).n - m)>> \o Tail(todo[p]))
      /\ used'[p] = (IF off[p] + m = Batch THEN used[p] + 1 ELSE used[p])
      /\ hold'[p] = (IF off[p] + m = Batch THEN FALSE ELSE hold[p])
      /\ off'[p] = (IF off[p] + m = Batch THEN 0 ELSE off[p] + m)
      /\ done'[p] = done[p]
  BY <1>1 DEF Indexed, Copy, Next1, drawVars, pipeVars
<1>5. /\ reg'[p] = reg[p] \o [k \in 1 .. m |-> <<"cot", used[p] * Batch + off[p] + k - 1>>]
      /\ issued'[p] = issued[p]
      /\ pend'[p] = pend[p]
      /\ checked'[p] = checked[p]
      /\ f2k'[p] = f2k[p]
      /\ hash'[p] = hash[p]
  BY <1>1 DEF Indexed, Copy, gateVars
<1>6. /\ bits'[p] = bits[p]
      /\ seeds'[p] = seeds[p]
      /\ wire'[p] = wire[p]
      /\ got'[p] = got[p]
      /\ cuts'[p] = cuts[p]
      /\ log'[p] = log[p]
      /\ flushed'[p] = flushed[p]
      /\ staged' = staged
  BY <1>1 DEF Indexed, Copy, FlushAll, netVars, drawVars, ALICE, BOB
<1>7. SameControl(p, s)'
  <2>1. /\ s.mode = q.mode
        /\ s.calls = q.calls
        /\ s.todo = (IF Piece(q) = Head(q.todo).n THEN Tail(q.todo)
                     ELSE <<Draw(Head(q.todo).n - Piece(q))>> \o Tail(q.todo))
        /\ s.used = (IF q.off + Piece(q) = Batch THEN q.used + 1 ELSE q.used)
        /\ s.hold = (IF q.off + Piece(q) = Batch THEN FALSE ELSE q.hold)
        /\ s.off = (IF q.off + Piece(q) = Batch THEN 0 ELSE q.off + Piece(q))
        /\ s.done = q.done
    BY ONLY <1>s DEF SameDraws
  <2>2. /\ mode = q.mode
        /\ calls[p] = q.calls
        /\ todo[p] = q.todo
        /\ used[p] = q.used
        /\ hold[p] = q.hold
        /\ off[p] = q.off
        /\ done[p] = q.done
    BY ONLY <1>1 DEF SameControl
  <2>3. m = Piece(q)
    BY ONLY <1>1 DEF SameControl, Piece
  <2> QED
    BY ONLY <1>4, <2>1, <2>2, <2>3 DEF SameControl
<1>8. SameBuffers(p, s)'
  <2>1. /\ s.reg = q.reg \o [k \in 1 .. Piece(q) |-> <<"cot", q.used * Batch + q.off + k - 1>>]
        /\ s.issued = q.issued
        /\ s.pend = q.pend
        /\ s.checked = q.checked
        /\ s.f2k = q.f2k
        /\ s.hash = q.hash
    BY ONLY <1>s DEF SameGates
  <2>2. /\ reg[p] = q.reg
        /\ issued[p] = q.issued
        /\ pend[p] = q.pend
        /\ checked[p] = q.checked
        /\ f2k[p] = q.f2k
        /\ hash[p] = q.hash
    BY ONLY <1>1 DEF SameBuffers
  <2>3. m = Piece(q) /\ used[p] = q.used /\ off[p] = q.off
    BY ONLY <1>1 DEF SameControl, Piece
  <2> HIDE DEF m
  <2> QED
    BY ONLY <1>5, <2>1, <2>2, <2>3 DEF SameBuffers
<1>9. SameNet(p, s)'
  <2>1. s.bits = q.bits /\ s.seeds = q.seeds /\ s.wire = q.wire /\ s.log = q.log /\ s.staged = q.staged
        /\ s.cuts = q.cuts
    BY ONLY <1>s DEF SameMoves
  <2>2. ~flushed[p]
    BY ONLY <1>1, <1>2 DEF SameNet, Flushing, Waits, Refills, TakesCots, Closes, Does, Idle
  <2>3. seeds[p] = q.seeds
    BY ONLY <1>1 DEF SameNet
  <2> QED
    BY ONLY <1>1, <1>6, <2>1, <2>2, <2>3, QuietNet
<1> QED
  BY <1>3, <1>7, <1>8, <1>9 DEF Matches

LEMMA DoIssueIs ==
  ASSUME NEW p \in Party, NEW q, Follows(p, q), DoIssue(p), NEW s, s = Succ(q)
  PROVE  CanStep(q) /\ Matches(p, s)'
<1> DEFINE k == Head(todo[p]).kind  n == Head(todo[p]).n  new == [i \in 1 .. n |-> issued[p][k] + i]
<1>1. Indexed /\ SameControl(p, q) /\ SameBuffers(p, q) /\ SameNet(p, q) /\ Types(q) /\ HeadLed(q)
  BY SharedAt
<1>2. Does(q, "issue")
  BY <1>1, HeadDoes DEF DoIssue, Waits, Refills, TakesCots, Closes, SameControl, SameNet, Flushing
<1>3. CanStep(q)
  BY <1>1, <1>2 DEF CanStep, Does, Idle, Waits, Refills, TakesCots, Closes, DoIssue, SameControl
<1>s. /\ s.mode = q.mode /\ s.calls = q.calls /\ s.todo = Tail(q.todo)
      /\ s.reg = q.reg /\ s.cuts = q.cuts /\ s.staged = q.staged /\ s.seeds = q.seeds /\ s.done = q.done
      /\ s.checked = q.checked /\ s.hash = q.hash
      /\ s.issued = [q.issued EXCEPT ![Head(q.todo).kind] = @ + Head(q.todo).n]
      /\ s.pend = [q.pend EXCEPT ![Head(q.todo).kind] = @ \o Ids(q)]
      /\ s.f2k = (IF Head(q.todo).kind = "f2k" THEN [q.f2k EXCEPT !.outs = @ \o Ids(q)] ELSE q.f2k)
      /\ SameDraws(q, s)
      /\ SameMoves(q, s)
  BY ONLY <1>2, SuccIssue, s = Succ(q)
<1>4. /\ mode' = mode
      /\ calls'[p] = calls[p]
      /\ todo'[p] = Tail(todo[p])
      /\ used'[p] = used[p]
      /\ hold'[p] = hold[p]
      /\ off'[p] = off[p]
      /\ done'[p] = done[p]
  BY <1>1 DEF Indexed, DoIssue, Next1, drawVars, pipeVars
<1>5. /\ reg'[p] = reg[p]
      /\ issued'[p] = [issued[p] EXCEPT ![k] = @ + n]
      /\ pend'[p] = [pend[p] EXCEPT ![k] = @ \o new]
      /\ checked'[p] = checked[p]
      /\ f2k'[p] = (IF k = "f2k" THEN [f2k[p] EXCEPT !.outs = @ \o new] ELSE f2k[p])
      /\ hash'[p] = hash[p]
  BY <1>1 DEF Indexed, DoIssue, gateVars
<1>6. /\ bits'[p] = bits[p]
      /\ seeds'[p] = seeds[p]
      /\ wire'[p] = wire[p]
      /\ got'[p] = got[p]
      /\ cuts'[p] = cuts[p]
      /\ log'[p] = log[p]
      /\ flushed'[p] = flushed[p]
      /\ staged' = staged
  BY <1>1 DEF Indexed, DoIssue, FlushAll, netVars, drawVars, ALICE, BOB
<1>7. SameControl(p, s)'
  <2>1. /\ s.mode = q.mode
        /\ s.calls = q.calls
        /\ s.todo = Tail(q.todo)
        /\ s.used = q.used
        /\ s.hold = q.hold
        /\ s.off = q.off
        /\ s.done = q.done
    BY ONLY <1>s DEF SameDraws
  <2>2. /\ mode = q.mode
        /\ calls[p] = q.calls
        /\ todo[p] = q.todo
        /\ used[p] = q.used
        /\ hold[p] = q.hold
        /\ off[p] = q.off
        /\ done[p] = q.done
    BY ONLY <1>1 DEF SameControl
  <2> QED
    BY ONLY <1>4, <2>1, <2>2 DEF SameControl
<1>8. SameBuffers(p, s)'
  <2>1. /\ s.reg = q.reg
        /\ s.issued = [q.issued EXCEPT ![Head(q.todo).kind] = @ + Head(q.todo).n]
        /\ s.pend = [q.pend EXCEPT ![Head(q.todo).kind] = @ \o Ids(q)]
        /\ s.checked = q.checked
        /\ s.f2k = (IF Head(q.todo).kind = "f2k" THEN [q.f2k EXCEPT !.outs = @ \o Ids(q)] ELSE q.f2k)
        /\ s.hash = q.hash
    BY ONLY <1>s DEF SameGates
  <2>2. /\ reg[p] = q.reg
        /\ issued[p] = q.issued
        /\ pend[p] = q.pend
        /\ checked[p] = q.checked
        /\ f2k[p] = q.f2k
        /\ hash[p] = q.hash
    BY ONLY <1>1 DEF SameBuffers
  <2>3. k = Head(q.todo).kind /\ n = Head(q.todo).n /\ new = Ids(q)
    BY ONLY <1>1 DEF SameControl, SameBuffers, Ids
  <2> HIDE DEF k, n, new
  <2> QED
    BY ONLY <1>5, <2>1, <2>2, <2>3 DEF SameBuffers
<1>9. SameNet(p, s)'
  <2>1. s.bits = q.bits /\ s.seeds = q.seeds /\ s.wire = q.wire /\ s.log = q.log /\ s.staged = q.staged
        /\ s.cuts = q.cuts
    BY ONLY <1>s DEF SameMoves
  <2>2. ~flushed[p]
    BY ONLY <1>1, <1>2 DEF SameNet, Flushing, Waits, Refills, TakesCots, Closes, Does, Idle
  <2>3. seeds[p] = q.seeds
    BY ONLY <1>1 DEF SameNet
  <2> QED
    BY ONLY <1>1, <1>6, <2>1, <2>2, <2>3, QuietNet
<1> QED
  BY <1>3, <1>7, <1>8, <1>9 DEF Matches

LEMMA DoFoldIs ==
  ASSUME NEW p \in Party, NEW q, Follows(p, q), DoFold(p), NEW s, s = Succ(q)
  PROVE  CanStep(q) /\ Matches(p, s)'
<1> DEFINE k == Head(todo[p]).kind
<1>1. Indexed /\ SameControl(p, q) /\ SameBuffers(p, q) /\ SameNet(p, q) /\ Types(q) /\ HeadLed(q)
  BY SharedAt
<1>2. Does(q, "fold")
  BY <1>1, HeadDoes DEF DoFold, Waits, Refills, TakesCots, Closes, SameControl, SameNet, Flushing
<1>3. CanStep(q)
  BY <1>1, <1>2 DEF CanStep, Does, Idle, Waits, Refills, TakesCots, Closes, DoFold, SameControl
<1>s. /\ s.mode = q.mode /\ s.calls = q.calls /\ s.todo = Tail(q.todo)
      /\ s.reg = q.reg /\ s.cuts = q.cuts /\ s.staged = q.staged /\ s.seeds = q.seeds /\ s.done = q.done
      /\ s.issued = q.issued /\ s.f2k = q.f2k /\ s.hash = q.hash
      /\ s.pend = [q.pend EXCEPT ![Head(q.todo).kind] = << >>]
      /\ s.checked = [q.checked EXCEPT ![Head(q.todo).kind] = @ \o Pairs(q, Head(q.todo).kind)]
      /\ SameDraws(q, s)
      /\ SameMoves(q, s)
  BY ONLY <1>2, SuccFold, s = Succ(q), ZenonT(40)
<1>4. /\ mode' = mode
      /\ calls'[p] = calls[p]
      /\ todo'[p] = Tail(todo[p])
      /\ used'[p] = used[p]
      /\ hold'[p] = hold[p]
      /\ off'[p] = off[p]
      /\ done'[p] = done[p]
  BY <1>1 DEF Indexed, DoFold, Next1, drawVars, pipeVars
<1>5. /\ reg'[p] = reg[p]
      /\ issued'[p] = issued[p]
      /\ pend'[p] = [pend[p] EXCEPT ![k] = << >>]
      /\ checked'[p] = [checked[p] EXCEPT ![k] = @ \o Coefficients(p, k)]
      /\ f2k'[p] = f2k[p]
      /\ hash'[p] = hash[p]
  BY <1>1 DEF Indexed, DoFold, gateVars
<1>6. /\ bits'[p] = bits[p]
      /\ seeds'[p] = seeds[p]
      /\ wire'[p] = wire[p]
      /\ got'[p] = got[p]
      /\ cuts'[p] = cuts[p]
      /\ log'[p] = log[p]
      /\ flushed'[p] = flushed[p]
      /\ staged' = staged
  BY <1>1 DEF Indexed, DoFold, FlushAll, netVars, drawVars, ALICE, BOB
<1>7. SameControl(p, s)'
  <2>1. /\ s.mode = q.mode
        /\ s.calls = q.calls
        /\ s.todo = Tail(q.todo)
        /\ s.used = q.used
        /\ s.hold = q.hold
        /\ s.off = q.off
        /\ s.done = q.done
    BY ONLY <1>s DEF SameDraws
  <2>2. /\ mode = q.mode
        /\ calls[p] = q.calls
        /\ todo[p] = q.todo
        /\ used[p] = q.used
        /\ hold[p] = q.hold
        /\ off[p] = q.off
        /\ done[p] = q.done
    BY ONLY <1>1 DEF SameControl
  <2> QED
    BY ONLY <1>4, <2>1, <2>2 DEF SameControl
<1>8. SameBuffers(p, s)'
  <2>1. /\ s.reg = q.reg
        /\ s.issued = q.issued
        /\ s.pend = [q.pend EXCEPT ![Head(q.todo).kind] = << >>]
        /\ s.checked = [q.checked EXCEPT ![Head(q.todo).kind] = @ \o Pairs(q, Head(q.todo).kind)]
        /\ s.f2k = q.f2k
        /\ s.hash = q.hash
    BY ONLY <1>s DEF SameGates
  <2>2. /\ reg[p] = q.reg
        /\ issued[p] = q.issued
        /\ pend[p] = q.pend
        /\ checked[p] = q.checked
        /\ f2k[p] = q.f2k
        /\ hash[p] = q.hash
    BY ONLY <1>1 DEF SameBuffers
  <2>3. k = Head(q.todo).kind /\ Coefficients(p, k) = Pairs(q, Head(q.todo).kind)
    BY ONLY <1>1 DEF SameControl, SameBuffers, Coefficients, OutputOf, Pairs, Output
  <2> QED
    BY ONLY <1>5, <2>1, <2>2, <2>3 DEF SameBuffers
<1>9. SameNet(p, s)'
  <2>1. s.bits = q.bits /\ s.seeds = q.seeds /\ s.wire = q.wire /\ s.log = q.log /\ s.staged = q.staged
        /\ s.cuts = q.cuts
    BY ONLY <1>s DEF SameMoves
  <2>2. ~flushed[p]
    BY ONLY <1>1, <1>2 DEF SameNet, Flushing, Waits, Refills, TakesCots, Closes, Does, Idle
  <2>3. seeds[p] = q.seeds
    BY ONLY <1>1 DEF SameNet
  <2> QED
    BY ONLY <1>1, <1>6, <2>1, <2>2, <2>3, QuietNet
<1> QED
  BY <1>3, <1>7, <1>8, <1>9 DEF Matches

LEMMA DoRunIs ==
  ASSUME NEW p \in Party, NEW q, Follows(p, q), DoRun(p), NEW s, s = Succ(q)
  PROVE  CanStep(q) /\ Matches(p, s)'
<1>1. Indexed /\ SameControl(p, q) /\ SameBuffers(p, q) /\ SameNet(p, q) /\ Types(q) /\ HeadLed(q)
  BY SharedAt
<1>2. Does(q, "run")
  BY <1>1, HeadDoes DEF DoRun, Waits, Refills, TakesCots, Closes, SameControl, SameNet, Flushing
<1>3. CanStep(q)
  BY <1>1, <1>2 DEF CanStep, Does, Idle, Waits, Refills, TakesCots, Closes, DoRun, SameControl
<1>s. /\ s.mode = q.mode /\ s.calls = q.calls /\ s.todo = Tail(q.todo)
      /\ s.reg = q.reg /\ s.cuts = q.cuts /\ s.staged = q.staged /\ s.seeds = q.seeds /\ s.done = q.done
      /\ s.issued = q.issued /\ s.pend = q.pend /\ s.checked = q.checked /\ s.hash = q.hash
      /\ s.f2k = RunAfter(q)
      /\ SameDraws(q, s)
      /\ SameMoves(q, s)
  BY ONLY <1>2, SuccRun, s = Succ(q)
<1>4. /\ mode' = mode
      /\ calls'[p] = calls[p]
      /\ todo'[p] = Tail(todo[p])
      /\ used'[p] = used[p]
      /\ hold'[p] = hold[p]
      /\ off'[p] = off[p]
      /\ done'[p] = done[p]
  BY <1>1 DEF Indexed, DoRun, Next1, drawVars, pipeVars
<1>5. /\ reg'[p] = reg[p]
      /\ issued'[p] = issued[p]
      /\ pend'[p] = pend[p]
      /\ checked'[p] = checked[p]
      /\ f2k'[p] = (IF Head(todo[p]).buf = "auth"
                  THEN [f2k[p] EXCEPT !.ready = TRUE, !.runs = @ + 1, !.base = f2k[p].runs * F2K_SZ, !.outs = << >>]
                  ELSE [f2k[p] EXCEPT !.runs = @ + 1, !.inBase = f2k[p].runs * F2K_SZ, !.inCnt = 0])
      /\ hash'[p] = hash[p]
  <2>1. reg' = reg /\ issued' = issued /\ pend' = pend /\ checked' = checked /\ hash' = hash
    BY DEF DoRun
  <2>2. f2k'[p] = (IF Head(todo[p]).buf = "auth"
                  THEN [f2k[p] EXCEPT !.ready = TRUE, !.runs = @ + 1, !.base = f2k[p].runs * F2K_SZ, !.outs = << >>]
                  ELSE [f2k[p] EXCEPT !.runs = @ + 1, !.inBase = f2k[p].runs * F2K_SZ, !.inCnt = 0])
    <3> DEFINE v == (IF Head(todo[p]).buf = "auth"
                  THEN [f2k[p] EXCEPT !.ready = TRUE, !.runs = @ + 1, !.base = f2k[p].runs * F2K_SZ, !.outs = << >>]
                  ELSE [f2k[p] EXCEPT !.runs = @ + 1, !.inBase = f2k[p].runs * F2K_SZ, !.inCnt = 0])
    <3>1. f2k' = [f2k EXCEPT ![p] = v]
      <4>1. DoRun(p)
        OBVIOUS
      <4> QED
        BY ONLY <4>1 DEF DoRun, v
    <3>2. p \in DOMAIN f2k
      BY <1>1 DEF Indexed
    <3> HIDE DEF v
    <3>3. f2k'[p] = v
      BY ONLY <3>1, <3>2
    <3> QED
      BY ONLY <3>3 DEF v
  <2> QED
    BY ONLY <2>1, <2>2
<1>6. /\ bits'[p] = bits[p]
      /\ seeds'[p] = seeds[p]
      /\ wire'[p] = wire[p]
      /\ got'[p] = got[p]
      /\ cuts'[p] = cuts[p]
      /\ log'[p] = log[p]
      /\ flushed'[p] = flushed[p]
      /\ staged' = staged
  BY <1>1 DEF Indexed, DoRun, FlushAll, netVars, drawVars, ALICE, BOB
<1>7. SameControl(p, s)'
  <2>1. /\ s.mode = q.mode
        /\ s.calls = q.calls
        /\ s.todo = Tail(q.todo)
        /\ s.used = q.used
        /\ s.hold = q.hold
        /\ s.off = q.off
        /\ s.done = q.done
    BY ONLY <1>s DEF SameDraws
  <2>2. /\ mode = q.mode
        /\ calls[p] = q.calls
        /\ todo[p] = q.todo
        /\ used[p] = q.used
        /\ hold[p] = q.hold
        /\ off[p] = q.off
        /\ done[p] = q.done
    BY ONLY <1>1 DEF SameControl
  <2> QED
    BY ONLY <1>4, <2>1, <2>2 DEF SameControl
<1>8. SameBuffers(p, s)'
  <2>1. /\ s.reg = q.reg
        /\ s.issued = q.issued
        /\ s.pend = q.pend
        /\ s.checked = q.checked
        /\ s.f2k = RunAfter(q)
        /\ s.hash = q.hash
    BY ONLY <1>s DEF SameGates
  <2>2. /\ reg[p] = q.reg
        /\ issued[p] = q.issued
        /\ pend[p] = q.pend
        /\ checked[p] = q.checked
        /\ f2k[p] = q.f2k
        /\ hash[p] = q.hash
    BY ONLY <1>1 DEF SameBuffers
  <2>3. (IF Head(todo[p]).buf = "auth"
                  THEN [f2k[p] EXCEPT !.ready = TRUE, !.runs = @ + 1, !.base = f2k[p].runs * F2K_SZ, !.outs = << >>]
                  ELSE [f2k[p] EXCEPT !.runs = @ + 1, !.inBase = f2k[p].runs * F2K_SZ, !.inCnt = 0]) = RunAfter(q)
    BY ONLY <1>1 DEF SameControl, SameBuffers, RunAfter
  <2> QED
    BY ONLY <1>5, <2>1, <2>2, <2>3 DEF SameBuffers
<1>9. SameNet(p, s)'
  <2>1. s.bits = q.bits /\ s.seeds = q.seeds /\ s.wire = q.wire /\ s.log = q.log /\ s.staged = q.staged
        /\ s.cuts = q.cuts
    BY ONLY <1>s DEF SameMoves
  <2>2. ~flushed[p]
    BY ONLY <1>1, <1>2 DEF SameNet, Flushing, Waits, Refills, TakesCots, Closes, Does, Idle
  <2>3. seeds[p] = q.seeds
    BY ONLY <1>1 DEF SameNet
  <2> QED
    BY ONLY <1>1, <1>6, <2>1, <2>2, <2>3, QuietNet
<1> QED
  BY <1>3, <1>7, <1>8, <1>9 DEF Matches

LEMMA FinishPipeIs ==
  ASSUME NEW p \in Party, NEW q, Follows(p, q), FinishPipe(p), NEW s, s = Succ(q)
  PROVE  CanStep(q) /\ Matches(p, s)'
<1>1. Indexed /\ SameControl(p, q) /\ SameBuffers(p, q) /\ SameNet(p, q) /\ Types(q) /\ HeadLed(q)
  BY SharedAt
<1>2. Closes(q)
  BY <1>1, HeadDoes DEF FinishPipe, Waits, Refills, TakesCots, Closes, SameControl, SameNet, Flushing
<1>3. CanStep(q)
  BY <1>1, <1>2 DEF CanStep, Does, Idle, Waits, Refills, TakesCots, Closes, FinishPipe, SameControl
<1>s. /\ s.mode = q.mode /\ s.calls = q.calls /\ s.todo = q.todo
      /\ s.reg = q.reg /\ s.cuts = q.cuts /\ s.staged = q.staged /\ s.seeds = q.seeds
      /\ s.done = TRUE
      /\ SameGates(q, s)
      /\ s.off = q.off
      /\ s.used = (IF q.hold /\ q.mode = "background" THEN q.used + 1 ELSE q.used)
      /\ s.hold = (IF q.mode = "background" THEN FALSE ELSE q.hold)
      /\ SameMoves(q, s)
  BY ONLY <1>2, SuccClose, s = Succ(q)
<1>4. /\ mode' = mode
      /\ calls'[p] = calls[p]
      /\ todo'[p] = todo[p]
      /\ used'[p] = (IF hold[p] /\ mode = "background" THEN used[p] + 1 ELSE used[p])
      /\ hold'[p] = (IF hold[p] /\ mode = "background" THEN FALSE ELSE hold[p])
      /\ off'[p] = off[p]
      /\ done'[p] = TRUE
  BY <1>1 DEF Indexed, FinishPipe, Next1, drawVars, pipeVars
<1>5. /\ reg'[p] = reg[p]
      /\ issued'[p] = issued[p]
      /\ pend'[p] = pend[p]
      /\ checked'[p] = checked[p]
      /\ f2k'[p] = f2k[p]
      /\ hash'[p] = hash[p]
  BY <1>1 DEF Indexed, FinishPipe, gateVars
<1>6. /\ bits'[p] = bits[p]
      /\ seeds'[p] = seeds[p]
      /\ wire'[p] = wire[p]
      /\ got'[p] = got[p]
      /\ cuts'[p] = cuts[p]
      /\ log'[p] = log[p]
      /\ flushed'[p] = flushed[p]
      /\ staged' = staged
  BY <1>1 DEF Indexed, FinishPipe, FlushAll, netVars, drawVars, ALICE, BOB
<1>7. SameControl(p, s)'
  <2>1. /\ s.mode = q.mode
        /\ s.calls = q.calls
        /\ s.todo = q.todo
        /\ s.used = (IF q.hold /\ q.mode = "background" THEN q.used + 1 ELSE q.used)
        /\ s.hold = (IF q.mode = "background" THEN FALSE ELSE q.hold)
        /\ s.off = q.off
        /\ s.done = TRUE
    BY ONLY <1>s DEF SameDraws
  <2>2. /\ mode = q.mode
        /\ calls[p] = q.calls
        /\ todo[p] = q.todo
        /\ used[p] = q.used
        /\ hold[p] = q.hold
        /\ off[p] = q.off
        /\ done[p] = q.done
    BY ONLY <1>1 DEF SameControl
  <2>3. q.hold \in BOOLEAN
    BY ONLY <1>1 DEF Types
  <2> QED
    BY ONLY <1>4, <2>1, <2>2, <2>3 DEF SameControl
<1>8. SameBuffers(p, s)'
  <2>1. /\ s.reg = q.reg
        /\ s.issued = q.issued
        /\ s.pend = q.pend
        /\ s.checked = q.checked
        /\ s.f2k = q.f2k
        /\ s.hash = q.hash
    BY ONLY <1>s DEF SameGates
  <2>2. /\ reg[p] = q.reg
        /\ issued[p] = q.issued
        /\ pend[p] = q.pend
        /\ checked[p] = q.checked
        /\ f2k[p] = q.f2k
        /\ hash[p] = q.hash
    BY ONLY <1>1 DEF SameBuffers
  <2> QED
    BY ONLY <1>5, <2>1, <2>2 DEF SameBuffers
<1>9. SameNet(p, s)'
  <2>1. s.bits = q.bits /\ s.seeds = q.seeds /\ s.wire = q.wire /\ s.log = q.log /\ s.staged = q.staged
        /\ s.cuts = q.cuts
    BY ONLY <1>s DEF SameMoves
  <2>2. ~flushed[p]
    BY ONLY <1>1, <1>2 DEF SameNet, Flushing, Waits, Refills, TakesCots, Closes, Does, Idle
  <2>3. seeds[p] = q.seeds
    BY ONLY <1>1 DEF SameNet
  <2> QED
    BY ONLY <1>1, <1>6, <2>1, <2>2, <2>3, QuietNet
<1> QED
  BY <1>3, <1>7, <1>8, <1>9 DEF Matches

LEMMA JoinProducerIs ==
  ASSUME NEW p \in Party, NEW q, Follows(p, q), JoinProducer(p), NEW s, s = Succ(q)
  PROVE  CanStep(q) /\ Matches(p, s)'
<1>1. Indexed /\ SameControl(p, q) /\ SameBuffers(p, q) /\ SameNet(p, q) /\ Types(q) /\ HeadLed(q)
  BY SharedAt
<1>2. Does(q, "finish") /\ q.done = TRUE
  BY <1>1, HeadDoes DEF JoinProducer, Waits, Refills, TakesCots, Closes, SameControl, SameNet, Flushing
<1>3. CanStep(q)
  BY <1>1, <1>2 DEF CanStep, Does, Idle, Waits, Refills, TakesCots, Closes, JoinProducer, SameControl
<1>s. /\ s.mode = q.mode /\ s.calls = q.calls /\ s.todo = Tail(q.todo)
      /\ s.reg = q.reg /\ s.cuts = q.cuts /\ s.staged = q.staged /\ s.seeds = q.seeds
      /\ s.done = TRUE
      /\ SameGates(q, s)
      /\ SameDraws(q, s)
      /\ SameMoves(q, s)
  BY ONLY <1>2, SuccEnd, s = Succ(q)
<1>4. /\ mode' = mode
      /\ calls'[p] = calls[p]
      /\ todo'[p] = Tail(todo[p])
      /\ used'[p] = used[p]
      /\ hold'[p] = hold[p]
      /\ off'[p] = off[p]
      /\ done'[p] = done[p]
  BY <1>1 DEF Indexed, JoinProducer, Next1, drawVars, pipeVars
<1>5. /\ reg'[p] = reg[p]
      /\ issued'[p] = issued[p]
      /\ pend'[p] = pend[p]
      /\ checked'[p] = checked[p]
      /\ f2k'[p] = f2k[p]
      /\ hash'[p] = hash[p]
  BY <1>1 DEF Indexed, JoinProducer, gateVars
<1>6. /\ bits'[p] = bits[p]
      /\ seeds'[p] = seeds[p]
      /\ wire'[p] = wire[p]
      /\ got'[p] = got[p]
      /\ cuts'[p] = cuts[p]
      /\ log'[p] = log[p]
      /\ flushed'[p] = flushed[p]
      /\ staged' = staged
  BY <1>1 DEF Indexed, JoinProducer, FlushAll, netVars, drawVars, ALICE, BOB
<1>7. SameControl(p, s)'
  <2>1. /\ s.mode = q.mode
        /\ s.calls = q.calls
        /\ s.todo = Tail(q.todo)
        /\ s.used = q.used
        /\ s.hold = q.hold
        /\ s.off = q.off
        /\ s.done = TRUE
    BY ONLY <1>s DEF SameDraws
  <2>2. /\ mode = q.mode
        /\ calls[p] = q.calls
        /\ todo[p] = q.todo
        /\ used[p] = q.used
        /\ hold[p] = q.hold
        /\ off[p] = q.off
        /\ done[p] = q.done
    BY ONLY <1>1 DEF SameControl
  <2>3. q.done = TRUE
    BY ONLY <1>2
  <2> QED
    BY ONLY <1>4, <2>1, <2>2, <2>3 DEF SameControl
<1>8. SameBuffers(p, s)'
  <2>1. /\ s.reg = q.reg
        /\ s.issued = q.issued
        /\ s.pend = q.pend
        /\ s.checked = q.checked
        /\ s.f2k = q.f2k
        /\ s.hash = q.hash
    BY ONLY <1>s DEF SameGates
  <2>2. /\ reg[p] = q.reg
        /\ issued[p] = q.issued
        /\ pend[p] = q.pend
        /\ checked[p] = q.checked
        /\ f2k[p] = q.f2k
        /\ hash[p] = q.hash
    BY ONLY <1>1 DEF SameBuffers
  <2> QED
    BY ONLY <1>5, <2>1, <2>2 DEF SameBuffers
<1>9. SameNet(p, s)'
  <2>1. s.bits = q.bits /\ s.seeds = q.seeds /\ s.wire = q.wire /\ s.log = q.log /\ s.staged = q.staged
        /\ s.cuts = q.cuts
    BY ONLY <1>s DEF SameMoves
  <2>2. ~flushed[p]
    BY ONLY <1>1, <1>2 DEF SameNet, Flushing, Waits, Refills, TakesCots, Closes, Does, Idle
  <2>3. seeds[p] = q.seeds
    BY ONLY <1>1 DEF SameNet
  <2> QED
    BY ONLY <1>1, <1>6, <2>1, <2>2, <2>3, QuietNet
<1> QED
  BY <1>3, <1>7, <1>8, <1>9 DEF Matches

LEMMA PeerIs ==
  ASSUME NEW p \in Party
  PROVE  /\ Peer(p) \in Party /\ Peer(p) # p /\ Peer(Peer(p)) = p /\ ALICE # BOB
         /\ \A o \in Party : o # p => o = Peer(p)
BY DEF Peer, Party, ALICE, BOB

LEMMA MessageIs ==
  ASSUME NEW p \in Party, NEW q, Follows(p, q)
  PROVE  Message(p, Head(todo[p]).what) = Mail(q)
<1>1. SameControl(p, q) /\ SameBuffers(p, q)
  BY SharedAt
<1>2. todo[p] = q.todo /\ reg[p] = q.reg /\ f2k[p] = q.f2k /\ hash[p] = q.hash
  BY ONLY <1>1 DEF SameControl, SameBuffers
<1> QED
  BY ONLY <1>2 DEF Message, Mail

\* The transfer at hand, as p sees it.
Transfer(p, q) ==
  /\ Does(q, "move") /\ Head(todo[p]) = Head(q.todo) /\ q.todo # << >>
  /\ Head(q.todo).from \in Party /\ Head(q.todo).bits \in Nat
  /\ Head(q.todo).from = BOB => Head(q.todo).bits = 0
  /\ q.bits \in Nat /\ bits[p] = q.bits
  /\ wire[p] = q.wire[p] /\ got[p] = Len(q.wire[Peer(p)]) /\ q.wire \in [Party -> Seq(Msg)]
  /\ Mail(q) \in Msg /\ Stamp(q) \in Entry
  /\ flushed[p] => Head(q.todo).from # p /\ Head(q.todo).bits = 0
  /\ cuts[p] = IF flushed[p] THEN q.cuts \cup {q.bits} ELSE q.cuts
  /\ p = ALICE => /\ staged = IF flushed[p] THEN << >> ELSE q.staged
                  /\ log[p] \in Seq(Entry) /\ log[p] \o staged = q.log
  /\ p # ALICE => log[p] = q.log
  /\ q.staged \in Seq(Entry) /\ q.log \in Seq(Entry)

LEMMA TransferAt ==
  ASSUME NEW p \in Party, NEW q, Follows(p, q), At(p, "move")
  PROVE  Transfer(p, q)
<1>1. Indexed /\ SameControl(p, q) /\ SameBuffers(p, q) /\ SameNet(p, q) /\ Types(q)
  BY SharedAt
<1>2. Does(q, "move") /\ Head(todo[p]) = Head(q.todo)
  BY ONLY <1>1, At(p, "move"), p \in Party, HeadDoes
<1>3. q.todo # << >> /\ Head(q.todo).do = "move"
  BY ONLY <1>2 DEF Does
<1>4. Head(q.todo) \in Step
  BY ONLY <1>1, <1>3, AtHand
<1>5. Head(q.todo).from \in Party /\ Head(q.todo).bits \in Nat /\ (Head(q.todo).from = BOB => Head(q.todo).bits = 0)
  BY ONLY <1>3, <1>4, StepIs
<1>6. Mail(q) \in Msg /\ Stamp(q) \in Entry
  BY ONLY <1>1, <1>2, MailTyped
<1>7. q.bits \in Nat /\ q.wire \in [Party -> Seq(Msg)] /\ q.staged \in Seq(Entry) /\ q.log \in Seq(Entry)
  BY ONLY <1>1 DEF Types
<1>8. flushed[p] => Head(q.todo).from # p /\ Head(q.todo).bits = 0
  BY ONLY <1>1, <1>3 DEF SameNet, Flushing, Waits, Does
<1>9. /\ bits[p] = q.bits /\ wire[p] = q.wire[p] /\ got[p] = Len(q.wire[Peer(p)])
      /\ cuts[p] = IF flushed[p] THEN q.cuts \cup {q.bits} ELSE q.cuts
      /\ p = ALICE => /\ staged = IF flushed[p] THEN << >> ELSE q.staged
                      /\ log[p] \in Seq(Entry) /\ log[p] \o staged = q.log
      /\ p # ALICE => log[p] = q.log
  BY ONLY <1>1 DEF SameNet
<1> QED
  BY ONLY <1>2, <1>3, <1>5, <1>6, <1>7, <1>8, <1>9 DEF Transfer

\* What every transfer does to the buffers.
LEMMA AfterTransferIs ==
  ASSUME NEW p \in Party, NEW q, Follows(p, q), At(p, "move"), NEW s, s = Succ(q),
         AfterTransfer(p, Head(todo[p]).what), bits'[p] = q.bits + Head(q.todo).bits
  PROVE  SameBuffers(p, s)'
<1> DEFINE w == Head(q.todo).what
<1>1. Indexed /\ SameBuffers(p, q)
  BY SharedAt
<1>2. Does(q, "move") /\ Head(todo[p]) = Head(q.todo)
  BY TransferAt DEF Transfer
<1>3. /\ s.reg = << >> /\ s.issued = q.issued /\ s.pend = q.pend /\ s.checked = q.checked
      /\ s.f2k = (IF w = "in" THEN [q.f2k EXCEPT !.inCnt = @ + 1] ELSE q.f2k)
      /\ s.hash = (IF w = "val" THEN Append(q.hash, q.bits + Head(q.todo).bits) ELSE q.hash)
  BY ONLY <1>2, s = Succ(q), MoveBuffers
<1> DEFINE b == q.bits + Head(q.todo).bits
<1>4. /\ reg' = [reg EXCEPT ![p] = << >>]
      /\ f2k' = IF w = "in" THEN [f2k EXCEPT ![p].inCnt = @ + 1] ELSE f2k
      /\ hash' = IF w = "val" THEN [hash EXCEPT ![p] = Append(@, b)] ELSE hash
      /\ issued' = issued /\ pend' = pend /\ checked' = checked
  BY <1>2 DEF AfterTransfer
<1>5. p \in DOMAIN reg /\ p \in DOMAIN f2k /\ p \in DOMAIN hash
  BY ONLY <1>1, p \in Party DEF Indexed
<1>6. reg[p] = q.reg /\ issued[p] = q.issued /\ pend[p] = q.pend /\ checked[p] = q.checked
      /\ f2k[p] = q.f2k /\ hash[p] = q.hash
  BY ONLY <1>1 DEF SameBuffers
<1> HIDE DEF w, b
<1>7. reg'[p] = << >>
  BY ONLY <1>4, <1>5
<1>8. f2k'[p] = IF w = "in" THEN [f2k[p] EXCEPT !.inCnt = @ + 1] ELSE f2k[p]
  BY ONLY <1>4, <1>5
<1>9. hash'[p] = IF w = "val" THEN Append(hash[p], b) ELSE hash[p]
  BY ONLY <1>4, <1>5
<1>10. f2k'[p] = s.f2k /\ hash'[p] = s.hash
  BY ONLY <1>3, <1>6, <1>8, <1>9 DEF b
<1> QED
  BY ONLY <1>3, <1>4, <1>6, <1>7, <1>10 DEF SameBuffers

\* Neither does a transfer change the draws.
LEMMA TransferControl ==
  ASSUME NEW p \in Party, NEW q, Follows(p, q), At(p, "move"), NEW s, s = Succ(q), Next1(p),
         UNCHANGED <<mode, calls, used, hold, off, done>>
  PROVE  SameControl(p, s)'
<1>1. Indexed /\ SameControl(p, q) /\ Does(q, "move")
  BY SharedAt, TransferAt DEF Transfer
<1>2. s.mode = q.mode /\ s.calls = q.calls /\ s.todo = Tail(q.todo) /\ s.done = q.done /\ SameDraws(q, s)
  BY ONLY <1>1, s = Succ(q), SuccMove
<1>3. todo'[p] = Tail(todo[p])
  BY <1>1 DEF Indexed, Next1
<1> QED
  BY <1>1, <1>2, <1>3 DEF SameControl, SameDraws

LEMMA AppendTyped ==
  ASSUME NEW S, NEW a \in Seq(S), NEW x \in S
  PROVE  Append(a, x) \in Seq(S) /\ Append(a, x) \o << >> = Append(a, x)
BY AppendProperties, ConcatEmptySeq

LEMMA DoSendIs ==
  ASSUME NEW p \in Party, NEW q, Follows(p, q), DoSend(p), NEW s, s = Succ(q)
  PROVE  CanStep(q) /\ Matches(p, s)'
<1> DEFINE f == Head(q.todo)  msg == <<p, Len(wire[p]) + 1>>
<1>1. At(p, "move") /\ Indexed
  BY SharedAt DEF DoSend
<1>2. /\ Does(q, "move") /\ Head(todo[p]) = f /\ q.todo # << >>
      /\ f.from \in Party /\ f.bits \in Nat /\ (f.from = BOB => f.bits = 0)
      /\ q.bits \in Nat /\ bits[p] = q.bits
      /\ wire[p] = q.wire[p] /\ got[p] = Len(q.wire[Peer(p)]) /\ q.wire \in [Party -> Seq(Msg)]
      /\ Mail(q) \in Msg /\ Stamp(q) \in Entry /\ (flushed[p] => f.from # p)
      /\ cuts[p] = (IF flushed[p] THEN q.cuts \cup {q.bits} ELSE q.cuts)
      /\ p = ALICE => /\ staged = IF flushed[p] THEN << >> ELSE q.staged
                      /\ log[p] \in Seq(Entry) /\ log[p] \o staged = q.log
      /\ p # ALICE => log[p] = q.log
      /\ q.staged \in Seq(Entry) /\ q.log \in Seq(Entry)
  <2>1. Transfer(p, q)
    BY ONLY <1>1, Follows(p, q), p \in Party, TransferAt
  <2> QED
    BY ONLY <2>1 DEF Transfer
<1>3. f.from = p /\ ~flushed[p]
  BY <1>2 DEF DoSend
<1>4. Message(p, Head(todo[p]).what) = Mail(q)
  BY MessageIs
<1>5. Stamp(q) = msg
  BY ONLY <1>2, <1>3 DEF Stamp
<1>6. /\ s.seeds = q.seeds
      /\ s.cuts = (IF f.bits = 0 THEN q.cuts \cup {q.bits} ELSE q.cuts)
      /\ s.staged = (IF f.bits = 0 THEN << >> ELSE Append(q.staged, Stamp(q)))
      /\ s.bits = q.bits + f.bits
      /\ s.wire = [q.wire EXCEPT ![f.from] = Append(@, Mail(q))]
      /\ s.log = Append(q.log, Stamp(q))
  BY ONLY <1>2, s = Succ(q), MoveNet
<1>7. /\ wire' = [wire EXCEPT ![p] = Append(@, Message(p, f.what))]
      /\ IF f.bits > 0
         THEN /\ staged' = Append(staged, msg)
              /\ bits' = [bits EXCEPT ![p] = @ + f.bits]
              /\ cuts' = cuts /\ log' = log
         ELSE /\ log' = [log EXCEPT ![p] = Append(IF p = ALICE THEN @ \o staged ELSE @, msg)]
              /\ cuts' = [cuts EXCEPT ![p] = @ \cup {bits[p]}]
              /\ staged' = IF p = ALICE THEN << >> ELSE staged
              /\ bits' = bits
      /\ AfterTransfer(p, Head(todo[p]).what) /\ Next1(p)
      /\ UNCHANGED <<mode, calls, used, hold, off, flushed, done, got, seeds>>
  BY <1>2 DEF DoSend, drawVars, pipeVars
<1>8. p \in DOMAIN wire /\ p \in DOMAIN bits /\ p \in DOMAIN log /\ p \in DOMAIN cuts
  BY ONLY <1>1, p \in Party DEF Indexed
<1>9. bits'[p] = q.bits + f.bits
  BY <1>2, <1>7, <1>8
<1>10. SameControl(p, s)'
  BY <1>1, <1>7, TransferControl
<1>11. SameBuffers(p, s)'
  BY <1>1, <1>7, <1>9, AfterTransferIs
<1> HIDE DEF f, msg
<1>12. wire'[p] = s.wire[p] /\ got'[p] = Len(s.wire[Peer(p)])
  <2>1. wire'[p] = Append(wire[p], Mail(q))
    BY ONLY <1>2, <1>4, <1>7, <1>8
  <2>2. s.wire[p] = Append(q.wire[p], Mail(q)) /\ s.wire[Peer(p)] = q.wire[Peer(p)]
    BY ONLY <1>2, <1>3, <1>6, PeerIs, p \in Party
  <2> QED
    BY ONLY <1>2, <1>7, <2>1, <2>2
<1>13. cuts'[p] = s.cuts
  <2>1. f.bits > 0 => cuts'[p] = cuts[p]
    BY ONLY <1>7
  <2>2. ~(f.bits > 0) => cuts'[p] = cuts[p] \cup {bits[p]}
    BY ONLY <1>7, <1>8
  <2>3. f.bits > 0 <=> f.bits # 0
    BY ONLY <1>2
  <2> QED
    BY ONLY <1>2, <1>3, <1>6, <2>1, <2>2, <2>3
<1>14. CASE p = ALICE
  <2>1. log[p] \in Seq(Entry) /\ staged \in Seq(Entry) /\ log[p] \o staged = q.log /\ staged = q.staged
    BY ONLY <1>2, <1>3, <1>14
  <2>2. /\ Append(log[p] \o staged, Stamp(q)) = log[p] \o Append(staged, Stamp(q))
        /\ Append(q.log, Stamp(q)) \in Seq(Entry)
        /\ Append(q.log, Stamp(q)) \o << >> = Append(q.log, Stamp(q))
    <3>1. Stamp(q) \in Entry /\ q.log \in Seq(Entry)
      BY ONLY <1>2
    <3>2. Append(log[p] \o staged, Stamp(q)) = log[p] \o Append(staged, Stamp(q))
      <4> DEFINE a == log[p]  b == staged  x == Stamp(q)
      <4>1. a \in Seq(Entry) /\ b \in Seq(Entry) /\ x \in Entry
        BY ONLY <2>1, <3>1
      <4> HIDE DEF a, b, x
      <4> DEFINE u == <<x>>
      <4>2. u \in Seq(Entry) /\ a \o b \in Seq(Entry)
        BY ONLY <4>1
      <4>3. Append(a \o b, x) = (a \o b) \o u
        BY ONLY <4>1, <4>2, AppendIsConcat
      <4>4. Append(b, x) = b \o u
        BY ONLY <4>1, AppendIsConcat
      <4> HIDE DEF u
      <4>5. (a \o b) \o u = a \o (b \o u)
        BY ONLY <4>1, <4>2, ConcatAssociative
      <4>6. Append(a \o b, x) = a \o Append(b, x)
        BY ONLY <4>3, <4>4, <4>5
      <4> QED
        BY ONLY <4>6 DEF a, b, x
    <3>3. Append(q.log, Stamp(q)) \in Seq(Entry) /\ Append(q.log, Stamp(q)) \o << >> = Append(q.log, Stamp(q))
      BY ONLY <3>1, AppendTyped
    <3> QED
      BY ONLY <3>2, <3>3
  <2>3. CASE f.bits > 0
    <3>1. staged' = Append(staged, Stamp(q)) /\ log'[p] = log[p] /\ s.staged = Append(q.staged, Stamp(q))
      <4>1. staged' = Append(staged, msg) /\ log' = log
        BY ONLY <1>7, <2>3
      <4>2. f.bits # 0
        BY ONLY <1>2, <2>3
      <4>3. s.staged = Append(q.staged, Stamp(q))
        BY ONLY <1>6, <4>2
      <4> QED
        BY ONLY <1>5, <4>1, <4>3
    <3>2. SameNet(p, s)'
      BY ONLY <1>3, <1>6, <1>7, <1>9, <1>12, <1>13, <1>14, <2>1, <2>2, <3>1, Follows(p, q), p \in Party, SharedAt DEF SameNet
    <3> QED
      BY <1>2, <1>10, <1>11, <3>2 DEF Matches, CanStep
  <2>4. CASE ~(f.bits > 0)
    <3>1. staged' = << >> /\ log'[p] = Append(log[p] \o staged, Stamp(q)) /\ s.staged = << >>
      <4>1. log' = [log EXCEPT ![p] = Append(@ \o staged, msg)] /\ staged' = << >>
        BY ONLY <1>7, <1>14, <2>4
      <4>2. log'[p] = Append(log[p] \o staged, msg)
        BY ONLY <1>8, <4>1
      <4>3. f.bits = 0
        BY ONLY <1>2, <2>4
      <4>4. s.staged = << >>
        BY ONLY <1>6, <4>3
      <4> QED
        BY ONLY <1>5, <4>1, <4>2, <4>4
    <3>2. SameNet(p, s)'
      BY ONLY <1>3, <1>6, <1>7, <1>9, <1>12, <1>13, <1>14, <2>1, <2>2, <3>1, Follows(p, q), p \in Party, SharedAt DEF SameNet
    <3> QED
      BY <1>2, <1>10, <1>11, <3>2 DEF Matches, CanStep
  <2> QED
    BY <2>3, <2>4
<1>15. CASE p # ALICE
  <2>1. p = BOB
    BY ONLY <1>15, p \in Party DEF Party
  <2>2. f.bits = 0
    BY ONLY <1>2, <1>3, <2>1
  <2>3. log'[p] = Append(log[p], Stamp(q)) /\ log[p] = q.log
    BY ONLY <1>2, <1>5, <1>7, <1>8, <1>15, <2>2
  <2>5. log'[p] = s.log /\ bits'[p] = s.bits
    BY ONLY <1>6, <1>9, <2>3
  <2>6. ~flushed'[p] /\ seeds'[p] = s.seeds
    BY ONLY <1>3, <1>6, <1>7, Follows(p, q), p \in Party, SharedAt DEF SameNet
  <2>4. SameNet(p, s)'
    BY ONLY <1>12, <1>13, <1>15, <2>5, <2>6 DEF SameNet
  <2> QED
    BY <1>2, <1>10, <1>11, <2>4 DEF Matches, CanStep
<1> QED
  BY <1>14, <1>15

LEMMA DoRecvIs ==
  ASSUME NEW p \in Party, NEW q, Follows(p, q), DoRecv(p), NEW s, s = Succ(q)
  PROVE  CanStep(q) /\ Matches(p, s)'
<1> DEFINE f == Head(q.todo)
<1>1. At(p, "move") /\ Indexed
  BY SharedAt DEF DoRecv
<1>2. /\ Does(q, "move") /\ Head(todo[p]) = f /\ q.todo # << >>
      /\ f.from \in Party /\ f.bits \in Nat /\ (f.from = BOB => f.bits = 0)
      /\ q.bits \in Nat /\ bits[p] = q.bits
      /\ wire[p] = q.wire[p] /\ got[p] = Len(q.wire[Peer(p)]) /\ q.wire \in [Party -> Seq(Msg)]
      /\ Mail(q) \in Msg /\ Stamp(q) \in Entry /\ (flushed[p] => f.bits = 0)
      /\ cuts[p] = (IF flushed[p] THEN q.cuts \cup {q.bits} ELSE q.cuts)
      /\ p = ALICE => /\ staged = IF flushed[p] THEN << >> ELSE q.staged
                      /\ log[p] \in Seq(Entry) /\ log[p] \o staged = q.log
      /\ p # ALICE => log[p] = q.log
      /\ q.staged \in Seq(Entry) /\ q.log \in Seq(Entry)
  <2>1. Transfer(p, q)
    BY ONLY <1>1, Follows(p, q), p \in Party, TransferAt
  <2> QED
    BY ONLY <2>1 DEF Transfer
<1>3. f.from = Peer(p) /\ (flushed[p] <=> f.bits = 0)
  <2>1. f.from # p /\ (f.bits = 0 => flushed[p])
    BY <1>2 DEF DoRecv
  <2> QED
    BY ONLY <1>2, <2>1, p \in Party, PeerIs
<1>4. Peer(p) \in Party /\ Peer(p) # p
  BY PeerIs
<1>5. Stamp(q) = <<Peer(p), got[p] + 1>>
  BY ONLY <1>2, <1>3 DEF Stamp
<1>6. /\ s.seeds = q.seeds
      /\ s.cuts = (IF f.bits = 0 THEN q.cuts \cup {q.bits} ELSE q.cuts)
      /\ s.staged = (IF f.bits = 0 THEN << >> ELSE Append(q.staged, Stamp(q)))
      /\ s.bits = q.bits + f.bits
      /\ s.wire = [q.wire EXCEPT ![f.from] = Append(@, Mail(q))]
      /\ s.log = Append(q.log, Stamp(q))
  BY ONLY <1>2, s = Succ(q), MoveNet
<1>7. /\ got' = [got EXCEPT ![p] = @ + 1]
      /\ log' = [log EXCEPT ![p] = Append(@, <<Peer(p), got[p] + 1>>)]
      /\ bits' = [bits EXCEPT ![p] = @ + f.bits]
      /\ flushed' = [flushed EXCEPT ![p] = FALSE]
      /\ AfterTransfer(p, Head(todo[p]).what) /\ Next1(p)
      /\ UNCHANGED <<mode, calls, used, hold, off, done, wire, cuts, staged, seeds>>
  BY <1>2 DEF DoRecv, pipeVars
<1>8. p \in DOMAIN got /\ p \in DOMAIN bits /\ p \in DOMAIN log /\ p \in DOMAIN flushed
  BY ONLY <1>1, p \in Party DEF Indexed
<1>9. /\ bits'[p] = q.bits + f.bits /\ ~flushed'[p] /\ got'[p] = got[p] + 1
      /\ log'[p] = Append(log[p], Stamp(q))
  BY ONLY <1>2, <1>5, <1>7, <1>8
<1>10. SameControl(p, s)'
  BY <1>1, <1>7, TransferControl
<1>11. SameBuffers(p, s)'
  BY <1>1, <1>7, <1>9, AfterTransferIs
<1> HIDE DEF f
<1>12. wire'[p] = s.wire[p] /\ got'[p] = Len(s.wire[Peer(p)])
  <2>1. s.wire[Peer(p)] = Append(q.wire[Peer(p)], Mail(q)) /\ s.wire[p] = q.wire[p]
    BY ONLY <1>2, <1>3, <1>4, <1>6, p \in Party
  <2>2. q.wire[Peer(p)] \in Seq(Msg)
    BY ONLY <1>2, <1>4
  <2>3. Len(s.wire[Peer(p)]) = Len(q.wire[Peer(p)]) + 1
    BY ONLY <1>2, <2>1, <2>2, AppendProperties
  <2> QED
    BY ONLY <1>2, <1>7, <1>9, <2>1, <2>3
<1>13. cuts'[p] = s.cuts
  BY ONLY <1>2, <1>3, <1>6, <1>7
<1>14. CASE p = ALICE
  <2>1. f.bits = 0
    BY ONLY <1>2, <1>3, <1>14 DEF Peer
  <2>2. staged = << >> /\ log[p] \in Seq(Entry) /\ log[p] \o << >> = q.log
    BY ONLY <1>2, <1>3, <1>14, <2>1
  <2>3. log[p] = q.log
    BY ONLY <2>2, ConcatEmptySeq
  <2>4. Append(q.log, Stamp(q)) \in Seq(Entry) /\ Append(q.log, Stamp(q)) \o << >> = Append(q.log, Stamp(q))
    BY ONLY <1>2, AppendProperties, ConcatEmptySeq
  <2>5. staged' = << >> /\ s.staged = << >> /\ log'[p] = s.log /\ s.log \in Seq(Entry) /\ s.log \o << >> = s.log
    BY ONLY <1>6, <1>7, <1>9, <2>1, <2>2, <2>3, <2>4
  <2>6. SameNet(p, s)'
    BY ONLY <1>6, <1>7, <1>9, <1>12, <1>13, <1>14, <2>5, Follows(p, q), p \in Party, SharedAt DEF SameNet
  <2> QED
    BY <1>2, <1>10, <1>11, <2>6 DEF Matches, CanStep
<1>15. CASE p # ALICE
  <2>1. log'[p] = s.log
    BY ONLY <1>2, <1>6, <1>9, <1>15
  <2>2. SameNet(p, s)'
    BY ONLY <1>6, <1>7, <1>9, <1>12, <1>13, <1>15, <2>1, Follows(p, q), p \in Party, SharedAt DEF SameNet
  <2> QED
    BY <1>2, <1>10, <1>11, <2>2 DEF Matches, CanStep
<1> QED
  BY <1>14, <1>15

\* A flush before a wait leaves p where it is.
LEMMA FlushedAt ==
  ASSUME NEW p \in Party, NEW q, Follows(p, q), Flushing(p, q), ~flushed[p], FlushAll(p),
         flushed' = [flushed EXCEPT ![p] = TRUE],
         UNCHANGED <<mode, calls, todo, reg, gateVars, used, hold, off, pipeVars, seeds>>
  PROVE  Matches(p, q)'
<1>1. Indexed /\ SameControl(p, q) /\ SameBuffers(p, q) /\ SameNet(p, q) /\ Types(q)
  BY SharedAt
<1>2. SameControl(p, q)'
  BY <1>1 DEF SameControl, pipeVars
<1>3. SameBuffers(p, q)'
  BY <1>1 DEF SameBuffers, gateVars
<1>4. p \in DOMAIN flushed /\ p \in DOMAIN cuts /\ p \in DOMAIN log
  BY ONLY <1>1, p \in Party DEF Indexed
<1>5. /\ flushed'[p] = TRUE /\ cuts'[p] = cuts[p] \cup {bits[p]}
      /\ wire' = wire /\ got' = got /\ bits' = bits /\ seeds' = seeds
      /\ p = ALICE => log'[p] = log[p] \o staged /\ staged' = << >>
      /\ p # ALICE => log'[p] = log[p]
  BY <1>4 DEF FlushAll
<1>6. /\ bits[p] = q.bits /\ seeds[p] = q.seeds /\ wire[p] = q.wire[p] /\ got[p] = Len(q.wire[Peer(p)])
      /\ cuts[p] = q.cuts
      /\ p = ALICE => staged = q.staged /\ log[p] \in Seq(Entry) /\ log[p] \o staged = q.log
      /\ p # ALICE => log[p] = q.log
  BY ONLY <1>1, ~flushed[p] DEF SameNet
<1>7. p = ALICE => /\ log[p] \o staged \in Seq(Entry) /\ (log[p] \o staged) \o << >> = q.log
  BY ONLY <1>1, <1>6, CatTyped, ConcatEmptySeq DEF Types
<1>8. SameNet(p, q)'
  BY ONLY <1>5, <1>6, <1>7, Flushing(p, q) DEF SameNet
<1> QED
  BY <1>2, <1>3, <1>8 DEF Matches

LEMMA FlushBeforeWaitIs ==
  ASSUME NEW p \in Party, NEW q, Follows(p, q), FlushBeforeWait(p)
  PROVE  Matches(p, q)'
<1>1. SameControl(p, q)
  BY SharedAt
<1>2. Waits(q)
  BY <1>1, HeadDoes DEF FlushBeforeWait, Waits, SameControl
<1> QED
  BY <1>2, FlushedAt DEF FlushBeforeWait, Flushing

LEMMA FlushBeforeReceiveIs ==
  ASSUME NEW p \in Party, NEW q, Follows(p, q), FlushBeforeReceive(p)
  PROVE  Matches(p, q)'
<1>1. Does(q, "move") /\ Head(todo[p]) = Head(q.todo)
  BY TransferAt DEF FlushBeforeReceive, Transfer
<1>2. Flushing(p, q)
  BY <1>1 DEF FlushBeforeReceive, Flushing
<1> QED
  BY <1>2, FlushedAt DEF FlushBeforeReceive

-----------------------------------------------------------------------------
(* The peer, and what neither party sees.                                  *)

Apart(o) ==
  /\ mode' = mode
  /\ calls'[o] = calls[o] /\ todo'[o] = todo[o] /\ reg'[o] = reg[o]
  /\ issued'[o] = issued[o] /\ pend'[o] = pend[o] /\ checked'[o] = checked[o]
  /\ f2k'[o] = f2k[o] /\ hash'[o] = hash[o] /\ used'[o] = used[o]
  /\ hold'[o] = hold[o] /\ off'[o] = off[o] /\ flushed'[o] = flushed[o]
  /\ done'[o] = done[o] /\ wire'[o] = wire[o] /\ got'[o] = got[o]
  /\ bits'[o] = bits[o] /\ cuts'[o] = cuts[o] /\ log'[o] = log[o]
  /\ seeds'[o] = seeds[o]
  /\ o = ALICE => staged' = staged

LEMMA ApartKept ==
  ASSUME NEW o \in Party, NEW q, Matches(o, q), Apart(o)
  PROVE  Matches(o, q)'
<1>1. SameControl(o, q)'
  BY DEF Matches, SameControl, Apart
<1>2. SameBuffers(o, q)'
  BY DEF Matches, SameBuffers, Apart
<1>3. SameNet(o, q)'
  BY DEF Matches, SameNet, Apart
<1> QED
  BY <1>1, <1>2, <1>3 DEF Matches

LEMMA FlushApart ==
  ASSUME Indexed, NEW p \in Party, FlushAll(p), NEW o \in Party, o # p
  PROVE  /\ cuts'[o] = cuts[o] /\ log'[o] = log[o] /\ (o = ALICE => staged' = staged)
         /\ wire' = wire /\ got' = got /\ bits' = bits
<1>1. cuts'[o] = cuts[o] /\ wire' = wire /\ got' = got /\ bits' = bits
  BY DEF FlushAll, Indexed
<1>2. log'[o] = log[o]
  BY DEF FlushAll, Indexed
<1>3. o = ALICE => staged' = staged
  BY DEF FlushAll
<1> QED
  BY <1>1, <1>2, <1>3

\* A step of a party is none of its peer's.
LEMMA StepApart ==
  ASSUME NEW p \in Party, NEW q, Follows(p, q), EngineStep(p), NEW o \in Party, o # p
  PROVE  Apart(o)
<1>1. Indexed
  BY SharedAt
<1>2. CASE BeginCall(p)
  BY <1>1, <1>2 DEF Apart, BeginCall, Next1, FlushAll, gateVars, drawVars, pipeVars, netVars
<1>3. CASE DoFlush(p)
  <2>1. FlushAll(p)
    BY <1>3 DEF DoFlush
  <2>2. /\ cuts'[o] = cuts[o] /\ log'[o] = log[o] /\ (o = ALICE => staged' = staged)
        /\ wire' = wire /\ got' = got /\ bits' = bits
    BY <1>1, <2>1, FlushApart
  <2>3. todo'[o] = todo[o] /\ flushed' = flushed
    BY <1>1, <1>3 DEF Indexed, DoFlush, Next1, drawVars
  <2>4. UNCHANGED <<mode, calls, reg, gateVars, used, hold, off, done, seeds>>
    BY <1>3 DEF DoFlush, drawVars, pipeVars
  <2> QED
    BY ONLY <2>2, <2>3, <2>4 DEF Apart, gateVars
<1>4. CASE DoSeed(p)
  BY <1>1, <1>4 DEF Apart, DoSeed, Next1, FlushAll, gateVars, drawVars, pipeVars, netVars
<1>5. CASE FlushBeforeWait(p)
  <2>1. FlushAll(p)
    BY <1>5 DEF FlushBeforeWait
  <2>2. /\ cuts'[o] = cuts[o] /\ log'[o] = log[o] /\ (o = ALICE => staged' = staged)
        /\ wire' = wire /\ got' = got /\ bits' = bits
    BY <1>1, <2>1, FlushApart
  <2>3. flushed'[o] = flushed[o] /\ todo' = todo
    BY <1>1, <1>5 DEF Indexed, FlushBeforeWait, Next1, drawVars
  <2>4. UNCHANGED <<mode, calls, reg, gateVars, used, hold, off, done, seeds>>
    BY <1>5 DEF FlushBeforeWait, drawVars, pipeVars
  <2> QED
    BY ONLY <2>2, <2>3, <2>4 DEF Apart, gateVars
<1>6. CASE AcquireReady(p)
  BY <1>1, <1>6 DEF Apart, AcquireReady, Next1, FlushAll, gateVars, drawVars, pipeVars, netVars
<1>7. CASE Refill(p)
  BY <1>1, <1>7 DEF Apart, Refill, Next1, FlushAll, gateVars, drawVars, pipeVars, netVars
<1>8. CASE DoFill(p)
  BY <1>1, <1>8 DEF Apart, DoFill, Next1, FlushAll, gateVars, drawVars, pipeVars, netVars
<1>9. CASE Copy(p)
  <2>1. used'[o] = used[o] /\ hold'[o] = hold[o]
    BY <1>1, <1>9 DEF Indexed, Copy
  <2>2. reg'[o] = reg[o] /\ todo'[o] = todo[o] /\ off'[o] = off[o]
    BY <1>1, <1>9 DEF Indexed, Copy
  <2>3. UNCHANGED <<mode, calls, gateVars, flushed, done, netVars, seeds>>
    BY <1>9 DEF Copy, drawVars, pipeVars
  <2> QED
    BY ONLY <2>1, <2>2, <2>3 DEF Apart, gateVars, netVars
<1>10. CASE DoIssue(p)
  <2>1. issued'[o] = issued[o] /\ pend'[o] = pend[o]
    BY <1>1, <1>10 DEF Indexed, DoIssue
  <2>2. f2k'[o] = f2k[o] /\ todo'[o] = todo[o]
    BY <1>1, <1>10 DEF Indexed, DoIssue, Next1
  <2>3. UNCHANGED <<mode, calls, reg, checked, hash, drawVars, done, netVars, seeds>>
    BY <1>10 DEF DoIssue, pipeVars
  <2> QED
    BY ONLY <2>1, <2>2, <2>3 DEF Apart, drawVars, netVars
<1>11. CASE DoFold(p)
  BY <1>1, <1>11 DEF Apart, DoFold, Next1, FlushAll, gateVars, drawVars, pipeVars, netVars
<1>12. CASE DoRun(p)
  BY <1>1, <1>12 DEF Apart, DoRun, Next1, FlushAll, gateVars, drawVars, pipeVars, netVars
<1>13. CASE DoSend(p)
  <2>1. At(p, "move") /\ Head(todo[p]).from = p
    BY <1>13 DEF DoSend
  <2>2. o = ALICE => ~(Head(todo[p]).bits > 0)
    <3>1. Transfer(p, q)
      BY ONLY <2>1, Follows(p, q), p \in Party, TransferAt
    <3>2. o = ALICE => p = BOB
      BY ONLY o # p, p \in Party, o \in Party DEF Party
    <3> QED
      BY ONLY <2>1, <3>1, <3>2 DEF Transfer
  <2>3. /\ wire'[o] = wire[o] /\ bits'[o] = bits[o] /\ cuts'[o] = cuts[o] /\ log'[o] = log[o]
        /\ o = ALICE => staged' = staged
    <3>1. wire'[o] = wire[o]
      BY <1>1, <1>13 DEF Indexed, DoSend
    <3>2. CASE Head(todo[p]).bits > 0
      <4>1. staged' = Append(staged, <<p, Len(wire[p]) + 1>>) /\ UNCHANGED <<cuts, log>>
            /\ bits' = [bits EXCEPT ![p] = @ + Head(todo[p]).bits]
        BY <1>13, <3>2 DEF DoSend
      <4> QED
        BY <1>1, <2>2, <3>1, <3>2, <4>1 DEF Indexed
    <3>3. CASE ~(Head(todo[p]).bits > 0)
      <4>1. UNCHANGED bits /\ cuts' = [cuts EXCEPT ![p] = @ \cup {bits[p]}]
        BY <1>13, <3>3 DEF DoSend
      <4>2. staged' = IF p = ALICE THEN << >> ELSE staged
        BY <1>13, <3>3 DEF DoSend
      <4>3. log'[o] = log[o]
        BY <1>1, <1>13, <3>3 DEF Indexed, DoSend
      <4> QED
        BY <1>1, <3>1, <4>1, <4>2, <4>3 DEF Indexed
    <3> QED
      BY <3>2, <3>3
  <2>4. /\ reg'[o] = reg[o] /\ f2k'[o] = f2k[o] /\ hash'[o] = hash[o]
        /\ issued' = issued /\ pend' = pend /\ checked' = checked
    BY <1>13 DEF DoSend, AfterTransfer
  <2>5. todo'[o] = todo[o] /\ UNCHANGED <<mode, calls, used, hold, off, flushed, done, got, seeds>>
    BY <1>13 DEF DoSend, Next1, drawVars, pipeVars
  <2> QED
    BY ONLY <2>3, <2>4, <2>5 DEF Apart
<1>14. CASE FlushBeforeReceive(p)
  <2>1. FlushAll(p)
    BY <1>14 DEF FlushBeforeReceive
  <2>2. /\ cuts'[o] = cuts[o] /\ log'[o] = log[o] /\ (o = ALICE => staged' = staged)
        /\ wire' = wire /\ got' = got /\ bits' = bits
    BY <1>1, <2>1, FlushApart
  <2>3. flushed'[o] = flushed[o] /\ todo' = todo
    BY <1>1, <1>14 DEF Indexed, FlushBeforeReceive, Next1, drawVars
  <2>4. UNCHANGED <<mode, calls, reg, gateVars, used, hold, off, done, seeds>>
    BY <1>14 DEF FlushBeforeReceive, drawVars, pipeVars
  <2> QED
    BY ONLY <2>2, <2>3, <2>4 DEF Apart, gateVars
<1>15. CASE DoRecv(p)
  <2>1. got'[o] = got[o] /\ log'[o] = log[o] /\ bits'[o] = bits[o] /\ flushed'[o] = flushed[o]
    BY <1>15 DEF DoRecv
  <2>2. /\ reg'[o] = reg[o] /\ f2k'[o] = f2k[o] /\ hash'[o] = hash[o]
        /\ issued' = issued /\ pend' = pend /\ checked' = checked
    BY <1>15 DEF DoRecv, AfterTransfer
  <2>3. todo'[o] = todo[o] /\ UNCHANGED <<mode, calls, used, hold, off, done, wire, cuts, staged, seeds>>
    BY <1>15 DEF DoRecv, Next1, pipeVars
  <2> QED
    BY ONLY <2>1, <2>2, <2>3 DEF Apart
<1>16. CASE FinishPipe(p)
  <2>1. used'[o] = used[o] /\ hold'[o] = hold[o]
    BY <1>1, <1>16 DEF Indexed, FinishPipe
  <2>2. done'[o] = done[o]
    BY <1>1, <1>16 DEF Indexed, FinishPipe
  <2>3. UNCHANGED <<mode, calls, todo, reg, gateVars, off, flushed, netVars, seeds>>
    BY <1>16 DEF FinishPipe, drawVars, pipeVars
  <2> QED
    BY ONLY <2>1, <2>2, <2>3 DEF Apart, gateVars, netVars
<1>17. CASE JoinProducer(p)
  BY <1>1, <1>17 DEF Apart, JoinProducer, Next1, FlushAll, gateVars, drawVars, pipeVars, netVars
<1> QED
  BY <1>2, <1>3, <1>4, <1>5, <1>6, <1>7, <1>8, <1>9, <1>10, <1>11, <1>12, <1>13, <1>14, <1>15, <1>16, <1>17 DEF EngineStep

LEMMA OthersApart ==
  ASSUME NEW p \in Party, ProducerStep(p) \/ SpontaneousWrite(p) \/ UNCHANGED vars, NEW o \in Party
  PROVE  Apart(o)
<1>1. CASE Begin(p)
  BY <1>1 DEF Begin, Apart, gateVars, drawVars, netVars
<1>2. CASE EnterRound(p)
  BY <1>2 DEF EnterRound, Apart, gateVars, drawVars, netVars
<1>3. CASE EndRound(p)
  BY <1>3 DEF EndRound, Apart, gateVars, drawVars, netVars
<1>4. CASE SpontaneousWrite(p)
  BY <1>4 DEF SpontaneousWrite, Apart, gateVars, drawVars, pipeVars
<1>5. CASE UNCHANGED vars
  BY <1>5 DEF vars, Apart
<1> QED
  BY <1>1, <1>2, <1>3, <1>4, <1>5 DEF ProducerStep

LEMMA StepIndexed ==
  ASSUME Indexed, NEW p \in Party, EngineStep(p)
  PROVE  Indexed'
<1>1. CASE BeginCall(p)
  BY <1>1 DEF Indexed, BeginCall, Next1, FlushAll, gateVars, drawVars, pipeVars, netVars
<1>2. CASE DoFlush(p)
  BY <1>2 DEF Indexed, DoFlush, Next1, FlushAll, gateVars, drawVars, pipeVars, netVars
<1>3. CASE DoSeed(p)
  BY <1>3 DEF Indexed, DoSeed, Next1, FlushAll, gateVars, drawVars, pipeVars, netVars
<1>4. CASE FlushBeforeWait(p)
  BY <1>4 DEF Indexed, FlushBeforeWait, Next1, FlushAll, gateVars, drawVars, pipeVars, netVars
<1>5. CASE AcquireReady(p)
  BY <1>5 DEF Indexed, AcquireReady, Next1, FlushAll, gateVars, drawVars, pipeVars, netVars
<1>6. CASE Refill(p)
  BY <1>6 DEF Indexed, Refill, Next1, FlushAll, gateVars, drawVars, pipeVars, netVars
<1>7. CASE DoFill(p)
  BY <1>7 DEF Indexed, DoFill, Next1, FlushAll, gateVars, drawVars, pipeVars, netVars
<1>8. CASE Copy(p)
  BY <1>8 DEF Indexed, Copy, Next1, FlushAll, gateVars, drawVars, pipeVars, netVars
<1>9. CASE DoIssue(p)
  BY <1>9 DEF Indexed, DoIssue, Next1, FlushAll, gateVars, drawVars, pipeVars, netVars
<1>10. CASE DoFold(p)
  BY <1>10 DEF Indexed, DoFold, Next1, FlushAll, gateVars, drawVars, pipeVars, netVars
<1>11. CASE DoRun(p)
  BY <1>11 DEF Indexed, DoRun, Next1, FlushAll, gateVars, drawVars, pipeVars, netVars
<1>12. CASE DoSend(p)
  <2>1. DOMAIN wire' = DOMAIN wire /\ DOMAIN got' = DOMAIN got /\ DOMAIN flushed' = DOMAIN flushed
        /\ DOMAIN todo' = DOMAIN todo
    BY <1>12 DEF DoSend, Next1, drawVars, pipeVars
  <2>2. DOMAIN bits' = DOMAIN bits /\ DOMAIN log' = DOMAIN log /\ DOMAIN cuts' = DOMAIN cuts
    BY <1>12 DEF DoSend
  <2>3. DOMAIN reg' = DOMAIN reg /\ DOMAIN f2k' = DOMAIN f2k /\ DOMAIN hash' = DOMAIN hash
        /\ issued' = issued /\ pend' = pend /\ checked' = checked
    BY <1>12 DEF DoSend, AfterTransfer
  <2>4. UNCHANGED <<calls, used, hold, off, done, seeds>>
    BY <1>12 DEF DoSend, drawVars, pipeVars
  <2> QED
    BY ONLY Indexed, <2>1, <2>2, <2>3, <2>4 DEF Indexed
<1>13. CASE FlushBeforeReceive(p)
  BY <1>13 DEF Indexed, FlushBeforeReceive, Next1, FlushAll, gateVars, drawVars, pipeVars, netVars
<1>14. CASE DoRecv(p)
  <2>1. DOMAIN wire' = DOMAIN wire /\ DOMAIN got' = DOMAIN got /\ DOMAIN flushed' = DOMAIN flushed
        /\ DOMAIN todo' = DOMAIN todo
    BY <1>14 DEF DoRecv, Next1, drawVars, pipeVars
  <2>2. DOMAIN bits' = DOMAIN bits /\ DOMAIN log' = DOMAIN log /\ DOMAIN cuts' = DOMAIN cuts
    BY <1>14 DEF DoRecv
  <2>3. DOMAIN reg' = DOMAIN reg /\ DOMAIN f2k' = DOMAIN f2k /\ DOMAIN hash' = DOMAIN hash
        /\ issued' = issued /\ pend' = pend /\ checked' = checked
    BY <1>14 DEF DoRecv, AfterTransfer
  <2>4. UNCHANGED <<calls, used, hold, off, done, seeds>>
    BY <1>14 DEF DoRecv, drawVars, pipeVars
  <2> QED
    BY ONLY Indexed, <2>1, <2>2, <2>3, <2>4 DEF Indexed
<1>15. CASE FinishPipe(p)
  BY <1>15 DEF Indexed, FinishPipe, Next1, FlushAll, gateVars, drawVars, pipeVars, netVars
<1>16. CASE JoinProducer(p)
  BY <1>16 DEF Indexed, JoinProducer, Next1, FlushAll, gateVars, drawVars, pipeVars, netVars
<1> QED
  BY <1>1, <1>2, <1>3, <1>4, <1>5, <1>6, <1>7, <1>8, <1>9, <1>10, <1>11, <1>12, <1>13, <1>14, <1>15, <1>16 DEF EngineStep

LEMMA OthersIndexed ==
  ASSUME Indexed, NEW p \in Party, ProducerStep(p) \/ SpontaneousWrite(p) \/ UNCHANGED vars
  PROVE  Indexed'
<1>1. CASE Begin(p)
  BY <1>1 DEF Begin, Indexed, gateVars, drawVars, netVars
<1>2. CASE EnterRound(p)
  BY <1>2 DEF EnterRound, Indexed, gateVars, drawVars, netVars
<1>3. CASE EndRound(p)
  BY <1>3 DEF EndRound, Indexed, gateVars, drawVars, netVars
<1>4. CASE SpontaneousWrite(p)
  BY <1>4 DEF SpontaneousWrite, Indexed, gateVars, drawVars, pipeVars
<1>5. CASE UNCHANGED vars
  BY <1>5 DEF vars, Indexed
<1> QED
  BY <1>1, <1>2, <1>3, <1>4, <1>5 DEF ProducerStep

\* A step of p is one of the machine, or a flush before a wait.
LEMMA StepMatches ==
  ASSUME NEW p \in Party, NEW q, Follows(p, q), EngineStep(p), NEW s, s = Succ(q)
  PROVE  (CanStep(q) /\ Matches(p, s)') \/ Matches(p, q)'
<1>1. CASE BeginCall(p)
  BY <1>1, BeginCallIs
<1>2. CASE DoFlush(p)
  BY <1>2, DoFlushIs
<1>3. CASE DoSeed(p)
  BY <1>3, DoSeedIs
<1>4. CASE FlushBeforeWait(p)
  BY <1>4, FlushBeforeWaitIs
<1>5. CASE AcquireReady(p)
  BY <1>5, AcquireReadyIs
<1>6. CASE Refill(p)
  BY <1>6, RefillIs
<1>7. CASE DoFill(p)
  BY <1>7, DoFillIs
<1>8. CASE Copy(p)
  BY <1>8, CopyIs
<1>9. CASE DoIssue(p)
  BY <1>9, DoIssueIs
<1>10. CASE DoFold(p)
  BY <1>10, DoFoldIs
<1>11. CASE DoRun(p)
  BY <1>11, DoRunIs
<1>12. CASE DoSend(p)
  BY <1>12, DoSendIs
<1>13. CASE FlushBeforeReceive(p)
  BY <1>13, FlushBeforeReceiveIs
<1>14. CASE DoRecv(p)
  BY <1>14, DoRecvIs
<1>15. CASE FinishPipe(p)
  BY <1>15, FinishPipeIs
<1>16. CASE JoinProducer(p)
  BY <1>16, JoinProducerIs
<1> QED
  BY <1>1, <1>2, <1>3, <1>4, <1>5, <1>6, <1>7, <1>8, <1>9, <1>10, <1>11, <1>12, <1>13, <1>14, <1>15, <1>16 DEF EngineStep

-----------------------------------------------------------------------------
(* Where the machine starts.                                               *)

Start(m, prog) ==
  [mode |-> m, calls |-> <<Call("construct", 0)>> \o prog \o <<Call("destroy", 0)>>,
   todo |-> << >>, reg |-> << >>, issued |-> [k \in Kind |-> 0], pend |-> [k \in Kind |-> << >>],
   checked |-> [k \in Kind |-> << >>],
   f2k |-> [ready |-> FALSE, runs |-> 0, base |-> 0, outs |-> << >>, inBase |-> 0, inCnt |-> F2K_SZ],
   hash |-> << >>, used |-> 0, hold |-> FALSE, off |-> 0, done |-> FALSE, bits |-> 0, cuts |-> {},
   staged |-> << >>, wire |-> [p \in Party |-> << >>], log |-> << >>, seeds |-> << >>]

Starts(q) == \E m \in Modes, prog \in Programs : q = Start(m, prog)

LEMMA ProgramIs ==
  ASSUME NEW prog \in Programs
  PROVE  /\ prog \in Seq([do : UserCalls, n : Nat \ {0}])
         /\ prog \in Seq(CallSet)
         /\ Call("construct", 0) \in CallSet /\ Call("destroy", 0) \in CallSet
         /\ <<Call("construct", 0)>> \o prog \o <<Call("destroy", 0)>> \in Seq(CallSet)
<1>1. prog \in Seq([do : UserCalls, n : Nat \ {0}])
  BY ProgramsAssumption
<1>2. [do : UserCalls, n : Nat \ {0}] \subseteq CallSet
  BY DEF CallSet, CallNames
<1>3. prog \in Seq(CallSet)
  BY ONLY <1>1, <1>2, WiderSeq
<1>4. Call("construct", 0) \in CallSet /\ Call("destroy", 0) \in CallSet
  BY DEF Call, CallSet, CallNames
<1>5. <<Call("construct", 0)>> \in Seq(CallSet) /\ <<Call("destroy", 0)>> \in Seq(CallSet)
  BY ONLY <1>4, OneTyped
<1> QED
  BY ONLY <1>1, <1>3, <1>4, <1>5, Cat3Typed

LEMMA StartSound ==
  ASSUME NEW q, Starts(q)
  PROVE  Sound(q)
<1>1. PICK m \in Modes, prog \in Programs : q = Start(m, prog)
  BY DEF Starts
<1>2. /\ q.mode = m /\ q.calls = <<Call("construct", 0)>> \o prog \o <<Call("destroy", 0)>>
      /\ q.todo = << >> /\ q.reg = << >> /\ q.issued = [k \in Kind |-> 0]
      /\ q.pend = [k \in Kind |-> << >>] /\ q.checked = [k \in Kind |-> << >>]
      /\ q.f2k = [ready |-> FALSE, runs |-> 0, base |-> 0, outs |-> << >>, inBase |-> 0, inCnt |-> F2K_SZ]
      /\ q.hash = << >> /\ q.used = 0 /\ q.hold = FALSE /\ q.off = 0 /\ q.done = FALSE
      /\ q.bits = 0 /\ q.cuts = {} /\ q.staged = << >> /\ q.wire = [p \in Party |-> << >>]
      /\ q.log = << >> /\ q.seeds = << >>
  BY ONLY <1>1 DEF Start
<1>3. q.mode \in {"stream", "prepaid", "background"} /\ q.calls \in Seq(CallSet)
  BY ONLY <1>2, m \in Modes, prog \in Programs, ModesAssumption, ProgramIs
<1>4. q.todo \in Seq(Step) /\ q.reg \in Seq(Source \X Nat) /\ q.hash \in Seq(Nat)
      /\ q.staged \in Seq(Entry) /\ q.log \in Seq(Entry) /\ q.seeds \in Seq(SeedSet)
      /\ q.wire \in [Party -> Seq(Msg)]
  BY ONLY <1>2
<1>5. q.issued \in [Kind -> Nat] /\ q.pend \in [Kind -> Seq(Nat)] /\ q.checked \in [Kind -> Seq(Nat \X Nat)]
  BY ONLY <1>2
<1>6. q.f2k \in F2kSet
  BY ONLY <1>2, SizesAre DEF F2kSet
<1>7. q.used \in Nat /\ q.off \in 0 .. Batch - 1 /\ q.bits \in Nat /\ q.cuts \in SUBSET Nat
  BY ONLY <1>2, SizesAre
<1>8. q.hold \in BOOLEAN /\ q.done \in BOOLEAN
  BY ONLY <1>2
<1>9. Types(q)
  BY ONLY <1>3, <1>4, <1>5, <1>6, <1>7, <1>8 DEF Types
<1>10. Len(q.pend["and"]) = 0 /\ CHECK_SZ >= 0
  <2>1. q.pend["and"] = << >>
    BY ONLY <1>2, KindsAre
  <2> QED
    BY <2>1, SizesAre
<1>11. Fits(q) /\ Shaped(q.todo) /\ HeadLed(q)
  <2>1. DOMAIN q.todo = {}
    BY ONLY <1>2
  <2>2. Fits(q)
    BY ONLY <1>10, <2>1, SizesAre DEF Fits
  <2>3. Shaped(q.todo)
    BY ONLY <2>1 DEF Shaped, LedIn, Covered, EndsLast, NamesLast
  <2>4. HeadLed(q)
    BY ONLY <1>2 DEF HeadLed, Does
  <2> QED
    BY <2>2, <2>3, <2>4
<1> QED
  BY <1>9, <1>11 DEF Sound

LEMMA InitMatches ==
  ASSUME Init
  PROVE  Indexed /\ \E q : Starts(q) /\ \A p \in Party : Matches(p, q)
<1>1. PICK prog \in Programs :
        calls = [p \in Party |-> <<Call("construct", 0)>> \o prog \o <<Call("destroy", 0)>>]
  BY DEF Init
<1> DEFINE q == Start(mode, prog)
<1>2. Starts(q)
  BY DEF Init, Starts
<1>3. /\ q.mode = mode /\ q.calls = <<Call("construct", 0)>> \o prog \o <<Call("destroy", 0)>>
      /\ q.todo = << >> /\ q.reg = << >> /\ q.issued = [k \in Kind |-> 0]
      /\ q.pend = [k \in Kind |-> << >>] /\ q.checked = [k \in Kind |-> << >>]
      /\ q.f2k = [ready |-> FALSE, runs |-> 0, base |-> 0, outs |-> << >>, inBase |-> 0, inCnt |-> F2K_SZ]
      /\ q.hash = << >> /\ q.used = 0 /\ q.hold = FALSE /\ q.off = 0 /\ q.done = FALSE
      /\ q.bits = 0 /\ q.cuts = {} /\ q.staged = << >> /\ q.wire = [p \in Party |-> << >>]
      /\ q.log = << >> /\ q.seeds = << >>
  BY DEF Start
<1> HIDE DEF q
<1>4. Indexed
  BY <1>1 DEF Init, Indexed
<1>5. ASSUME NEW p \in Party PROVE Matches(p, q)
  <2>1. SameControl(p, q)
    BY <1>1, <1>3 DEF SameControl, Init
  <2>2. SameBuffers(p, q)
    BY <1>3 DEF SameBuffers, Init
  <2>3. bits[p] = 0 /\ seeds[p] = << >> /\ wire[p] = << >> /\ got[p] = 0 /\ flushed[p] = FALSE
        /\ cuts[p] = {} /\ staged = << >> /\ log[p] = << >>
    BY DEF Init
  <2>4. q.wire[p] = << >> /\ q.wire[Peer(p)] = << >>
    BY ONLY <1>3, PeerIs, p \in Party
  <2>5. << >> \in Seq(Entry) /\ << >> \o << >> = << >> /\ Len(<< >>) = 0
    OBVIOUS
  <2>6. SameNet(p, q)
    BY ONLY <1>3, <2>3, <2>4, <2>5 DEF SameNet
  <2> QED
    BY <2>1, <2>2, <2>6 DEF Matches
<1> QED
  BY <1>2, <1>4, <1>5

-----------------------------------------------------------------------------
(* Places of the machine, one ahead of the other.                          *)

Begins(a, b) == Len(a) <= Len(b) /\ \A i \in 1 .. Len(a) : a[i] = b[i]

Leads(a, b) ==
  /\ \A p \in Party : Begins(a.wire[p], b.wire[p])
  /\ Begins(a.seeds, b.seeds)
  /\ a.bits <= b.bits /\ \A x \in 0 .. a.bits - 1 : x \in a.cuts <=> x \in b.cuts

LEMMA BeginsSelf ==
  ASSUME NEW S, NEW a \in Seq(S)
  PROVE  Begins(a, a)
BY DEF Begins

LEMMA BeginsNext ==
  ASSUME NEW S, NEW a \in Seq(S), NEW x \in S
  PROVE  Begins(a, Append(a, x))
BY DEF Begins

LEMMA BeginsOn ==
  ASSUME NEW S, NEW a \in Seq(S), NEW b \in Seq(S), NEW c \in Seq(S), Begins(a, b), Begins(b, c)
  PROVE  Begins(a, c)
<1> DEFINE l == Len(a)  m == Len(b)  n == Len(c)
<1>1. l \in Nat /\ m \in Nat /\ n \in Nat
  OBVIOUS
<1>2. l <= m /\ m <= n /\ (\A i \in 1 .. l : a[i] = b[i]) /\ (\A i \in 1 .. m : b[i] = c[i])
  BY DEF Begins
<1> HIDE DEF l, m, n
<1>3. l <= n /\ \A i \in 1 .. l : a[i] = c[i]
  BY ONLY <1>1, <1>2
<1> QED
  BY ONLY <1>3 DEF Begins, l, n

LEMMA LeadsSelf ==
  ASSUME NEW q, Types(q)
  PROVE  Leads(q, q)
<1>1. \A p \in Party : Begins(q.wire[p], q.wire[p])
  BY BeginsSelf DEF Types
<1>2. Begins(q.seeds, q.seeds) /\ q.bits <= q.bits
  BY BeginsSelf DEF Types
<1> QED
  BY ONLY <1>1, <1>2 DEF Leads

LEMMA LeadsNext ==
  ASSUME NEW q, Types(q), NEW s, s = Succ(q)
  PROVE  Leads(q, s)
<1>1. s.wire = WireAfter(q) /\ s.seeds = SeedsAfter(q) /\ s.bits = BitsAfter(q) /\ s.cuts = CutsAfter(q)
  BY SuccIs
<1>2. q.wire \in [Party -> Seq(Msg)] /\ q.seeds \in Seq(SeedSet) /\ q.bits \in Nat /\ q.cuts \in SUBSET Nat
      /\ q.log \in Seq(Entry)
  BY DEF Types
<1>3. Does(q, "move") => Mail(q) \in Msg /\ Head(q.todo).from \in Party /\ Head(q.todo).bits \in Nat
  BY MailTyped
<1>4. ASSUME NEW p \in Party PROVE Begins(q.wire[p], s.wire[p])
  <2>1. s.wire[p] = q.wire[p] \/ (Mail(q) \in Msg /\ s.wire[p] = Append(q.wire[p], Mail(q)))
    BY ONLY <1>1, <1>2, <1>3, p \in Party DEF WireAfter
  <2>2. q.wire[p] \in Seq(Msg)
    BY ONLY <1>2, p \in Party
  <2> QED
    BY ONLY <2>1, <2>2, BeginsSelf, BeginsNext
<1>5. Begins(q.seeds, s.seeds)
  <2>1. CASE Does(q, "seed")
    <3> DEFINE x == [use |-> Head(q.todo).use, tweak |-> Tweak(Head(q.todo).use), log |-> q.log, moved |-> Moved(q)]
    <3>1. s.seeds = Append(q.seeds, x)
      BY ONLY <1>1, <2>1 DEF SeedsAfter
    <3>2. SeedsAfter(q) \in Seq(SeedSet)
      BY NetTyped
    <3>3. Len(q.seeds) <= Len(s.seeds) /\ \A i \in 1 .. Len(q.seeds) : q.seeds[i] = s.seeds[i]
      BY <1>2, <3>1, AppendProperties
    <3> QED
      BY ONLY <3>3 DEF Begins
  <2>2. CASE ~Does(q, "seed")
    BY ONLY <1>1, <1>2, <2>2, BeginsSelf DEF SeedsAfter
  <2> QED
    BY <2>1, <2>2
<1>6. q.bits <= s.bits
  BY ONLY <1>1, <1>2, <1>3 DEF BitsAfter
<1>7. ASSUME NEW x \in 0 .. q.bits - 1 PROVE x \in q.cuts <=> x \in s.cuts
  <2>1. x # q.bits
    BY ONLY <1>2, x \in 0 .. q.bits - 1
  <2> QED
    BY ONLY <1>1, <2>1 DEF CutsAfter
<1> QED
  BY <1>4, <1>5, <1>6, <1>7 DEF Leads

LEMMA LeadsOn ==
  ASSUME NEW a, NEW b, NEW c, Types(a), Types(b), Types(c), Leads(a, b), Leads(b, c)
  PROVE  Leads(a, c)
<1>1. ASSUME NEW p \in Party PROVE Begins(a.wire[p], c.wire[p])
  <2>1. a.wire[p] \in Seq(Msg) /\ b.wire[p] \in Seq(Msg) /\ c.wire[p] \in Seq(Msg)
    BY DEF Types
  <2>2. Begins(a.wire[p], b.wire[p]) /\ Begins(b.wire[p], c.wire[p])
    BY DEF Leads
  <2> QED
    BY ONLY <2>1, <2>2, BeginsOn
<1>2. Begins(a.seeds, c.seeds)
  <2>1. a.seeds \in Seq(SeedSet) /\ b.seeds \in Seq(SeedSet) /\ c.seeds \in Seq(SeedSet)
    BY DEF Types
  <2>2. Begins(a.seeds, b.seeds) /\ Begins(b.seeds, c.seeds)
    BY DEF Leads
  <2> QED
    BY ONLY <2>1, <2>2, BeginsOn
<1>3. a.bits \in Nat /\ b.bits \in Nat /\ c.bits \in Nat
  BY DEF Types
<1>4. a.bits <= b.bits /\ b.bits <= c.bits
      /\ (\A x \in 0 .. a.bits - 1 : x \in a.cuts <=> x \in b.cuts)
      /\ (\A x \in 0 .. b.bits - 1 : x \in b.cuts <=> x \in c.cuts)
  BY DEF Leads
<1>5. a.bits <= c.bits /\ \A x \in 0 .. a.bits - 1 : x \in a.cuts <=> x \in c.cuts
  BY ONLY <1>3, <1>4
<1> QED
  BY <1>1, <1>2, <1>5 DEF Leads

LEMMA StartIs ==
  ASSUME NEW q, Starts(q)
  PROVE  /\ Sound(q) /\ (\E prog \in Programs : q.calls = <<Call("construct", 0)>> \o prog \o <<Call("destroy", 0)>>)
         /\ q.todo = << >> /\ q.issued = [k \in Kind |-> 0]
         /\ q.pend = [k \in Kind |-> << >>] /\ q.checked = [k \in Kind |-> << >>]
         /\ q.f2k.ready = FALSE /\ q.f2k.outs = << >>
         /\ q.wire = [p \in Party |-> << >>] /\ q.log = << >> /\ q.seeds = << >>
<1>1. PICK m \in Modes, prog \in Programs : q = Start(m, prog)
  BY DEF Starts
<1>2. /\ q.calls = <<Call("construct", 0)>> \o prog \o <<Call("destroy", 0)>>
      /\ q.todo = << >> /\ q.issued = [k \in Kind |-> 0]
      /\ q.pend = [k \in Kind |-> << >>] /\ q.checked = [k \in Kind |-> << >>]
      /\ q.f2k = [ready |-> FALSE, runs |-> 0, base |-> 0, outs |-> << >>, inBase |-> 0, inCnt |-> F2K_SZ]
      /\ q.wire = [p \in Party |-> << >>] /\ q.log = << >> /\ q.seeds = << >>
  BY ONLY <1>1 DEF Start
<1>3. q.f2k.ready = FALSE /\ q.f2k.outs = << >>
  BY ONLY <1>2
<1>4. Sound(q)
  BY StartSound
<1> QED
  BY ONLY <1>2, <1>3, <1>4, prog \in Programs

LEMMA StartBinding ==
  ASSUME NEW q, Starts(q)
  PROVE  Binding(q)
<1>1. q.todo = << >> /\ q.wire = [p \in Party |-> << >>] /\ q.log = << >> /\ q.seeds = << >>
  BY StartIs
<1>2. DOMAIN << >> = {} /\ Len(<< >>) = 0
  OBVIOUS
<1>3. Moved(q) = 0
  <2>1. q.wire[ALICE] = << >> /\ q.wire[BOB] = << >>
    BY <1>1, KindsAre
  <2> QED
    BY ONLY <1>2, <2>1 DEF Moved
<1>4. Whole(q)
  BY ONLY <1>1, <1>2, <1>3 DEF Whole
<1>5. Once(q.seeds)
  BY ONLY <1>1, <1>2 DEF Once
<1>6. (\A d : ~Recent(q, d)) /\ \A X : ~Some(q.todo, X)
  BY ONLY <1>1, <1>2 DEF Recent, Some
<1> QED
  BY ONLY <1>4, <1>5, <1>6 DEF Binding

LEMMA StartBooks ==
  ASSUME NEW q, Starts(q)
  PROVE  Books(q) /\ F2kFine(q)
<1>1. /\ q.todo = << >> /\ q.issued = [k \in Kind |-> 0]
      /\ q.pend = [k \in Kind |-> << >>] /\ q.checked = [k \in Kind |-> << >>]
      /\ q.f2k.ready = FALSE /\ q.f2k.outs = << >>
  BY StartIs
<1>2. DOMAIN << >> = {} /\ Len(<< >>) = 0
  OBVIOUS
<1>3. \A k \in Kind : q.issued[k] = 0 /\ q.pend[k] = << >> /\ q.checked[k] = << >>
  BY ONLY <1>1
<1>4. Books(q)
  <2>1. ASSUME NEW k \in Kind PROVE Book(q, k)
    <3>1. q.issued[k] = 0 /\ q.pend[k] = << >> /\ q.checked[k] = << >>
      BY ONLY <1>3, k \in Kind
    <3> QED
      BY ONLY <1>2, <3>1 DEF Book
  <2> QED
    BY ONLY <2>1 DEF Books
<1>5. q.pend["f2k"] = << >>
  BY ONLY <1>3, KindsAre
<1>6. \A X : ~Some(q.todo, X)
  BY ONLY <1>1, <1>2 DEF Some
<1>7. Outs(q)
  BY ONLY <1>1, <1>2, <1>5 DEF Outs
<1>8. Followed(q.todo, Folds("f2k"), AuthRuns)
  BY ONLY <1>6, FollowedNone
<1> QED
  BY ONLY <1>1, <1>4, <1>5, <1>6, <1>7, <1>8 DEF F2kFine

LEMMA StartEnd ==
  ASSUME NEW q, Starts(q)
  PROVE  Lasts(q) /\ Accounted(q)
<1> DEFINE S == {x \in CallSet : x.do \notin {"product", "products", "destroy"}}
           a == <<Call("construct", 0)>>  d == <<Call("destroy", 0)>>
<1>1. PICK prog \in Programs : q.calls = a \o prog \o d
  BY StartIs
<1>2. q.todo = << >> /\ q.pend = [k \in Kind |-> << >>]
  BY StartIs
<1>3. prog \in Seq(S) /\ Call("construct", 0) \in S /\ S \subseteq CallSet /\ Call("destroy", 0) \in CallSet
  <2>1. prog \in Seq([do : UserCalls, n : Nat \ {0}])
    BY ProgramIs
  <2>2. [do : UserCalls, n : Nat \ {0}] \subseteq S
    BY DEF CallSet, CallNames, UserCalls
  <2>3. Call("construct", 0) \in S /\ Call("destroy", 0) \in CallSet
    <3>1. Call("construct", 0) \in CallSet /\ Call("destroy", 0) \in CallSet
      BY ProgramIs
    <3> QED
      BY ONLY <3>1 DEF Call
  <2>4. S \subseteq CallSet
    OBVIOUS
  <2> HIDE DEF S
  <2> QED
    BY ONLY <2>1, <2>2, <2>3, <2>4, WiderSeq
<1>4. \A x \in S : x.do # "destroy" /\ x.do # "product"
  OBVIOUS
<1>5. Call("destroy", 0).do = "destroy"
  BY DEF Call
<1> HIDE DEF S
<1>6. a \o prog \in Seq(S) /\ a \o prog \in Seq(CallSet)
  <2>1. a \in Seq(S)
    BY ONLY <1>3, OneTyped
  <2>2. a \o prog \in Seq(S)
    BY ONLY <1>3, <2>1, CatTyped
  <2> QED
    BY ONLY <1>3, <2>2, WiderSeq
<1>7. d \in Seq(CallSet) /\ Len(d) = 1 /\ DOMAIN d = {1} /\ d[1].do = "destroy"
  BY ONLY <1>3, <1>5, OneTyped
<1> DEFINE b == a \o prog
<1>8. q.calls = b \o d /\ b \in Seq(S) /\ b \in Seq(CallSet)
  BY ONLY <1>1, <1>6
<1> HIDE DEF a, b, d
<1>9. \A i \in DOMAIN b : b[i].do # "destroy"
  <2>1. \A i \in DOMAIN b : b[i] \in S
    BY ONLY <1>8
  <2> QED
    BY ONLY <1>4, <2>1
<1>10. Lasts(q)
  <2>1. \A i \in DOMAIN (b \o d) : (b \o d)[i].do = "destroy" => i = Len(b \o d)
    BY ONLY <1>7, <1>8, <1>9, LastsCat
  <2> QED
    BY ONLY <1>8, <2>1 DEF Lasts
<1>11. Followed(q.calls, Factors, Sweeps)
  <2>1. Factors \cap S = {}
    BY ONLY <1>4 DEF Factors
  <2>2. Followed(b, Factors, Sweeps)
    BY ONLY <1>8, <2>1, NoneIn, FollowedNone
  <2>3. ~Some(d, Factors)
    BY ONLY <1>7 DEF Some, Factors
  <2>4. Followed(d, Factors, Sweeps)
    BY ONLY <2>3, FollowedNone
  <2> QED
    BY ONLY <1>7, <1>8, <2>2, <2>4, FollowedCat
<1>12. (\A k \in Kind : q.pend[k] = << >>) /\ \A X : ~Some(q.todo, X)
  <2>1. DOMAIN q.todo = {}
    BY ONLY <1>2
  <2> QED
    BY ONLY <1>2, <2>1 DEF Some
<1>13. q.pend["prod"] = << >>
  BY ONLY <1>12, KindsAre
<1> QED
  BY ONLY <1>10, <1>11, <1>12, <1>13 DEF Accounted

-----------------------------------------------------------------------------
(* The path of the machine, and the two parties on it.                     *)

Good(q) == Sound(q) /\ Binding(q) /\ Books(q) /\ F2kFine(q) /\ Lasts(q) /\ Accounted(q)

LEMMA GoodStart == ASSUME NEW q, Starts(q) PROVE Good(q)
BY ONLY Starts(q), StartSound, StartBinding, StartBooks, StartEnd DEF Good

LEMMA GoodKept == ASSUME NEW q, Good(q), CanStep(q) PROVE Good(Succ(q))
<1>1. Sound(q) /\ Binding(q) /\ Books(q) /\ F2kFine(q) /\ Lasts(q) /\ Accounted(q)
  BY DEF Good
<1> DEFINE s == Succ(q)
<1>2. Types(q) /\ Fits(q) /\ Outs(q)
  BY ONLY <1>1 DEF Sound, F2kFine
<1>3. s = Succ(q) /\ Sound(s)
  BY ONLY <1>1, CanStep(q), SoundKept
<1> HIDE DEF s
<1>4. Binding(s)
  BY ONLY <1>1, <1>3, CanStep(q), BindingKept
<1>5. Books(s)
  BY ONLY <1>1, <1>2, <1>3, BooksKept
<1>6. F2kFine(s)
  BY ONLY <1>1, <1>3, CanStep(q), F2kKept
<1>7. Lasts(s)
  BY ONLY <1>1, <1>2, <1>3, CanStep(q), LastsKept
<1>8. Accounted(s)
  BY ONLY <1>1, <1>3, CanStep(q), EndKept
<1> QED
  BY ONLY <1>3, <1>4, <1>5, <1>6, <1>7, <1>8 DEF Good

LEMMA GoodTyped == ASSUME NEW q, Good(q) PROVE Sound(q) /\ Types(q)
BY DEF Good, Sound

Path(H, M) ==
  /\ M \in Nat /\ Starts(H[0])
  /\ \A i \in 0 .. M - 1 : CanStep(H[i]) /\ H[i + 1] = Succ(H[i])
  /\ \A i \in 0 .. M : Good(H[i])
  /\ \A i, j \in 0 .. M : i <= j => Leads(H[i], H[j])

LEMMA PathStarts ==
  ASSUME NEW q, Starts(q)
  PROVE  \E H : Path(H, 0) /\ H[0] = q
<1> DEFINE H == [i \in Nat |-> q]
<1>1. H[0] = q
  OBVIOUS
<1> HIDE DEF H
<1>2. Good(q) /\ Leads(q, q)
  BY GoodStart, GoodTyped, LeadsSelf
<1>3. \A i \in 0 .. 0 : i = 0
  OBVIOUS
<1>4. 0 \in Nat /\ \A i \in 0 .. 0 - 1 : FALSE
  OBVIOUS
<1>5. Path(H, 0)
  BY ONLY <1>1, <1>2, <1>3, <1>4, Starts(q) DEF Path
<1> QED
  BY <1>1, <1>5

\* A path goes on from its end.
LEMMA PathLonger ==
  ASSUME NEW H, NEW M, Path(H, M), CanStep(H[M])
  PROVE  \E G : Path(G, M + 1) /\ (\A i \in 0 .. M : G[i] = H[i]) /\ G[M + 1] = Succ(H[M])
<1> DEFINE s == Succ(H[M])  G == [i \in Nat |-> IF i = M + 1 THEN s ELSE H[i]]
<1>1. M \in Nat /\ M \in 0 .. M /\ M + 1 \in Nat /\ 0 \in 0 .. M
  BY DEF Path
<1>2. G[M + 1] = s /\ \A i \in 0 .. M : G[i] = H[i]
  BY ONLY <1>1
<1>3. Starts(H[0]) /\ (\A i \in 0 .. M - 1 : CanStep(H[i]) /\ H[i + 1] = Succ(H[i]))
      /\ (\A i \in 0 .. M : Good(H[i])) /\ (\A i, j \in 0 .. M : i <= j => Leads(H[i], H[j]))
  BY DEF Path
<1>4. Good(H[M]) /\ Good(s) /\ Types(H[M]) /\ Types(s) /\ Leads(H[M], s) /\ Leads(s, s)
  <2>1. Good(H[M]) /\ Good(s)
    BY <1>1, <1>3, GoodKept
  <2>2. Types(H[M]) /\ Types(s)
    BY ONLY <2>1, GoodTyped
  <2> QED
    BY <2>1, <2>2, LeadsNext, LeadsSelf
<1> HIDE DEF G, s
<1>5. \A i \in 0 .. M : H[i] = G[i]
  BY ONLY <1>2
<1>6. \A i \in 0 .. M + 1 : i \in 0 .. M \/ i = M + 1
  BY ONLY <1>1
<1>7. ASSUME NEW i \in 0 .. (M + 1) - 1 PROVE CanStep(G[i]) /\ G[i + 1] = Succ(G[i])
  <2>1. CASE i = M
    BY ONLY <1>1, <1>2, <2>1, CanStep(H[M]) DEF s
  <2>2. CASE i # M
    <3>1. i \in 0 .. M - 1 /\ i \in 0 .. M /\ i + 1 \in 0 .. M
      BY ONLY <1>1, <2>2, i \in 0 .. (M + 1) - 1
    <3> QED
      BY ONLY <1>2, <1>3, <3>1
  <2> QED
    BY <2>1, <2>2
<1>8. ASSUME NEW i \in 0 .. M + 1 PROVE Good(G[i])
  BY ONLY <1>2, <1>3, <1>4, <1>6, i \in 0 .. M + 1
<1>9. ASSUME NEW i \in 0 .. M + 1, NEW j \in 0 .. M + 1, i <= j PROVE Leads(G[i], G[j])
  <2>1. CASE j \in 0 .. M
    <3>1. i \in 0 .. M
      BY ONLY <1>1, <2>1, i \in 0 .. M + 1, i <= j
    <3> QED
      BY ONLY <1>2, <1>3, <2>1, <3>1, i <= j
  <2>2. CASE j = M + 1 /\ i \in 0 .. M
    <3>1. i <= M
      BY ONLY <1>1, <2>2
    <3>2. Leads(H[i], H[M]) /\ Types(H[i])
      BY ONLY <1>1, <1>3, <2>2, <3>1, GoodTyped
    <3>3. Leads(H[i], s)
      BY ONLY <1>4, <3>2, LeadsOn
    <3> QED
      BY ONLY <1>2, <2>2, <3>3
  <2>3. CASE j = M + 1 /\ i = M + 1
    BY ONLY <1>2, <1>4, <2>3
  <2> QED
    BY ONLY <1>6, <2>1, <2>2, <2>3, i \in 0 .. M + 1, j \in 0 .. M + 1
<1>10. Starts(G[0])
  BY ONLY <1>1, <1>2, <1>3
<1>11. Path(G, M + 1)
  BY ONLY <1>1, <1>7, <1>8, <1>9, <1>10 DEF Path
<1> QED
  BY ONLY <1>2, <1>11 DEF s

\* Each party is somewhere on one path.
On(H, M, c) ==
  Path(H, M) /\ c \in [Party -> 0 .. M] /\ \A p \in Party : Matches(p, H[c[p]])

TwoInv == Indexed /\ \E H, M, c : On(H, M, c)

LEMMA TwoInit == Init => TwoInv
<1> SUFFICES ASSUME Init PROVE TwoInv
  OBVIOUS
<1>1. Indexed
  BY InitMatches
<1>2. PICK q : Starts(q) /\ \A p \in Party : Matches(p, q)
  BY InitMatches
<1>3. PICK H : Path(H, 0) /\ H[0] = q
  BY <1>2, PathStarts
<1> DEFINE c == [p \in Party |-> 0]
<1>4. c \in [Party -> 0 .. 0] /\ \A p \in Party : c[p] = 0
  OBVIOUS
<1> HIDE DEF c
<1>5. On(H, 0, c)
  BY ONLY <1>2, <1>3, <1>4 DEF On
<1> QED
  BY ONLY <1>1, <1>5 DEF TwoInv

LEMMA OnAt ==
  ASSUME NEW H, NEW M, NEW c, Indexed, On(H, M, c), NEW p \in Party
  PROVE  /\ M \in Nat /\ c[p] \in 0 .. M /\ Follows(p, H[c[p]]) /\ Good(H[c[p]]) /\ Types(H[c[p]])
         /\ Matches(p, H[c[p]])
<1>1. Path(H, M) /\ c[p] \in 0 .. M /\ Matches(p, H[c[p]])
  BY DEF On
<1>2. M \in Nat /\ Good(H[c[p]])
  BY ONLY <1>1 DEF Path
<1>3. Sound(H[c[p]]) /\ Types(H[c[p]])
  BY ONLY <1>2, GoodTyped
<1> QED
  BY <1>1, <1>2, <1>3 DEF Follows

\* One party moves on, the other stays.
LEMMA TwoMove ==
  ASSUME NEW H, NEW M, NEW c, Path(H, M), c \in [Party -> 0 .. M], NEW p \in Party,
         CanStep(H[c[p]]), NEW G, NEW K, Path(G, K), K \in Nat, c[p] + 1 \in 0 .. K, M <= K,
         \A i \in 0 .. M : G[i] = H[i], G[c[p] + 1] = Succ(H[c[p]]),
         Matches(p, Succ(H[c[p]]))', \A o \in Party : o # p => Matches(o, H[c[o]])'
  PROVE  (\E F, L, d : On(F, L, d))'
<1> DEFINE s == Succ(H[c[p]])  d == [c EXCEPT ![p] = c[p] + 1]
<1>0. M \in Nat
  BY DEF Path
<1>1. d \in [Party -> 0 .. K] /\ d[p] = c[p] + 1 /\ \A o \in Party : o # p => d[o] = c[o] /\ c[o] \in 0 .. M
  <2>1. \A o \in Party : c[o] \in 0 .. K /\ c[o] \in 0 .. M
    BY <1>0
  <2> QED
    BY <2>1
<1>2. Matches(p, s)' /\ G[d[p]] = s
  BY <1>1
<1> HIDE DEF d, s
<1>3. \A o \in Party : o # p => G[d[o]] = H[c[o]]
  BY ONLY <1>1, \A i \in 0 .. M : G[i] = H[i]
<1>4. Matches(p, G[d[p]])'
  BY ONLY <1>2
<1>5. ASSUME NEW o \in Party, o # p PROVE Matches(o, G[d[o]])'
  <2> DEFINE a == H[c[o]]  b == G[d[o]]
  <2>1. Matches(o, a)' /\ a = b
    BY <1>3, <1>5
  <2> HIDE DEF a, b
  <2>2. Matches(o, b)'
    BY ONLY <2>1
  <2> QED
    BY ONLY <2>2 DEF b
<1>6. (\A o \in Party : Matches(o, G[d[o]]))'
  BY <1>4, <1>5
<1>7. On(G, K, d)'
  BY <1>1, <1>6, Path(G, K) DEF On
<1> QED
  BY <1>7

LEMMA TwoNext == TwoInv /\ [Next]_vars => TwoInv'
<1> SUFFICES ASSUME TwoInv, [Next]_vars PROVE TwoInv'
  OBVIOUS
<1>1. Indexed
  BY DEF TwoInv
<1>2. PICK H, M, c : On(H, M, c)
  BY DEF TwoInv
<1>3. Path(H, M) /\ c \in [Party -> 0 .. M]
  BY <1>2 DEF On
<1>4. ASSUME NEW p \in Party, ProducerStep(p) \/ SpontaneousWrite(p) \/ UNCHANGED vars
      PROVE  TwoInv'
  <2>1. Indexed'
    BY <1>1, <1>4, OthersIndexed
  <2>2. ASSUME NEW o \in Party PROVE Matches(o, H[c[o]])'
    <3>1. Apart(o)
      BY <1>4, OthersApart
    <3>2. Matches(o, H[c[o]])
      BY <1>2 DEF On
    <3> DEFINE a == H[c[o]]
    <3>3. Matches(o, a)
      BY <3>2
    <3> HIDE DEF a
    <3>4. Matches(o, a)'
      BY ONLY <3>1, <3>3, o \in Party, ApartKept
    <3> QED
      BY ONLY <3>4 DEF a
  <2>3. On(H, M, c)'
    BY <1>3, <2>2 DEF On
  <2> QED
    BY <2>1, <2>3 DEF TwoInv
<1>5. ASSUME NEW p \in Party, EngineStep(p) PROVE TwoInv'
  <2> DEFINE q == H[c[p]]
  <2>1. M \in Nat /\ c[p] \in 0 .. M /\ Follows(p, q)
    BY <1>1, <1>2, OnAt
  <2>2. Indexed'
    BY <1>1, <1>5, StepIndexed
  <2>3. ASSUME NEW o \in Party, o # p PROVE Matches(o, H[c[o]])'
    <3> DEFINE a == H[c[o]]
    <3>1. Apart(o)
      BY <1>5, <2>1, <2>3, StepApart
    <3>2. Matches(o, a)
      BY <1>2 DEF On
    <3> HIDE DEF a
    <3>4. Matches(o, a)'
      BY ONLY <3>1, <3>2, o \in Party, ApartKept
    <3> QED
      BY ONLY <3>4 DEF a
  <2>4. (CanStep(q) /\ Matches(p, Succ(q))') \/ Matches(p, q)'
    <3> HIDE DEF q
    <3> DEFINE s == Succ(q)
    <3>1. s = Succ(q)
      OBVIOUS
    <3> HIDE DEF s
    <3>2. (CanStep(q) /\ Matches(p, s)') \/ Matches(p, q)'
      BY ONLY <1>5, <2>1, <3>1, p \in Party, StepMatches
    <3> QED
      BY ONLY <3>2 DEF s
  <2>5. CASE Matches(p, q)'
    <3>1. ASSUME NEW o \in Party PROVE Matches(o, H[c[o]])'
      BY <2>3, <2>5
    <3>2. On(H, M, c)'
      BY <1>3, <3>1 DEF On
    <3> QED
      BY <2>2, <3>2 DEF TwoInv
  <2>6. CASE CanStep(q) /\ Matches(p, Succ(q))' /\ c[p] < M
    <3>1. c[p] \in 0 .. M - 1 /\ c[p] + 1 \in 0 .. M /\ M <= M
      BY ONLY <2>1, <2>6
    <3>2. H[c[p] + 1] = Succ(q)
      BY <1>3, <3>1 DEF Path
    <3>3. (\E F, L, d : On(F, L, d))'
      BY <1>3, <2>1, <2>3, <2>6, <3>1, <3>2, TwoMove
    <3> QED
      BY ONLY <2>2, <3>3 DEF TwoInv
  <2>7. CASE CanStep(q) /\ Matches(p, Succ(q))' /\ ~(c[p] < M)
    <3>1. c[p] = M /\ c[p] + 1 \in 0 .. M + 1 /\ M <= M + 1 /\ M + 1 \in Nat
      BY ONLY <2>1, <2>7
    <3>2. PICK G : Path(G, M + 1) /\ (\A i \in 0 .. M : G[i] = H[i]) /\ G[M + 1] = Succ(H[M])
      BY ONLY <1>3, <2>7, <3>1, PathLonger
    <3>3. G[c[p] + 1] = Succ(q)
      BY ONLY <3>1, <3>2
    <3>4. (\E F, L, d : On(F, L, d))'
      BY <1>3, <2>1, <2>3, <2>7, <3>1, <3>2, <3>3, TwoMove
    <3> QED
      BY ONLY <2>2, <3>4 DEF TwoInv
  <2> QED
    BY <2>4, <2>5, <2>6, <2>7
<1>6. ALICE \in Party
  BY KindsAre
<1>7. CASE UNCHANGED vars
  BY <1>4, <1>6, <1>7
<1>8. CASE Terminated
  BY <1>4, <1>6, <1>8 DEF Terminated
<1> QED
  BY <1>4, <1>5, <1>7, <1>8 DEF Next

\* The two parties never part: each is, at every moment, at some place of one
\* path of the machine, which the program, the source of COTs and the sizes
\* alone determine; and the path has everything that Good says of it.
THEOREM OnOnePath == Spec => []TwoInv
BY TwoInit, TwoNext, PTL DEF Spec

LEMMA Ahead ==
  ASSUME NEW H, NEW M, NEW c, Indexed, On(H, M, c), NEW p \in Party, NEW o \in Party, c[p] <= c[o]
  PROVE  Leads(H[c[p]], H[c[o]])
<1>1. Path(H, M) /\ c[p] \in 0 .. M /\ c[o] \in 0 .. M
  BY DEF On
<1> QED
  BY ONLY <1>1, c[p] <= c[o] DEF Path

LEMMA TwoStreams ==
  ASSUME NEW H, NEW M, NEW c, Indexed, On(H, M, c), NEW p \in Party, At(p, "move"),
         Head(todo[p]).from # p, Len(wire[Peer(p)]) > got[p]
  PROVE  wire[Peer(p)][got[p] + 1] = Message(p, Head(todo[p]).what)
<1> DEFINE o == Peer(p)  q == H[c[p]]  r == H[c[o]]  s == Succ(q)
<1>1. o \in Party /\ o # p /\ Peer(o) = p
  BY PeerIs
<1>2. M \in Nat /\ c[p] \in 0 .. M /\ Follows(p, q) /\ Types(q) /\ Good(q)
  BY OnAt
<1>3. c[o] \in 0 .. M /\ Types(r) /\ Matches(o, r)
  BY <1>1, OnAt
<1> HIDE DEF o, q, r, s
<1>4. /\ Does(q, "move") /\ Head(todo[p]) = Head(q.todo) /\ Head(q.todo).from \in Party
      /\ got[p] = Len(q.wire[o]) /\ q.wire \in [Party -> Seq(Msg)] /\ Mail(q) \in Msg
  <2>1. Transfer(p, q)
    BY ONLY <1>2, p \in Party, At(p, "move"), TransferAt
  <2> QED
    BY ONLY <2>1 DEF Transfer, o
<1>5. Head(q.todo).from = o
  BY <1>4, PeerIs DEF o
<1>6. wire[o] = r.wire[o]
  BY ONLY <1>3 DEF Matches, SameNet
<1>7. q.wire[o] \in Seq(Msg) /\ r.wire[o] \in Seq(Msg)
  BY ONLY <1>1, <1>2, <1>3 DEF Types
<1>8. Len(q.wire[o]) \in Nat /\ Len(r.wire[o]) \in Nat /\ Len(r.wire[o]) > Len(q.wire[o])
  BY <1>4, <1>6, <1>7, LenProperties DEF o
<1>9. c[p] < c[o]
  <2>1. ASSUME c[o] <= c[p] PROVE FALSE
    <3>1. Leads(r, q)
      BY <1>1, <2>1, Ahead DEF q, r
    <3>2. Len(r.wire[o]) <= Len(q.wire[o])
      BY ONLY <1>1, <3>1 DEF Leads, Begins
    <3> QED
      BY ONLY <1>8, <3>2
  <2> QED
    BY ONLY <1>2, <1>3, <2>1
<1>10. c[p] \in 0 .. M - 1 /\ c[p] + 1 \in 0 .. M /\ c[p] + 1 <= c[o]
  BY ONLY <1>2, <1>3, <1>9
<1>11. s = H[c[p] + 1] /\ Leads(s, r)
  <2>1. Path(H, M)
    BY DEF On
  <2> QED
    BY ONLY <1>3, <1>10, <2>1 DEF Path, q, r, s
<1>12. s.wire[o] = Append(q.wire[o], Mail(q))
  <2>1. s.wire = [q.wire EXCEPT ![Head(q.todo).from] = Append(@, Mail(q))]
    BY <1>4, SuccMove DEF s
  <2> QED
    BY ONLY <1>1, <1>4, <1>5, <2>1
<1>13. Len(s.wire[o]) = Len(q.wire[o]) + 1 /\ s.wire[o][Len(q.wire[o]) + 1] = Mail(q)
  BY ONLY <1>4, <1>7, <1>12
<1>14. r.wire[o][Len(q.wire[o]) + 1] = s.wire[o][Len(q.wire[o]) + 1]
  <2>1. \A i \in 1 .. Len(s.wire[o]) : s.wire[o][i] = r.wire[o][i]
    BY ONLY <1>1, <1>11 DEF Leads, Begins
  <2>2. Len(q.wire[o]) + 1 \in 1 .. Len(s.wire[o])
    BY ONLY <1>8, <1>13
  <2> QED
    BY ONLY <2>1, <2>2
<1>15. Message(p, Head(todo[p]).what) = Mail(q)
  BY ONLY <1>2, p \in Party, MessageIs
<1> QED
  BY ONLY <1>4, <1>6, <1>13, <1>14, <1>15 DEF o

\* What a party takes off the wire is what it computed, however the two are
\* apart: the batch checks, refills and VOLE runs fall in the same places of
\* both streams.
THEOREM Aligned == Spec => []StreamsAligned
<1>1. TwoInv => StreamsAligned
  BY TwoStreams DEF TwoInv, StreamsAligned
<1> QED
  BY <1>1, OnOnePath, PTL

LEMMA CutsOf ==
  ASSUME NEW p, NEW q, Matches(p, q), Types(q)
  PROVE  bits[p] = q.bits /\ q.bits \in Nat /\ \A x \in 0 .. q.bits - 1 : x \in cuts[p] <=> x \in q.cuts
<1>1. bits[p] = q.bits /\ q.bits \in Nat
  BY DEF Matches, SameNet, Types
<1>2. cuts[p] = q.cuts \/ cuts[p] = q.cuts \cup {q.bits}
  BY DEF Matches, SameNet
<1>3. ASSUME NEW x \in 0 .. q.bits - 1 PROVE x \in cuts[p] <=> x \in q.cuts
  <2>1. x # q.bits
    BY ONLY <1>1, x \in 0 .. q.bits - 1
  <2> QED
    BY ONLY <1>2, <2>1
<1> QED
  BY <1>1, <1>3

\* Both ends cut ALICE's blocks of bits short at the same bits, although each
\* flushes when its own calls, waits and transfers tell it to.
THEOREM CutsInStep == Spec => []CutsAgree
<1>1. TwoInv => CutsAgree
  <2> SUFFICES ASSUME TwoInv PROVE CutsAgree
    OBVIOUS
  <2>1. PICK H, M, c : On(H, M, c)
    BY DEF TwoInv
  <2>2. Indexed /\ ALICE \in Party /\ BOB \in Party
    BY KindsAre DEF TwoInv
  <2> DEFINE a == H[c[ALICE]]  b == H[c[BOB]]
  <2>3. /\ Matches(ALICE, a) /\ Types(a) /\ c[ALICE] \in Int
        /\ Matches(BOB, b) /\ Types(b) /\ c[BOB] \in Int
    BY <2>1, <2>2, OnAt
  <2>4. Leads(a, b) \/ Leads(b, a)
    <3>1. c[ALICE] <= c[BOB] \/ c[BOB] <= c[ALICE]
      BY ONLY <2>3
    <3> QED
      BY <2>1, <2>2, <3>1, Ahead
  <2> HIDE DEF a, b
  <2>5. /\ bits[ALICE] = a.bits /\ a.bits \in Nat
        /\ \A x \in 0 .. a.bits - 1 : x \in cuts[ALICE] <=> x \in a.cuts
    BY ONLY <2>3, CutsOf
  <2>6. /\ bits[BOB] = b.bits /\ b.bits \in Nat
        /\ \A x \in 0 .. b.bits - 1 : x \in cuts[BOB] <=> x \in b.cuts
    BY ONLY <2>3, CutsOf
  <2>7. ASSUME NEW x \in 0 .. Lesser(bits[ALICE], bits[BOB]) - 1
        PROVE  x \in cuts[ALICE] <=> x \in cuts[BOB]
    <3>1. x \in 0 .. a.bits - 1 /\ x \in 0 .. b.bits - 1
      BY ONLY <2>5, <2>6, x \in 0 .. Lesser(bits[ALICE], bits[BOB]) - 1 DEF Lesser
    <3>2. x \in a.cuts <=> x \in b.cuts
      BY ONLY <2>4, <3>1 DEF Leads
    <3> QED
      BY ONLY <2>5, <2>6, <3>1, <3>2
  <2> QED
    BY <2>7 DEF CutsAgree
<1> QED
  BY <1>1, OnOnePath, PTL

LEMMA TwoSeeds ==
  ASSUME NEW H, NEW M, NEW c, Indexed, On(H, M, c)
  PROVE  ChallengesBind
<1>1. ASSUME NEW p \in Party
      PROVE  /\ seeds[p] = H[c[p]].seeds /\ Types(H[c[p]]) /\ Good(H[c[p]]) /\ c[p] \in Int
  <2>1. M \in Nat /\ c[p] \in 0 .. M /\ Good(H[c[p]]) /\ Types(H[c[p]]) /\ Matches(p, H[c[p]])
    BY OnAt
  <2>2. seeds[p] = H[c[p]].seeds
    BY ONLY <2>1 DEF Matches, SameNet
  <2> QED
    BY ONLY <2>1, <2>2
<1>2. ALICE \in Party /\ BOB \in Party
  BY KindsAre
<1>3. ASSUME NEW p \in Party
      PROVE  (\A k \in DOMAIN seeds[p] : Len(seeds[p][k].log) = seeds[p][k].moved) /\ Once(seeds[p])
  <2>1. Binding(H[c[p]]) /\ seeds[p] = H[c[p]].seeds
    BY ONLY <1>1, p \in Party DEF Good
  <2> QED
    BY ONLY <2>1 DEF Binding, Whole
<1> DEFINE a == H[c[ALICE]]  b == H[c[BOB]]
<1>4. Leads(a, b) \/ Leads(b, a)
  <2>1. c[ALICE] <= c[BOB] \/ c[BOB] <= c[ALICE]
    BY ONLY <1>1, <1>2
  <2> QED
    BY <1>2, <2>1, Ahead
<1>5. seeds[ALICE] = a.seeds /\ seeds[BOB] = b.seeds /\ a.seeds \in Seq(SeedSet) /\ b.seeds \in Seq(SeedSet)
  BY ONLY <1>1, <1>2 DEF Types
<1> HIDE DEF a, b
<1>6. ASSUME NEW k \in DOMAIN a.seeds \cap DOMAIN b.seeds PROVE a.seeds[k] = b.seeds[k]
  <2>1. k \in 1 .. Len(a.seeds) /\ k \in 1 .. Len(b.seeds)
    BY ONLY <1>5, k \in DOMAIN a.seeds \cap DOMAIN b.seeds
  <2> QED
    BY ONLY <1>4, <2>1 DEF Leads, Begins
<1>7. \A k \in DOMAIN seeds[ALICE] \cap DOMAIN seeds[BOB] : seeds[ALICE][k] = seeds[BOB][k]
  BY ONLY <1>5, <1>6
<1> QED
  BY ONLY <1>3, <1>7 DEF ChallengesBind, Once

\* Every Fiat-Shamir challenge is the same on both sides and covers all that was
\* transferred before it, whatever the program and the sizes.  Those of checks
\* and the points of permutations have inputs that no later challenge has; a
\* coefficient vector may share its digest with the fold or the check that
\* follows it, never with a point.
THEOREM ChallengesCover == Spec => []ChallengesBind
<1>1. TwoInv => ChallengesBind
  BY TwoSeeds DEF TwoInv
<1> QED
  BY <1>1, OnOnePath, PTL

\* Where the machine ends its session, nothing waits for a check.
LEMMA NothingWaits ==
  ASSUME NEW q, Good(q), Does(q, "finish"), NEW k \in Kind
  PROVE  q.checked[k] = [i \in 1 .. q.issued[k] |-> <<i, i>>]
<1>0. Types(q) /\ Shaped(q.todo) /\ Books(q) /\ Accounted(q) /\ ~Idle(q)
  BY DEF Good, Sound, Does, Idle
<1>1. /\ q.todo \in Seq(Step) /\ q.todo # << >> /\ Head(q.todo) \in Closings /\ Head(q.todo).do = "finish"
      /\ Head(q.todo) \notin Folds(k)
  BY <1>0, HandIs DEF Does
<1>2. /\ Len(q.todo) \in Nat /\ Len(q.todo) >= 1 /\ DOMAIN q.todo = 1 .. Len(q.todo) /\ Head(q.todo) = q.todo[1]
  BY ONLY <1>1, HeadIs
<1>3. DOMAIN q.todo = {1}
  <2> DEFINE t == q.todo  n == Len(t)
  <2>1. EndsLast(t)
    BY ONLY <1>0 DEF Shaped
  <2>2. n \in Nat /\ n >= 1 /\ DOMAIN t = 1 .. n /\ t[1].do = "finish"
    BY ONLY <1>1, <1>2
  <2>3. \A i \in DOMAIN t : t[i].do \in {"issue", "finish"} => i = n
    BY ONLY <2>1 DEF EndsLast
  <2> HIDE DEF t, n
  <2>4. 1 = n
    BY ONLY <2>2, <2>3
  <2> QED
    BY ONLY <2>2, <2>4 DEF t
<1>4. Some(q.todo, Closings) /\ ~Some(q.todo, Folds(k))
  BY ONLY <1>1, <1>2, <1>3 DEF Some
<1>5. q.pend[k] = << >>
  BY ONLY <1>0, <1>4, k \in Kind DEF Accounted
<1>6. /\ Len(q.checked[k]) + Len(q.pend[k]) = q.issued[k]
      /\ \A i \in DOMAIN q.checked[k] : q.checked[k][i] = <<i, i>>
  BY ONLY <1>0, k \in Kind DEF Books, Book
<1> DEFINE s == q.checked[k]  n == q.issued[k]
<1>7. s \in Seq(Nat \X Nat) /\ n \in Nat
  BY ONLY <1>0, k \in Kind DEF Types
<1>8. Len(s) = n /\ \A i \in DOMAIN s : s[i] = <<i, i>>
  <2>1. Len(<< >>) = 0
    OBVIOUS
  <2>2. Len(s) \in Nat
    BY ONLY <1>7, LenProperties
  <2> QED
    BY ONLY <1>5, <1>6, <2>1, <2>2
<1> HIDE DEF s, n
<1>9. DOMAIN s = 1 .. n /\ s = [i \in DOMAIN s |-> s[i]]
  BY ONLY <1>7, <1>8
<1>10. s = [i \in 1 .. n |-> <<i, i>>]
  BY ONLY <1>8, <1>9
<1> QED
  BY ONLY <1>10 DEF s, n

\* When a party is done with its COT session, each of its gates, products and
\* relations has been in exactly one check, with its own output: no refill
\* comes before the check of what the buffer serves, none is left by the end.
THEOREM EveryGateChecked == Spec => []AllChecked
<1>1. TwoInv => AllChecked
  <2> SUFFICES ASSUME TwoInv, NEW p \in Party, At(p, "finish"), NEW k \in Kind
               PROVE  checked[p][k] = [i \in 1 .. issued[p][k] |-> <<i, i>>]
    BY DEF AllChecked
  <2>1. PICK H, M, c : On(H, M, c)
    BY DEF TwoInv
  <2> DEFINE q == H[c[p]]
  <2>2. Good(q) /\ Matches(p, q)
    BY <2>1, OnAt DEF TwoInv
  <2> HIDE DEF q
  <2>3. SameControl(p, q) /\ SameBuffers(p, q)
    BY ONLY <2>2 DEF Matches
  <2>4. Does(q, "finish")
    BY ONLY <2>3, p \in Party, At(p, "finish"), HeadDoes
  <2>5. q.checked[k] = [i \in 1 .. q.issued[k] |-> <<i, i>>]
    BY ONLY <2>2, <2>4, k \in Kind, NothingWaits
  <2> QED
    BY ONLY <2>3, <2>5 DEF SameBuffers
<1> QED
  BY <1>1, OnOnePath, PTL
=============================================================================
