---------------------------- MODULE ChannelProofs ----------------------------
(***************************************************************************)
(* What the two ends of a channel may rely on.  First BoolIO, the channel  *)
(* of bits and bytes between the parties of the boolean protocol: for      *)
(* every program of calls and every size of its blocks, what arrives is    *)
(* what was sent, and the challenges come from one transcript.  Then       *)
(* CorrelationPipe, the ring between two threads of a party: its safety    *)
(* properties for every ring size, round size and number of draws, and the *)
(* stream it implements.                                                   *)
(*                                                                         *)
(* Both ends of BoolIO follow one machine, whose state after each call the *)
(* program alone determines (Path).  The invariant IOInv says where either *)
(* end is on that path, that what the sender has logged and the receiver   *)
(* has not is on the channel, and who may be ahead of whom.                *)
(***************************************************************************)
EXTENDS CorrelationPipe, BitChannel, SequenceTheorems, TLAPS

IO == INSTANCE BoolIO

-----------------------------------------------------------------------------
(* The machine both ends follow.                                           *)

Sizes == STAGE \in Nat \ {0} /\ MaxCalls \in Nat

Item == [kind : {"bits", "bytes"}, data : Seq(Nat)]

\* What a party has sent and received after a call, the bits in the block that
\* is still open, and the challenges drawn.
State == [log : Seq(Item), open : Seq(Nat), seeds : Seq(Seq(Item))]

Padded(bits) == IO!Block([i \in 1 .. STAGE |-> IF i <= Len(bits) THEN bits[i] ELSE IO!Pad])

\* The open block is cut short.
CutLog(q) == IF q.open = << >> THEN q.log ELSE Append(q.log, Padded(q.open))
Cut(q)    == [log |-> CutLog(q), open |-> << >>, seeds |-> q.seeds]

\* Call c, the i-th.
BitOf(q, i) ==
  IF Len(q.open) + 1 = STAGE
  THEN [log |-> Append(q.log, Padded(Append(q.open, i))), open |-> << >>, seeds |-> q.seeds]
  ELSE [log |-> q.log, open |-> Append(q.open, i), seeds |-> q.seeds]
BytesOf(q, i) == [log |-> Append(CutLog(q), IO!Bytes(i)), open |-> << >>, seeds |-> q.seeds]
ChallengeOf(q) == [log |-> CutLog(q), open |-> << >>, seeds |-> Append(q.seeds, CutLog(q))]

Succ(q, c, i) ==
  CASE c = "bit"             -> BitOf(q, i)
    [] c \in {"down", "up"}  -> BytesOf(q, i)
    [] c = "flush"           -> Cut(q)
    [] c = "challenge"       -> ChallengeOf(q)

Begins(s, t) == Len(s) <= Len(t) /\ \A i \in 1 .. Len(s) : t[i] = s[i]

\* r is q, reached with i calls, or comes later: nothing is taken back, a block
\* open at q begins the block that follows, and one opened after q holds later bits.
Leads(i, q, r) ==
  /\ Begins(q.log, r.log) /\ Begins(q.seeds, r.seeds)
  /\ IF Len(r.log) = Len(q.log) THEN Begins(q.open, r.open)
     ELSE q.open # << >> => /\ r.log[Len(q.log) + 1].kind = "bits"
                            /\ Begins(q.open, r.log[Len(q.log) + 1].data)
  /\ r.open # << >> /\ (q.open = << >> \/ Len(r.log) > Len(q.log)) => r.open[1] > i

\* An open block is not full, and holds bits of calls made so far.
StateOK(q, P, i) ==
  /\ q \in State /\ Len(q.open) < STAGE
  /\ \A n \in 1 .. Len(q.open) : q.open[n] \in 1 .. i /\ P[q.open[n]] = "bit"

\* The states after each call of the program P.
Path(H, P) ==
  /\ H[0] = [log |-> << >>, open |-> << >>, seeds |-> << >>]
  /\ \A i \in 0 .. Len(P) : StateOK(H[i], P, i)
  /\ \A i \in 0 .. Len(P) - 1 : H[i + 1] = Succ(H[i], P[i + 1], i + 1)
  /\ \A i \in 0 .. Len(P) : \A j \in i .. Len(P) : Leads(i, H[i], H[j])

-----------------------------------------------------------------------------
(* The invariant.                                                          *)

\* Calls p has made, and whether it has cut its block for the next, or at the end.
Made(p)    == IF at[p] = MaxCalls + 2 THEN MaxCalls ELSE at[p] - 1
Cutting(p) == flushed[p] \/ at[p] = MaxCalls + 2

As(p, H) == IF Cutting(p) THEN Cut(H[Made(p)]) ELSE H[Made(p)]

Control(P) ==
  /\ P \in Seq(IO!Call) /\ Len(P) <= MaxCalls
  /\ at \in [IO!Party -> Nat] /\ flushed \in [IO!Party -> BOOLEAN]
  /\ \A p \in IO!Party : /\ at[p] \in 1 .. MaxCalls + 2 /\ Made(p) <= Len(P)
                         /\ flushed[p] => /\ at[p] <= Len(P)
                                          /\ P[at[p]] = IF p = IO!ALICE THEN "up" ELSE "down"

Shapes ==
  /\ stage \in [IO!Party -> Seq(Nat)] /\ chan \in [IO!Party -> Seq(Item)] /\ visible \in [IO!Party -> Nat]
  /\ log \in [IO!Party -> Seq(Item)] /\ seeds \in [IO!Party -> Seq(Seq(Item))]
  /\ got \in [IO!Party -> Seq(Nat \X Nat)]
  /\ \A p \in IO!Party : visible[p] <= Len(chan[p])

Types(P) == Control(P) /\ Shapes

\* ALICE is where the machine is; so is BOB, who holds the rest of the block
\* from which he takes bits.
AliceAt(H) ==
  /\ log[IO!ALICE] = As(IO!ALICE, H).log /\ stage[IO!ALICE] = As(IO!ALICE, H).open
  /\ seeds[IO!ALICE] = As(IO!ALICE, H).seeds

BobAt(H) ==
  LET q == As(IO!BOB, H)
      n == Len(q.log) + 1
  IN  /\ seeds[IO!BOB] = q.seeds
      /\ IF q.open = << >>
         THEN log[IO!BOB] = q.log /\ stage[IO!BOB] = << >>
         ELSE /\ n <= Len(log[IO!ALICE])
              /\ log[IO!BOB] = Append(q.log, log[IO!ALICE][n])
              /\ Len(stage[IO!BOB]) = STAGE - Len(q.open)
              /\ \A i \in 1 .. Len(stage[IO!BOB]) : stage[IO!BOB][i] = log[IO!ALICE][n].data[Len(q.open) + i]

\* What p has and its peer has not is under way, and the peer has the rest.
Carries(p) ==
  LET o == IO!Peer(p)
  IN  IF Len(log[p]) <= Len(log[o])
      THEN chan[p] = << >> /\ Begins(log[p], log[o])
      ELSE /\ Len(chan[p]) = Len(log[p]) - Len(log[o])
           /\ \A i \in 1 .. Len(chan[p]) : chan[p][i] = log[p][Len(log[o]) + i]

UnderWay == \A p \in IO!Party : Carries(p)

\* Nobody has passed a call that receives before the other has made it, and
\* BOB has had no bit that is still staged.
InTurn(P) ==
  /\ \A j \in 1 .. Len(P) :
       /\ P[j] = "up" /\ j <= Made(IO!ALICE) => j <= Made(IO!BOB)
       /\ P[j] \in {"bit", "down"} /\ j <= Made(IO!BOB) => j <= Made(IO!ALICE)
  /\ stage[IO!ALICE] # << >> => Made(IO!BOB) < stage[IO!ALICE][1]

Full(s)    == \A n \in 1 .. Len(s) : s[n].kind = "bits" => Len(s[n].data) = STAGE
BlocksFull == \A p \in IO!Party : Full(log[p])

IOInvOf(P, H) ==
  /\ Types(P) /\ UnderWay /\ InTurn(P) /\ BlocksFull /\ IO!StreamsOrdered
  /\ Path(H, P) /\ AliceAt(H) /\ BobAt(H)

IOInv == \E H : IOInvOf(prog, H)
-----------------------------------------------------------------------------
(* The machine.                                                            *)

LEMMA PaddedIs ==
  ASSUME Sizes, NEW s \in Seq(Nat)
  PROVE  Padded(s) \in Item /\ Padded(s).kind = "bits" /\ Len(Padded(s).data) = STAGE
         /\ \A n \in 1 .. STAGE : Padded(s).data[n] = IF n <= Len(s) THEN s[n] ELSE IO!Pad
<1> DEFINE f == [i \in 1 .. STAGE |-> IF i <= Len(s) THEN s[i] ELSE IO!Pad]
<1>1. STAGE \in Nat
  BY DEF Sizes
<1>2. \A i \in 1 .. STAGE : f[i] \in Nat
  BY <1>1 DEF IO!Pad
<1>3. f \in Seq(Nat) /\ Len(f) = STAGE
  BY <1>1, <1>2
<1>4. \A n \in 1 .. STAGE : f[n] = IF n <= Len(s) THEN s[n] ELSE IO!Pad
  OBVIOUS
<1> HIDE DEF f
<1>5. Padded(s) = [kind |-> "bits", data |-> f]
  BY DEF Padded, IO!Block, f
<1>6. Padded(s).kind = "bits" /\ Padded(s).data = f
  BY ONLY <1>5
<1>7. Padded(s) \in Item
  BY ONLY <1>3, <1>5 DEF Item
<1> QED
  BY ONLY <1>3, <1>4, <1>6, <1>7

LEMMA BytesIs == ASSUME NEW i \in Nat PROVE IO!Bytes(i) \in Item /\ IO!Bytes(i).kind = "bytes" /\ IO!Bytes(i).data = <<i>>
BY DEF IO!Bytes, Item

LEMMA CutIs ==
  ASSUME Sizes, NEW q \in State
  PROVE  /\ Cut(q) \in State /\ CutLog(q) \in Seq(Item) /\ Cut(q).log = CutLog(q)
         /\ Cut(q).open = << >> /\ Cut(q).seeds = q.seeds
         /\ Len(CutLog(q)) = Len(q.log) + (IF q.open = << >> THEN 0 ELSE 1)
         /\ \A n \in 1 .. Len(q.log) : CutLog(q)[n] = q.log[n]
         /\ q.open # << >> => CutLog(q)[Len(q.log) + 1] = Padded(q.open)
<1>1. q.log \in Seq(Item) /\ q.open \in Seq(Nat) /\ q.seeds \in Seq(Seq(Item))
  BY DEF State
<1>2. Padded(q.open) \in Item
  BY <1>1, PaddedIs
<1>3. /\ CutLog(q) \in Seq(Item)
      /\ Len(CutLog(q)) = Len(q.log) + (IF q.open = << >> THEN 0 ELSE 1)
      /\ \A n \in 1 .. Len(q.log) : CutLog(q)[n] = q.log[n]
      /\ q.open # << >> => CutLog(q)[Len(q.log) + 1] = Padded(q.open)
  <2>1. CASE q.open = << >>
    BY ONLY <1>1, <2>1 DEF CutLog
  <2>2. CASE q.open # << >>
    <3>1. CutLog(q) = Append(q.log, Padded(q.open))
      BY ONLY <2>2 DEF CutLog
    <3> QED
      BY ONLY <1>1, <1>2, <2>2, <3>1
  <2> QED
    BY <2>1, <2>2
<1>4. Cut(q) = [log |-> CutLog(q), open |-> << >>, seeds |-> q.seeds]
  BY DEF Cut
<1>5. Cut(q).log = CutLog(q) /\ Cut(q).open = << >> /\ Cut(q).seeds = q.seeds
  BY ONLY <1>4
<1>6. << >> \in Seq(Nat)
  OBVIOUS
<1>7. Cut(q) \in State
  BY ONLY <1>1, <1>3, <1>4, <1>6 DEF State
<1> QED
  BY <1>3, <1>5, <1>7

LEMMA LeadsRefl == ASSUME NEW i, NEW q \in State PROVE Leads(i, q, q)
<1>1. q.log \in Seq(Item) /\ q.open \in Seq(Nat) /\ q.seeds \in Seq(Seq(Item))
  BY DEF State
<1> QED
  BY <1>1 DEF Leads, Begins

LEMMA BeginsTrans ==
  ASSUME NEW S, NEW s \in Seq(S), NEW t \in Seq(S), NEW u \in Seq(S), Begins(s, t), Begins(t, u)
  PROVE  Begins(s, u)
BY DEF Begins

LEMMA LeadsTrans ==
  ASSUME NEW i \in Nat, NEW j \in Nat, i <= j, NEW q \in State, NEW r \in State, NEW s \in State,
         Leads(i, q, r), Leads(j, r, s)
  PROVE  Leads(i, q, s)
<1>1. /\ q.log \in Seq(Item) /\ q.open \in Seq(Nat) /\ q.seeds \in Seq(Seq(Item))
      /\ r.log \in Seq(Item) /\ r.open \in Seq(Nat) /\ r.seeds \in Seq(Seq(Item))
      /\ s.log \in Seq(Item) /\ s.open \in Seq(Nat) /\ s.seeds \in Seq(Seq(Item))
  BY DEF State
<1>2. Begins(q.log, r.log) /\ Begins(r.log, s.log) /\ Begins(q.seeds, r.seeds) /\ Begins(r.seeds, s.seeds)
  BY DEF Leads
<1>3. Begins(q.log, s.log) /\ Begins(q.seeds, s.seeds)
  BY <1>1, <1>2, BeginsTrans
<1>4. Len(q.log) <= Len(r.log) /\ Len(r.log) <= Len(s.log)
      /\ Len(q.log) \in Nat /\ Len(r.log) \in Nat /\ Len(s.log) \in Nat
  BY <1>1, <1>2, SMTT(40), ZenonT(40) DEF Begins
<1>5. CASE Len(s.log) = Len(q.log)
  <2>1. Len(r.log) = Len(q.log) /\ Len(s.log) = Len(r.log)
    BY <1>4, <1>5
  <2>2. Begins(q.open, r.open) /\ Begins(r.open, s.open)
    BY <2>1 DEF Leads
  <2>3. Begins(q.open, s.open)
    BY <1>1, <2>2, BeginsTrans
  <2>4. ASSUME s.open # << >>, q.open = << >> \/ Len(s.log) > Len(q.log) PROVE s.open[1] > i
    <3>1. q.open = << >>
      BY <1>4, <1>5, <2>4
    <3>2. CASE r.open = << >>
      <4>1. s.open[1] > j
        BY <2>4, <3>2 DEF Leads
      <4> QED
        BY <1>1, <2>4, <4>1, SMTT(40), ZenonT(40)
    <3>3. CASE r.open # << >>
      <4>1. r.open[1] > i
        BY <3>1, <3>3 DEF Leads
      <4>2. s.open[1] = r.open[1]
        BY <1>1, <2>2, <3>3 DEF Begins
      <4> QED
        BY <4>1, <4>2
    <3> QED
      BY <3>2, <3>3
  <2> QED
    BY <1>3, <1>5, <2>3, <2>4 DEF Leads
<1>6. CASE Len(s.log) # Len(q.log)
  <2>1. ASSUME q.open # << >>
        PROVE  s.log[Len(q.log) + 1].kind = "bits" /\ Begins(q.open, s.log[Len(q.log) + 1].data)
    <3>1. CASE Len(r.log) # Len(q.log)
      <4>1. /\ r.log[Len(q.log) + 1].kind = "bits"
            /\ Begins(q.open, r.log[Len(q.log) + 1].data)
        BY <2>1, <3>1 DEF Leads
      <4>2. Len(q.log) + 1 \in 1 .. Len(r.log)
        BY <1>4, <3>1
      <4>3. s.log[Len(q.log) + 1] = r.log[Len(q.log) + 1]
        BY <1>2, <4>2 DEF Begins
      <4> QED
        BY <4>1, <4>3
    <3>2. CASE Len(r.log) = Len(q.log)
      <4>1. Begins(q.open, r.open)
        BY <3>2 DEF Leads
      <4>2. r.open # << >>
        BY <1>1, <2>1, <4>1 DEF Begins
      <4>3. /\ s.log[Len(q.log) + 1].kind = "bits"
            /\ Begins(r.open, s.log[Len(q.log) + 1].data)
        BY <1>6, <3>2, <4>2 DEF Leads
      <4>4. Len(q.log) + 1 \in 1 .. Len(s.log)
        BY <1>4, <1>6
      <4>5. s.log[Len(q.log) + 1] \in Item
        BY ONLY <1>1, <4>4
      <4>6. s.log[Len(q.log) + 1].data \in Seq(Nat)
        BY ONLY <4>5 DEF Item
      <4>7. Begins(q.open, s.log[Len(q.log) + 1].data)
        BY ONLY <1>1, <4>1, <4>3, <4>6, BeginsTrans
      <4> QED
        BY <4>3, <4>7
    <3> QED
      BY <3>1, <3>2
  <2>2. ASSUME s.open # << >> PROVE s.open[1] > i
    <3>1. CASE r.open = << >> \/ Len(s.log) > Len(r.log)
      <4>1. s.open[1] > j
        BY <2>2, <3>1 DEF Leads
      <4> QED
        BY <1>1, <2>2, <4>1
    <3>2. CASE r.open # << >> /\ ~(Len(s.log) > Len(r.log))
      <4>1. Len(s.log) = Len(r.log) /\ Len(r.log) > Len(q.log)
        BY <1>4, <1>6, <3>2
      <4>2. r.open[1] > i
        BY <3>2, <4>1 DEF Leads
      <4>3. Begins(r.open, s.open)
        BY <4>1 DEF Leads
      <4>4. s.open[1] = r.open[1]
        BY <1>1, <3>2, <4>3 DEF Begins
      <4> QED
        BY <4>2, <4>4
    <3> QED
      BY <3>1, <3>2
  <2> QED
    BY <1>3, <1>6, <2>1, <2>2 DEF Leads
<1> QED
  BY <1>5, <1>6

\* A block cut short begins with the bits that were in it.
LEMMA LeadsCut == ASSUME Sizes, NEW i, NEW q \in State, Len(q.open) < STAGE PROVE Leads(i, q, Cut(q))
<1>1. q.log \in Seq(Item) /\ q.open \in Seq(Nat) /\ q.seeds \in Seq(Seq(Item)) /\ STAGE \in Nat
  BY DEF State, Sizes
<1>2. Begins(q.log, Cut(q).log) /\ Begins(q.seeds, Cut(q).seeds)
  <2>1. Cut(q).log = CutLog(q) /\ Cut(q).seeds = q.seeds
    BY CutIs
  <2>2. Begins(q.seeds, q.seeds)
    <3>1. Len(q.seeds) \in Nat
      BY <1>1
    <3> QED
      BY ONLY <3>1 DEF Begins
  <2>3. Begins(q.log, CutLog(q))
    <3>1. CASE q.open = << >>
      <4>1. CutLog(q) = q.log
        BY ONLY <3>1 DEF CutLog
      <4> QED
        BY ONLY <1>1, <4>1 DEF Begins
    <3>2. CASE q.open # << >>
      <4>1. CutLog(q) = Append(q.log, Padded(q.open)) /\ Padded(q.open) \in Item
        BY <1>1, <3>2, PaddedIs DEF CutLog
      <4> QED
        BY ONLY <1>1, <4>1 DEF Begins
    <3> QED
      BY <3>1, <3>2
  <2> QED
    BY ONLY <2>1, <2>2, <2>3
<1>3. CASE q.open = << >>
  <2>1. Cut(q).open = << >> /\ Len(Cut(q).log) = Len(q.log)
    <3>1. Cut(q).open = << >> /\ Cut(q).log = CutLog(q) /\ CutLog(q) = q.log
      BY <1>3, CutIs DEF CutLog
    <3> QED
      BY ONLY <3>1
  <2>2. Begins(q.open, Cut(q).open)
    <3>1. Len(q.open) = 0 /\ Len(Cut(q).open) = 0
      BY ONLY <1>3, <2>1
    <3> QED
      BY ONLY <3>1 DEF Begins
  <2> QED
    BY ONLY <1>2, <2>1, <2>2 DEF Leads
<1>4. CASE q.open # << >>
  <2>1. Len(Cut(q).log) = Len(q.log) + 1 /\ Cut(q).log[Len(q.log) + 1] = Padded(q.open) /\ Cut(q).open = << >>
    BY <1>4, CutIs
  <2>2. Padded(q.open).kind = "bits" /\ Begins(q.open, Padded(q.open).data)
    BY <1>1, PaddedIs DEF Begins
  <2>3. Len(Cut(q).log) # Len(q.log)
    BY <1>1, <2>1
  <2> QED
    BY <1>2, <2>1, <2>2, <2>3 DEF Leads
<1> QED
  BY <1>3, <1>4

\* One call leads from state to state.
LEMMA BitIs ==
  ASSUME Sizes, NEW P, NEW i \in Nat, NEW q, StateOK(q, P, i), P[i + 1] = "bit"
  PROVE  StateOK(BitOf(q, i + 1), P, i + 1) /\ Leads(i, q, BitOf(q, i + 1))
<1>1. /\ q.log \in Seq(Item) /\ q.open \in Seq(Nat) /\ q.seeds \in Seq(Seq(Item)) /\ STAGE \in Nat
      /\ Len(q.open) < STAGE /\ q \in State
      /\ \A n \in 1 .. Len(q.open) : q.open[n] \in 1 .. i /\ P[q.open[n]] = "bit"
  BY DEF State, Sizes, StateOK
<1> DEFINE o == Append(q.open, i + 1)
<1>2. o \in Seq(Nat) /\ Len(o) = Len(q.open) + 1 /\ o[Len(q.open) + 1] = i + 1
      /\ \A n \in 1 .. Len(q.open) : o[n] = q.open[n]
  BY ONLY <1>1, i \in Nat
<1> HIDE DEF o
<1>3. Begins(q.open, o)
  BY ONLY <1>1, <1>2 DEF Begins
<1>4. CASE Len(q.open) + 1 = STAGE
  <2> DEFINE l == Append(q.log, Padded(o))
  <2>1. Padded(o) \in Item /\ Padded(o).kind = "bits" /\ Begins(q.open, Padded(o).data)
    <3>1. /\ Padded(o) \in Item /\ Padded(o).kind = "bits" /\ Len(Padded(o).data) = STAGE
          /\ \A n \in 1 .. STAGE : Padded(o).data[n] = IF n <= Len(o) THEN o[n] ELSE IO!Pad
      BY <1>2, PaddedIs
    <3> QED
      BY ONLY <1>1, <1>2, <1>4, <3>1 DEF Begins
  <2>2. l \in Seq(Item) /\ Len(l) = Len(q.log) + 1 /\ l[Len(q.log) + 1] = Padded(o) /\ Begins(q.log, l)
    <3> PICK x \in Item : x = Padded(o)
      BY <2>1
    <3>1. Append(q.log, x) \in Seq(Item) /\ Len(Append(q.log, x)) = Len(q.log) + 1
          /\ Append(q.log, x)[Len(q.log) + 1] = x
          /\ \A n \in 1 .. Len(q.log) : Append(q.log, x)[n] = q.log[n]
      BY ONLY <1>1, x \in Item
    <3> QED
      BY <1>1, <3>1 DEF Begins
  <2> PICK r : r = [log |-> l, open |-> << >>, seeds |-> q.seeds]
    OBVIOUS
  <2>3. BitOf(q, i + 1) = r
    BY ONLY <1>4, r = [log |-> l, open |-> << >>, seeds |-> q.seeds] DEF BitOf, l, o
  <2>4. r.log = l /\ r.open = << >> /\ r.seeds = q.seeds
    OBVIOUS
  <2>5. StateOK(r, P, i + 1)
    <3>1. r \in State
      BY ONLY <1>1, <2>2, r = [log |-> l, open |-> << >>, seeds |-> q.seeds] DEF State
    <3> QED
      BY ONLY <1>1, <2>4, <3>1 DEF StateOK
  <2>6. Leads(i, q, r)
    <3>1. Begins(q.seeds, r.seeds)
      BY ONLY <1>1, <2>4 DEF Begins
    <3>2. Len(r.log) # Len(q.log)
      BY ONLY <1>1, <2>2, <2>4
    <3> QED
      BY ONLY <2>1, <2>2, <2>4, <3>1, <3>2 DEF Leads
  <2> QED
    BY ONLY <2>3, <2>5, <2>6
<1>5. CASE Len(q.open) + 1 # STAGE
  <2> PICK r : r = [log |-> q.log, open |-> o, seeds |-> q.seeds]
    OBVIOUS
  <2>3. BitOf(q, i + 1) = r
    BY ONLY <1>5, r = [log |-> q.log, open |-> o, seeds |-> q.seeds] DEF BitOf, o
  <2>4. r.log = q.log /\ r.open = o /\ r.seeds = q.seeds
    OBVIOUS
  <2>5. StateOK(r, P, i + 1)
    <3>1. r \in State
      BY ONLY <1>1, <1>2, r = [log |-> q.log, open |-> o, seeds |-> q.seeds] DEF State
    <3>2. ASSUME NEW n \in 1 .. Len(o) PROVE o[n] \in 1 .. i + 1 /\ P[o[n]] = "bit"
      <4>1. CASE n = Len(q.open) + 1
        <5>1. o[n] = i + 1
          BY ONLY <1>2, <4>1
        <5>2. P[i + 1] = "bit" /\ i + 1 \in 1 .. i + 1
          OBVIOUS
        <5> QED
          BY ONLY <5>1, <5>2
      <4>2. CASE n # Len(q.open) + 1
        <5>1. n \in 1 .. Len(q.open)
          BY ONLY <1>1, <1>2, <4>2, n \in 1 .. Len(o)
        <5>2. o[n] = q.open[n] /\ q.open[n] \in 1 .. i /\ P[q.open[n]] = "bit"
          BY <1>1, <1>2, <5>1
        <5>3. q.open[n] \in 1 .. i + 1
          BY <5>2
        <5> QED
          BY ONLY <5>2, <5>3
      <4> QED
        BY <4>1, <4>2
    <3>3. Len(o) < STAGE
      BY ONLY <1>1, <1>2, <1>5
    <3> QED
      BY ONLY <2>4, <3>1, <3>2, <3>3 DEF StateOK
  <2>6. Leads(i, q, r)
    <3>1. Begins(q.log, r.log) /\ Begins(q.seeds, r.seeds)
      BY ONLY <1>1, <2>4 DEF Begins
    <3>2. ASSUME q.open = << >> PROVE r.open[1] > i
      <4>1. Len(q.open) = 0
        BY ONLY <3>2
      <4> QED
        BY ONLY <1>2, <2>4, <4>1, i \in Nat
    <3>3. Len(r.log) = Len(q.log) /\ Len(q.log) \in Nat
      BY ONLY <1>1, <2>4
    <3> QED
      BY ONLY <1>3, <2>4, <3>1, <3>2, <3>3 DEF Leads
  <2> QED
    BY ONLY <2>3, <2>5, <2>6
<1> QED
  BY <1>4, <1>5

\* A call that is not a bit goes on from the block cut short.
LEMMA OtherIs ==
  ASSUME Sizes, NEW P, NEW i \in Nat, NEW q, StateOK(q, P, i), NEW c \in IO!Call, c # "bit"
  PROVE  /\ Leads(i, Cut(q), Succ(q, c, i + 1)) /\ Succ(q, c, i + 1).open = << >>
         /\ Succ(q, c, i + 1) \in State /\ Len(Cut(q).open) < STAGE
<1>1. /\ Cut(q) \in State /\ CutLog(q) \in Seq(Item) /\ Cut(q).log = CutLog(q)
      /\ Cut(q).open = << >> /\ Cut(q).seeds = q.seeds
  BY CutIs DEF StateOK
<1>2. q.seeds \in Seq(Seq(Item))
  BY DEF StateOK, State
<1>3. CASE c \in {"down", "up"}
  <2> PICK x : x = IO!Bytes(i + 1)
    OBVIOUS
  <2>1. x \in Item
    BY BytesIs
  <2> PICK r : r = [log |-> Append(CutLog(q), x), open |-> << >>, seeds |-> q.seeds]
    OBVIOUS
  <2>2. Succ(q, c, i + 1) = r
    BY ONLY <1>3, x = IO!Bytes(i + 1), r = [log |-> Append(CutLog(q), x), open |-> << >>, seeds |-> q.seeds]
       DEF Succ, BytesOf
  <2>3. r.log = Append(CutLog(q), x) /\ r.open = << >> /\ r.seeds = q.seeds
    OBVIOUS
  <2>4. r \in State
    BY ONLY <1>1, <1>2, <2>1, r = [log |-> Append(CutLog(q), x), open |-> << >>, seeds |-> q.seeds] DEF State
  <2>5. Begins(Cut(q).log, r.log) /\ Len(r.log) # Len(Cut(q).log)
    BY ONLY <1>1, <2>1, <2>3 DEF Begins
  <2>6. Begins(Cut(q).seeds, r.seeds)
    BY ONLY <1>1, <1>2, <2>3 DEF Begins
  <2>7. Leads(i, Cut(q), r)
    BY ONLY <1>1, <2>3, <2>5, <2>6 DEF Leads
  <2> QED
    BY ONLY <1>1, <2>2, <2>3, <2>4, <2>7, Sizes DEF Sizes
<1>4. CASE c = "flush"
  <2>1. Succ(q, c, i + 1) = Cut(q)
    BY ONLY <1>4 DEF Succ
  <2>2. Leads(i, Cut(q), Cut(q))
    BY <1>1, LeadsRefl
  <2> QED
    BY ONLY <1>1, <2>1, <2>2, Sizes DEF Sizes
<1>5. CASE c = "challenge"
  <2> PICK r : r = [log |-> CutLog(q), open |-> << >>, seeds |-> Append(q.seeds, CutLog(q))]
    OBVIOUS
  <2>2. Succ(q, c, i + 1) = r
    BY ONLY <1>5, r = [log |-> CutLog(q), open |-> << >>, seeds |-> Append(q.seeds, CutLog(q))]
       DEF Succ, ChallengeOf
  <2>3. r.log = CutLog(q) /\ r.open = << >> /\ r.seeds = Append(q.seeds, CutLog(q))
    OBVIOUS
  <2>4. r \in State
    BY ONLY <1>1, <1>2, r = [log |-> CutLog(q), open |-> << >>, seeds |-> Append(q.seeds, CutLog(q))] DEF State
  <2>5. Begins(Cut(q).log, r.log) /\ Begins(Cut(q).open, r.open)
    BY ONLY <1>1, <2>3 DEF Begins
  <2>6. Begins(Cut(q).seeds, r.seeds)
    BY ONLY <1>1, <1>2, <2>3 DEF Begins
  <2>7. Leads(i, Cut(q), r)
    BY ONLY <1>1, <2>3, <2>5, <2>6 DEF Leads
  <2> QED
    BY ONLY <1>1, <2>2, <2>3, <2>4, <2>7, Sizes DEF Sizes
<1> QED
  BY <1>3, <1>4, <1>5 DEF IO!Call

LEMMA SuccLeads ==
  ASSUME Sizes, NEW P, NEW i \in Nat, NEW q, StateOK(q, P, i), P[i + 1] \in IO!Call
  PROVE  StateOK(Succ(q, P[i + 1], i + 1), P, i + 1) /\ Leads(i, q, Succ(q, P[i + 1], i + 1))
<1>1. CASE P[i + 1] = "bit"
  <2>1. Succ(q, P[i + 1], i + 1) = BitOf(q, i + 1)
    BY ONLY <1>1 DEF Succ
  <2> QED
    BY <1>1, <2>1, BitIs
<1>2. CASE P[i + 1] # "bit"
  <2> PICK r : r = Succ(q, P[i + 1], i + 1)
    OBVIOUS
  <2>1. Leads(i, Cut(q), r) /\ r.open = << >> /\ r \in State /\ Len(Cut(q).open) < STAGE
    BY <1>2, OtherIs
  <2>2. q \in State /\ Cut(q) \in State /\ Leads(i, q, Cut(q))
    BY LeadsCut, CutIs DEF StateOK
  <2>3. Leads(i, q, r)
    BY ONLY <2>1, <2>2, LeadsTrans, i \in Nat
  <2>4. StateOK(r, P, i + 1)
    BY ONLY <2>1, Sizes DEF StateOK, Sizes
  <2> QED
    BY <2>3, <2>4
<1> QED
  BY <1>1, <1>2

\* Later states follow from the block cut short, when the next call is not a bit.
LEMMA CutBefore ==
  ASSUME Sizes, NEW P \in Seq(IO!Call), NEW H, Path(H, P), NEW i \in Nat, NEW j \in Nat, i < j, j <= Len(P),
         P[i + 1] # "bit"
  PROVE  Leads(i, Cut(H[i]), H[j])
<1>1. i + 1 \in 0 .. Len(P) /\ i \in 0 .. Len(P) - 1 /\ i \in 0 .. Len(P) /\ j \in i + 1 .. Len(P)
      /\ j \in 0 .. Len(P)
  OBVIOUS
<1>2. P[i + 1] \in IO!Call
  BY <1>1
<1>3. /\ StateOK(H[i], P, i) /\ StateOK(H[j], P, j) /\ StateOK(H[i + 1], P, i + 1)
      /\ H[i + 1] = Succ(H[i], P[i + 1], i + 1)
      /\ Leads(i + 1, H[i + 1], H[j])
  BY <1>1 DEF Path
<1>4. Leads(i, Cut(H[i]), H[i + 1])
  BY <1>2, <1>3, OtherIs
<1>5. Cut(H[i]) \in State /\ H[i + 1] \in State /\ H[j] \in State
  BY <1>3, CutIs DEF StateOK
<1> QED
  BY ONLY <1>3, <1>4, <1>5, LeadsTrans, i \in Nat

\* The program grows by a call.
LEMMA Extended ==
  ASSUME Sizes, NEW P \in Seq(IO!Call), NEW H, Path(H, P), NEW c \in IO!Call
  PROVE  \E G : Path(G, Append(P, c)) /\ \A i \in 0 .. Len(P) : G[i] = H[i]
<1> PICK Q : Q = Append(P, c)
  OBVIOUS
<1> PICK m \in Nat : m = Len(P)
  OBVIOUS
<1>1. Q \in Seq(IO!Call) /\ Len(Q) = m + 1 /\ Q[m + 1] = c /\ \A n \in 1 .. m : Q[n] = P[n]
  OBVIOUS
<1> DEFINE G == [i \in 0 .. m + 1 |-> IF i <= m THEN H[i] ELSE Succ(H[m], c, m + 1)]
<1>2. (\A i \in 0 .. m : G[i] = H[i]) /\ G[m + 1] = Succ(H[m], c, m + 1)
  OBVIOUS
<1> HIDE DEF G
<1>3. /\ H[0] = [log |-> << >>, open |-> << >>, seeds |-> << >>]
      /\ \A i \in 0 .. m : StateOK(H[i], P, i)
      /\ \A i \in 0 .. m - 1 : H[i + 1] = Succ(H[i], P[i + 1], i + 1)
      /\ \A i \in 0 .. m : \A j \in i .. m : Leads(i, H[i], H[j])
  BY DEF Path
<1>4. ASSUME NEW i \in 0 .. m PROVE StateOK(H[i], Q, i)
  <2>1. StateOK(H[i], P, i)
    BY <1>3
  <2>2. \A n \in 1 .. i : Q[n] = P[n]
    BY <1>1
  <2> QED
    BY ONLY <2>1, <2>2 DEF StateOK
<1>5. StateOK(G[m + 1], Q, m + 1) /\ Leads(m, H[m], G[m + 1])
  <2>1. StateOK(H[m], Q, m)
    BY <1>4
  <2>2. Q[m + 1] \in IO!Call
    BY <1>1
  <2>3. G[m + 1] = Succ(H[m], Q[m + 1], m + 1)
    BY <1>1, <1>2
  <2> QED
    BY ONLY Sizes, <2>1, <2>2, <2>3, SuccLeads, m \in Nat
<1>6. ASSUME NEW i \in 0 .. m + 1 PROVE StateOK(G[i], Q, i)
  BY <1>2, <1>4, <1>5
<1>7. ASSUME NEW i \in 0 .. m PROVE G[i + 1] = Succ(G[i], Q[i + 1], i + 1)
  <2>1. CASE i = m
    BY <1>1, <1>2, <2>1
  <2>2. CASE i # m
    <3>1. i \in 0 .. m - 1 /\ i + 1 \in 0 .. m /\ i + 1 \in 1 .. m
      BY <2>2
    <3> QED
      BY <1>1, <1>2, <1>3, <3>1
  <2> QED
    BY <2>1, <2>2
<1>8. ASSUME NEW i \in 0 .. m + 1, NEW j \in i .. m + 1 PROVE Leads(i, G[i], G[j])
  <2>1. CASE j <= m
    BY <1>2, <1>3, <2>1
  <2>2. CASE i = m + 1
    <3>1. G[i] \in State /\ j = i
      BY <1>6, <2>2 DEF StateOK
    <3> QED
      BY ONLY <3>1, LeadsRefl
  <2>3. CASE i <= m /\ j = m + 1
    <3>1. Leads(i, H[i], H[m]) /\ G[i] = H[i] /\ i \in Nat
      BY <1>2, <1>3, <2>3
    <3>2. H[i] \in State /\ H[m] \in State /\ G[m + 1] \in State
      BY <1>4, <1>5, <2>3 DEF StateOK
    <3>3. Leads(i, H[i], G[m + 1])
      BY ONLY <1>5, <2>3, <3>1, <3>2, LeadsTrans, m \in Nat
    <3> QED
      BY ONLY <2>3, <3>1, <3>3
  <2> QED
    BY <2>1, <2>2, <2>3
<1>9. Path(G, Q)
  <2>1. G[0] = [log |-> << >>, open |-> << >>, seeds |-> << >>]
    BY <1>2, <1>3
  <2>2. Len(Q) = m + 1 /\ Len(Q) - 1 = m
    BY <1>1
  <2> QED
    BY ONLY <1>6, <1>7, <1>8, <2>1, <2>2 DEF Path
<1> QED
  BY <1>2, <1>9

-----------------------------------------------------------------------------
(* Where the ends are.                                                     *)

LEMMA Standing ==
  ASSUME Sizes, NEW P, NEW H, Types(P), Path(H, P), NEW p \in IO!Party
  PROVE  /\ P \in Seq(IO!Call) /\ Len(P) \in Nat /\ Made(p) \in Nat /\ Made(p) <= Len(P) /\ Made(p) <= MaxCalls
         /\ Len(P) <= MaxCalls
         /\ StateOK(H[Made(p)], P, Made(p)) /\ H[Made(p)] \in State
         /\ IF Cutting(p) THEN As(p, H) = Cut(H[Made(p)]) ELSE As(p, H) = H[Made(p)]
         /\ As(p, H) \in State /\ Len(As(p, H).open) < STAGE
         /\ Cutting(p) /\ Made(p) < Len(P) => P[Made(p) + 1] \in {"up", "down"}
         /\ \A j \in 0 .. Made(p) : Leads(j, H[j], As(p, H))
<1>1. /\ P \in Seq(IO!Call) /\ Len(P) \in Nat /\ Len(P) <= MaxCalls /\ MaxCalls \in Nat /\ STAGE \in Nat \ {0}
      /\ at[p] \in 1 .. MaxCalls + 2 /\ Made(p) <= Len(P)
      /\ flushed[p] => at[p] <= Len(P) /\ P[at[p]] = IF p = IO!ALICE THEN "up" ELSE "down"
  BY DEF Types, Control, Sizes
<1>2. Made(p) \in Nat /\ Made(p) <= MaxCalls /\ (at[p] # MaxCalls + 2 => at[p] = Made(p) + 1)
      /\ (at[p] = MaxCalls + 2 => Made(p) = MaxCalls)
  BY <1>1 DEF Made
<1> PICK m \in Nat : m = Made(p)
  BY <1>2
<1>3. m \in 0 .. Len(P)
  BY <1>1, <1>2
<1>4. StateOK(H[m], P, m) /\ H[m] \in State /\ Len(H[m].open) < STAGE
  BY <1>3 DEF Path, StateOK
<1>5. IF Cutting(p) THEN As(p, H) = Cut(H[m]) ELSE As(p, H) = H[m]
  BY DEF As
<1>6. Cut(H[m]) \in State /\ Len(Cut(H[m]).open) < STAGE /\ Leads(m, H[m], Cut(H[m]))
  <2>1. Cut(H[m]) \in State /\ Cut(H[m]).open = << >>
    BY <1>4, CutIs
  <2>2. Len(Cut(H[m]).open) = 0
    BY ONLY <2>1
  <2>3. 0 < STAGE
    BY <1>1
  <2> QED
    BY <1>4, <2>1, <2>2, <2>3, LeadsCut
<1>7. As(p, H) \in State /\ Len(As(p, H).open) < STAGE
  BY <1>4, <1>5, <1>6
<1>8. Cutting(p) /\ m < Len(P) => P[m + 1] \in {"up", "down"}
  <2> HAVE Cutting(p) /\ m < Len(P)
  <2>1. at[p] # MaxCalls + 2
    BY <1>1, <1>2
  <2>2. flushed[p] /\ at[p] = m + 1
    BY <1>2, <2>1 DEF Cutting
  <2> QED
    BY <1>1, <2>2
<1>9. ASSUME NEW j \in 0 .. m PROVE Leads(j, H[j], As(p, H))
  <2>1. Leads(j, H[j], H[m]) /\ StateOK(H[j], P, j)
    BY <1>3 DEF Path
  <2>2. H[j] \in State
    BY <2>1 DEF StateOK
  <2>3. CASE Cutting(p)
    <3>1. Leads(j, H[j], Cut(H[m]))
      BY ONLY <1>4, <1>6, <2>1, <2>2, LeadsTrans, m \in Nat, j \in 0 .. m
    <3> QED
      BY <1>5, <2>3, <3>1
  <2>4. CASE ~Cutting(p)
    BY <1>5, <2>1, <2>4
  <2> QED
    BY <2>3, <2>4
<1> QED
  BY <1>1, <1>2, <1>4, <1>5, <1>7, <1>8, <1>9

\* The end with more calls made is further along.
LEMMA Later ==
  ASSUME Sizes, NEW P, NEW H, Types(P), Path(H, P), NEW p \in IO!Party, NEW o \in IO!Party, Made(p) < Made(o)
  PROVE  Leads(Made(p), As(p, H), As(o, H))
<1> PICK m, n : m = Made(p) /\ n = Made(o)
  OBVIOUS
<1>1. /\ P \in Seq(IO!Call) /\ Len(P) \in Nat /\ m \in Nat /\ n \in Nat /\ m < n /\ n <= Len(P)
      /\ H[m] \in State /\ H[n] \in State /\ StateOK(H[m], P, m)
      /\ IF Cutting(p) THEN As(p, H) = Cut(H[m]) ELSE As(p, H) = H[m]
      /\ As(o, H) \in State
      /\ Cutting(p) /\ m < Len(P) => P[m + 1] \in {"up", "down"}
      /\ \A j \in 0 .. n : Leads(j, H[j], As(o, H))
  BY Standing
<1>2. CASE ~Cutting(p)
  BY <1>1, <1>2
<1>3. CASE Cutting(p)
  <2>1. P[m + 1] # "bit"
    BY <1>1, <1>3
  <2>2. Leads(m, Cut(H[m]), H[n])
    BY ONLY Sizes, Path(H, P), <1>1, <2>1, CutBefore
  <2>3. n \in 0 .. n
    BY ONLY <1>1
  <2>4. Leads(n, H[n], As(o, H)) /\ Cut(H[m]) \in State
    BY <1>1, <2>3, CutIs
  <2>5. m <= n
    BY ONLY <1>1
  <2>6. Leads(m, Cut(H[m]), As(o, H))
    BY ONLY <1>1, <2>2, <2>4, <2>5, LeadsTrans
  <2> QED
    BY <1>1, <1>3, <2>6
<1> QED
  BY <1>2, <1>3

\* The lengths of the two transcripts.
LEMMA Lengths ==
  ASSUME Sizes, NEW P, NEW H, IOInvOf(P, H)
  PROVE  /\ log[IO!ALICE] \in Seq(Item) /\ log[IO!BOB] \in Seq(Item)
         /\ log[IO!ALICE] = As(IO!ALICE, H).log
         /\ Len(log[IO!ALICE]) \in Nat /\ Len(log[IO!BOB]) \in Nat /\ Len(As(IO!BOB, H).log) \in Nat
         /\ Begins(As(IO!BOB, H).log, log[IO!BOB])
         /\ As(IO!BOB, H).open = << >> => Len(log[IO!BOB]) = Len(As(IO!BOB, H).log)
         /\ As(IO!BOB, H).open # << >> => Len(log[IO!BOB]) = Len(As(IO!BOB, H).log) + 1
         /\ As(IO!BOB, H).open # << >> => Len(As(IO!BOB, H).log) + 1 <= Len(log[IO!ALICE])
<1>1. log[IO!ALICE] \in Seq(Item) /\ log[IO!BOB] \in Seq(Item) /\ log[IO!ALICE] = As(IO!ALICE, H).log
  BY DEF IOInvOf, Types, Shapes, AliceAt, IO!Party
<1> PICK q : q = As(IO!BOB, H)
  OBVIOUS
<1>2. q \in State
  BY Standing DEF IOInvOf, IO!Party
<1>3. q.log \in Seq(Item)
  BY <1>2 DEF State
<1>4. IF q.open = << >> THEN log[IO!BOB] = q.log
      ELSE Len(q.log) + 1 <= Len(log[IO!ALICE]) /\ log[IO!BOB] = Append(q.log, log[IO!ALICE][Len(q.log) + 1])
  BY DEF IOInvOf, BobAt
<1>5. Len(q.log) \in Nat /\ Len(log[IO!ALICE]) \in Nat /\ Len(log[IO!BOB]) \in Nat
  BY <1>1, <1>3
<1>6. CASE q.open = << >>
  <2>1. Begins(q.log, q.log)
    BY ONLY <1>5 DEF Begins
  <2> QED
    BY <1>1, <1>4, <1>5, <1>6, <2>1
<1>7. CASE q.open # << >>
  <2>1. Len(q.log) + 1 \in 1 .. Len(log[IO!ALICE])
    BY <1>1, <1>4, <1>5, <1>7
  <2> PICK x : x = log[IO!ALICE][Len(q.log) + 1]
    OBVIOUS
  <2>2. x \in Item
    BY ONLY <1>1, <2>1, x = log[IO!ALICE][Len(q.log) + 1]
  <2>3. log[IO!BOB] = Append(q.log, x)
    BY <1>4, <1>7
  <2>4. Len(log[IO!BOB]) = Len(q.log) + 1 /\ Begins(q.log, log[IO!BOB])
    BY ONLY <1>3, <2>2, <2>3 DEF Begins
  <2> QED
    BY <1>1, <1>4, <1>5, <1>7, <2>4
<1> QED
  BY <1>6, <1>7

\* A block ALICE still fills holds only bits BOB has not come to.
LEMMA Unstaged ==
  ASSUME Sizes, NEW P, NEW H, IOInvOf(P, H), stage[IO!ALICE] # << >>
  PROVE  Made(IO!BOB) < Made(IO!ALICE)
<1> PICK q : q = As(IO!ALICE, H)
  OBVIOUS
<1>1. stage[IO!ALICE] = q.open /\ Made(IO!BOB) < stage[IO!ALICE][1]
  BY DEF IOInvOf, AliceAt, InTurn
<1>2. /\ StateOK(H[Made(IO!ALICE)], P, Made(IO!ALICE)) /\ Made(IO!ALICE) \in Nat /\ Made(IO!BOB) \in Nat
      /\ H[Made(IO!ALICE)] \in State
      /\ IF Cutting(IO!ALICE) THEN q = Cut(H[Made(IO!ALICE)]) ELSE q = H[Made(IO!ALICE)]
  BY Standing DEF IOInvOf, IO!Party
<1>3. q = H[Made(IO!ALICE)]
  <2>1. Cut(H[Made(IO!ALICE)]).open = << >>
    BY <1>2, CutIs
  <2> QED
    BY <1>1, <1>2, <2>1
<1>4. q.open \in Seq(Nat) /\ \A n \in 1 .. Len(q.open) : q.open[n] \in 1 .. Made(IO!ALICE)
  BY <1>2, <1>3 DEF StateOK, State
<1>5. 1 \in 1 .. Len(q.open)
  BY <1>1, <1>4
<1> QED
  BY <1>1, <1>2, <1>4, <1>5

\* The transcript of the end with fewer calls made is not the longer one.
LEMMA Order ==
  ASSUME Sizes, NEW P, NEW H, IOInvOf(P, H)
  PROVE  /\ Made(IO!ALICE) <= Made(IO!BOB) => Len(log[IO!ALICE]) <= Len(log[IO!BOB])
         /\ Made(IO!BOB) <= Made(IO!ALICE) => Len(log[IO!BOB]) <= Len(log[IO!ALICE])
<1> PICK A, B : A = As(IO!ALICE, H) /\ B = As(IO!BOB, H)
  OBVIOUS
<1> PICK a, b : a = Made(IO!ALICE) /\ b = Made(IO!BOB)
  OBVIOUS
<1>1. /\ a \in Nat /\ b \in Nat /\ A \in State /\ B \in State /\ H[a] \in State
      /\ IF Cutting(IO!ALICE) THEN A = Cut(H[a]) ELSE A = H[a]
      /\ IF Cutting(IO!BOB) THEN B = Cut(H[b]) ELSE B = H[b]
  BY Standing DEF IOInvOf, IO!Party
<1> PICK la, lb, n : la = Len(log[IO!ALICE]) /\ lb = Len(log[IO!BOB]) /\ n = Len(B.log)
  OBVIOUS
<1>2. /\ la = Len(A.log) /\ la \in Nat /\ lb \in Nat /\ n \in Nat /\ n <= lb
      /\ B.open = << >> => lb = n
      /\ B.open # << >> => lb = n + 1 /\ n + 1 <= la
  BY Lengths DEF Begins
<1>4. CASE a < b
  <2>1. Leads(a, A, B)
    BY <1>4, Later DEF IOInvOf, IO!Party
  <2>2. la <= n
    BY <1>2, <2>1 DEF Leads, Begins
  <2>3. la <= lb /\ ~(b <= a)
    BY ONLY <1>1, <1>2, <1>4, <2>2
  <2> QED
    BY <2>3
<1>5. CASE b < a
  <2>1. Leads(b, B, A)
    BY <1>5, Later DEF IOInvOf, IO!Party
  <2>2. n <= la
    BY <1>2, <2>1 DEF Leads, Begins
  <2>3. lb <= la
    BY ONLY <1>2, <2>2
  <2>4. ~(a <= b)
    BY ONLY <1>1, <1>5
  <2> QED
    BY <2>3, <2>4
<1>6. CASE a = b
  <2> PICK q : q = H[a]
    OBVIOUS
  <2> PICK l : l = Len(q.log)
    OBVIOUS
  <2>1. /\ Cut(q).open = << >> /\ Cut(q).log = CutLog(q)
        /\ Len(CutLog(q)) = l + (IF q.open = << >> THEN 0 ELSE 1)
    BY <1>1, CutIs
  <2>2. l \in Nat
    BY <1>1 DEF State
  <2>3. CASE q.open = << >>
    <3>1. CutLog(q) = q.log
      BY ONLY <2>3 DEF CutLog
    <3>2. B.open = << >> /\ n = l /\ la = l
      BY <1>1, <1>2, <1>6, <2>1, <2>3, <3>1
    <3>3. lb = l
      BY ONLY <1>2, <3>2
    <3> QED
      BY ONLY <3>2, <3>3, <2>2, la = Len(log[IO!ALICE]), lb = Len(log[IO!BOB])
  <2>4. CASE q.open # << >>
    <3>1. Cutting(IO!ALICE)
      <4> SUFFICES ASSUME ~Cutting(IO!ALICE) PROVE FALSE
        OBVIOUS
      <4>1. A.open # << >>
        BY <1>1, <2>4
      <4>2. b < a
        BY <4>1, Unstaged DEF IOInvOf, AliceAt
      <4> QED
        BY <1>1, <1>6, <4>2
    <3>2. Len(CutLog(q)) = l + 1
      BY ONLY <2>1, <2>4
    <3>3. la = l + 1
      BY <1>1, <1>2, <2>1, <3>1, <3>2
    <3>4. lb = l + 1
      <4>1. CASE Cutting(IO!BOB)
        <5>1. B = Cut(q)
          BY ONLY <1>1, <1>6, <4>1, q = H[a]
        <5>2. B.open = << >> /\ n = l + 1
          BY <2>1, <3>2, <5>1
        <5> QED
          BY ONLY <1>2, <5>2
      <4>2. CASE ~Cutting(IO!BOB)
        <5>1. B = q
          BY ONLY <1>1, <1>6, <4>2, q = H[a]
        <5> QED
          BY <1>2, <2>4, <5>1
      <4> QED
        BY <4>1, <4>2
    <3> QED
      BY ONLY <3>3, <3>4, <2>2, la = Len(log[IO!ALICE]), lb = Len(log[IO!BOB])
  <2> QED
    BY <2>3, <2>4
<1> QED
  BY <1>1, <1>4, <1>5, <1>6

LEMMA CutAhead ==
  ASSUME Sizes, NEW P, NEW H, Types(P), Path(H, P), NEW p \in IO!Party, NEW o \in IO!Party, Made(p) < Made(o),
         P[Made(p) + 1] # "bit"
  PROVE  Leads(Made(p), Cut(H[Made(p)]), As(o, H))
<1> PICK m, n : m = Made(p) /\ n = Made(o)
  OBVIOUS
<1>1. /\ P \in Seq(IO!Call) /\ Len(P) \in Nat /\ m \in Nat /\ n \in Nat /\ m < n /\ n <= Len(P)
      /\ H[m] \in State /\ H[n] \in State /\ As(o, H) \in State
      /\ \A j \in 0 .. n : Leads(j, H[j], As(o, H))
  BY Standing
<1>2. P[m + 1] # "bit"
  OBVIOUS
<1>3. Leads(m, Cut(H[m]), H[n])
  BY ONLY Sizes, Path(H, P), <1>1, <1>2, CutBefore
<1>4. n \in 0 .. n /\ m <= n
  BY ONLY <1>1
<1>5. Leads(n, H[n], As(o, H)) /\ Cut(H[m]) \in State
  BY <1>1, <1>4, CutIs
<1>6. Leads(m, Cut(H[m]), As(o, H))
  BY ONLY <1>1, <1>3, <1>4, <1>5, LeadsTrans
<1> QED
  BY <1>6

\* When BOB comes to a call that is not a bit, or to the end, the block he
\* holds is the one ALICE has cut or will cut here.
LEMMA BobCuts ==
  ASSUME Sizes, NEW P, NEW H, IOInvOf(P, H), ~Cutting(IO!BOB), Made(IO!BOB) < Len(P) => P[Made(IO!BOB) + 1] # "bit"
  PROVE  log[IO!BOB] = CutLog(H[Made(IO!BOB)])
<1> PICK A, a, b, q : A = As(IO!ALICE, H) /\ a = Made(IO!ALICE) /\ b = Made(IO!BOB) /\ q = H[b]
  OBVIOUS
<1>1. /\ a \in Nat /\ b \in Nat /\ A \in State /\ q \in State /\ H[a] \in State /\ a <= Len(P) /\ Len(P) \in Nat
      /\ IF Cutting(IO!ALICE) THEN A = Cut(H[a]) ELSE A = H[a]
      /\ As(IO!BOB, H) = q
  BY Standing DEF IOInvOf, IO!Party
<1> PICK la, n : la = Len(log[IO!ALICE]) /\ n = Len(q.log) + 1
  OBVIOUS
<1>2. la = Len(A.log) /\ la \in Nat /\ Len(q.log) \in Nat /\ log[IO!ALICE] = A.log
  BY <1>1, Lengths
<1>3. IF q.open = << >> THEN log[IO!BOB] = q.log ELSE n <= la /\ log[IO!BOB] = Append(q.log, log[IO!ALICE][n])
  BY <1>1 DEF IOInvOf, BobAt
<1>4. CASE q.open = << >>
  BY <1>3, <1>4 DEF CutLog
<1>5. CASE q.open # << >>
  <2>1. Cut(q).log = CutLog(q) /\ CutLog(q) = Append(q.log, Padded(q.open)) /\ CutLog(q)[n] = Padded(q.open)
        /\ Len(CutLog(q)) = n
    <3>1. Cut(q).log = CutLog(q) /\ CutLog(q)[n] = Padded(q.open) /\ Len(CutLog(q)) = Len(q.log) + 1
      BY <1>1, <1>5, CutIs
    <3> QED
      BY <1>5, <3>1 DEF CutLog
  <2>2. log[IO!BOB] = Append(q.log, log[IO!ALICE][n]) /\ n <= la
    BY <1>3, <1>5
  <2>3. CASE a < b
    <3>1. Leads(a, A, q)
      <4>1. Made(IO!ALICE) < Made(IO!BOB)
        BY <2>3
      <4>2. Leads(Made(IO!ALICE), As(IO!ALICE, H), As(IO!BOB, H))
        BY <4>1, Later DEF IOInvOf, IO!Party
      <4> QED
        BY <1>1, <4>2
    <3>2. la <= Len(q.log)
      BY <1>2, <3>1 DEF Leads, Begins
    <3> QED
      BY <1>2, <2>2, <3>2
  <2>4. CASE a = b
    <3>1. Cutting(IO!ALICE)
      <4> SUFFICES ASSUME ~Cutting(IO!ALICE) PROVE FALSE
        OBVIOUS
      <4>1. A.open # << >>
        BY <1>1, <1>5, <2>4
      <4>2. b < a
        BY <4>1, Unstaged DEF IOInvOf, AliceAt
      <4> QED
        BY <1>1, <2>4, <4>2
    <3>2. A = Cut(q)
      BY <1>1, <2>4, <3>1
    <3> QED
      BY <1>2, <2>1, <2>2, <3>2
  <2>5. CASE b < a
    <3>1. P[b + 1] # "bit"
      BY <1>1, <2>5
    <3>2. Leads(b, Cut(q), A)
      BY <2>5, <3>1, CutAhead DEF IOInvOf, IO!Party
    <3>3. Begins(CutLog(q), A.log)
      BY <2>1, <3>2 DEF Leads
    <3>4. n \in 1 .. Len(CutLog(q))
      BY <1>2, <2>1
    <3>5. A.log[n] = CutLog(q)[n]
      BY ONLY <3>3, <3>4 DEF Begins
    <3> QED
      BY <1>2, <2>1, <2>2, <3>5
  <2> QED
    BY <1>1, <2>3, <2>4, <2>5
<1> QED
  BY <1>4, <1>5

-----------------------------------------------------------------------------
(* What is under way.                                                      *)

Channels == log \in [IO!Party -> Seq(Item)] /\ chan \in [IO!Party -> Seq(Item)]

LEMMA PutKeeps ==
  ASSUME Channels, UnderWay, NEW p \in IO!Party, NEW items \in Seq(Item),
         Len(log[IO!Peer(p)]) <= Len(log[p]) \/ items = << >>,
         chan' = [chan EXCEPT ![p] = @ \o items], log' = [log EXCEPT ![p] = @ \o items]
  PROVE  UnderWay' /\ log'[p] = log[p] \o items /\ log'[IO!Peer(p)] = log[IO!Peer(p)]
<1> PICK o : o = IO!Peer(p)
  OBVIOUS
<1>1. o \in IO!Party /\ o # p /\ IO!Peer(o) = p /\ IO!Party = {o, p}
  BY DEF IO!Party, IO!Peer, IO!ALICE, IO!BOB
<1> PICK l, m, c, d : l = log[p] /\ m = log[o] /\ c = chan[p] /\ d = chan[o]
  OBVIOUS
<1>2. l \in Seq(Item) /\ m \in Seq(Item) /\ c \in Seq(Item) /\ d \in Seq(Item)
  BY <1>1 DEF Channels
<1>3. log'[p] = l \o items /\ log'[o] = m /\ chan'[p] = c \o items /\ chan'[o] = d
  BY <1>1 DEF Channels
<1>4. IF Len(l) <= Len(m) THEN c = << >> /\ Begins(l, m)
      ELSE Len(c) = Len(l) - Len(m) /\ \A i \in 1 .. Len(c) : c[i] = l[Len(m) + i]
  <2>1. Carries(p)
    BY DEF UnderWay
  <2> QED
    BY ONLY <2>1, o = IO!Peer(p), l = log[p], m = log[o], c = chan[p] DEF Carries
<1>5. IF Len(m) <= Len(l) THEN d = << >> /\ Begins(m, l)
      ELSE Len(d) = Len(m) - Len(l) /\ \A i \in 1 .. Len(d) : d[i] = m[Len(l) + i]
  <2>1. Carries(o)
    BY <1>1 DEF UnderWay
  <2> QED
    BY ONLY <1>1, <2>1, l = log[p], m = log[o], d = chan[o] DEF Carries
<1>6. CASE items = << >>
  <2>1. l \o items = l /\ c \o items = c
    BY ONLY <1>2, <1>6
  <2>2. log'[p] = log[p] /\ log'[o] = log[o] /\ chan'[p] = chan[p] /\ chan'[o] = chan[o]
    BY <1>3, <2>1
  <2>3. Carries(p) /\ Carries(o)
    BY <1>1 DEF UnderWay
  <2>4. Carries(p)'
    BY ONLY <2>2, <2>3, o = IO!Peer(p) DEF Carries
  <2>5. Carries(o)'
    BY ONLY <1>1, <2>2, <2>3 DEF Carries
  <2> QED
    BY <1>1, <1>3, <2>4, <2>5 DEF UnderWay
<1>7. CASE Len(m) <= Len(l) /\ items # << >>
  <2> PICK t, e, k : t = l \o items /\ e = c \o items /\ k = Len(items)
    OBVIOUS
  <2>1. /\ t \in Seq(Item) /\ Len(t) = Len(l) + k /\ k \in Nat /\ k > 0
        /\ \A i \in 1 .. Len(l) : t[i] = l[i]
        /\ \A i \in Len(l) + 1 .. Len(l) + k : t[i] = items[i - Len(l)]
    BY ONLY <1>2, <1>7, items \in Seq(Item), t = l \o items, k = Len(items)
  <2>2. /\ e \in Seq(Item) /\ Len(e) = Len(c) + k
        /\ \A i \in 1 .. Len(c) : e[i] = c[i]
        /\ \A i \in Len(c) + 1 .. Len(c) + k : e[i] = items[i - Len(c)]
    BY ONLY <1>2, items \in Seq(Item), e = c \o items, k = Len(items)
  <2>3. Len(l) \in Nat /\ Len(m) \in Nat /\ Len(c) \in Nat
    BY <1>2
  <2>4. Len(c) = Len(l) - Len(m) /\ \A i \in 1 .. Len(c) : c[i] = l[Len(m) + i]
    <3>1. CASE Len(l) <= Len(m)
      <4>1. Len(l) = Len(m)
        BY ONLY <1>7, <2>3, <3>1
      <4>2. Len(c) = 0
        BY ONLY <1>4, <3>1
      <4> QED
        BY ONLY <2>3, <4>1, <4>2
    <3>2. CASE ~(Len(l) <= Len(m))
      BY ONLY <1>4, <3>2
    <3> QED
      BY <3>1, <3>2
  <2>5. Len(e) = Len(t) - Len(m) /\ ~(Len(t) <= Len(m)) /\ Len(m) <= Len(t)
    BY ONLY <1>7, <2>1, <2>2, <2>3, <2>4
  <2>6. ASSUME NEW i \in 1 .. Len(e) PROVE e[i] = t[Len(m) + i]
    <3>1. CASE i <= Len(c)
      BY ONLY <1>7, <2>1, <2>2, <2>3, <2>4, <3>1, i \in 1 .. Len(e)
    <3>2. CASE i > Len(c)
      <4>1. i \in Len(c) + 1 .. Len(c) + k /\ Len(m) + i \in Len(l) + 1 .. Len(l) + k
            /\ Len(m) + i - Len(l) = i - Len(c)
        BY ONLY <2>1, <2>2, <2>3, <2>4, <3>2, i \in 1 .. Len(e)
      <4>2. e[i] = items[i - Len(c)]
        BY ONLY <2>2, <4>1
      <4>3. t[Len(m) + i] = items[Len(m) + i - Len(l)]
        BY ONLY <2>1, <4>1
      <4> QED
        BY ONLY <4>1, <4>2, <4>3
    <3>3. i <= Len(c) \/ i > Len(c)
      BY ONLY <2>3, i \in 1 .. Len(e)
    <3> QED
      BY ONLY <3>1, <3>2, <3>3
  <2>7. d = << >> /\ Begins(m, t)
    <3>1. d = << >> /\ Begins(m, l)
      BY ONLY <1>5, <1>7
    <3> QED
      BY ONLY <1>7, <2>1, <2>3, <2>5, <3>1 DEF Begins
  <2>8. log'[p] = t /\ log'[o] = m /\ chan'[p] = e /\ chan'[o] = d
    BY <1>3
  <2>9. Carries(p)'
    BY ONLY <2>5, <2>6, <2>8, o = IO!Peer(p) DEF Carries
  <2>10. Carries(o)'
    BY ONLY <1>1, <2>5, <2>7, <2>8 DEF Carries
  <2> QED
    BY <1>1, <1>3, <2>9, <2>10 DEF UnderWay
<1> QED
  BY <1>6, <1>7

LEMMA GetKeeps ==
  ASSUME Channels, UnderWay, NEW p \in IO!Party, chan[IO!Peer(p)] # << >>,
         chan' = [chan EXCEPT ![IO!Peer(p)] = Tail(@)],
         log' = [log EXCEPT ![p] = Append(@, Head(chan[IO!Peer(p)]))]
  PROVE  /\ UnderWay' /\ Len(log[p]) < Len(log[IO!Peer(p)]) /\ log'[IO!Peer(p)] = log[IO!Peer(p)]
         /\ Head(chan[IO!Peer(p)]) = log[IO!Peer(p)][Len(log[p]) + 1]
         /\ log'[p] = Append(log[p], log[IO!Peer(p)][Len(log[p]) + 1])
<1> PICK o : o = IO!Peer(p)
  OBVIOUS
<1>1. o \in IO!Party /\ o # p /\ IO!Peer(o) = p /\ IO!Party = {o, p}
  BY DEF IO!Party, IO!Peer, IO!ALICE, IO!BOB
<1> PICK l, m, c, d : l = log[p] /\ m = log[o] /\ c = chan[p] /\ d = chan[o]
  OBVIOUS
<1>2. l \in Seq(Item) /\ m \in Seq(Item) /\ c \in Seq(Item) /\ d \in Seq(Item)
  BY <1>1 DEF Channels
<1>3. log'[p] = Append(l, Head(d)) /\ log'[o] = m /\ chan'[p] = c /\ chan'[o] = Tail(d) /\ d # << >>
  BY <1>1 DEF Channels
<1>4. IF Len(l) <= Len(m) THEN c = << >> /\ Begins(l, m)
      ELSE Len(c) = Len(l) - Len(m) /\ \A i \in 1 .. Len(c) : c[i] = l[Len(m) + i]
  <2>1. Carries(p)
    BY DEF UnderWay
  <2> QED
    BY ONLY <2>1, o = IO!Peer(p), l = log[p], m = log[o], c = chan[p] DEF Carries
<1>5. IF Len(m) <= Len(l) THEN d = << >> /\ Begins(m, l)
      ELSE Len(d) = Len(m) - Len(l) /\ \A i \in 1 .. Len(d) : d[i] = m[Len(l) + i]
  <2>1. Carries(o)
    BY <1>1 DEF UnderWay
  <2> QED
    BY ONLY <1>1, <2>1, l = log[p], m = log[o], d = chan[o] DEF Carries
<1>6. Len(l) \in Nat /\ Len(m) \in Nat /\ Len(d) \in Nat /\ Len(d) > 0
  BY <1>2, <1>3
<1>7. Len(l) < Len(m) /\ Len(d) = Len(m) - Len(l) /\ \A i \in 1 .. Len(d) : d[i] = m[Len(l) + i]
  BY ONLY <1>3, <1>5, <1>6
<1>8. c = << >> /\ Begins(l, m)
  BY ONLY <1>4, <1>6, <1>7
<1> PICK x : x = m[Len(l) + 1]
  OBVIOUS
<1>9. Head(d) = x /\ x \in Item
  <2>1. Head(d) = d[1] /\ 1 \in 1 .. Len(d) /\ Len(l) + 1 \in 1 .. Len(m)
    BY ONLY <1>2, <1>3, <1>6, <1>7
  <2> QED
    BY <1>2, <1>7, <2>1
<1> PICK t, e : t = Append(l, x) /\ e = Tail(d)
  OBVIOUS
<1>10. /\ t \in Seq(Item) /\ Len(t) = Len(l) + 1 /\ t[Len(l) + 1] = x /\ \A i \in 1 .. Len(l) : t[i] = l[i]
  BY ONLY <1>2, <1>9, t = Append(l, x)
<1>11. e \in Seq(Item) /\ Len(e) = Len(d) - 1 /\ \A i \in 1 .. Len(e) : e[i] = d[i + 1]
  BY ONLY <1>2, <1>3, <1>6, e = Tail(d)
<1>12. Begins(t, m) /\ Len(t) <= Len(m)
  <2>1. \A i \in 1 .. Len(t) : m[i] = t[i]
    <3> TAKE i \in 1 .. Len(t)
    <3>1. CASE i = Len(l) + 1
      BY <1>10, <3>1
    <3>2. CASE i # Len(l) + 1
      <4>1. i \in 1 .. Len(l)
        BY ONLY <1>6, <1>10, <3>2, i \in 1 .. Len(t)
      <4> QED
        BY ONLY <1>8, <1>10, <4>1 DEF Begins
    <3> QED
      BY <3>1, <3>2
  <2>2. Len(t) <= Len(m)
    BY ONLY <1>6, <1>7, <1>10
  <2> QED
    BY ONLY <2>1, <2>2 DEF Begins
<1>13. Carries(p)'
  <2>1. log'[p] = t /\ log'[o] = m /\ chan'[p] = << >>
    BY <1>3, <1>8, <1>9
  <2> QED
    BY <1>12, <2>1 DEF Carries
<1>14. Carries(o)'
  <2>1. log'[p] = t /\ log'[o] = m /\ chan'[o] = e
    BY <1>3, <1>9
  <2>2. CASE Len(m) <= Len(t)
    <3>1. Len(m) = Len(t) /\ Len(e) = 0
      BY ONLY <1>6, <1>7, <1>10, <1>11, <2>2
    <3>2. e = << >>
      BY ONLY <1>11, <3>1
    <3>3. Begins(m, t)
      BY ONLY <1>6, <1>12, <3>1 DEF Begins
    <3> QED
      BY <1>1, <2>1, <2>2, <3>2, <3>3 DEF Carries
  <2>3. CASE ~(Len(m) <= Len(t))
    <3>1. Len(e) = Len(m) - Len(t)
      BY ONLY <1>6, <1>7, <1>10, <1>11, <2>3
    <3>2. ASSUME NEW i \in 1 .. Len(e) PROVE e[i] = m[Len(t) + i]
      <4>1. i + 1 \in 1 .. Len(d) /\ Len(l) + (i + 1) = Len(t) + i
        BY ONLY <1>6, <1>10, <1>11, i \in 1 .. Len(e)
      <4> QED
        BY ONLY <1>7, <1>11, <4>1, i \in 1 .. Len(e)
    <3> QED
      BY <1>1, <2>1, <2>3, <3>1, <3>2 DEF Carries
  <2> QED
    BY <2>2, <2>3
<1> QED
  BY <1>1, <1>3, <1>7, <1>9, <1>13, <1>14 DEF UnderWay

-----------------------------------------------------------------------------
(* What every step of a party does.                                        *)

\* The program may grow; nothing else is known of it.
LEMMA Grown ==
  ASSUME Sizes, NEW P, NEW H, IOInvOf(P, H), NEW c \in IO!Call, Len(P) < MaxCalls
  PROVE  \E G : IOInvOf(Append(P, c), G)
<1> PICK m, Q : m = Len(P) /\ Q = Append(P, c)
  OBVIOUS
<1>1. P \in Seq(IO!Call) /\ m \in Nat
  BY DEF IOInvOf, Types, Control
<1>2. Q \in Seq(IO!Call) /\ Len(Q) = m + 1 /\ Q[m + 1] = c /\ \A n \in 1 .. m : Q[n] = P[n]
  BY ONLY <1>1, c \in IO!Call, m = Len(P), Q = Append(P, c)
<1> PICK G : Path(G, Q) /\ \A i \in 0 .. m : G[i] = H[i]
  BY <1>1, Extended DEF IOInvOf
<1>3. \A p \in IO!Party : Made(p) \in 0 .. m /\ As(p, G) = As(p, H)
  <2> TAKE p \in IO!Party
  <2>1. Made(p) \in 0 .. m
    BY <1>1, Standing DEF IOInvOf
  <2>2. G[Made(p)] = H[Made(p)]
    BY <2>1
  <2> QED
    BY ONLY <2>1, <2>2 DEF As
<1>4. Types(Q)
  <2>1. Len(Q) <= MaxCalls /\ m <= Len(Q)
    BY <1>1, <1>2 DEF Sizes
  <2>2. ASSUME NEW p \in IO!Party
        PROVE  /\ at[p] \in 1 .. MaxCalls + 2 /\ Made(p) <= Len(Q)
               /\ flushed[p] => /\ at[p] <= Len(Q)
                                /\ Q[at[p]] = IF p = IO!ALICE THEN "up" ELSE "down"
    <3>1. /\ at[p] \in 1 .. MaxCalls + 2 /\ Made(p) <= m
          /\ flushed[p] => at[p] <= m /\ P[at[p]] = IF p = IO!ALICE THEN "up" ELSE "down"
      BY DEF IOInvOf, Types, Control
    <3>2. at[p] <= m => at[p] \in 1 .. m /\ Q[at[p]] = P[at[p]]
      BY <1>1, <1>2, <3>1
    <3>3. Made(p) <= Len(Q) /\ (at[p] <= m => at[p] <= Len(Q))
      BY <1>1, <1>2, <1>3, <3>1
    <3> QED
      BY <3>1, <3>2, <3>3
  <2>3. Shapes /\ at \in [IO!Party -> Nat] /\ flushed \in [IO!Party -> BOOLEAN]
    BY DEF IOInvOf, Types, Control
  <2> QED
    BY ONLY <1>2, <2>1, <2>2, <2>3 DEF Types, Control
<1>5. InTurn(Q)
  <2>1. InTurn(P)
    BY DEF IOInvOf
  <2>2. ASSUME NEW j \in 1 .. m + 1
        PROVE  /\ Q[j] = "up" /\ j <= Made(IO!ALICE) => j <= Made(IO!BOB)
               /\ Q[j] \in {"bit", "down"} /\ j <= Made(IO!BOB) => j <= Made(IO!ALICE)
    <3>1. CASE j <= m
      <4>1. j \in 1 .. Len(P) /\ Q[j] = P[j]
        BY <1>1, <1>2, <3>1
      <4> QED
        BY ONLY <2>1, <4>1 DEF InTurn
    <3>2. CASE ~(j <= m)
      <4>1. Made(IO!ALICE) \in 0 .. m /\ Made(IO!BOB) \in 0 .. m
        BY <1>3 DEF IO!Party
      <4>2. ~(j <= Made(IO!ALICE)) /\ ~(j <= Made(IO!BOB))
        BY ONLY <1>1, <3>2, <4>1, j \in 1 .. m + 1
      <4> QED
        BY <4>2
    <3> QED
      BY <3>1, <3>2
  <2>3. stage[IO!ALICE] # << >> => Made(IO!BOB) < stage[IO!ALICE][1]
    BY ONLY <2>1 DEF InTurn
  <2> QED
    BY ONLY <1>2, <2>2, <2>3 DEF InTurn
<1>6. AliceAt(G) /\ BobAt(G)
  <2>1. As(IO!ALICE, G) = As(IO!ALICE, H) /\ As(IO!BOB, G) = As(IO!BOB, H)
    BY <1>3 DEF IO!Party
  <2> QED
    BY ONLY <2>1, IOInvOf(P, H) DEF IOInvOf, AliceAt, BobAt
<1>7. IOInvOf(Q, G)
  BY ONLY <1>4, <1>5, <1>6, Path(G, Q), IOInvOf(P, H) DEF IOInvOf
<1> QED
  BY <1>7

\* The call a party makes is the machine's next for that party.
LEMMA Chosen ==
  ASSUME Sizes, NEW p \in IO!Party, NEW c \in IO!Call, IOInv, IO!Calls(p, c)
  PROVE  \E H : /\ IOInvOf(prog', H) /\ at[p] <= Len(prog') /\ prog'[at[p]] = c /\ at[p] <= MaxCalls
                /\ at[p] = Made(p) + 1 /\ at[p] \in Nat
                /\ c # (IF p = IO!ALICE THEN "up" ELSE "down") => ~flushed[p]
<1> PICK H : IOInvOf(prog, H)
  BY DEF IOInv
<1>1. /\ prog \in Seq(IO!Call) /\ Len(prog) \in Nat /\ at[p] \in 1 .. MaxCalls + 2 /\ Made(p) <= Len(prog)
      /\ at[p] <= MaxCalls /\ MaxCalls \in Nat
  BY DEF IOInvOf, Types, Control, IO!Calls, Sizes
<1>2. at[p] = Made(p) + 1 /\ at[p] \in Nat /\ Made(p) \in Nat
  BY <1>1 DEF Made
<1> SUFFICES \E G : IOInvOf(prog', G) /\ at[p] <= Len(prog') /\ prog'[at[p]] = c
  <2>1. ASSUME NEW G, IOInvOf(prog', G), prog'[at[p]] = c, c # (IF p = IO!ALICE THEN "up" ELSE "down")
        PROVE  ~flushed[p]
    BY <2>1 DEF IOInvOf, Types, Control
  <2> QED
    BY <1>1, <1>2, <2>1
<1>3. CASE at[p] <= Len(prog)
  <2>1. prog' = prog /\ prog[at[p]] = c
    BY <1>3 DEF IO!Calls
  <2> QED
    BY <1>3, <2>1
<1>4. CASE ~(at[p] <= Len(prog))
  <2>1. prog' = Append(prog, c)
    BY <1>4 DEF IO!Calls
  <2>2. at[p] = Len(prog) + 1 /\ Len(prog) < MaxCalls
    BY ONLY <1>1, <1>2, <1>4
  <2>3. \E G : IOInvOf(Append(prog, c), G)
    BY <2>2, Grown
  <2>4. Len(Append(prog, c)) = Len(prog) + 1 /\ Append(prog, c)[Len(prog) + 1] = c
    BY <1>1
  <2> QED
    BY <1>1, <2>1, <2>2, <2>3, <2>4
<1> QED
  BY <1>3, <1>4

LEMMA Landed ==
  ASSUME NEW P, NEW H, P = prog', IOInvOf(P, H)'
  PROVE  IOInv'
<1>1. IOInvOf(prog, H)'
  BY DEF IOInvOf, Types, Control, InTurn
<1> QED
  BY <1>1 DEF IOInv

\* A party that has made its call is at the next state of the machine ...
LEMMA Stepped ==
  ASSUME Sizes, NEW P, NEW H, Control(P), NEW p \in IO!Party, at[p] <= Len(P),
         IO!Done(p), flushed' \in [IO!Party -> BOOLEAN], ~flushed'[p], flushed'[IO!Peer(p)] = flushed[IO!Peer(p)]
  PROVE  /\ Control(P)' /\ Made(p)' = Made(p) + 1 /\ Made(IO!Peer(p))' = Made(IO!Peer(p))
         /\ As(p, H)' = H[Made(p) + 1] /\ As(IO!Peer(p), H)' = As(IO!Peer(p), H)
<1> PICK o : o = IO!Peer(p)
  OBVIOUS
<1>1. o \in IO!Party /\ o # p /\ IO!Party = {o, p}
  BY DEF IO!Party, IO!Peer, IO!ALICE, IO!BOB
<1>2. /\ P \in Seq(IO!Call) /\ Len(P) \in Nat /\ Len(P) <= MaxCalls /\ MaxCalls \in Nat
      /\ at[p] \in 1 .. MaxCalls + 2 /\ Made(p) <= Len(P) /\ at \in [IO!Party -> Nat]
      /\ at[o] \in 1 .. MaxCalls + 2 /\ Made(o) <= Len(P)
      /\ flushed[o] => at[o] <= Len(P) /\ P[at[o]] = IF o = IO!ALICE THEN "up" ELSE "down"
  BY <1>1 DEF Control, Sizes
<1>3. at' \in [IO!Party -> Nat] /\ at'[p] = at[p] + 1 /\ at'[o] = at[o]
  BY <1>1, <1>2 DEF IO!Done
<1>4. at[p] # MaxCalls + 2 /\ at'[p] # MaxCalls + 2 /\ at'[p] \in 1 .. MaxCalls + 2 /\ at'[p] - 1 <= Len(P)
  BY <1>2, <1>3
<1>5. Made(p) = at[p] - 1 /\ Made(p)' = at'[p] - 1 /\ Made(p)' = Made(p) + 1
  <2>1. Made(p) = at[p] - 1 /\ Made(p)' = at'[p] - 1
    BY <1>4 DEF Made
  <2> QED
    BY <1>2, <1>3, <2>1
<1>6. Made(o)' = Made(o) /\ (Cutting(o)' <=> Cutting(o)) /\ ~Cutting(p)'
  BY <1>3, <1>4 DEF Made, Cutting
<1>7. As(p, H)' = H[Made(p)'] /\ As(o, H)' = As(o, H)
  BY <1>6 DEF As
<1>8. ASSUME NEW q \in IO!Party
      PROVE  /\ at'[q] \in 1 .. MaxCalls + 2 /\ Made(q)' <= Len(P)
             /\ flushed'[q] => /\ at'[q] <= Len(P)
                               /\ P[at'[q]] = IF q = IO!ALICE THEN "up" ELSE "down"
  <2>1. CASE q = p
    BY <1>4, <1>5, <2>1
  <2>2. CASE q = o
    BY <1>2, <1>3, <1>6, <2>2
  <2> QED
    BY <1>1, <2>1, <2>2
<1>9. Control(P)'
  BY <1>2, <1>3, <1>8 DEF Control
<1> QED
  BY <1>5, <1>6, <1>7, <1>9

\* ... one that has flushed, or closed, has cut its block.
LEMMA Waits ==
  ASSUME Sizes, NEW P, NEW H, Control(P), NEW p \in IO!Party,
         \/ /\ at[p] <= Len(P) /\ P[at[p]] = (IF p = IO!ALICE THEN "up" ELSE "down")
            /\ flushed' = [flushed EXCEPT ![p] = TRUE] /\ at' = at
         \/ at[p] = MaxCalls + 1 /\ IO!Done(p) /\ flushed' = flushed
  PROVE  /\ Control(P)' /\ Made(p)' = Made(p) /\ Made(IO!Peer(p))' = Made(IO!Peer(p))
         /\ As(p, H)' = Cut(H[Made(p)]) /\ As(IO!Peer(p), H)' = As(IO!Peer(p), H)
<1> PICK o : o = IO!Peer(p)
  OBVIOUS
<1>1. o \in IO!Party /\ o # p /\ IO!Party = {o, p}
  BY DEF IO!Party, IO!Peer, IO!ALICE, IO!BOB
<1>2. /\ P \in Seq(IO!Call) /\ Len(P) \in Nat /\ Len(P) <= MaxCalls /\ MaxCalls \in Nat
      /\ at[p] \in 1 .. MaxCalls + 2 /\ Made(p) <= Len(P) /\ at \in [IO!Party -> Nat]
      /\ at[o] \in 1 .. MaxCalls + 2 /\ Made(o) <= Len(P) /\ flushed \in [IO!Party -> BOOLEAN]
      /\ flushed[o] => at[o] <= Len(P) /\ P[at[o]] = IF o = IO!ALICE THEN "up" ELSE "down"
      /\ flushed[p] => at[p] <= Len(P) /\ P[at[p]] = IF p = IO!ALICE THEN "up" ELSE "down"
  BY <1>1 DEF Control, Sizes
<1>3. /\ at' \in [IO!Party -> Nat] /\ at'[o] = at[o] /\ flushed' \in [IO!Party -> BOOLEAN] /\ flushed'[o] = flushed[o]
      /\ \/ /\ at[p] <= Len(P) /\ P[at[p]] = (IF p = IO!ALICE THEN "up" ELSE "down")
            /\ flushed'[p] /\ at'[p] = at[p]
         \/ at[p] = MaxCalls + 1 /\ at'[p] = at[p] + 1 /\ flushed'[p] = flushed[p]
  <2>1. CASE at[p] = MaxCalls + 1 /\ IO!Done(p) /\ flushed' = flushed
    <3>1. at' = [at EXCEPT ![p] = @ + 1]
      BY <2>1 DEF IO!Done
    <3>2. at' \in [IO!Party -> Nat] /\ at'[o] = at[o] /\ at'[p] = at[p] + 1
      BY ONLY <1>1, <1>2, <3>1, p \in IO!Party
    <3> QED
      BY <1>2, <2>1, <3>2
  <2>2. CASE /\ at[p] <= Len(P) /\ P[at[p]] = (IF p = IO!ALICE THEN "up" ELSE "down")
             /\ flushed' = [flushed EXCEPT ![p] = TRUE] /\ at' = at
    <3>1. flushed' \in [IO!Party -> BOOLEAN] /\ flushed'[o] = flushed[o] /\ flushed'[p] = TRUE
      BY <1>1, <1>2, <2>2
    <3> QED
      BY <1>2, <2>2, <3>1
  <2> QED
    BY <2>1, <2>2
<1>4. Made(p)' = Made(p) /\ Cutting(p)' /\ at'[p] \in 1 .. MaxCalls + 2
  <2>1. CASE at'[p] = at[p] /\ flushed'[p]
    BY <1>2, <2>1 DEF Made, Cutting
  <2>2. CASE at[p] = MaxCalls + 1 /\ at'[p] = at[p] + 1
    <3>1. at'[p] = MaxCalls + 2 /\ at[p] # MaxCalls + 2 /\ at[p] - 1 = MaxCalls
      BY <1>2, <2>2
    <3> QED
      BY <1>2, <3>1 DEF Made, Cutting
  <2> QED
    BY <1>3, <2>1, <2>2
<1>5. Made(o)' = Made(o) /\ (Cutting(o)' <=> Cutting(o))
  BY <1>3 DEF Made, Cutting
<1>6. As(p, H)' = Cut(H[Made(p)]) /\ As(o, H)' = As(o, H)
  BY <1>4, <1>5 DEF As
<1>7. ASSUME NEW q \in IO!Party
      PROVE  /\ at'[q] \in 1 .. MaxCalls + 2 /\ Made(q)' <= Len(P)
             /\ flushed'[q] => /\ at'[q] <= Len(P)
                               /\ P[at'[q]] = IF q = IO!ALICE THEN "up" ELSE "down"
  <2>1. CASE q = p
    <3>1. flushed'[p] => at'[p] = at[p] /\ at[p] <= Len(P) /\ P[at[p]] = IF p = IO!ALICE THEN "up" ELSE "down"
      <4>1. at[p] = MaxCalls + 1 => ~(at[p] <= Len(P))
        BY <1>2
      <4> QED
        BY <1>2, <1>3, <4>1
    <3> QED
      BY <1>2, <1>4, <2>1, <3>1
  <2>2. CASE q = o
    BY <1>2, <1>3, <1>5, <2>2
  <2> QED
    BY <1>1, <2>1, <2>2
<1>8. Control(P)'
  BY <1>2, <1>3, <1>7 DEF Control
<1> QED
  BY <1>4, <1>5, <1>6, <1>8

LEMMA PutShapes ==
  ASSUME Shapes, NEW p \in IO!Party, NEW items \in Seq(Item), NEW upto \in Nat, upto <= Len(chan[p]) + Len(items),
         IO!Put(p, items, upto)
  PROVE  /\ chan' \in [IO!Party -> Seq(Item)] /\ log' \in [IO!Party -> Seq(Item)] /\ visible' \in [IO!Party -> Nat]
         /\ \A q \in IO!Party : visible'[q] <= Len(chan'[q])
<1>1. /\ chan \in [IO!Party -> Seq(Item)] /\ log \in [IO!Party -> Seq(Item)] /\ visible \in [IO!Party -> Nat]
      /\ \A q \in IO!Party : visible[q] <= Len(chan[q])
  BY DEF Shapes
<1>2. /\ chan' = [chan EXCEPT ![p] = @ \o items] /\ log' = [log EXCEPT ![p] = @ \o items]
      /\ visible' = [visible EXCEPT ![p] = IF upto > @ THEN upto ELSE @]
  BY DEF IO!Put
<1> PICK c, l, v : c = chan[p] \o items /\ l = log[p] \o items /\ v = IF upto > visible[p] THEN upto ELSE visible[p]
  OBVIOUS
<1>3. chan[p] \in Seq(Item) /\ log[p] \in Seq(Item) /\ visible[p] \in Nat /\ visible[p] <= Len(chan[p])
  BY ONLY <1>1, p \in IO!Party
<1>4. c \in Seq(Item) /\ Len(c) = Len(chan[p]) + Len(items) /\ l \in Seq(Item) /\ Len(items) \in Nat
      /\ Len(chan[p]) \in Nat
  BY ONLY <1>3, items \in Seq(Item), c = chan[p] \o items, l = log[p] \o items
<1>5. v \in Nat /\ v <= Len(c)
  <2>1. CASE upto > visible[p]
    <3>1. v = upto
      BY <2>1
    <3> QED
      BY <1>4, <3>1
  <2>2. CASE ~(upto > visible[p])
    <3>1. v = visible[p]
      BY <2>2
    <3> QED
      BY <1>3, <1>4, <3>1
  <2> QED
    BY <2>1, <2>2
<1>6. chan' = [chan EXCEPT ![p] = c] /\ log' = [log EXCEPT ![p] = l] /\ visible' = [visible EXCEPT ![p] = v]
  BY <1>2
<1>7. chan' \in [IO!Party -> Seq(Item)] /\ log' \in [IO!Party -> Seq(Item)] /\ visible' \in [IO!Party -> Nat]
  BY ONLY <1>1, <1>4, <1>5, <1>6, p \in IO!Party
<1>8. ASSUME NEW q \in IO!Party PROVE visible'[q] <= Len(chan'[q])
  <2>1. CASE q = p
    <3>1. visible'[q] = v /\ chan'[q] = c
      BY ONLY <1>1, <1>6, <2>1, p \in IO!Party
    <3> QED
      BY ONLY <1>5, <3>1
  <2>2. CASE q # p
    <3>1. visible'[q] = visible[q] /\ chan'[q] = chan[q]
      BY ONLY <1>1, <1>6, <2>2, p \in IO!Party, q \in IO!Party
    <3> QED
      BY ONLY <1>1, <3>1, q \in IO!Party
  <2> QED
    BY <2>1, <2>2
<1> QED
  BY <1>7, <1>8

LEMMA GetShapes ==
  ASSUME Shapes, UnderWay, NEW p \in IO!Party, IO!Get(p)
  PROVE  /\ chan' \in [IO!Party -> Seq(Item)] /\ log' \in [IO!Party -> Seq(Item)] /\ visible' \in [IO!Party -> Nat]
         /\ \A q \in IO!Party : visible'[q] <= Len(chan'[q])
         /\ UnderWay' /\ Len(log[p]) < Len(log[IO!Peer(p)]) /\ log'[IO!Peer(p)] = log[IO!Peer(p)]
         /\ Head(chan[IO!Peer(p)]) = log[IO!Peer(p)][Len(log[p]) + 1]
         /\ log'[p] = Append(log[p], log[IO!Peer(p)][Len(log[p]) + 1])
<1> PICK o : o = IO!Peer(p)
  OBVIOUS
<1>1. o \in IO!Party /\ o # p /\ IO!Party = {o, p}
  BY DEF IO!Party, IO!Peer, IO!ALICE, IO!BOB
<1>2. /\ chan \in [IO!Party -> Seq(Item)] /\ log \in [IO!Party -> Seq(Item)] /\ visible \in [IO!Party -> Nat]
      /\ \A q \in IO!Party : visible[q] <= Len(chan[q])
  BY DEF Shapes
<1> PICK d, n : d = chan[o] /\ n = visible[o]
  OBVIOUS
<1>3. d \in Seq(Item) /\ n \in Nat /\ n <= Len(d) /\ n > 0
  BY <1>1, <1>2 DEF IO!Get
<1>4. /\ chan' = [chan EXCEPT ![o] = Tail(@)] /\ visible' = [visible EXCEPT ![o] = @ - 1]
      /\ log' = [log EXCEPT ![p] = Append(@, Head(d))]
  BY DEF IO!Get
<1>5. Len(d) \in Nat /\ Len(d) > 0 /\ d # << >> /\ Head(d) \in Item /\ Tail(d) \in Seq(Item)
      /\ Len(Tail(d)) = Len(d) - 1
  <2>1. Len(d) \in Nat
    BY ONLY <1>3
  <2>2. Len(d) > 0
    BY ONLY <1>3, <2>1
  <2>3. d # << >>
    BY ONLY <2>2
  <2> QED
    BY ONLY <1>3, <2>1, <2>2, <2>3
<1>6. n - 1 \in Nat /\ n - 1 <= Len(Tail(d))
  BY ONLY <1>3, <1>5
<1> PICK x, e, l : x = Head(d) /\ e = Tail(d) /\ l = Append(log[p], x)
  OBVIOUS
<1>7. l \in Seq(Item)
  <2>1. log[p] \in Seq(Item) /\ x \in Item
    BY <1>2, <1>5
  <2> QED
    BY ONLY <2>1, l = Append(log[p], x)
<1>8. /\ chan' = [chan EXCEPT ![o] = e] /\ visible' = [visible EXCEPT ![o] = n - 1]
      /\ log' = [log EXCEPT ![p] = l]
  BY <1>4
<1>9. chan' \in [IO!Party -> Seq(Item)] /\ log' \in [IO!Party -> Seq(Item)] /\ visible' \in [IO!Party -> Nat]
  <2>1. e \in Seq(Item)
    BY <1>5
  <2> QED
    BY ONLY <1>1, <1>2, <1>6, <1>7, <1>8, <2>1, p \in IO!Party
<1>10. ASSUME NEW q \in IO!Party PROVE visible'[q] <= Len(chan'[q])
  <2>1. CASE q = o
    <3>1. visible'[q] = n - 1 /\ chan'[q] = e
      BY ONLY <1>1, <1>2, <1>8, <2>1
    <3> QED
      BY <1>6, <3>1
  <2>2. CASE q # o
    <3>1. visible'[q] = visible[q] /\ chan'[q] = chan[q]
      BY ONLY <1>1, <1>2, <1>8, <2>2, q \in IO!Party
    <3> QED
      BY ONLY <1>2, <3>1, q \in IO!Party
  <2> QED
    BY <2>1, <2>2
<1>11. Channels /\ chan[IO!Peer(p)] # << >>
  BY <1>2, <1>5 DEF Channels
<1>12. /\ UnderWay' /\ Len(log[p]) < Len(log[IO!Peer(p)]) /\ log'[IO!Peer(p)] = log[IO!Peer(p)]
       /\ Head(chan[IO!Peer(p)]) = log[IO!Peer(p)][Len(log[p]) + 1]
       /\ log'[p] = Append(log[p], log[IO!Peer(p)][Len(log[p]) + 1])
  BY <1>4, <1>11, GetKeeps
<1> QED
  BY <1>9, <1>10, <1>12

LEMMA ReceivedRight ==
  ASSUME IO!StreamsOrdered, got \in [IO!Party -> Seq(Nat \X Nat)], NEW p \in IO!Party, at[p] \in Nat, IO!Received(p, at[p])
  PROVE  IO!StreamsOrdered' /\ got' \in [IO!Party -> Seq(Nat \X Nat)]
<1> PICK g, x : g = Append(got[p], x) /\ x = <<at[p], at[p]>>
  OBVIOUS
<1>1. got' = [got EXCEPT ![p] = g]
  BY DEF IO!Received
<1>2. got[p] \in Seq(Nat \X Nat) /\ x \in Nat \X Nat /\ x[1] = x[2]
  OBVIOUS
<1>3. g \in Seq(Nat \X Nat) /\ Len(g) = Len(got[p]) + 1 /\ g[Len(got[p]) + 1] = x /\ Len(got[p]) \in Nat
      /\ \A k \in 1 .. Len(got[p]) : g[k] = got[p][k]
  BY ONLY <1>2, g = Append(got[p], x)
<1>4. got' \in [IO!Party -> Seq(Nat \X Nat)]
  BY <1>1, <1>3
<1>5. ASSUME NEW q \in IO!Party, NEW k \in DOMAIN got'[q] PROVE got'[q][k][2] = got'[q][k][1]
  <2>1. CASE q = p
    <3>1. got'[q] = g
      BY <1>1, <2>1
    <3>2. k \in 1 .. Len(g)
      BY <1>3, <3>1
    <3>3. CASE k = Len(got[p]) + 1
      BY <1>2, <1>3, <3>1, <3>3
    <3>4. CASE k # Len(got[p]) + 1
      <4>1. k \in 1 .. Len(got[p])
        BY ONLY <1>3, <3>2, <3>4
      <4>2. g[k] = got[p][k] /\ k \in DOMAIN got[p]
        BY <1>2, <1>3, <4>1
      <4>3. got[p][k][2] = got[p][k][1]
        BY <4>2 DEF IO!StreamsOrdered
      <4> QED
        BY <3>1, <4>2, <4>3
    <3> QED
      BY <3>3, <3>4
  <2>2. CASE q # p
    <3>1. got'[q] = got[q]
      BY <1>1, <2>2
    <3> QED
      BY <3>1 DEF IO!StreamsOrdered
  <2> QED
    BY <2>1, <2>2
<1> QED
  BY <1>4, <1>5 DEF IO!StreamsOrdered

\* Whatever the party sends, its blocks are full; what it receives was sent.
LEMMA FullGrows ==
  ASSUME NEW s \in Seq(Item), NEW t \in Seq(Item), Full(s), Full(t)
  PROVE  Full(s \o t)
<1> PICK u : u = s \o t
  OBVIOUS
<1>1. /\ Len(s) \in Nat /\ Len(t) \in Nat /\ Len(u) = Len(s) + Len(t)
      /\ \A n \in 1 .. Len(s) : u[n] = s[n]
      /\ \A n \in Len(s) + 1 .. Len(s) + Len(t) : u[n] = t[n - Len(s)]
  OBVIOUS
<1>2. ASSUME NEW n \in 1 .. Len(u), u[n].kind = "bits" PROVE Len(u[n].data) = STAGE
  <2>1. CASE n <= Len(s)
    <3>1. n \in 1 .. Len(s) /\ u[n] = s[n]
      BY <1>1, <2>1
    <3> QED
      BY <1>2, <3>1 DEF Full
  <2>2. CASE ~(n <= Len(s))
    <3>1. n \in Len(s) + 1 .. Len(s) + Len(t) /\ n - Len(s) \in 1 .. Len(t)
      BY <1>1, <2>2
    <3>2. u[n] = t[n - Len(s)]
      BY ONLY <1>1, <3>1
    <3> QED
      BY <1>2, <3>1, <3>2 DEF Full
  <2> QED
    BY <2>1, <2>2
<1> QED
  BY <1>2 DEF Full

\* BOB does not notice what ALICE sends.
LEMMA BobStays ==
  ASSUME Sizes, NEW P, NEW H, IOInvOf(P, H), NEW items \in Seq(Item), As(IO!BOB, H)' = As(IO!BOB, H),
         log'[IO!ALICE] = log[IO!ALICE] \o items, log'[IO!BOB] = log[IO!BOB], stage'[IO!BOB] = stage[IO!BOB],
         seeds'[IO!BOB] = seeds[IO!BOB]
  PROVE  BobAt(H)'
<1> PICK q, n, l : q = As(IO!BOB, H) /\ n = Len(q.log) + 1 /\ l = log[IO!ALICE]
  OBVIOUS
<1>1. l \in Seq(Item) /\ Len(l) \in Nat /\ n \in Nat /\ n >= 1
  <2>1. l \in Seq(Item) /\ Len(l) \in Nat /\ Len(q.log) \in Nat
    BY Lengths
  <2> QED
    BY <2>1
<1>2. BobAt(H)
  BY DEF IOInvOf
<1> PICK t : t = l \o items
  OBVIOUS
<1>3. n <= Len(l) => n <= Len(t) /\ t[n] = l[n]
  <2>1. Len(t) = Len(l) + Len(items) /\ Len(items) \in Nat /\ \A i \in 1 .. Len(l) : t[i] = l[i]
    BY ONLY <1>1, items \in Seq(Item), t = l \o items
  <2> QED
    BY ONLY <1>1, <2>1
<1>4. /\ seeds[IO!BOB] = q.seeds
      /\ IF q.open = << >>
         THEN log[IO!BOB] = q.log /\ stage[IO!BOB] = << >>
         ELSE /\ n <= Len(l) /\ log[IO!BOB] = Append(q.log, l[n])
              /\ Len(stage[IO!BOB]) = STAGE - Len(q.open)
              /\ \A i \in 1 .. Len(stage[IO!BOB]) : stage[IO!BOB][i] = l[n].data[Len(q.open) + i]
  BY ONLY <1>2, q = As(IO!BOB, H), n = Len(q.log) + 1, l = log[IO!ALICE] DEF BobAt
<1>5. /\ seeds'[IO!BOB] = q.seeds
      /\ IF q.open = << >>
         THEN log'[IO!BOB] = q.log /\ stage'[IO!BOB] = << >>
         ELSE /\ n <= Len(t) /\ log'[IO!BOB] = Append(q.log, t[n])
              /\ Len(stage'[IO!BOB]) = STAGE - Len(q.open)
              /\ \A i \in 1 .. Len(stage'[IO!BOB]) : stage'[IO!BOB][i] = t[n].data[Len(q.open) + i]
  <2>1. log'[IO!BOB] = log[IO!BOB] /\ stage'[IO!BOB] = stage[IO!BOB] /\ seeds'[IO!BOB] = seeds[IO!BOB]
    OBVIOUS
  <2>2. CASE q.open = << >>
    BY ONLY <1>4, <2>1, <2>2
  <2>3. CASE q.open # << >>
    <3>1. n <= Len(t) /\ t[n] = l[n]
      BY ONLY <1>3, <1>4, <2>3
    <3> QED
      BY ONLY <1>4, <2>1, <2>3, <3>1
  <2> QED
    BY <2>2, <2>3
<1>6. log'[IO!ALICE] = t /\ As(IO!BOB, H)' = q
  OBVIOUS
<1> QED
  BY ONLY <1>5, <1>6, n = Len(q.log) + 1 DEF BobAt

LEMMA AliceStays ==
  ASSUME NEW H, AliceAt(H), As(IO!ALICE, H)' = As(IO!ALICE, H), log'[IO!ALICE] = log[IO!ALICE], stage'[IO!ALICE] = stage[IO!ALICE],
         seeds'[IO!ALICE] = seeds[IO!ALICE]
  PROVE  AliceAt(H)'
BY DEF AliceAt

\* BOB at a state with no block open.
LEMMA BobClean ==
  ASSUME NEW H, As(IO!BOB, H)'.open = << >>, log'[IO!BOB] = As(IO!BOB, H)'.log, stage'[IO!BOB] = << >>,
         seeds'[IO!BOB] = As(IO!BOB, H)'.seeds
  PROVE  BobAt(H)'
BY DEF BobAt

LEMMA FullAfter ==
  ASSUME NEW p \in IO!Party, BlocksFull, log \in [IO!Party -> Seq(Item)], NEW items \in Seq(Item), Full(items),
         log'[p] = log[p] \o items, log'[IO!Peer(p)] = log[IO!Peer(p)]
  PROVE  BlocksFull'
<1>1. IO!Peer(p) \in IO!Party /\ IO!Party = {IO!Peer(p), p}
  BY DEF IO!Party, IO!Peer, IO!ALICE, IO!BOB
<1>2. Full(log[p]) /\ Full(log[IO!Peer(p)]) /\ log[p] \in Seq(Item)
  BY <1>1 DEF BlocksFull
<1>3. Full(log'[p])
  <2>1. Full(log[p] \o items)
    BY <1>2, FullGrows
  <2> QED
    BY <2>1
<1>4. Full(log'[IO!Peer(p)])
  BY <1>2
<1>5. \A q \in IO!Party : Full(log'[q])
  BY ONLY <1>1, <1>3, <1>4
<1>6. \A q \in IO!Party : Full(log[q])'
  BY <1>5 DEF Full
<1> QED
  BY ONLY <1>6 DEF BlocksFull

LEMMA InTurnAlice ==
  ASSUME Sizes, NEW P, NEW H, IOInvOf(P, H), Made(IO!BOB)' = Made(IO!BOB),
         \/ Made(IO!ALICE)' = Made(IO!ALICE)
         \/ /\ Made(IO!ALICE)' = Made(IO!ALICE) + 1
            /\ P[Made(IO!ALICE) + 1] = "up" => Made(IO!ALICE) + 1 <= Made(IO!BOB),
         stage'[IO!ALICE] # << >> => Made(IO!BOB) < stage'[IO!ALICE][1]
  PROVE  InTurn(P)'
<1> PICK a, b, c : a = Made(IO!ALICE) /\ b = Made(IO!BOB) /\ c = Made(IO!ALICE)'
  OBVIOUS
<1>1. a \in Nat /\ b \in Nat /\ Len(P) \in Nat
  BY Standing DEF IOInvOf, IO!Party
<1>2. \A j \in 1 .. Len(P) : /\ P[j] = "up" /\ j <= a => j <= b
                             /\ P[j] \in {"bit", "down"} /\ j <= b => j <= a
  BY DEF IOInvOf, InTurn
<1>3. c = a \/ (c = a + 1 /\ (P[a + 1] = "up" => a + 1 <= b))
  OBVIOUS
<1>4. ASSUME NEW j \in 1 .. Len(P)
      PROVE  /\ P[j] = "up" /\ j <= c => j <= b
             /\ P[j] \in {"bit", "down"} /\ j <= b => j <= c
  <2>1. CASE j = a + 1
    BY ONLY <1>1, <1>2, <1>3, <2>1, j \in 1 .. Len(P)
  <2>2. CASE j # a + 1
    <3>1. (j <= c => j <= a) /\ (j <= a => j <= c)
      BY ONLY <1>1, <1>3, <2>2, j \in 1 .. Len(P)
    <3> QED
      BY ONLY <1>2, <3>1, j \in 1 .. Len(P)
  <2> QED
    BY <2>1, <2>2
<1>5. Made(IO!ALICE)' = c /\ Made(IO!BOB)' = b /\ (stage'[IO!ALICE] # << >> => b < stage'[IO!ALICE][1])
  OBVIOUS
<1> QED
  BY ONLY <1>4, <1>5 DEF InTurn

LEMMA InTurnBob ==
  ASSUME Sizes, NEW P, NEW H, IOInvOf(P, H), Made(IO!ALICE)' = Made(IO!ALICE),
         \/ Made(IO!BOB)' = Made(IO!BOB)
         \/ /\ Made(IO!BOB)' = Made(IO!BOB) + 1
            /\ P[Made(IO!BOB) + 1] \in {"bit", "down"} => Made(IO!BOB) + 1 <= Made(IO!ALICE),
         stage'[IO!ALICE] # << >> => Made(IO!BOB)' < stage'[IO!ALICE][1]
  PROVE  InTurn(P)'
<1> PICK a, b, c : a = Made(IO!ALICE) /\ b = Made(IO!BOB) /\ c = Made(IO!BOB)'
  OBVIOUS
<1>1. a \in Nat /\ b \in Nat /\ Len(P) \in Nat
  BY Standing DEF IOInvOf, IO!Party
<1>2. \A j \in 1 .. Len(P) : /\ P[j] = "up" /\ j <= a => j <= b
                             /\ P[j] \in {"bit", "down"} /\ j <= b => j <= a
  BY DEF IOInvOf, InTurn
<1>3. c = b \/ (c = b + 1 /\ (P[b + 1] \in {"bit", "down"} => b + 1 <= a))
  OBVIOUS
<1>4. ASSUME NEW j \in 1 .. Len(P)
      PROVE  /\ P[j] = "up" /\ j <= a => j <= c
             /\ P[j] \in {"bit", "down"} /\ j <= c => j <= a
  <2>1. CASE j = b + 1
    BY ONLY <1>1, <1>2, <1>3, <2>1, j \in 1 .. Len(P)
  <2>2. CASE j # b + 1
    <3>1. (j <= c => j <= b) /\ (j <= b => j <= c)
      BY ONLY <1>1, <1>3, <2>2, j \in 1 .. Len(P)
    <3> QED
      BY ONLY <1>2, <3>1, j \in 1 .. Len(P)
  <2> QED
    BY <2>1, <2>2
<1>5. Made(IO!ALICE)' = a /\ Made(IO!BOB)' = c /\ (stage'[IO!ALICE] # << >> => c < stage'[IO!ALICE][1])
  OBVIOUS
<1> QED
  BY ONLY <1>4, <1>5 DEF InTurn

\* A block ALICE is filling opened after a call BOB has made.
LEMMA StillAhead ==
  ASSUME Sizes, NEW P, NEW H, IOInvOf(P, H), Made(IO!BOB) < Len(P), P[Made(IO!BOB) + 1] # "bit", stage[IO!ALICE] # << >>
  PROVE  Made(IO!BOB) + 1 < stage[IO!ALICE][1]
<1> PICK A, a, b : A = As(IO!ALICE, H) /\ a = Made(IO!ALICE) /\ b = Made(IO!BOB)
  OBVIOUS
<1>1. /\ a \in Nat /\ b \in Nat /\ P \in Seq(IO!Call) /\ StateOK(H[b], P, b) /\ a <= Len(P) /\ Len(P) \in Nat
      /\ \A j \in 0 .. a : Leads(j, H[j], A)
  BY Standing DEF IOInvOf, IO!Party
<1>2. b < a
  BY Unstaged
<1>3. b + 1 \in 0 .. a /\ b + 1 \in 1 .. Len(P) /\ b \in 0 .. Len(P) - 1
  BY <1>1, <1>2
<1>4. Leads(b + 1, H[b + 1], A)
  BY <1>1, <1>3
<1>5. H[b + 1] = Succ(H[b], P[b + 1], b + 1)
  BY <1>3 DEF IOInvOf, Path
<1>6. P[b + 1] \in IO!Call
  BY <1>1, <1>3
<1>7. H[b + 1].open = << >>
  BY <1>1, <1>5, <1>6, OtherIs
<1>8. stage[IO!ALICE] = A.open
  BY DEF IOInvOf, AliceAt
<1>9. A.open[1] > b + 1
  BY <1>4, <1>7, <1>8 DEF Leads
<1> QED
  BY <1>1, <1>8, <1>9

-----------------------------------------------------------------------------
(* The steps.                                                              *)

\* ALICE sends and takes nothing.
LEMMA AliceActs ==
  ASSUME Sizes, NEW P, NEW H, IOInvOf(P, H), NEW items \in Seq(Item), NEW r \in State,
         chan' = [chan EXCEPT ![IO!ALICE] = @ \o items], log' = [log EXCEPT ![IO!ALICE] = @ \o items],
         visible' \in [IO!Party -> Nat], \A q \in IO!Party : visible'[q] <= Len(chan'[q]), Full(items),
         items = << >> \/ Len(log[IO!BOB]) <= Len(log[IO!ALICE]),
         Control(P)', Made(IO!BOB)' = Made(IO!BOB), As(IO!BOB, H)' = As(IO!BOB, H), As(IO!ALICE, H)' = r,
         \/ Made(IO!ALICE)' = Made(IO!ALICE)
         \/ Made(IO!ALICE)' = Made(IO!ALICE) + 1 /\ P[Made(IO!ALICE) + 1] # "up",
         r.log = log[IO!ALICE] \o items, stage' = [stage EXCEPT ![IO!ALICE] = r.open], got' = got,
         seeds' = [seeds EXCEPT ![IO!ALICE] = r.seeds],
         r.open # << >> => Made(IO!BOB) < r.open[1]
  PROVE  IOInvOf(P, H)'
<1>1. IO!ALICE \in IO!Party /\ IO!BOB \in IO!Party /\ IO!Peer(IO!ALICE) = IO!BOB /\ IO!ALICE # IO!BOB
  BY DEF IO!Party, IO!Peer, IO!ALICE, IO!BOB
<1>2. /\ stage \in [IO!Party -> Seq(Nat)] /\ chan \in [IO!Party -> Seq(Item)] /\ log \in [IO!Party -> Seq(Item)]
      /\ seeds \in [IO!Party -> Seq(Seq(Item))] /\ got \in [IO!Party -> Seq(Nat \X Nat)]
      /\ UnderWay /\ BlocksFull /\ IO!StreamsOrdered /\ Path(H, P)
  BY DEF IOInvOf, Types, Shapes
<1>3. r.open \in Seq(Nat) /\ r.seeds \in Seq(Seq(Item))
  BY DEF State
<1>4. UnderWay' /\ log'[IO!ALICE] = log[IO!ALICE] \o items /\ log'[IO!BOB] = log[IO!BOB]
  <2>1. Channels /\ UnderWay /\ (Len(log[IO!Peer(IO!ALICE)]) <= Len(log[IO!ALICE]) \/ items = << >>)
    BY <1>1, <1>2 DEF Channels
  <2>2. chan' = [chan EXCEPT ![IO!ALICE] = @ \o items] /\ log' = [log EXCEPT ![IO!ALICE] = @ \o items]
    OBVIOUS
  <2>3. UnderWay' /\ log'[IO!ALICE] = log[IO!ALICE] \o items /\ log'[IO!Peer(IO!ALICE)] = log[IO!Peer(IO!ALICE)]
    BY ONLY <1>1, <2>1, <2>2, items \in Seq(Item), PutKeeps
  <2> QED
    BY <1>1, <2>3
<1>5. /\ stage' \in [IO!Party -> Seq(Nat)] /\ stage'[IO!ALICE] = r.open /\ stage'[IO!BOB] = stage[IO!BOB]
      /\ seeds' \in [IO!Party -> Seq(Seq(Item))] /\ seeds'[IO!ALICE] = r.seeds /\ seeds'[IO!BOB] = seeds[IO!BOB]
  <2>1. stage' = [stage EXCEPT ![IO!ALICE] = r.open] /\ seeds' = [seeds EXCEPT ![IO!ALICE] = r.seeds]
    OBVIOUS
  <2>2. stage' \in [IO!Party -> Seq(Nat)] /\ stage'[IO!ALICE] = r.open /\ stage'[IO!BOB] = stage[IO!BOB]
    BY ONLY <1>1, <1>2, <1>3, <2>1
  <2>3. seeds' \in [IO!Party -> Seq(Seq(Item))] /\ seeds'[IO!ALICE] = r.seeds /\ seeds'[IO!BOB] = seeds[IO!BOB]
    BY ONLY <1>1, <1>2, <1>3, <2>1
  <2> QED
    BY <2>2, <2>3
<1>6. chan' \in [IO!Party -> Seq(Item)] /\ log' \in [IO!Party -> Seq(Item)]
  BY <1>1, <1>2, SMTT(40), ZenonT(40)
<1>7. Types(P)'
  BY <1>2, <1>5, <1>6 DEF Types, Shapes
<1>8. InTurn(P)'
  BY <1>5, InTurnAlice
<1>9. BlocksFull'
  BY <1>1, <1>2, <1>4, FullAfter
<1>10. IO!StreamsOrdered'
  BY <1>2 DEF IO!StreamsOrdered
<1>11. AliceAt(H)'
  BY <1>4, <1>5 DEF AliceAt
<1>12. BobAt(H)'
  BY <1>4, <1>5, BobStays
<1> QED
  BY <1>2, <1>4, <1>7, <1>8, <1>9, <1>10, <1>11, <1>12 DEF IOInvOf

\* BOB sends and takes nothing, and keeps no block.
LEMMA BobActs ==
  ASSUME Sizes, NEW P, NEW H, IOInvOf(P, H), NEW items \in Seq(Item), NEW r \in State,
         chan' = [chan EXCEPT ![IO!BOB] = @ \o items], log' = [log EXCEPT ![IO!BOB] = @ \o items],
         visible' \in [IO!Party -> Nat], \A q \in IO!Party : visible'[q] <= Len(chan'[q]), Full(items),
         items = << >> \/ Len(log[IO!ALICE]) <= Len(log[IO!BOB]),
         Control(P)', Made(IO!ALICE)' = Made(IO!ALICE), As(IO!ALICE, H)' = As(IO!ALICE, H), As(IO!BOB, H)' = r,
         \/ Made(IO!BOB)' = Made(IO!BOB)
         \/ /\ Made(IO!BOB)' = Made(IO!BOB) + 1 /\ Made(IO!BOB) < Len(P)
            /\ P[Made(IO!BOB) + 1] # "bit" /\ P[Made(IO!BOB) + 1] # "down",
         r.log = log[IO!BOB] \o items, r.open = << >>, stage' = [stage EXCEPT ![IO!BOB] = << >>], got' = got,
         seeds' = [seeds EXCEPT ![IO!BOB] = r.seeds]
  PROVE  IOInvOf(P, H)'
<1>1. IO!ALICE \in IO!Party /\ IO!BOB \in IO!Party /\ IO!Peer(IO!BOB) = IO!ALICE /\ IO!ALICE # IO!BOB
  BY DEF IO!Party, IO!Peer, IO!ALICE, IO!BOB
<1>2. /\ stage \in [IO!Party -> Seq(Nat)] /\ chan \in [IO!Party -> Seq(Item)] /\ log \in [IO!Party -> Seq(Item)]
      /\ seeds \in [IO!Party -> Seq(Seq(Item))] /\ got \in [IO!Party -> Seq(Nat \X Nat)]
      /\ UnderWay /\ BlocksFull /\ IO!StreamsOrdered /\ Path(H, P) /\ AliceAt(H)
      /\ stage[IO!ALICE] # << >> => Made(IO!BOB) < stage[IO!ALICE][1]
  BY DEF IOInvOf, Types, Shapes, InTurn
<1>3. r.seeds \in Seq(Seq(Item)) /\ << >> \in Seq(Nat)
  BY DEF State
<1>4. UnderWay' /\ log'[IO!BOB] = log[IO!BOB] \o items /\ log'[IO!ALICE] = log[IO!ALICE]
  <2>1. Channels /\ UnderWay /\ (Len(log[IO!Peer(IO!BOB)]) <= Len(log[IO!BOB]) \/ items = << >>)
    BY <1>1, <1>2 DEF Channels
  <2>2. chan' = [chan EXCEPT ![IO!BOB] = @ \o items] /\ log' = [log EXCEPT ![IO!BOB] = @ \o items]
    OBVIOUS
  <2>3. UnderWay' /\ log'[IO!BOB] = log[IO!BOB] \o items /\ log'[IO!Peer(IO!BOB)] = log[IO!Peer(IO!BOB)]
    BY ONLY <1>1, <2>1, <2>2, items \in Seq(Item), PutKeeps
  <2> QED
    BY <1>1, <2>3
<1>5. /\ stage' \in [IO!Party -> Seq(Nat)] /\ stage'[IO!BOB] = << >> /\ stage'[IO!ALICE] = stage[IO!ALICE]
      /\ seeds' \in [IO!Party -> Seq(Seq(Item))] /\ seeds'[IO!BOB] = r.seeds /\ seeds'[IO!ALICE] = seeds[IO!ALICE]
  <2>1. stage' = [stage EXCEPT ![IO!BOB] = << >>] /\ seeds' = [seeds EXCEPT ![IO!BOB] = r.seeds]
    OBVIOUS
  <2>2. stage' \in [IO!Party -> Seq(Nat)] /\ stage'[IO!BOB] = << >> /\ stage'[IO!ALICE] = stage[IO!ALICE]
    BY ONLY <1>1, <1>2, <1>3, <2>1
  <2>3. seeds' \in [IO!Party -> Seq(Seq(Item))] /\ seeds'[IO!BOB] = r.seeds /\ seeds'[IO!ALICE] = seeds[IO!ALICE]
    BY ONLY <1>1, <1>2, <1>3, <2>1
  <2> QED
    BY <2>2, <2>3
<1>6. chan' \in [IO!Party -> Seq(Item)] /\ log' \in [IO!Party -> Seq(Item)]
  BY <1>1, <1>2, SMTT(40), ZenonT(40)
<1>7. Types(P)'
  BY <1>2, <1>5, <1>6 DEF Types, Shapes
<1>8. InTurn(P)'
  <2>1. stage'[IO!ALICE] # << >> => Made(IO!BOB)' < stage'[IO!ALICE][1]
    <3>1. CASE Made(IO!BOB)' = Made(IO!BOB)
      BY <1>2, <1>5, <3>1
    <3>2. CASE /\ Made(IO!BOB)' = Made(IO!BOB) + 1 /\ Made(IO!BOB) < Len(P)
               /\ P[Made(IO!BOB) + 1] # "bit" /\ P[Made(IO!BOB) + 1] # "down"
      BY <1>5, <3>2, StillAhead
    <3> QED
      BY <3>1, <3>2
  <2>2. \/ Made(IO!BOB)' = Made(IO!BOB)
        \/ /\ Made(IO!BOB)' = Made(IO!BOB) + 1
           /\ P[Made(IO!BOB) + 1] \in {"bit", "down"} => Made(IO!BOB) + 1 <= Made(IO!ALICE)
    OBVIOUS
  <2> QED
    BY <2>1, <2>2, InTurnBob
<1>9. BlocksFull'
  BY <1>1, <1>2, <1>4, FullAfter
<1>10. IO!StreamsOrdered'
  BY <1>2 DEF IO!StreamsOrdered
<1>11. AliceAt(H)'
  BY <1>2, <1>4, <1>5, AliceStays
<1>12. BobAt(H)'
  BY <1>4, <1>5, BobClean
<1> QED
  BY <1>2, <1>4, <1>7, <1>8, <1>9, <1>10, <1>11, <1>12 DEF IOInvOf

\* What flush() sends takes either end from where it is to the block cut short.
LEMMA StagedIs ==
  ASSUME Sizes, NEW P, NEW H, IOInvOf(P, H), NEW p \in IO!Party, ~Cutting(p),
         Made(p) < Len(P) => P[Made(p) + 1] # "bit"
  PROVE  /\ IO!Staged(p) \in Seq(Item) /\ Full(IO!Staged(p)) /\ log[p] \o IO!Staged(p) = CutLog(H[Made(p)])
         /\ IO!Staged(p) = << >> \/ Len(log[IO!Peer(p)]) <= Len(log[p])
         /\ p = IO!BOB => IO!Staged(p) = << >>
<1> PICK q : q = H[Made(p)]
  OBVIOUS
<1>1. q \in State /\ As(p, H) = q /\ Made(p) \in Nat
  BY Standing DEF IOInvOf
<1>2. q.log \in Seq(Item) /\ q.open \in Seq(Nat)
  BY <1>1 DEF State
<1>3. CASE p = IO!BOB
  <2>1. IO!Staged(p) = << >>
    BY <1>3 DEF IO!Staged, IO!ALICE, IO!BOB
  <2>2. log[IO!BOB] = CutLog(q)
    BY <1>3, BobCuts
  <2>3. log[IO!BOB] \o << >> = log[IO!BOB] /\ << >> \in Seq(Item)
    <3>1. log[IO!BOB] \in Seq(Item)
      BY Lengths
    <3> QED
      BY ONLY <3>1
  <2>4. Full(<< >>)
    BY DEF Full
  <2> QED
    BY <1>3, <2>1, <2>2, <2>3, <2>4
<1>4. CASE p = IO!ALICE
  <2>1. log[IO!ALICE] = q.log /\ stage[IO!ALICE] = q.open
    BY <1>1, <1>4 DEF IOInvOf, AliceAt
  <2>2. CASE q.open = << >>
    <3>1. IO!Staged(p) = << >>
      BY <1>4, <2>1, <2>2 DEF IO!Staged
    <3>2. CutLog(q) = q.log /\ q.log \o << >> = q.log /\ << >> \in Seq(Item)
      BY <1>2, <2>2 DEF CutLog
    <3>3. Full(<< >>) /\ IO!ALICE # IO!BOB
      BY DEF Full, IO!ALICE, IO!BOB
    <3> QED
      BY <1>4, <2>1, <3>1, <3>2, <3>3
  <2>3. CASE q.open # << >>
    <3> PICK x : x = Padded(q.open)
      OBVIOUS
    <3>1. IO!Staged(p) = <<x>>
      BY <1>4, <2>1, <2>3 DEF IO!Staged, Padded
    <3>2. x \in Item /\ x.kind = "bits" /\ Len(x.data) = STAGE
      BY <1>2, PaddedIs
    <3>3. q.log \o <<x>> = Append(q.log, x) /\ <<x>> \in Seq(Item) /\ Full(<<x>>)
      BY <1>2, <3>2 DEF Full
    <3>4. CutLog(q) = Append(q.log, x)
      BY <2>3 DEF CutLog
    <3>5. Len(log[IO!BOB]) <= Len(log[IO!ALICE])
      <4>1. Made(IO!BOB) < Made(IO!ALICE)
        BY <2>1, <2>3, Unstaged
      <4>2. Made(IO!BOB) \in Nat /\ Made(IO!ALICE) \in Nat
        BY Standing DEF IOInvOf, IO!Party
      <4>3. Made(IO!BOB) <= Made(IO!ALICE)
        BY <4>1, <4>2
      <4> QED
        BY <4>3, Order
    <3>6. IO!Peer(p) = IO!BOB /\ p # IO!BOB
      BY <1>4 DEF IO!Peer, IO!ALICE, IO!BOB
    <3> QED
      BY <1>4, <2>1, <3>1, <3>3, <3>4, <3>5, <3>6
  <2> QED
    BY <2>2, <2>3
<1> QED
  BY <1>3, <1>4 DEF IO!Party

LEMMA CutActs ==
  ASSUME Sizes, NEW P, NEW H, IOInvOf(P, H), NEW p \in IO!Party, ~Cutting(p),
         Made(p) < Len(P) => P[Made(p) + 1] # "bit",
         NEW t \in Seq(Item), Full(t), NEW items, items = IO!Staged(p) \o t, NEW upto \in Nat,
         upto <= Len(chan[p]) + Len(items), IO!Put(p, items, upto), IO!Unstage(p),
         t = << >> \/ Len(log[IO!Peer(p)]) <= Len(log[p]),
         NEW r \in State, r.log = CutLog(H[Made(p)]) \o t, r.open = << >>, got' = got,
         seeds' = [seeds EXCEPT ![p] = r.seeds],
         Control(P)', Made(IO!Peer(p))' = Made(IO!Peer(p)), As(IO!Peer(p), H)' = As(IO!Peer(p), H), As(p, H)' = r,
         \/ Made(p)' = Made(p)
         \/ /\ Made(p)' = Made(p) + 1 /\ Made(p) < Len(P)
            /\ P[Made(p) + 1] # (IF p = IO!ALICE THEN "up" ELSE "down")
  PROVE  IOInvOf(P, H)'
<1> PICK s : s = IO!Staged(p)
  OBVIOUS
<1>1. /\ s \in Seq(Item) /\ Full(s) /\ log[p] \o s = CutLog(H[Made(p)])
      /\ s = << >> \/ Len(log[IO!Peer(p)]) <= Len(log[p])
      /\ p = IO!BOB => s = << >>
  BY StagedIs
<1>2. items \in Seq(Item) /\ Full(items) /\ log[p] \o items = r.log
  <2>1. items = s \o t
    OBVIOUS
  <2>2. items \in Seq(Item)
    BY ONLY <1>1, <2>1, t \in Seq(Item)
  <2>3. Full(items)
    BY ONLY <1>1, <2>1, t \in Seq(Item), Full(t), FullGrows
  <2>4. log[p] \in Seq(Item)
    BY DEF IOInvOf, Types, Shapes
  <2> PICK l : l = log[p]
    OBVIOUS
  <2>5. l \o (s \o t) = (l \o s) \o t
    <3>1. l \in Seq(Item) /\ s \in Seq(Item)
      BY <1>1, <2>4
    <3> QED
      BY ONLY <3>1, t \in Seq(Item), ConcatAssociative
  <2> QED
    BY <1>1, <2>1, <2>2, <2>3, <2>5
<1>3. items = << >> \/ Len(log[IO!Peer(p)]) <= Len(log[p])
  <2>1. s = << >> /\ t = << >> => items = << >>
    OBVIOUS
  <2> QED
    BY <1>1, <2>1
<1>4. Shapes
  BY DEF IOInvOf, Types
<1>5. /\ visible' \in [IO!Party -> Nat] /\ \A q \in IO!Party : visible'[q] <= Len(chan'[q])
  BY <1>2, <1>4, PutShapes
<1>6. /\ chan' = [chan EXCEPT ![p] = @ \o items] /\ log' = [log EXCEPT ![p] = @ \o items]
      /\ stage' = [stage EXCEPT ![p] = << >>]
  BY DEF IO!Put, IO!Unstage
<1>7. CASE p = IO!ALICE
  <2>1. IO!Peer(p) = IO!BOB
    BY <1>7 DEF IO!Peer
  <2>2. \/ Made(IO!ALICE)' = Made(IO!ALICE)
        \/ Made(IO!ALICE)' = Made(IO!ALICE) + 1 /\ P[Made(IO!ALICE) + 1] # "up"
    BY <1>7
  <2>3. /\ chan' = [chan EXCEPT ![IO!ALICE] = @ \o items] /\ log' = [log EXCEPT ![IO!ALICE] = @ \o items]
        /\ stage' = [stage EXCEPT ![IO!ALICE] = r.open] /\ r.log = log[IO!ALICE] \o items
        /\ items = << >> \/ Len(log[IO!BOB]) <= Len(log[IO!ALICE])
        /\ Made(IO!BOB)' = Made(IO!BOB) /\ As(IO!BOB, H)' = As(IO!BOB, H) /\ As(IO!ALICE, H)' = r
        /\ seeds' = [seeds EXCEPT ![IO!ALICE] = r.seeds]
    BY <1>2, <1>3, <1>6, <1>7, <2>1
  <2>4. r.open # << >> => Made(IO!BOB) < r.open[1]
    OBVIOUS
  <2> QED
    BY ONLY Sizes, IOInvOf(P, H), <1>2, <1>5, <2>2, <2>3, <2>4, r \in State, Control(P)', got' = got, AliceActs
<1>8. CASE p = IO!BOB
  <2>1. IO!Peer(p) = IO!ALICE /\ p # IO!ALICE
    BY <1>8 DEF IO!Peer, IO!ALICE, IO!BOB
  <2>2. \/ Made(IO!BOB)' = Made(IO!BOB)
        \/ /\ Made(IO!BOB)' = Made(IO!BOB) + 1 /\ Made(IO!BOB) < Len(P)
           /\ P[Made(IO!BOB) + 1] # "bit" /\ P[Made(IO!BOB) + 1] # "down"
    BY <1>8, <2>1
  <2>3. /\ chan' = [chan EXCEPT ![IO!BOB] = @ \o items] /\ log' = [log EXCEPT ![IO!BOB] = @ \o items]
        /\ stage' = [stage EXCEPT ![IO!BOB] = << >>] /\ r.log = log[IO!BOB] \o items
        /\ items = << >> \/ Len(log[IO!ALICE]) <= Len(log[IO!BOB])
        /\ Made(IO!ALICE)' = Made(IO!ALICE) /\ As(IO!ALICE, H)' = As(IO!ALICE, H) /\ As(IO!BOB, H)' = r
        /\ seeds' = [seeds EXCEPT ![IO!BOB] = r.seeds]
    BY <1>2, <1>3, <1>6, <1>8, <2>1
  <2> QED
    BY ONLY Sizes, IOInvOf(P, H), <1>2, <1>5, <2>2, <2>3, r \in State, r.open = << >>, Control(P)', got' = got,
       BobActs
<1> QED
  BY <1>7, <1>8 DEF IO!Party

\* What is known when a party makes a call that cuts its block.
LEMMA Here ==
  ASSUME Sizes, NEW P, NEW H, IOInvOf(P, H), NEW p \in IO!Party, ~flushed[p], at[p] <= MaxCalls + 1
  PROVE  /\ ~Cutting(p) /\ H[Made(p)] \in State /\ seeds[p] = H[Made(p)].seeds
         /\ seeds \in [IO!Party -> Seq(Seq(Item))] /\ flushed \in [IO!Party -> BOOLEAN] /\ Control(P)
         /\ Made(p) = at[p] - 1 /\ at[p] \in Nat /\ Made(p) \in Nat
         /\ chan[p] \in Seq(Item) /\ P \in Seq(IO!Call)
<1>1. at[p] \in 1 .. MaxCalls + 2 /\ MaxCalls \in Nat
  BY DEF IOInvOf, Types, Control, Sizes
<1>2. at[p] # MaxCalls + 2 /\ at[p] \in Nat
  BY <1>1
<1>3. ~Cutting(p) /\ Made(p) = at[p] - 1
  BY <1>2 DEF Cutting, Made
<1>4. H[Made(p)] \in State /\ As(p, H) = H[Made(p)] /\ Made(p) \in Nat
  BY <1>3, Standing DEF IOInvOf
<1>5. seeds[p] = As(p, H).seeds
  <2>1. seeds[IO!ALICE] = As(IO!ALICE, H).seeds /\ seeds[IO!BOB] = As(IO!BOB, H).seeds
    BY DEF IOInvOf, AliceAt, BobAt
  <2> QED
    BY <2>1 DEF IO!Party
<1>6. seeds \in [IO!Party -> Seq(Seq(Item))] /\ flushed \in [IO!Party -> BOOLEAN] /\ chan[p] \in Seq(Item)
      /\ P \in Seq(IO!Call) /\ Control(P)
  BY DEF IOInvOf, Types, Shapes, Control
<1> QED
  BY <1>2, <1>3, <1>4, <1>5, <1>6

LEMMA SameSeeds ==
  ASSUME NEW S, NEW f \in [IO!Party -> S], NEW p \in IO!Party
  PROVE  f = [f EXCEPT ![p] = f[p]]
OBVIOUS

LEMMA StepSendData ==
  ASSUME Sizes, NEW p \in IO!Party, NEW c, c = (IF p = IO!ALICE THEN "down" ELSE "up"), IOInv, IO!SendData(p, c)
  PROVE  IOInv'
<1>1. c \in IO!Call /\ c # (IF p = IO!ALICE THEN "up" ELSE "down") /\ c # "bit" /\ c \in {"down", "up"}
  BY DEF IO!Call
<1>2. PICK H : /\ IOInvOf(prog', H) /\ at[p] <= Len(prog') /\ prog'[at[p]] = c /\ at[p] <= MaxCalls
               /\ at[p] = Made(p) + 1 /\ at[p] \in Nat /\ ~flushed[p]
  BY <1>1, Chosen DEF IO!SendData
<1> PICK P : P = prog'
  OBVIOUS
<1> PICK m, q, r : m = Made(p) /\ q = H[m] /\ r = H[m + 1]
  OBVIOUS
<1>3. IOInvOf(P, H) /\ at[p] <= Len(P) /\ P[m + 1] = c /\ at[p] = m + 1
  BY <1>2
<1>4. /\ ~Cutting(p) /\ q \in State /\ seeds[p] = q.seeds /\ seeds \in [IO!Party -> Seq(Seq(Item))]
      /\ flushed \in [IO!Party -> BOOLEAN] /\ Control(P) /\ m \in Nat /\ chan[p] \in Seq(Item) /\ P \in Seq(IO!Call)
  <2>1. at[p] <= MaxCalls + 1
    BY <1>2 DEF Sizes
  <2> QED
    BY <1>2, <1>3, <2>1, Here
<1>5. m < Len(P) /\ m \in 0 .. Len(P) - 1 /\ m + 1 \in 0 .. Len(P)
  BY <1>3, <1>4
<1>6. /\ Control(P)' /\ Made(p)' = m + 1 /\ Made(IO!Peer(p))' = Made(IO!Peer(p))
      /\ As(p, H)' = r /\ As(IO!Peer(p), H)' = As(IO!Peer(p), H)
  <2>1. IO!Done(p) /\ flushed' = flushed
    BY DEF IO!SendData
  <2> QED
    BY <1>2, <1>3, <1>4, <2>1, Stepped
<1>7. r = Succ(q, c, m + 1) /\ StateOK(r, P, m + 1) /\ r \in State
  <2>1. r = Succ(q, P[m + 1], m + 1) /\ StateOK(r, P, m + 1)
    BY <1>3, <1>5 DEF IOInvOf, Path
  <2> QED
    BY <1>3, <2>1 DEF StateOK
<1> PICK x : x = IO!Bytes(m + 1)
  OBVIOUS
<1>8. x \in Item /\ x.kind = "bytes"
  BY <1>4, BytesIs
<1>9. r = [log |-> Append(CutLog(q), x), open |-> << >>, seeds |-> q.seeds]
  BY <1>1, <1>7 DEF Succ, BytesOf
<1>10. r.log = Append(CutLog(q), x) /\ r.open = << >> /\ r.seeds = q.seeds
  BY ONLY <1>9
<1>11. r.log = CutLog(q) \o <<x>> /\ <<x>> \in Seq(Item) /\ Full(<<x>>)
  <2>1. CutLog(q) \in Seq(Item)
    BY <1>4, CutIs
  <2>2. Full(<<x>>)
    BY <1>8 DEF Full
  <2> QED
    BY <1>8, <1>10, <2>1, <2>2
<1> PICK items, upto : /\ items = IO!Staged(p) \o <<x>>
                       /\ upto = IF p = IO!BOB \/ stage[p] # << >> THEN Len(chan[p]) + 1 ELSE 0
  OBVIOUS
<1>12. IO!Put(p, items, upto) /\ IO!Unstage(p) /\ got' = got /\ seeds' = [seeds EXCEPT ![p] = r.seeds]
  <2>1. IO!Put(p, items, upto) /\ IO!Unstage(p) /\ got' = got /\ seeds' = seeds
    BY <1>3 DEF IO!SendData
  <2>2. seeds = [seeds EXCEPT ![p] = r.seeds]
    BY <1>4, <1>10, SameSeeds
  <2> QED
    BY <2>1, <2>2
<1>13. upto \in Nat /\ upto <= Len(chan[p]) + Len(items)
  <2>1. IO!Staged(p) \in Seq(Item)
    BY <1>1, <1>3, <1>4, StagedIs
  <2>2. Len(items) \in Nat /\ Len(items) >= 1
    <3>1. Len(items) = Len(IO!Staged(p)) + 1
      BY <1>11, <2>1
    <3> QED
      BY <2>1, <3>1
  <2>3. Len(chan[p]) \in Nat
    BY <1>4
  <2>4. upto = 0 \/ upto = Len(chan[p]) + 1
    OBVIOUS
  <2> QED
    BY ONLY <2>2, <2>3, <2>4
<1>14. Len(log[IO!Peer(p)]) <= Len(log[p])
  <2>1. Made(IO!Peer(p)) <= Made(p)
    <3>1. m + 1 \in 1 .. Len(P)
      BY <1>4, <1>5
    <3>2. IO!Peer(p) \in IO!Party /\ Made(IO!Peer(p)) \in Nat
      <4>1. IO!Peer(p) \in IO!Party
        BY DEF IO!Peer, IO!Party
      <4> QED
        BY <1>3, <4>1, Standing DEF IOInvOf
    <3>3. ~(m + 1 <= Made(p))
      BY <1>4
    <3>4. ~(m + 1 <= Made(IO!Peer(p)))
      <4>1. CASE p = IO!ALICE
        BY <1>3, <3>1, <3>3, <4>1 DEF IOInvOf, InTurn, IO!Peer
      <4>2. CASE p = IO!BOB
        <5>1. p # IO!ALICE
          BY <4>2 DEF IO!ALICE, IO!BOB
        <5> QED
          BY <1>3, <3>1, <3>3, <4>2, <5>1 DEF IOInvOf, InTurn, IO!Peer
      <4> QED
        BY <4>1, <4>2 DEF IO!Party
    <3> QED
      BY <1>4, <3>2, <3>4
  <2>2. /\ Made(IO!ALICE) <= Made(IO!BOB) => Len(log[IO!ALICE]) <= Len(log[IO!BOB])
        /\ Made(IO!BOB) <= Made(IO!ALICE) => Len(log[IO!BOB]) <= Len(log[IO!ALICE])
    BY <1>3, Order
  <2> QED
    BY <2>1, <2>2 DEF IO!Party, IO!Peer, IO!ALICE, IO!BOB
<1>15. P[Made(p) + 1] # "bit" /\ P[Made(p) + 1] # (IF p = IO!ALICE THEN "up" ELSE "down")
  BY <1>1, <1>3
<1>16. IOInvOf(P, H)'
  BY <1>3, <1>4, <1>5, <1>6, <1>7, <1>10, <1>11, <1>12, <1>13, <1>14, <1>15, CutActs
<1> QED
  BY <1>16, Landed

\* A step that only cuts the block, the last one or one that comes before a call.
LEMMA CutOnly ==
  ASSUME Sizes, NEW P, NEW H, IOInvOf(P, H), NEW p \in IO!Party, ~Cutting(p),
         Made(p) < Len(P) => P[Made(p) + 1] # "bit", IO!FlushAll(p),
         NEW r \in State, r.log = CutLog(H[Made(p)]), r.open = << >>, got' = got,
         seeds' = [seeds EXCEPT ![p] = r.seeds],
         Control(P)', Made(IO!Peer(p))' = Made(IO!Peer(p)), As(IO!Peer(p), H)' = As(IO!Peer(p), H), As(p, H)' = r,
         \/ Made(p)' = Made(p)
         \/ /\ Made(p)' = Made(p) + 1 /\ Made(p) < Len(P)
            /\ P[Made(p) + 1] # (IF p = IO!ALICE THEN "up" ELSE "down")
  PROVE  IOInvOf(P, H)' /\ log'[p] = CutLog(H[Made(p)])
<1> PICK s, t, items, upto : /\ s = IO!Staged(p) /\ t = << >> /\ items = s \o t
                             /\ upto = Len(chan[p]) + Len(IO!Staged(p))
  OBVIOUS
<1>1. s \in Seq(Item) /\ t \in Seq(Item) /\ Full(t) /\ log[p] \o s = CutLog(H[Made(p)])
  <2>1. Full(t)
    BY ONLY t = << >> DEF Full
  <2>2. t \in Seq(Item)
    BY ONLY t = << >>
  <2>3. IO!Staged(p) \in Seq(Item) /\ log[p] \o IO!Staged(p) = CutLog(H[Made(p)])
    BY StagedIs
  <2> QED
    BY ONLY <2>1, <2>2, <2>3, s = IO!Staged(p)
<1>2. items = s
  BY ONLY <1>1, items = s \o t, t = << >>
<1>3. upto \in Nat /\ upto <= Len(chan[p]) + Len(items)
  <2>1. chan[p] \in Seq(Item)
    BY DEF IOInvOf, Types, Shapes
  <2>2. Len(chan[p]) \in Nat /\ Len(s) \in Nat
    BY ONLY <1>1, <2>1
  <2>3. upto = Len(chan[p]) + Len(s)
    OBVIOUS
  <2> QED
    BY ONLY <1>2, <2>2, <2>3
<1>4. IO!Put(p, items, upto) /\ IO!Unstage(p)
  BY <1>2 DEF IO!FlushAll
<1>5. r.log = CutLog(H[Made(p)]) \o t
  <2>1. r.log \in Seq(Item)
    BY DEF State
  <2>2. r.log \o t = r.log
    BY ONLY <2>1, t = << >>
  <2> QED
    BY <2>2
<1>6. IOInvOf(P, H)'
  BY <1>1, <1>3, <1>4, <1>5, CutActs
<1>7. log'[p] = log[p] \o items
  <2>1. log \in [IO!Party -> Seq(Item)] /\ log' = [log EXCEPT ![p] = @ \o items]
    BY <1>4 DEF IO!Put, IOInvOf, Types, Shapes
  <2> QED
    BY ONLY <2>1, p \in IO!Party
<1> QED
  BY <1>1, <1>2, <1>6, <1>7

\* The call that is not a bit and receives nothing.
LEMMA CallMade ==
  ASSUME Sizes, NEW p \in IO!Party, NEW c \in {"flush", "challenge"}, IOInv, IO!Calls(p, c), IO!FlushAll(p), IO!Done(p),
         flushed' = flushed, got' = got,
         seeds' = IF c = "flush" THEN seeds ELSE [seeds EXCEPT ![p] = Append(@, log'[p])]
  PROVE  IOInv'
<1>1. c \in IO!Call /\ c # (IF p = IO!ALICE THEN "up" ELSE "down") /\ c # "bit"
  BY DEF IO!Call
<1>2. PICK H : /\ IOInvOf(prog', H) /\ at[p] <= Len(prog') /\ prog'[at[p]] = c /\ at[p] <= MaxCalls
               /\ at[p] = Made(p) + 1 /\ at[p] \in Nat /\ ~flushed[p]
  BY <1>1, Chosen
<1> PICK P : P = prog'
  OBVIOUS
<1> PICK m, q, r : m = Made(p) /\ q = H[m] /\ r = H[m + 1]
  OBVIOUS
<1>3. IOInvOf(P, H) /\ at[p] <= Len(P) /\ P[m + 1] = c /\ at[p] = m + 1
  BY <1>2
<1>4. /\ ~Cutting(p) /\ q \in State /\ seeds[p] = q.seeds /\ seeds \in [IO!Party -> Seq(Seq(Item))]
      /\ flushed \in [IO!Party -> BOOLEAN] /\ Control(P) /\ m \in Nat /\ chan[p] \in Seq(Item) /\ P \in Seq(IO!Call)
  <2>1. at[p] <= MaxCalls + 1
    BY <1>2 DEF Sizes
  <2> QED
    BY <1>2, <1>3, <2>1, Here
<1>5. m < Len(P) /\ m \in 0 .. Len(P) - 1 /\ m + 1 \in 0 .. Len(P)
  BY <1>3, <1>4
<1>6. /\ Control(P)' /\ Made(p)' = m + 1 /\ Made(IO!Peer(p))' = Made(IO!Peer(p))
      /\ As(p, H)' = r /\ As(IO!Peer(p), H)' = As(IO!Peer(p), H)
  BY <1>2, <1>3, <1>4, Stepped
<1>7. r = Succ(q, c, m + 1) /\ StateOK(r, P, m + 1) /\ r \in State
  <2>1. r = Succ(q, P[m + 1], m + 1) /\ StateOK(r, P, m + 1)
    BY <1>3, <1>5 DEF IOInvOf, Path
  <2> QED
    BY <1>3, <2>1 DEF StateOK
<1>8. log'[p] = CutLog(q)
  <2>1. /\ IO!Staged(p) \in Seq(Item) /\ log[p] \o IO!Staged(p) = CutLog(q)
    BY <1>1, <1>3, <1>4, StagedIs
  <2>2. log \in [IO!Party -> Seq(Item)] /\ log' = [log EXCEPT ![p] = @ \o IO!Staged(p)]
    BY <1>3 DEF IO!FlushAll, IO!Put, IOInvOf, Types, Shapes
  <2>3. log'[p] = log[p] \o IO!Staged(p)
    BY ONLY <2>2, p \in IO!Party
  <2> QED
    BY <2>1, <2>3
<1>9. r.log = CutLog(q) /\ r.open = << >> /\ seeds' = [seeds EXCEPT ![p] = r.seeds]
  <2>1. CASE c = "flush"
    <3>1. r = Cut(q)
      BY ONLY <1>7, <2>1 DEF Succ
    <3>2. r.log = CutLog(q) /\ r.open = << >> /\ r.seeds = q.seeds
      BY ONLY <3>1 DEF Cut
    <3>3. seeds = [seeds EXCEPT ![p] = r.seeds]
      BY <1>4, <3>2, SameSeeds
    <3> QED
      BY <2>1, <3>2, <3>3
  <2>2. CASE c = "challenge"
    <3>1. r = [log |-> CutLog(q), open |-> << >>, seeds |-> Append(q.seeds, CutLog(q))]
      BY ONLY <1>7, <2>2 DEF Succ, ChallengeOf
    <3>2. r.log = CutLog(q) /\ r.open = << >> /\ r.seeds = Append(q.seeds, CutLog(q))
      BY ONLY <3>1
    <3>3. seeds' = [seeds EXCEPT ![p] = Append(seeds[p], CutLog(q))]
      BY <1>8, <2>2
    <3> QED
      BY <1>4, <3>2, <3>3
  <2> QED
    BY <2>1, <2>2
<1>10. /\ P[Made(p) + 1] # "bit" /\ P[Made(p) + 1] # (IF p = IO!ALICE THEN "up" ELSE "down")
       /\ r.log = CutLog(H[Made(p)])
  BY <1>1, <1>3, <1>9
<1>11. IOInvOf(P, H)'
  BY <1>3, <1>4, <1>5, <1>6, <1>7, <1>9, <1>10, CutOnly
<1> QED
  BY <1>11, Landed

LEMMA StepFlush ==
  ASSUME Sizes, NEW p \in IO!Party, IOInv, IO!Flush(p)
  PROVE  IOInv'
<1>1. /\ IO!Calls(p, "flush") /\ IO!FlushAll(p) /\ IO!Done(p) /\ flushed' = flushed /\ got' = got
      /\ seeds' = IF "flush" = "flush" THEN seeds ELSE [seeds EXCEPT ![p] = Append(@, log'[p])]
  BY DEF IO!Flush
<1> QED
  BY <1>1, CallMade

LEMMA StepChallenge ==
  ASSUME Sizes, NEW p \in IO!Party, IOInv, IO!Challenge(p)
  PROVE  IOInv'
<1>1. /\ IO!Calls(p, "challenge") /\ IO!FlushAll(p) /\ IO!Done(p) /\ flushed' = flushed /\ got' = got
      /\ seeds' = IF "challenge" = "flush" THEN seeds ELSE [seeds EXCEPT ![p] = Append(@, log'[p])]
  BY DEF IO!Challenge
<1> QED
  BY <1>1, CallMade

LEMMA StepBeforeRecvData ==
  ASSUME Sizes, NEW p \in IO!Party, NEW c, c = (IF p = IO!ALICE THEN "up" ELSE "down"), IOInv, IO!BeforeRecvData(p, c)
  PROVE  IOInv'
<1>1. c \in IO!Call /\ c # "bit"
  BY DEF IO!Call
<1>2. ~flushed[p] /\ IO!Calls(p, c)
  BY DEF IO!BeforeRecvData
<1>3. PICK H : /\ IOInvOf(prog', H) /\ at[p] <= Len(prog') /\ prog'[at[p]] = c /\ at[p] <= MaxCalls
               /\ at[p] = Made(p) + 1 /\ at[p] \in Nat
  BY <1>1, <1>2, Chosen
<1> PICK P : P = prog'
  OBVIOUS
<1> PICK m, q, r : m = Made(p) /\ q = H[m] /\ r = Cut(q)
  OBVIOUS
<1>4. IOInvOf(P, H) /\ at[p] <= Len(P) /\ P[at[p]] = c /\ P[m + 1] = c
  BY <1>3
<1>5. /\ ~Cutting(p) /\ q \in State /\ seeds[p] = q.seeds /\ seeds \in [IO!Party -> Seq(Seq(Item))] /\ Control(P)
  <2>1. at[p] <= MaxCalls + 1
    BY <1>3 DEF Sizes
  <2> QED
    BY <1>2, <1>3, <1>4, <2>1, Here
<1>6. /\ Control(P)' /\ Made(p)' = Made(p) /\ Made(IO!Peer(p))' = Made(IO!Peer(p))
      /\ As(p, H)' = r /\ As(IO!Peer(p), H)' = As(IO!Peer(p), H)
  <2>1. flushed' = [flushed EXCEPT ![p] = TRUE] /\ at' = at
    BY DEF IO!BeforeRecvData
  <2>2. P[at[p]] = (IF p = IO!ALICE THEN "up" ELSE "down")
    BY <1>4
  <2> QED
    BY <1>4, <1>5, <2>1, <2>2, Waits
<1>7. r \in State /\ r.log = CutLog(q) /\ r.open = << >> /\ r.seeds = q.seeds
  BY <1>5, CutIs
<1>8. got' = got /\ seeds' = [seeds EXCEPT ![p] = r.seeds] /\ IO!FlushAll(p)
  <2>1. seeds = [seeds EXCEPT ![p] = r.seeds]
    BY <1>5, <1>7, SameSeeds
  <2> QED
    BY <2>1 DEF IO!BeforeRecvData
<1>9. P[Made(p) + 1] # "bit" /\ r.log = CutLog(H[Made(p)])
  BY <1>1, <1>4, <1>7
<1>10. IOInvOf(P, H)'
  BY <1>4, <1>5, <1>6, <1>7, <1>8, <1>9, CutOnly
<1> QED
  BY <1>10, Landed

LEMMA StepClose ==
  ASSUME Sizes, NEW p \in IO!Party, IOInv, IO!Close(p)
  PROVE  IOInv'
<1>1. PICK H : IOInvOf(prog, H)
  BY DEF IOInv
<1>2. at[p] = MaxCalls + 1 /\ IO!Done(p) /\ flushed' = flushed /\ IO!FlushAll(p) /\ prog' = prog /\ got' = got /\ seeds' = seeds
  BY DEF IO!Close
<1> PICK P : P = prog
  OBVIOUS
<1> PICK m, q, r : m = Made(p) /\ q = H[m] /\ r = Cut(q)
  OBVIOUS
<1>3. IOInvOf(P, H)
  BY <1>1
<1>4. ~flushed[p] /\ MaxCalls \in Nat /\ Len(P) <= MaxCalls /\ Len(P) \in Nat
  <2>1. MaxCalls \in Nat /\ Len(P) <= MaxCalls /\ Len(P) \in Nat /\ (flushed[p] => at[p] <= Len(P))
    BY <1>3 DEF IOInvOf, Types, Control, Sizes
  <2> QED
    BY <1>2, <2>1
<1>5. /\ ~Cutting(p) /\ q \in State /\ seeds[p] = q.seeds /\ seeds \in [IO!Party -> Seq(Seq(Item))] /\ Control(P)
      /\ m = at[p] - 1
  <2>1. at[p] <= MaxCalls + 1
    BY <1>2, <1>4
  <2> QED
    BY <1>3, <1>4, <2>1, Here
<1>6. /\ Control(P)' /\ Made(p)' = Made(p) /\ Made(IO!Peer(p))' = Made(IO!Peer(p))
      /\ As(p, H)' = r /\ As(IO!Peer(p), H)' = As(IO!Peer(p), H)
  BY <1>2, <1>5, Waits
<1>7. r \in State /\ r.log = CutLog(q) /\ r.open = << >> /\ r.seeds = q.seeds
  BY <1>5, CutIs
<1>8. seeds' = [seeds EXCEPT ![p] = r.seeds]
  BY <1>2, <1>5, <1>7, SameSeeds
<1>9. Made(p) < Len(P) => P[Made(p) + 1] # "bit"
  BY <1>2, <1>4, <1>5
<1>10. IOInvOf(P, H)'
  <2>1. r.log = CutLog(H[Made(p)])
    BY <1>7
  <2> QED
    BY <1>2, <1>3, <1>5, <1>6, <1>7, <1>8, <1>9, <2>1, CutOnly
<1>11. P = prog'
  BY <1>2
<1> QED
  BY <1>10, <1>11, Landed

LEMMA StepSpontaneousWrite ==
  ASSUME Sizes, NEW p \in IO!Party, IOInv, IO!SpontaneousWrite(p)
  PROVE  IOInv'
<1>1. PICK H : IOInvOf(prog, H)
  BY DEF IOInv
<1>2. /\ visible[p] < Len(chan[p]) /\ visible' = [visible EXCEPT ![p] = @ + 1]
      /\ UNCHANGED <<prog, at, flushed, stage, chan, got, log, seeds>>
  BY DEF IO!SpontaneousWrite
<1>3. Shapes
  BY <1>1 DEF IOInvOf, Types
<1>4. visible' \in [IO!Party -> Nat] /\ \A q \in IO!Party : visible'[q] <= Len(chan'[q])
  <2>1. visible \in [IO!Party -> Nat] /\ \A q \in IO!Party : visible[q] <= Len(chan[q]) /\ Len(chan[q]) \in Nat
    BY <1>3 DEF Shapes
  <2>2. visible[p] + 1 \in Nat /\ visible[p] + 1 <= Len(chan[p])
    BY <1>2, <2>1
  <2>3. visible' \in [IO!Party -> Nat]
    BY <1>2, <2>1
  <2>4. ASSUME NEW q \in IO!Party PROVE visible'[q] <= Len(chan[q])
    BY <1>2, <2>1, <2>2
  <2> QED
    BY <1>2, <2>3, <2>4
<1>5. Shapes'
  BY <1>2, <1>3, <1>4 DEF Shapes
<1> PICK P : P = prog
  OBVIOUS
<1>6. Control(P)' /\ UnderWay' /\ InTurn(P)' /\ BlocksFull' /\ IO!StreamsOrdered'
  <2>1. Control(P)'
    BY <1>1, <1>2 DEF IOInvOf, Types, Control, Made
  <2>2. UnderWay'
    BY <1>1, <1>2 DEF IOInvOf, UnderWay, Carries
  <2>3. InTurn(P)'
    BY <1>1, <1>2 DEF IOInvOf, InTurn, Made
  <2>4. BlocksFull' /\ IO!StreamsOrdered'
    BY <1>1, <1>2 DEF IOInvOf, BlocksFull, IO!StreamsOrdered, Full
  <2> QED
    BY <2>1, <2>2, <2>3, <2>4
<1>7. As(IO!ALICE, H)' = As(IO!ALICE, H) /\ As(IO!BOB, H)' = As(IO!BOB, H)
  BY <1>2 DEF As, Cutting, Made
<1>8. AliceAt(H)'
  BY <1>1, <1>2, <1>7 DEF IOInvOf, AliceAt
<1>9. BobAt(H)'
  BY <1>1, <1>2, <1>7 DEF IOInvOf, BobAt
<1>10. IOInvOf(P, H)'
  BY <1>1, <1>5, <1>6, <1>8, <1>9 DEF IOInvOf, Types
<1>11. P = prog'
  BY <1>2
<1> QED
  BY <1>10, <1>11, Landed

\* What has been received is what the machine says the call sent.
LEMMA Arrived ==
  ASSUME Sizes, NEW P, NEW H, IOInvOf(P, H), NEW p \in IO!Party, NEW o, o = IO!Peer(p), Made(p) < Made(o),
         NEW l \in Seq(Item), NEW x \in Item, H[Made(p) + 1].log = Append(l, x)
  PROVE  log[o][Len(l) + 1] = x
<1> PICK m, n, r, s : m = Made(p) /\ n = Made(o) /\ r = H[m + 1] /\ s = As(o, H).log
  OBVIOUS
<1>1. o \in IO!Party
  BY DEF IO!Peer, IO!Party
<1>2. m \in Nat /\ n \in Nat /\ m < n /\ \A j \in 0 .. n : Leads(j, H[j], As(o, H))
  BY <1>1, Standing DEF IOInvOf
<1>3. m + 1 \in 0 .. n
  BY ONLY <1>2
<1>4. Begins(r.log, s)
  BY <1>2, <1>3 DEF Leads
<1>5. Begins(s, log[o])
  <2>1. log[IO!ALICE] \in Seq(Item) /\ log[IO!ALICE] = As(IO!ALICE, H).log /\ Begins(As(IO!BOB, H).log, log[IO!BOB])
    BY Lengths
  <2>2. Begins(log[IO!ALICE], log[IO!ALICE])
    <3>1. Len(log[IO!ALICE]) \in Nat
      BY ONLY <2>1
    <3> QED
      BY ONLY <3>1 DEF Begins
  <2>3. CASE o = IO!ALICE
    BY <2>1, <2>2, <2>3
  <2>4. CASE o = IO!BOB
    BY <2>1, <2>4
  <2> QED
    BY <1>1, <2>3, <2>4 DEF IO!Party
<1>6. s \in Seq(Item) /\ log[o] \in Seq(Item)
  <2>1. As(o, H) \in State
    BY <1>1, Standing DEF IOInvOf
  <2> QED
    BY <1>1, <2>1 DEF State, IOInvOf, Types, Shapes
<1> PICK t, u : t = r.log /\ u = log[o]
  OBVIOUS
<1>7. t = Append(l, x) /\ Begins(t, s) /\ Begins(s, u) /\ u \in Seq(Item)
  BY <1>4, <1>5, <1>6
<1>8. t \in Seq(Item) /\ Len(t) = Len(l) + 1 /\ t[Len(l) + 1] = x /\ Len(l) \in Nat
  BY ONLY <1>7, l \in Seq(Item), x \in Item
<1>9. Begins(t, u)
  BY ONLY <1>6, <1>7, <1>8, BeginsTrans
<1>10. u[Len(l) + 1] = t[Len(l) + 1]
  BY ONLY <1>8, <1>9 DEF Begins
<1> QED
  BY <1>8, <1>10

LEMMA StepRecvData ==
  ASSUME Sizes, NEW p \in IO!Party, NEW c, c = (IF p = IO!ALICE THEN "up" ELSE "down"), IOInv, IO!RecvData(p, c)
  PROVE  IOInv'
<1>1. c \in IO!Call /\ c # "bit" /\ c \in {"down", "up"}
  BY DEF IO!Call
<1>2. /\ flushed[p] /\ IO!Calls(p, c) /\ IO!Get(p) /\ IO!Received(p, Head(Head(chan[IO!Peer(p)]).data)) /\ IO!Done(p)
      /\ flushed' = [flushed EXCEPT ![p] = FALSE] /\ stage' = stage /\ seeds' = seeds
  BY DEF IO!RecvData
<1>3. PICK H : /\ IOInvOf(prog', H) /\ at[p] <= Len(prog') /\ prog'[at[p]] = c /\ at[p] <= MaxCalls
               /\ at[p] = Made(p) + 1 /\ at[p] \in Nat
  BY <1>1, <1>2, Chosen
<1> PICK P : P = prog'
  OBVIOUS
<1> PICK m, o, n, q, r : m = Made(p) /\ o = IO!Peer(p) /\ n = Made(o) /\ q = H[m] /\ r = H[m + 1]
  OBVIOUS
<1>4. IOInvOf(P, H) /\ at[p] <= Len(P) /\ P[m + 1] = c /\ at[p] = m + 1
  BY <1>3
<1>5. o \in IO!Party /\ o # p /\ IO!Party = {o, p} /\ IO!Peer(o) = p
  BY DEF IO!Party, IO!Peer, IO!ALICE, IO!BOB
<1>6. /\ m \in Nat /\ n \in Nat /\ q \in State /\ As(p, H) = Cut(q) /\ P \in Seq(IO!Call) /\ Len(P) \in Nat
  <2>1. Cutting(p)
    BY <1>2 DEF Cutting
  <2> QED
    BY <1>4, <1>5, <2>1, Standing DEF IOInvOf
<1>7. m < Len(P) /\ m \in 0 .. Len(P) - 1 /\ m + 1 \in 0 .. Len(P)
  BY <1>4, <1>6
<1>8. /\ CutLog(q) \in Seq(Item) /\ Cut(q).log = CutLog(q) /\ Cut(q).open = << >> /\ Cut(q).seeds = q.seeds
  BY <1>6, CutIs
<1>9. log[p] = CutLog(q) /\ stage[p] = << >> /\ seeds[p] = q.seeds
  <2>1. CASE p = IO!ALICE
    BY <1>4, <1>6, <1>8, <2>1 DEF IOInvOf, AliceAt
  <2>2. CASE p = IO!BOB
    BY <1>4, <1>6, <1>8, <2>2 DEF IOInvOf, BobAt
  <2> QED
    BY <2>1, <2>2 DEF IO!Party
<1>10. /\ Control(P)' /\ Made(p)' = m + 1 /\ Made(o)' = n /\ As(p, H)' = r /\ As(o, H)' = As(o, H)
  <2>1. Control(P) /\ flushed \in [IO!Party -> BOOLEAN]
    BY <1>4 DEF IOInvOf, Types, Control
  <2>2. flushed' \in [IO!Party -> BOOLEAN] /\ ~flushed'[p] /\ flushed'[o] = flushed[o]
    BY ONLY <1>2, <1>5, <2>1
  <2>3. flushed'[IO!Peer(p)] = flushed[IO!Peer(p)]
    BY <2>2
  <2>4. /\ Control(P)' /\ Made(p)' = Made(p) + 1 /\ Made(IO!Peer(p))' = Made(IO!Peer(p))
        /\ As(p, H)' = H[Made(p) + 1] /\ As(IO!Peer(p), H)' = As(IO!Peer(p), H)
    <3>1. IO!Done(p) /\ at[p] <= Len(P) /\ Control(P)
      BY <1>2, <1>4, <2>1
    <3> QED
      BY ONLY Sizes, p \in IO!Party, <2>2, <2>3, <3>1, Stepped
  <2>5. Made(o)' = Made(o)
    BY ONLY <2>4, o = IO!Peer(p) DEF Made
  <2>6. As(o, H)' = As(o, H)
    BY ONLY <2>4, o = IO!Peer(p) DEF As, Cutting, Made
  <2> QED
    BY <2>4, <2>5, <2>6
<1> PICK x : x = IO!Bytes(m + 1)
  OBVIOUS
<1>11. x \in Item /\ x.kind = "bytes" /\ x.data = <<m + 1>>
  BY <1>6, BytesIs
<1>12. r.log = Append(CutLog(q), x) /\ r.open = << >> /\ r.seeds = q.seeds
  <2>1. r = Succ(q, P[m + 1], m + 1)
    BY <1>4, <1>7 DEF IOInvOf, Path
  <2>2. r = [log |-> Append(CutLog(q), x), open |-> << >>, seeds |-> q.seeds]
    BY <1>1, <1>4, <2>1 DEF Succ, BytesOf
  <2> QED
    BY ONLY <2>2
<1>13. Shapes /\ UnderWay /\ BlocksFull /\ IO!StreamsOrdered /\ Path(H, P) /\ AliceAt(H)
  BY <1>4 DEF IOInvOf, Types
<1>14. /\ chan' \in [IO!Party -> Seq(Item)] /\ log' \in [IO!Party -> Seq(Item)] /\ visible' \in [IO!Party -> Nat]
       /\ \A u \in IO!Party : visible'[u] <= Len(chan'[u])
       /\ UnderWay' /\ Len(log[p]) < Len(log[o]) /\ log'[o] = log[o]
       /\ Head(chan[o]) = log[o][Len(log[p]) + 1]
       /\ log'[p] = Append(log[p], log[o][Len(log[p]) + 1])
  BY <1>2, <1>13, GetShapes
<1>15. m < n
  <2>1. /\ Made(IO!ALICE) <= Made(IO!BOB) => Len(log[IO!ALICE]) <= Len(log[IO!BOB])
        /\ Made(IO!BOB) <= Made(IO!ALICE) => Len(log[IO!BOB]) <= Len(log[IO!ALICE])
    BY <1>4, Order
  <2>2. n <= m => Len(log[o]) <= Len(log[p])
    <3>1. CASE p = IO!ALICE
      <4>1. o = IO!BOB
        BY <3>1 DEF IO!Peer
      <4> QED
        BY <2>1, <3>1, <4>1
    <3>2. CASE p = IO!BOB
      <4>1. o = IO!ALICE
        BY <3>2 DEF IO!Peer, IO!ALICE, IO!BOB
      <4> QED
        BY <2>1, <3>2, <4>1
    <3> QED
      BY <3>1, <3>2 DEF IO!Party
  <2>3. Len(log[o]) \in Nat /\ Len(log[p]) \in Nat
    BY <1>5, <1>13 DEF Shapes
  <2> QED
    BY ONLY <1>6, <1>14, <2>2, <2>3
<1>16. log[o][Len(log[p]) + 1] = x
  <2>1. log[o][Len(CutLog(q)) + 1] = x
    BY <1>4, <1>8, <1>11, <1>12, <1>15, Arrived
  <2> QED
    BY <1>9, <2>1
<1>17. IO!Received(p, at[p])
  <2>1. Head(x.data) = m + 1
    BY ONLY <1>6, <1>11
  <2> QED
    BY <1>2, <1>4, <1>14, <1>16, <2>1
<1>18. IO!StreamsOrdered' /\ got' \in [IO!Party -> Seq(Nat \X Nat)]
  <2>1. got \in [IO!Party -> Seq(Nat \X Nat)]
    BY <1>13 DEF Shapes
  <2> QED
    BY <1>3, <1>13, <1>17, <2>1, ReceivedRight
<1>19. Shapes'
  <2>1. stage' \in [IO!Party -> Seq(Nat)] /\ seeds' \in [IO!Party -> Seq(Seq(Item))]
    BY <1>2, <1>13 DEF Shapes
  <2> QED
    BY <1>14, <1>18, <2>1 DEF Shapes
<1>20. log'[p] = r.log /\ log'[p] = log[p] \o <<x>> /\ <<x>> \in Seq(Item) /\ Full(<<x>>)
  <2>1. log[p] \in Seq(Item)
    BY <1>8, <1>9
  <2>2. Append(log[p], x) = log[p] \o <<x>> /\ <<x>> \in Seq(Item)
    BY ONLY <1>11, <2>1
  <2>3. Full(<<x>>)
    BY ONLY <1>11 DEF Full
  <2> QED
    BY <1>9, <1>12, <1>14, <1>16, <2>2, <2>3
<1>21. BlocksFull'
  <2>1. log \in [IO!Party -> Seq(Item)]
    BY <1>13 DEF Shapes
  <2> QED
    BY <1>13, <1>14, <1>20, <2>1, FullAfter
<1>22. AliceAt(H)' /\ BobAt(H)' /\ InTurn(P)'
  <2>1. CASE p = IO!ALICE
    <3>1. o = IO!BOB
      BY <2>1 DEF IO!Peer
    <3>2. AliceAt(H)'
      BY <1>2, <1>9, <1>10, <1>12, <1>20, <2>1 DEF AliceAt
    <3>3. BobAt(H)'
      BY <1>2, <1>4, <1>10, <1>14, <1>20, <2>1, <3>1, BobStays
    <3>4. InTurn(P)'
      <4>1. m + 1 <= n
        BY ONLY <1>6, <1>15
      <4> QED
        BY <1>2, <1>4, <1>9, <1>10, <2>1, <3>1, <4>1, InTurnAlice
    <3> QED
      BY <3>2, <3>3, <3>4
  <2>2. CASE p = IO!BOB
    <3>1. o = IO!ALICE /\ p # IO!ALICE
      BY <2>2 DEF IO!Peer, IO!ALICE, IO!BOB
    <3>2. AliceAt(H)'
      BY <1>2, <1>10, <1>13, <1>14, <3>1, AliceStays
    <3>3. BobAt(H)'
      BY <1>2, <1>9, <1>10, <1>12, <1>20, <2>2, BobClean
    <3>4. InTurn(P)'
      <4>1. m + 1 <= n
        BY ONLY <1>6, <1>15
      <4>2. stage[IO!ALICE] # << >> => m + 1 < stage[IO!ALICE][1]
        BY <1>1, <1>4, <1>7, <2>2, StillAhead
      <4> QED
        BY <1>2, <1>4, <1>10, <2>2, <3>1, <4>1, <4>2, InTurnBob
    <3> QED
      BY <3>2, <3>3, <3>4
  <2> QED
    BY <2>1, <2>2 DEF IO!Party
<1>23. IOInvOf(P, H)'
  BY <1>10, <1>13, <1>14, <1>18, <1>19, <1>21, <1>22 DEF IOInvOf, Types
<1> QED
  BY <1>23, Landed

\* The block of BOB's next bit has come only if ALICE has made the call.
LEMMA BitAhead ==
  ASSUME Sizes, NEW P, NEW H, IOInvOf(P, H), ~Cutting(IO!BOB), Made(IO!BOB) < Len(P), P[Made(IO!BOB) + 1] = "bit",
         Len(H[Made(IO!BOB)].log) < Len(log[IO!ALICE])
  PROVE  Made(IO!BOB) < Made(IO!ALICE)
<1> PICK a, b, A, q : a = Made(IO!ALICE) /\ b = Made(IO!BOB) /\ A = As(IO!ALICE, H) /\ q = H[b]
  OBVIOUS
<1>1. /\ a \in Nat /\ b \in Nat /\ A \in State /\ q \in State /\ As(IO!BOB, H) = q
      /\ IF Cutting(IO!ALICE) THEN A = Cut(H[a]) ELSE A = H[a]
      /\ Cutting(IO!ALICE) /\ a < Len(P) => P[a + 1] \in {"up", "down"}
  BY Standing DEF IOInvOf, IO!Party
<1>2. log[IO!ALICE] = A.log
  BY Lengths
<1>3. A.log \in Seq(Item) /\ q.log \in Seq(Item)
  BY <1>1 DEF State
<1>4. Len(q.log) < Len(A.log) /\ Len(A.log) \in Nat /\ Len(q.log) \in Nat
  BY <1>2, <1>3
<1>5. a # b
  <2>1. SUFFICES ASSUME a = b PROVE FALSE
    OBVIOUS
  <2>2. ~Cutting(IO!ALICE)
    BY <1>1, <2>1
  <2>3. A = q
    BY <1>1, <2>1, <2>2
  <2> QED
    BY ONLY <1>4, <2>3
<1>6. ~(a < b)
  <2>1. SUFFICES ASSUME a < b PROVE FALSE
    OBVIOUS
  <2>2. Leads(a, A, q)
    BY <1>1, <2>1, Later DEF IOInvOf, Types, IO!Party
  <2>3. Len(A.log) <= Len(q.log)
    BY ONLY <2>2 DEF Leads, Begins
  <2> QED
    BY ONLY <1>4, <2>3
<1> QED
  BY ONLY <1>1, <1>5, <1>6, a = Made(IO!ALICE), b = Made(IO!BOB)

\* It holds the bit where BOB looks for it.
LEMMA BitArrived ==
  ASSUME Sizes, NEW P, NEW H, IOInvOf(P, H), ~Cutting(IO!BOB), Made(IO!BOB) < Len(P), P[Made(IO!BOB) + 1] = "bit",
         Len(H[Made(IO!BOB)].log) + 1 <= Len(log[IO!ALICE])
  PROVE  LET q == H[Made(IO!BOB)]
             r == H[Made(IO!BOB) + 1]
             l == log[IO!ALICE]
             n == Len(q.log) + 1
             k == Len(q.open)
         IN  /\ l[n].kind = "bits" /\ l[n] \in Item /\ Len(l[n].data) = STAGE /\ l[n].data[k + 1] = Made(IO!BOB) + 1
             /\ Made(IO!BOB) + 1 <= Made(IO!ALICE)
             /\ r.seeds = q.seeds
             /\ k + 1 = STAGE => r.open = << >> /\ r.log = Append(q.log, l[n])
             /\ k + 1 # STAGE => r.open = Append(q.open, Made(IO!BOB) + 1) /\ r.log = q.log
             /\ stage[IO!ALICE] # << >> => Made(IO!BOB) + 1 < stage[IO!ALICE][1]
<1> PICK q, r, l : q = H[Made(IO!BOB)] /\ r = H[Made(IO!BOB) + 1] /\ l = log[IO!ALICE]
  OBVIOUS
<1> PICK n, k : n = Len(q.log) + 1 /\ k = Len(q.open)
  OBVIOUS
<1> PICK a, m, A : a = Made(IO!ALICE) /\ m = Made(IO!BOB) /\ A = As(IO!ALICE, H)
  OBVIOUS
<1>1. /\ a \in Nat /\ m \in Nat /\ A \in State /\ q \in State /\ a <= Len(P) /\ Len(P) \in Nat
      /\ \A j \in 0 .. a : Leads(j, H[j], A)
  BY Standing DEF IOInvOf, IO!Party
<1>2. /\ q.log \in Seq(Item) /\ q.open \in Seq(Nat) /\ A.log \in Seq(Item) /\ l = A.log
  BY <1>1, Lengths DEF State
<1>3. Len(q.log) \in Nat /\ n \in Nat /\ n >= 1 /\ Len(l) \in Nat /\ n \in 1 .. Len(l) /\ k \in Nat
  <2>1. Len(q.log) \in Nat /\ Len(l) \in Nat /\ k \in Nat /\ n <= Len(l)
    BY <1>2
  <2> QED
    BY <2>1
<1>4. m < a
  <2>1. Len(H[Made(IO!BOB)].log) < Len(log[IO!ALICE])
    BY ONLY <1>3, q = H[Made(IO!BOB)], l = log[IO!ALICE], n = Len(q.log) + 1
  <2> QED
    BY <2>1, BitAhead
<1>5. Leads(m + 1, r, A)
  <2>1. m + 1 \in 0 .. a
    BY ONLY <1>1, <1>4
  <2> QED
    BY <1>1, <2>1
<1>6. r = BitOf(q, m + 1)
  <2>1. m \in 0 .. Len(P) - 1
    BY <1>1
  <2>2. r = Succ(q, P[m + 1], m + 1)
    BY <2>1 DEF IOInvOf, Path
  <2> QED
    BY <2>2 DEF Succ
<1> PICK s, u : s = Append(q.open, m + 1) /\ u = Padded(s)
  OBVIOUS
<1>7. s \in Seq(Nat) /\ Len(s) = k + 1 /\ s[k + 1] = m + 1
  BY ONLY <1>1, <1>2, s = Append(q.open, m + 1), k = Len(q.open)
<1>8. /\ u \in Item /\ u.kind = "bits" /\ Len(u.data) = STAGE
      /\ \A i \in 1 .. STAGE : u.data[i] = IF i <= Len(s) THEN s[i] ELSE IO!Pad
  BY <1>7, PaddedIs
<1>9. /\ r.seeds = q.seeds
      /\ k + 1 = STAGE => r.open = << >> /\ r.log = Append(q.log, u)
      /\ k + 1 # STAGE => r.open = s /\ r.log = q.log
  <2>1. CASE k + 1 = STAGE
    <3>1. r = [log |-> Append(q.log, u), open |-> << >>, seeds |-> q.seeds]
      BY <1>6, <2>1 DEF BitOf
    <3> QED
      BY ONLY <2>1, <3>1
  <2>2. CASE k + 1 # STAGE
    <3>1. r = [log |-> q.log, open |-> s, seeds |-> q.seeds]
      BY <1>6, <2>2 DEF BitOf
    <3> QED
      BY ONLY <2>2, <3>1
  <2> QED
    BY <2>1, <2>2
<1>10. l[n] \in Item /\ l[n].kind = "bits" /\ l[n].data[k + 1] = m + 1 /\ (k + 1 = STAGE => l[n] = u)
  <2>1. l[n] \in Item
    BY ONLY <1>2, <1>3
  <2>2. CASE k + 1 = STAGE
    <3>1. Begins(r.log, l)
      BY <1>2, <1>5 DEF Leads
    <3>2. r.log = Append(q.log, u)
      BY <1>9, <2>2
    <3>3. Len(r.log) = n /\ r.log[n] = u
      BY ONLY <1>2, <1>8, <3>2, n = Len(q.log) + 1
    <3>4. l[n] = u
      BY ONLY <1>3, <3>1, <3>3 DEF Begins
    <3>5. u.data[k + 1] = m + 1
      <4>1. k + 1 \in 1 .. STAGE
        BY ONLY <1>3, <2>2
      <4> QED
        BY ONLY <1>3, <1>7, <1>8, <4>1
    <3> QED
      BY <1>8, <2>1, <3>4, <3>5
  <2>3. CASE k + 1 # STAGE
    <3>1. r.open = s /\ r.log = q.log
      BY <1>9, <2>3
    <3>2. Len(A.log) # Len(r.log) /\ r.open # << >> /\ Len(r.log) + 1 = n
      <4>1. r.open # << >>
        BY ONLY <1>3, <1>7, <3>1
      <4>2. Len(A.log) # Len(r.log)
        BY ONLY <1>2, <1>3, <3>1, n = Len(q.log) + 1
      <4> QED
        BY ONLY <3>1, <4>1, <4>2, n = Len(q.log) + 1
    <3>3. A.log[n].kind = "bits" /\ Begins(s, A.log[n].data)
      BY ONLY <1>5, <3>1, <3>2 DEF Leads
    <3>4. A.log[n].data[k + 1] = m + 1
      <4>1. k + 1 \in 1 .. Len(s)
        BY ONLY <1>3, <1>7
      <4> QED
        BY ONLY <1>7, <3>3, <4>1 DEF Begins
    <3> QED
      BY <1>2, <2>1, <2>3, <3>3, <3>4
  <2> QED
    BY <2>2, <2>3
<1>11. Len(l[n].data) = STAGE
  <2>1. Full(l)
    BY DEF IOInvOf, BlocksFull, IO!Party
  <2> QED
    BY ONLY <1>3, <1>10, <2>1 DEF Full
<1>12. stage[IO!ALICE] # << >> => m + 1 < stage[IO!ALICE][1]
  <2>1. SUFFICES ASSUME stage[IO!ALICE] # << >> PROVE m + 1 < stage[IO!ALICE][1]
    OBVIOUS
  <2>2. stage[IO!ALICE] = A.open
    BY DEF IOInvOf, AliceAt
  <2>3. r.open = << >> \/ Len(A.log) > Len(r.log)
    <3>1. CASE k + 1 = STAGE
      BY <1>9, <3>1
    <3>2. CASE k + 1 # STAGE
      BY <1>2, <1>3, <1>9, <3>2
    <3> QED
      BY <3>1, <3>2
  <2>4. A.open[1] > m + 1
    BY ONLY <1>5, <2>1, <2>2, <2>3 DEF Leads
  <2>5. A.open[1] \in Nat
    <3>1. A.open \in Seq(Nat) /\ A.open # << >>
      BY <1>1, <2>1, <2>2 DEF State
    <3> QED
      BY ONLY <3>1
  <2> QED
    BY ONLY <1>1, <2>2, <2>4, <2>5
<1>13. m + 1 <= a
  BY ONLY <1>1, <1>4
<1>14. /\ l[n].kind = "bits" /\ l[n] \in Item /\ Len(l[n].data) = STAGE /\ l[n].data[k + 1] = m + 1
       /\ k + 1 = STAGE => r.open = << >> /\ r.log = Append(q.log, l[n])
       /\ k + 1 # STAGE => r.open = Append(q.open, m + 1) /\ r.log = q.log
  <2>1. k + 1 = STAGE => r.open = << >> /\ r.log = Append(q.log, l[n])
    BY ONLY <1>9, <1>10
  <2>2. k + 1 # STAGE => r.open = Append(q.open, m + 1) /\ r.log = q.log
    BY ONLY <1>9, s = Append(q.open, m + 1)
  <2> QED
    BY ONLY <1>10, <1>11, <2>1, <2>2
<1> QED
  BY ONLY <1>9, <1>12, <1>13, <1>14, q = H[Made(IO!BOB)], r = H[Made(IO!BOB) + 1], l = log[IO!ALICE],
     n = Len(q.log) + 1, k = Len(q.open), m = Made(IO!BOB), a = Made(IO!ALICE)

LEMMA AppendIs ==
  ASSUME NEW S, NEW s \in Seq(S), NEW x \in S
  PROVE  <<x>> \in Seq(S) /\ Append(s, x) = s \o <<x>>
OBVIOUS

LEMMA StepRecvBit ==
  ASSUME Sizes, IOInv, IO!RecvBit
  PROVE  IOInv'
<1> PICK bits : bits = IF stage[IO!BOB] = << >> THEN Head(chan[IO!ALICE]).data ELSE stage[IO!BOB]
  OBVIOUS
<1>1. /\ IO!Calls(IO!BOB, "bit") /\ IF stage[IO!BOB] = << >> THEN IO!Get(IO!BOB) ELSE UNCHANGED IO!netVars
      /\ stage' = [stage EXCEPT ![IO!BOB] = Tail(bits)] /\ IO!Received(IO!BOB, Head(bits)) /\ IO!Done(IO!BOB)
      /\ flushed' = flushed /\ seeds' = seeds
  BY DEF IO!RecvBit
<1>2. /\ IO!BOB \in IO!Party /\ IO!ALICE \in IO!Party /\ IO!Peer(IO!BOB) = IO!ALICE /\ IO!BOB # IO!ALICE /\ "bit" \in IO!Call
      /\ IO!Party = {IO!ALICE, IO!BOB}
  BY DEF IO!Party, IO!Peer, IO!ALICE, IO!BOB, IO!Call
<1>3. PICK H : /\ IOInvOf(prog', H) /\ at[IO!BOB] <= Len(prog') /\ prog'[at[IO!BOB]] = "bit" /\ at[IO!BOB] <= MaxCalls
               /\ at[IO!BOB] = Made(IO!BOB) + 1 /\ at[IO!BOB] \in Nat /\ ~flushed[IO!BOB]
  BY <1>1, <1>2, Chosen
<1> PICK P : P = prog'
  OBVIOUS
<1> PICK m, a, q, r : m = Made(IO!BOB) /\ a = Made(IO!ALICE) /\ q = H[m] /\ r = H[m + 1]
  OBVIOUS
<1>4. IOInvOf(P, H) /\ at[IO!BOB] <= Len(P) /\ P[m + 1] = "bit" /\ at[IO!BOB] = m + 1
  BY <1>3
<1>5. /\ ~Cutting(IO!BOB) /\ q \in State /\ seeds[IO!BOB] = q.seeds /\ flushed \in [IO!Party -> BOOLEAN] /\ Control(P)
      /\ m \in Nat /\ P \in Seq(IO!Call)
  <2>1. at[IO!BOB] <= MaxCalls + 1
    BY <1>3 DEF Sizes
  <2> QED
    BY <1>2, <1>3, <1>4, <2>1, Here
<1>6. As(IO!BOB, H) = q /\ a \in Nat /\ m < Len(P)
  <2>1. As(IO!BOB, H) = q /\ a \in Nat
    BY <1>2, <1>4, <1>5, Standing DEF IOInvOf
  <2> QED
    BY <1>4, <1>5, <2>1
<1> PICK l, n, k : l = log[IO!ALICE] /\ n = Len(q.log) + 1 /\ k = Len(q.open)
  OBVIOUS
<1>7. /\ Shapes /\ UnderWay /\ BlocksFull /\ IO!StreamsOrdered /\ Path(H, P) /\ AliceAt(H)
  BY <1>4 DEF IOInvOf, Types
<1>8. /\ q.log \in Seq(Item) /\ q.open \in Seq(Nat) /\ l \in Seq(Item) /\ Len(q.log) \in Nat /\ k \in Nat
      /\ Len(l) \in Nat /\ k < STAGE /\ STAGE \in Nat /\ n \in Nat
  <2>1. q.log \in Seq(Item) /\ q.open \in Seq(Nat) /\ l \in Seq(Item) /\ Len(q.open) < STAGE
    <3>1. Len(q.open) < STAGE
      BY <1>2, <1>4, <1>6, Standing DEF IOInvOf
    <3>2. q.log \in Seq(Item) /\ q.open \in Seq(Nat)
      BY ONLY <1>5 DEF State
    <3>3. l \in Seq(Item)
      BY ONLY <1>2, <1>7, l = log[IO!ALICE] DEF Shapes
    <3> QED
      BY ONLY <3>1, <3>2, <3>3
  <2> QED
    BY ONLY <2>1, Sizes, n = Len(q.log) + 1, k = Len(q.open) DEF Sizes
<1>9. IF q.open = << >> THEN log[IO!BOB] = q.log /\ stage[IO!BOB] = << >>
      ELSE /\ n <= Len(l) /\ log[IO!BOB] = Append(q.log, l[n]) /\ Len(stage[IO!BOB]) = STAGE - k
           /\ \A i \in 1 .. Len(stage[IO!BOB]) : stage[IO!BOB][i] = l[n].data[k + i]
  BY <1>4, <1>6 DEF IOInvOf, BobAt
<1>10. stage[IO!BOB] = << >> => q.open = << >> /\ k = 0
  BY <1>8, <1>9
<1>11. /\ n <= Len(l) /\ log'[IO!ALICE] = l /\ log'[IO!BOB] = Append(q.log, l[n])
       /\ chan' \in [IO!Party -> Seq(Item)] /\ log' \in [IO!Party -> Seq(Item)] /\ visible' \in [IO!Party -> Nat]
       /\ \A u \in IO!Party : visible'[u] <= Len(chan'[u])
       /\ UnderWay' /\ bits = IF stage[IO!BOB] = << >> THEN l[n].data ELSE stage[IO!BOB]
  <2>1. CASE stage[IO!BOB] = << >>
    <3>1. /\ chan' \in [IO!Party -> Seq(Item)] /\ log' \in [IO!Party -> Seq(Item)] /\ visible' \in [IO!Party -> Nat]
          /\ \A u \in IO!Party : visible'[u] <= Len(chan'[u])
          /\ UnderWay' /\ Len(log[IO!BOB]) < Len(log[IO!Peer(IO!BOB)]) /\ log'[IO!Peer(IO!BOB)] = log[IO!Peer(IO!BOB)]
          /\ Head(chan[IO!Peer(IO!BOB)]) = log[IO!Peer(IO!BOB)][Len(log[IO!BOB]) + 1]
          /\ log'[IO!BOB] = Append(log[IO!BOB], log[IO!Peer(IO!BOB)][Len(log[IO!BOB]) + 1])
      BY <1>1, <1>2, <1>7, <2>1, GetShapes
    <3>2. log[IO!BOB] = q.log
      BY <1>9, <1>10, <2>1
    <3>3. n <= Len(l)
      BY ONLY <1>2, <1>8, <3>1, <3>2, l = log[IO!ALICE], n = Len(q.log) + 1
    <3>4. bits = l[n].data
      BY <1>2, <2>1, <3>1, <3>2
    <3> QED
      BY <1>2, <2>1, <3>1, <3>2, <3>3, <3>4
  <2>2. CASE stage[IO!BOB] # << >>
    <3>1. chan' = chan /\ log' = log /\ visible' = visible
      BY <1>1, <2>2 DEF IO!netVars
    <3>2. UnderWay'
      BY <1>7, <3>1 DEF UnderWay, Carries
    <3>3. q.open # << >>
      BY <1>9, <2>2
    <3> QED
      BY <1>7, <1>9, <2>2, <3>1, <3>2, <3>3 DEF Shapes
  <2> QED
    BY <2>1, <2>2
<1>12. /\ l[n].kind = "bits" /\ l[n] \in Item /\ Len(l[n].data) = STAGE /\ l[n].data[k + 1] = m + 1
       /\ m + 1 <= a
       /\ r.seeds = q.seeds
       /\ k + 1 = STAGE => r.open = << >> /\ r.log = Append(q.log, l[n])
       /\ k + 1 # STAGE => r.open = Append(q.open, m + 1) /\ r.log = q.log
       /\ stage[IO!ALICE] # << >> => m + 1 < stage[IO!ALICE][1]
  <2>1. /\ ~Cutting(IO!BOB) /\ Made(IO!BOB) < Len(P) /\ P[Made(IO!BOB) + 1] = "bit" /\ IOInvOf(P, H)
        /\ Len(H[Made(IO!BOB)].log) + 1 <= Len(log[IO!ALICE])
    BY <1>4, <1>5, <1>6, <1>11
  <2> QED
    BY ONLY Sizes, <2>1, q = H[m], r = H[m + 1], l = log[IO!ALICE], n = Len(q.log) + 1, k = Len(q.open),
       m = Made(IO!BOB), a = Made(IO!ALICE), BitArrived
<1> PICK d : d = l[n].data
  OBVIOUS
<1>13. d \in Seq(Nat) /\ Len(d) = STAGE /\ d[k + 1] = m + 1
  BY <1>12 DEF Item
<1>14. bits \in Seq(Nat) /\ Len(bits) = STAGE - k /\ \A i \in 1 .. Len(bits) : bits[i] = d[k + i]
  <2>1. CASE stage[IO!BOB] = << >>
    <3>1. bits = d /\ k = 0
      BY <1>10, <1>11, <2>1
    <3> QED
      BY ONLY <1>8, <1>13, <3>1
  <2>2. CASE stage[IO!BOB] # << >>
    <3>1. bits = stage[IO!BOB] /\ stage[IO!BOB] \in Seq(Nat)
      BY <1>2, <1>7, <1>11, <2>2 DEF Shapes
    <3>2. q.open # << >>
      BY <1>9, <2>2
    <3> QED
      BY ONLY <1>9, <3>1, <3>2, d = l[n].data
  <2> QED
    BY <2>1, <2>2
<1> PICK t : t = Tail(bits)
  OBVIOUS
<1>15. /\ t \in Seq(Nat) /\ Len(t) = STAGE - (k + 1) /\ \A i \in 1 .. Len(t) : t[i] = d[(k + 1) + i]
       /\ Head(bits) = m + 1
  <2>1. bits # << >> /\ 1 \in 1 .. Len(bits)
    BY ONLY <1>8, <1>14
  <2>2. Head(bits) = m + 1
    BY ONLY <1>8, <1>13, <1>14, <2>1
  <2>3. t \in Seq(Nat) /\ Len(t) = Len(bits) - 1 /\ \A i \in 1 .. Len(t) : t[i] = bits[i + 1]
    BY ONLY <1>14, <2>1, t = Tail(bits)
  <2>4. ASSUME NEW i \in 1 .. Len(t) PROVE t[i] = d[(k + 1) + i]
    <3>1. i + 1 \in 1 .. Len(bits) /\ k + (i + 1) = (k + 1) + i
      BY ONLY <1>8, <1>14, <2>3, <2>4
    <3>2. t[i] = bits[i + 1] /\ bits[i + 1] = d[k + (i + 1)]
      BY ONLY <1>14, <2>3, <2>4, <3>1
    <3> QED
      BY ONLY <3>1, <3>2
  <2> QED
    BY ONLY <1>8, <1>14, <2>2, <2>3, <2>4
<1>16. /\ Control(P)' /\ Made(IO!BOB)' = m + 1 /\ Made(IO!ALICE)' = a /\ As(IO!BOB, H)' = r /\ As(IO!ALICE, H)' = As(IO!ALICE, H)
  <2>1. flushed' \in [IO!Party -> BOOLEAN] /\ ~flushed'[IO!BOB] /\ flushed'[IO!Peer(IO!BOB)] = flushed[IO!Peer(IO!BOB)]
    BY <1>1, <1>3, <1>5
  <2>2. /\ Control(P)' /\ Made(IO!BOB)' = Made(IO!BOB) + 1 /\ Made(IO!Peer(IO!BOB))' = Made(IO!Peer(IO!BOB))
        /\ As(IO!BOB, H)' = H[Made(IO!BOB) + 1] /\ As(IO!Peer(IO!BOB), H)' = As(IO!Peer(IO!BOB), H)
    <3>1. IO!Done(IO!BOB) /\ at[IO!BOB] <= Len(P) /\ Control(P)
      BY <1>1, <1>4, <1>5
    <3> QED
      BY ONLY Sizes, <1>2, <2>1, <3>1, Stepped
  <2>3. Made(IO!ALICE)' = Made(IO!ALICE)
    BY ONLY <1>2, <2>2 DEF Made
  <2>4. As(IO!ALICE, H)' = As(IO!ALICE, H)
    BY ONLY <1>2, <2>2 DEF As, Cutting, Made
  <2> QED
    BY <2>2, <2>3, <2>4
<1>17. IO!Received(IO!BOB, at[IO!BOB])
  BY <1>1, <1>4, <1>15
<1>18. IO!StreamsOrdered' /\ got' \in [IO!Party -> Seq(Nat \X Nat)]
  <2>1. got \in [IO!Party -> Seq(Nat \X Nat)]
    BY <1>7 DEF Shapes
  <2> QED
    BY <1>2, <1>3, <1>7, <1>17, <2>1, ReceivedRight
<1>19. stage'[IO!BOB] = t /\ stage'[IO!ALICE] = stage[IO!ALICE] /\ stage' \in [IO!Party -> Seq(Nat)]
  <2>1. stage \in [IO!Party -> Seq(Nat)]
    BY <1>7 DEF Shapes
  <2> QED
    BY <1>1, <1>2, <1>15, <2>1
<1>20. Shapes'
  <2>1. seeds' \in [IO!Party -> Seq(Seq(Item))]
    BY <1>1, <1>7 DEF Shapes
  <2> QED
    BY <1>11, <1>18, <1>19, <2>1 DEF Shapes
<1>21. BlocksFull'
  <2>1. log \in [IO!Party -> Seq(Item)] /\ log[IO!BOB] \in Seq(Item)
    BY <1>2, <1>7 DEF Shapes
  <2>2. CASE q.open = << >>
    <3>1. log'[IO!BOB] = log[IO!BOB] \o <<l[n]>> /\ <<l[n]>> \in Seq(Item)
      <4>1. log[IO!BOB] = q.log
        BY <1>9, <2>2
      <4> PICK y : y = l[n]
        OBVIOUS
      <4>2. Append(q.log, y) = q.log \o <<y>> /\ <<y>> \in Seq(Item)
        BY ONLY <1>8, <1>12, y = l[n], AppendIs
      <4> QED
        BY <1>11, <4>1, <4>2
    <3>2. Full(<<l[n]>>)
      BY ONLY <1>12 DEF Full
    <3>3. log'[IO!Peer(IO!BOB)] = log[IO!Peer(IO!BOB)]
      BY <1>2, <1>11
    <3> QED
      BY <1>2, <1>7, <2>1, <3>1, <3>2, <3>3, FullAfter
  <2>3. CASE q.open # << >>
    <3>1. log'[IO!BOB] = log[IO!BOB] /\ log'[IO!ALICE] = log[IO!ALICE]
      BY <1>9, <1>11, <2>3
    <3> QED
      BY <1>2, <1>7, <3>1 DEF BlocksFull
  <2> QED
    BY <2>2, <2>3
<1>22. AliceAt(H)'
  BY <1>1, <1>7, <1>11, <1>16, <1>19, AliceStays
<1>23. InTurn(P)'
  <2>1. stage'[IO!ALICE] # << >> => m + 1 < stage'[IO!ALICE][1]
    BY <1>12, <1>19
  <2> QED
    BY <1>4, <1>12, <1>16, <2>1, InTurnBob
<1>24. BobAt(H)'
  <2>1. seeds'[IO!BOB] = r.seeds
    <3>1. seeds' = seeds
      BY <1>1, SMTT(40), ZenonT(40)
    <3> QED
      BY ONLY <1>5, <1>12, <3>1
  <2>2. CASE k + 1 = STAGE
    <3>1. t = << >>
      BY ONLY <1>8, <1>15, <2>2
    <3> QED
      BY <1>11, <1>12, <1>16, <1>19, <2>1, <2>2, <3>1, BobClean
  <2>3. CASE k + 1 # STAGE
    <3>1. r.open = Append(q.open, m + 1) /\ r.log = q.log
      BY <1>12, <2>3
    <3>2. r.open # << >> /\ Len(r.open) = k + 1
      <4> PICK s : s = Append(q.open, m + 1)
        OBVIOUS
      <4>1. m + 1 \in Nat
        BY ONLY <1>5
      <4>2. Len(s) = k + 1
        BY ONLY <1>8, <4>1, s = Append(q.open, m + 1), k = Len(q.open)
      <4>3. s # << >>
        BY ONLY <1>8, <4>2
      <4> QED
        BY ONLY <3>1, <4>2, <4>3, s = Append(q.open, m + 1)
    <3>3. n = Len(r.log) + 1
      BY <3>1
    <3>4. /\ n <= Len(log'[IO!ALICE]) /\ log'[IO!BOB] = Append(r.log, log'[IO!ALICE][n])
          /\ Len(stage'[IO!BOB]) = STAGE - Len(r.open)
      BY <1>11, <1>15, <1>19, <3>1, <3>2
    <3>5. \A i \in 1 .. Len(stage'[IO!BOB]) : stage'[IO!BOB][i] = log'[IO!ALICE][n].data[Len(r.open) + i]
      BY ONLY <1>11, <1>15, <1>19, <3>2, d = l[n].data
    <3> QED
      BY ONLY <1>16, <2>1, <3>2, <3>3, <3>4, <3>5 DEF BobAt
  <2> QED
    BY <2>2, <2>3
<1>25. IOInvOf(P, H)'
  BY <1>7, <1>11, <1>16, <1>18, <1>20, <1>21, <1>22, <1>23, <1>24 DEF IOInvOf, Types
<1> QED
  BY <1>25, Landed

LEMMA FullBlock ==
  ASSUME NEW s \in Seq(Nat), NEW n \in Nat, Len(s) = n
  PROVE  s = [i \in 1 .. n |-> IF i <= Len(s) THEN s[i] ELSE IO!Pad]
<1> DEFINE f == [i \in 1 .. n |-> IF i <= n THEN s[i] ELSE IO!Pad]
<1>1. \A i \in 1 .. n : f[i] = s[i] /\ s[i] \in Nat
  OBVIOUS
<1>2. f \in Seq(Nat) /\ Len(f) = n
  BY <1>1
<1>3. s = f
  BY <1>1, <1>2, SeqEqual
<1> QED
  BY <1>3

LEMMA StepSendBit ==
  ASSUME Sizes, IOInv, IO!SendBit
  PROVE  IOInv'
<1> PICK bits : bits = Append(stage[IO!ALICE], at[IO!ALICE])
  OBVIOUS
<1>1. /\ IO!Calls(IO!ALICE, "bit") /\ IO!Done(IO!ALICE) /\ flushed' = flushed /\ got' = got /\ seeds' = seeds
      /\ IF Len(bits) = STAGE
         THEN IO!Put(IO!ALICE, <<IO!Block(bits)>>, 0) /\ IO!Unstage(IO!ALICE)
         ELSE stage' = [stage EXCEPT ![IO!ALICE] = bits] /\ UNCHANGED IO!netVars
  BY DEF IO!SendBit
<1>2. /\ IO!BOB \in IO!Party /\ IO!ALICE \in IO!Party /\ IO!Peer(IO!ALICE) = IO!BOB /\ IO!BOB # IO!ALICE /\ "bit" \in IO!Call
      /\ IO!Party = {IO!ALICE, IO!BOB}
  BY DEF IO!Party, IO!Peer, IO!ALICE, IO!BOB, IO!Call
<1>3. PICK H : /\ IOInvOf(prog', H) /\ at[IO!ALICE] <= Len(prog') /\ prog'[at[IO!ALICE]] = "bit"
               /\ at[IO!ALICE] <= MaxCalls /\ at[IO!ALICE] = Made(IO!ALICE) + 1 /\ at[IO!ALICE] \in Nat /\ ~flushed[IO!ALICE]
  BY <1>1, <1>2, Chosen
<1> PICK P : P = prog'
  OBVIOUS
<1> PICK m, b, q, r : m = Made(IO!ALICE) /\ b = Made(IO!BOB) /\ q = H[m] /\ r = H[m + 1]
  OBVIOUS
<1>4. IOInvOf(P, H) /\ at[IO!ALICE] <= Len(P) /\ P[m + 1] = "bit" /\ at[IO!ALICE] = m + 1
  BY <1>3
<1>5. /\ ~Cutting(IO!ALICE) /\ q \in State /\ seeds[IO!ALICE] = q.seeds /\ flushed \in [IO!Party -> BOOLEAN] /\ Control(P)
      /\ seeds \in [IO!Party -> Seq(Seq(Item))] /\ m \in Nat /\ P \in Seq(IO!Call)
  <2>1. at[IO!ALICE] <= MaxCalls + 1
    BY <1>3 DEF Sizes
  <2> QED
    BY <1>2, <1>3, <1>4, <2>1, Here
<1>6. As(IO!ALICE, H) = q /\ b \in Nat /\ m < Len(P) /\ m \in 0 .. Len(P) - 1 /\ m + 1 \in 0 .. Len(P)
  <2>1. As(IO!ALICE, H) = q /\ b \in Nat
    BY <1>2, <1>4, <1>5, Standing DEF IOInvOf
  <2> QED
    BY <1>4, <1>5, <2>1
<1>7. /\ Shapes /\ UnderWay /\ BlocksFull /\ log[IO!ALICE] = q.log /\ stage[IO!ALICE] = q.open
  BY <1>4, <1>6 DEF IOInvOf, Types, AliceAt
<1>8. q.log \in Seq(Item) /\ q.open \in Seq(Nat) /\ STAGE \in Nat
  BY <1>5 DEF State, Sizes
<1>9. bits \in Seq(Nat) /\ bits = Append(q.open, m + 1) /\ Len(bits) = Len(q.open) + 1
  BY <1>4, <1>5, <1>7, <1>8
<1>10. r = BitOf(q, m + 1) /\ r \in State
  <2>1. r = Succ(q, P[m + 1], m + 1) /\ StateOK(r, P, m + 1)
    BY <1>4, <1>6 DEF IOInvOf, Path
  <2> QED
    BY <1>4, <2>1 DEF Succ, StateOK
<1>11. /\ Control(P)' /\ Made(IO!ALICE)' = m + 1 /\ Made(IO!BOB)' = b /\ As(IO!ALICE, H)' = r /\ As(IO!BOB, H)' = As(IO!BOB, H)
  <2>1. flushed' \in [IO!Party -> BOOLEAN] /\ ~flushed'[IO!ALICE] /\ flushed'[IO!Peer(IO!ALICE)] = flushed[IO!Peer(IO!ALICE)]
    BY <1>1, <1>3, <1>5
  <2>2. /\ Control(P)' /\ Made(IO!ALICE)' = Made(IO!ALICE) + 1 /\ Made(IO!Peer(IO!ALICE))' = Made(IO!Peer(IO!ALICE))
        /\ As(IO!ALICE, H)' = H[Made(IO!ALICE) + 1] /\ As(IO!Peer(IO!ALICE), H)' = As(IO!Peer(IO!ALICE), H)
    <3>1. IO!Done(IO!ALICE) /\ at[IO!ALICE] <= Len(P) /\ Control(P)
      BY <1>1, <1>4, <1>5
    <3> QED
      BY ONLY Sizes, <1>2, <2>1, <3>1, Stepped
  <2>3. Made(IO!BOB)' = Made(IO!BOB)
    BY ONLY <1>2, <2>2 DEF Made
  <2>4. As(IO!BOB, H)' = As(IO!BOB, H)
    BY ONLY <1>2, <2>2 DEF As, Cutting, Made
  <2> QED
    BY <2>2, <2>3, <2>4
<1>12. b <= m
  <2>1. m + 1 \in 1 .. Len(P)
    BY <1>5, <1>6
  <2>2. m + 1 <= b => m + 1 <= m
    BY <1>4, <2>1 DEF IOInvOf, InTurn
  <2> QED
    BY ONLY <1>5, <1>6, <2>2
<1>13. Len(log[IO!BOB]) <= Len(log[IO!ALICE])
  BY <1>4, <1>12, Order
<1>14. stage[IO!ALICE] # << >> => b < stage[IO!ALICE][1]
  BY <1>4 DEF IOInvOf, InTurn
<1>15. \/ Made(IO!ALICE)' = Made(IO!ALICE)
       \/ Made(IO!ALICE)' = Made(IO!ALICE) + 1 /\ P[Made(IO!ALICE) + 1] # "up"
  BY <1>4, <1>11
<1>16. CASE Len(bits) = STAGE
  <2> PICK x, items : x = Padded(bits) /\ items = <<x>>
    OBVIOUS
  <2>1. r = [log |-> Append(q.log, x), open |-> << >>, seeds |-> q.seeds]
    BY <1>9, <1>10, <1>16 DEF BitOf
  <2>2. r.log = Append(q.log, x) /\ r.open = << >> /\ r.seeds = q.seeds
    BY ONLY <2>1
  <2>3. x \in Item /\ Len(x.data) = STAGE
    BY <1>9, PaddedIs
  <2>4. items \in Seq(Item) /\ Full(items) /\ r.log = log[IO!ALICE] \o items
    <3>1. Full(items)
      BY ONLY <2>3, items = <<x>> DEF Full
    <3>2. items \in Seq(Item) /\ Append(q.log, x) = q.log \o items
      BY ONLY <1>8, <2>3, items = <<x>>, AppendIs
    <3> QED
      BY <1>7, <2>2, <3>1, <3>2
  <2>5. x = IO!Block(bits)
    <3>1. bits = [i \in 1 .. STAGE |-> IF i <= Len(bits) THEN bits[i] ELSE IO!Pad]
      BY ONLY <1>8, <1>9, <1>16, FullBlock
    <3> QED
      BY ONLY <3>1, x = Padded(bits) DEF Padded
  <2>6. IO!Put(IO!ALICE, items, 0) /\ IO!Unstage(IO!ALICE)
    BY <1>1, <1>16, <2>5
  <2>7. visible' \in [IO!Party -> Nat] /\ \A u \in IO!Party : visible'[u] <= Len(chan'[u])
    <3>1. 0 \in Nat /\ 0 <= Len(chan[IO!ALICE]) + Len(items)
      <4>1. chan[IO!ALICE] \in Seq(Item)
        BY <1>2, <1>7 DEF Shapes
      <4> QED
        BY ONLY <2>4, <4>1
    <3> QED
      BY <1>2, <1>7, <2>4, <2>6, <3>1, PutShapes
  <2>8. /\ chan' = [chan EXCEPT ![IO!ALICE] = @ \o items] /\ log' = [log EXCEPT ![IO!ALICE] = @ \o items]
        /\ stage' = [stage EXCEPT ![IO!ALICE] = r.open]
    BY <2>2, <2>6 DEF IO!Put, IO!Unstage
  <2>9. seeds' = [seeds EXCEPT ![IO!ALICE] = r.seeds]
    <3>1. seeds = [seeds EXCEPT ![IO!ALICE] = seeds[IO!ALICE]]
      BY ONLY <1>2, <1>5, SameSeeds
    <3> QED
      BY <1>1, <1>5, <2>2, <3>1
  <2>10. r.open # << >> => Made(IO!BOB) < r.open[1]
    BY <2>2
  <2>11. IOInvOf(P, H)'
    BY ONLY Sizes, <1>1, <1>4, <1>10, <1>11, <1>13, <1>15, <2>4, <2>7, <2>8, <2>9, <2>10, b = Made(IO!BOB), AliceActs
  <2> QED
    BY <2>11, Landed
<1>17. CASE Len(bits) # STAGE
  <2> PICK items : items = << >>
    OBVIOUS
  <2>1. r = [log |-> q.log, open |-> bits, seeds |-> q.seeds]
    BY <1>9, <1>10, <1>17 DEF BitOf
  <2>2. r.log = q.log /\ r.open = bits /\ r.seeds = q.seeds
    BY ONLY <2>1
  <2>3. items \in Seq(Item) /\ Full(items) /\ r.log = log[IO!ALICE] \o items
    <3>1. Full(items)
      BY ONLY items = << >> DEF Full
    <3>2. items \in Seq(Item) /\ q.log = q.log \o items
      BY ONLY <1>8, items = << >>
    <3> QED
      BY <1>7, <2>2, <3>1, <3>2
  <2>4. chan' = chan /\ log' = log /\ visible' = visible /\ stage' = [stage EXCEPT ![IO!ALICE] = r.open]
    BY <1>1, <1>17, <2>2 DEF IO!netVars
  <2>5. chan \in [IO!Party -> Seq(Item)] /\ log \in [IO!Party -> Seq(Item)] /\ visible \in [IO!Party -> Nat]
        /\ \A u \in IO!Party : visible[u] <= Len(chan[u])
    BY <1>7 DEF Shapes
  <2>6. /\ chan' = [chan EXCEPT ![IO!ALICE] = @ \o items] /\ log' = [log EXCEPT ![IO!ALICE] = @ \o items]
    <3>1. chan[IO!ALICE] \o items = chan[IO!ALICE] /\ log[IO!ALICE] \o items = log[IO!ALICE]
      BY ONLY <1>2, <2>5, items = << >>
    <3> QED
      BY ONLY <2>4, <2>5, <3>1
  <2>7. visible' \in [IO!Party -> Nat] /\ \A u \in IO!Party : visible'[u] <= Len(chan'[u])
    BY <2>4, <2>5
  <2>8. seeds' = [seeds EXCEPT ![IO!ALICE] = r.seeds]
    <3>1. seeds = [seeds EXCEPT ![IO!ALICE] = seeds[IO!ALICE]]
      BY ONLY <1>2, <1>5, SameSeeds
    <3> QED
      BY <1>1, <1>5, <2>2, <3>1
  <2>9. b < r.open[1]
    <3>1. CASE q.open = << >>
      <4>1. bits[1] = m + 1
        BY ONLY <1>5, <1>8, <1>9, <3>1
      <4> QED
        BY ONLY <1>5, <1>6, <1>12, <2>2, <4>1
    <3>2. CASE q.open # << >>
      <4>1. bits[1] = q.open[1]
        BY ONLY <1>5, <1>8, <1>9, <3>2
      <4> QED
        BY <1>7, <1>14, <2>2, <3>2, <4>1
    <3> QED
      BY <3>1, <3>2
  <2>10. r.open # << >> => Made(IO!BOB) < r.open[1]
    BY <2>9
  <2>11. IOInvOf(P, H)'
    BY ONLY Sizes, <1>1, <1>4, <1>10, <1>11, <1>13, <1>15, <2>3, <2>4, <2>6, <2>7, <2>8, <2>10, b = Made(IO!BOB),
       AliceActs
  <2> QED
    BY <2>11, Landed
<1> QED
  BY <1>16, <1>17

LEMMA InitIO ==
  ASSUME Sizes, IO!Init
  PROVE  IOInv
<1> PICK z : z = [log |-> << >>, open |-> << >>, seeds |-> << >>]
  OBVIOUS
<1> PICK H : H = [i \in {0} |-> z]
  OBVIOUS
<1> PICK P : P = prog
  OBVIOUS
<1>1. /\ P = << >> /\ at = [p \in IO!Party |-> 1] /\ flushed = [p \in IO!Party |-> FALSE]
      /\ stage = [p \in IO!Party |-> << >>] /\ chan = [p \in IO!Party |-> << >>] /\ visible = [p \in IO!Party |-> 0]
      /\ got = [p \in IO!Party |-> << >>] /\ log = [p \in IO!Party |-> << >>] /\ seeds = [p \in IO!Party |-> << >>]
  BY DEF IO!Init
<1>2. z.log = << >> /\ z.open = << >> /\ z.seeds = << >> /\ z \in State /\ H[0] = z
  BY DEF State
<1>3. IO!ALICE \in IO!Party /\ IO!BOB \in IO!Party /\ Len(P) = 0 /\ STAGE \in Nat \ {0} /\ MaxCalls \in Nat /\ P \in Seq(IO!Call)
  BY <1>1 DEF IO!Party, Sizes
<1>4. \A p \in IO!Party : /\ at[p] = 1 /\ ~flushed[p] /\ stage[p] = << >> /\ chan[p] = << >> /\ visible[p] = 0
                          /\ got[p] = << >> /\ log[p] = << >> /\ seeds[p] = << >>
  BY <1>1
<1>5. \A p \in IO!Party : Made(p) = 0 /\ ~Cutting(p) /\ As(p, H) = z
  <2> TAKE p \in IO!Party
  <2>1. at[p] = 1 /\ ~flushed[p] /\ 1 # MaxCalls + 2
    BY <1>3, <1>4
  <2>2. Made(p) = 0 /\ ~Cutting(p)
    BY ONLY <2>1 DEF Made, Cutting
  <2> QED
    BY <1>2, <2>2 DEF As
<1>6. Path(H, P)
  <2>1. StateOK(z, P, 0)
    BY <1>2, <1>3 DEF StateOK
  <2>2. Leads(0, z, z)
    BY <1>2, LeadsRefl
  <2>3. H[0] = [log |-> << >>, open |-> << >>, seeds |-> << >>]
    BY <1>2
  <2>4. \A i \in 0 .. Len(P) : StateOK(H[i], P, i)
    BY <1>2, <1>3, <2>1
  <2>5. \A i \in 0 .. Len(P) - 1 : H[i + 1] = Succ(H[i], P[i + 1], i + 1)
    BY <1>3
  <2>6. \A i \in 0 .. Len(P) : \A j \in i .. Len(P) : Leads(i, H[i], H[j])
    BY <1>2, <1>3, <2>2
  <2> QED
    BY ONLY <2>3, <2>4, <2>5, <2>6 DEF Path
<1>7. Control(P)
  <2>1. at \in [IO!Party -> Nat] /\ flushed \in [IO!Party -> BOOLEAN]
    BY ONLY <1>1
  <2> QED
    BY ONLY <1>3, <1>4, <1>5, <2>1 DEF Control
<1>8. Shapes
  <2>1. stage \in [IO!Party -> Seq(Nat)] /\ chan \in [IO!Party -> Seq(Item)] /\ visible \in [IO!Party -> Nat]
    BY ONLY <1>1
  <2>2. log \in [IO!Party -> Seq(Item)] /\ seeds \in [IO!Party -> Seq(Seq(Item))] /\ got \in [IO!Party -> Seq(Nat \X Nat)]
    BY ONLY <1>1
  <2>3. \A p \in IO!Party : visible[p] <= Len(chan[p])
    BY ONLY <1>4
  <2> QED
    BY ONLY <2>1, <2>2, <2>3 DEF Shapes
<1>9. UnderWay
  <2>1. ASSUME NEW p \in IO!Party PROVE Carries(p)
    <3>1. IO!Peer(p) \in IO!Party
      BY DEF IO!Peer, IO!Party
    <3>2. log[p] = << >> /\ log[IO!Peer(p)] = << >> /\ chan[p] = << >>
      BY ONLY <1>4, <3>1, p \in IO!Party
    <3>3. Begins(<< >>, << >>)
      BY DEF Begins
    <3> QED
      BY ONLY <3>2, <3>3 DEF Carries
  <2> QED
    BY <2>1 DEF UnderWay
<1>10. InTurn(P) /\ BlocksFull /\ IO!StreamsOrdered
  <2>1. InTurn(P)
    BY ONLY <1>3, <1>4 DEF InTurn
  <2>2. BlocksFull
    BY ONLY <1>4 DEF BlocksFull, Full
  <2>3. IO!StreamsOrdered
    BY ONLY <1>4 DEF IO!StreamsOrdered
  <2> QED
    BY <2>1, <2>2, <2>3
<1>11. AliceAt(H) /\ BobAt(H)
  BY ONLY <1>2, <1>3, <1>4, <1>5 DEF AliceAt, BobAt
<1>12. IOInvOf(P, H)
  BY <1>6, <1>7, <1>8, <1>9, <1>10, <1>11 DEF IOInvOf, Types
<1> QED
  BY <1>12 DEF IOInv

LEMMA NextIO ==
  ASSUME Sizes, IOInv, [IO!Next]_(IO!vars)
  PROVE  IOInv'
<1>1. ASSUME NEW p \in IO!Party, IO!PartyStep(p) PROVE IOInv'
  <2>1. CASE IO!Flush(p)
    BY <2>1, StepFlush
  <2>2. CASE IO!Challenge(p)
    BY <2>2, StepChallenge
  <2>3. CASE IO!Close(p)
    BY <2>3, StepClose
  <2>4. CASE p = IO!ALICE /\ (IO!SendBit \/ IO!SendData(p, "down") \/ IO!BeforeRecvData(p, "up") \/ IO!RecvData(p, "up"))
    <3>1. CASE IO!SendBit
      BY <3>1, StepSendBit
    <3>2. CASE IO!SendData(p, "down")
      BY <2>4, <3>2, StepSendData
    <3>3. CASE IO!BeforeRecvData(p, "up")
      BY <2>4, <3>3, StepBeforeRecvData
    <3>4. CASE IO!RecvData(p, "up")
      BY <2>4, <3>4, StepRecvData
    <3> QED
      BY <2>4, <3>1, <3>2, <3>3, <3>4
  <2>5. CASE p # IO!ALICE /\ (IO!RecvBit \/ IO!SendData(p, "up") \/ IO!BeforeRecvData(p, "down") \/ IO!RecvData(p, "down"))
    <3>1. CASE IO!RecvBit
      BY <3>1, StepRecvBit
    <3>2. CASE IO!SendData(p, "up")
      BY <2>5, <3>2, StepSendData
    <3>3. CASE IO!BeforeRecvData(p, "down")
      BY <2>5, <3>3, StepBeforeRecvData
    <3>4. CASE IO!RecvData(p, "down")
      BY <2>5, <3>4, StepRecvData
    <3> QED
      BY <2>5, <3>1, <3>2, <3>3, <3>4
  <2> QED
    BY <1>1, <2>1, <2>2, <2>3, <2>4, <2>5 DEF IO!PartyStep
<1>2. ASSUME UNCHANGED IO!vars PROVE IOInv'
  <2>1. PICK H : IOInvOf(prog, H)
    BY DEF IOInv
  <2>2. /\ prog' = prog /\ at' = at /\ flushed' = flushed /\ stage' = stage /\ chan' = chan
        /\ visible' = visible /\ got' = got /\ log' = log /\ seeds' = seeds
    BY <1>2 DEF IO!vars
  <2> PICK P : P = prog
    OBVIOUS
  <2>3. Control(P)' /\ Shapes'
    BY <2>1, <2>2 DEF IOInvOf, Types, Control, Shapes, Made
  <2>4. UnderWay' /\ BlocksFull' /\ IO!StreamsOrdered'
    BY <2>1, <2>2 DEF IOInvOf, UnderWay, Carries, BlocksFull, IO!StreamsOrdered
  <2>5. InTurn(P)'
    BY <2>1, <2>2 DEF IOInvOf, InTurn, Made
  <2>6. As(IO!ALICE, H)' = As(IO!ALICE, H) /\ As(IO!BOB, H)' = As(IO!BOB, H)
    BY <2>2 DEF As, Cutting, Made
  <2>7. AliceAt(H)' /\ BobAt(H)'
    BY <2>1, <2>2, <2>6 DEF IOInvOf, AliceAt, BobAt
  <2>8. IOInvOf(P, H)'
    BY <2>1, <2>3, <2>4, <2>5, <2>7 DEF IOInvOf, Types
  <2>9. P = prog'
    BY <2>2
  <2> QED
    BY <2>8, <2>9, Landed
<1>3. CASE IO!Next
  <2>1. CASE IO!Terminated
    BY <1>2, <2>1 DEF IO!Terminated
  <2>2. ASSUME NEW p \in IO!Party, IO!SpontaneousWrite(p) PROVE IOInv'
    BY <2>2, StepSpontaneousWrite
  <2> QED
    BY <1>1, <1>3, <2>1, <2>2 DEF IO!Next
<1> QED
  BY <1>2, <1>3

\* The transcripts of the challenges are those of the machine, which takes none back.
LEMMA SameChallenges ==
  ASSUME Sizes, IOInv
  PROVE  IO!SeedsAgree
<1>1. PICK H : IOInvOf(prog, H)
  BY DEF IOInv
<1>2. IO!ALICE \in IO!Party /\ IO!BOB \in IO!Party /\ Types(prog) /\ Path(H, prog)
  BY <1>1 DEF IOInvOf, IO!Party
<1> PICK a, b, A, B : a = Made(IO!ALICE) /\ b = Made(IO!BOB) /\ A = As(IO!ALICE, H) /\ B = As(IO!BOB, H)
  OBVIOUS
<1>3. /\ a \in Nat /\ b \in Nat /\ H[a] \in State /\ H[b] \in State /\ A \in State /\ B \in State
      /\ A = Cut(H[a]) \/ A = H[a]
      /\ B = Cut(H[b]) \/ B = H[b]
  BY <1>2, Standing
<1>4. seeds[IO!ALICE] = A.seeds /\ seeds[IO!BOB] = B.seeds
  BY <1>1 DEF IOInvOf, AliceAt, BobAt
<1>5. A.seeds \in Seq(Seq(Item)) /\ B.seeds \in Seq(Seq(Item))
  BY ONLY <1>3 DEF State
<1>6. Begins(A.seeds, B.seeds) \/ Begins(B.seeds, A.seeds)
  <2>1. CASE a < b
    <3>1. Leads(a, A, B)
      BY <1>2, <2>1, Later
    <3> QED
      BY ONLY <3>1 DEF Leads
  <2>2. CASE b < a
    <3>1. Leads(b, B, A)
      BY <1>2, <2>2, Later
    <3> QED
      BY ONLY <3>1 DEF Leads
  <2>3. CASE a = b
    <3>1. Cut(H[a]).seeds = H[a].seeds
      BY <1>3, CutIs
    <3>2. A.seeds = B.seeds
      BY ONLY <1>3, <2>3, <3>1
    <3>3. Len(A.seeds) \in Nat
      BY ONLY <1>5
    <3> QED
      BY ONLY <3>2, <3>3 DEF Begins
  <2> QED
    BY ONLY <1>3, <2>1, <2>2, <2>3
<1>7. \A k \in DOMAIN A.seeds \cap DOMAIN B.seeds : A.seeds[k] = B.seeds[k]
  <2> PICK s, t : s = A.seeds /\ t = B.seeds
    OBVIOUS
  <2>1. s \in Seq(Seq(Item)) /\ t \in Seq(Seq(Item)) /\ (Begins(s, t) \/ Begins(t, s))
    BY ONLY <1>5, <1>6, s = A.seeds, t = B.seeds
  <2>2. DOMAIN s = 1 .. Len(s) /\ DOMAIN t = 1 .. Len(t)
    BY ONLY <2>1
  <2>3. \A k \in DOMAIN s \cap DOMAIN t : s[k] = t[k]
    BY ONLY <2>1, <2>2 DEF Begins
  <2> QED
    BY ONLY <2>3, s = A.seeds, t = B.seeds
<1> QED
  BY ONLY <1>4, <1>7 DEF IO!SeedsAgree

\* The invariant holds throughout.
THEOREM BothFollow == IO!Spec => []IOInv
<1>1. Sizes
  BY StageAssumption, CallsAssumption DEF Sizes
<1>2. IO!Init => IOInv
  BY <1>1, InitIO
<1>3. IOInv /\ [IO!Next]_(IO!vars) => IOInv'
  BY <1>1, NextIO
<1> QED
  BY <1>2, <1>3, PTL DEF IO!Spec

\* Every call receives what the same call of the peer sent, for every program
\* of bits, bytes, flushes and challenges, and every size of the blocks.
THEOREM StreamsInOrder == IO!Spec => []StreamsOrdered
<1>1. IOInv => StreamsOrdered
  BY DEF IOInv, IOInvOf, StreamsOrdered, IO!StreamsOrdered, Party, IO!Party, ALICE, BOB, IO!ALICE, IO!BOB
<1> QED
  BY <1>1, BothFollow, PTL

\* The two ends draw every challenge from the same transcript.
THEOREM SameTranscripts == IO!Spec => []SeedsAgree
<1>1. IOInv => SeedsAgree
  <2>1. SUFFICES ASSUME IOInv PROVE SeedsAgree
    OBVIOUS
  <2>2. Sizes
    BY StageAssumption, CallsAssumption DEF Sizes
  <2>3. IO!SeedsAgree
    BY <2>1, <2>2, SameChallenges
  <2> QED
    BY <2>3 DEF SeedsAgree, IO!SeedsAgree, ALICE, BOB, IO!ALICE, IO!BOB
<1> QED
  BY <1>1, BothFollow, PTL

-----------------------------------------------------------------------------
(* CorrelationPipe.                                                        *)
USE NAssumption, BatchAssumption, MaxDrawAssumption

(* Ring arithmetic: an index moves to the next slot, or from the last one  *)
(* back to slot 0.                                                         *)
LEMMA NextIndex ==
  ASSUME NEW x \in Index
  PROVE  (x + 1) % N = IF x + 1 < N THEN x + 1 ELSE 0
BY SMTT(40), ZenonT(40) DEF Index

(* Live slots are pairwise different and differ from the first free one.   *)
LEMMA AheadInjective ==
  ASSUME head \in Index, NEW j \in 0 .. N, NEW k \in 0 .. N, j < k, k < N
  PROVE  Ahead(j) # Ahead(k) /\ Ahead(j) \in Index /\ Ahead(k) \in Index
BY DEF Ahead, Index

LEMMA TimesPlus ==
  ASSUME NEW a \in Nat, NEW b \in Nat, NEW c \in Nat
  PROVE  (a + b) * c = a * c + b * c
OBVIOUS

(* Multiplication by a natural number preserves the order.                 *)
LEMMA TimesMonotone ==
  ASSUME NEW a \in Nat, NEW b \in Nat, NEW c \in Nat, a <= b
  PROVE  a * c <= b * c
<1>1. (b - a) * c \in Nat
  <2>1. b - a \in Nat
    OBVIOUS
  <2> QED  BY <2>1
<1>2. b * c = a * c + (b - a) * c
  OBVIOUS
<1> QED
  BY <1>1, <1>2

(* A sequence that starts as the stream does, continued by what the stream *)
(* holds next, still starts as the stream does.                            *)
LEMMA ExtendInOrder ==
  ASSUME NEW s \in Seq(Int), NEW t \in Seq(Int), NEW n \in Nat, Len(t) = n,
         \A i \in 1 .. Len(s) : s[i] = i - 1,
         \A k \in 1 .. n : t[k] = Len(s) + k - 1
  PROVE  /\ s \o t \in Seq(Int) /\ Len(s \o t) = Len(s) + n
         /\ \A i \in 1 .. Len(s \o t) : (s \o t)[i] = i - 1
<1>1. s \o t \in Seq(Int) /\ Len(s \o t) = Len(s) + n
  BY ConcatProperties
<1>2. ASSUME NEW i \in 1 .. Len(s \o t)
      PROVE  (s \o t)[i] = i - 1
  <2>1. (s \o t)[i] = IF i <= Len(s) THEN s[i] ELSE t[i - Len(s)]
    BY <1>1, ConcatProperties
  <2>2. CASE i <= Len(s)
    BY <2>1, <2>2
  <2>3. CASE i > Len(s)
    <3>1. i - Len(s) \in 1 .. n
      BY <1>1, <2>3
    <3> QED  BY <2>1, <2>3, <3>1
  <2> QED  BY <2>2, <2>3
<1> QED
  BY <1>1, <1>2

LEMMA InitInv == Init => IInv
<1> SUFFICES ASSUME Init PROVE IInv
  OBVIOUS
<1>1. TypeOK
  <2>1. slot \in [Index -> [0 .. Batch - 1 -> Int]]
    BY DEF Init, None
  <2>2. 0 \in Index /\ out \in Seq(Int)
    BY DEF Init, Index
  <2>3. pslot = None /\ cur = None /\ off \in 0 .. Batch /\ want \in 0 .. MaxDraw
    BY DEF Init
  <2>4. /\ head \in Index /\ tail \in Index /\ count \in 0 .. N
        /\ done \in BOOLEAN /\ closing \in BOOLEAN
    BY <2>2 DEF Init
  <2>5. ppc \in ProducerPC /\ rounds \in Nat /\ cpc \in ConsumerPC
    BY DEF Init, ProducerPC, ConsumerPC
  <2> QED  BY <2>1, <2>2, <2>3, <2>4, <2>5 DEF TypeOK
<1>2. Released = 0 /\ Published = 0
  BY DEF Init, Released, Published
<1>3. RingShape /\ EngineHoldsHead
  BY DEF Init, RingShape, EngineHoldsHead, Ahead, Index, None
<1>4. RingContents
  BY DEF Init, RingContents
<1>5. Position
  BY <1>2 DEF Init, Position, None
<1>6. Phases /\ DeliveredInOrder /\ SleeperHasWaker /\ NeverClosedMidDraw
  BY DEF Init, Phases, DeliveredInOrder, SleeperHasWaker, NeverClosedMidDraw
<1> QED
  BY <1>1, <1>3, <1>4, <1>5, <1>6 DEF IInv

-----------------------------------------------------------------------------
(* Producer steps.                                                         *)

LEMMA AcquireFreeInv == IInv /\ AcquireFree => IInv'
<1> SUFFICES ASSUME IInv, AcquireFree PROVE IInv'
  OBVIOUS
<1> USE DEF IInv
<1>1. TypeOK'
  BY DEF AcquireFree, TypeOK, ring, consumer, ProducerPC
<1>2. /\ UNCHANGED <<slot, head, tail, count, done, rounds>>
      /\ UNCHANGED <<cpc, cur, off, want, closing, out>>
      /\ UNCHANGED <<Published, Released>>
  BY DEF AcquireFree, ring, consumer, Published, Released
<1>3. RingShape'
  BY <1>2 DEF AcquireFree, RingShape, Ahead
<1>4. EngineHoldsHead' /\ DeliveredInOrder' /\ NeverClosedMidDraw'
  BY <1>2 DEF EngineHoldsHead, DeliveredInOrder, NeverClosedMidDraw
<1>5. RingContents'
  BY <1>2 DEF AcquireFree, RingContents, Ahead
<1>6. Position'
  BY <1>2 DEF Position
<1>7. Phases' /\ SleeperHasWaker'
  BY <1>2 DEF AcquireFree, Phases, SleeperHasWaker, TypeOK
<1> QED
  BY <1>1, <1>3, <1>4, <1>5, <1>6, <1>7

LEMMA FillInv == IInv /\ Fill => IInv'
<1> SUFFICES ASSUME IInv, Fill PROVE IInv'
  OBVIOUS
<1> USE DEF IInv
<1>1. /\ ppc = "fill" /\ ppc' = "publish"
      /\ slot' = [slot EXCEPT ![tail] = Round(rounds)]
      /\ rounds' = rounds + 1 /\ pslot = tail /\ count < N
      /\ UNCHANGED <<head, tail, count, done, pslot>>
      /\ UNCHANGED <<cpc, cur, off, want, closing, out>>
  BY DEF Fill, consumer, RingShape
<1>2. Round(rounds) \in [0 .. Batch - 1 -> Int]
  BY DEF Round, TypeOK
<1>3. TypeOK'
  BY <1>1, <1>2 DEF TypeOK, ProducerPC
<1>4. UNCHANGED <<Published, Released>>
  BY <1>1 DEF Published, Released, TypeOK
<1>5. RingShape' /\ EngineHoldsHead' /\ Phases'
  BY <1>1 DEF RingShape, EngineHoldsHead, Phases, Ahead
<1>6. RingContents'
  <2>1. ASSUME NEW k \in 0 .. count - 1
        PROVE  slot'[Ahead(k)] = slot[Ahead(k)]
    <3>1. Ahead(k) # Ahead(count) /\ Ahead(k) \in Index
      <4>1. /\ head \in Index /\ k \in 0 .. N /\ count \in 0 .. N
            /\ k < count /\ count < N
        BY <1>1 DEF TypeOK
      <4> QED  BY <4>1, AheadInjective
    <3> QED  BY <1>1, <3>1 DEF TypeOK, RingShape
  <2>2. slot'[tail] = Round(rounds)
    BY <1>1 DEF TypeOK
  <2> QED
    BY <1>1, <1>4, <2>1, <2>2 DEF RingContents, Ahead, TypeOK
<1>7. Position' /\ DeliveredInOrder' /\ SleeperHasWaker' /\ NeverClosedMidDraw'
  BY <1>1, <1>4 DEF Position, DeliveredInOrder, SleeperHasWaker, NeverClosedMidDraw
<1> QED
  BY <1>3, <1>5, <1>6, <1>7

LEMMA PublishInv == IInv /\ Publish => IInv'
<1> SUFFICES ASSUME IInv, Publish PROVE IInv'
  OBVIOUS
<1> USE DEF IInv
<1>1. /\ ppc = "publish" /\ ppc' = "notify"
      /\ tail' = (tail + 1) % N /\ count' = count + 1 /\ count < N
      /\ pslot = tail /\ tail = Ahead(count)
      /\ UNCHANGED <<slot, head, done, pslot, rounds>>
      /\ UNCHANGED <<cpc, cur, off, want, closing, out>>
  BY DEF Publish, consumer, RingShape
<1>2. tail' = IF tail + 1 < N THEN tail + 1 ELSE 0
  BY <1>1, NextIndex DEF TypeOK
<1>3. TypeOK'
  <2>1. tail' \in Index
    BY <1>2 DEF TypeOK, Index
  <2>2. count' \in 0 .. N
    BY <1>1 DEF TypeOK
  <2> QED  BY <1>1, <2>1, <2>2 DEF TypeOK, ProducerPC
<1>4. Published' = Published + 1 /\ Released' = Released /\ Published = rounds - 1
  BY <1>1 DEF Published, Released, TypeOK
<1>5. RingShape'
  <2>1. head \in 0 .. N - 1 /\ count \in 0 .. N - 1
    BY <1>1 DEF TypeOK, Index
  <2>2. tail' = Ahead(count + 1)
    BY <1>1, <1>2, <2>1 DEF Ahead
  <2> QED  BY <1>1, <2>2 DEF RingShape, Ahead
<1>6. RingContents'
  <2>1. slot[Ahead(count)] = Round(Released + count)
    BY <1>1, <1>4 DEF RingContents, Released, TypeOK
  <2>2. ASSUME NEW k \in 0 .. count' - 1
        PROVE  slot[Ahead(k)] = Round(Released + k)
    <3>1. k = count \/ k \in 0 .. count - 1
      BY <1>1 DEF TypeOK
    <3> QED  BY <2>1, <3>1 DEF RingContents
  <2> QED
    BY <1>1, <1>4, <2>2 DEF RingContents, Ahead
<1>7. EngineHoldsHead' /\ Phases' /\ Position'
  BY <1>1, <1>4 DEF EngineHoldsHead, Phases, Position, TypeOK
<1>8. DeliveredInOrder' /\ SleeperHasWaker' /\ NeverClosedMidDraw'
  BY <1>1 DEF DeliveredInOrder, SleeperHasWaker, NeverClosedMidDraw
<1> QED
  BY <1>3, <1>5, <1>6, <1>7, <1>8

LEMMA NotifyReadyInv == IInv /\ NotifyReady => IInv'
<1> SUFFICES ASSUME IInv, NotifyReady PROVE IInv'
  OBVIOUS
<1> USE DEF IInv
<1>1. /\ ppc = "notify" /\ ppc' = "acquire"
      /\ UNCHANGED <<slot, head, tail, count, done, pslot, rounds>>
      /\ UNCHANGED <<cur, off, want, closing, out>>
      /\ UNCHANGED <<Published, Released>>
  BY DEF NotifyReady, ring, Published, Released
<1>2. \/ cpc' = cpc /\ cpc # "sleeping"
      \/ cpc = "sleeping" /\ cpc' = "draw"
  BY DEF NotifyReady
<1>3. TypeOK'
  BY <1>1, <1>2 DEF TypeOK, ProducerPC, ConsumerPC
<1>4. RingShape' /\ RingContents' /\ Position' /\ DeliveredInOrder'
  BY <1>1 DEF RingShape, RingContents, Position, DeliveredInOrder, Ahead
<1>5. EngineHoldsHead' /\ Phases' /\ SleeperHasWaker' /\ NeverClosedMidDraw'
  BY <1>1, <1>2 DEF EngineHoldsHead, Phases, SleeperHasWaker, NeverClosedMidDraw
<1> QED
  BY <1>3, <1>4, <1>5

-----------------------------------------------------------------------------
(* Engine steps.                                                           *)

LEMMA DrawInv ==
  ASSUME IInv, NEW n \in 1 .. MaxDraw - Len(out), Draw(n)
  PROVE  IInv'
<1> USE DEF IInv
<1>1. /\ cpc = "idle" /\ cpc' = "draw" /\ want = 0 /\ want' = n
      /\ UNCHANGED <<slot, head, tail, count, done, ppc, pslot, rounds>>
      /\ UNCHANGED <<cur, off, closing, out>> /\ ~closing
      /\ UNCHANGED <<Published, Released>>
  BY DEF Draw, ring, producer, Phases, Published, Released
<1>2. n \in Nat /\ n > 0 /\ n + Len(out) <= MaxDraw /\ n <= MaxDraw
  BY DEF TypeOK
<1>3. TypeOK'
  BY <1>1, <1>2 DEF TypeOK, ConsumerPC
<1>4. RingShape' /\ RingContents' /\ Position' /\ DeliveredInOrder'
  BY <1>1 DEF RingShape, RingContents, Position, DeliveredInOrder, Ahead
<1>5. EngineHoldsHead' /\ Phases' /\ SleeperHasWaker' /\ NeverClosedMidDraw'
  BY <1>1, <1>2 DEF EngineHoldsHead, Phases, SleeperHasWaker, NeverClosedMidDraw
<1> QED
  BY <1>3, <1>4, <1>5

LEMMA AcquireReadyInv == IInv /\ AcquireReady => IInv'
<1> SUFFICES ASSUME IInv, AcquireReady PROVE IInv'
  OBVIOUS
<1> USE DEF IInv
<1>1. /\ cpc = "draw" /\ cur = None /\ ~done /\ ~closing
      /\ UNCHANGED <<slot, head, tail, count, done, ppc, pslot, rounds>>
      /\ UNCHANGED <<want, closing, out>>
      /\ UNCHANGED <<Published, Released>>
  BY DEF AcquireReady, ring, producer, Phases, Published, Released
<1>2. \/ count > 0 /\ cur' = head /\ off' = 0 /\ cpc' = "draw"
      \/ count = 0 /\ cpc' = "sleeping" /\ UNCHANGED <<cur, off>>
  BY <1>1 DEF AcquireReady
<1>3. TypeOK'
  BY <1>1, <1>2 DEF TypeOK, ConsumerPC
<1>4. RingShape' /\ RingContents' /\ DeliveredInOrder'
  BY <1>1 DEF RingShape, RingContents, DeliveredInOrder, Ahead
<1>5. Position'
  <2>1. Released \in Int /\ Len(out) = Released * Batch
    BY <1>1 DEF Position, TypeOK, Published, Released
  <2>2. Released >= 0 /\ Released' = Released /\ Len(out') = Len(out)
    BY <1>1 DEF Position
  <2>3. Released * Batch + 0 = Released * Batch
    BY <2>1
  <2> QED  BY <1>1, <1>2, <2>1, <2>2, <2>3 DEF Position
<1>6. EngineHoldsHead' /\ Phases' /\ SleeperHasWaker' /\ NeverClosedMidDraw'
  BY <1>1, <1>2 DEF EngineHoldsHead, Phases, SleeperHasWaker, NeverClosedMidDraw
<1> QED
  BY <1>3, <1>4, <1>5, <1>6

(* One memcpy appends the next correlations of the stream to the output.   *)
LEMMA CopyExtends ==
  ASSUME IInv, Copy
  PROVE  \E n \in 1 .. Batch : \E seg \in Seq(Int) :
           /\ n <= want /\ off + n <= Batch /\ (n = want \/ off + n = Batch)
           /\ seg = [k \in 1 .. n |-> Len(out) + k - 1]
           /\ out' = out \o seg /\ off' = off + n /\ want' = want - n
           /\ Len(out) = Released * Batch + off /\ Released \in Nat
<1> USE DEF IInv
<1> DEFINE take == Lesser(want, Batch - off)
           seg  == Segment(slot[cur], off, take)
<1>1. /\ cpc = "draw" /\ cur # None /\ ~closing /\ ~done
      /\ cur = head /\ count > 0 /\ off < Batch /\ want > 0
      /\ out' = out \o seg /\ off' = off + take /\ want' = want - take
      /\ cpc' = IF off' = Batch THEN "release" ELSE "idle"
      /\ UNCHANGED <<slot, head, tail, count, done, ppc, pslot, rounds>>
      /\ UNCHANGED <<cur, closing>>
      /\ UNCHANGED <<Published, Released>>
  BY DEF Copy, ring, producer, EngineHoldsHead, Phases, Published, Released
<1>2. /\ take \in 1 .. Batch /\ take <= want /\ off + take <= Batch
      /\ take = want \/ off + take = Batch
  BY <1>1 DEF TypeOK, Lesser
<1>3. /\ slot[cur] = Round(Released) /\ Released \in Nat
      /\ Len(out) = Released * Batch + off
  <2>1. Released \in Nat /\ Len(out) = Released * Batch + off
    BY <1>1, SMTT(40), ZenonT(40) DEF Position, TypeOK, Published, Released
  <2>2. slot[Ahead(0)] = Round(Released + 0)
    BY <1>1 DEF RingContents, TypeOK
  <2>3. Ahead(0) = cur /\ Released + 0 = Released
    BY <1>1, <2>1 DEF Ahead, TypeOK, Index
  <2> QED  BY <2>1, <2>2, <2>3
<1>4. seg \in Seq(Int) /\ seg = [k \in 1 .. take |-> Len(out) + k - 1]
  <2>1. seg = [k \in 1 .. take |-> slot[cur][off + k - 1]]
    BY DEF Segment
  <2>2. ASSUME NEW k \in 1 .. take
        PROVE  slot[cur][off + k - 1] = Len(out) + k - 1
    <3>1. off + k - 1 \in 0 .. Batch - 1
      BY <1>2 DEF TypeOK
    <3>2. slot[cur][off + k - 1] = Released * Batch + (off + k - 1)
      BY <1>3, <3>1 DEF Round
    <3>3. Released * Batch \in Int
      BY <1>3
    <3> QED  BY <1>3, <3>2, <3>3 DEF TypeOK
  <2>3. Len(out) \in Nat /\ take \in Nat
    BY <1>2, SMTT(40), ZenonT(40) DEF TypeOK
  <2> HIDE DEF take, seg
  <2>4. seg = [k \in 1 .. take |-> Len(out) + k - 1]
    BY <2>1, <2>2
  <2>5. \A k \in 1 .. take : Len(out) + k - 1 \in Int
    BY <2>3
  <2> QED  BY <2>3, <2>4, <2>5
<1> HIDE DEF take, seg
<1> QED
  BY <1>1, <1>2, <1>3, <1>4

LEMMA CopyInv == IInv /\ Copy => IInv'
<1> SUFFICES ASSUME IInv, Copy PROVE IInv'
  OBVIOUS
<1> USE DEF IInv
<1>1. /\ cpc = "draw" /\ cur # None /\ ~closing /\ ~done
      /\ cur = head /\ count > 0 /\ off < Batch /\ want > 0
      /\ cpc' = IF off' = Batch THEN "release" ELSE "idle"
      /\ UNCHANGED <<slot, head, tail, count, done, ppc, pslot, rounds>>
      /\ UNCHANGED <<cur, closing>>
      /\ UNCHANGED <<Published, Released>>
  BY DEF Copy, ring, producer, EngineHoldsHead, Phases, Published, Released
<1>2. PICK take \in 1 .. Batch, seg \in Seq(Int) :
         /\ take <= want /\ off + take <= Batch
         /\ take = want \/ off + take = Batch
         /\ seg = [k \in 1 .. take |-> Len(out) + k - 1]
         /\ out' = out \o seg /\ off' = off + take /\ want' = want - take
         /\ Len(out) = Released * Batch + off /\ Released \in Nat
  BY CopyExtends
<1>5. /\ out' \in Seq(Int) /\ Len(out') = Len(out) + take
      /\ \A i \in 1 .. Len(out') : out'[i] = i - 1
  <2>1. out \in Seq(Int) /\ \A i \in 1 .. Len(out) : out[i] = i - 1
    BY DEF TypeOK, DeliveredInOrder
  <2>2. Len(seg) = take /\ \A k \in 1 .. take : seg[k] = Len(out) + k - 1
    BY <1>2
  <2>3. out' = out \o seg /\ take \in Nat
    BY <1>2
  <2> QED  BY <2>1, <2>2, <2>3, ExtendInOrder
<1>6. TypeOK'
  <2>1. want' \in 0 .. MaxDraw /\ off' \in 0 .. Batch
    BY <1>1, <1>2 DEF TypeOK
  <2>2. cpc' \in ConsumerPC
    BY <1>1 DEF ConsumerPC
  <2> QED  BY <1>1, <1>5, <2>1, <2>2 DEF TypeOK
<1>7. RingShape' /\ RingContents'
  BY <1>1 DEF RingShape, RingContents, Ahead
<1>8. EngineHoldsHead'
  BY <1>1, <1>2 DEF EngineHoldsHead, TypeOK
<1>9. Position'
  BY <1>1, <1>2, <1>5 DEF Position, TypeOK
<1>10. Phases' /\ SleeperHasWaker' /\ NeverClosedMidDraw'
  <2>1. want' + Len(out') = want + Len(out)
    <3>1. want \in Int /\ take \in Int /\ Len(out) \in Int
      BY DEF TypeOK
    <3>2. want' = want - take /\ Len(out') = Len(out) + take
      BY <1>2, <1>5
    <3> QED  BY <3>1, <3>2
  <2>2. cpc' = "idle" => want' = 0
    BY <1>1, <1>2 DEF TypeOK
  <2>3. cpc' \in {"release", "idle"}
    BY <1>1
  <2> QED  BY <1>1, <2>1, <2>2, <2>3 DEF Phases, SleeperHasWaker, NeverClosedMidDraw
<1>11. DeliveredInOrder'
  BY <1>5 DEF DeliveredInOrder
<1> QED
  BY <1>6, <1>7, <1>8, <1>9, <1>10, <1>11

LEMMA ReleaseInv == IInv /\ Release => IInv'
<1> SUFFICES ASSUME IInv, Release PROVE IInv'
  OBVIOUS
<1> USE DEF IInv
<1>1. /\ cpc = "release" /\ cpc' = "notify" /\ ~done
      /\ cur = head /\ cur' = None /\ count > 0 /\ count' = count - 1
      /\ head' = (head + 1) % N
      /\ closing \/ off = Batch
      /\ UNCHANGED <<slot, tail, done, ppc, pslot, rounds>>
      /\ UNCHANGED <<off, want, closing, out>>
  BY DEF Release, producer, EngineHoldsHead, Phases
<1>2. head \in Index /\ head' = IF head + 1 < N THEN head + 1 ELSE 0
  <2>1. head \in Index
    BY DEF TypeOK
  <2>2. head' = (head + 1) % N
    BY DEF Release
  <2> QED  BY <2>1, <2>2, NextIndex
<1>3. /\ Published' = Published /\ Released' = Released + 1
      /\ Released \in Nat /\ Len(out) = Released * Batch + off
  <2>1. Published' = Published /\ Published \in Int /\ count \in Nat
    BY <1>1 DEF Published, TypeOK
  <2>2. Released \in Nat /\ Released' = Released + 1
    BY <1>1, <2>1 DEF Released, Position
  <2>3. cur # None
    BY <1>1 DEF EngineHoldsHead
  <2> QED  BY <2>1, <2>2, <2>3 DEF Position
<1>4. TypeOK'
  <2>1. head' \in Index /\ count' \in 0 .. N /\ cur' \in Index \cup {None}
    BY <1>1, <1>2 DEF TypeOK, Index
  <2> QED  BY <1>1, <2>1 DEF TypeOK, ConsumerPC
<1>5. \A k \in 0 .. N - 1 :
         Ahead(k + 1) = IF head' + k < N THEN head' + k ELSE head' + k - N
  BY <1>2 DEF Ahead, TypeOK, Index
<1>6. RingShape'
  <2>1. count' \in 0 .. N - 1 /\ count' + 1 = count
    BY <1>1 DEF TypeOK
  <2>2. tail' = IF head' + count' < N THEN head' + count' ELSE head' + count' - N
    BY <1>1, <1>5, <2>1 DEF RingShape
  <2>3. ppc' \in {"fill", "publish"} => pslot' = tail' /\ count' < N
    BY <1>1, <2>1 DEF RingShape
  <2> QED  BY <2>2, <2>3 DEF RingShape, Ahead
<1>7. RingContents'
  <2>1. ASSUME NEW k \in 0 .. count' - 1
        PROVE  slot'[IF head' + k < N THEN head' + k ELSE head' + k - N]
                 = Round(Released' + k)
    <3>1. k + 1 \in 0 .. count - 1 /\ k \in 0 .. N - 1
      BY <1>1 DEF TypeOK
    <3>2. Released' + k = Released + (k + 1)
      BY <1>3
    <3> QED  BY <1>1, <1>5, <3>1, <3>2 DEF RingContents
  <2>2. ppc' = "publish" => slot'[pslot'] = Round(rounds' - 1)
    BY <1>1 DEF RingContents
  <2> QED  BY <2>1, <2>2 DEF RingContents, Ahead
<1>8. Position'
  <2>1. /\ Released' * Batch = Released * Batch + Batch
        /\ Released * Batch \in Nat
    BY <1>3
  <2>2. off \in 1 .. Batch /\ (closing \/ off = Batch) /\ cur' = None
    <3>1. cur # None
      BY <1>1 DEF EngineHoldsHead
    <3> QED  BY <1>1, <3>1 DEF TypeOK, EngineHoldsHead
  <2> QED  BY <1>1, <1>3, <2>1, <2>2 DEF Position
<1>9. EngineHoldsHead' /\ Phases' /\ DeliveredInOrder' /\ NeverClosedMidDraw'
  BY <1>1 DEF EngineHoldsHead, Phases, DeliveredInOrder, NeverClosedMidDraw
<1>10. SleeperHasWaker'
  BY <1>1 DEF SleeperHasWaker
<1> QED
  BY <1>4, <1>6, <1>7, <1>8, <1>9, <1>10

LEMMA NotifyFreeInv == IInv /\ NotifyFree => IInv'
<1> SUFFICES ASSUME IInv, NotifyFree PROVE IInv'
  OBVIOUS
<1> USE DEF IInv
<1>1. /\ cpc = "notify"
      /\ \/ closing /\ cpc' = "finish"
         \/ ~closing /\ want > 0 /\ cpc' = "draw"
         \/ ~closing /\ want = 0 /\ cpc' = "idle"
      /\ \/ ppc = "sleeping" /\ ppc' = "acquire"
         \/ ppc # "sleeping" /\ ppc' = ppc
      /\ ~done /\ UNCHANGED <<done, closing>>
      /\ UNCHANGED <<slot, head, tail, count, pslot, rounds, cur, off, want, out>>
      /\ UNCHANGED <<Published, Released>>
  BY DEF NotifyFree, WakeProducer, ring, Phases, Published, Released, TypeOK
<1>2. TypeOK'
  BY <1>1 DEF TypeOK, ProducerPC, ConsumerPC
<1>3. RingShape' /\ RingContents' /\ DeliveredInOrder' /\ Position'
  BY <1>1 DEF RingShape, RingContents, DeliveredInOrder, Position, Ahead
<1>4. EngineHoldsHead' /\ Phases' /\ SleeperHasWaker' /\ NeverClosedMidDraw'
  BY <1>1 DEF EngineHoldsHead, Phases, SleeperHasWaker, NeverClosedMidDraw
<1> QED
  BY <1>2, <1>3, <1>4

LEMMA CloseInv == IInv /\ Close => IInv'
<1> SUFFICES ASSUME IInv, Close PROVE IInv'
  OBVIOUS
<1> USE DEF IInv
<1>1. /\ cpc = "idle" /\ cpc' = IF cur # None THEN "release" ELSE "finish"
      /\ ~closing /\ closing' = TRUE /\ want = 0
      /\ UNCHANGED <<done, ppc>>
      /\ UNCHANGED <<slot, head, tail, count, pslot, rounds, cur, off, want, out>>
      /\ UNCHANGED <<Published, Released>>
  BY DEF Close, ring, producer, Phases, Published, Released
<1>2. TypeOK'
  BY <1>1 DEF TypeOK, ProducerPC, ConsumerPC
<1>3. RingShape' /\ RingContents' /\ DeliveredInOrder' /\ Position'
  BY <1>1 DEF RingShape, RingContents, DeliveredInOrder, Position, Ahead
<1>4. EngineHoldsHead' /\ Phases' /\ SleeperHasWaker' /\ NeverClosedMidDraw'
  BY <1>1 DEF EngineHoldsHead, Phases, SleeperHasWaker, NeverClosedMidDraw
<1> QED
  BY <1>2, <1>3, <1>4

LEMMA FinishInv == IInv /\ Finish => IInv'
<1> SUFFICES ASSUME IInv, Finish PROVE IInv'
  OBVIOUS
<1> USE DEF IInv
<1>1. /\ cpc = "finish" /\ cpc' = "notify_all" /\ done' = TRUE
      /\ UNCHANGED <<closing, ppc>>
      /\ UNCHANGED <<slot, head, tail, count, pslot, rounds, cur, off, want, out>>
      /\ UNCHANGED <<Published, Released>>
  BY DEF Finish, producer, Published, Released
<1>2. TypeOK'
  BY <1>1 DEF TypeOK, ProducerPC, ConsumerPC
<1>3. RingShape' /\ RingContents' /\ DeliveredInOrder' /\ Position'
  BY <1>1 DEF RingShape, RingContents, DeliveredInOrder, Position, Ahead
<1>4. EngineHoldsHead' /\ Phases' /\ SleeperHasWaker' /\ NeverClosedMidDraw'
  BY <1>1 DEF EngineHoldsHead, Phases, SleeperHasWaker, NeverClosedMidDraw
<1> QED
  BY <1>2, <1>3, <1>4

LEMMA NotifyAllInv == IInv /\ NotifyAll => IInv'
<1> SUFFICES ASSUME IInv, NotifyAll PROVE IInv'
  OBVIOUS
<1> USE DEF IInv
<1>1. /\ cpc = "notify_all" /\ cpc' = "join"
      /\ \/ ppc = "sleeping" /\ ppc' = "acquire"
         \/ ppc # "sleeping" /\ ppc' = ppc
      /\ UNCHANGED <<done, closing>>
      /\ UNCHANGED <<slot, head, tail, count, pslot, rounds, cur, off, want, out>>
      /\ UNCHANGED <<Published, Released>>
  BY DEF NotifyAll, WakeProducer, ring, Published, Released
<1>2. TypeOK'
  BY <1>1 DEF TypeOK, ProducerPC, ConsumerPC
<1>3. RingShape' /\ RingContents' /\ DeliveredInOrder' /\ Position'
  BY <1>1 DEF RingShape, RingContents, DeliveredInOrder, Position, Ahead
<1>4. EngineHoldsHead' /\ Phases' /\ SleeperHasWaker' /\ NeverClosedMidDraw'
  BY <1>1 DEF EngineHoldsHead, Phases, SleeperHasWaker, NeverClosedMidDraw
<1> QED
  BY <1>2, <1>3, <1>4

LEMMA JoinInv == IInv /\ Join => IInv'
<1> SUFFICES ASSUME IInv, Join PROVE IInv'
  OBVIOUS
<1> USE DEF IInv
<1>1. /\ cpc = "join" /\ cpc' = "closed" /\ ppc = "exited" /\ UNCHANGED <<done, closing, ppc>>
      /\ UNCHANGED <<slot, head, tail, count, pslot, rounds, cur, off, want, out>>
      /\ UNCHANGED <<Published, Released>>
  BY DEF Join, ring, producer, Published, Released
<1>2. TypeOK'
  BY <1>1 DEF TypeOK, ProducerPC, ConsumerPC
<1>3. RingShape' /\ RingContents' /\ DeliveredInOrder' /\ Position'
  BY <1>1 DEF RingShape, RingContents, DeliveredInOrder, Position, Ahead
<1>4. EngineHoldsHead' /\ Phases' /\ SleeperHasWaker' /\ NeverClosedMidDraw'
  BY <1>1 DEF EngineHoldsHead, Phases, SleeperHasWaker, NeverClosedMidDraw
<1> QED
  BY <1>2, <1>3, <1>4

LEMMA SpuriousWakeInv == IInv /\ SpuriousWake => IInv'
<1> SUFFICES ASSUME IInv, SpuriousWake PROVE IInv'
  OBVIOUS
<1> USE DEF IInv
<1>1. /\ \/ ppc = "sleeping" /\ ppc' = "acquire" /\ cpc' = cpc
         \/ cpc = "sleeping" /\ cpc' = "draw" /\ ppc' = ppc
      /\ UNCHANGED <<done, closing>>
      /\ UNCHANGED <<slot, head, tail, count, pslot, rounds, cur, off, want, out>>
      /\ UNCHANGED <<Published, Released>>
  BY DEF SpuriousWake, ring, producer, consumer, Published, Released
<1>2. TypeOK'
  BY <1>1 DEF TypeOK, ProducerPC, ConsumerPC
<1>3. RingShape' /\ RingContents' /\ DeliveredInOrder' /\ Position'
  BY <1>1 DEF RingShape, RingContents, DeliveredInOrder, Position, Ahead
<1>4. EngineHoldsHead' /\ Phases' /\ SleeperHasWaker' /\ NeverClosedMidDraw'
  BY <1>1 DEF EngineHoldsHead, Phases, SleeperHasWaker, NeverClosedMidDraw
<1> QED
  BY <1>2, <1>3, <1>4

-----------------------------------------------------------------------------
(* Every reachable state satisfies the inductive invariant.                *)
THEOREM Invariance == Spec => []IInv
<1>1. IInv /\ [Next]_vars => IInv'
  <2> SUFFICES ASSUME IInv, [Next]_vars PROVE IInv'
    OBVIOUS
  <2>1. CASE ProducerStep
    BY <2>1, AcquireFreeInv, FillInv, PublishInv, NotifyReadyInv DEF ProducerStep
  <2>2. CASE \E n \in 1 .. MaxDraw - Len(out) : Draw(n)
    BY <2>2, DrawInv
  <2>3. CASE ConsumerStep
    BY <2>3, AcquireReadyInv, CopyInv, ReleaseInv, NotifyFreeInv, CloseInv,
       FinishInv, NotifyAllInv, JoinInv DEF ConsumerStep
  <2>4. CASE SpuriousWake
    BY <2>4, SpuriousWakeInv
  <2>5. CASE Terminated \/ UNCHANGED vars
    <3>1. UNCHANGED vars
      BY <2>5 DEF Terminated
    <3> QED
      BY <3>1 DEF vars, IInv, TypeOK, RingShape, EngineHoldsHead, RingContents,
         Position, Phases, DeliveredInOrder, SleeperHasWaker, NeverClosedMidDraw,
         Ahead, Published, Released
  <2> QED
    BY <2>1, <2>2, <2>3, <2>4, <2>5 DEF Next
<1> QED
  BY <1>1, InitInv, PTL DEF Spec

(* All variables keep their types.                                         *)
THEOREM TypeCorrect == Spec => []TypeOK
BY Invariance, PTL DEF IInv

(* The engine receives the stream in order, each correlation once.         *)
THEOREM InOrder == Spec => []DeliveredInOrder
BY Invariance, PTL DEF IInv

(* No wake-up is lost.                                                     *)
THEOREM NoLostWakeup == Spec => []SleeperHasWaker
BY Invariance, PTL DEF IInv

(* A draw never meets a closed pipe.                                       *)
THEOREM OpenDuringDraw == Spec => []NeverClosedMidDraw
BY Invariance, PTL DEF IInv

(* The producer never writes a slot the engine may read.                   *)
THEOREM Exclusion == Spec => []SlotExclusive
<1>1. IInv => SlotExclusive
  <2> SUFFICES ASSUME IInv, ppc \in {"fill", "publish"}
               PROVE  /\ pslot # cur
                      /\ \A k \in 0 .. count - 1 : pslot # Ahead(k)
    BY DEF SlotExclusive
  <2>1. /\ pslot = Ahead(count) /\ count \in 0 .. N - 1 /\ head \in Index
    BY DEF IInv, RingShape, TypeOK
  <2>2. ASSUME NEW k \in 0 .. count - 1
        PROVE  pslot # Ahead(k)
    <3>1. k \in 0 .. N /\ count \in 0 .. N /\ k < count /\ count < N
      BY <2>1
    <3> QED  BY <2>1, <3>1, AheadInjective
  <2>3. pslot # None
    BY <2>1 DEF Ahead, Index, None
  <2>4. CASE cur # None
    <3>1. cur = Ahead(0) /\ 0 \in 0 .. count - 1
      BY <2>1, <2>4 DEF IInv, EngineHoldsHead, Ahead, Index
    <3> QED  BY <2>2, <3>1
  <2> QED
    BY <2>2, <2>3, <2>4
<1> QED
  BY <1>1, Invariance, PTL

(* The sVOLE runs at most N rounds ahead of the rounds the engine uses.    *)
THEOREM Lookahead == Spec => []LookaheadBounded
<1>1. IInv => LookaheadBounded
  <2> SUFFICES ASSUME IInv PROVE LookaheadBounded
    OBVIOUS
  <2> DEFINE slack == IF closing THEN Batch - 1 ELSE 0
  <2>1. /\ rounds \in Nat /\ count \in 0 .. N /\ off \in 0 .. Batch
        /\ Len(out) \in Nat
    BY DEF IInv, TypeOK
  <2>2. rounds <= Released + N
    BY <2>1 DEF IInv, RingShape, Released, Published
  <2>3. Released \in Nat
    BY <2>1 DEF IInv, Position, Released, Published
  <2>4. Released * Batch <= Len(out) + slack
    BY <2>1, <2>3 DEF IInv, Position
  <2>5. rounds * Batch <= (Released + N) * Batch
    <3>1. Released + N \in Nat /\ Batch \in Nat
      BY <2>3
    <3> QED  BY <2>1, <2>2, <3>1, TimesMonotone
  <2>6. (Released + N) * Batch = Released * Batch + N * Batch
    BY <2>3, TimesPlus
  <2>7. /\ Released * Batch \in Nat /\ N * Batch \in Nat
        /\ rounds * Batch \in Nat /\ slack \in Nat
    BY <2>1, <2>3
  <2> HIDE DEF slack
  <2>8. \A p, q, r, s, t \in Nat : p <= q /\ q = r + t /\ r <= s => p <= s + t
    OBVIOUS
  <2>9. rounds * Batch <= Len(out) + slack + N * Batch
    <3>1. Len(out) + slack \in Nat /\ (Released + N) * Batch \in Nat
      BY <2>1, <2>6, <2>7
    <3> QED  BY <2>4, <2>5, <2>6, <2>7, <2>8, <3>1
  <2> QED
    BY <2>9 DEF LookaheadBounded, slack
<1> QED
  BY <1>1, Invariance, PTL

-----------------------------------------------------------------------------
(* The pipe and its threads implement the stream: initial states map to    *)
(* initial states, and each step maps to a step of the stream or to none.  *)

LEMMA PublishMaps == IInv /\ Publish => Stream!PublishRound
<1> SUFFICES ASSUME IInv, Publish PROVE Stream!PublishRound
  OBVIOUS
<1> DEFINE slack == IF closing THEN Batch - 1 ELSE 0
<1>1. /\ ppc = "publish" /\ ppc' = "notify" /\ count \in 0 .. N - 1
      /\ rounds \in Nat /\ Len(out) \in Nat /\ off \in 0 .. Batch
      /\ UNCHANGED <<rounds, want, out, cpc, closing>>
  BY DEF IInv, RingShape, TypeOK, Publish, consumer
<1>2. cpc # "closed" /\ Published' = Published + 1
  BY <1>1 DEF IInv, Phases, Published
<1>3. Released \in Nat /\ Published + 1 <= Released + N /\ Published \in Int
  BY <1>1 DEF IInv, Position, Released, Published
<1>4. Published + 1 \in Nat
  BY <1>1 DEF Published
<1>5. Released * Batch <= Len(out) + slack
  BY <1>1, <1>3 DEF IInv, Position
<1>6. (Published + 1) * Batch <= (Released + N) * Batch
  <2>1. Released + N \in Nat /\ Batch \in Nat
    BY <1>3
  <2> QED  BY <1>3, <1>4, <2>1, TimesMonotone
<1>7. (Released + N) * Batch = Released * Batch + N * Batch
  BY <1>3, TimesPlus
<1>8. /\ Released * Batch \in Nat /\ N * Batch \in Nat /\ slack \in Nat
      /\ (Published + 1) * Batch \in Nat
  BY <1>3, <1>4
<1> HIDE DEF slack
<1>9. (Published + 1) * Batch <= Len(out) + slack + N * Batch
  <2>1. \A p, q, r, s, t \in Nat : p <= q /\ q = r + t /\ r <= s => p <= s + t
    OBVIOUS
  <2>2. Len(out) + slack \in Nat /\ (Released + N) * Batch \in Nat
    BY <1>1, <1>7, <1>8
  <2> QED  BY <1>5, <1>6, <1>7, <1>8, <2>1, <2>2
<1> QED
  BY <1>1, <1>2, <1>9 DEF Stream!PublishRound, Stream!Slack, slack, Phase

LEMMA CopyMaps == IInv /\ Copy => Stream!DeliverSome
<1> SUFFICES ASSUME IInv, Copy PROVE Stream!DeliverSome
  OBVIOUS
<1>1. PICK n \in 1 .. Batch, seg \in Seq(Int) :
         /\ n <= want /\ off + n <= Batch
         /\ seg = [k \in 1 .. n |-> Len(out) + k - 1]
         /\ out' = out \o seg /\ want' = want - n
         /\ Len(out) = Released * Batch + off /\ Released \in Nat
  BY CopyExtends
<1>2. /\ cpc \notin {"closed"} /\ cpc' # "closed" /\ ~closing /\ ~closing'
      /\ count >= 1 /\ count \in Nat /\ rounds \in Nat
      /\ off \in 0 .. Batch /\ want \in 0 .. MaxDraw
      /\ UNCHANGED Published
  BY DEF IInv, TypeOK, EngineHoldsHead, Phases, Copy, ring, producer, Published
<1>3. n \in 1 .. MaxDraw
  BY <1>1, <1>2
<1>4. Len(out) + n <= Published * Batch
  <2>1. Released + 1 <= Published /\ Published \in Nat
    BY <1>1, <1>2 DEF Released, Published
  <2>2. (Released + 1) * Batch <= Published * Batch
    <3>1. Released + 1 \in Nat /\ Batch \in Nat
      BY <1>1
    <3> QED  BY <2>1, <3>1, TimesMonotone
  <2>3. (Released + 1) * Batch = Released * Batch + Batch
    BY <1>1
  <2>4. Released * Batch \in Nat /\ Published * Batch \in Nat
    BY <1>1, <2>1
  <2> QED  BY <1>1, <1>2, <2>2, <2>3, <2>4
<1>5. Stream!Deliver(n)
  BY <1>1, <1>2, <1>4 DEF Stream!Deliver, Phase
<1> QED
  BY <1>3, <1>5 DEF Stream!DeliverSome

LEMMA StepMaps == IInv /\ [Next]_vars => [Stream!StreamNext]_(Stream!streamVars)
<1> SUFFICES ASSUME IInv, [Next]_vars
             PROVE  Stream!StreamNext \/ UNCHANGED <<Published, want, out, Phase>>
  BY DEF Stream!streamVars, Phase
<1>1. CASE Publish
  BY <1>1, PublishMaps DEF Stream!StreamNext
<1>2. CASE Copy
  BY <1>2, CopyMaps DEF Stream!StreamNext
<1>3. ASSUME NEW n \in 1 .. MaxDraw - Len(out), Draw(n)
      PROVE  Stream!StreamNext
  <2>1. n \in 1 .. MaxDraw
    BY DEF IInv, TypeOK
  <2>2. Stream!Request(n)
    BY <1>3 DEF IInv, Phases, Draw, ring, producer, Published, Phase,
           Stream!Request
  <2> QED  BY <2>1, <2>2 DEF Stream!StreamNext
<1>4. CASE Close
  <2>1. Stream!BeginClose
    BY <1>4 DEF IInv, Phases, Close, ring, producer, Published, Phase,
           Stream!BeginClose
  <2> QED  BY <2>1 DEF Stream!StreamNext
<1>5. CASE Join
  <2>1. Stream!EndClose
    BY <1>5 DEF IInv, Phases, Join, ring, producer, Published, Phase,
           Stream!EndClose
  <2> QED  BY <2>1 DEF Stream!StreamNext
<1>6. CASE Fill
  BY <1>6 DEF IInv, TypeOK, Fill, consumer, Published, Phase
<1>7. CASE AcquireFree \/ NotifyReady
  BY <1>7, SMTT(40), ZenonT(40) DEF IInv, TypeOK, AcquireFree, NotifyReady, ring, consumer, Published, Phase
<1>8. CASE AcquireReady \/ Release \/ SpuriousWake
  BY <1>8 DEF AcquireReady, Release, SpuriousWake, ring, producer, consumer,
              Published, Phase
<1>9. CASE NotifyFree \/ Finish \/ NotifyAll
  BY <1>9 DEF NotifyFree, Finish, NotifyAll, WakeProducer, ring, producer,
              Published, Phase
<1>10. CASE Terminated \/ UNCHANGED vars
  BY <1>10 DEF Terminated, vars, Published, Phase
<1> QED
  BY <1>1, <1>2, <1>3, <1>4, <1>5, <1>6, <1>7, <1>8, <1>9, <1>10
  DEF Next, ProducerStep, ConsumerStep

(* The safety half of ImplementsStream.                                    *)
THEOREM StreamSafety ==
  Spec => Stream!StreamInit /\ [][Stream!StreamNext]_(Stream!streamVars)
<1>1. Init => Stream!StreamInit
  BY DEF Init, Stream!StreamInit, Published, Phase
<1> QED
  BY <1>1, StepMaps, Invariance, PTL DEF Spec
=============================================================================
