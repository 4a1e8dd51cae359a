--------------------------- MODULE FpOSTripleProofs ---------------------------
(***************************************************************************)
(* The arithmetic engine, for every program of calls, every buffer size,   *)
(* batch and number of slots: all multiplications are checked, the two     *)
(* parties' transfers agree, no correlation masks two values, and how far  *)
(* the two parties of the background mode can drift apart.                 *)
(*                                                                         *)
(* The first three rest on one idea.  What an engine does does not depend  *)
(* on what it receives, only on the program and on how far it has come: it *)
(* is one deterministic machine (Engine, Started, Succ), the same for both *)
(* parties.  Sim says which of its states an engine is in.                 *)
(***************************************************************************)
EXTENDS FpOSTriple, TLAPS, SequenceTheorems

LEMMA PeerIsParty == \A p \in Party : Peer(p) \in Party /\ Peer(Peer(p)) = p /\ Peer(p) # p
BY DEF Party, Peer, ALICE, BOB

(***************************************************************************)
(* The calls as lists built from their ends.                               *)
(***************************************************************************)
What == {"lam", "seed", "sum", "d", "val", "digest"}
Sender(what)  == IF what = "seed" THEN BOB ELSE ALICE
Xfer(p, what) == [do |-> IF p = Sender(what) THEN "send" ELSE "recv", what |-> what]

Steps == {Flush, Finish} \cup {Draw(n, to) : n \in Nat, to \in {"reg", "buf"}}
                         \cup {Xfer(p, w) : p \in Party, w \in What}

Nil        == << >>
Cons(x, t) == <<x>> \o t

LEMMA ConsShape ==
  ASSUME NEW S, NEW x \in S, NEW t \in Seq(S)
  PROVE  /\ Cons(x, t) \in Seq(S)
         /\ Len(Cons(x, t)) = Len(t) + 1
         /\ Cons(x, t)[1] = x
         /\ \A i \in 1 .. Len(t) : Cons(x, t)[i + 1] = t[i]
BY DEF Cons

LEMMA ConsParts ==
  ASSUME NEW S, NEW x \in S, NEW t \in Seq(S)
  PROVE  Cons(x, t) # Nil /\ Head(Cons(x, t)) = x /\ Tail(Cons(x, t)) = t
<1> DEFINE c == Cons(x, t)
<1>1. c \in Seq(S) /\ c # Nil /\ Head(c) = x
      /\ Len(c) = Len(t) + 1 /\ \A i \in 1 .. Len(t) : c[i + 1] = t[i]
  BY ConsShape DEF Nil
<1> HIDE DEF c
<1>2. Tail(c) \in Seq(S) /\ Len(Tail(c)) = Len(t) /\ \A i \in 1 .. Len(t) : Tail(c)[i] = t[i]
  BY <1>1
<1>3. Tail(c) = t
  BY <1>2, SeqEqual
<1> QED
  BY <1>1, <1>3 DEF c

(* Lists put together, with the operators kept closed for the provers.     *)
Cat(s, t) == s \o t

LEMMA Singles ==
  ASSUME NEW S, NEW x \in S
  PROVE  /\ Nil \in Seq(S) /\ <<x>> \in Seq(S) /\ <<x>> = Cons(x, Nil)
         /\ << >> \o <<x>> = <<x>>
BY DEF Cons, Nil

LEMMA CatFacts ==
  ASSUME NEW S
  PROVE  /\ \A s, t \in Seq(S) : Cat(s, t) \in Seq(S)
         /\ \A s, t, u \in Seq(S) : Cat(Cat(s, t), u) = Cat(s, Cat(t, u))
         /\ \A x \in S, t, u \in Seq(S) : Cat(Cons(x, t), u) = Cons(x, Cat(t, u))
         /\ \A t \in Seq(S) : Cat(Nil, t) = t
         /\ Nil \in Seq(S)
         /\ \A x \in S, t \in Seq(S) : Cons(x, t) \in Seq(S)
<1>1. ASSUME NEW x \in S, NEW t \in Seq(S), NEW u \in Seq(S)
      PROVE  Cat(Cons(x, t), u) = Cons(x, Cat(t, u))
  <2>1. <<x>> \in Seq(S)
    OBVIOUS
  <2> QED
    BY <2>1, ConcatAssociative DEF Cons, Cat
<1>2. Nil \in Seq(S) /\ \A t \in Seq(S) : Cat(Nil, t) = t
  BY ConcatEmptySeq DEF Cat, Nil
<1>3. \A s, t, u \in Seq(S) : Cat(Cat(s, t), u) = Cat(s, Cat(t, u))
  BY ConcatAssociative, SMTT(40), ZenonT(40) DEF Cat
<1>4. \A s, t \in Seq(S) : Cat(s, t) \in Seq(S)
  BY DEF Cat
<1>5. \A x \in S, t \in Seq(S) : Cons(x, t) \in Seq(S)
  BY ConsShape
<1> QED
  BY <1>1, <1>2, <1>3, <1>4, <1>5

LEMMA PairList ==
  ASSUME NEW S, NEW x \in S, NEW y \in S
  PROVE  <<x, y>> = Cons(x, Cons(y, Nil))
<1>1. /\ <<x>> \in Seq(S) /\ <<y>> \in Seq(S) /\ Len(<<x>>) = 1 /\ Len(<<y>>) = 1
      /\ <<x, y>> \in Seq(S) /\ Len(<<x, y>>) = 2
  OBVIOUS
<1> DEFINE c == <<x>> \o <<y>>
<1>2. c \in Seq(S) /\ Len(c) = 2 /\ c[1] = x /\ c[2] = y
  BY <1>1, ConcatProperties
<1>3. <<x, y>> = c
  <2> HIDE DEF c
  <2> QED
    BY <1>1, <1>2, SeqEqual
<1> QED
  BY <1>3, Singles DEF Cons, Nil

LEMMA StepKinds ==
  /\ Flush \in Steps /\ Finish \in Steps
  /\ \A n \in Nat : Draw(n, "reg") \in Steps /\ Draw(n, "buf") \in Steps
  /\ \A p \in Party, w \in What : Xfer(p, w) \in Steps
  /\ Flush.do = "flush" /\ Finish.do = "finish"
  /\ \A n, to : Draw(n, to).do = "draw" /\ Draw(n, to).n = n /\ Draw(n, to).to = to
  /\ \A p, w : Xfer(p, w).do \in {"send", "recv"} /\ Xfer(p, w).what = w
  /\ \A p, w : Xfer(p, w).do = "send" <=> p = Sender(w)
<1>1. \A p \in Party, w \in What : Xfer(p, w) \in Steps
  BY DEF Steps
<1>2. \A n \in Nat : Draw(n, "reg") \in Steps /\ Draw(n, "buf") \in Steps
  BY DEF Steps
<1>3. Flush \in Steps /\ Finish \in Steps
  BY DEF Steps
<1> QED
  BY <1>1, <1>2, <1>3 DEF Flush, Finish, Draw, Xfer

\* The transfers: who sends what, and where the bit stream is flushed first.
LEMMA Transfers ==
  ASSUME NEW p \in Party
  PROVE  /\ \A w \in What \ {"seed"} : FromProver(p, w) = Cons(Xfer(p, w), Nil)
         /\ FromVerifier(p, "seed") = Cons(Flush, Cons(Xfer(p, "seed"), Nil))
<1>1. ASSUME NEW w \in What \ {"seed"}
      PROVE  FromProver(p, w) = Cons(Xfer(p, w), Nil)
  <2>1. CASE p = ALICE
    <3>1. FromProver(p, w) = << >> \o <<Xfer(p, w)>>
      BY <2>1, <1>1 DEF FromProver, Send, Xfer, Sender, ALICE, BOB
    <3> QED
      BY <3>1, Singles, StepKinds
  <2>2. CASE p = BOB
    <3>1. FromProver(p, w) = << >> \o <<Xfer(p, w)>>
      BY <2>2, <1>1 DEF FromProver, Recv, Xfer, Sender, ALICE, BOB
    <3> QED
      BY <3>1, Singles, StepKinds
  <2> QED
    BY <2>1, <2>2 DEF Party
<1>2. FromVerifier(p, "seed") = <<Flush>> \o <<Xfer(p, "seed")>>
  <2>1. CASE p = ALICE
    BY <2>1 DEF FromVerifier, Recv, Xfer, Sender, ALICE, BOB
  <2>2. CASE p = BOB
    BY <2>2 DEF FromVerifier, Send, Xfer, Sender, ALICE, BOB
  <2> QED
    BY <2>1, <2>2 DEF Party
<1>3. <<Xfer(p, "seed")>> = Cons(Xfer(p, "seed"), Nil)
  BY Singles, StepKinds DEF What
<1> QED
  BY <1>1, <1>2, <1>3 DEF Cons

LEMMA StepLists ==
  /\ \A s, t \in Seq(Steps) : Cat(s, t) \in Seq(Steps)
  /\ \A s, t, u \in Seq(Steps) : Cat(Cat(s, t), u) = Cat(s, Cat(t, u))
  /\ \A x \in Steps, t, u \in Seq(Steps) : Cat(Cons(x, t), u) = Cons(x, Cat(t, u))
  /\ \A t \in Seq(Steps) : Cat(Nil, t) = t
  /\ Nil \in Seq(Steps)
  /\ \A x \in Steps, t \in Seq(Steps) :
       /\ Cons(x, t) \in Seq(Steps)
       /\ Cons(x, t) # Nil /\ Head(Cons(x, t)) = x /\ Tail(Cons(x, t)) = t
BY CatFacts, ConsParts

LEMMA ShortLists ==
  \A x, y \in Steps, t \in Seq(Steps) :
    /\ Cat(Cons(x, Nil), t) = Cons(x, t)
    /\ Cat(Cons(x, Cons(y, Nil)), t) = Cons(x, Cons(y, t))
BY StepLists

(* The lists that are left of the calls.                                   *)
Fin(p)       == IF p = ALICE THEN Cons(Flush, Cons(Finish, Nil)) ELSE Cons(Finish, Nil)
Dig(p)       == Cons(Xfer(p, "digest"), Fin(p))
Blk(p)       == Cons(Xfer(p, "d"), Nil)
Refill(p, n) == Cons(Draw(n, "buf"), Blk(p))
Sums(p, r)     == Cons(Xfer(p, "sum"), Cons(Flush, r))
Chal(p, n, r)  == Cons(Draw(n, "reg"), Sums(p, r))
Seed(p, r)     == Cons(Xfer(p, "seed"), Cons(Flush, Chal(p, 1, r)))

LEMMA ListTypes ==
  ASSUME NEW p \in Party, NEW r \in Seq(Steps), NEW n \in Nat
  PROVE  /\ Fin(p) \in Seq(Steps) /\ Dig(p) \in Seq(Steps) /\ Blk(p) \in Seq(Steps)
         /\ Refill(p, n) \in Seq(Steps) /\ Sums(p, r) \in Seq(Steps)
         /\ Chal(p, n, r) \in Seq(Steps) /\ Seed(p, r) \in Seq(Steps)
<1>1. Nil \in Seq(Steps)
  BY StepLists
<1>2. Fin(p) \in Seq(Steps)
  BY <1>1, StepKinds, ConsShape DEF Fin
<1>3. Dig(p) \in Seq(Steps) /\ Blk(p) \in Seq(Steps)
  BY <1>1, <1>2, StepKinds, ConsShape DEF Dig, Blk, What
<1>4. Refill(p, n) \in Seq(Steps)
  BY <1>3, StepKinds, ConsShape DEF Refill
<1>5. Sums(p, r) \in Seq(Steps)
  BY StepKinds, ConsShape DEF Sums, What
<1>6. \A m \in Nat : Chal(p, m, r) \in Seq(Steps)
  BY <1>5, StepKinds, ConsShape DEF Chal
<1>7. Seed(p, r) \in Seq(Steps)
  BY <1>6, StepKinds, ConsShape DEF Seed, What
<1> QED
  BY <1>2, <1>3, <1>4, <1>5, <1>6, <1>7

LEMMA CheckLists ==
  ASSUME NEW p \in Party
  PROVE  /\ BatchCheck(p) \in Seq(Steps)
         /\ \A r \in Seq(Steps) : Cat(BatchCheck(p), r) = Cons(Flush, Cons(Flush, Seed(p, r)))
<1> DEFINE D == Draw(1, "reg")  X == Xfer(p, "seed")  Y == Xfer(p, "sum")
           F == Cons(Flush, Nil)  V == Cons(Flush, Cons(X, Nil))
           G == Cons(Flush, Cons(D, Nil))  S == Cons(Y, Nil)
<1>1. Flush \in Steps /\ D \in Steps /\ X \in Steps /\ Y \in Steps
  BY StepKinds DEF What
<1>2. FromVerifier(p, "seed") = V /\ FromProver(p, "sum") = S
  BY Transfers DEF What
<1>3. <<Flush>> = F /\ <<Flush, D>> = G
  BY <1>1, Singles, PairList
<1>4. BatchCheck(p) = Cat(Cat(Cat(Cat(F, V), G), S), F)
  BY <1>2, <1>3 DEF BatchCheck, Cat
<1> HIDE DEF D, X, Y
<1>5. /\ Nil \in Seq(Steps) /\ F \in Seq(Steps) /\ V \in Seq(Steps)
      /\ G \in Seq(Steps) /\ S \in Seq(Steps)
  BY <1>1, StepLists
<1>6. BatchCheck(p) \in Seq(Steps)
  <2>1. ASSUME NEW f \in Seq(Steps), NEW v \in Seq(Steps), NEW g \in Seq(Steps), NEW s \in Seq(Steps)
        PROVE  Cat(Cat(Cat(Cat(f, v), g), s), f) \in Seq(Steps)
    BY StepLists
  <2> HIDE DEF F, V, G, S
  <2>2. Cat(Cat(Cat(Cat(F, V), G), S), F) \in Seq(Steps)
    BY <2>1, <1>5
  <2> QED
    BY <2>2, <1>4
<1>7. ASSUME NEW r \in Seq(Steps)
      PROVE  Cat(BatchCheck(p), r) = Cons(Flush, Cons(Flush, Seed(p, r)))
  <2> DEFINE r1 == Cons(Flush, r)  r2 == Cons(Y, r1)  r3 == Cons(Flush, Cons(D, r2))
  <2>1. r1 \in Seq(Steps) /\ r2 \in Seq(Steps) /\ r3 \in Seq(Steps)
    BY <1>1, StepLists, SMTT(40), ZenonT(40)
  <2>2. \A t \in Seq(Steps) : /\ Cat(F, t) = Cons(Flush, t) /\ Cat(S, t) = Cons(Y, t)
                              /\ Cat(G, t) = Cons(Flush, Cons(D, t))
                              /\ Cat(V, t) = Cons(Flush, Cons(X, t))
    BY <1>1, ShortLists
  <2>3. Cat(BatchCheck(p), r) = Cat(F, Cat(V, Cat(G, Cat(S, Cat(F, r)))))
    <3>1. ASSUME NEW f \in Seq(Steps), NEW v \in Seq(Steps), NEW g \in Seq(Steps), NEW s \in Seq(Steps)
          PROVE  Cat(Cat(Cat(Cat(Cat(f, v), g), s), f), r) = Cat(f, Cat(v, Cat(g, Cat(s, Cat(f, r)))))
      <4>1. /\ Cat(f, v) \in Seq(Steps) /\ Cat(Cat(f, v), g) \in Seq(Steps)
            /\ Cat(Cat(Cat(f, v), g), s) \in Seq(Steps) /\ Cat(f, r) \in Seq(Steps)
            /\ Cat(s, Cat(f, r)) \in Seq(Steps) /\ Cat(g, Cat(s, Cat(f, r))) \in Seq(Steps)
        BY StepLists
      <4>2. Cat(Cat(Cat(Cat(Cat(f, v), g), s), f), r) = Cat(Cat(Cat(Cat(f, v), g), s), Cat(f, r))
        BY <4>1, StepLists
      <4>3. Cat(Cat(Cat(Cat(f, v), g), s), Cat(f, r)) = Cat(Cat(Cat(f, v), g), Cat(s, Cat(f, r)))
        BY <4>1, StepLists
      <4>4. Cat(Cat(Cat(f, v), g), Cat(s, Cat(f, r))) = Cat(Cat(f, v), Cat(g, Cat(s, Cat(f, r))))
        BY <4>1, StepLists
      <4>5. Cat(Cat(f, v), Cat(g, Cat(s, Cat(f, r)))) = Cat(f, Cat(v, Cat(g, Cat(s, Cat(f, r)))))
        BY <4>1, StepLists, SMTT(40), ZenonT(40)
      <4> QED
        BY <4>2, <4>3, <4>4, <4>5
    <3> HIDE DEF F, V, G, S
    <3>2. Cat(Cat(Cat(Cat(Cat(F, V), G), S), F), r) = Cat(F, Cat(V, Cat(G, Cat(S, Cat(F, r)))))
      BY <3>1, <1>5
    <3> QED
      BY <3>2, <1>4
  <2>4. Cat(F, r) = r1 /\ Cat(S, r1) = r2 /\ Cat(G, r2) = r3
        /\ Cat(V, r3) = Cons(Flush, Cons(X, r3)) /\ Cons(Flush, Cons(X, r3)) \in Seq(Steps)
    <3> HIDE DEF F, V, G, S
    <3> QED
      BY <2>1, <2>2, <1>1, StepLists
  <2>5. Cat(BatchCheck(p), r) = Cons(Flush, Cons(Flush, Cons(X, r3)))
    <3> HIDE DEF F, V, G, S, r1, r2, r3
    <3> QED
      BY <2>2, <2>3, <2>4
  <2> QED
    BY <2>5 DEF Seed, Chal, Sums, X, Y, D
<1> QED
  BY <1>6, <1>7

\* What the calls start with.
LEMMA CallLists ==
  ASSUME NEW p \in Party
  PROVE  /\ Construct = Cons(Draw(1, "reg"), Cons(Draw(CHECK_SZ, "buf"), Nil))
         /\ \A n \in Nat : Input(p, n) = Cons(Draw(n, "reg"), Cons(Xfer(p, "lam"), Nil))
         /\ Reveal(p) = Cons(Xfer(p, "val"), Nil)
         /\ MulBlock(p) = IF cnt[p] = CHECK_SZ
                          THEN Cons(Flush, Cons(Flush, Seed(p, Refill(p, CHECK_SZ))))
                          ELSE Blk(p)
         /\ Destruct(p) = IF cnt[p] # 0 THEN Cons(Flush, Cons(Flush, Seed(p, Dig(p)))) ELSE Dig(p)
<1>1. /\ CHECK_SZ \in Nat /\ Nil \in Seq(Steps)
      /\ <<Finish>> \in Seq(Steps) /\ <<Flush>> \in Seq(Steps) /\ <<Finish>> = Cons(Finish, Nil)
      /\ Draw(CHECK_SZ, "buf") \in Steps /\ Draw(1, "reg") \in Steps
      /\ Xfer(p, "d") \in Steps /\ Xfer(p, "digest") \in Steps
  BY CheckAssumption, StepKinds, Singles DEF What
<1>2. Construct = Cons(Draw(1, "reg"), Cons(Draw(CHECK_SZ, "buf"), Nil))
  BY <1>1, PairList DEF Construct
<1>3. ASSUME NEW n \in Nat
      PROVE  Input(p, n) = Cons(Draw(n, "reg"), Cons(Xfer(p, "lam"), Nil))
  BY Transfers DEF Input, Cons, What
<1>4. Reveal(p) = Cons(Xfer(p, "val"), Nil)
  BY Transfers DEF Reveal, What
<1>5. FromProver(p, "d") = Blk(p) /\ Blk(p) \in Seq(Steps)
  BY Transfers, ListTypes, <1>1, SMTT(40), ZenonT(40), Z3T(40) DEF Blk, What
<1>6. BatchCheck(p) \in Seq(Steps)
  BY CheckLists
<1>7. MulBlock(p) = IF cnt[p] = CHECK_SZ
                    THEN Cons(Flush, Cons(Flush, Seed(p, Refill(p, CHECK_SZ))))
                    ELSE Blk(p)
  <2> DEFINE b == Cons(Draw(CHECK_SZ, "buf"), Nil)
  <2>1. CASE cnt[p] = CHECK_SZ
    <3>1. <<Draw(CHECK_SZ, "buf")>> = b /\ b \in Seq(Steps)
      BY <1>1, Singles, StepLists
    <3>2. MulBlock(p) = Cat(Cat(BatchCheck(p), b), Blk(p))
      BY <2>1, <1>5, <3>1 DEF MulBlock, Cat
    <3>3. Cat(b, Blk(p)) = Refill(p, CHECK_SZ)
      BY <1>1, <1>5, ShortLists DEF Refill
    <3>4. MulBlock(p) = Cat(BatchCheck(p), Refill(p, CHECK_SZ))
      <4> HIDE DEF b
      <4> QED
        BY <3>1, <3>2, <3>3, <1>5, <1>6, StepLists
    <3>5. Refill(p, CHECK_SZ) \in Seq(Steps)
      BY <1>1, ListTypes
    <3> QED
      BY <3>4, <3>5, <2>1, CheckLists
  <2>2. CASE cnt[p] # CHECK_SZ
    BY <2>2, <1>5, ConcatEmptySeq DEF MulBlock
  <2> QED
    BY <2>1, <2>2
<1>8. Destruct(p) = IF cnt[p] # 0 THEN Cons(Flush, Cons(Flush, Seed(p, Dig(p)))) ELSE Dig(p)
  <2> DEFINE B == IF cnt[p] # 0 THEN BatchCheck(p) ELSE Nil
             X == Cons(Xfer(p, "digest"), Nil)
             F == IF p = ALICE THEN Cons(Flush, Nil) ELSE Nil
             E == Cons(Finish, Nil)
  <2>1. X \in Seq(Steps) /\ F \in Seq(Steps) /\ B \in Seq(Steps) /\ E \in Seq(Steps)
    BY <1>1, <1>6, StepKinds, StepLists
  <2>2. Destruct(p) = Cat(Cat(Cat(B, X), F), E)
    <3>1. FromProver(p, "digest") = X
      BY Transfers DEF What
    <3>2. F = IF p = ALICE THEN <<Flush>> ELSE Nil
      BY StepKinds, Singles
    <3> QED
      BY <3>1, <3>2, <1>1 DEF Destruct, Cat, Nil
  <2>3. Cat(F, E) = Fin(p) /\ Fin(p) \in Seq(Steps)
    <3>1. CASE p = ALICE
      BY <3>1, <1>1, StepKinds, ShortLists, StepLists, ListTypes DEF Fin
    <3>2. CASE p # ALICE
      BY <3>2, <1>1, StepKinds, StepLists, ListTypes DEF Fin
    <3> QED
      BY <3>1, <3>2
  <2>4. Destruct(p) = Cat(B, Cat(X, Fin(p)))
    <3> HIDE DEF B, X, F, E
    <3> QED
      BY <2>1, <2>2, <2>3, StepLists
  <2>5. Cat(X, Fin(p)) = Dig(p) /\ Dig(p) \in Seq(Steps)
    BY <2>3, <1>1, ShortLists, ListTypes DEF Dig
  <2>6. CASE cnt[p] # 0
    BY <2>4, <2>5, <2>6, CheckLists
  <2>7. CASE ~(cnt[p] # 0)
    BY <2>4, <2>5, <2>7, StepLists
  <2> QED
    BY <2>6, <2>7
<1> QED
  BY <1>2, <1>3, <1>4, <1>7, <1>8

(***************************************************************************)
(* The engine as one deterministic machine, the same for both parties.     *)
(***************************************************************************)
Draws  == {"construct", "first", "input", "chal", "fill"}
Phases == Draws \cup What \cup {"idle", "finish"}

Engine == [at : Nat, left : Nat, pc : Phases, n : Nat,
           reg : Seq(Nat), buf : [0 .. CHECK_SZ - 1 -> Int], cnt : 0 .. CHECK_SZ,
           gates : Nat, checked : Nat, hash : Seq(Nat),
           used : Nat, off : 0 .. Batch - 1]

Started == [at |-> 1, left |-> 0, pc |-> "construct", n |-> 1,
            reg |-> << >>, buf |-> [i \in 0 .. CHECK_SZ - 1 |-> Spent], cnt |-> 0,
            gates |-> 0, checked |-> 0, hash |-> << >>, used |-> 0, off |-> 0]

\* The next call, or the destructor, of program P.
Called(P, s) ==
  LET mul == IF s.cnt = CHECK_SZ THEN "seed" ELSE "d"
      end == IF s.cnt # 0 THEN "seed" ELSE "digest"
  IN  [s EXCEPT !.at = @ + 1, !.reg = << >>,
         !.pc   = IF s.at = Len(P) + 1 THEN end
                  ELSE CASE P[s.at].op = "input"  -> "input"
                         [] P[s.at].op = "mul"    -> mul
                         [] P[s.at].op = "reveal" -> "val"
                         [] OTHER                  -> "idle",
         !.n    = IF s.at <= Len(P) /\ P[s.at].op = "input" THEN P[s.at].n ELSE @,
         !.left = IF s.at <= Len(P) /\ P[s.at].op = "mul" THEN P[s.at].n ELSE @,
         !.hash = IF s.at <= Len(P) /\ P[s.at].op = "zero" THEN Append(@, s.at) ELSE @]

NextTurn(s) == [s EXCEPT !.pc = IF s.cnt = CHECK_SZ THEN "seed" ELSE "d"]

\* One copy of a draw.
To(c)   == IF c \in {"first", "fill"} THEN "buf" ELSE "reg"
Take(s) == Lesser(s.n, Batch - s.off)
Ids(s)  == [k \in 1 .. Take(s) |-> s.used * Batch + s.off + k - 1]
Filled(s) ==
  [i \in 0 .. CHECK_SZ - 1 |->
     LET k == i - (CHECK_SZ - s.n) + 1
     IN  IF k \in 1 .. Take(s) THEN Ids(s)[k] ELSE s.buf[i]]
AfterDraw(c) == CASE c = "construct" -> "first" [] c = "first" -> "idle"
                  [] c = "input" -> "lam" [] c = "chal" -> "sum" [] c = "fill" -> "d"
Copied(s) ==
  [s EXCEPT
     !.pc   = IF Take(s) = s.n THEN AfterDraw(s.pc) ELSE @,
     !.n    = IF Take(s) = s.n /\ s.pc = "construct" THEN CHECK_SZ ELSE @ - Take(s),
     !.reg  = IF To(s.pc) = "reg" THEN @ \o Ids(s) ELSE @,
     !.buf  = IF To(s.pc) = "buf" THEN Filled(s) ELSE @,
     !.cnt  = IF To(s.pc) = "buf" THEN 0 ELSE @,
     !.used = IF s.off + Take(s) = Batch THEN @ + 1 ELSE @,
     !.off  = IF s.off + Take(s) = Batch THEN 0 ELSE @ + Take(s)]

\* A transfer, on either side.
Block(s) == Lesser(CHECK_SZ - s.cnt, s.left)
Message(s) ==
  [at |-> s.at, what |-> s.pc,
   corr |-> CASE s.pc \in {"lam", "sum"} -> s.reg
              [] s.pc = "d" -> [k \in 1 .. Block(s) |-> s.buf[s.cnt + k - 1]]
              [] s.pc = "digest" -> s.hash
              [] OTHER -> << >>]
AfterMove(P, s) ==
  CASE s.pc \in {"lam", "val", "d"} -> "idle"
    [] s.pc = "seed"   -> "chal"
    [] s.pc = "sum"    -> IF s.at = Len(P) + 2 THEN "digest" ELSE "fill"
    [] s.pc = "digest" -> "finish"
Used(s) ==
  [i \in 0 .. CHECK_SZ - 1 |-> IF i - s.cnt \in 0 .. Block(s) - 1 THEN Spent ELSE s.buf[i]]
Moved(P, s) ==
  [s EXCEPT
     !.pc = AfterMove(P, s), !.reg = << >>,
     !.n       = CASE s.pc = "seed" -> 1 [] s.pc = "sum" -> CHECK_SZ [] OTHER -> @,
     !.hash    = IF s.pc = "val" THEN Append(@, s.at - 1) ELSE @,
     !.checked = IF s.pc = "sum" THEN @ + s.cnt ELSE @,
     !.buf     = IF s.pc = "d" THEN Used(s) ELSE @,
     !.cnt     = IF s.pc = "d" THEN @ + Block(s) ELSE @,
     !.left    = IF s.pc = "d" THEN @ - Block(s) ELSE @,
     !.gates   = IF s.pc = "d" THEN @ + Block(s) ELSE @]

Succ(P, s) ==
  IF s.pc = "idle" THEN IF s.left = 0 THEN Called(P, s) ELSE NextTurn(s)
  ELSE IF s.pc \in Draws THEN Copied(s) ELSE Moved(P, s)

\* What holds between a call's phase and its counters.
PhaseOK(P, s) ==
  /\ s.at \in 1 .. Len(P) + 2
  /\ s.pc \in {"construct", "first"} => s.at = 1 /\ s.left = 0 /\ s.cnt = 0
  /\ s.pc \in {"input", "lam", "val"} => s.left = 0
  /\ s.pc \in {"d", "fill"} => s.left > 0
  /\ s.pc \in {"seed", "chal", "sum"} => (s.at = Len(P) + 2 <=> s.left = 0)
  /\ s.pc \in {"digest", "finish"} => s.at = Len(P) + 2 /\ s.left = 0
  /\ s.pc \in {"idle", "input", "lam", "val", "d", "fill"} => s.at <= Len(P) + 1
  /\ s.pc = "d" => s.cnt < CHECK_SZ
  /\ s.pc \in Draws => s.n > 0
  /\ s.pc \in {"first", "fill"} => s.n <= CHECK_SZ
  /\ s.gates = s.checked + (IF s.pc \in {"fill", "digest", "finish"} THEN 0 ELSE s.cnt)

LEMMA EngineRecord ==
  ASSUME NEW c,
         c = [at |-> c.at, left |-> c.left, pc |-> c.pc, n |-> c.n, reg |-> c.reg, buf |-> c.buf,
              cnt |-> c.cnt, gates |-> c.gates, checked |-> c.checked, hash |-> c.hash,
              used |-> c.used, off |-> c.off],
         c.at \in Nat, c.left \in Nat, c.pc \in Phases, c.n \in Nat, c.reg \in Seq(Nat),
         c.buf \in [0 .. CHECK_SZ - 1 -> Int], c.cnt \in 0 .. CHECK_SZ,
         c.gates \in Nat, c.checked \in Nat, c.hash \in Seq(Nat),
         c.used \in Nat, c.off \in 0 .. Batch - 1
  PROVE  c \in Engine
BY DEF Engine

LEMMA EngineFields ==
  ASSUME NEW s \in Engine
  PROVE  /\ s.at \in Nat /\ s.left \in Nat /\ s.pc \in Phases /\ s.n \in Nat /\ s.reg \in Seq(Nat)
         /\ s.buf \in [0 .. CHECK_SZ - 1 -> Int] /\ s.cnt \in 0 .. CHECK_SZ
         /\ s.gates \in Nat /\ s.checked \in Nat /\ s.hash \in Seq(Nat)
         /\ s.used \in Nat /\ s.off \in 0 .. Batch - 1
BY DEF Engine

\* A draw's positions in the stream.
LEMMA Products == \A u \in Nat : u * Batch \in Nat /\ (u + 1) * Batch = u * Batch + Batch
BY BatchAssumption

\* The positions of a block of t slots that starts at w, and of n slots among the first z.
LEMMA IntervalShift ==
  ASSUME NEW i \in Int, NEW w \in Int, NEW t \in Int
  PROVE  i - w + 1 \in Int /\ (i - w + 1 \in 1 .. t <=> w <= i /\ i < w + t)
OBVIOUS

LEMMA WithinSlots ==
  ASSUME NEW e \in Nat, NEW n \in Nat, NEW z \in Nat, n <= z - e
  PROVE  \A k \in 1 .. n : e + k - 1 \in 0 .. z - 1 /\ e + k - 1 >= e
OBVIOUS

Pos(s) == s.used * Batch + s.off

LEMMA TakeFacts ==
  ASSUME NEW s \in Engine, s.n > 0
  PROVE  /\ Take(s) \in 1 .. s.n /\ Take(s) <= Batch - s.off
         /\ Pos(s) \in Nat
         /\ Ids(s) \in Seq(Nat) /\ Len(Ids(s)) = Take(s)
         /\ \A k \in 1 .. Take(s) : Ids(s)[k] = Pos(s) + k - 1
<1> USE CheckAssumption, BatchAssumption
<1>1. Take(s) \in 1 .. s.n /\ Take(s) <= Batch - s.off
  BY EngineFields DEF Take, Lesser
<1>2. Pos(s) \in Nat
  <2> DEFINE m == s.used * Batch
  <2>1. m \in Nat
    BY EngineFields, Products
  <2> HIDE DEF m
  <2>2. m + s.off \in Nat
    BY <2>1, EngineFields
  <2> QED
    BY <2>2 DEF Pos, m
<1>3. Ids(s) = [k \in 1 .. Take(s) |-> Pos(s) + k - 1]
  BY DEF Ids, Pos
<1> QED
  BY <1>1, <1>2, <1>3

\* The fields of a machine's next state, one by one.
LEMMA CopiedFields ==
  ASSUME NEW s \in Engine, s.pc \in Draws, s.n > 0, To(s.pc) = "buf" => s.n <= CHECK_SZ,
         NEW c, c = Copied(s)
  PROVE  /\ c \in Engine
         /\ c.at = s.at /\ c.left = s.left /\ c.gates = s.gates
         /\ c.checked = s.checked /\ c.hash = s.hash
         /\ c.pc   = IF Take(s) = s.n THEN AfterDraw(s.pc) ELSE s.pc
         /\ c.n    = IF Take(s) = s.n /\ s.pc = "construct" THEN CHECK_SZ ELSE s.n - Take(s)
         /\ c.reg  = IF To(s.pc) = "reg" THEN s.reg \o Ids(s) ELSE s.reg
         /\ c.buf  = IF To(s.pc) = "buf" THEN Filled(s) ELSE s.buf
         /\ c.cnt  = IF To(s.pc) = "buf" THEN 0 ELSE s.cnt
         /\ c.used = IF s.off + Take(s) = Batch THEN s.used + 1 ELSE s.used
         /\ c.off  = IF s.off + Take(s) = Batch THEN 0 ELSE s.off + Take(s)
<1> USE CheckAssumption, BatchAssumption
<1>1. /\ Take(s) \in 1 .. s.n /\ Take(s) <= Batch - s.off
  BY TakeFacts
<1>2. s.reg \o Ids(s) \in Seq(Nat)
  BY EngineFields, TakeFacts
<1>3. Filled(s) \in [0 .. CHECK_SZ - 1 -> Int]
  <2> DEFINE w == CHECK_SZ - s.n + 1  t == Take(s)  g == Ids(s)  b == s.buf
  <2>1. /\ b \in [0 .. CHECK_SZ - 1 -> Int]
        /\ Filled(s) = [i \in 0 .. CHECK_SZ - 1 |-> IF i - (CHECK_SZ - s.n) + 1 \in 1 .. t
                                                    THEN g[i - (CHECK_SZ - s.n) + 1] ELSE b[i]]
    BY EngineFields DEF Filled
  <2>2. \A k \in 1 .. t : g[k] \in Int
    BY TakeFacts
  <2> HIDE DEF t, g, b
  <2> QED
    BY ONLY <2>1, <2>2
<1>4. AfterDraw(s.pc) \in Phases
  BY DEF AfterDraw, Phases, Draws, What
<1>5. /\ c.at = s.at /\ c.left = s.left /\ c.gates = s.gates
      /\ c.checked = s.checked /\ c.hash = s.hash
      /\ c.pc   = IF Take(s) = s.n THEN AfterDraw(s.pc) ELSE s.pc
      /\ c.n    = IF Take(s) = s.n /\ s.pc = "construct" THEN CHECK_SZ ELSE s.n - Take(s)
      /\ c.reg  = IF To(s.pc) = "reg" THEN s.reg \o Ids(s) ELSE s.reg
      /\ c.buf  = IF To(s.pc) = "buf" THEN Filled(s) ELSE s.buf
      /\ c.cnt  = IF To(s.pc) = "buf" THEN 0 ELSE s.cnt
      /\ c.used = IF s.off + Take(s) = Batch THEN s.used + 1 ELSE s.used
      /\ c.off  = IF s.off + Take(s) = Batch THEN 0 ELSE s.off + Take(s)
  BY DEF Copied, Engine
<1>6. c \in Engine
  <2>1. s.pc \in Phases /\ s.n \in Nat /\ s.reg \in Seq(Nat) /\ s.cnt \in 0 .. CHECK_SZ
        /\ s.used \in Nat /\ s.off \in 0 .. Batch - 1 /\ s.buf \in [0 .. CHECK_SZ - 1 -> Int]
    BY DEF Engine
  <2>2. c.pc \in Phases /\ c.n \in Nat /\ c.reg \in Seq(Nat) /\ c.cnt \in 0 .. CHECK_SZ
    BY <2>1, <1>1, <1>2, <1>4, <1>5, SMTT(40), ZenonT(40), Z3T(40)
  <2>3. c.used \in Nat /\ c.off \in 0 .. Batch - 1 /\ c.buf \in [0 .. CHECK_SZ - 1 -> Int]
    <3>1. c.buf \in [0 .. CHECK_SZ - 1 -> Int]
      BY <2>1, <1>3, <1>5
    <3>2. c.used \in Nat
      BY <2>1, <1>5
    <3>3. c.off = IF s.off + Take(s) = Batch THEN 0 ELSE s.off + Take(s)
      BY <1>5
    <3>4. c.off \in 0 .. Batch - 1
      <4> DEFINE o == s.off  t == Take(s)
      <4>1. o \in 0 .. Batch - 1 /\ t \in Int /\ t > 0 /\ t <= Batch - o
        BY <2>1, <1>1
      <4> HIDE DEF o, t
      <4>2. (IF o + t = Batch THEN 0 ELSE o + t) \in 0 .. Batch - 1
        BY <4>1
      <4> QED
        BY <4>2, <3>3 DEF o, t
    <3> QED
      BY <3>1, <3>2, <3>4
  <2>4. c = [at |-> c.at, left |-> c.left, pc |-> c.pc, n |-> c.n, reg |-> c.reg, buf |-> c.buf,
             cnt |-> c.cnt, gates |-> c.gates, checked |-> c.checked, hash |-> c.hash,
             used |-> c.used, off |-> c.off]
    BY DEF Copied, Engine
  <2>5. c.at \in Nat /\ c.left \in Nat /\ c.gates \in Nat /\ c.checked \in Nat /\ c.hash \in Seq(Nat)
    BY <1>5, EngineFields
  <2> QED
    BY ONLY <2>2, <2>3, <2>4, <2>5, EngineRecord
<1> QED
  BY <1>5, <1>6

(***************************************************************************)
(* What each step of the machine leaves in its fields, and that it keeps   *)
(* the phase invariant PhaseOK.                                            *)
(***************************************************************************)
LEMMA BlockFacts ==
  ASSUME NEW s \in Engine, s.left > 0, s.cnt < CHECK_SZ
  PROVE  Block(s) \in Nat /\ Block(s) > 0 /\ Block(s) <= s.left /\ Block(s) <= CHECK_SZ - s.cnt
BY CheckAssumption, EngineFields DEF Block, Lesser

LEMMA MovedFields ==
  ASSUME NEW P \in Seq(Operation), NEW s \in Engine, s.pc \in What, PhaseOK(P, s),
         NEW c, c = Moved(P, s)
  PROVE  /\ c \in Engine
         /\ c.at = s.at /\ c.used = s.used /\ c.off = s.off
         /\ c.pc = AfterMove(P, s) /\ c.reg = << >>
         /\ c.n       = (CASE s.pc = "seed" -> 1 [] s.pc = "sum" -> CHECK_SZ [] OTHER -> s.n)
         /\ c.hash    = (IF s.pc = "val" THEN Append(s.hash, s.at - 1) ELSE s.hash)
         /\ c.checked = (IF s.pc = "sum" THEN s.checked + s.cnt ELSE s.checked)
         /\ c.buf     = (IF s.pc = "d" THEN Used(s) ELSE s.buf)
         /\ c.cnt     = (IF s.pc = "d" THEN s.cnt + Block(s) ELSE s.cnt)
         /\ c.left    = (IF s.pc = "d" THEN s.left - Block(s) ELSE s.left)
         /\ c.gates   = (IF s.pc = "d" THEN s.gates + Block(s) ELSE s.gates)
<1> USE CheckAssumption, BatchAssumption
<1>1. /\ c.at = s.at /\ c.used = s.used /\ c.off = s.off
      /\ c.pc = AfterMove(P, s) /\ c.reg = << >>
      /\ c.n       = (CASE s.pc = "seed" -> 1 [] s.pc = "sum" -> CHECK_SZ [] OTHER -> s.n)
      /\ c.hash    = (IF s.pc = "val" THEN Append(s.hash, s.at - 1) ELSE s.hash)
      /\ c.checked = (IF s.pc = "sum" THEN s.checked + s.cnt ELSE s.checked)
      /\ c.buf     = (IF s.pc = "d" THEN Used(s) ELSE s.buf)
      /\ c.cnt     = (IF s.pc = "d" THEN s.cnt + Block(s) ELSE s.cnt)
      /\ c.left    = (IF s.pc = "d" THEN s.left - Block(s) ELSE s.left)
      /\ c.gates   = (IF s.pc = "d" THEN s.gates + Block(s) ELSE s.gates)
  BY DEF Moved, Engine
<1>2. c = [at |-> c.at, left |-> c.left, pc |-> c.pc, n |-> c.n, reg |-> c.reg, buf |-> c.buf,
           cnt |-> c.cnt, gates |-> c.gates, checked |-> c.checked, hash |-> c.hash,
           used |-> c.used, off |-> c.off]
  BY DEF Moved, Engine
<1>3. /\ s.at \in Nat /\ s.left \in Nat /\ s.n \in Nat /\ s.cnt \in 0 .. CHECK_SZ
      /\ s.buf \in [0 .. CHECK_SZ - 1 -> Int] /\ s.gates \in Nat /\ s.checked \in Nat
      /\ s.hash \in Seq(Nat) /\ s.used \in Nat /\ s.off \in 0 .. Batch - 1
  BY EngineFields
<1>4. AfterMove(P, s) \in Phases
  BY DEF AfterMove, Phases, Draws, What
<1>5. s.pc = "d" => Block(s) \in Nat /\ Block(s) > 0 /\ Block(s) <= s.left /\ Block(s) <= CHECK_SZ - s.cnt
  BY BlockFacts DEF PhaseOK
<1>6. s.at - 1 \in Nat
  BY <1>3, SMTT(40), ZenonT(40), Z3T(40) DEF PhaseOK
<1>7. Used(s) \in [0 .. CHECK_SZ - 1 -> Int]
  BY <1>3 DEF Used, Spent
<1> HIDE DEF Engine
<1>8. c.pc \in Phases /\ c.reg \in Seq(Nat) /\ c.at \in Nat /\ c.used \in Nat /\ c.off \in 0 .. Batch - 1
  BY <1>1, <1>3, <1>4
<1>9. c.buf \in [0 .. CHECK_SZ - 1 -> Int]
  BY <1>1, <1>3, <1>7
<1>10. c.hash \in Seq(Nat)
  BY <1>1, <1>3, <1>6
<1>11. c.n \in Nat
  BY <1>1, <1>3
<1>12. c.checked \in Nat
  BY <1>1, <1>3, SMTT(40), ZenonT(40)
<1>13. c.gates \in Nat /\ c.left \in Nat /\ c.cnt \in 0 .. CHECK_SZ
  <2>1. CASE s.pc = "d"
    <3>1. c.gates = s.gates + Block(s) /\ c.left = s.left - Block(s) /\ c.cnt = s.cnt + Block(s)
      BY <1>1, <2>1
    <3>2. Block(s) \in Nat /\ Block(s) > 0 /\ Block(s) <= s.left /\ Block(s) <= CHECK_SZ - s.cnt
      BY <1>5, <2>1
    <3> DEFINE b == Block(s)  g == s.gates  l == s.left  t == s.cnt
    <3>3. /\ b \in Nat /\ b > 0 /\ b <= l /\ b <= CHECK_SZ - t
          /\ g \in Nat /\ l \in Nat /\ t \in 0 .. CHECK_SZ
      BY <3>2, <1>3
    <3> HIDE DEF b, g, l, t
    <3>4. g + b \in Nat /\ l - b \in Nat /\ t + b \in 0 .. CHECK_SZ
      BY <3>3
    <3> QED
      BY <3>1, <3>4 DEF b, g, l, t
  <2>2. CASE s.pc # "d"
    BY <1>1, <1>3, <2>2
  <2> QED
    BY <2>1, <2>2
<1>14. c \in Engine
  BY <1>2, <1>8, <1>9, <1>10, <1>11, <1>12, <1>13, EngineRecord
<1> QED
  BY <1>1, <1>14

LEMMA CalledFields ==
  ASSUME NEW P \in Seq(Operation), NEW s \in Engine, PhaseOK(P, s), s.at <= Len(P) + 1,
         NEW c, c = Called(P, s)
  PROVE  /\ c \in Engine
         /\ c.at = s.at + 1 /\ c.reg = << >> /\ c.buf = s.buf /\ c.cnt = s.cnt
         /\ c.gates = s.gates /\ c.checked = s.checked /\ c.used = s.used /\ c.off = s.off
         /\ s.at = Len(P) + 1 =>
              /\ c.pc = (IF s.cnt # 0 THEN "seed" ELSE "digest")
              /\ c.left = s.left /\ c.hash = s.hash /\ c.n = s.n
         /\ s.at <= Len(P) =>
              LET o == P[s.at] IN
              /\ o \in Operation
              /\ c.pc = (CASE o.op = "input"  -> "input"
                           [] o.op = "mul"    -> IF s.cnt = CHECK_SZ THEN "seed" ELSE "d"
                           [] o.op = "reveal" -> "val"
                           [] OTHER             -> "idle")
              /\ c.n    = (IF o.op = "input" THEN o.n ELSE s.n)
              /\ c.left = (IF o.op = "mul" THEN o.n ELSE s.left)
              /\ c.hash = (IF o.op = "zero" THEN Append(s.hash, s.at) ELSE s.hash)
<1> DEFINE o == P[s.at]  in == s.at <= Len(P)
<1>1. /\ s.at \in Nat /\ s.at > 0 /\ s.left \in Nat /\ s.n \in Nat /\ s.cnt \in 0 .. CHECK_SZ
      /\ s.buf \in [0 .. CHECK_SZ - 1 -> Int] /\ s.gates \in Nat /\ s.checked \in Nat
      /\ s.hash \in Seq(Nat) /\ s.used \in Nat /\ s.off \in 0 .. Batch - 1 /\ s.pc \in Phases
  BY EngineFields DEF PhaseOK
<1>2. in => o \in Operation
  BY <1>1
<1>3. /\ c.at = s.at + 1 /\ c.reg = << >> /\ c.buf = s.buf /\ c.cnt = s.cnt
      /\ c.gates = s.gates /\ c.checked = s.checked /\ c.used = s.used /\ c.off = s.off
      /\ c.pc = IF s.at = Len(P) + 1 THEN IF s.cnt # 0 THEN "seed" ELSE "digest"
                ELSE CASE o.op = "input"  -> "input"
                       [] o.op = "mul"    -> IF s.cnt = CHECK_SZ THEN "seed" ELSE "d"
                       [] o.op = "reveal" -> "val"
                       [] OTHER             -> "idle"
      /\ c.n    = IF in /\ o.op = "input" THEN o.n ELSE s.n
      /\ c.left = IF in /\ o.op = "mul" THEN o.n ELSE s.left
      /\ c.hash = IF in /\ o.op = "zero" THEN Append(s.hash, s.at) ELSE s.hash
  BY DEF Called, Engine
<1>4. c = [at |-> c.at, left |-> c.left, pc |-> c.pc, n |-> c.n, reg |-> c.reg, buf |-> c.buf,
           cnt |-> c.cnt, gates |-> c.gates, checked |-> c.checked, hash |-> c.hash,
           used |-> c.used, off |-> c.off]
  BY DEF Called, Engine
<1>5. Len(P) \in Nat
  OBVIOUS
<1>6. CASE s.at = Len(P) + 1
  <2>1. ~in
    BY <1>5, <1>6
  <2>2. /\ c.at \in Nat /\ c.reg \in Seq(Nat) /\ c.pc \in Phases /\ c.n \in Nat /\ c.left \in Nat
        /\ c.hash \in Seq(Nat)
    BY <1>1, <1>3, <1>6, <2>1 DEF Phases, What, Draws
  <2>3. c \in Engine
    BY <1>1, <1>3, <1>4, <2>2, EngineRecord
  <2> QED
    BY <2>1, <2>3, <1>3, <1>6
<1>7. CASE s.at # Len(P) + 1
  <2>1. in /\ o \in Operation
    BY <1>1, <1>2, <1>5, <1>7, SMTT(40), ZenonT(40)
  <2>2. o.n \in Nat /\ o.op \in {"input", "mul", "reveal", "zero"}
    BY <2>1 DEF Operation
  <2>3. c.pc = (CASE o.op = "input"  -> "input"
                  [] o.op = "mul"    -> IF s.cnt = CHECK_SZ THEN "seed" ELSE "d"
                  [] o.op = "reveal" -> "val"
                  [] OTHER             -> "idle")
    BY <1>3, <1>7
  <2>4. c.pc \in Phases
    BY <2>2, <2>3 DEF Phases, What, Draws
  <2>5. c.n = (IF o.op = "input" THEN o.n ELSE s.n) /\ c.left = (IF o.op = "mul" THEN o.n ELSE s.left)
        /\ c.hash = (IF o.op = "zero" THEN Append(s.hash, s.at) ELSE s.hash)
    BY <1>3, <2>1
  <2>6. c.n \in Nat /\ c.left \in Nat /\ c.at \in Nat /\ c.reg \in Seq(Nat)
    BY <2>2, <2>5, <1>1, <1>3, SMTT(40), ZenonT(40)
  <2>7. c.hash \in Seq(Nat)
    BY <2>5, <1>1
  <2>8. c \in Engine
    BY <1>1, <1>3, <1>4, <2>4, <2>6, <2>7, EngineRecord
  <2> QED
    BY <2>1, <2>3, <2>5, <2>8, <1>3, <1>7
<1> QED
  BY <1>6, <1>7

LEMMA CalledOperation ==
  ASSUME NEW P \in Seq(Operation), NEW s \in Engine, PhaseOK(P, s), s.at <= Len(P),
         NEW c, c = Called(P, s), NEW o, o = P[s.at]
  PROVE  /\ o \in Operation
         /\ c.pc = (CASE o.op = "input"  -> "input"
                      [] o.op = "mul"    -> IF s.cnt = CHECK_SZ THEN "seed" ELSE "d"
                      [] o.op = "reveal" -> "val"
                      [] OTHER             -> "idle")
         /\ c.n    = (IF o.op = "input" THEN o.n ELSE s.n)
         /\ c.left = (IF o.op = "mul" THEN o.n ELSE s.left)
         /\ c.hash = (IF o.op = "zero" THEN Append(s.hash, s.at) ELSE s.hash)
<1>1. s.at <= Len(P) + 1
  BY EngineFields
<1> QED
  BY <1>1, CalledFields

LEMMA TurnFields ==
  ASSUME NEW s \in Engine, NEW c, c = NextTurn(s)
  PROVE  /\ c \in Engine
         /\ c.at = s.at /\ c.left = s.left /\ c.n = s.n /\ c.reg = s.reg /\ c.buf = s.buf
         /\ c.cnt = s.cnt /\ c.gates = s.gates /\ c.checked = s.checked /\ c.hash = s.hash
         /\ c.used = s.used /\ c.off = s.off
         /\ c.pc = IF s.cnt = CHECK_SZ THEN "seed" ELSE "d"
BY DEF NextTurn, Engine, Phases, What, Draws

(* The phases are left in order.                                           *)
LEMMA CopiedPhase ==
  ASSUME NEW P \in Seq(Operation), NEW s \in Engine, s.pc \in Draws, PhaseOK(P, s)
  PROVE  Copied(s) \in Engine /\ PhaseOK(P, Copied(s))
<1> DEFINE c == Copied(s)
<1>1. s.n > 0 /\ (To(s.pc) = "buf" => s.n <= CHECK_SZ)
  BY DEF PhaseOK, To
<1>2. /\ c \in Engine
      /\ c.at = s.at /\ c.left = s.left /\ c.gates = s.gates /\ c.checked = s.checked
      /\ c.pc   = IF Take(s) = s.n THEN AfterDraw(s.pc) ELSE s.pc
      /\ c.n    = IF Take(s) = s.n /\ s.pc = "construct" THEN CHECK_SZ ELSE s.n - Take(s)
      /\ c.cnt  = IF To(s.pc) = "buf" THEN 0 ELSE s.cnt
  BY <1>1, CopiedFields
<1>3. Take(s) \in 1 .. s.n
  BY <1>1, TakeFacts
<1>4. /\ s.at \in Nat /\ s.left \in Nat /\ s.n \in Nat /\ s.cnt \in 0 .. CHECK_SZ
      /\ s.gates \in Nat /\ s.checked \in Nat /\ CHECK_SZ \in Nat /\ CHECK_SZ > 0 /\ Len(P) \in Nat
  BY EngineFields, CheckAssumption
<1> HIDE DEF c
<1>5. ASSUME Take(s) # s.n PROVE PhaseOK(P, c)
  <2>1. c.pc = s.pc /\ c.n = s.n - Take(s) /\ c.n \in Nat /\ c.n > 0 /\ c.n <= s.n
    BY <1>2, <1>3, <1>4, <1>5, SMTT(40), ZenonT(40)
  <2>2. CASE To(s.pc) = "reg"
    BY <1>2, <1>4, <2>1, <2>2 DEF PhaseOK, Draws, To
  <2>3. CASE To(s.pc) = "buf"
    <3>1. c.cnt = 0 /\ s.pc \in {"first", "fill"}
      BY <1>2, <2>3 DEF To
    <3>2. CASE s.pc = "first"
      BY <1>2, <1>4, <2>1, <3>1, <3>2 DEF PhaseOK, Draws
    <3>3. CASE s.pc = "fill"
      BY <1>2, <1>4, <2>1, <3>1, <3>3, SMTT(40), ZenonT(40) DEF PhaseOK, Draws
    <3> QED
      BY <3>1, <3>2, <3>3
  <2> QED
    BY <2>2, <2>3 DEF To
<1>6. ASSUME Take(s) = s.n PROVE PhaseOK(P, c)
  <2>1. c.pc = AfterDraw(s.pc)
    BY <1>2, <1>6
  <2>2. CASE s.pc = "construct"
    BY <1>2, <1>4, <1>6, <2>1, <2>2 DEF PhaseOK, Draws, To, AfterDraw
  <2>3. CASE s.pc = "first"
    BY <1>2, <1>4, <1>6, <2>1, <2>3 DEF PhaseOK, Draws, To, AfterDraw
  <2>4. CASE s.pc = "input"
    BY <1>2, <1>4, <1>6, <2>1, <2>4 DEF PhaseOK, Draws, To, AfterDraw
  <2>5. CASE s.pc = "chal"
    BY <1>2, <1>4, <1>6, <2>1, <2>5 DEF PhaseOK, Draws, To, AfterDraw
  <2>6. CASE s.pc = "fill"
    BY <1>2, <1>4, <1>6, <2>1, <2>6 DEF PhaseOK, Draws, To, AfterDraw
  <2> QED
    BY <2>2, <2>3, <2>4, <2>5, <2>6 DEF Draws
<1> QED
  BY <1>2, <1>5, <1>6 DEF c

LEMMA MovedPhase ==
  ASSUME NEW P \in Seq(Operation), NEW s \in Engine, s.pc \in What, PhaseOK(P, s)
  PROVE  Moved(P, s) \in Engine /\ PhaseOK(P, Moved(P, s))
<1> DEFINE c == Moved(P, s)
<1>1. /\ c \in Engine /\ c.at = s.at /\ c.pc = AfterMove(P, s)
      /\ c.n       = (CASE s.pc = "seed" -> 1 [] s.pc = "sum" -> CHECK_SZ [] OTHER -> s.n)
      /\ c.checked = (IF s.pc = "sum" THEN s.checked + s.cnt ELSE s.checked)
      /\ c.cnt     = (IF s.pc = "d" THEN s.cnt + Block(s) ELSE s.cnt)
      /\ c.left    = (IF s.pc = "d" THEN s.left - Block(s) ELSE s.left)
      /\ c.gates   = (IF s.pc = "d" THEN s.gates + Block(s) ELSE s.gates)
  BY MovedFields
<1>2. /\ s.at \in Nat /\ s.left \in Nat /\ s.n \in Nat /\ s.cnt \in 0 .. CHECK_SZ
      /\ s.gates \in Nat /\ s.checked \in Nat /\ CHECK_SZ \in Nat /\ CHECK_SZ > 0 /\ Len(P) \in Nat
  BY EngineFields, CheckAssumption
<1>3. s.pc = "d" => Block(s) \in Nat /\ Block(s) > 0 /\ Block(s) <= s.left /\ Block(s) <= CHECK_SZ - s.cnt
  BY BlockFacts DEF PhaseOK
<1> HIDE DEF c
<1>4. ASSUME s.pc = "lam" PROVE PhaseOK(P, c)
  <2>1. /\ c.at = s.at /\ c.pc = "idle" /\ c.n = s.n
        /\ c.checked = s.checked /\ c.cnt = s.cnt
        /\ c.left = s.left /\ c.gates = s.gates
    BY <1>1, <1>4 DEF AfterMove
  <2> QED
    BY <1>2, <1>4, <2>1 DEF PhaseOK, Draws
<1>5. ASSUME s.pc = "val" PROVE PhaseOK(P, c)
  <2>1. /\ c.at = s.at /\ c.pc = "idle" /\ c.n = s.n
        /\ c.checked = s.checked /\ c.cnt = s.cnt
        /\ c.left = s.left /\ c.gates = s.gates
    BY <1>1, <1>5 DEF AfterMove
  <2> QED
    BY <1>2, <1>5, <2>1 DEF PhaseOK, Draws
<1>6. ASSUME s.pc = "seed" PROVE PhaseOK(P, c)
  <2>1. /\ c.at = s.at /\ c.pc = "chal" /\ c.n = 1
        /\ c.checked = s.checked /\ c.cnt = s.cnt
        /\ c.left = s.left /\ c.gates = s.gates
    BY <1>1, <1>6 DEF AfterMove
  <2> QED
    BY <1>2, <1>6, <2>1 DEF PhaseOK, Draws
<1>7. ASSUME s.pc = "sum" PROVE PhaseOK(P, c)
  <2>1. /\ c.at = s.at /\ c.pc = (IF s.at = Len(P) + 2 THEN "digest" ELSE "fill") /\ c.n = CHECK_SZ
        /\ c.checked = s.checked + s.cnt /\ c.cnt = s.cnt
        /\ c.left = s.left /\ c.gates = s.gates
    BY <1>1, <1>7 DEF AfterMove
  <2> QED
    BY <1>2, <1>7, <2>1, SMTT(40), ZenonT(40) DEF PhaseOK, Draws
<1>8. ASSUME s.pc = "digest" PROVE PhaseOK(P, c)
  <2>1. /\ c.at = s.at /\ c.pc = "finish" /\ c.n = s.n
        /\ c.checked = s.checked /\ c.cnt = s.cnt
        /\ c.left = s.left /\ c.gates = s.gates
    BY <1>1, <1>8 DEF AfterMove
  <2> QED
    BY <1>2, <1>8, <2>1 DEF PhaseOK, Draws
<1>9. ASSUME s.pc = "d" PROVE PhaseOK(P, c)
  <2>1. /\ c.at = s.at /\ c.pc = "idle" /\ c.n = s.n
        /\ c.checked = s.checked /\ c.cnt = s.cnt + Block(s)
        /\ c.left = s.left - Block(s) /\ c.gates = s.gates + Block(s)
    BY <1>1, <1>9 DEF AfterMove
  <2> QED
    <3>1. /\ Block(s) \in Nat /\ Block(s) <= s.left /\ Block(s) <= CHECK_SZ - s.cnt
          /\ s.at <= Len(P) + 1 /\ s.at \in 1 .. Len(P) + 2 /\ s.gates = s.checked + s.cnt
      BY <1>2, <1>3, <1>9 DEF PhaseOK
    <3>2. c.gates = c.checked + c.cnt
      BY ONLY <2>1, <3>1, <1>2
    <3>3. c.at \in 1 .. Len(P) + 2 /\ c.at <= Len(P) + 1
      BY <2>1, <3>1
    <3> QED
      BY ONLY <2>1, <3>2, <3>3 DEF PhaseOK, Draws
<1> QED
  BY <1>1, <1>4, <1>5, <1>6, <1>7, <1>8, <1>9 DEF What, c

LEMMA CalledPhase ==
  ASSUME NEW P \in Seq(Operation), NEW s \in Engine, s.pc = "idle", PhaseOK(P, s), s.left = 0
  PROVE  Called(P, s) \in Engine /\ PhaseOK(P, Called(P, s))
<1> DEFINE c == Called(P, s)
<1>1. s.at <= Len(P) + 1
  BY DEF PhaseOK
<1>2. /\ s.at \in Nat /\ s.left \in Nat /\ s.n \in Nat /\ s.cnt \in 0 .. CHECK_SZ
      /\ s.gates \in Nat /\ s.checked \in Nat /\ CHECK_SZ \in Nat /\ CHECK_SZ > 0 /\ Len(P) \in Nat
  BY EngineFields, CheckAssumption
<1>3. /\ c \in Engine /\ c.at = s.at + 1 /\ c.cnt = s.cnt /\ c.gates = s.gates /\ c.checked = s.checked
  BY <1>1, CalledFields
<1>4. CASE s.at = Len(P) + 1
  <2>1. c.pc = (IF s.cnt # 0 THEN "seed" ELSE "digest") /\ c.left = s.left
    BY <1>1, <1>4, CalledFields
  <2> HIDE DEF c
  <2>2. PhaseOK(P, c)
    BY <2>1, <1>2, <1>3, <1>4 DEF PhaseOK, Draws
  <2> QED
    BY <2>2, <1>3 DEF c
<1>5. CASE s.at # Len(P) + 1
  <2> DEFINE o == P[s.at]
  <2>1. s.at <= Len(P)
    BY <1>1, <1>2, <1>5
  <2>2. /\ o \in Operation
        /\ c.pc = (CASE o.op = "input"  -> "input"
                     [] o.op = "mul"    -> IF s.cnt = CHECK_SZ THEN "seed" ELSE "d"
                     [] o.op = "reveal" -> "val"
                     [] OTHER             -> "idle")
        /\ c.n    = (IF o.op = "input" THEN o.n ELSE s.n)
        /\ c.left = (IF o.op = "mul" THEN o.n ELSE s.left)
    BY <1>1, <2>1, CalledFields
  <2>3. o.n \in Nat /\ o.n > 0 /\ o.op \in {"input", "mul", "reveal", "zero"}
    BY <2>2 DEF Operation
  <2> HIDE DEF c, o
  <2>4. ASSUME o.op = "input" PROVE PhaseOK(P, c)
    <3>1. c.pc = "input" /\ c.n = o.n /\ c.left = s.left
      BY <2>2, <2>4
    <3> QED
      BY <3>1, <2>1, <2>3, <1>2, <1>3, SMTT(40), ZenonT(40), Z3T(40) DEF PhaseOK, Draws
  <2>5. ASSUME o.op = "mul" PROVE PhaseOK(P, c)
    <3>1. c.pc = (IF s.cnt = CHECK_SZ THEN "seed" ELSE "d") /\ c.n = s.n /\ c.left = o.n
      BY <2>2, <2>5
    <3> QED
      BY <3>1, <2>1, <2>3, <1>2, <1>3, SMTT(40), ZenonT(40), Z3T(40) DEF PhaseOK, Draws
  <2>6. ASSUME o.op = "reveal" PROVE PhaseOK(P, c)
    <3>1. c.pc = "val" /\ c.n = s.n /\ c.left = s.left
      BY <2>2, <2>6
    <3> QED
      BY <3>1, <2>1, <2>3, <1>2, <1>3, SMTT(40), ZenonT(40) DEF PhaseOK, Draws
  <2>7. ASSUME o.op = "zero" PROVE PhaseOK(P, c)
    <3>1. c.pc = "idle" /\ c.n = s.n /\ c.left = s.left
      BY <2>2, <2>7
    <3> QED
      BY <3>1, <2>1, <2>3, <1>2, <1>3, SMTT(40), ZenonT(40), Z3T(40) DEF PhaseOK, Draws
  <2> QED
    BY <2>3, <2>4, <2>5, <2>6, <2>7, <1>3 DEF c
<1> QED
  BY <1>4, <1>5

LEMMA SuccPhase ==
  ASSUME NEW P \in Seq(Operation), NEW s \in Engine, PhaseOK(P, s), s.pc # "finish"
  PROVE  Succ(P, s) \in Engine /\ PhaseOK(P, Succ(P, s))
<1>1. CASE s.pc = "idle" /\ s.left # 0
  <2> DEFINE c == NextTurn(s)
  <2>1. /\ c \in Engine /\ c.at = s.at /\ c.left = s.left /\ c.n = s.n
        /\ c.cnt = s.cnt /\ c.gates = s.gates /\ c.checked = s.checked
        /\ c.pc = IF s.cnt = CHECK_SZ THEN "seed" ELSE "d"
    BY TurnFields
  <2>2. s.left \in Nat /\ s.cnt \in 0 .. CHECK_SZ /\ s.at \in Nat /\ Len(P) \in Nat
    BY EngineFields
  <2> HIDE DEF c
  <2>3. PhaseOK(P, c)
    BY <1>1, <2>1, <2>2, CheckAssumption DEF PhaseOK, Draws
  <2> QED
    BY <1>1, <2>1, <2>3 DEF Succ, c
<1>2. s.pc \in Phases
  BY EngineFields
<1>3. CASE s.pc = "idle" /\ s.left = 0
  BY <1>3, CalledPhase DEF Succ
<1>4. CASE s.pc \in Draws
  BY <1>4, CopiedPhase DEF Succ, Draws
<1>5. CASE s.pc \in What
  BY <1>5, MovedPhase DEF Succ, Draws, What
<1> QED
  BY <1>1, <1>2, <1>3, <1>4, <1>5 DEF Phases

(* The steps that are left, for each phase: a transfer or a draw, what     *)
(* follows it, and up to two flushes before it.                            *)
Rest(p, P, s) == IF s.at = Len(P) + 2 THEN Dig(p) ELSE Refill(p, CHECK_SZ)

Then(p, P, s) ==
  CASE s.pc = "construct" -> Cons(Draw(CHECK_SZ, "buf"), Nil)
    [] s.pc = "input"     -> Cons(Xfer(p, "lam"), Nil)
    [] s.pc = "seed"      -> Cons(Flush, Chal(p, 1, Rest(p, P, s)))
    [] s.pc = "chal"      -> Sums(p, Rest(p, P, s))
    [] s.pc = "sum"       -> Cons(Flush, Rest(p, P, s))
    [] s.pc = "fill"      -> Blk(p)
    [] s.pc = "digest"    -> Fin(p)
    [] OTHER              -> Nil

Core(p, P, s) ==
  IF s.pc \in Draws THEN Cons(Draw(s.n, To(s.pc)), Then(p, P, s))
  ELSE IF s.pc \in What THEN Cons(Xfer(p, s.pc), Then(p, P, s))
  ELSE IF s.pc = "finish" THEN Cons(Finish, Nil)
  ELSE Nil

TodoOK(p, P, s, t) ==
  \/ t = Core(p, P, s)
  \/ t = Cons(Flush, Core(p, P, s))
  \/ t = Cons(Flush, Cons(Flush, Core(p, P, s)))
  \/ s.pc = "finish" /\ t = Nil

LEMMA CoreType ==
  ASSUME NEW p \in Party, NEW P \in Seq(Operation), NEW s \in Engine
  PROVE  /\ Rest(p, P, s) \in Seq(Steps)
         /\ Then(p, P, s) \in Seq(Steps)
         /\ Core(p, P, s) \in Seq(Steps)
<1>1. CHECK_SZ \in Nat /\ s.n \in Nat /\ Nil \in Seq(Steps)
  BY CheckAssumption, EngineFields, StepLists
<1>2. Rest(p, P, s) \in Seq(Steps)
  BY <1>1, ListTypes DEF Rest
<1>3. Then(p, P, s) \in Seq(Steps)
  <2>1. Cons(Draw(CHECK_SZ, "buf"), Nil) \in Seq(Steps) /\ Cons(Xfer(p, "lam"), Nil) \in Seq(Steps)
    BY <1>1, StepKinds, StepLists, SMTT(40), ZenonT(40) DEF What
  <2>2. Cons(Flush, Chal(p, 1, Rest(p, P, s))) \in Seq(Steps) /\ Cons(Flush, Rest(p, P, s)) \in Seq(Steps)
    BY <1>2, ListTypes, StepKinds, StepLists
  <2>3. Sums(p, Rest(p, P, s)) \in Seq(Steps) /\ Blk(p) \in Seq(Steps) /\ Fin(p) \in Seq(Steps)
    BY <1>1, <1>2, ListTypes, SMTT(40), ZenonT(40), Z3T(40)
  <2> QED
    BY <1>1, <2>1, <2>2, <2>3 DEF Then
<1>4. Core(p, P, s) \in Seq(Steps)
  <2>1. s.pc \in Draws => Draw(s.n, To(s.pc)) \in Steps
    BY <1>1, StepKinds DEF To
  <2>2. s.pc \in What => Xfer(p, s.pc) \in Steps
    BY StepKinds
  <2> QED
    BY <1>1, <1>3, <2>1, <2>2, StepKinds, StepLists DEF Core
<1> QED
  BY <1>2, <1>3, <1>4

LEMMA TodoParts ==
  ASSUME NEW p \in Party, NEW P \in Seq(Operation), NEW s \in Engine,
         NEW t \in Seq(Steps), TodoOK(p, P, s, t)
  PROVE  /\ t = Nil => s.pc \in {"idle", "finish"}
         /\ t # Nil =>
              /\ Tail(t) \in Seq(Steps)
              /\ Head(t).do = "flush" => TodoOK(p, P, s, Tail(t))
              /\ Head(t).do = "draw" => /\ s.pc \in Draws /\ Head(t) = Draw(s.n, To(s.pc))
                                        /\ Tail(t) = Then(p, P, s)
              /\ Head(t).do \in {"send", "recv"} => /\ s.pc \in What /\ Head(t) = Xfer(p, s.pc)
                                                    /\ Tail(t) = Then(p, P, s)
              /\ Head(t).do = "finish" => s.pc = "finish" /\ Tail(t) = Nil
<1> DEFINE k == Core(p, P, s)  h == Then(p, P, s)
<1>1. k \in Seq(Steps) /\ h \in Seq(Steps) /\ Nil \in Seq(Steps) /\ s.n \in Nat /\ s.pc \in Phases
  BY CoreType, StepLists, EngineFields
<1>2. \/ s.pc \in Draws /\ k = Cons(Draw(s.n, To(s.pc)), h)
      \/ s.pc \in What /\ k = Cons(Xfer(p, s.pc), h)
      \/ s.pc = "finish" /\ k = Cons(Finish, Nil)
      \/ s.pc = "idle" /\ k = Nil
  BY <1>1 DEF Core, Phases, Draws, What
<1>3. \/ t = k
      \/ t = Cons(Flush, k)
      \/ t = Cons(Flush, Cons(Flush, k))
      \/ s.pc = "finish" /\ t = Nil
  BY DEF TodoOK
<1>4. TodoOK(p, P, s, k) /\ TodoOK(p, P, s, Cons(Flush, k))
  BY DEF TodoOK
<1> HIDE DEF k, h
<1>5. CASE t = Cons(Flush, k)
  <2>1. Flush \in Steps /\ Flush.do = "flush"
    BY StepKinds
  <2>2. t # Nil /\ Head(t) = Flush /\ Tail(t) = k
    BY <1>1, <1>5, <2>1, StepLists
  <2> QED
    BY <1>1, <1>4, <2>1, <2>2
<1>6. CASE t = Cons(Flush, Cons(Flush, k))
  <2>1. Flush \in Steps /\ Flush.do = "flush" /\ Cons(Flush, k) \in Seq(Steps)
    BY <1>1, StepKinds, StepLists
  <2>2. t # Nil /\ Head(t) = Flush /\ Tail(t) = Cons(Flush, k)
    BY <1>6, <2>1, StepLists
  <2> QED
    BY <1>4, <2>1, <2>2
<1>7. CASE s.pc = "finish" /\ t = Nil
  BY <1>7
<1>8. CASE t = k
  <2>1. CASE s.pc \in Draws /\ k = Cons(Draw(s.n, To(s.pc)), h)
    <3>1. Draw(s.n, To(s.pc)) \in Steps /\ Draw(s.n, To(s.pc)).do = "draw"
      BY <1>1, StepKinds DEF To
    <3>2. t # Nil /\ Head(t) = Draw(s.n, To(s.pc)) /\ Tail(t) = h
      BY <1>1, <1>8, <2>1, <3>1, StepLists
    <3> QED
      BY <1>1, <2>1, <3>1, <3>2 DEF h
  <2>2. CASE s.pc \in What /\ k = Cons(Xfer(p, s.pc), h)
    <3>1. Xfer(p, s.pc) \in Steps /\ Xfer(p, s.pc).do \in {"send", "recv"}
      BY <2>2, StepKinds
    <3>2. t # Nil /\ Head(t) = Xfer(p, s.pc) /\ Tail(t) = h
      BY <1>1, <1>8, <2>2, <3>1, StepLists
    <3> QED
      BY <1>1, <2>2, <3>1, <3>2 DEF h
  <2>3. CASE s.pc = "finish" /\ k = Cons(Finish, Nil)
    <3>1. Finish \in Steps /\ Finish.do = "finish"
      BY StepKinds
    <3>2. t # Nil /\ Head(t) = Finish /\ Tail(t) = Nil
      BY <1>1, <1>8, <2>3, <3>1, StepLists
    <3> QED
      BY <1>1, <2>3, <3>1, <3>2
  <2>4. CASE s.pc = "idle" /\ k = Nil
    BY <1>8, <2>4
  <2> QED
    BY <1>2, <2>1, <2>2, <2>3, <2>4
<1> QED
  BY <1>3, <1>5, <1>6, <1>7, <1>8

LEMMA DrawThen ==
  ASSUME NEW p \in Party, NEW P \in Seq(Operation), NEW s \in Engine, s.pc \in Draws, PhaseOK(P, s)
  PROVE  TodoOK(p, P, Copied(s),
                IF Take(s) = s.n THEN Then(p, P, s)
                ELSE Cons(Draw(s.n - Take(s), To(s.pc)), Then(p, P, s)))
<1> DEFINE c == Copied(s)
<1>1. s.n > 0 /\ (To(s.pc) = "buf" => s.n <= CHECK_SZ)
  BY DEF PhaseOK, To
<1>2. /\ c \in Engine /\ c.at = s.at
      /\ c.pc = IF Take(s) = s.n THEN AfterDraw(s.pc) ELSE s.pc
      /\ c.n  = IF Take(s) = s.n /\ s.pc = "construct" THEN CHECK_SZ ELSE s.n - Take(s)
  BY <1>1, CopiedFields
<1> HIDE DEF c
<1>3. CASE Take(s) # s.n
  <2>1. c.pc = s.pc /\ c.n = s.n - Take(s) /\ c.at = s.at
    BY <1>2, <1>3
  <2>2. Then(p, P, c) = Then(p, P, s)
    BY <2>1 DEF Then, Rest
  <2>3. Core(p, P, c) = Cons(Draw(s.n - Take(s), To(s.pc)), Then(p, P, s))
    BY <2>1, <2>2 DEF Core
  <2> QED
    BY <2>3, <1>3 DEF TodoOK, c
<1>4. CASE Take(s) = s.n
  <2>1. c.pc = AfterDraw(s.pc) /\ c.at = s.at /\ (s.pc = "construct" => c.n = CHECK_SZ)
    BY <1>2, <1>4
  <2>2. Core(p, P, c) = Then(p, P, s)
    <3>1. CASE s.pc = "construct"
      BY <2>1, <3>1 DEF Core, Then, AfterDraw, Draws, What, To
    <3>2. CASE s.pc = "first"
      BY <2>1, <3>2 DEF Core, Then, AfterDraw, Draws, What
    <3>3. CASE s.pc = "input"
      BY <2>1, <3>3 DEF Core, Then, AfterDraw, Draws, What
    <3>4. CASE s.pc = "chal"
      BY <2>1, <3>4 DEF Core, Then, AfterDraw, Draws, What, Sums, Rest
    <3>5. CASE s.pc = "fill"
      BY <2>1, <3>5 DEF Core, Then, AfterDraw, Draws, What, Blk
    <3> QED
      BY <3>1, <3>2, <3>3, <3>4, <3>5 DEF Draws
  <2> QED
    BY <2>2, <1>4 DEF TodoOK, c
<1> QED
  BY <1>3, <1>4

LEMMA MoveThen ==
  ASSUME NEW p \in Party, NEW P \in Seq(Operation), NEW s \in Engine, s.pc \in What, PhaseOK(P, s)
  PROVE  TodoOK(p, P, Moved(P, s), Then(p, P, s))
<1> DEFINE c == Moved(P, s)
<1>1. /\ c \in Engine /\ c.at = s.at /\ c.pc = AfterMove(P, s)
      /\ c.n = (CASE s.pc = "seed" -> 1 [] s.pc = "sum" -> CHECK_SZ [] OTHER -> s.n)
  BY MovedFields
<1> HIDE DEF c
<1>2. Rest(p, P, c) = Rest(p, P, s)
  BY <1>1 DEF Rest
<1>3. TodoOK(p, P, c, Then(p, P, s))
  <2>1. CASE s.pc \in {"lam", "val", "d"}
    <3>1. c.pc = "idle"
      BY <1>1, <2>1 DEF AfterMove
    <3>2. Core(p, P, c) = Nil /\ Then(p, P, s) = Nil
      BY <2>1, <3>1 DEF Core, Then, Draws, What
    <3> QED
      BY <3>2 DEF TodoOK
  <2>2. CASE s.pc = "seed"
    <3>1. c.pc = "chal" /\ c.n = 1
      BY <1>1, <2>2 DEF AfterMove
    <3>2. Core(p, P, c) = Chal(p, 1, Rest(p, P, s))
      BY <1>2, <3>1 DEF Core, Then, Draws, To, Chal
    <3>3. Then(p, P, s) = Cons(Flush, Core(p, P, c))
      BY <2>2, <3>2 DEF Then
    <3> QED
      BY <3>3 DEF TodoOK
  <2>3. CASE s.pc = "sum"
    <3>1. c.pc = (IF s.at = Len(P) + 2 THEN "digest" ELSE "fill") /\ c.n = CHECK_SZ
      BY <1>1, <2>3 DEF AfterMove
    <3>2. Core(p, P, c) = Rest(p, P, s)
      <4>1. CASE s.at = Len(P) + 2
        BY <3>1, <4>1 DEF Core, Then, Draws, What, Rest, Dig
      <4>2. CASE s.at # Len(P) + 2
        BY <3>1, <4>2 DEF Core, Then, Draws, What, Rest, Refill, To
      <4> QED
        BY <4>1, <4>2
    <3>3. Then(p, P, s) = Cons(Flush, Core(p, P, c))
      BY <2>3, <3>2 DEF Then
    <3> QED
      BY <3>3 DEF TodoOK
  <2>4. CASE s.pc = "digest"
    <3>1. c.pc = "finish"
      BY <1>1, <2>4 DEF AfterMove
    <3>2. Core(p, P, c) = Cons(Finish, Nil) /\ Then(p, P, s) = Fin(p)
      BY <2>4, <3>1 DEF Core, Then, Draws, What
    <3> QED
      BY <3>2 DEF TodoOK, Fin
  <2> QED
    BY <2>1, <2>2, <2>3, <2>4 DEF What
<1> QED
  BY <1>3 DEF c

(***************************************************************************)
(* An engine follows the machine: Sim reads the engine's variables as a    *)
(* state of it.                                                            *)
(***************************************************************************)
(* What an engine's variables say of the machine.                          *)
Sim(p, s) ==
  /\ s.at = at[p] /\ s.left = left[p] /\ s.reg = reg[p] /\ s.buf = buf[p] /\ s.cnt = cnt[p]
  /\ s.gates = gates[p] /\ s.checked = checked[p] /\ s.hash = hash[p]
  /\ TodoOK(p, prog, s, todo[p])
  /\ s.pc # "finish" => /\ s.used = used[p] /\ s.off = off[p]
                        /\ ~hold[p] => s.off = 0

StreamTypeOK ==
  /\ prog \in Seq(Operation)
  /\ at \in [Party -> Nat] /\ left \in [Party -> Nat] /\ todo \in [Party -> Seq(Steps)]
  /\ reg \in [Party -> Seq(Nat)] /\ buf \in [Party -> [0 .. CHECK_SZ - 1 -> Int]]
  /\ cnt \in [Party -> 0 .. CHECK_SZ] /\ gates \in [Party -> Nat] /\ checked \in [Party -> Nat]
  /\ hash \in [Party -> Seq(Nat)]
  /\ used \in [Party -> Nat] /\ off \in [Party -> Nat] /\ hold \in [Party -> BOOLEAN]

localVars(p) == <<at[p], left[p], todo[p], reg[p], buf[p], cnt[p], gates[p], checked[p], hash[p],
                  used[p], off[p], hold[p]>>

LEMMA SimFrame ==
  ASSUME NEW p \in Party, NEW s, Sim(p, s), UNCHANGED prog, UNCHANGED localVars(p)
  PROVE  Sim(p, s)'
BY DEF Sim, localVars

\* A step of one engine leaves the other's variables alone.
LEMMA OtherEngine ==
  ASSUME NEW p \in Party, NEW q \in Party, p # q, StreamTypeOK, EngineStep(p)
  PROVE  UNCHANGED prog /\ UNCHANGED localVars(q)
<1> USE DEF localVars, StreamTypeOK, drawVars
<1>1. CASE Call(p)
  <2>1. /\ UNCHANGED <<prog, buf, cnt, gates, checked, used, hold, off>>
        /\ at' = [at EXCEPT ![p] = at[p] + 1] /\ reg' = [reg EXCEPT ![p] = << >>]
    BY <1>1 DEF Call
  <2>2. \E x : todo' = [todo EXCEPT ![p] = x]
    BY <1>1, Zenon DEF Call
  <2>3. left' = left \/ \E x : left' = [left EXCEPT ![p] = x]
    BY <1>1, Zenon DEF Call
  <2>4. hash' = hash \/ \E x : hash' = [hash EXCEPT ![p] = x]
    BY <1>1, Zenon DEF Call
  <2> QED
    BY <2>1, <2>2, <2>3, <2>4
<1>2. CASE NextBlock(p)
  BY <1>2 DEF NextBlock
<1>3. CASE DoFlush(p)
  BY <1>3 DEF DoFlush
<1>4. CASE FlushBeforeWait(p)
  BY <1>4 DEF FlushBeforeWait, engineVars
<1>5. CASE AcquireReady(p)
  BY <1>5 DEF AcquireReady, engineVars
<1>6. CASE Copy(p)
  <2>1. /\ UNCHANGED <<prog, at, left, gates, checked, hash>>
        /\ \E x : todo' = [todo EXCEPT ![p] = x]
        /\ \/ (\E x : reg' = [reg EXCEPT ![p] = x]) /\ UNCHANGED <<buf, cnt>>
           \/ (\E x, y : buf' = [buf EXCEPT ![p] = x] /\ cnt' = [cnt EXCEPT ![p] = y]) /\ UNCHANGED reg
        /\ \/ (\E x, y, z : used' = [used EXCEPT ![p] = x] /\ hold' = [hold EXCEPT ![p] = y]
                            /\ off' = [off EXCEPT ![p] = z])
           \/ (\E z : off' = [off EXCEPT ![p] = z]) /\ UNCHANGED <<used, hold>>
    BY <1>6 DEF Copy
  <2> QED
    BY <2>1, ZenonT(60), SMTT(40)
<1>7. CASE DoSend(p) \/ DoRecv(p)
  <2>1. PICK w : AfterTransfer(p, w) /\ UNCHANGED <<prog, at, drawVars>>
    BY <1>7 DEF DoSend, DoRecv
  <2> QED
    <3>1. /\ UNCHANGED <<prog, at, used, hold, off>>
          /\ todo' = [todo EXCEPT ![p] = Tail(todo[p])] /\ reg' = [reg EXCEPT ![p] = << >>]
      BY <2>1, Zenon DEF AfterTransfer
    <3>2. /\ (buf' = buf \/ \E x : buf' = [buf EXCEPT ![p] = x])
          /\ (cnt' = cnt \/ \E x : cnt' = [cnt EXCEPT ![p] = x])
      BY <2>1, Zenon DEF AfterTransfer
    <3>3. /\ (left' = left \/ \E x : left' = [left EXCEPT ![p] = x])
          /\ (gates' = gates \/ \E x : gates' = [gates EXCEPT ![p] = x])
      BY <2>1, Zenon DEF AfterTransfer
    <3>4. hash' = hash \/ \E x : hash' = [hash EXCEPT ![p] = x]
      BY <2>1, Zenon DEF AfterTransfer
    <3>5. checked' = checked \/ \E x : checked' = [checked EXCEPT ![p] = x]
      BY <2>1, Zenon DEF AfterTransfer
    <3> QED
      BY <3>1, <3>2, <3>3, <3>4, <3>5, ZenonT(60), SMTT(40)
<1>8. CASE GiveBack(p)
  BY <1>8 DEF GiveBack, engineVars
<1>9. CASE FinishPipe(p)
  BY <1>9 DEF FinishPipe, engineVars
<1>10. CASE JoinProducer(p)
  BY <1>10 DEF JoinProducer
<1> QED
  BY <1>1, <1>2, <1>3, <1>4, <1>5, <1>6, <1>7, <1>8, <1>9, <1>10 DEF EngineStep

\* The first step of what is left to do.
LEMMA FirstStep ==
  ASSUME NEW p \in Party, NEW s \in Engine, StreamTypeOK, Sim(p, s), todo[p] # << >>
  PROVE  /\ Tail(todo[p]) \in Seq(Steps)
         /\ At(p, "flush") => TodoOK(p, prog, s, Tail(todo[p]))
         /\ At(p, "draw") => /\ s.pc \in Draws /\ Head(todo[p]) = Draw(s.n, To(s.pc))
                             /\ Tail(todo[p]) = Then(p, prog, s)
         /\ At(p, "send") \/ At(p, "recv") => /\ s.pc \in What /\ Head(todo[p]) = Xfer(p, s.pc)
                                              /\ Tail(todo[p]) = Then(p, prog, s)
         /\ At(p, "finish") => s.pc = "finish" /\ Tail(todo[p]) = Nil
<1>1. todo[p] \in Seq(Steps) /\ prog \in Seq(Operation) /\ todo[p] # Nil /\ TodoOK(p, prog, s, todo[p])
  BY DEF StreamTypeOK, Sim, Nil
<1> QED
  BY <1>1, TodoParts DEF At

(* The steps the machine does not see.                                     *)
LEMMA QuietEngine ==
  ASSUME NEW p \in Party, NEW s \in Engine, StreamTypeOK, Sim(p, s),
         \/ DoFlush(p) \/ FlushBeforeWait(p) \/ AcquireReady(p)
         \/ GiveBack(p) \/ FinishPipe(p) \/ JoinProducer(p)
  PROVE  Sim(p, s)' /\ StreamTypeOK'
<1>1. CASE DoFlush(p) \/ JoinProducer(p)
  <2>1. /\ todo[p] # << >> /\ todo' = [todo EXCEPT ![p] = Tail(@)]
        /\ UNCHANGED <<prog, at, left, reg, buf, cnt, gates, checked, hash, used, hold, off>>
        /\ At(p, "flush") \/ At(p, "finish")
    BY <1>1 DEF DoFlush, JoinProducer, drawVars, At
  <2>2. Tail(todo[p]) \in Seq(Steps) /\ TodoOK(p, prog, s, Tail(todo[p]))
    BY <2>1, FirstStep DEF TodoOK
  <2>3. todo'[p] = Tail(todo[p]) /\ todo' \in [Party -> Seq(Steps)]
    BY <2>1, <2>2 DEF StreamTypeOK
  <2> QED
    BY <2>1, <2>2, <2>3, SMTT(40), ZenonT(40) DEF Sim, StreamTypeOK
<1>2. CASE FlushBeforeWait(p) \/ FinishPipe(p)
  <2>1. UNCHANGED <<prog, at, left, todo, reg, buf, cnt, gates, checked, hash, used, hold, off>>
    BY <1>2 DEF FlushBeforeWait, FinishPipe, engineVars, drawVars
  <2> QED
    BY <2>1, SMTT(40), ZenonT(40) DEF Sim, StreamTypeOK
<1>3. CASE AcquireReady(p)
  <2>1. /\ UNCHANGED <<prog, at, left, todo, reg, buf, cnt, gates, checked, hash, used>>
        /\ ~hold[p] /\ hold' = [hold EXCEPT ![p] = TRUE] /\ off' = [off EXCEPT ![p] = 0]
        /\ todo[p] # << >> /\ At(p, "draw")
    BY <1>3 DEF AcquireReady, engineVars, At
  <2>2. s.pc # "finish"
    BY <2>1, FirstStep DEF Draws
  <2> QED
    BY <2>1, <2>2, SMTT(40), ZenonT(40) DEF Sim, StreamTypeOK
<1>4. CASE GiveBack(p)
  <2>1. /\ UNCHANGED <<prog, at, left, todo, reg, buf, cnt, gates, checked, hash, off>>
        /\ used' = [used EXCEPT ![p] = @ + 1] /\ hold' = [hold EXCEPT ![p] = FALSE]
        /\ todo[p] # << >> /\ At(p, "finish")
    BY <1>4 DEF GiveBack, engineVars, At
  <2>2. s.pc = "finish"
    BY <2>1, FirstStep
  <2> QED
    BY <2>1, <2>2, SMTT(40), ZenonT(40), Z3T(40) DEF Sim, StreamTypeOK
<1> QED
  BY <1>1, <1>2, <1>3, <1>4

(***************************************************************************)
(* The engine's steps, one lemma each: the next state of the engine is the *)
(* machine's next state, or the same one.                                  *)
(***************************************************************************)
LEMMA CallStep ==
  ASSUME NEW p \in Party, NEW s \in Engine, StreamTypeOK, Sim(p, s), PhaseOK(prog, s), Call(p),
         NEW c, NEW P, P = prog, c = Called(P, s)
  PROVE  s.pc = "idle" /\ s.left = 0 /\ Sim(p, c)' /\ StreamTypeOK'
<1>1. /\ todo[p] = Nil /\ left[p] = 0 /\ at[p] <= Len(P) + 1
      /\ at' = [at EXCEPT ![p] = @ + 1] /\ reg' = [reg EXCEPT ![p] = << >>]
      /\ UNCHANGED <<prog, buf, cnt, gates, checked, used, hold, off>>
  BY DEF Call, drawVars, Nil
<1>2. P \in Seq(Operation) /\ todo[p] \in Seq(Steps) /\ TodoOK(p, P, s, todo[p])
  BY DEF StreamTypeOK, Sim
<1>3. s.pc = "idle" /\ s.left = 0 /\ s.at <= Len(P) + 1
  <2>1. s.pc \in {"idle", "finish"}
    BY <1>1, <1>2, TodoParts
  <2>2. s.at = at[p] /\ s.left = left[p] /\ s.at \in Nat /\ Len(P) \in Nat
    BY <1>2, EngineFields DEF Sim
  <2>3. s.pc = "finish" => s.at = Len(P) + 2
    BY DEF PhaseOK
  <2> QED
    BY <1>1, <2>1, <2>2, <2>3
<1>4. /\ c \in Engine
      /\ c.at = s.at + 1 /\ c.reg = << >> /\ c.buf = s.buf /\ c.cnt = s.cnt
      /\ c.gates = s.gates /\ c.checked = s.checked /\ c.used = s.used /\ c.off = s.off
  BY <1>2, <1>3, CalledFields
<1>5. /\ s.at = at[p] /\ s.left = left[p] /\ s.cnt = cnt[p] /\ s.hash = hash[p] /\ s.buf = buf[p]
      /\ s.gates = gates[p] /\ s.checked = checked[p] /\ s.used = used[p] /\ s.off = off[p]
      /\ ~hold[p] => s.off = 0
  BY <1>3 DEF Sim
<1>6. c \in Engine /\ CHECK_SZ \in Nat /\ Len(P) \in Nat /\ s.at \in Nat
  BY <1>2, <1>4, EngineFields, CheckAssumption
<1>7. ASSUME NEW t \in Seq(Steps), todo' = [todo EXCEPT ![p] = t], TodoOK(p, P, c, t),
             left' = [left EXCEPT ![p] = c.left], hash' = [hash EXCEPT ![p] = c.hash]
      PROVE  Sim(p, c)' /\ StreamTypeOK'
  <2>1. c.left \in Nat /\ c.hash \in Seq(Nat) /\ c.at \in Nat
    BY <1>6, EngineFields
  <2>2. /\ at'[p] = c.at /\ reg'[p] = << >> /\ todo'[p] = t /\ left'[p] = c.left /\ hash'[p] = c.hash
    BY <1>1, <1>4, <1>5, <1>7 DEF StreamTypeOK
  <2>3. TodoOK(p, prog', c, todo'[p])
    BY <1>1, <1>7, <2>2
  <2>4. Sim(p, c)'
    BY <1>1, <1>4, <1>5, <2>2, <2>3 DEF Sim
  <2>5. StreamTypeOK'
    <3>1. /\ left' \in [Party -> Nat] /\ hash' \in [Party -> Seq(Nat)]
          /\ todo' \in [Party -> Seq(Steps)]
      BY <1>7, <2>1, SMTT(40), ZenonT(40) DEF StreamTypeOK
    <3>2. at' \in [Party -> Nat] /\ reg' \in [Party -> Seq(Nat)]
      BY <1>1, SMTT(40), ZenonT(40) DEF StreamTypeOK
    <3> QED
      BY <1>1, <3>1, <3>2 DEF StreamTypeOK
  <2> QED
    BY <2>4, <2>5
<1>8. Dig(p) \in Seq(Steps) /\ Refill(p, CHECK_SZ) \in Seq(Steps) /\ Blk(p) \in Seq(Steps)
      /\ Nil \in Seq(Steps)
  BY <1>6, StepLists, ListTypes
<1>9. \A r \in Seq(Steps) : Seed(p, r) \in Seq(Steps) /\ Cons(Flush, Cons(Flush, Seed(p, r))) \in Seq(Steps)
  BY <1>6, StepLists, StepKinds, ListTypes
<1>10. CASE s.at = Len(P) + 1
  <2> DEFINE t == Destruct(p)
  <2>1. todo' = [todo EXCEPT ![p] = t] /\ UNCHANGED <<left, hash>>
    BY <1>5, <1>10 DEF Call
  <2>2. c.pc = (IF s.cnt # 0 THEN "seed" ELSE "digest") /\ c.left = s.left /\ c.hash = s.hash
    BY <1>2, <1>3, <1>10, CalledFields
  <2>3. t = IF s.cnt # 0 THEN Cons(Flush, Cons(Flush, Seed(p, Dig(p)))) ELSE Dig(p)
    BY <1>5, CallLists
  <2>4. t \in Seq(Steps)
    BY <2>3, <1>8, <1>9
  <2>5. Rest(p, P, c) = Dig(p)
    BY <1>4, <1>6, <1>10 DEF Rest
  <2> HIDE DEF t
  <2>6. TodoOK(p, P, c, t)
    <3>1. CASE s.cnt # 0
      <4>1. Core(p, P, c) = Seed(p, Dig(p))
        BY <2>2, <2>5, <3>1 DEF Core, Then, Draws, What, Seed
      <4> QED
        BY <2>3, <3>1, <4>1 DEF TodoOK
    <3>2. CASE ~(s.cnt # 0)
      <4>1. Core(p, P, c) = Dig(p)
        BY <2>2, <3>2 DEF Core, Then, Draws, What, Dig
      <4> QED
        BY <2>3, <3>2, <4>1 DEF TodoOK
    <3> QED
      BY <3>1, <3>2
  <2>7. left' = [left EXCEPT ![p] = c.left] /\ hash' = [hash EXCEPT ![p] = c.hash]
    BY <1>5, <2>1, <2>2 DEF StreamTypeOK
  <2>8. Sim(p, c)' /\ StreamTypeOK'
    BY <1>7, <2>1, <2>4, <2>6, <2>7
  <2> QED
    BY <1>3, <2>8
<1>11. CASE s.at # Len(P) + 1
  <2> DEFINE o == P[s.at]
  <2>1. s.at <= Len(P)
    BY <1>3, <1>6, <1>11
  <2>2. /\ o \in Operation
        /\ c.pc = (CASE o.op = "input"  -> "input"
                     [] o.op = "mul"    -> IF s.cnt = CHECK_SZ THEN "seed" ELSE "d"
                     [] o.op = "reveal" -> "val"
                     [] OTHER             -> "idle")
        /\ c.n    = (IF o.op = "input" THEN o.n ELSE s.n)
        /\ c.left = (IF o.op = "mul" THEN o.n ELSE s.left)
        /\ c.hash = (IF o.op = "zero" THEN Append(s.hash, s.at) ELSE s.hash)
    BY <1>2, <1>3, <2>1, CalledOperation
  <2>3. o.n \in Nat /\ o.n > 0 /\ o.op \in {"input", "mul", "reveal", "zero"}
    BY <2>2 DEF Operation
  <2>4. /\ todo' = [todo EXCEPT ![p] = CASE o.op = "input"  -> Input(p, o.n)
                                         [] o.op = "mul"    -> MulBlock(p)
                                         [] o.op = "reveal" -> Reveal(p)
                                         [] o.op = "zero"   -> << >>]
        /\ left' = [left EXCEPT ![p] = IF o.op = "mul" THEN o.n ELSE 0]
        /\ hash' = IF o.op = "zero" THEN [hash EXCEPT ![p] = Append(@, at[p])] ELSE hash
    BY <1>5, <1>11 DEF Call
  <2>5. left' = [left EXCEPT ![p] = c.left]
    BY <2>2, <2>4, <1>3
  <2>6. hash' = [hash EXCEPT ![p] = c.hash]
    <3>1. CASE o.op = "zero"
      BY <2>2, <2>4, <1>5, <3>1
    <3>2. CASE o.op # "zero"
      <4>1. hash' = hash /\ c.hash = hash[p]
        BY <2>2, <2>4, <1>5, <3>2
      <4> QED
        BY <4>1 DEF StreamTypeOK
    <3> QED
      BY <3>1, <3>2
  <2>7. Rest(p, P, c) = Refill(p, CHECK_SZ)
    BY <1>4, <1>6, <2>1 DEF Rest
  <2> HIDE DEF o
  <2>8. CASE o.op = "input"
    <3> DEFINE t == Cons(Draw(o.n, "reg"), Cons(Xfer(p, "lam"), Nil))
    <3>1. todo' = [todo EXCEPT ![p] = t]
      BY <2>3, <2>4, <2>8, CallLists
    <3>2. c.pc = "input" /\ c.n = o.n
      BY <2>2, <2>8
    <3>3. t = Core(p, P, c)
      BY <3>2 DEF Core, Then, Draws, To
    <3>4. t \in Seq(Steps)
      BY <3>3, <1>2, <1>6, CoreType
    <3> HIDE DEF t
    <3>5. TodoOK(p, P, c, t)
      BY <3>3 DEF TodoOK
    <3>6. Sim(p, c)' /\ StreamTypeOK'
      BY <1>7, <3>1, <3>4, <3>5, <2>5, <2>6
    <3> QED
      BY <1>3, <3>6
  <2>9. CASE o.op = "mul"
    <3> DEFINE t == MulBlock(p)
    <3>1. todo' = [todo EXCEPT ![p] = t]
      BY <2>3, <2>4, <2>9
    <3>2. c.pc = (IF s.cnt = CHECK_SZ THEN "seed" ELSE "d")
      BY <2>2, <2>9
    <3>3. t = IF s.cnt = CHECK_SZ THEN Cons(Flush, Cons(Flush, Seed(p, Refill(p, CHECK_SZ)))) ELSE Blk(p)
      BY <1>5, CallLists
    <3>4. t \in Seq(Steps)
      BY <3>3, <1>8, <1>9
    <3> HIDE DEF t
    <3>5. TodoOK(p, P, c, t)
      <4>1. CASE s.cnt = CHECK_SZ
        <5>1. Core(p, P, c) = Seed(p, Refill(p, CHECK_SZ))
          BY <2>7, <3>2, <4>1 DEF Core, Then, Draws, What, Seed
        <5> QED
          BY <3>3, <4>1, <5>1 DEF TodoOK
      <4>2. CASE s.cnt # CHECK_SZ
        <5>1. Core(p, P, c) = Blk(p)
          BY <3>2, <4>2 DEF Core, Then, Draws, What, Blk
        <5> QED
          BY <3>3, <4>2, <5>1 DEF TodoOK
      <4> QED
        BY <4>1, <4>2
    <3>6. Sim(p, c)' /\ StreamTypeOK'
      BY <1>7, <3>1, <3>4, <3>5, <2>5, <2>6
    <3> QED
      BY <1>3, <3>6
  <2>10. CASE o.op = "reveal"
    <3> DEFINE t == Cons(Xfer(p, "val"), Nil)
    <3>1. todo' = [todo EXCEPT ![p] = t]
      BY <2>3, <2>4, <2>10, CallLists
    <3>2. c.pc = "val"
      BY <2>2, <2>10
    <3>3. t = Core(p, P, c)
      BY <3>2 DEF Core, Then, Draws, What
    <3>4. t \in Seq(Steps)
      BY <3>3, <1>2, <1>6, CoreType
    <3> HIDE DEF t
    <3>5. TodoOK(p, P, c, t)
      BY <3>3 DEF TodoOK
    <3>6. Sim(p, c)' /\ StreamTypeOK'
      BY <1>7, <3>1, <3>4, <3>5, <2>5, <2>6
    <3> QED
      BY <1>3, <3>6
  <2>11. CASE o.op = "zero"
    <3>1. todo' = [todo EXCEPT ![p] = Nil]
      BY <2>3, <2>4, <2>11 DEF Nil
    <3>2. c.pc = "idle"
      BY <2>2, <2>11
    <3>3. TodoOK(p, P, c, Nil)
      BY <3>2 DEF TodoOK, Core, Draws, What
    <3>4. Sim(p, c)' /\ StreamTypeOK'
      BY <1>7, <1>8, <3>1, <3>3, <2>5, <2>6
    <3> QED
      BY <1>3, <3>4
  <2> QED
    BY <2>3, <2>8, <2>9, <2>10, <2>11
<1> QED
  BY <1>10, <1>11

LEMMA NextBlockStep ==
  ASSUME NEW p \in Party, NEW s \in Engine, StreamTypeOK, Sim(p, s), PhaseOK(prog, s), NextBlock(p)
  PROVE  s.pc = "idle" /\ s.left # 0 /\ Sim(p, NextTurn(s))' /\ StreamTypeOK'
<1> DEFINE c == NextTurn(s)  t == MulBlock(p)
<1>1. /\ todo[p] = Nil /\ left[p] > 0 /\ todo' = [todo EXCEPT ![p] = t]
      /\ UNCHANGED <<prog, at, left, reg, buf, cnt, gates, checked, hash, used, hold, off>>
  BY DEF NextBlock, drawVars, Nil
<1>2. prog \in Seq(Operation) /\ todo[p] \in Seq(Steps) /\ TodoOK(p, prog, s, todo[p])
      /\ Len(prog) \in Nat /\ s.left = left[p] /\ s.left \in Nat /\ s.cnt = cnt[p] /\ s.at \in Nat
  BY EngineFields DEF StreamTypeOK, Sim
<1>3. s.pc = "idle" /\ s.left # 0 /\ s.at <= Len(prog) + 1
  <2>1. s.pc \in {"idle", "finish"}
    BY <1>1, <1>2, TodoParts
  <2> QED
    BY <1>1, <1>2, <2>1 DEF PhaseOK
<1>4. /\ c \in Engine
      /\ c.at = s.at /\ c.left = s.left /\ c.n = s.n /\ c.reg = s.reg /\ c.buf = s.buf
      /\ c.cnt = s.cnt /\ c.gates = s.gates /\ c.checked = s.checked /\ c.hash = s.hash
      /\ c.used = s.used /\ c.off = s.off
      /\ c.pc = IF s.cnt = CHECK_SZ THEN "seed" ELSE "d"
  BY TurnFields
<1>5. t = IF s.cnt = CHECK_SZ THEN Cons(Flush, Cons(Flush, Seed(p, Refill(p, CHECK_SZ)))) ELSE Blk(p)
  BY <1>2, CallLists
<1>6. t \in Seq(Steps)
  <2>1. Refill(p, CHECK_SZ) \in Seq(Steps) /\ Blk(p) \in Seq(Steps)
    BY CheckAssumption, StepLists, ListTypes
  <2>2. Seed(p, Refill(p, CHECK_SZ)) \in Seq(Steps)
    BY <2>1, CheckAssumption, ListTypes
  <2> QED
    BY <1>5, <2>1, <2>2, StepLists, StepKinds
<1>7. Rest(p, prog, c) = Refill(p, CHECK_SZ)
  BY <1>2, <1>3, <1>4 DEF Rest
<1> HIDE DEF c, t
<1>8. TodoOK(p, prog, c, t)
  <2>1. CASE s.cnt = CHECK_SZ
    <3>1. Core(p, prog, c) = Seed(p, Refill(p, CHECK_SZ))
      BY <1>4, <1>7, <2>1 DEF Core, Then, Draws, What, Seed
    <3> QED
      BY <1>5, <2>1, <3>1 DEF TodoOK
  <2>2. CASE s.cnt # CHECK_SZ
    <3>1. Core(p, prog, c) = Blk(p)
      BY <1>4, <2>2 DEF Core, Then, Draws, What, Blk
    <3> QED
      BY <1>5, <2>2, <3>1 DEF TodoOK
  <2> QED
    BY <2>1, <2>2
<1>9. todo'[p] = t
  BY <1>1 DEF StreamTypeOK
<1>10. TodoOK(p, prog', c, todo'[p])
  BY <1>1, <1>8, <1>9
<1>11. Sim(p, c)'
  BY <1>1, <1>3, <1>4, <1>10 DEF Sim
<1>12. StreamTypeOK'
  BY <1>1, <1>6, SMTT(40), ZenonT(40) DEF StreamTypeOK
<1> QED
  BY <1>3, <1>11, <1>12 DEF c

LEMMA CopyKeepsStep ==
  ASSUME NEW p \in Party, NEW s \in Engine, StreamTypeOK, Sim(p, s), PhaseOK(prog, s), Copy(p),
         NEW c, c = Copied(s)
  PROVE  s.pc \in Draws /\ Sim(p, c)' /\ StreamTypeOK'
<1> DEFINE d == Head(todo[p])  take == Lesser(d.n, Batch - off[p])
           ids == [k \in 1 .. take |-> used[p] * Batch + off[p] + k - 1]
<1>1. todo[p] # << >> /\ At(p, "draw") /\ hold[p]
  BY DEF Copy, At
<1>2. s.pc \in Draws /\ d = Draw(s.n, To(s.pc)) /\ Tail(todo[p]) = Then(p, prog, s)
  BY <1>1, FirstStep
<1>3. s.n \in Nat /\ s.n > 0 /\ (To(s.pc) = "buf" => s.n <= CHECK_SZ)
      /\ prog \in Seq(Operation)
  BY <1>2, EngineFields DEF PhaseOK, To, StreamTypeOK
<1>4. d.n = s.n /\ d.to = To(s.pc)
  BY <1>2, StepKinds
<1>5. s.used = used[p] /\ s.off = off[p] /\ s.reg = reg[p] /\ s.buf = buf[p] /\ s.cnt = cnt[p]
      /\ s.at = at[p] /\ s.left = left[p]
      /\ s.gates = gates[p] /\ s.checked = checked[p] /\ s.hash = hash[p]
  BY <1>2 DEF Sim, Draws
<1>6. take = Take(s) /\ ids = Ids(s)
  BY <1>4, <1>5 DEF Take, Ids
<1>7. /\ c \in Engine
      /\ c.at = s.at /\ c.left = s.left /\ c.gates = s.gates
      /\ c.checked = s.checked /\ c.hash = s.hash
      /\ c.reg  = IF To(s.pc) = "reg" THEN s.reg \o Ids(s) ELSE s.reg
      /\ c.buf  = IF To(s.pc) = "buf" THEN Filled(s) ELSE s.buf
      /\ c.cnt  = IF To(s.pc) = "buf" THEN 0 ELSE s.cnt
      /\ c.used = IF s.off + Take(s) = Batch THEN s.used + 1 ELSE s.used
      /\ c.off  = IF s.off + Take(s) = Batch THEN 0 ELSE s.off + Take(s)
  BY <1>2, <1>3, CopiedFields
<1>8. /\ UNCHANGED <<prog, at, left, gates, checked, hash>>
      /\ IF d.to = "reg"
         THEN /\ reg' = [reg EXCEPT ![p] = @ \o ids]
              /\ UNCHANGED <<buf, cnt>>
         ELSE /\ buf' = [buf EXCEPT ![p] = [i \in 0 .. CHECK_SZ - 1 |->
                           LET k == i - (CHECK_SZ - d.n) + 1
                           IN  IF k \in 1 .. take THEN ids[k] ELSE @[i]]]
              /\ cnt' = [cnt EXCEPT ![p] = 0]
              /\ UNCHANGED reg
      /\ todo' = [todo EXCEPT ![p] = IF take = d.n THEN Tail(@)
                    ELSE <<Draw(d.n - take, d.to)>> \o Tail(@)]
      /\ IF off[p] + take = Batch
         THEN /\ used' = [used EXCEPT ![p] = @ + 1]
              /\ hold' = [hold EXCEPT ![p] = FALSE]
              /\ off' = [off EXCEPT ![p] = 0]
         ELSE /\ off' = [off EXCEPT ![p] = @ + take]
              /\ UNCHANGED <<used, hold>>
  BY DEF Copy
<1> HIDE DEF d, take, ids
<1>9. reg' = [reg EXCEPT ![p] = c.reg] /\ buf' = [buf EXCEPT ![p] = c.buf] /\ cnt' = [cnt EXCEPT ![p] = c.cnt]
  <2>1. CASE To(s.pc) = "reg"
    <3>1. reg' = [reg EXCEPT ![p] = @ \o ids] /\ buf' = buf /\ cnt' = cnt
      BY <1>4, <1>8, <2>1
    <3>2. c.reg = reg[p] \o ids /\ c.buf = buf[p] /\ c.cnt = cnt[p]
      BY <1>5, <1>6, <1>7, <2>1
    <3> QED
      BY <3>1, <3>2 DEF StreamTypeOK
  <2>2. CASE To(s.pc) # "reg"
    <3>1. /\ buf' = [buf EXCEPT ![p] = [i \in 0 .. CHECK_SZ - 1 |->
                       LET k == i - (CHECK_SZ - d.n) + 1
                       IN  IF k \in 1 .. take THEN ids[k] ELSE @[i]]]
          /\ cnt' = [cnt EXCEPT ![p] = 0] /\ reg' = reg
      BY <1>4, <1>8, <2>2
    <3>2. To(s.pc) = "buf"
      BY <2>2 DEF To
    <3>3. c.buf = Filled(s) /\ c.cnt = 0 /\ c.reg = reg[p]
      BY <1>5, <1>7, <3>2
    <3>4. Filled(s) = [i \in 0 .. CHECK_SZ - 1 |->
                       LET k == i - (CHECK_SZ - d.n) + 1
                       IN  IF k \in 1 .. take THEN ids[k] ELSE buf[p][i]]
      BY <1>4, <1>5, <1>6 DEF Filled
    <3>5. buf' = [buf EXCEPT ![p] = Filled(s)]
      BY <3>1, <3>4
    <3> QED
      BY <3>1, <3>3, <3>5 DEF StreamTypeOK
  <2> QED
    BY <2>1, <2>2
<1>10. /\ used' = [used EXCEPT ![p] = c.used] /\ off' = [off EXCEPT ![p] = c.off]
       /\ hold' \in [Party -> BOOLEAN] /\ (~hold'[p] => c.off = 0)
  <2>1. CASE off[p] + take = Batch
    <3>1. c.used = used[p] + 1 /\ c.off = 0
      BY <1>5, <1>6, <1>7, <2>1
    <3> QED
      BY <1>8, <2>1, <3>1 DEF StreamTypeOK
  <2>2. CASE off[p] + take # Batch
    <3>1. c.used = used[p] /\ c.off = off[p] + take
      BY <1>5, <1>6, <1>7, <2>2
    <3>2. used' = used /\ hold' = hold /\ off' = [off EXCEPT ![p] = @ + take]
      BY <1>8, <2>2
    <3> QED
      BY <1>1, <3>1, <3>2 DEF StreamTypeOK
  <2> QED
    BY <2>1, <2>2
<1> DEFINE t == IF Take(s) = s.n THEN Then(p, prog, s)
                ELSE Cons(Draw(s.n - Take(s), To(s.pc)), Then(p, prog, s))
<1>11. todo' = [todo EXCEPT ![p] = t] /\ t \in Seq(Steps) /\ TodoOK(p, prog, c, t)
  <2>1. TodoOK(p, prog, c, t)
    BY <1>2, <1>3, DrawThen
  <2>2. t \in Seq(Steps)
    <3>1. Then(p, prog, s) \in Seq(Steps)
      BY <1>3, CoreType
    <3>2. s.n - Take(s) \in Nat
      BY <1>3, TakeFacts
    <3>3. Draw(s.n - Take(s), To(s.pc)) \in Steps
      BY <3>2, StepKinds DEF To
    <3> QED
      BY <3>1, <3>3, StepLists
  <2>3. t = IF take = d.n THEN Tail(todo[p]) ELSE <<Draw(d.n - take, d.to)>> \o Tail(todo[p])
    BY <1>2, <1>4, <1>6 DEF Cons
  <2>4. todo' = [todo EXCEPT ![p] = t]
    <3> HIDE DEF t
    <3> QED
      BY <1>8, <2>3
  <2> QED
    BY <2>1, <2>2, <2>4
<1> HIDE DEF t
<1>12. c.reg \in Seq(Nat) /\ c.buf \in [0 .. CHECK_SZ - 1 -> Int] /\ c.cnt \in 0 .. CHECK_SZ
       /\ c.used \in Nat /\ c.off \in Nat
  <2>1. c \in Engine
    BY <1>7
  <2>2. c.reg \in Seq(Nat) /\ c.buf \in [0 .. CHECK_SZ - 1 -> Int] /\ c.cnt \in 0 .. CHECK_SZ
        /\ c.used \in Nat /\ c.off \in 0 .. Batch - 1
    BY ONLY <2>1, EngineFields
  <2>3. \A i \in 0 .. Batch - 1 : i \in Nat
    BY BatchAssumption
  <2> QED
    BY ONLY <2>2, <2>3
<1>13. StreamTypeOK'
  <2>1. prog' \in Seq(Operation) /\ at' \in [Party -> Nat] /\ left' \in [Party -> Nat]
        /\ gates' \in [Party -> Nat] /\ checked' \in [Party -> Nat] /\ hash' \in [Party -> Seq(Nat)]
    BY <1>8, SMTT(40), ZenonT(40) DEF StreamTypeOK
  <2>2. reg' \in [Party -> Seq(Nat)] /\ buf' \in [Party -> [0 .. CHECK_SZ - 1 -> Int]]
        /\ cnt' \in [Party -> 0 .. CHECK_SZ]
    BY <1>9, <1>12, SMTT(40), ZenonT(40) DEF StreamTypeOK
  <2>3. used' \in [Party -> Nat] /\ off' \in [Party -> Nat] /\ hold' \in [Party -> BOOLEAN]
    BY <1>10, <1>12, SMTT(40), ZenonT(40) DEF StreamTypeOK
  <2>4. todo' \in [Party -> Seq(Steps)]
    BY <1>11 DEF StreamTypeOK
  <2> QED
    BY <2>1, <2>2, <2>3, <2>4 DEF StreamTypeOK
<1>14. /\ reg'[p] = c.reg /\ buf'[p] = c.buf /\ cnt'[p] = c.cnt /\ used'[p] = c.used /\ off'[p] = c.off
       /\ todo'[p] = t
  <2>1. reg'[p] = c.reg /\ buf'[p] = c.buf /\ cnt'[p] = c.cnt
    BY <1>9 DEF StreamTypeOK
  <2>2. used'[p] = c.used /\ off'[p] = c.off
    BY <1>10 DEF StreamTypeOK
  <2>3. todo'[p] = t
    BY <1>11 DEF StreamTypeOK
  <2> QED
    BY <2>1, <2>2, <2>3
<1>15. TodoOK(p, prog', c, todo'[p])
  BY <1>8, <1>11, <1>14
<1>16. Sim(p, c)'
  BY <1>5, <1>7, <1>8, <1>10, <1>14, <1>15 DEF Sim
<1> QED
  BY <1>2, <1>13, <1>16

\* What a party sees of a transfer is the machine's message.
LEMMA TransferIs ==
  ASSUME NEW p \in Party, NEW s \in Engine, StreamTypeOK, Sim(p, s), At(p, "send") \/ At(p, "recv")
  PROVE  /\ s.pc \in What
         /\ Head(todo[p]).what = s.pc
         /\ At(p, "send") <=> p = Sender(s.pc)
         /\ Transfer(p, s.pc) = Message(s)
<1>1. todo[p] # << >>
  BY DEF At
<1>2. s.pc \in What /\ Head(todo[p]) = Xfer(p, s.pc)
  BY <1>1, FirstStep
<1>3. Head(todo[p]).what = s.pc /\ (At(p, "send") <=> p = Sender(s.pc))
  BY <1>1, <1>2, StepKinds DEF At
<1>4. s.at = at[p] /\ s.reg = reg[p] /\ s.buf = buf[p] /\ s.cnt = cnt[p] /\ s.left = left[p]
      /\ s.hash = hash[p]
  BY DEF Sim
<1>5. BlockSize(p) = Block(s)
  BY <1>4 DEF BlockSize, Block
<1>6. Transfer(p, s.pc) = Message(s)
  BY <1>4, <1>5 DEF Transfer, Message
<1> QED
  BY <1>2, <1>3, <1>6

LEMMA MoveStep ==
  ASSUME NEW p \in Party, NEW s \in Engine, StreamTypeOK, Sim(p, s), PhaseOK(prog, s),
         At(p, "send") \/ At(p, "recv"),
         AfterTransfer(p, s.pc), UNCHANGED <<prog, at, used, hold, off>>,
         NEW c, NEW P, P = prog, c = Moved(P, s)
  PROVE  s.pc \in What /\ Sim(p, c)' /\ StreamTypeOK'
<1>1. todo[p] # << >>
  BY DEF At
<1>2. /\ s.pc \in What /\ Tail(todo[p]) = Then(p, P, s) /\ Tail(todo[p]) \in Seq(Steps)
      /\ P \in Seq(Operation)
  BY <1>1, FirstStep DEF StreamTypeOK
<1>3. s.used = used[p] /\ s.off = off[p] /\ s.reg = reg[p] /\ s.buf = buf[p] /\ s.cnt = cnt[p]
      /\ s.at = at[p] /\ s.left = left[p] /\ (~hold[p] => s.off = 0)
      /\ s.gates = gates[p] /\ s.checked = checked[p] /\ s.hash = hash[p]
  BY <1>2 DEF Sim, What
<1>4. BlockSize(p) = Block(s)
  BY <1>3 DEF BlockSize, Block
<1>5. /\ c \in Engine
      /\ c.at = s.at /\ c.used = s.used /\ c.off = s.off /\ c.reg = << >>
      /\ c.hash    = (IF s.pc = "val" THEN Append(s.hash, s.at - 1) ELSE s.hash)
      /\ c.checked = (IF s.pc = "sum" THEN s.checked + s.cnt ELSE s.checked)
      /\ c.buf     = (IF s.pc = "d" THEN Used(s) ELSE s.buf)
      /\ c.cnt     = (IF s.pc = "d" THEN s.cnt + Block(s) ELSE s.cnt)
      /\ c.left    = (IF s.pc = "d" THEN s.left - Block(s) ELSE s.left)
      /\ c.gates   = (IF s.pc = "d" THEN s.gates + Block(s) ELSE s.gates)
  BY <1>2, MovedFields
<1>6. /\ todo' = [todo EXCEPT ![p] = Tail(@)] /\ reg' = [reg EXCEPT ![p] = << >>]
      /\ IF s.pc = "d"
         THEN /\ buf' = [buf EXCEPT ![p] = [i \in 0 .. CHECK_SZ - 1 |->
                           IF i - cnt[p] \in 0 .. BlockSize(p) - 1 THEN Spent ELSE @[i]]]
              /\ cnt' = [cnt EXCEPT ![p] = @ + BlockSize(p)]
              /\ left' = [left EXCEPT ![p] = @ - BlockSize(p)]
              /\ gates' = [gates EXCEPT ![p] = @ + BlockSize(p)]
         ELSE UNCHANGED <<buf, cnt, left, gates>>
      /\ hash' = IF s.pc = "val" THEN [hash EXCEPT ![p] = Append(@, at[p] - 1)] ELSE hash
      /\ checked' = IF s.pc = "sum" THEN [checked EXCEPT ![p] = @ + cnt[p]] ELSE checked
  BY DEF AfterTransfer
<1>7. /\ buf' = [buf EXCEPT ![p] = c.buf] /\ cnt' = [cnt EXCEPT ![p] = c.cnt]
      /\ left' = [left EXCEPT ![p] = c.left] /\ gates' = [gates EXCEPT ![p] = c.gates]
  <2>1. CASE s.pc = "d"
    <3>1. Used(s) = [i \in 0 .. CHECK_SZ - 1 |->
                       IF i - cnt[p] \in 0 .. BlockSize(p) - 1 THEN Spent ELSE buf[p][i]]
      BY <1>3, <1>4 DEF Used
    <3>2. buf' = [buf EXCEPT ![p] = Used(s)]
      BY <1>6, <2>1, <3>1
    <3>3. c.buf = Used(s) /\ c.cnt = cnt[p] + Block(s) /\ c.left = left[p] - Block(s)
          /\ c.gates = gates[p] + Block(s)
      BY <1>3, <1>5, <2>1
    <3> QED
      BY <1>4, <1>6, <2>1, <3>2, <3>3
  <2>2. CASE s.pc # "d"
    <3>1. UNCHANGED <<buf, cnt, left, gates>>
      BY <1>6, <2>2
    <3>2. c.buf = buf[p] /\ c.cnt = cnt[p] /\ c.left = left[p] /\ c.gates = gates[p]
      BY <1>3, <1>5, <2>2
    <3> QED
      BY <3>1, <3>2 DEF StreamTypeOK
  <2> QED
    BY <2>1, <2>2
<1>8. hash' = [hash EXCEPT ![p] = c.hash] /\ checked' = [checked EXCEPT ![p] = c.checked]
  <2>1. hash' = [hash EXCEPT ![p] = c.hash]
    <3>1. CASE s.pc = "val"
      BY <1>3, <1>5, <1>6, <3>1
    <3>2. CASE s.pc # "val"
      BY <1>3, <1>5, <1>6, <3>2 DEF StreamTypeOK
    <3> QED
      BY <3>1, <3>2
  <2>2. checked' = [checked EXCEPT ![p] = c.checked]
    <3>1. CASE s.pc = "sum"
      BY <1>3, <1>5, <1>6, <3>1
    <3>2. CASE s.pc # "sum"
      BY <1>3, <1>5, <1>6, <3>2 DEF StreamTypeOK
    <3> QED
      BY <3>1, <3>2
  <2> QED
    BY <2>1, <2>2
<1>9. c.buf \in [0 .. CHECK_SZ - 1 -> Int] /\ c.cnt \in 0 .. CHECK_SZ /\ c.left \in Nat
      /\ c.gates \in Nat /\ c.checked \in Nat /\ c.hash \in Seq(Nat) /\ << >> \in Seq(Nat)
  BY <1>5, EngineFields
<1>10. TodoOK(p, P, c, Tail(todo[p]))
  BY <1>2, MoveThen
<1>11. /\ todo'[p] = Tail(todo[p]) /\ reg'[p] = << >> /\ buf'[p] = c.buf /\ cnt'[p] = c.cnt
       /\ left'[p] = c.left /\ gates'[p] = c.gates /\ hash'[p] = c.hash /\ checked'[p] = c.checked
  BY <1>6, <1>7, <1>8 DEF StreamTypeOK
<1>12. StreamTypeOK'
  <2>1. /\ todo' \in [Party -> Seq(Steps)] /\ reg' \in [Party -> Seq(Nat)]
        /\ prog' \in Seq(Operation) /\ at' \in [Party -> Nat]
    BY <1>2, <1>6, <1>9, SMTT(40), ZenonT(40) DEF StreamTypeOK
  <2>2. /\ buf' \in [Party -> [0 .. CHECK_SZ - 1 -> Int]]
        /\ cnt' \in [Party -> 0 .. CHECK_SZ] /\ left' \in [Party -> Nat] /\ gates' \in [Party -> Nat]
    BY <1>7, <1>9, SMTT(40), ZenonT(40) DEF StreamTypeOK
  <2>3. checked' \in [Party -> Nat] /\ hash' \in [Party -> Seq(Nat)]
    BY <1>8, <1>9 DEF StreamTypeOK
  <2> QED
    BY <2>1, <2>2, <2>3 DEF StreamTypeOK
<1>13. TodoOK(p, prog', c, todo'[p])
  BY <1>10, <1>11
<1>14. Sim(p, c)'
  BY <1>3, <1>5, <1>11, <1>13 DEF Sim
<1> QED
  BY <1>2, <1>12, <1>14

(***************************************************************************)
(* All steps together, and the first result.                               *)
(***************************************************************************)
\* An engine's first state is the machine's.
LEMMA StartedFacts ==
  ASSUME Init, NEW p \in Party
  PROVE  StreamTypeOK /\ Started \in Engine /\ Sim(p, Started) /\ PhaseOK(prog, Started)
<1> DEFINE b == [i \in 0 .. CHECK_SZ - 1 |-> Spent]
<1>1. CHECK_SZ \in Nat /\ CHECK_SZ > 0 /\ Batch \in Nat /\ Batch > 0
  BY CheckAssumption, BatchAssumption
<1>2. prog \in Seq(Operation) /\ Len(prog) \in Nat
  BY ProgramsAssumption DEF Init
<1>3. b \in [0 .. CHECK_SZ - 1 -> Int] /\ Nil \in Seq(Nat)
  BY DEF Spent, Nil
<1> DEFINE e == Started
<1>4. /\ e.at = 1 /\ e.left = 0 /\ e.pc = "construct" /\ e.n = 1 /\ e.reg = Nil /\ e.buf = b
      /\ e.cnt = 0 /\ e.gates = 0 /\ e.checked = 0 /\ e.hash = Nil /\ e.used = 0 /\ e.off = 0
  BY DEF Started, Nil
<1>5. e = [at |-> e.at, left |-> e.left, pc |-> e.pc, n |-> e.n, reg |-> e.reg, buf |-> e.buf,
           cnt |-> e.cnt, gates |-> e.gates, checked |-> e.checked, hash |-> e.hash,
           used |-> e.used, off |-> e.off]
  BY DEF Started
<1> HIDE DEF b, e
<1>6. e \in Engine
  <2>1. /\ e.at \in Nat /\ e.left \in Nat /\ e.pc \in Phases /\ e.n \in Nat
        /\ e.gates \in Nat /\ e.checked \in Nat /\ e.used \in Nat
    BY <1>4 DEF Phases, Draws
  <2>2. e.off \in 0 .. Batch - 1 /\ e.cnt \in 0 .. CHECK_SZ
    BY <1>1, <1>4
  <2>3. e.reg \in Seq(Nat) /\ e.hash \in Seq(Nat) /\ e.buf \in [0 .. CHECK_SZ - 1 -> Int]
    BY <1>3, <1>4
  <2> QED
    BY ONLY <1>5, <2>1, <2>2, <2>3, EngineRecord
<1>7. PhaseOK(prog, e)
  BY <1>1, <1>2, <1>4 DEF PhaseOK, Draws
<1>8. Construct \in Seq(Steps) /\ Construct = Core(p, prog, e)
  <2>1. Draw(1, "reg") \in Steps /\ Draw(CHECK_SZ, "buf") \in Steps
    BY <1>1, StepKinds
  <2>2. Construct = Cons(Draw(1, "reg"), Cons(Draw(CHECK_SZ, "buf"), Nil))
    BY <2>1, PairList DEF Construct
  <2>3. Core(p, prog, e) = Cons(Draw(1, "reg"), Cons(Draw(CHECK_SZ, "buf"), Nil))
    BY <1>4 DEF Core, Then, Draws, To
  <2> QED
    BY <2>1, <2>2, <2>3, StepLists
<1>9. /\ at = [q \in Party |-> 1] /\ left = [q \in Party |-> 0]
      /\ todo = [q \in Party |-> Construct] /\ reg = [q \in Party |-> Nil]
      /\ buf = [q \in Party |-> b] /\ cnt = [q \in Party |-> 0]
      /\ gates = [q \in Party |-> 0] /\ checked = [q \in Party |-> 0] /\ hash = [q \in Party |-> Nil]
      /\ used = [q \in Party |-> 0] /\ hold = [q \in Party |-> FALSE] /\ off = [q \in Party |-> 0]
  BY DEF Init, Nil, b
<1>10. TodoOK(p, prog, e, todo[p])
  BY <1>8, <1>9 DEF TodoOK
<1>11. Sim(p, e)
  BY <1>4, <1>9, <1>10 DEF Sim
<1>12. StreamTypeOK
  BY <1>1, <1>2, <1>3, <1>8, <1>9 DEF StreamTypeOK
<1> QED
  BY <1>6, <1>7, <1>11, <1>12 DEF e

\* Every step of an engine is a stutter or a step of the machine; the transfers
\* are the steps that touch the channel.
LEMMA EngineMoves ==
  ASSUME NEW p \in Party, NEW s \in Engine, StreamTypeOK, Sim(p, s), PhaseOK(prog, s), EngineStep(p),
         NEW P, P = prog, NEW c, c = Succ(P, s)
  PROVE  /\ StreamTypeOK' /\ prog' = prog
         /\ \/ Sim(p, s)' /\ UNCHANGED <<chan, masks>>
               /\ (visible' = visible \/ visible' = [visible EXCEPT ![p] = Len(chan[p])])
            \/ Sim(p, c)' /\ s.pc # "finish" /\ s.pc \notin What /\ UNCHANGED <<chan, masks, visible>>
            \/ Sim(p, c)' /\ s.pc \in What /\ p = Sender(s.pc) /\ DoSend(p)
            \/ Sim(p, c)' /\ s.pc \in What /\ p # Sender(s.pc) /\ DoRecv(p)
<1>1. CASE Call(p)
  <2>1. s.pc = "idle" /\ s.left = 0 => c = Called(P, s)
    BY DEF Succ
  <2> DEFINE d == Called(P, s)
  <2>2. s.pc = "idle" /\ s.left = 0 /\ Sim(p, c)' /\ StreamTypeOK'
    <3>1. s.pc = "idle" /\ s.left = 0
      BY <1>1, CallStep
    <3> QED
      BY <1>1, <2>1, <3>1, CallStep
  <2>3. UNCHANGED <<prog, chan, masks, visible>>
    BY <1>1 DEF Call, netVars
  <2> QED
    BY <2>2, <2>3 DEF What
<1>2. CASE NextBlock(p)
  <2>1. s.pc = "idle" /\ s.left # 0 /\ Sim(p, NextTurn(s))' /\ StreamTypeOK'
    BY <1>2, NextBlockStep
  <2>2. c = NextTurn(s)
    BY <2>1 DEF Succ
  <2>3. UNCHANGED <<prog, chan, masks, visible>>
    BY <1>2 DEF NextBlock, netVars
  <2> QED
    BY <2>1, <2>2, <2>3 DEF What
<1>3. CASE \/ DoFlush(p) \/ FlushBeforeWait(p) \/ AcquireReady(p)
           \/ GiveBack(p) \/ FinishPipe(p) \/ JoinProducer(p)
  <2>1. Sim(p, s)' /\ StreamTypeOK'
    BY <1>3, QuietEngine
  <2>2. /\ UNCHANGED <<prog, chan, masks>>
        /\ visible' = visible \/ visible' = [visible EXCEPT ![p] = Len(chan[p])]
    BY <1>3 DEF DoFlush, FlushBeforeWait, AcquireReady, GiveBack, FinishPipe, JoinProducer,
                engineVars, netVars
  <2> QED
    BY <2>1, <2>2
<1>4. CASE Copy(p)
  <2>1. s.pc \in Draws
    BY <1>4, CopyKeepsStep
  <2>2. c = Copied(s)
    BY <2>1 DEF Succ, Draws
  <2>3. Sim(p, c)' /\ StreamTypeOK'
    BY <1>4, <2>2, CopyKeepsStep
  <2>4. UNCHANGED <<prog, chan, masks, visible>>
    BY <1>4 DEF Copy, netVars
  <2> QED
    BY <2>1, <2>3, <2>4 DEF What, Draws
<1>5. CASE DoSend(p) \/ DoRecv(p)
  <2>1. At(p, "send") \/ At(p, "recv")
    BY <1>5 DEF DoSend, DoRecv
  <2>2. s.pc \in What /\ Head(todo[p]).what = s.pc
        /\ (At(p, "send") <=> p = Sender(s.pc)) /\ Transfer(p, s.pc) = Message(s)
    BY <2>1, TransferIs
  <2>3. AfterTransfer(p, s.pc) /\ UNCHANGED <<prog, at, used, hold, off>>
    BY <1>5, <2>2 DEF DoSend, DoRecv, drawVars, Transfer
  <2>4. c = Moved(P, s)
    BY <2>2 DEF Succ, What, Draws
  <2>5. Sim(p, c)' /\ StreamTypeOK'
    BY <2>1, <2>3, <2>4, MoveStep
  <2>6. DoSend(p) => p = Sender(s.pc)
    BY <2>2 DEF DoSend
  <2>7. DoRecv(p) => p # Sender(s.pc)
    BY <2>2 DEF DoRecv, At
  <2> QED
    BY <1>5, <2>2, <2>3, <2>5, <2>6, <2>7
<1> QED
  BY <1>1, <1>2, <1>3, <1>4, <1>5 DEF EngineStep

\* What the other threads do leaves both engines alone.
LEMMA QuietSteps ==
  ASSUME \/ \E p \in Party : ProducerStep(p) \/ SpontaneousWrite(p)
         \/ Terminated
         \/ UNCHANGED vars
  PROVE  /\ UNCHANGED <<prog, at, left, todo, reg, buf, cnt, gates, checked, hash, used, off, hold,
                        chan, masks>>
         /\ \/ visible' = visible
            \/ \E p \in Party : visible[p] < Len(chan[p]) /\ visible' = [visible EXCEPT ![p] = @ + 1]
<1>1. ASSUME NEW p \in Party, ProducerStep(p)
      PROVE  UNCHANGED <<engineVars, drawVars, netVars>>
  BY <1>1 DEF ProducerStep, EnterRound, EndRound
<1>2. ASSUME NEW p \in Party, SpontaneousWrite(p)
      PROVE  /\ UNCHANGED <<engineVars, drawVars, chan>>
             /\ visible[p] < Len(chan[p]) /\ visible' = [visible EXCEPT ![p] = @ + 1]
  BY <1>2 DEF SpontaneousWrite
<1>3. Terminated \/ UNCHANGED vars => UNCHANGED <<engineVars, drawVars, netVars>>
  BY DEF Terminated, vars, engineVars, drawVars, netVars
<1> QED
  BY <1>1, <1>2, <1>3 DEF engineVars, drawVars, netVars

(***************************************************************************)
(* Each engine by itself.                                                  *)
(***************************************************************************)
EngineInv == StreamTypeOK /\ \A p \in Party : \E s \in Engine : Sim(p, s) /\ PhaseOK(prog, s)

LEMMA QuietKeeps ==
  ASSUME NEW p \in Party, NEW s \in Engine, StreamTypeOK, Sim(p, s), PhaseOK(prog, s),
         UNCHANGED <<prog, at, left, todo, reg, buf, cnt, gates, checked, hash, used, off, hold>>
  PROVE  StreamTypeOK' /\ Sim(p, s)' /\ PhaseOK(prog', s)
BY SMTT(40), ZenonT(40) DEF StreamTypeOK, Sim

LEMMA EngineStepInv == EngineInv /\ [Next]_vars => EngineInv'
<1> SUFFICES ASSUME EngineInv, [Next]_vars
             PROVE  \A q \in Party : StreamTypeOK' /\ \E s \in Engine : Sim(q, s)' /\ PhaseOK(prog', s)
  <2>1. ALICE \in Party
    BY DEF Party
  <2>2. EngineInv' <=> StreamTypeOK' /\ \A q \in Party : \E s \in Engine : Sim(q, s)' /\ PhaseOK(prog', s)
    BY DEF EngineInv, PhaseOK
  <2> QED
    BY <2>1, <2>2
<1> TAKE q \in Party
<1>1. ASSUME NEW p \in Party, EngineStep(p)
      PROVE  StreamTypeOK' /\ \E s \in Engine : Sim(q, s)' /\ PhaseOK(prog', s)
  <2>1. PICK s \in Engine : Sim(p, s) /\ PhaseOK(prog, s)
    BY DEF EngineInv
  <2>2. PICK P : P = prog
    OBVIOUS
  <2>3. PICK c : c = Succ(P, s)
    OBVIOUS
  <2>4. StreamTypeOK' /\ prog' = prog /\ (Sim(p, s)' \/ (s.pc # "finish" /\ Sim(p, c)'))
    <3>1. StreamTypeOK
      BY DEF EngineInv
    <3>2. s.pc \in What => s.pc # "finish"
      BY DEF What
    <3> QED
      BY ONLY <1>1, <2>1, <2>2, <2>3, <3>1, <3>2, EngineMoves
  <2>5. s.pc # "finish" => c \in Engine /\ PhaseOK(prog', c)
    BY <2>1, <2>2, <2>3, <2>4, SuccPhase DEF EngineInv, StreamTypeOK
  <2>6. \E e \in Engine : Sim(p, e)' /\ PhaseOK(prog', e)
    <3>1. CASE Sim(p, s)'
      BY <2>1, <2>4, <3>1
    <3>2. CASE s.pc # "finish" /\ Sim(p, c)'
      BY <2>5, <3>2
    <3> QED
      BY <2>4, <3>1, <3>2
  <2>7. CASE q = p
    BY <2>4, <2>6, <2>7
  <2>8. CASE q # p
    <3>1. PICK e \in Engine : Sim(q, e) /\ PhaseOK(prog, e)
      BY DEF EngineInv
    <3>2. Sim(q, e)'
      BY <1>1, <2>8, <3>1, OtherEngine, SimFrame DEF EngineInv
    <3> QED
      BY <2>4, <3>1, <3>2
  <2> QED
    BY <2>7, <2>8
<1>2. CASE \/ \E p \in Party : ProducerStep(p) \/ SpontaneousWrite(p)
           \/ Terminated
           \/ UNCHANGED vars
  <2>1. PICK e \in Engine : Sim(q, e) /\ PhaseOK(prog, e)
    BY DEF EngineInv
  <2> QED
    BY <1>2, <2>1, QuietSteps, QuietKeeps DEF EngineInv
<1> QED
  BY <1>1, <1>2 DEF Next

\* When a party comes to the finish of the pipe every multiplication it has
\* made has been through a check: the destructor's run of the check over a
\* buffer that is not full (ostriple.h:291-293) leaves none behind, and each
\* block of a vector operation ends where the buffer does (ostriple.h:454-468).
THEOREM ChecksComplete == Spec => []AllChecked
<1>1. Init => EngineInv
  BY StartedFacts DEF EngineInv, Party
<1>2. EngineInv => AllChecked
  <2> SUFFICES ASSUME EngineInv, NEW p \in Party, At(p, "finish")
               PROVE  checked[p] = gates[p]
    BY DEF AllChecked
  <2>1. PICK s \in Engine : Sim(p, s) /\ PhaseOK(prog, s)
    BY DEF EngineInv
  <2>2. s.pc = "finish"
    BY <2>1, FirstStep DEF EngineInv, At
  <2>3. s.gates = s.checked + 0 /\ s.checked \in Nat
    BY <2>1, <2>2, EngineFields DEF PhaseOK
  <2> QED
    BY <2>1, <2>3 DEF Sim
<1> QED
  BY <1>1, <1>2, EngineStepInv, PTL DEF Spec

(***************************************************************************)
(* Both engines on one path of the machine, and the messages between them. *)
(***************************************************************************)
\* The states of the machine up to the places the two engines have reached.
Path(P, tr, i, j) ==
  /\ \A k \in Nat : k < i \/ k < j => tr[k].pc # "finish" /\ tr[k + 1] = Succ(P, tr[k])
  /\ \A k \in Nat : k <= i \/ k <= j => PhaseOK(P, tr[k])

SentBy(q, s) == s.pc \in What /\ Sender(s.pc) = q

\* The messages in ch, sent by q, are those of the transfers between the place
\* i of the receiver and the place j of the sender.
Line(tr, q, i, j, ks, ch) ==
  /\ Len(ks) = Len(ch)
  /\ \A m \in 1 .. Len(ks) : /\ i <= ks[m] /\ ks[m] < j /\ SentBy(q, tr[ks[m]])
                             /\ ch[m] = Message(tr[ks[m]])
  /\ \A m, n \in 1 .. Len(ks) : m < n => ks[m] < ks[n]
  /\ \A k \in Nat : i <= k /\ k < j /\ SentBy(q, tr[k]) => \E m \in 1 .. Len(ks) : ks[m] = k
  /\ \A k \in Nat : k < i /\ SentBy(q, tr[k]) => k < j

Trace == [Nat -> Engine]

Messages == {Message(s) : s \in Engine}

LEMMA PathExtend ==
  ASSUME NEW P \in Seq(Operation), NEW tr \in Trace, NEW i \in Nat, NEW j \in Nat,
         Path(P, tr, i, j), tr[i].pc # "finish"
  PROVE  \E e \in Trace :
           /\ Path(P, e, i + 1, j)
           /\ e[i + 1] = Succ(P, tr[i])
           /\ \A k \in Nat : k <= i \/ k <= j => e[k] = tr[k]
<1> DEFINE c == Succ(P, tr[i])  e == [tr EXCEPT ![i + 1] = c]
<1>1. tr[i] \in Engine /\ PhaseOK(P, tr[i])
  BY DEF Path, Trace
<1>2. c \in Engine /\ PhaseOK(P, c)
  BY <1>1, SuccPhase
<1>3. e \in Trace /\ e[i + 1] = c
  BY <1>2 DEF Trace
<1>4. i < j => tr[i + 1] = c
  BY DEF Path
<1>5. \A k \in Nat : k # i + 1 => e[k] = tr[k]
  OBVIOUS
<1> HIDE DEF c, e
<1>6. \A k \in Nat : k <= i \/ k <= j => e[k] = tr[k]
  <2> TAKE k \in Nat
  <2> HAVE k <= i \/ k <= j
  <2>1. CASE k # i + 1
    BY <1>5, <2>1
  <2>2. CASE k = i + 1
    <3>1. i < j
      BY <2>2
    <3> QED
      BY <1>3, <1>4, <2>2, <3>1
  <2> QED
    BY <2>1, <2>2
<1>7. ASSUME NEW k \in Nat, k < i + 1 \/ k < j
      PROVE  e[k].pc # "finish" /\ e[k + 1] = Succ(P, e[k])
  <2>1. e[k] = tr[k]
    <3>1. k <= i \/ k <= j
      BY <1>7
    <3> QED
      BY <1>6, <3>1
  <2>2. CASE k = i
    BY <1>3, <2>1, <2>2 DEF c
  <2>3. CASE k # i
    <3>1. k < i \/ k < j
      BY <1>7, <2>3
    <3>2. tr[k].pc # "finish" /\ tr[k + 1] = Succ(P, tr[k])
      BY <3>1 DEF Path
    <3>3. e[k + 1] = tr[k + 1]
      <4>1. k + 1 \in Nat /\ (k + 1 <= i \/ k + 1 <= j)
        BY <3>1
      <4> QED
        BY <1>6, <4>1
    <3> QED
      BY <2>1, <3>2, <3>3
  <2> QED
    BY <2>2, <2>3
<1>8. ASSUME NEW k \in Nat, k <= i + 1 \/ k <= j
      PROVE  PhaseOK(P, e[k])
  <2>1. CASE k = i + 1
    BY <1>2, <1>3, <2>1
  <2>2. CASE k # i + 1
    <3>1. k <= i \/ k <= j
      BY <1>8, <2>2
    <3>2. PhaseOK(P, tr[k])
      BY <3>1 DEF Path
    <3> QED
      BY <1>6, <3>1, <3>2
  <2> QED
    BY <2>1, <2>2
<1>9. Path(P, e, i + 1, j)
  BY <1>7, <1>8 DEF Path
<1> QED
  BY <1>3, <1>6, <1>9 DEF c

LEMMA PathSides ==
  ASSUME NEW P, NEW tr, NEW idx \in [Party -> Nat], NEW p \in Party
  PROVE  Path(P, tr, idx[ALICE], idx[BOB]) <=> Path(P, tr, idx[p], idx[Peer(p)])
BY DEF Path, Party, Peer, ALICE, BOB

\* Only the states before the two places matter.
LEMMA LineFrame ==
  ASSUME NEW tr \in Trace, NEW e \in Trace, NEW q, NEW i \in Nat, NEW j \in Nat,
         NEW ks \in Seq(Nat), NEW ch, Line(tr, q, i, j, ks, ch),
         \A k \in Nat : k < i \/ k < j => e[k] = tr[k]
  PROVE  Line(e, q, i, j, ks, ch)
<1>1. \A m \in 1 .. Len(ks) : ks[m] \in Nat
  OBVIOUS
<1>2. \A m \in 1 .. Len(ks) : e[ks[m]] = tr[ks[m]]
  BY <1>1 DEF Line
<1> QED
  BY <1>1, <1>2 DEF Line

\* The sender goes on, without and with a message.
LEMMA LinePass ==
  ASSUME NEW tr \in Trace, NEW q, NEW i \in Nat, NEW j \in Nat,
         NEW ks \in Seq(Nat), NEW ch, Line(tr, q, i, j, ks, ch), ~SentBy(q, tr[j])
  PROVE  Line(tr, q, i, j + 1, ks, ch)
<1>1. \A m \in 1 .. Len(ks) : ks[m] \in Nat
  OBVIOUS
<1>2. \A k \in Nat : k < j + 1 => k < j \/ k = j
  OBVIOUS
<1> QED
  BY <1>1, <1>2 DEF Line

LEMMA LineSend ==
  ASSUME NEW tr \in Trace, NEW q, NEW i \in Nat, NEW j \in Nat,
         NEW ks \in Seq(Nat), NEW ch \in Seq(Messages), Line(tr, q, i, j, ks, ch), SentBy(q, tr[j])
  PROVE  Line(tr, q, i, j + 1, Append(ks, j), Append(ch, Message(tr[j])))
<1> DEFINE l == Len(ks)  x == Message(tr[j])  u == Append(ks, j)  v == Append(ch, x)
<1>1. l \in Nat /\ Len(ch) = l /\ \A m \in 1 .. l : ks[m] \in Nat
  BY DEF Line
<1>2. x \in Messages
  BY DEF Messages, Trace
<1>3. /\ u \in Seq(Nat) /\ Len(u) = l + 1 /\ u[l + 1] = j /\ \A m \in 1 .. l : u[m] = ks[m]
      /\ Len(v) = l + 1 /\ v[l + 1] = x /\ \A m \in 1 .. l : v[m] = ch[m]
  <2>1. u \in Seq(Nat) /\ Len(u) = l + 1 /\ u[l + 1] = j /\ \A m \in 1 .. l : u[m] = ks[m]
    OBVIOUS
  <2>2. Len(v) = l + 1 /\ v[l + 1] = x /\ \A m \in 1 .. l : v[m] = ch[m]
    <3> HIDE DEF x
    <3> QED
      BY <1>1, <1>2
  <2> QED
    BY <2>1, <2>2
<1> HIDE DEF l, x, u, v
<1>4. i <= j
  BY DEF Line
<1>5. ASSUME NEW m \in 1 .. l + 1
      PROVE  i <= u[m] /\ u[m] < j + 1 /\ SentBy(q, tr[u[m]]) /\ v[m] = Message(tr[u[m]])
  <2>1. CASE m = l + 1
    BY <1>3, <1>4, <2>1 DEF x
  <2>2. CASE m # l + 1
    <3>1. m \in 1 .. l
      BY <1>1, <2>2
    <3>2. i <= ks[m] /\ ks[m] < j /\ SentBy(q, tr[ks[m]]) /\ ch[m] = Message(tr[ks[m]]) /\ ks[m] \in Nat
      BY <1>1, <3>1 DEF Line, l
    <3>3. ks[m] < j + 1
      BY <3>2
    <3> QED
      BY <1>3, <3>1, <3>2, <3>3, SMTT(40), ZenonT(40)
  <2> QED
    BY <2>1, <2>2
<1>6. ASSUME NEW m \in 1 .. l + 1, NEW n \in 1 .. l + 1, m < n
      PROVE  u[m] < u[n]
  <2>1. m \in 1 .. l
    BY <1>1, <1>6
  <2>2. ks[m] < j
    BY <2>1 DEF Line, l
  <2>3. CASE n = l + 1
    BY <1>3, <2>1, <2>2, <2>3
  <2>4. CASE n # l + 1
    <3>1. n \in 1 .. l
      BY <1>1, <2>4
    <3>2. ks[m] < ks[n]
      BY <1>6, <2>1, <3>1 DEF Line, l
    <3> QED
      BY <1>3, <2>1, <3>1, <3>2
  <2> QED
    BY <2>3, <2>4
<1>7. ASSUME NEW k \in Nat, i <= k, k < j + 1, SentBy(q, tr[k])
      PROVE  \E m \in 1 .. l + 1 : u[m] = k
  <2>1. CASE k = j
    <3>1. l + 1 \in 1 .. l + 1
      BY <1>1
    <3> QED
      BY <1>3, <2>1, <3>1
  <2>2. CASE k # j
    <3>1. k < j
      BY <1>7, <2>2
    <3>2. PICK m \in 1 .. l : ks[m] = k
      BY <1>7, <3>1 DEF Line, l
    <3>3. m \in 1 .. l + 1
      BY <1>1
    <3> QED
      BY <1>3, <3>2, <3>3
  <2> QED
    BY <2>1, <2>2
<1>8. ASSUME NEW k \in Nat, k < i, SentBy(q, tr[k])
      PROVE  k < j + 1
  <2>1. k < j
    BY <1>8 DEF Line
  <2> QED
    BY <2>1
<1>9. Line(tr, q, i, j + 1, u, v)
  BY <1>3, <1>5, <1>6, <1>7, <1>8 DEF Line
<1> QED
  BY <1>9 DEF u, v, x

\* The receiver goes on, without and with a message.
LEMMA LineSkip ==
  ASSUME NEW tr \in Trace, NEW q, NEW i \in Nat, NEW j \in Nat,
         NEW ks \in Seq(Nat), NEW ch, Line(tr, q, i, j, ks, ch), ~SentBy(q, tr[i])
  PROVE  Line(tr, q, i + 1, j, ks, ch)
<1>1. \A m \in 1 .. Len(ks) : ks[m] \in Nat /\ i + 1 <= ks[m]
  <2> TAKE m \in 1 .. Len(ks)
  <2>1. ks[m] \in Nat /\ i <= ks[m] /\ SentBy(q, tr[ks[m]])
    BY DEF Line
  <2>2. ks[m] # i
    BY <2>1
  <2> QED
    BY <2>1, <2>2
<1>2. \A k \in Nat : k < i + 1 => k < i \/ k = i
  OBVIOUS
<1>3. \A k \in Nat : i + 1 <= k => i <= k
  OBVIOUS
<1> QED
  BY <1>1, <1>2, <1>3 DEF Line

LEMMA LineFirst ==
  ASSUME NEW tr \in Trace, NEW q, NEW i \in Nat, NEW j \in Nat,
         NEW ks \in Seq(Nat), NEW ch \in Seq(Messages), Line(tr, q, i, j, ks, ch),
         SentBy(q, tr[i]), Len(ch) # 0
  PROVE  i < j /\ Len(ks) # 0 /\ ks[1] = i /\ ch[1] = Message(tr[i])
<1> DEFINE l == Len(ks)
<1>1. l \in Nat /\ l > 0 /\ Len(ch) = l /\ \A m \in 1 .. l : ks[m] \in Nat
  BY DEF Line
<1> HIDE DEF l
<1>2. 1 \in 1 .. l
  BY <1>1
<1>3. i <= ks[1] /\ ks[1] < j /\ ks[1] \in Nat
  BY <1>1, <1>2 DEF Line, l
<1>4. i < j
  BY <1>3
<1>5. PICK m \in 1 .. l : ks[m] = i
  BY <1>4 DEF Line, l
<1>6. m > 1 => ks[1] < ks[m]
  BY <1>2 DEF Line, l
<1>7. m = 1
  BY <1>1, <1>3, <1>5, <1>6
<1> QED
  BY <1>1, <1>2, <1>4, <1>5, <1>7 DEF Line, l

LEMMA LineReceive ==
  ASSUME NEW tr \in Trace, NEW q, NEW i \in Nat, NEW j \in Nat,
         NEW ks \in Seq(Nat), NEW ch \in Seq(Messages), Line(tr, q, i, j, ks, ch),
         SentBy(q, tr[i]), Len(ch) # 0
  PROVE  Tail(ks) \in Seq(Nat) /\ Line(tr, q, i + 1, j, Tail(ks), Tail(ch))
<1> DEFINE l == Len(ks)  u == Tail(ks)  v == Tail(ch)
<1>1. i < j /\ l # 0 /\ ks[1] = i /\ Len(ch) = l /\ l \in Nat
  BY LineFirst, SMTT(40), ZenonT(40), Z3T(40) DEF Line
<1>2. /\ u \in Seq(Nat) /\ Len(u) = l - 1 /\ \A m \in 1 .. l - 1 : u[m] = ks[m + 1]
  BY <1>1
<1>3. Len(v) = l - 1 /\ \A m \in 1 .. l - 1 : v[m] = ch[m + 1]
  <2>1. ch # << >>
    BY <1>1
  <2> QED
    BY <1>1, <2>1
<1>4. \A m \in 1 .. l : ks[m] \in Nat
  OBVIOUS
<1> HIDE DEF l, u, v
<1>5. ASSUME NEW m \in 1 .. l - 1
      PROVE  i + 1 <= u[m] /\ u[m] < j /\ SentBy(q, tr[u[m]]) /\ v[m] = Message(tr[u[m]])
  <2>1. m + 1 \in 1 .. l /\ 1 \in 1 .. l /\ 1 < m + 1
    BY <1>1
  <2>2. /\ ks[m + 1] < j /\ SentBy(q, tr[ks[m + 1]]) /\ ch[m + 1] = Message(tr[ks[m + 1]])
        /\ ks[1] < ks[m + 1]
    BY <2>1 DEF Line, l
  <2>3. i + 1 <= ks[m + 1]
    BY <1>1, <1>4, <2>1, <2>2
  <2> QED
    BY <1>2, <1>3, <2>2, <2>3, SMTT(40), ZenonT(40)
<1>6. ASSUME NEW m \in 1 .. l - 1, NEW n \in 1 .. l - 1, m < n
      PROVE  u[m] < u[n]
  <2>1. m + 1 \in 1 .. l /\ n + 1 \in 1 .. l /\ m + 1 < n + 1
    BY <1>1, <1>6
  <2>2. ks[m + 1] < ks[n + 1]
    BY <2>1 DEF Line, l
  <2> QED
    BY <1>2, <2>2, SMTT(40), ZenonT(40)
<1>7. ASSUME NEW k \in Nat, i + 1 <= k, k < j, SentBy(q, tr[k])
      PROVE  \E m \in 1 .. l - 1 : u[m] = k
  <2>1. i <= k /\ k # i
    BY <1>7
  <2>2. PICK m \in 1 .. l : ks[m] = k
    BY <1>7, <2>1 DEF Line, l
  <2>3. m # 1
    BY <1>1, <2>1, <2>2
  <2>4. m - 1 \in 1 .. l - 1 /\ (m - 1) + 1 = m
    BY <1>1, <2>3
  <2> QED
    BY <1>2, <2>2, <2>4
<1>8. ASSUME NEW k \in Nat, k < i + 1, SentBy(q, tr[k])
      PROVE  k < j
  BY <1>1, <1>8
<1>9. Line(tr, q, i + 1, j, u, v)
  BY <1>2, <1>3, <1>5, <1>6, <1>7, <1>8 DEF Line
<1> QED
  BY <1>2, <1>9 DEF u, v

(***************************************************************************)
(* The invariant of the whole: both engines on one path of the machine,    *)
(* and between them exactly the messages of the transfers that lie between *)
(* their places.                                                           *)
(***************************************************************************)
Shadow(tr, idx, ks) ==
  /\ Path(prog, tr, idx[ALICE], idx[BOB])
  /\ \A p \in Party : Sim(p, tr[idx[p]])
  /\ \A q \in Party : Line(tr, q, idx[Peer(q)], idx[q], ks[q], chan[q])

NetTypeOK ==
  /\ chan \in [Party -> Seq(Messages)] /\ visible \in [Party -> Nat]
  /\ \A q \in Party : visible[q] <= Len(chan[q])

NetInv ==
  /\ StreamTypeOK /\ NetTypeOK
  /\ \E tr \in Trace, idx \in [Party -> Nat], ks \in [Party -> Seq(Nat)] : Shadow(tr, idx, ks)

LEMMA NetInit == Init => NetInv
<1> SUFFICES ASSUME Init PROVE NetInv
  OBVIOUS
<1> DEFINE tr == [k \in Nat |-> Started]  idx == [p \in Party |-> 0]  ks == [p \in Party |-> Nil]
<1>1. /\ StreamTypeOK /\ Started \in Engine /\ PhaseOK(prog, Started)
      /\ \A p \in Party : Sim(p, Started)
  BY StartedFacts DEF Party
<1>2. tr \in Trace /\ idx \in [Party -> Nat] /\ ks \in [Party -> Seq(Nat)]
  BY <1>1 DEF Nil, Trace
<1>3. chan = [p \in Party |-> Nil] /\ visible = [p \in Party |-> 0]
  BY DEF Init, Nil
<1>4. Nil \in Seq(Messages) /\ Len(Nil) = 0
  BY DEF Nil
<1>5. NetTypeOK
  BY <1>3, <1>4 DEF NetTypeOK
<1>6. /\ tr[0] = Started /\ \A p \in Party : idx[p] = 0 /\ ks[p] = Nil /\ chan[p] = Nil /\ idx[Peer(p)] = 0
  BY <1>3, PeerIsParty
<1>7. ALICE \in Party /\ BOB \in Party
  BY DEF Party
<1> HIDE DEF tr, idx, ks
<1>8. \A q \in Party : Line(tr, q, idx[Peer(q)], idx[q], ks[q], chan[q])
  BY <1>4, <1>6 DEF Line
<1>9. Path(prog, tr, idx[ALICE], idx[BOB])
  BY <1>1, <1>6, <1>7 DEF Path
<1>10. Shadow(tr, idx, ks)
  BY <1>1, <1>6, <1>8, <1>9 DEF Shadow
<1> QED
  BY <1>1, <1>2, <1>5, <1>10 DEF NetInv

\* One engine takes the machine's next step, and the messages follow it.
LEMMA ShadowStep ==
  ASSUME NEW tr \in Trace, NEW idx, idx \in [Party -> Nat], NEW ks,
         Shadow(tr, idx, ks), StreamTypeOK, NEW p \in Party, EngineStep(p), prog' = prog,
         tr[idx[p]].pc # "finish",
         NEW P, P = prog, NEW c, c = Succ(P, tr[idx[p]]), Sim(p, c)',
         NEW y, y \in [Party -> Seq(Nat)],
         Line(tr, p, idx[Peer(p)], idx[p] + 1, y[p], chan'[p]),
         Line(tr, Peer(p), idx[p] + 1, idx[Peer(p)], y[Peer(p)], chan'[Peer(p)])
  PROVE  \E e \in Trace, x \in [Party -> Nat] : Shadow(e, x, y)'
<1> DEFINE q == Peer(p)  i == idx[p]  j == idx[q]
           x == [idx EXCEPT ![p] = i + 1]
<1>1. q \in Party /\ Peer(q) = p /\ q # p /\ i \in Nat /\ j \in Nat /\ P \in Seq(Operation)
      /\ (\A r \in Party : r = p \/ r = q)
  BY PeerIsParty DEF StreamTypeOK, Party, Peer, ALICE, BOB
<1>2. Path(P, tr, i, j)
  BY PathSides DEF Shadow
<1>3. PICK e \in Trace :
        /\ Path(P, e, i + 1, j) /\ e[i + 1] = c
        /\ \A k \in Nat : k <= i \/ k <= j => e[k] = tr[k]
  <2>1. tr[i].pc # "finish" /\ c = Succ(P, tr[i])
    OBVIOUS
  <2> HIDE DEF i, j
  <2>2. ASSUME NEW a \in Nat, NEW b \in Nat, Path(P, tr, a, b), tr[a].pc # "finish"
        PROVE  \E e \in Trace :
                 /\ Path(P, e, a + 1, b) /\ e[a + 1] = Succ(P, tr[a])
                 /\ \A k \in Nat : k <= a \/ k <= b => e[k] = tr[k]
    <3>1. tr \in Trace /\ P \in Seq(Operation)
      BY <1>1
    <3> QED
      BY ONLY <2>2, <3>1, PathExtend
  <2> QED
    BY <1>1, <1>2, <2>1, <2>2
<1>4. x \in [Party -> Nat] /\ x[p] = i + 1 /\ x[q] = j
  BY <1>1
<1>5. Sim(q, tr[j])'
  <2>1. Sim(q, tr[j])
    BY <1>1 DEF Shadow
  <2>2. UNCHANGED prog /\ UNCHANGED localVars(q)
    BY <1>1, OtherEngine
  <2> HIDE DEF j, q
  <2> QED
    BY <1>1, <2>1, <2>2, SimFrame
<1>6. Line(tr, p, j, i + 1, y[p], chan'[p]) /\ Line(tr, q, i + 1, j, y[q], chan'[q])
  OBVIOUS
<1> HIDE DEF q, i, j, x
<1>7. e[j] = tr[j]
  BY <1>1, <1>3
<1>8. \A k \in Nat : k < i + 1 \/ k < j => e[k] = tr[k]
  <2>1. \A k \in Nat : k < i + 1 \/ k < j => k <= i \/ k <= j
    BY <1>1
  <2> QED
    BY <1>3, <2>1
<1>9. Line(e, p, j, i + 1, y[p], chan'[p]) /\ Line(e, q, i + 1, j, y[q], chan'[q])
  <2>1. i + 1 \in Nat /\ y[p] \in Seq(Nat) /\ y[q] \in Seq(Nat)
    BY <1>1
  <2> QED
    BY <1>1, <1>3, <1>6, <1>8, <2>1, LineFrame
<1>10. Path(prog', e, x[ALICE], x[BOB])
  <2>1. Path(P, e, x[p], x[Peer(p)])
    BY <1>3, <1>4 DEF q
  <2> QED
    BY <1>4, <2>1, PathSides
<1>11. ASSUME NEW r \in Party PROVE Sim(r, e[x[r]])'
  <2>1. CASE r = p
    <3>1. e[x[r]] = c
      BY <1>3, <1>4, <2>1
    <3> QED
      BY <2>1, <3>1
  <2>2. CASE r = q
    <3>1. e[x[r]] = tr[j]
      BY <1>4, <1>7, <2>2
    <3> QED
      BY <1>5, <2>2, <3>1
  <2> QED
    BY <1>1, <2>1, <2>2
<1>12. ASSUME NEW r \in Party PROVE Line(e, r, x[Peer(r)], x[r], y[r], chan'[r])
  BY <1>1, <1>4, <1>9 DEF q
<1>13. Shadow(e, x, y)'
  BY <1>10, <1>11, <1>12 DEF Shadow
<1> QED
  BY <1>3, <1>4, <1>13

LEMMA VisibleStep ==
  ASSUME chan \in [Party -> Seq(Messages)], visible \in [Party -> Nat],
         \A r \in Party : visible[r] <= Len(chan[r]), chan' = chan,
         \/ visible' = visible
         \/ \E p \in Party : visible' = [visible EXCEPT ![p] = Len(chan[p])]
         \/ \E p \in Party : visible[p] < Len(chan[p]) /\ visible' = [visible EXCEPT ![p] = @ + 1]
  PROVE  visible' \in [Party -> Nat] /\ \A r \in Party : visible'[r] <= Len(chan'[r])
<1>1. \A r \in Party : visible[r] \in Nat /\ Len(chan[r]) \in Nat
  OBVIOUS
<1>2. ASSUME NEW p \in Party, NEW n \in Nat, n <= Len(chan[p]), visible' = [visible EXCEPT ![p] = n]
      PROVE  visible' \in [Party -> Nat] /\ \A r \in Party : visible'[r] <= Len(chan'[r])
  <2>1. \A r \in Party : visible'[r] = IF r = p THEN n ELSE visible[r]
    BY <1>2
  <2> QED
    BY <1>2, <2>1
<1>3. ASSUME NEW p \in Party, visible[p] < Len(chan[p])
      PROVE  visible[p] + 1 \in Nat /\ visible[p] + 1 <= Len(chan[p])
  <2> DEFINE v == visible[p]  n == Len(chan[p])
  <2>1. v \in Nat /\ n \in Nat /\ v < n
    BY <1>1, <1>3
  <2> HIDE DEF v, n
  <2>2. v + 1 \in Nat /\ v + 1 <= n
    BY <2>1
  <2> QED
    BY <2>2 DEF v, n
<1>4. \A p \in Party : Len(chan[p]) <= Len(chan[p])
  BY <1>1
<1> QED
  BY <1>1, <1>2, <1>3, <1>4, SMTT(40), ZenonT(40)

\* What an engine's step does to the messages.
LEMMA EngineNetStep == ASSUME NetInv, NEW p \in Party, EngineStep(p) PROVE NetInv'
<1>1. PICK tr \in Trace, idx \in [Party -> Nat], ks \in [Party -> Seq(Nat)] :
        Shadow(tr, idx, ks)
  BY DEF NetInv
<1>2. PICK P : P = prog
  OBVIOUS
<1> DEFINE q == Peer(p)  i == idx[p]  j == idx[q]  s == tr[i]
<1>3. q \in Party /\ Peer(q) = p /\ q # p /\ i \in Nat /\ j \in Nat /\ s \in Engine /\ P \in Seq(Operation)
      /\ (\A r \in Party : r = p \/ r = q)
  BY <1>2, PeerIsParty DEF NetInv, StreamTypeOK, Party, Peer, ALICE, BOB, Trace
<1>4. PICK c : c = Succ(P, s)
  OBVIOUS
<1>5. StreamTypeOK /\ Sim(p, s) /\ PhaseOK(P, s)
  <2>1. Path(P, tr, i, j)
    BY <1>1, <1>2, PathSides DEF Shadow
  <2> QED
    BY <1>1, <1>3, <2>1 DEF Path, Shadow, NetInv, Trace
<1>6. /\ chan \in [Party -> Seq(Messages)] /\ visible \in [Party -> Nat]
      /\ \A r \in Party : visible[r] <= Len(chan[r]) /\ chan[r] \in Seq(Messages) /\ visible[r] \in Nat
                          /\ Len(chan[r]) \in Nat
  BY DEF NetInv, NetTypeOK
<1>7. Line(tr, p, j, i, ks[p], chan[p]) /\ Line(tr, q, i, j, ks[q], chan[q])
      /\ ks[p] \in Seq(Nat) /\ ks[q] \in Seq(Nat)
  BY <1>1, <1>3 DEF Shadow
<1>8. /\ StreamTypeOK' /\ prog' = prog
      /\ \/ Sim(p, s)' /\ UNCHANGED <<chan, masks>>
            /\ (visible' = visible \/ visible' = [visible EXCEPT ![p] = Len(chan[p])])
         \/ Sim(p, c)' /\ s.pc # "finish" /\ s.pc \notin What /\ UNCHANGED <<chan, masks, visible>>
         \/ Sim(p, c)' /\ s.pc \in What /\ p = Sender(s.pc) /\ DoSend(p)
         \/ Sim(p, c)' /\ s.pc \in What /\ p # Sender(s.pc) /\ DoRecv(p)
  <2> HIDE DEF s
  <2> QED
    BY <1>2, <1>3, <1>4, <1>5, EngineMoves
<1>9. CASE Sim(p, s)' /\ UNCHANGED <<chan, masks>>
           /\ (visible' = visible \/ visible' = [visible EXCEPT ![p] = Len(chan[p])])
  <2>1. NetTypeOK'
    BY <1>6, <1>9, VisibleStep DEF NetTypeOK
  <2>2. Sim(q, tr[j])'
    <3>1. Sim(q, tr[j])
      BY <1>1, <1>3 DEF Shadow
    <3> HIDE DEF q, j
    <3> QED
      BY <1>3, <1>5, <3>1, OtherEngine, SimFrame
  <2>3. \A r \in Party : Sim(r, tr[idx[r]])'
    <3>1. Sim(p, tr[idx[p]])'
      BY <1>9
    <3>2. Sim(q, tr[idx[q]])'
      BY <2>2
    <3> HIDE DEF q
    <3> QED
      BY <1>3, <3>1, <3>2
  <2>4. Shadow(tr, idx, ks)'
    BY <1>1, <1>8, <1>9, <2>3 DEF Shadow
  <2> QED
    BY <1>8, <2>1, <2>4 DEF NetInv
<1>10. CASE Sim(p, c)' /\ s.pc # "finish" /\ s.pc \notin What /\ UNCHANGED <<chan, masks, visible>>
  <2>1. ~SentBy(p, s) /\ ~SentBy(q, s)
    BY <1>10 DEF SentBy
  <2>2. Line(tr, p, j, i + 1, ks[p], chan'[p])
    <3> HIDE DEF q, i, j
    <3> QED
      BY <1>3, <1>7, <1>10, <2>1, LinePass
  <2>3. Line(tr, q, i + 1, j, ks[q], chan'[q])
    <3> HIDE DEF q, i, j
    <3> QED
      BY <1>3, <1>7, <1>10, <2>1, LineSkip
  <2>4. \E e \in Trace, x \in [Party -> Nat] : Shadow(e, x, ks)'
    BY <1>1, <1>2, <1>4, <1>5, <1>8, <1>10, <2>2, <2>3, ShadowStep
  <2>5. NetTypeOK'
    BY <1>10 DEF NetInv, NetTypeOK
  <2> QED
    BY <1>8, <2>4, <2>5 DEF NetInv
<1>11. CASE Sim(p, c)' /\ s.pc \in What /\ p = Sender(s.pc) /\ DoSend(p)
  <2>1. At(p, "send") /\ Transfer(p, s.pc) = Message(s) /\ Head(todo[p]).what = s.pc
    <3>1. At(p, "send")
      BY <1>11 DEF DoSend
    <3> HIDE DEF s
    <3> QED
      BY <1>3, <1>5, <3>1, TransferIs
  <2>2. chan' = [chan EXCEPT ![p] = Append(@, Message(s))] /\ visible' = visible
    BY <1>11, <2>1 DEF DoSend
  <2>3. SentBy(p, s) /\ ~SentBy(q, s) /\ s.pc # "finish" /\ Message(s) \in Messages
    BY <1>3, <1>11 DEF SentBy, What, Messages
  <2> DEFINE y == [ks EXCEPT ![p] = Append(@, i)]
  <2>4. y \in [Party -> Seq(Nat)] /\ y[p] = Append(ks[p], i) /\ y[q] = ks[q]
    BY <1>3
  <2>5. chan'[p] = Append(chan[p], Message(s)) /\ chan'[q] = chan[q]
        /\ chan' \in [Party -> Seq(Messages)] /\ Len(chan'[p]) = Len(chan[p]) + 1
    BY <1>3, <1>6, <2>2, <2>3
  <2>6. Line(tr, p, j, i + 1, y[p], chan'[p])
    <3> HIDE DEF q, i, j, y
    <3> QED
      BY <1>3, <1>6, <1>7, <2>3, <2>4, <2>5, LineSend
  <2>7. Line(tr, q, i + 1, j, y[q], chan'[q])
    <3> HIDE DEF q, i, j, y
    <3> QED
      BY <1>3, <1>7, <2>3, <2>4, <2>5, LineSkip
  <2>8. \E e \in Trace, x \in [Party -> Nat] : Shadow(e, x, y)'
    <3> HIDE DEF y
    <3> QED
      BY <1>1, <1>2, <1>4, <1>5, <1>8, <1>11, <2>3, <2>4, <2>6, <2>7, ShadowStep
  <2>9. NetTypeOK'
    <3>1. \A r \in Party : visible[r] <= Len(chan'[r])
      <4>1. visible[p] <= Len(chan'[p])
        BY <1>6, <2>5
      <4>2. visible[q] <= Len(chan'[q])
        BY <1>3, <1>6, <2>5
      <4> HIDE DEF q
      <4> QED
        BY <1>3, <4>1, <4>2
    <3> QED
      BY <1>6, <2>2, <2>5, <3>1 DEF NetTypeOK
  <2> QED
    BY <1>8, <2>4, <2>8, <2>9 DEF NetInv
<1>12. CASE Sim(p, c)' /\ s.pc \in What /\ p # Sender(s.pc) /\ DoRecv(p)
  <2>1. /\ visible[q] > 0 /\ chan' = [chan EXCEPT ![q] = Tail(@)]
        /\ visible' = [visible EXCEPT ![q] = @ - 1]
    BY <1>12 DEF DoRecv
  <2>2. SentBy(q, s) /\ ~SentBy(p, s) /\ s.pc # "finish"
    <3>1. Sender(s.pc) \in Party
      BY DEF Sender, Party
    <3> HIDE DEF q
    <3> QED
      BY <1>3, <1>12, <3>1 DEF SentBy, What
  <2>3. Len(chan[q]) # 0 /\ chan[q] # << >>
    <3> HIDE DEF q
    <3> QED
      BY <1>3, <1>6, <2>1
  <2>4. Tail(chan[q]) \in Seq(Messages) /\ Len(Tail(chan[q])) = Len(chan[q]) - 1
    <3> HIDE DEF q
    <3> QED
      BY <1>3, <1>6, <2>3
  <2> DEFINE y == [ks EXCEPT ![q] = Tail(@)]
  <2>5. Tail(ks[q]) \in Seq(Nat) /\ Line(tr, q, i + 1, j, Tail(ks[q]), Tail(chan[q]))
    <3> HIDE DEF q, i, j
    <3> QED
      BY <1>3, <1>6, <1>7, <2>2, <2>3, LineReceive
  <2>6. y \in [Party -> Seq(Nat)] /\ y[p] = ks[p] /\ y[q] = Tail(ks[q])
    BY <1>3, <2>5
  <2>7. chan'[p] = chan[p] /\ chan'[q] = Tail(chan[q]) /\ chan' \in [Party -> Seq(Messages)]
    BY <1>3, <1>6, <2>1, <2>4
  <2>8. Line(tr, p, j, i + 1, y[p], chan'[p])
    <3> HIDE DEF q, i, j, y
    <3> QED
      BY <1>3, <1>7, <2>2, <2>6, <2>7, LinePass
  <2>9. Line(tr, q, i + 1, j, y[q], chan'[q])
    BY <2>5, <2>6, <2>7
  <2>10. \E e \in Trace, x \in [Party -> Nat] : Shadow(e, x, y)'
    <3> HIDE DEF y
    <3> QED
      BY <1>1, <1>2, <1>4, <1>5, <1>8, <1>12, <2>2, <2>6, <2>8, <2>9, ShadowStep
  <2>11. NetTypeOK'
    <3>1. visible' \in [Party -> Nat] /\ visible'[q] = visible[q] - 1 /\ visible'[p] = visible[p]
      <4> HIDE DEF q
      <4> QED
        BY <1>3, <1>6, <2>1, SMTT(40), ZenonT(40)
    <3>2. \A r \in Party : visible'[r] <= Len(chan'[r])
      <4>1. visible'[p] <= Len(chan'[p])
        BY <1>6, <2>7, <3>1
      <4>2. visible'[q] <= Len(chan'[q])
        <5> DEFINE v == visible[q]  n == Len(chan[q])
        <5>1. v <= n /\ v \in Nat /\ n \in Nat
          BY <1>3, <1>6
        <5>2. visible'[q] = v - 1 /\ Len(chan'[q]) = n - 1
          BY <2>4, <2>7, <3>1
        <5> HIDE DEF v, n
        <5> QED
          BY <5>1, <5>2
      <4> HIDE DEF q
      <4> QED
        BY <1>3, <4>1, <4>2
    <3> QED
      BY <2>7, <3>1, <3>2 DEF NetTypeOK
  <2> QED
    BY <1>8, <2>6, <2>10, <2>11 DEF NetInv
<1> QED
  BY <1>8, <1>9, <1>10, <1>11, <1>12

LEMMA NetStep == NetInv /\ [Next]_vars => NetInv'
<1> SUFFICES ASSUME NetInv, [Next]_vars PROVE NetInv'
  OBVIOUS
<1>1. CASE \E p \in Party : EngineStep(p)
  BY <1>1, EngineNetStep
<1>2. CASE \/ \E p \in Party : ProducerStep(p) \/ SpontaneousWrite(p)
           \/ Terminated
           \/ UNCHANGED vars
  <2>1. PICK tr \in Trace, idx \in [Party -> Nat], ks \in [Party -> Seq(Nat)] :
          Shadow(tr, idx, ks)
    BY DEF NetInv
  <2>2. /\ UNCHANGED <<prog, at, left, todo, reg, buf, cnt, gates, checked, hash, used, off, hold, chan>>
        /\ \/ visible' = visible
           \/ \E p \in Party : visible[p] < Len(chan[p]) /\ visible' = [visible EXCEPT ![p] = @ + 1]
    BY <1>2, QuietSteps
  <2>3. StreamTypeOK'
    BY <2>2 DEF NetInv, StreamTypeOK
  <2>4. NetTypeOK'
    <3>1. chan \in [Party -> Seq(Messages)] /\ visible \in [Party -> Nat]
          /\ \A r \in Party : visible[r] <= Len(chan[r]) /\ Len(chan[r]) \in Nat
      BY DEF NetInv, NetTypeOK
    <3> QED
      BY <2>2, <3>1, VisibleStep DEF NetTypeOK
  <2>5. \A r \in Party : Sim(r, tr[idx[r]])'
    <3> TAKE r \in Party
    <3>1. Sim(r, tr[idx[r]])
      BY <2>1 DEF Shadow
    <3>2. UNCHANGED prog /\ UNCHANGED localVars(r)
      BY <2>2 DEF localVars
    <3> QED
      BY <3>1, <3>2, SimFrame
  <2>6. Shadow(tr, idx, ks)'
    BY <2>1, <2>2, <2>5 DEF Shadow
  <2> QED
    BY <2>3, <2>4, <2>6 DEF NetInv
<1> QED
  BY <1>1, <1>2 DEF Next

\* What a party takes from the stream is what it expects there: the two
\* classes send and receive the same transfers in the same order, cut at the
\* same places, over any program and any sizes, with both engines and both
\* producers running at their own pace (draw_vole_, ostriple.h:119-145).
THEOREM Aligned == Spec => []StreamsAligned
<1>1. NetInv => StreamsAligned
  <2> SUFFICES ASSUME NetInv, NEW p \in Party, At(p, "recv"), chan[Peer(p)] # << >>
               PROVE  Head(chan[Peer(p)]) = Transfer(p, Head(todo[p]).what)
    BY DEF StreamsAligned
  <2>1. PICK tr, idx, ks : /\ tr \in Trace /\ idx \in [Party -> Nat] /\ ks \in [Party -> Seq(Nat)]
                           /\ Shadow(tr, idx, ks)
    BY DEF NetInv
  <2> DEFINE q == Peer(p)  i == idx[p]  j == idx[q]  s == tr[i]
  <2>2. q \in Party /\ Peer(q) = p /\ q # p /\ i \in Nat /\ j \in Nat /\ s \in Engine
    BY <2>1, PeerIsParty DEF Trace
  <2>3. StreamTypeOK /\ Sim(p, s) /\ Line(tr, q, i, j, ks[q], chan[q]) /\ ks[q] \in Seq(Nat)
    BY <2>1, <2>2 DEF Shadow, NetInv
  <2>4. /\ s.pc \in What /\ Head(todo[p]).what = s.pc
        /\ At(p, "send") <=> p = Sender(s.pc)
        /\ Transfer(p, s.pc) = Message(s)
    <3> HIDE DEF s
    <3> QED
      BY <2>2, <2>3, TransferIs
  <2>5. SentBy(q, s)
    <3>1. Sender(s.pc) \in Party /\ p # Sender(s.pc)
      BY <2>4 DEF At, Sender, Party
    <3> QED
      BY <2>4, <3>1 DEF SentBy, Party, Peer
  <2>6. chan[q] \in Seq(Messages) /\ Len(chan[q]) # 0
    BY <2>2 DEF NetInv, NetTypeOK
  <2>7. chan[q][1] = Message(s)
    <3>1. SentBy(q, tr[i])
      BY <2>5
    <3>2. chan[q][1] = Message(tr[i]) => chan[q][1] = Message(s)
      OBVIOUS
    <3> HIDE DEF q, i, j, s
    <3> QED
      <4>1. /\ q \in Party /\ i \in Nat /\ j \in Nat /\ ks[q] \in Seq(Nat) /\ chan[q] \in Seq(Messages)
            /\ Line(tr, q, i, j, ks[q], chan[q]) /\ SentBy(q, tr[i]) /\ Len(chan[q]) # 0
        BY <2>2, <2>3, <3>1, <2>6
      <4>2. chan[q][1] = Message(tr[i])
        <5>1. ASSUME NEW a \in Nat, NEW b \in Nat, NEW l \in Seq(Nat), NEW ch \in Seq(Messages),
                     Line(tr, q, a, b, l, ch), SentBy(q, tr[a]), Len(ch) # 0
              PROVE  ch[1] = Message(tr[a])
          <6>1. tr \in Trace
            BY <2>1
          <6> QED
            BY ONLY <5>1, <6>1, LineFirst
        <5> QED
          BY <4>1, <5>1
      <4> QED
        BY <3>2, <4>2
  <2> QED
    BY <2>4, <2>6, <2>7
<1> QED
  BY NetInit, NetStep, <1>1, PTL DEF Spec

(***************************************************************************)
(* Where the correlations of a party are: still to be drawn (from pos on), *)
(* in the buffer b, drawn by the running call (r), or used as a mask (m).  *)
(***************************************************************************)
Slots == 0 .. CHECK_SZ - 1

Distinct(r) == \A k, l \in 1 .. Len(r) : r[k] = r[l] => k = l

Apart(pos, b, r, m) ==
  /\ \A i \in Slots : b[i] < pos
  /\ \A k \in 1 .. Len(r) : r[k] < pos
  /\ \A k \in 1 .. Len(m) : m[k] < pos
  /\ \A i, j \in Slots : i # j /\ b[i] = b[j] => b[i] = Spent
  /\ Distinct(r) /\ Distinct(m)
  /\ \A i \in Slots, k \in 1 .. Len(r) : b[i] # r[k]
  /\ \A i \in Slots, k \in 1 .. Len(m) : b[i] # m[k]
  /\ \A k \in 1 .. Len(r), l \in 1 .. Len(m) : r[k] # m[l]

\* The buffer holds what the next multiplications take from it.
Ready(s) ==
  /\ s.pc \notin {"construct", "first", "fill"} => \A i \in Slots : i >= s.cnt => s.buf[i] # Spent
  /\ s.pc \in {"first", "fill"} => \A i \in Slots : i < CHECK_SZ - s.n => s.buf[i] # Spent

\* Elements of a concatenation.
LEMMA CatElems ==
  ASSUME NEW r \in Seq(Int), NEW t \in Seq(Int)
  PROVE  /\ r \o t \in Seq(Int) /\ Len(r \o t) = Len(r) + Len(t)
         /\ \A k \in 1 .. Len(r \o t) : (k \in 1 .. Len(r) /\ (r \o t)[k] = r[k])
             \/ (\E h \in 1 .. Len(t) : k = Len(r) + h /\ (r \o t)[k] = t[h])
<1> DEFINE u == r \o t
<1>1. u \in Seq(Int) /\ Len(u) = Len(r) + Len(t) /\ Len(r) \in Nat /\ Len(t) \in Nat
  OBVIOUS
<1>2. \A k \in 1 .. Len(r) + Len(t) : u[k] = IF k <= Len(r) THEN r[k] ELSE t[k - Len(r)]
  BY ConcatProperties
<1> HIDE DEF u
<1>3. ASSUME NEW k \in 1 .. Len(r) + Len(t)
      PROVE  (k \in 1 .. Len(r) /\ u[k] = r[k])
             \/ (\E h \in 1 .. Len(t) : k = Len(r) + h /\ u[k] = t[h])
  <2>1. CASE k <= Len(r)
    BY <1>1, <1>2, <2>1
  <2>2. CASE k > Len(r)
    <3> DEFINE h == k - Len(r)
    <3>1. h \in 1 .. Len(t) /\ k = Len(r) + h
      BY <1>1, <2>2
    <3>2. u[k] = t[h]
      BY <1>1, <1>2, <2>2
    <3> HIDE DEF h
    <3> QED
      BY <3>1, <3>2
  <2> QED
    BY <1>1, <2>1, <2>2
<1> QED
  BY <1>1, <1>3, SMTT(40), ZenonT(40) DEF u

LEMMA CatDistinct ==
  ASSUME NEW r \in Seq(Int), NEW t \in Seq(Int), Distinct(r), Distinct(t),
         \A k \in 1 .. Len(r), h \in 1 .. Len(t) : r[k] # t[h]
  PROVE  Distinct(r \o t)
<1> DEFINE u == r \o t
<1>3. \A k \in 1 .. Len(u) : (k \in 1 .. Len(r) /\ u[k] = r[k])
                             \/ (\E h \in 1 .. Len(t) : k = Len(r) + h /\ u[k] = t[h])
  BY CatElems
<1> HIDE DEF u
<1> SUFFICES ASSUME NEW k \in 1 .. Len(u), NEW l \in 1 .. Len(u), u[k] = u[l] PROVE k = l
  BY DEF Distinct, u
<1>1. CASE k \in 1 .. Len(r) /\ u[k] = r[k]
  <2>1. CASE l \in 1 .. Len(r) /\ u[l] = r[l]
    BY <1>1, <2>1 DEF Distinct
  <2>2. CASE \E h \in 1 .. Len(t) : l = Len(r) + h /\ u[l] = t[h]
    BY <1>1, <2>2
  <2> QED
    BY <2>1, <2>2, <1>3
<1>2. CASE \E h \in 1 .. Len(t) : k = Len(r) + h /\ u[k] = t[h]
  <2>1. PICK h \in 1 .. Len(t) : k = Len(r) + h /\ u[k] = t[h]
    BY <1>2
  <2>2. CASE l \in 1 .. Len(r) /\ u[l] = r[l]
    BY <2>1, <2>2
  <2>3. CASE \E g \in 1 .. Len(t) : l = Len(r) + g /\ u[l] = t[g]
    BY <2>1, <2>3 DEF Distinct
  <2> QED
    BY <2>2, <2>3, <1>3
<1> QED
  BY <1>1, <1>2, <1>3

LEMMA ApartDrawReg ==
  ASSUME NEW pos \in Nat, NEW b \in [Slots -> Int], NEW r \in Seq(Int), NEW m \in Seq(Int),
         Apart(pos, b, r, m), NEW ids \in Seq(Int), NEW t \in Nat, t = Len(ids),
         \A k \in 1 .. t : ids[k] = pos + k - 1
  PROVE  Apart(pos + t, b, r \o ids, m)
<1> DEFINE u == r \o ids
<1>1. /\ \A i \in Slots : b[i] \in Int /\ b[i] < pos
      /\ \A k \in 1 .. Len(r) : r[k] \in Int /\ r[k] < pos
      /\ \A k \in 1 .. Len(m) : m[k] \in Int /\ m[k] < pos
  BY DEF Apart
<1>2. \A k \in 1 .. t : ids[k] \in Int /\ ids[k] >= pos /\ ids[k] < pos + t
  OBVIOUS
<1>3. /\ \A i \in Slots : b[i] < pos + t
      /\ \A k \in 1 .. Len(r) : r[k] < pos + t
      /\ \A k \in 1 .. Len(m) : m[k] < pos + t
  BY <1>1, SMTT(40), ZenonT(40)
<1>4. Distinct(ids)
  BY DEF Distinct
<1>5. /\ \A k \in 1 .. Len(r), h \in 1 .. t : r[k] # ids[h]
      /\ \A i \in Slots, h \in 1 .. t : b[i] # ids[h]
      /\ \A h \in 1 .. t, l \in 1 .. Len(m) : ids[h] # m[l]
  <2>1. \A x, y \in Int : x < pos /\ y >= pos => x # y
    OBVIOUS
  <2> QED
    BY <1>1, <1>2, <2>1, SMTT(40), ZenonT(40)
<1>6. \A k \in 1 .. Len(u) : (\E h \in 1 .. Len(r) : u[k] = r[h]) \/ (\E h \in 1 .. t : u[k] = ids[h])
  <2>1. \A k \in 1 .. Len(u) : (k \in 1 .. Len(r) /\ u[k] = r[k])
                               \/ (\E h \in 1 .. Len(ids) : k = Len(r) + h /\ u[k] = ids[h])
    BY CatElems
  <2> HIDE DEF u
  <2> SUFFICES ASSUME NEW k \in 1 .. Len(u)
               PROVE  (\E h \in 1 .. Len(r) : u[k] = r[h]) \/ (\E h \in 1 .. t : u[k] = ids[h])
    OBVIOUS
  <2>2. CASE k \in 1 .. Len(r) /\ u[k] = r[k]
    BY <2>2
  <2>3. CASE \E h \in 1 .. Len(ids) : k = Len(r) + h /\ u[k] = ids[h]
    BY <2>3
  <2> QED
    BY <2>1, <2>2, <2>3
<1>7. Distinct(u)
  BY <1>4, <1>5, CatDistinct DEF Apart
<1> HIDE DEF u
<1>8. Apart(pos + t, b, u, m)
  <2>1. \A k \in 1 .. Len(u) : u[k] < pos + t
    BY <1>2, <1>3, <1>6, SMTT(40), ZenonT(40)
  <2>2. \A i \in Slots, k \in 1 .. Len(u) : b[i] # u[k]
    <3>1. \A i \in Slots, k \in 1 .. Len(r) : b[i] # r[k]
      BY DEF Apart
    <3> QED
      BY ONLY <1>5, <1>6, <3>1, ZenonT(60), SMTT(40)
  <2>3. \A k \in 1 .. Len(u), l \in 1 .. Len(m) : u[k] # m[l]
    <3>1. \A k \in 1 .. Len(r), l \in 1 .. Len(m) : r[k] # m[l]
      BY DEF Apart
    <3> QED
      BY ONLY <1>5, <1>6, <3>1, ZenonT(60), SMTT(40), Z3T(40)
  <2>4. /\ \A i, j \in Slots : i # j /\ b[i] = b[j] => b[i] = Spent
        /\ Distinct(m) /\ \A i \in Slots, k \in 1 .. Len(m) : b[i] # m[k]
    BY DEF Apart
  <2> QED
    BY <1>3, <1>7, <2>1, <2>2, <2>3, <2>4 DEF Apart
<1> QED
  BY <1>8 DEF u

LEMMA ApartDrawBuf ==
  ASSUME NEW pos \in Nat, NEW b \in [Slots -> Int], NEW r \in Seq(Int), NEW m \in Seq(Int),
         Apart(pos, b, r, m), NEW t \in Nat, NEW w \in Int, NEW v \in [Slots -> Int],
         \A i \in Slots : v[i] = IF w <= i /\ i < w + t THEN pos + (i - w) ELSE b[i]
  PROVE  Apart(pos + t, v, r, m)
<1> DEFINE lr == Len(r)  lm == Len(m)
<1>1. /\ lr \in Nat /\ lm \in Nat /\ (\A i \in Slots : b[i] \in Int /\ v[i] \in Int /\ i \in Int)
      /\ (\A k \in 1 .. lr : r[k] \in Int) /\ (\A k \in 1 .. lm : m[k] \in Int)
  BY CheckAssumption DEF Slots
<1>2. /\ \A i \in Slots : b[i] < pos
      /\ \A k \in 1 .. lr : r[k] < pos
      /\ \A k \in 1 .. lm : m[k] < pos
      /\ \A i, j \in Slots : i # j /\ b[i] = b[j] => b[i] = Spent
      /\ Distinct(r) /\ Distinct(m)
      /\ \A i \in Slots, k \in 1 .. lr : b[i] # r[k]
      /\ \A i \in Slots, k \in 1 .. lm : b[i] # m[k]
      /\ \A k \in 1 .. lr, l \in 1 .. lm : r[k] # m[l]
  BY DEF Apart
<1> HIDE DEF lr, lm
<1>3. \A i \in Slots : \/ v[i] = b[i] /\ v[i] < pos
                       \/ v[i] = pos + (i - w) /\ v[i] >= pos /\ v[i] < pos + t
  BY <1>1, <1>2
<1>4. \A i, j \in Slots : i # j /\ v[i] = v[j] => v[i] = Spent
  <2> SUFFICES ASSUME NEW i \in Slots, NEW j \in Slots, i # j, v[i] = v[j] PROVE v[i] = Spent
    OBVIOUS
  <2> QED
    <3> DEFINE vi == v[i]  vj == v[j]
    <3>1. (vi = b[i] /\ vi < pos) \/ (vi = pos + (i - w) /\ vi >= pos)
      BY <1>3
    <3>2. (vj = b[j] /\ vj < pos) \/ (vj = pos + (j - w) /\ vj >= pos)
      BY <1>3
    <3>3. i \in Int /\ j \in Int /\ vi \in Int /\ vj \in Int /\ w \in Int /\ pos \in Int
      BY <1>1
    <3>4. i # j /\ vi = vj
      OBVIOUS
    <3>5. b[i] = b[j] => b[i] = Spent
      BY <1>2
    <3> HIDE DEF vi, vj
    <3>6. vi = b[i] /\ vj = b[j]
      BY ONLY <3>1, <3>2, <3>3, <3>4
    <3> QED
      BY <3>4, <3>5, <3>6 DEF vi
<1>5. \A i \in Slots, k \in 1 .. lr : v[i] # r[k]
  BY <1>1, <1>2, <1>3
<1>6. \A i \in Slots, k \in 1 .. lm : v[i] # m[k]
  BY <1>1, <1>2, <1>3
<1>7. /\ \A i \in Slots : v[i] < pos + t
      /\ \A k \in 1 .. lr : r[k] < pos + t
      /\ \A k \in 1 .. lm : m[k] < pos + t
  BY <1>1, <1>2, <1>3
<1> QED
  BY <1>2, <1>4, <1>5, <1>6, <1>7 DEF Apart, lr, lm

\* A call ends: its correlations are dropped, or become masks.
LEMMA ApartDrop ==
  ASSUME NEW pos, NEW b, NEW r, NEW m, Apart(pos, b, r, m)
  PROVE  Apart(pos, b, << >>, m)
BY DEF Apart, Distinct

LEMMA ApartMaskReg ==
  ASSUME NEW pos, NEW b, NEW r \in Seq(Int), NEW m \in Seq(Int), Apart(pos, b, r, m)
  PROVE  Apart(pos, b, << >>, m \o r)
<1> DEFINE u == m \o r
<1>1. \A k \in 1 .. Len(u) : (\E h \in 1 .. Len(m) : u[k] = m[h]) \/ (\E h \in 1 .. Len(r) : u[k] = r[h])
  BY CatElems, SMTT(40), ZenonT(40)
<1>2. Distinct(u)
  <2>1. \A k \in 1 .. Len(m), h \in 1 .. Len(r) : m[k] # r[h]
    BY DEF Apart
  <2> QED
    BY <2>1, CatDistinct DEF Apart
<1> HIDE DEF u
<1>3. Apart(pos, b, << >>, u)
  <2>0. /\ \A i \in Slots : b[i] < pos
        /\ \A k \in 1 .. Len(r) : r[k] < pos
        /\ \A k \in 1 .. Len(m) : m[k] < pos
        /\ \A i, j \in Slots : i # j /\ b[i] = b[j] => b[i] = Spent
        /\ \A i \in Slots, k \in 1 .. Len(r) : b[i] # r[k]
        /\ \A i \in Slots, k \in 1 .. Len(m) : b[i] # m[k]
    BY DEF Apart
  <2>1. \A k \in 1 .. Len(u) : u[k] < pos
    BY <1>1, <2>0
  <2>2. \A i \in Slots, k \in 1 .. Len(u) : b[i] # u[k]
    BY <1>1, <2>0, ZenonT(60), SMTT(40)
  <2>3. Len(<< >>) = 0
    OBVIOUS
  <2> QED
    BY <1>2, <2>0, <2>1, <2>2, <2>3 DEF Apart, Distinct
<1> QED
  BY <1>3 DEF u

\* The buffered correlations of a block become masks.
LEMMA ApartMaskBuf ==
  ASSUME NEW pos \in Nat, NEW b \in [Slots -> Int], NEW m \in Seq(Int), NEW r,
         Apart(pos, b, r, m), NEW c \in Nat, NEW n \in Nat, c + n <= CHECK_SZ,
         \A i \in Slots : i >= c => b[i] # Spent,
         NEW x \in Seq(Int), Len(x) = n, \A k \in 1 .. n : x[k] = b[c + k - 1],
         NEW v \in [Slots -> Int],
         \A i \in Slots : v[i] = IF i - c \in 0 .. n - 1 THEN Spent ELSE b[i],
         \A k \in 1 .. Len(m) : m[k] # Spent
  PROVE  Apart(pos, v, << >>, m \o x)
<1> DEFINE u == m \o x
<1>0. /\ \A i \in Slots : b[i] < pos
      /\ \A k \in 1 .. Len(m) : m[k] < pos
      /\ \A i, j \in Slots : i # j /\ b[i] = b[j] => b[i] = Spent
      /\ \A i \in Slots, k \in 1 .. Len(m) : b[i] # m[k]
  BY DEF Apart
<1>1. ASSUME NEW k \in 1 .. n
      PROVE  \E i \in Slots : i = c + k - 1 /\ x[k] = b[i] /\ b[i] # Spent /\ v[i] = Spent
  <2> DEFINE i == c + k - 1
  <2>1. i \in Slots /\ i >= c /\ i - c \in 0 .. n - 1
    BY CheckAssumption DEF Slots
  <2>2. x[k] = b[i]
    OBVIOUS
  <2> HIDE DEF i
  <2>3. b[i] # Spent /\ v[i] = Spent
    BY <2>1
  <2> QED
    BY <2>1, <2>2, <2>3 DEF i
<1>2. Distinct(x)
  <2> SUFFICES ASSUME NEW k \in 1 .. n, NEW l \in 1 .. n, x[k] = x[l] PROVE k = l
    BY DEF Distinct
  <2>1. PICK i \in Slots : i = c + k - 1 /\ x[k] = b[i] /\ b[i] # Spent
    BY <1>1
  <2>2. PICK j \in Slots : j = c + l - 1 /\ x[l] = b[j]
    BY <1>1
  <2>3. i = j
    <3>1. \A g, h \in Slots : g # h /\ b[g] = b[h] => b[g] = Spent
      BY <1>0
    <3>2. b[i] = b[j] /\ b[i] # Spent
      BY <2>1, <2>2
    <3> QED
      BY ONLY i \in Slots, j \in Slots, <3>1, <3>2
  <2> QED
    BY <2>1, <2>2, <2>3, SMTT(40), ZenonT(40)
<1>3. \A k \in 1 .. Len(m), h \in 1 .. n : m[k] # x[h]
  BY <1>1 DEF Apart
<1>4. Distinct(u)
  BY <1>2, <1>3, CatDistinct DEF Apart
<1>5. \A k \in 1 .. Len(u) : (\E h \in 1 .. Len(m) : u[k] = m[h]) \/ (\E h \in 1 .. n : u[k] = x[h])
  <2>1. \A k \in 1 .. Len(u) : (k \in 1 .. Len(m) /\ u[k] = m[k])
                               \/ (\E h \in 1 .. Len(x) : k = Len(m) + h /\ u[k] = x[h])
    BY CatElems
  <2> HIDE DEF u
  <2> SUFFICES ASSUME NEW k \in 1 .. Len(u)
               PROVE  (\E h \in 1 .. Len(m) : u[k] = m[h]) \/ (\E h \in 1 .. n : u[k] = x[h])
    OBVIOUS
  <2>2. CASE k \in 1 .. Len(m) /\ u[k] = m[k]
    BY <2>2
  <2>3. CASE \E h \in 1 .. Len(x) : k = Len(m) + h /\ u[k] = x[h]
    BY <2>3
  <2> QED
    BY <2>1, <2>2, <2>3
<1> HIDE DEF u
<1>6. \A i \in Slots : v[i] = Spent \/ v[i] = b[i]
  OBVIOUS
<1>7. \A k \in 1 .. Len(u) : u[k] < pos /\ u[k] # Spent
  <2>1. \A k \in 1 .. Len(m) : m[k] # Spent
    OBVIOUS
  <2> TAKE k \in 1 .. Len(u)
  <2>2. CASE \E h \in 1 .. Len(m) : u[k] = m[h]
    BY <1>0, <2>1, <2>2
  <2>3. CASE \E h \in 1 .. n : u[k] = x[h]
    <3>1. PICK j \in Slots : u[k] = b[j] /\ b[j] # Spent
      BY <1>1, <2>3
    <3> QED
      BY <1>0, <3>1
  <2> QED
    BY <1>5, <2>2, <2>3
<1>8. \A i \in Slots, k \in 1 .. Len(u) : v[i] # u[k]
  <2> SUFFICES ASSUME NEW i \in Slots, NEW k \in 1 .. Len(u), v[i] = u[k] PROVE FALSE
    OBVIOUS
  <2>1. v[i] = b[i] /\ b[i] # Spent
    BY <1>6, <1>7
  <2>2. CASE \E h \in 1 .. Len(m) : u[k] = m[h]
    <3>1. PICK h \in 1 .. Len(m) : u[k] = m[h]
      BY <2>2
    <3>2. b[i] = m[h]
      BY <2>1, <3>1
    <3> QED
      BY <1>0, <3>2
  <2>3. CASE \E h \in 1 .. n : u[k] = x[h]
    <3>1. PICK j \in Slots : u[k] = b[j] /\ v[j] = Spent
      BY <1>1, <2>3
    <3>2. i = j
      <4>1. \A g, h \in Slots : g # h /\ b[g] = b[h] => b[g] = Spent
        BY <1>0
      <4>2. b[i] = b[j] /\ b[i] # Spent
        BY <2>1, <3>1
      <4> QED
        BY ONLY i \in Slots, j \in Slots, <4>1, <4>2
    <3> QED
      BY <2>1, <3>1, <3>2
  <2> QED
    BY <1>5, <2>2, <2>3
<1>9. \A i \in Slots : v[i] < pos
  <2>1. Spent < pos
    BY DEF Spent
  <2> QED
    BY <1>0, <1>6, <2>1
<1>10. \A i, j \in Slots : i # j /\ v[i] = v[j] => v[i] = Spent
  BY <1>0, <1>6
<1>11. Apart(pos, v, << >>, u)
  BY <1>4, <1>7, <1>8, <1>9, <1>10 DEF Apart, Distinct
<1> QED
  BY <1>11 DEF u

(***************************************************************************)
(* No correlation is drawn or sent twice: the machine's steps keep Apart.  *)
(***************************************************************************)
Masked(s, m) ==
  /\ m \in Seq(Int) /\ \A k \in 1 .. Len(m) : m[k] # Spent
  /\ Apart(Pos(s), s.buf, s.reg, m) /\ Ready(s)

\* A draw takes the next positions, into the register or the buffer.
LEMMA PosCopied ==
  ASSUME NEW s \in Engine, s.pc \in Draws, s.n > 0, To(s.pc) = "buf" => s.n <= CHECK_SZ,
         NEW c, c = Copied(s)
  PROVE  Pos(c) = Pos(s) + Take(s)
<1> DEFINE u == s.used  o == s.off  t == Take(s)  x == u * Batch  y == (u + 1) * Batch
<1>1. /\ c.used = (IF o + t = Batch THEN u + 1 ELSE u)
      /\ c.off  = (IF o + t = Batch THEN 0 ELSE o + t)
  BY CopiedFields
<1>2. x \in Nat /\ y = x + Batch /\ o \in Int /\ t \in Int /\ Batch \in Int
  <2>1. u \in Nat /\ o \in 0 .. Batch - 1 /\ Batch \in Nat
    BY EngineFields, BatchAssumption
  <2>2. t \in Int
    BY TakeFacts
  <2>3. x \in Nat /\ y = x + Batch
    BY <2>1, Products
  <2> HIDE DEF u, o, t, x, y
  <2> QED
    BY <2>1, <2>2, <2>3
<1>3. CASE o + t = Batch
  <2>1. Pos(c) = y + 0
    BY <1>1, <1>3 DEF Pos
  <2> HIDE DEF x, y, t, o
  <2>2. y + 0 = (x + o) + t
    BY <1>2, <1>3
  <2> QED
    BY <2>1, <2>2 DEF Pos, x, o, t
<1>4. CASE o + t # Batch
  <2>1. Pos(c) = x + (o + t)
    BY <1>1, <1>4 DEF Pos
  <2> HIDE DEF x, y, t, o
  <2>2. x + (o + t) = (x + o) + t
    BY <1>2
  <2> QED
    BY <2>1, <2>2 DEF Pos, x, o, t
<1> QED
  BY <1>3, <1>4

LEMMA FilledIs ==
  ASSUME NEW s \in Engine, s.n > 0, NEW w, w = CHECK_SZ - s.n
  PROVE  /\ Filled(s) \in [Slots -> Int] /\ w \in Int
         /\ \A i \in Slots : Filled(s)[i] = IF w <= i /\ i < w + Take(s) THEN Pos(s) + (i - w) ELSE s.buf[i]
<1>1. /\ Take(s) \in 1 .. s.n /\ Pos(s) \in Nat
      /\ \A k \in 1 .. Take(s) : Ids(s)[k] = Pos(s) + k - 1
  BY TakeFacts
<1>2. s.n \in Nat /\ CHECK_SZ \in Nat /\ w \in Int /\ s.buf \in [Slots -> Int]
  BY EngineFields, CheckAssumption DEF Slots
<1>3. ASSUME NEW i \in Slots
      PROVE  /\ Filled(s)[i] = IF w <= i /\ i < w + Take(s) THEN Pos(s) + (i - w) ELSE s.buf[i]
             /\ Filled(s)[i] \in Int
  <2> DEFINE k == i - w + 1
  <2>1. i \in Int /\ k \in Int /\ (k \in 1 .. Take(s) <=> w <= i /\ i < w + Take(s))
    <3>1. i \in Int /\ w \in Int /\ Take(s) \in Int
      BY <1>1, <1>2 DEF Slots
    <3> QED
      BY ONLY <3>1, IntervalShift DEF k
  <2>2. Filled(s)[i] = IF k \in 1 .. Take(s) THEN Ids(s)[k] ELSE s.buf[i]
    BY DEF Filled, Slots
  <2>3. Pos(s) + k - 1 = Pos(s) + (i - w) /\ Pos(s) + (i - w) \in Int
    BY <1>1, <1>2, <2>1
  <2> HIDE DEF k
  <2> QED
    BY <1>1, <1>2, <2>1, <2>2, <2>3
<1>4. Filled(s) = [i \in Slots |-> Filled(s)[i]]
  BY DEF Filled, Slots
<1> QED
  BY <1>2, <1>3, <1>4

LEMMA MaskDraw ==
  ASSUME NEW P, NEW s \in Engine, s.pc \in Draws, PhaseOK(P, s), NEW m, Masked(s, m),
         NEW c, c = Copied(s)
  PROVE  Masked(c, m)
<1> DEFINE t == Take(s)  pos == Pos(s)
<1>1. s.n > 0 /\ (To(s.pc) = "buf" => s.n <= CHECK_SZ)
  BY DEF PhaseOK, To
<1>2. /\ c \in Engine
      /\ c.pc   = (IF t = s.n THEN AfterDraw(s.pc) ELSE s.pc)
      /\ c.n    = (IF t = s.n /\ s.pc = "construct" THEN CHECK_SZ ELSE s.n - t)
      /\ c.reg  = (IF To(s.pc) = "reg" THEN s.reg \o Ids(s) ELSE s.reg)
      /\ c.buf  = (IF To(s.pc) = "buf" THEN Filled(s) ELSE s.buf)
      /\ c.cnt  = (IF To(s.pc) = "buf" THEN 0 ELSE s.cnt)
  BY <1>1, CopiedFields
<1>3. /\ t \in 1 .. s.n /\ pos \in Nat /\ Ids(s) \in Seq(Nat) /\ Len(Ids(s)) = t
      /\ \A k \in 1 .. t : Ids(s)[k] = pos + k - 1
  BY <1>1, TakeFacts
<1>4. Pos(c) = pos + t
  BY <1>1, PosCopied
<1>5. /\ s.buf \in [Slots -> Int] /\ s.reg \in Seq(Int) /\ m \in Seq(Int) /\ s.n \in Nat /\ CHECK_SZ \in Nat
      /\ s.cnt \in Int
  BY EngineFields, CheckAssumption DEF Masked, Slots
<1>6. Apart(pos, s.buf, s.reg, m) /\ Ready(s)
  BY DEF Masked
<1> HIDE DEF t, pos
<1>7. CASE To(s.pc) = "reg"
  <2>1. Apart(pos + t, s.buf, s.reg \o Ids(s), m)
    <3>1. Ids(s) \in Seq(Int) /\ t \in Nat
      BY <1>3
    <3> QED
      BY <1>3, <1>5, <1>6, <3>1, ApartDrawReg
  <2>2. Apart(Pos(c), c.buf, c.reg, m)
    BY <1>2, <1>4, <1>7, <2>1
  <2>3. Ready(c)
    <3>1. CASE c.pc = "first"
      <4>1. s.pc = "construct" /\ t = s.n /\ c.n = CHECK_SZ
        BY <1>2, <1>7, <3>1 DEF To, AfterDraw, Draws
      <4>2. \A i \in Slots : ~(i < CHECK_SZ - CHECK_SZ)
        BY <1>5 DEF Slots
      <4> QED
        BY <3>1, <4>1, <4>2 DEF Ready
    <3>2. CASE c.pc = "construct"
      BY <3>2 DEF Ready
    <3>3. CASE c.pc \notin {"first", "construct"}
      <4>1. s.pc \in {"input", "chal"} /\ c.pc # "fill"
        BY <1>2, <1>7, <3>3 DEF To, AfterDraw, Draws
      <4> QED
        BY <1>2, <1>6, <1>7, <3>3, <4>1 DEF Ready
    <3> QED
      BY <3>1, <3>2, <3>3
  <2> QED
    BY <2>2, <2>3 DEF Masked
<1>8. CASE To(s.pc) = "buf"
  <2> DEFINE w == CHECK_SZ - s.n  v == Filled(s)
  <2>1. /\ v \in [Slots -> Int] /\ w \in Int
        /\ \A i \in Slots : v[i] = IF w <= i /\ i < w + t THEN pos + (i - w) ELSE s.buf[i]
    BY <1>1, FilledIs DEF t, pos
  <2>2. w + t = CHECK_SZ - (s.n - t) /\ s.pc \in {"first", "fill"}
    BY <1>3, <1>5, <1>8 DEF To
  <2> HIDE DEF w, v
  <2>3. Apart(pos + t, v, s.reg, m)
    <3>1. t \in Nat
      BY <1>3
    <3> QED
      BY <1>3, <1>5, <1>6, <2>1, <3>1, ApartDrawBuf, ZenonT(60), SMTT(40)
  <2>4. Apart(Pos(c), c.buf, c.reg, m)
    BY <1>2, <1>4, <1>8, <2>3 DEF v
  <2>5. \A i \in Slots : i < w + t => v[i] # Spent
    <3> SUFFICES ASSUME NEW i \in Slots, i < w + t PROVE v[i] # Spent
      OBVIOUS
    <3>1. i \in Int
      BY DEF Slots
    <3>2. CASE i < w
      BY <1>6, <2>1, <2>2, <3>1, <3>2 DEF Ready, w
    <3>3. CASE w <= i
      <4>1. v[i] = pos + (i - w)
        BY <2>1, <3>3
      <4>2. pos + (i - w) >= 0
        BY <1>3, <2>1, <3>1, <3>3
      <4>3. pos + (i - w) # Spent
        BY <1>3, <2>1, <3>1, <4>2 DEF Spent
      <4> QED
        BY <4>1, <4>3
    <3> QED
      BY <2>1, <3>1, <3>2, <3>3
  <2>6. Ready(c)
    <3>1. CASE t = s.n
      <4>1. c.pc \in {"idle", "d"}
        BY <1>2, <2>2, <3>1 DEF AfterDraw
      <4>2. \A i \in Slots : i < w + t
        BY <1>5, <3>1 DEF Slots, w
      <4> QED
        BY <1>2, <1>8, <2>5, <4>1, <4>2 DEF Ready, v
    <3>2. CASE t # s.n
      <4>1. c.pc = s.pc /\ c.n = s.n - t
        BY <1>2, <3>2
      <4> QED
        BY <1>2, <1>8, <2>2, <2>5, <4>1 DEF Ready, v
    <3> QED
      BY <3>1, <3>2
  <2> QED
    BY <2>4, <2>6 DEF Masked
<1> QED
  BY <1>7, <1>8 DEF To

LEMMA MaskTurn ==
  ASSUME NEW P \in Seq(Operation), NEW s \in Engine, s.pc = "idle", PhaseOK(P, s), NEW m, Masked(s, m),
         NEW c, c = Called(P, s) \/ c = NextTurn(s)
  PROVE  Masked(c, m)
<1>1. /\ c.buf = s.buf /\ c.cnt = s.cnt /\ c.used = s.used /\ c.off = s.off
      /\ c.reg = << >> \/ c.reg = s.reg
      /\ c.pc \notin {"construct", "first", "fill"}
  <2>1. CASE c = Called(P, s)
    <3>1. s.at <= Len(P) + 1 /\ Len(P) \in Nat /\ s.at \in Nat
      BY EngineFields DEF PhaseOK
    <3>2. CASE s.at = Len(P) + 1
      BY <2>1, <3>1, <3>2, CalledFields
    <3>3. CASE s.at <= Len(P)
      <4>1. /\ P[s.at] \in Operation
            /\ c.buf = s.buf /\ c.cnt = s.cnt /\ c.used = s.used /\ c.off = s.off /\ c.reg = << >>
            /\ c.pc = (CASE P[s.at].op = "input"  -> "input"
                           [] P[s.at].op = "mul"    -> IF s.cnt = CHECK_SZ THEN "seed" ELSE "d"
                           [] P[s.at].op = "reveal" -> "val"
                           [] OTHER             -> "idle")
        BY <2>1, <3>1, <3>3, CalledFields
      <4> QED
        BY <4>1
    <3> QED
      BY <3>1, <3>2, <3>3
  <2>2. CASE c = NextTurn(s)
    BY <2>2 DEF NextTurn, Engine
  <2> QED
    BY <2>1, <2>2
<1>2. Pos(c) = Pos(s)
  BY <1>1 DEF Pos
<1>3. Apart(Pos(c), c.buf, c.reg, m)
  <2>1. Apart(Pos(s), s.buf, s.reg, m)
    BY DEF Masked
  <2> QED
    BY <1>1, <1>2, <2>1, ApartDrop
<1>4. Ready(c)
  BY <1>1 DEF Masked, Ready
<1> QED
  BY <1>3, <1>4 DEF Masked

\* A transfer of the prover's: what masks it has masked nothing before.
LEMMA MaskMove ==
  ASSUME NEW P \in Seq(Operation), NEW s \in Engine, s.pc \in What, PhaseOK(P, s),
         NEW m, Masked(s, m), NEW c, c = Moved(P, s),
         NEW x, x = IF s.pc \in {"lam", "sum", "d"} THEN m \o Message(s).corr ELSE m
  PROVE  Masked(c, x)
<1>1. /\ c.used = s.used /\ c.off = s.off /\ c.pc = AfterMove(P, s) /\ c.reg = << >>
      /\ c.n   = (CASE s.pc = "seed" -> 1 [] s.pc = "sum" -> CHECK_SZ [] OTHER -> s.n)
      /\ c.buf = (IF s.pc = "d" THEN Used(s) ELSE s.buf)
      /\ c.cnt = (IF s.pc = "d" THEN s.cnt + Block(s) ELSE s.cnt)
  BY MovedFields
<1>2. Pos(c) = Pos(s)
  BY <1>1 DEF Pos
<1>3. /\ s.buf \in [Slots -> Int] /\ s.reg \in Seq(Nat) /\ m \in Seq(Int) /\ CHECK_SZ \in Nat
      /\ s.cnt \in Nat /\ s.left \in Nat /\ s.used \in Nat /\ s.off \in 0 .. Batch - 1
  BY EngineFields, CheckAssumption DEF Masked, Slots
<1>4. Apart(Pos(s), s.buf, s.reg, m) /\ Ready(s) /\ \A k \in 1 .. Len(m) : m[k] # Spent
  BY DEF Masked
<1>5. Pos(s) \in Nat
  <2> DEFINE u == s.used * Batch  o == s.off
  <2>1. u \in Nat /\ o \in Nat
    BY <1>3, Products, BatchAssumption, SMTT(40), ZenonT(40)
  <2> HIDE DEF u, o
  <2>2. u + o \in Nat
    BY <2>1
  <2> QED
    BY <2>2 DEF Pos, u, o
<1>6. CASE s.pc = "d"
  <2> DEFINE q == Message(s).corr  n == Block(s)  e == s.cnt  b == s.buf  v == Used(s)
  <2>1. n \in Nat /\ n > 0 /\ n <= CHECK_SZ - e /\ e \in Nat
    BY <1>3, <1>6, BlockFacts DEF PhaseOK
  <2>2. q = [k \in 1 .. n |-> b[e + k - 1]]
    BY <1>6 DEF Message
  <2>3. /\ v = [i \in Slots |-> IF i - e \in 0 .. n - 1 THEN Spent ELSE b[i]]
        /\ b \in [Slots -> Int]
    BY <1>3 DEF Used, Slots
  <2>4. /\ c.pc = "idle" /\ c.buf = v /\ c.cnt = e + n /\ c.reg = << >>
        /\ x = m \o q
    BY <1>1, <1>6 DEF AfterMove
  <2>5. \A i \in Slots : i >= e => b[i] # Spent
    BY <1>4, <1>6 DEF Ready
  <2>6. Apart(Pos(s), b, s.reg, m)
    BY <1>4
  <2> HIDE DEF q, n, e, b, v
  <2>7. \A k \in 1 .. n : e + k - 1 \in Slots /\ e + k - 1 >= e
    <3>1. CHECK_SZ \in Nat
      BY CheckAssumption
    <3> QED
      BY ONLY <2>1, <3>1, WithinSlots DEF Slots
  <2>8. q \in Seq(Int) /\ Len(q) = n /\ \A k \in 1 .. n : q[k] = b[e + k - 1] /\ q[k] # Spent
    <3>1. \A k \in 1 .. n : b[e + k - 1] \in Int /\ b[e + k - 1] # Spent
      BY <2>3, <2>5, <2>7
    <3>2. \A k \in 1 .. n : q[k] = b[e + k - 1]
      BY <2>2
    <3>3. q \in [1 .. n -> Int]
      <4> DEFINE f(k) == b[e + k - 1]
      <4>1. q = [k \in 1 .. n |-> f(k)] /\ \A k \in 1 .. n : f(k) \in Int
        BY <2>2, <3>1
      <4> HIDE DEF f
      <4> QED
        BY <4>1
    <3>4. q \in Seq(Int) /\ Len(q) = n
      BY <2>1, <3>3
    <3> QED
      BY <3>1, <3>2, <3>4
  <2>9. /\ v \in [Slots -> Int]
        /\ \A i \in Slots : v[i] = IF i - e \in 0 .. n - 1 THEN Spent ELSE b[i]
    BY <2>3 DEF Spent
  <2>10. Apart(Pos(s), v, << >>, m \o q)
    <3>1. e + n <= CHECK_SZ
      BY <1>3, <2>1
    <3>2. \A k \in 1 .. n : q[k] = b[e + k - 1]
      BY <2>8
    <3>3. m \in Seq(Int) /\ \A k \in 1 .. Len(m) : m[k] # Spent
      BY <1>3, <1>4
    <3> QED
      BY ONLY <1>5, <2>1, <2>3, <2>5, <2>6, <2>8, <2>9, <3>1, <3>2, <3>3, ApartMaskBuf
  <2>11. Ready(c)
    <3>1. \A i \in Slots : i >= e + n => i >= e /\ i - e \notin 0 .. n - 1
      BY <1>3, <2>1 DEF Slots
    <3> QED
      BY <2>4, <2>5, <2>9, <3>1 DEF Ready
  <2>12. m \o q \in Seq(Int) /\ \A k \in 1 .. Len(m \o q) : (m \o q)[k] # Spent
    BY <1>3, <1>4, <2>8, CatElems, SMTT(40), ZenonT(40), Z3T(40)
  <2> QED
    BY <1>2, <2>4, <2>10, <2>11, <2>12 DEF Masked
<1>7. CASE s.pc # "d"
  <2>1. Ready(c)
    <3>1. c.buf = s.buf /\ c.cnt = s.cnt /\ s.pc \notin {"construct", "first", "fill"}
      BY <1>1, <1>7 DEF What
    <3>2. \A i \in Slots : i >= s.cnt => s.buf[i] # Spent
      BY <1>4, <3>1 DEF Ready
    <3>3. CASE c.pc = "fill"
      <4>1. c.n = CHECK_SZ
        BY <1>1, <3>3 DEF AfterMove, What
      <4>2. \A i \in Slots : ~(i < CHECK_SZ - CHECK_SZ)
        BY <1>3 DEF Slots
      <4> QED
        BY <3>3, <4>1, <4>2 DEF Ready
    <3>4. CASE c.pc # "fill"
      <4>1. c.pc \notin {"construct", "first"}
        BY <1>1 DEF AfterMove, What
      <4> QED
        BY <3>1, <3>2, <3>4, <4>1 DEF Ready
    <3> QED
      BY <3>3, <3>4
  <2>2. Apart(Pos(s), s.buf, << >>, m)
    BY <1>4, ApartDrop
  <2>3. CASE s.pc \in {"lam", "sum"}
    <3>1. x = m \o s.reg
      BY <2>3 DEF Message
    <3>2. s.reg \in Seq(Int) /\ \A k \in 1 .. Len(s.reg) : s.reg[k] # Spent
      BY <1>3, SMTT(40), ZenonT(40) DEF Spent
    <3>3. Apart(Pos(s), s.buf, << >>, m \o s.reg)
      BY <1>3, <1>4, <3>2, ApartMaskReg
    <3>4. m \o s.reg \in Seq(Int) /\ \A k \in 1 .. Len(m \o s.reg) : (m \o s.reg)[k] # Spent
      BY <1>3, <1>4, <3>2, CatElems, SMTT(40), ZenonT(40)
    <3> QED
      BY <1>1, <1>2, <1>7, <2>1, <3>1, <3>3, <3>4 DEF Masked
  <2>4. CASE s.pc \notin {"lam", "sum"}
    <3>1. x = m
      BY <1>7, <2>4
    <3> QED
      BY <1>1, <1>2, <1>3, <1>4, <1>7, <2>1, <2>2, <3>1 DEF Masked
  <2> QED
    BY <2>3, <2>4
<1> QED
  BY <1>6, <1>7

(***************************************************************************)
(* The engine of ALICE, the only one that masks what it sends.             *)
(***************************************************************************)
MaskInv ==
  /\ EngineInv
  /\ \E s \in Engine : Sim(ALICE, s) /\ PhaseOK(prog, s) /\ Masked(s, masks)

LEMMA MaskInit == Init => MaskInv
<1> SUFFICES ASSUME Init PROVE MaskInv
  OBVIOUS
<1>1. /\ StreamTypeOK /\ Started \in Engine /\ PhaseOK(prog, Started)
      /\ \A p \in Party : Sim(p, Started)
  BY StartedFacts DEF Party
<1>2. ALICE \in Party
  BY DEF Party
<1>3. Masked(Started, masks)
  <2> DEFINE e == Started
  <2>1. /\ e.pc = "construct" /\ e.reg = << >> /\ e.used = 0 /\ e.off = 0
        /\ \A i \in Slots : e.buf[i] = Spent
    BY DEF Started, Slots
  <2>2. Pos(e) = 0
    <3>1. 0 * Batch = 0
      BY BatchAssumption
    <3> HIDE DEF e
    <3> QED
      BY <2>1, <3>1 DEF Pos
  <2>3. masks = << >> /\ masks \in Seq(Int) /\ Len(masks) = 0
    BY DEF Init
  <2> HIDE DEF e
  <2>4. Len(e.reg) = 0
    BY <2>1
  <2>5. Apart(0, e.buf, e.reg, masks)
    BY <2>1, <2>3, <2>4 DEF Apart, Distinct, Spent
  <2>6. Ready(e)
    BY <2>1 DEF Ready
  <2> QED
    BY <2>2, <2>3, <2>5, <2>6 DEF Masked, e
<1> QED
  BY <1>1, <1>2, <1>3 DEF MaskInv, EngineInv

LEMMA MaskStep == MaskInv /\ [Next]_vars => MaskInv'
<1> SUFFICES ASSUME MaskInv, [Next]_vars PROVE MaskInv'
  OBVIOUS
<1>0. EngineInv'
  <2>1. EngineInv
    BY DEF MaskInv
  <2>2. EngineInv /\ [Next]_vars
    BY <2>1
  <2> QED
    BY ONLY <2>2, EngineStepInv
<1> SUFFICES \E s \in Engine : Sim(ALICE, s)' /\ PhaseOK(prog', s) /\ Masked(s, masks')
  BY <1>0 DEF MaskInv, Masked, PhaseOK
<1>1. PICK s \in Engine : Sim(ALICE, s) /\ PhaseOK(prog, s) /\ Masked(s, masks)
  BY DEF MaskInv
<1>2. StreamTypeOK /\ prog \in Seq(Operation) /\ ALICE \in Party /\ BOB \in Party /\ ALICE # BOB
  BY DEF MaskInv, EngineInv, StreamTypeOK, Party, ALICE, BOB
<1>3. PICK P : P = prog
  OBVIOUS
<1>4. CASE EngineStep(ALICE)
  <2>1. PICK c : c = Succ(P, s)
    OBVIOUS
  <2>2. /\ prog' = prog
        /\ \/ Sim(ALICE, s)' /\ UNCHANGED <<chan, masks>>
           \/ Sim(ALICE, c)' /\ s.pc # "finish" /\ s.pc \notin What /\ UNCHANGED <<chan, masks, visible>>
           \/ Sim(ALICE, c)' /\ s.pc \in What /\ ALICE = Sender(s.pc) /\ DoSend(ALICE)
           \/ Sim(ALICE, c)' /\ s.pc \in What /\ ALICE # Sender(s.pc) /\ DoRecv(ALICE)
    <3>1. PhaseOK(prog, s) /\ Sim(ALICE, s)
      BY <1>1
    <3> QED
      BY <1>2, <1>3, <1>4, <2>1, <3>1, EngineMoves
  <2>3. CASE Sim(ALICE, s)' /\ UNCHANGED <<chan, masks>>
    <3>1. PhaseOK(prog', s) /\ Masked(s, masks')
      BY <1>1, <2>2, <2>3
    <3> QED
      BY <2>3, <3>1
  <2>4. s.pc # "finish" => c \in Engine /\ PhaseOK(prog', c)
    <3>1. s.pc # "finish" => Succ(P, s) \in Engine /\ PhaseOK(P, Succ(P, s))
      BY <1>1, <1>2, <1>3, SuccPhase
    <3> QED
      BY <1>3, <2>1, <2>2, <3>1
  <2>5. CASE Sim(ALICE, c)' /\ s.pc # "finish" /\ s.pc \notin What /\ UNCHANGED <<chan, masks, visible>>
    <3>1. s.pc \in Phases
      BY EngineFields
    <3>2. Masked(c, masks)
      <4>1. CASE s.pc = "idle"
        <5>1. c = Called(P, s) \/ c = NextTurn(s)
          BY <2>1, <4>1 DEF Succ
        <5> QED
          BY <1>1, <1>2, <1>3, <4>1, <5>1, MaskTurn
      <4>2. CASE s.pc \in Draws
        <5>1. c = Copied(s)
          BY <2>1, <4>2 DEF Succ, Draws
        <5> QED
          BY <1>1, <4>2, <5>1, MaskDraw
      <4> QED
        BY <2>5, <3>1, <4>1, <4>2 DEF Phases
    <3>3. Masked(c, masks')
      BY <2>5, <3>2
    <3> QED
      BY <2>4, <2>5, <3>3
  <2>6. s.pc \in What => c = Moved(P, s) /\ s.pc # "finish"
    BY <2>1 DEF Succ, What, Draws
  <2>7. CASE Sim(ALICE, c)' /\ s.pc \in What /\ ALICE = Sender(s.pc) /\ DoSend(ALICE)
    <3>1. At(ALICE, "send") /\ Transfer(ALICE, s.pc) = Message(s) /\ Head(todo[ALICE]).what = s.pc
      <4>1. At(ALICE, "send")
        BY <2>7 DEF DoSend
      <4> QED
        BY <1>1, <1>2, <4>1, TransferIs, SMTT(40), ZenonT(40)
    <3>2. Message(s).what = s.pc
      BY SMTT(40), ZenonT(40) DEF Message
    <3>3. masks' = IF s.pc \in {"lam", "sum", "d"} THEN masks \o Message(s).corr ELSE masks
      BY <2>7, <3>1, <3>2 DEF DoSend
    <3>4. PICK x : x = masks'
      OBVIOUS
    <3>5. PICK m : m = masks
      OBVIOUS
    <3>6. Masked(s, m) /\ x = IF s.pc \in {"lam", "sum", "d"} THEN m \o Message(s).corr ELSE m
      BY <1>1, <3>3, <3>4, <3>5
    <3>7. Masked(c, x)
      BY <1>1, <1>2, <1>3, <2>6, <2>7, <3>6, MaskMove
    <3> QED
      BY <2>4, <2>6, <2>7, <3>4, <3>7
  <2>8. CASE Sim(ALICE, c)' /\ s.pc \in What /\ ALICE # Sender(s.pc) /\ DoRecv(ALICE)
    <3>1. s.pc = "seed"
      BY <2>8 DEF Sender
    <3>2. PICK m : m = masks
      OBVIOUS
    <3>3. masks' = masks
      BY <2>8 DEF DoRecv
    <3>4. Masked(c, m)
      BY <1>1, <1>2, <1>3, <2>6, <2>8, <3>1, <3>2, MaskMove
    <3> QED
      BY <2>4, <2>6, <2>8, <3>2, <3>3, <3>4
  <2> QED
    BY <2>2, <2>3, <2>5, <2>7, <2>8
<1>5. ASSUME Sim(ALICE, s)', prog' = prog, masks' = masks
      PROVE  \E e \in Engine : Sim(ALICE, e)' /\ PhaseOK(prog', e) /\ Masked(e, masks')
  <2>1. PhaseOK(prog', s) /\ Masked(s, masks')
    BY <1>1, <1>5
  <2> QED
    BY <1>5, <2>1
<1>6. CASE EngineStep(BOB)
  <2>1. Sim(ALICE, s)' /\ prog' = prog
    BY <1>1, <1>2, <1>6, OtherEngine, SimFrame
  <2>2. PICK e \in Engine : Sim(BOB, e) /\ PhaseOK(prog, e)
    BY <1>2 DEF MaskInv, EngineInv
  <2>3. UNCHANGED masks \/ (e.pc \in What /\ BOB = Sender(e.pc) /\ DoSend(BOB)) \/ DoRecv(BOB)
    <3>1. PICK c : c = Succ(P, e)
      OBVIOUS
    <3> QED
      BY <1>2, <1>3, <1>6, <2>2, <3>1, EngineMoves
  <2>4. CASE e.pc \in What /\ BOB = Sender(e.pc) /\ DoSend(BOB)
    <3>1. e.pc = "seed"
      BY <1>2, <2>4, SMTT(40), ZenonT(40) DEF Sender
    <3>2. At(BOB, "send")
      BY <2>4 DEF DoSend
    <3>3. Head(todo[BOB]).what = e.pc
      BY <1>2, <2>2, <3>2, TransferIs
    <3>4. masks' = masks
      BY <2>4, <3>1, <3>3 DEF DoSend, Transfer
    <3> QED
      BY <1>5, <2>1, <3>4
  <2>5. DoRecv(BOB) => masks' = masks
    BY DEF DoRecv
  <2> QED
    BY <1>5, <2>1, <2>3, <2>4, <2>5
<1>7. CASE \/ \E p \in Party : ProducerStep(p) \/ SpontaneousWrite(p)
           \/ Terminated
           \/ UNCHANGED vars
  <2>1. UNCHANGED <<prog, at, left, todo, reg, buf, cnt, gates, checked, hash, used, off, hold, masks>>
    BY <1>7, QuietSteps
  <2>2. Sim(ALICE, s)'
    BY <1>1, <1>2, <2>1, QuietKeeps
  <2> QED
    BY <1>5, <2>1, <2>2
<1> QED
  BY <1>4, <1>6, <1>7 DEF Next, Party

\* No correlation masks two values that are sent: an entry of the buffer is
\* spent when its multiplication uses it, what a call has drawn is in no
\* buffer, and a round's entries are drawn once.
THEOREM NoMaskTwice == Spec => []MasksFresh
<1>1. MaskInv => MasksFresh
  <2> SUFFICES ASSUME MaskInv PROVE MasksFresh
    OBVIOUS
  <2>1. masks \in Seq(Int) /\ Distinct(masks)
    BY DEF MaskInv, Masked, Apart
  <2>2. DOMAIN masks = 1 .. Len(masks)
    BY <2>1
  <2> QED
    BY <2>1, <2>2 DEF MasksFresh, IsInjective, Distinct
<1> QED
  BY MaskInit, MaskStep, <1>1, PTL DEF Spec

(***************************************************************************)
(* How far the two parties of the background mode can drift apart.         *)
(***************************************************************************)
\* The background mode has at least one slot.
USE NAssumption

\* The types of the counters behind the drift.
DriftTypeOK ==
  /\ made \in [Party -> Nat] /\ used \in [Party -> Nat] /\ joined \in [Party -> Nat]
  /\ hold \in [Party -> BOOLEAN]
  /\ producer \in [Party -> {"acquire", "round", "exited"}]

DriftInv == DriftTypeOK /\ RoundsInStep

driftVars == <<made, used, joined, hold, producer>>

LEMMA InitInv == Init => DriftInv
BY PeerIsParty DEF Init, DriftInv, DriftTypeOK, RoundsInStep

LEMMA SameCounters == DriftInv /\ UNCHANGED driftVars => DriftInv'
BY DEF DriftInv, DriftTypeOK, RoundsInStep, driftVars

(* The steps of an engine that move its reader.                            *)
LEMMA AcquireReadyStep ==
  ASSUME DriftInv, NEW p \in Party, AcquireReady(p)
  PROVE  DriftInv'
<1>1. /\ made[p] > used[p] /\ hold' = [hold EXCEPT ![p] = TRUE]
      /\ UNCHANGED <<made, used, joined, producer>>
  BY DEF AcquireReady, roundVars
<1> QED
  BY <1>1, PeerIsParty DEF DriftInv, DriftTypeOK, RoundsInStep

LEMMA ReleaseKeeps ==
  ASSUME DriftInv, NEW p \in Party, hold[p],
         used' = [used EXCEPT ![p] = @ + 1], hold' = [hold EXCEPT ![p] = FALSE],
         UNCHANGED <<made, joined, producer>>
  PROVE  DriftInv'
BY PeerIsParty DEF DriftInv, DriftTypeOK, RoundsInStep

LEMMA CopyStep ==
  ASSUME DriftInv, NEW p \in Party, Copy(p)
  PROVE  DriftInv'
<1>1. hold[p] /\ UNCHANGED <<made, joined, producer>>
  BY DEF Copy, roundVars
<1>2. \/ used' = [used EXCEPT ![p] = @ + 1] /\ hold' = [hold EXCEPT ![p] = FALSE]
      \/ UNCHANGED <<used, hold>>
  BY DEF Copy
<1>3. CASE UNCHANGED <<used, hold>>
  BY <1>1, <1>3, SameCounters DEF driftVars
<1> QED
  BY <1>1, <1>2, <1>3, ReleaseKeeps

LEMMA GiveBackStep ==
  ASSUME DriftInv, NEW p \in Party, GiveBack(p)
  PROVE  DriftInv'
BY ReleaseKeeps DEF GiveBack, roundVars

(* The steps of a producer.  A round it enters has a free slot; a round it *)
(* publishes is one the peer's producer has entered too.                   *)
LEMMA EnterRoundStep ==
  ASSUME DriftInv, NEW p \in Party, EnterRound(p)
  PROVE  DriftInv'
<1>1. producer[p] = "acquire" /\ UNCHANGED <<made, used, hold>>
  BY DEF EnterRound, drawVars
<1>2. CASE producer' = [producer EXCEPT ![p] = "exited"] /\ UNCHANGED joined
  BY <1>1, <1>2, PeerIsParty DEF DriftInv, DriftTypeOK, RoundsInStep
<1>3. CASE /\ made[p] - used[p] < N
           /\ producer' = [producer EXCEPT ![p] = "round"]
           /\ joined' = [joined EXCEPT ![p] = @ + 1]
  BY <1>1, <1>3, PeerIsParty DEF DriftInv, DriftTypeOK, RoundsInStep
<1> QED
  BY <1>2, <1>3 DEF EnterRound

LEMMA EndRoundStep ==
  ASSUME DriftInv, NEW p \in Party, EndRound(p)
  PROVE  DriftInv'
<1>1. /\ producer[p] = "round" /\ joined[Peer(p)] >= joined[p]
      /\ made' = [made EXCEPT ![p] = @ + 1]
      /\ producer' = [producer EXCEPT ![p] = "acquire"]
      /\ UNCHANGED <<used, joined, hold>>
  BY SMTT(40), ZenonT(40) DEF EndRound, drawVars
<1> QED
  BY <1>1, PeerIsParty DEF DriftInv, DriftTypeOK, RoundsInStep

(* Everything else leaves the counters alone.                              *)
LEMMA OtherEngineSteps ==
  ASSUME NEW p \in Party,
         \/ Call(p) \/ NextBlock(p) \/ DoFlush(p) \/ FlushBeforeWait(p)
         \/ DoSend(p) \/ DoRecv(p) \/ FinishPipe(p) \/ JoinProducer(p)
  PROVE  UNCHANGED driftVars
BY DEF Call, NextBlock, DoFlush, FlushBeforeWait, DoSend, DoRecv, FinishPipe, JoinProducer,
       driftVars, drawVars, roundVars

LEMMA StepInv == DriftInv /\ [Next]_vars => DriftInv'
<1> SUFFICES ASSUME DriftInv, [Next]_vars PROVE DriftInv'
  OBVIOUS
<1>1. ASSUME NEW p \in Party, EngineStep(p) PROVE DriftInv'
  BY <1>1, AcquireReadyStep, CopyStep, GiveBackStep, OtherEngineSteps, SameCounters
     DEF EngineStep
<1>2. ASSUME NEW p \in Party, ProducerStep(p) PROVE DriftInv'
  BY <1>2, EnterRoundStep, EndRoundStep DEF ProducerStep
<1>3. ASSUME NEW p \in Party, SpontaneousWrite(p) PROVE DriftInv'
  BY <1>3, SameCounters DEF SpontaneousWrite, driftVars, drawVars, roundVars
<1>4. CASE UNCHANGED vars
  BY <1>4, SameCounters DEF vars, driftVars
<1> QED
  BY <1>1, <1>2, <1>3, <1>4 DEF Next, Terminated

\* The round counters of the two parties stay in step: what one party has
\* published the other's producer has entered, and no producer is further
\* ahead of its own engine than its ring has slots.
THEOREM InStep == Spec => []RoundsInStep
<1>1. DriftInv => RoundsInStep
  BY DEF DriftInv
<1> QED
  BY InitInv, StepInv, <1>1, PTL DEF Spec

\* One party's draws never run more than N rounds ahead of the other's: the
\* generation of a round takes both producers (ostriple.h:247-259), whatever
\* the number of slots, the sizes and the program.
THEOREM Drift == Spec => []DriftBounded
<1>1. DriftInv => DriftBounded
  <2> SUFFICES ASSUME DriftInv, NEW p \in Party
               PROVE  used[p] + (IF hold[p] THEN 1 ELSE 0) <= used[Peer(p)] + N
    BY DEF DriftBounded
  <2>1. /\ used[p] + (IF hold[p] THEN 1 ELSE 0) <= made[p]
        /\ made[p] <= joined[Peer(p)]
        /\ joined[Peer(p)] <= used[Peer(p)] + N
    BY PeerIsParty DEF DriftInv, RoundsInStep
  <2>2. /\ used[p] \in Nat /\ made[p] \in Nat
        /\ joined[Peer(p)] \in Nat /\ used[Peer(p)] \in Nat /\ N \in Nat
    BY PeerIsParty DEF DriftInv, DriftTypeOK
  <2> QED
    BY <2>1, <2>2
<1> QED
  BY InitInv, StepInv, <1>1, PTL DEF Spec
=============================================================================
