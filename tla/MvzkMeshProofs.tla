---------------------------- MODULE MvzkMeshProofs ----------------------------
(***************************************************************************)
(* What passes among the verifiers.  First MvzkMesh: their exchanges never *)
(* stall, deliver each message to the exchange it was sent in, cut nobody  *)
(* off, open nothing before all are bound and end in one verdict, for      *)
(* every number of verifiers, every length of the messages, every size of  *)
(* the channels and every modulus.  Then MvzkNVole: it never stalls, and   *)
(* returns the values its tasks have written, for every number of          *)
(* verifiers, of concurrent peers per verifier, and of extends.            *)
(***************************************************************************)
EXTENDS MvzkMesh, MvzkVolePairs, NaturalsInduction, WellFoundedInduction, FiniteSetTheorems, TLAPS

V == INSTANCE MvzkNVole

USE NAssumption, CapAssumption, PiecesAssumption

\* The distance up the ring from i to j.
Dist(i, j) == IF i < j THEN j - i ELSE j + n - i

\* Pieces of its present exchange that i has written to j, and read from j.
Sent(i, j) == IF Dist(i, j) < to[i] THEN Pieces[Kind(i)]
              ELSE IF Dist(i, j) = to[i] THEN part[i] ELSE 0
Rcvd(i, j) == IF Dist(j, i) < from[i] THEN Pieces[Kind(i)]
              ELSE IF Dist(j, i) = from[i] THEN have[i] ELSE 0

Verdicts == {"open", "passed", "failed", "cut", "crashed"}

TypeOK ==
  /\ case \in Cases
  /\ at \in [Verifier -> Nat] /\ \A i \in Verifier : at[i] \in 1 .. Len(Exchanges)
  /\ to \in [Verifier -> 1 .. n] /\ part \in [Verifier -> Nat]
  /\ from \in [Verifier -> 1 .. n] /\ have \in [Verifier -> Nat]
  /\ DOMAIN wire = Verifier /\ \A i \in Verifier : DOMAIN wire[i] = Verifier
  /\ DOMAIN got = Verifier
  /\ \A i \in Verifier : /\ DOMAIN got[i] = Kinds
                         /\ \A k \in Kinds : DOMAIN got[i][k] = Verifier
  /\ DOMAIN deal = Verifier /\ DOMAIN coin = Verifier
  /\ verdict \in [Verifier -> Verdicts]

\* One verifier's own state.
LocalOK ==
  \A i \in Verifier :
    /\ part[i] < Pieces[Kind(i)] /\ (to[i] = n => part[i] = 0)
    /\ have[i] < Pieces[Kind(i)] /\ (from[i] = n => have[i] = 0)
    /\ verdict[i] \in {"passed", "failed"} => to[i] = n /\ from[i] = n
    /\ verdict[i] = "passed" => at[i] = Len(Exchanges)

\* A channel with the pieces w, whose writer is in exchange x and has written s of
\* its pw pieces mw, and whose reader is in exchange y and has read r of pr: mr is
\* what the writer writes in the reader's exchange.
ChannelIs(w, x, y, s, r, pw, pr, mw, mr) ==
  /\ \E S : w \in Seq(S)
  /\ x = y => Len(w) = s - r /\ \A m \in 1 .. Len(w) : w[m] = mw
  /\ x > y => /\ x = y + 1 /\ Len(w) = pr - r + s
              /\ \A m \in 1 .. Len(w) : w[m] = IF m <= pr - r THEN mr ELSE mw
  /\ x < y => y = x + 1 /\ s = pw /\ r = 0 /\ Len(w) = 0

Channel(i, j) ==
  ChannelIs(wire[i][j], at[i], at[j], Sent(i, j), Rcvd(j, i), Pieces[Kind(i)],
            Pieces[Kind(j)], Piece(i, j, Kind(i)), Piece(i, j, Kind(j)))

ChannelsOK == \A i, j \in Verifier : i # j => Channel(i, j)

\* What a verifier in exchange y, with r pieces of it read, has read in exchange x.
HeardIs(pieces, x, y, r, message) ==
  /\ x < y \/ (x = y /\ r > 0) => pieces = {message}
  /\ x > y \/ (x = y /\ r = 0) => pieces = {}

HeardOK ==
  \A i, j \in Verifier : \A x \in 1 .. Len(Exchanges) : i # j =>
    HeardIs(got[i][Exchanges[x]][j], x, at[i], Rcvd(i, j), Piece(j, i, Exchanges[x]))

\* Who ends, and why; behind the echo the digests are known to be the same.
VerdictOK ==
  \A i \in Verifier :
    /\ verdict[i] = "cut" => \E j \in Verifier : verdict[j] = "crashed"
    /\ verdict[i] = "failed" => (at[i] = 1 /\ ~SameDigests) \/ at[i] = Len(Exchanges)
    /\ at[i] > 1 => SameDigests

IInv == TypeOK /\ LocalOK /\ ChannelsOK /\ HeardOK /\ VerdictOK

-----------------------------------------------------------------------------
(* The ring, the exchanges, sequences.                                     *)
LEMMA RingPair ==
  ASSUME NEW i \in Verifier, NEW j \in Verifier, i # j
  PROVE  /\ Dist(i, j) \in 1 .. n - 1
         /\ RingAhead(i, Dist(i, j)) = j /\ RingBehind(j, Dist(i, j)) = i
BY DEF Verifier, Dist, RingAhead, RingBehind

LEMMA RingPeer ==
  ASSUME NEW i \in Verifier, NEW d \in 1 .. n - 1
  PROVE  /\ RingAhead(i, d) \in Verifier /\ RingAhead(i, d) # i
         /\ Dist(i, RingAhead(i, d)) = d
         /\ RingBehind(i, d) \in Verifier /\ RingBehind(i, d) # i
         /\ Dist(RingBehind(i, d), i) = d
BY DEF Verifier, Dist, RingAhead, RingBehind

LEMMA Order ==
  ASSUME case \in Cases
  PROVE  /\ Len(Exchanges) \in Nat /\ Len(Exchanges) > 1
         /\ Exchanges[1] = "echo"
         /\ \A x \in 1 .. Len(Exchanges) :
              /\ Exchanges[x] \in Kinds
              /\ Exchanges[x] = "show" => x > 1 /\ Exchanges[x - 1] = "flip"
              /\ Exchanges[x] = "open" => x = Len(Exchanges)
         /\ \A x, y \in 1 .. Len(Exchanges) :
              /\ Exchanges[x] = Exchanges[y] => x = y
              /\ x <= y /\ Exchanges[y] = "zero" => Exchanges[x] \notin {"com", "open"}
              /\ x <= y /\ Exchanges[y] = "flip" => Exchanges[x] # "show"
<1>1. CASE case.check = "batch"
  <2>1. Exchanges = <<"echo", "vals", "zero", "com", "open">>
    BY <1>1 DEF Exchanges
  <2>2. Len(Exchanges) = 5
    BY <2>1
  <2> QED
    BY <2>1, <2>2 DEF Kinds
<1>2. CASE case.check # "batch"
  <2>1. Exchanges = <<"echo", "flip", "show", "zero", "com", "open">>
    BY <1>2 DEF Exchanges
  <2>2. Len(Exchanges) = 6
    BY <2>1
  <2> QED
    BY <2>1, <2>2 DEF Kinds
<1> QED
  BY <1>1, <1>2

(* What the steps do to a channel.                                         *)
LEMMA Appended ==
  ASSUME NEW w, NEW x \in Nat, NEW y \in Nat, NEW s \in Nat, NEW r \in Nat,
         NEW pw \in Nat, NEW pr \in Nat, NEW mw, NEW mr,
         ChannelIs(w, x, y, s, r, pw, pr, mw, mr), s < pw, r <= pr
  PROVE  ChannelIs(Append(w, mw), x, y, s + 1, r, pw, pr, mw, mr)
<1> DEFINE v == Append(w, mw)
<1>1. PICK S : w \in Seq(S)
  BY DEF ChannelIs
<1>2. /\ \E T : v \in Seq(T)
      /\ Len(w) \in Nat /\ Len(v) = Len(w) + 1
      /\ \A m \in 1 .. Len(w) : v[m] = w[m]
      /\ v[Len(w) + 1] = mw
  <2> DEFINE T == S \cup {mw}
  <2>1. w \in Seq(T) /\ mw \in T
    BY <1>1
  <2> HIDE DEF T
  <2>2. v \in Seq(T)
    BY <2>1
  <2> QED
    BY <2>1, <2>2
<1> HIDE DEF v
<1>3. \A m \in 1 .. Len(v) : m \in 1 .. Len(w) \/ m = Len(w) + 1
  BY <1>2
<1>4. x = y => Len(v) = (s + 1) - r /\ \A m \in 1 .. Len(v) : v[m] = mw
  BY <1>2, <1>3 DEF ChannelIs
<1>5. x > y => /\ x = y + 1 /\ Len(v) = pr - r + (s + 1)
               /\ \A m \in 1 .. Len(v) : v[m] = IF m <= pr - r THEN mr ELSE mw
  <2> SUFFICES ASSUME x > y
               PROVE  /\ x = y + 1 /\ Len(v) = pr - r + (s + 1)
                      /\ \A m \in 1 .. Len(v) : v[m] = IF m <= pr - r THEN mr ELSE mw
    OBVIOUS
  <2>1. /\ x = y + 1 /\ Len(w) = pr - r + s
        /\ \A m \in 1 .. Len(w) : w[m] = IF m <= pr - r THEN mr ELSE mw
    BY DEF ChannelIs
  <2>2. ASSUME NEW m \in 1 .. Len(v) PROVE v[m] = IF m <= pr - r THEN mr ELSE mw
    <3>1. CASE m \in 1 .. Len(w)
      BY <3>1, <1>2, <2>1
    <3>2. CASE m = Len(w) + 1
      BY <3>2, <1>2, <2>1
    <3> QED
      BY <3>1, <3>2, <1>3
  <2> QED
    BY <1>2, <2>1, <2>2
<1> QED
  BY <1>2, <1>4, <1>5 DEF ChannelIs, v

LEMMA Taken ==
  ASSUME NEW w, NEW x \in Nat, NEW y \in Nat, NEW s \in Nat, NEW r \in Nat,
         NEW pw \in Nat, NEW pr \in Nat, NEW mw, NEW mr,
         ChannelIs(w, x, y, s, r, pw, pr, mw, mr), w # << >>, r < pr
  PROVE  /\ ChannelIs(Tail(w), x, y, s, r + 1, pw, pr, mw, mr)
         /\ x >= y /\ Head(w) = IF x = y THEN mw ELSE mr
<1> DEFINE v == Tail(w)
<1>1. PICK S : w \in Seq(S)
  BY DEF ChannelIs
<1>2. /\ \E T : v \in Seq(T)
      /\ Len(w) \in Nat /\ Len(w) > 0 /\ Len(v) = Len(w) - 1 /\ Head(w) = w[1]
      /\ \A m \in 1 .. Len(v) : v[m] = w[m + 1]
  BY <1>1
<1> HIDE DEF v
<1>3. \A m \in 1 .. Len(v) : m + 1 \in 1 .. Len(w)
  BY <1>2
<1>4. x = y => Len(v) = s - (r + 1) /\ \A m \in 1 .. Len(v) : v[m] = mw
  BY <1>2, <1>3 DEF ChannelIs
<1>5. x > y => /\ x = y + 1 /\ Len(v) = pr - (r + 1) + s
               /\ \A m \in 1 .. Len(v) : v[m] = IF m <= pr - (r + 1) THEN mr ELSE mw
  BY <1>2, <1>3 DEF ChannelIs
<1>6. ~(x < y)
  BY <1>2 DEF ChannelIs
<1>7. Head(w) = IF x = y THEN mw ELSE mr
  <2>1. 1 \in 1 .. Len(w) /\ 1 <= pr - r
    BY <1>2
  <2> QED
    BY <2>1, <1>2, <1>6 DEF ChannelIs
<1> QED
  BY <1>2, <1>4, <1>5, <1>6, <1>7 DEF ChannelIs, v

LEMMA WriterEnters ==
  ASSUME NEW w, NEW x \in Nat, NEW y \in Nat, NEW s \in Nat, NEW r \in Nat,
         NEW pw \in Nat, NEW pr \in Nat, NEW mw, NEW mr, NEW qw, NEW nw, NEW nr,
         ChannelIs(w, x, y, s, r, pw, pr, mw, mr), s = pw, x <= y,
         x = y => pw = pr /\ mw = nr
  PROVE  ChannelIs(w, x + 1, y, 0, r, qw, pr, nw, nr)
<1>1. PICK S : w \in Seq(S)
  BY DEF ChannelIs
<1>2. Len(w) \in Nat
  BY <1>1
<1>3. CASE x = y
  BY <1>1, <1>2, <1>3 DEF ChannelIs
<1>4. CASE x < y
  BY <1>1, <1>2, <1>4 DEF ChannelIs
<1> QED
  BY <1>3, <1>4

LEMMA ReaderEnters ==
  ASSUME NEW w, NEW x \in Nat, NEW y \in Nat, NEW s \in Nat, NEW r \in Nat,
         NEW pw \in Nat, NEW pr \in Nat, NEW mw, NEW mr, NEW qr, NEW nr,
         ChannelIs(w, x, y, s, r, pw, pr, mw, mr), r = pr, s <= pw, pr >= 1,
         x = y => pw = pr
  PROVE  ChannelIs(w, x, y + 1, s, 0, pw, qr, mw, nr) /\ x >= y
<1>1. PICK S : w \in Seq(S)
  BY DEF ChannelIs
<1>2. Len(w) \in Nat
  BY <1>1
<1>3. CASE x = y
  BY <1>1, <1>2, <1>3 DEF ChannelIs
<1>4. CASE x > y
  BY <1>1, <1>2, <1>4 DEF ChannelIs
<1>5. ~(x < y)
  BY DEF ChannelIs
<1> QED
  BY <1>3, <1>4, <1>5

(* Quantities of a state that satisfies the invariant.                     *)
LEMMA Amounts ==
  ASSUME IInv, NEW i \in Verifier, NEW j \in Verifier, i # j
  PROVE  /\ at[i] \in Nat /\ at[i] >= 1 /\ at[i] <= Len(Exchanges)
         /\ Kind(i) \in Kinds /\ Pieces[Kind(i)] \in Nat /\ Pieces[Kind(i)] >= 1
         /\ Sent(i, j) \in 0 .. Pieces[Kind(i)] /\ Rcvd(i, j) \in 0 .. Pieces[Kind(i)]
         /\ to[i] = n => Sent(i, j) = Pieces[Kind(i)]
         /\ from[i] = n => Rcvd(i, j) = Pieces[Kind(i)]
         /\ Channel(i, j) /\ Channel(j, i)
<1>1. Len(Exchanges) \in Nat /\ at[i] \in Nat /\ at[i] \in 1 .. Len(Exchanges)
  BY Order DEF IInv, TypeOK
<1>2. Kind(i) \in Kinds
  BY <1>1, Order DEF IInv, TypeOK, Kind
<1>3. Pieces[Kind(i)] \in Nat \ {0}
  BY <1>2
<1>4. /\ Dist(i, j) \in 1 .. n - 1 /\ Dist(j, i) \in 1 .. n - 1
      /\ to[i] \in 1 .. n /\ from[i] \in 1 .. n
      /\ part[i] \in Nat /\ have[i] \in Nat
      /\ part[i] < Pieces[Kind(i)] /\ have[i] < Pieces[Kind(i)]
  BY RingPair DEF IInv, TypeOK, LocalOK
<1>5. Sent(i, j) \in 0 .. Pieces[Kind(i)] /\ Rcvd(i, j) \in 0 .. Pieces[Kind(i)]
  BY <1>3, <1>4 DEF Sent, Rcvd
<1>6. /\ to[i] = n => Sent(i, j) = Pieces[Kind(i)]
      /\ from[i] = n => Rcvd(i, j) = Pieces[Kind(i)]
  BY <1>4 DEF Sent, Rcvd
<1> QED
  BY <1>1, <1>2, <1>3, <1>5, <1>6 DEF IInv, ChannelsOK

LEMMA InitInv == Init => IInv
<1> SUFFICES ASSUME Init PROVE IInv
  OBVIOUS
<1> USE DEF Init
<1>0. /\ case \in Cases /\ Kinds # {} /\ n \in Nat /\ n > 1
      /\ \A i \in Verifier : Kind(i) = "echo"
      /\ Pieces["echo"] \in Nat \ {0}
  BY Order DEF Kind, Kinds
<1>1. TypeOK
  BY <1>0, Order DEF TypeOK, Verdicts
<1>2. LocalOK
  BY <1>0 DEF LocalOK
<1>3. ChannelsOK
  <2> SUFFICES ASSUME NEW i \in Verifier, NEW j \in Verifier, i # j PROVE Channel(i, j)
    BY DEF ChannelsOK
  <2>1. Dist(i, j) \in 1 .. n - 1
    BY RingPair
  <2>2. Sent(i, j) = 0 /\ Rcvd(j, i) = 0
    BY <1>0, <2>1 DEF Sent, Rcvd
  <2>3. wire[i][j] = << >> /\ << >> \in Seq({}) /\ Len(<< >>) = 0
    OBVIOUS
  <2> QED
    BY <2>2, <2>3 DEF Channel, ChannelIs
<1>4. HeardOK
  <2>1. ASSUME NEW i \in Verifier, NEW j \in Verifier, i # j, NEW x \in 1 .. Len(Exchanges)
        PROVE  x >= at[i] /\ Rcvd(i, j) = 0 /\ got[i][Exchanges[x]][j] = {}
    <3>1. Dist(j, i) \in 1 .. n - 1
      BY <2>1, RingPair
    <3>2. Rcvd(i, j) = 0
      BY <1>0, <3>1 DEF Rcvd
    <3>3. Exchanges[x] \in Kinds
      BY <1>0, Order
    <3> QED
      BY <3>2, <3>3, <1>0, Order
  <2>2. \A i \in Verifier : at[i] = 1
    OBVIOUS
  <2> QED
    BY <1>0, <2>1, <2>2, Order DEF HeardOK, HeardIs
<1>5. VerdictOK
  BY DEF VerdictOK
<1> QED
  BY <1>1, <1>2, <1>3, <1>4, <1>5 DEF IInv

(* What a verifier says in an exchange it has come to does not change.     *)
LEMMA ThetaStays ==
  ASSUME NEW i \in Verifier, deal'[i] = deal[i],
         \A j \in Verifier : j # i => got'[i]["zero"][j] = got[i]["zero"][j]
  PROVE  Theta(i)' = Theta(i)
<1> DEFINE f == [j \in Verifier |-> IF j = i THEN q - SumMod(deal[i]) ELSE Heard(i, "zero", j)]
           g == [j \in Verifier |-> IF j = i THEN q - SumMod(deal'[i])
                                   ELSE Value(got'[i]["zero"][j])]
<1>1. g = f
  <2>1. ASSUME NEW j \in Verifier PROVE g[j] = f[j]
    BY DEF Heard
  <2> QED
    BY <2>1
<1>2. Theta(i) = SumMod(f)
  BY DEF Theta
<1>3. Theta(i)' = SumMod(g)
  BY DEF Theta, Heard, SumMod
<1> QED
  BY <1>1, <1>2, <1>3

LEMMA PieceStays ==
  ASSUME NEW i \in Verifier, NEW j \in Verifier, NEW k \in Kinds, case' = case,
         k \in {"flip", "show"} => coin'[i] = coin[i],
         k = "zero" => deal'[i] = deal[i],
         k \in {"com", "open"} =>
           /\ deal'[i] = deal[i]
           /\ \A m \in Verifier : m # i => got'[i]["zero"][m] = got[i]["zero"][m]
  PROVE  Piece(i, j, k)' = Piece(i, j, k)
<1>1. k \in {"com", "open"} => Masked(i)' = Masked(i)
  BY ThetaStays DEF Masked
<1>2. Said(i, j, k)' = Said(i, j, k)
  BY <1>1 DEF Said, Kinds
<1> QED
  BY <1>2 DEF Piece


(* A channel that the step leaves alone.                                   *)
LEMMA Unmoved ==
  ASSUME IInv, NEW i \in Verifier, NEW j \in Verifier, i # j,
         \A m \in Verifier : Kind(m)' = Kind(m),
         at'[i] = at[i], at'[j] = at[j], wire'[i][j] = wire[i][j],
         Sent(i, j)' = Sent(i, j), Rcvd(j, i)' = Rcvd(j, i),
         Piece(i, j, Kind(i))' = Piece(i, j, Kind(i)),
         at[j] <= at[i] => Piece(i, j, Kind(j))' = Piece(i, j, Kind(j))
  PROVE  Channel(i, j)'
<1>1. Channel(i, j)
  BY Amounts
<1>2. at[i] \in Nat /\ at[j] \in Nat
  BY Amounts
<1>3. CASE at[j] <= at[i]
  BY <1>1, <1>3 DEF Channel
<1>4. CASE at[i] < at[j]
  BY <1>1, <1>2, <1>4 DEF Channel, ChannelIs
<1> QED
  BY <1>2, <1>3, <1>4

LEMMA PresentPiece ==
  ASSUME NEW i \in Verifier, NEW j \in Verifier, NEW m \in Verifier, Kind(m)' = Kind(m),
         \A k \in {Kind(m)} : Piece(i, j, k)' = Piece(i, j, k)
  PROVE  Piece(i, j, Kind(m))' = Piece(i, j, Kind(m))
<1>1. PICK k \in {Kind(m)} : TRUE
  OBVIOUS
<1>2. Kind(m)' = k /\ Kind(m) = k
  BY <1>1
<1>3. Piece(i, j, k)' = Piece(i, j, k)
  OBVIOUS
<1> QED
  BY <1>2, <1>3 DEF Piece, Said

LEMMA PlacedPiece ==
  ASSUME NEW i \in Verifier, NEW j \in Verifier, NEW x, Exchanges' = Exchanges,
         \A k \in {Exchanges[x]} : Piece(i, j, k)' = Piece(i, j, k)
  PROVE  Piece(i, j, Exchanges[x])' = Piece(i, j, Exchanges[x])
<1>1. PICK k \in {Exchanges[x]} : TRUE
  OBVIOUS
<1>2. Exchanges'[x] = k /\ Exchanges[x] = k
  BY <1>1
<1>3. Piece(i, j, k)' = Piece(i, j, k)
  OBVIOUS
<1> QED
  BY <1>2, <1>3 DEF Piece, Said

LEMMA WriteStep ==
  ASSUME IInv, NEW a \in Verifier, Write(a)
  PROVE  IInv'
<1>2. to[a] \in 1 .. n - 1
  BY DEF IInv, TypeOK, Write, CanWrite
<1>3. PICK b \in Verifier : b = RingAhead(a, to[a]) /\ b # a /\ Dist(a, b) = to[a]
  BY <1>2, RingPeer
<1>0. /\ case' = case /\ at' = at /\ from' = from /\ have' = have /\ got' = got
      /\ deal' = deal /\ coin' = coin /\ verdict' = verdict
      /\ wire' = [wire EXCEPT ![a][b] = Append(@, Piece(a, b, Kind(a)))]
      /\ verdict[a] = "open" /\ to[a] < n
  BY <1>3 DEF Write, CanWrite
<1>1. Exchanges' = Exchanges /\ \A i \in Verifier : Kind(i)' = Kind(i)
  BY <1>0 DEF Exchanges, Kind
<1>4. \A i, j \in Verifier, k \in Kinds : Piece(i, j, k)' = Piece(i, j, k)
  BY <1>0, PieceStays
<1>5. \A i, j, m \in Verifier : i # j => Piece(i, j, Kind(m))' = Piece(i, j, Kind(m))
  <2> SUFFICES ASSUME NEW i \in Verifier, NEW j \in Verifier, NEW m \in Verifier, i # j
               PROVE  Piece(i, j, Kind(m))' = Piece(i, j, Kind(m))
    OBVIOUS
  <2>1. Kind(m) \in Kinds
    BY Order DEF IInv, TypeOK, Kind
  <2> QED
    BY <2>1, <1>1, <1>4, PresentPiece
<1>6. \A i, j \in Verifier : Rcvd(i, j)' = Rcvd(i, j)
  BY <1>0, <1>1 DEF Rcvd
<1>7. Kind(a) \in Kinds /\ Pieces[Kind(a)] \in Nat \ {0} /\ part[a] \in Nat /\ part[a] < Pieces[Kind(a)]
  BY <1>3, Amounts, SMTT(40), ZenonT(40) DEF IInv, TypeOK, LocalOK
<1>8. \/ /\ part[a] + 1 = Pieces[Kind(a)]
         /\ to' = [to EXCEPT ![a] = @ + 1] /\ part' = [part EXCEPT ![a] = 0]
      \/ /\ part[a] + 1 # Pieces[Kind(a)]
         /\ to' = to /\ part' = [part EXCEPT ![a] = @ + 1]
  BY DEF Write
<1>9. to' \in [Verifier -> 1 .. n] /\ part' \in [Verifier -> Nat]
  <2>1. to \in [Verifier -> 1 .. n] /\ part \in [Verifier -> Nat] /\ to[a] + 1 \in 1 .. n
    BY <1>2, SMTT(40), ZenonT(40), Z3T(40) DEF IInv, TypeOK
  <2> QED
    BY <2>1, <1>7, <1>8
<1>10. \A i \in Verifier : i # a => to'[i] = to[i] /\ part'[i] = part[i]
  BY <1>8, ZenonT(60), SMTT(40) DEF IInv, TypeOK
<1>11. \/ to'[a] = to[a] + 1 /\ part'[a] = 0 /\ part[a] + 1 = Pieces[Kind(a)]
       \/ to'[a] = to[a] /\ part'[a] = part[a] + 1 /\ part'[a] < Pieces[Kind(a)]
  BY <1>7, <1>8, SMTT(40), ZenonT(40) DEF IInv, TypeOK
<1>12. Sent(a, b)' = Sent(a, b) + 1 /\ Sent(a, b) < Pieces[Kind(a)]
  BY <1>1, <1>2, <1>3, <1>7, <1>11 DEF Sent
<1>13. \A i, j \in Verifier : i # j /\ (i # a \/ j # b) => Sent(i, j)' = Sent(i, j)
  <2>1. ASSUME NEW i \in Verifier, NEW j \in Verifier, i # a PROVE Sent(i, j)' = Sent(i, j)
    BY <2>1, <1>1, <1>10 DEF Sent
  <2>2. ASSUME NEW j \in Verifier, a # j, j # b PROVE Sent(a, j)' = Sent(a, j)
    <3>1. Dist(a, j) \in 1 .. n - 1 /\ Dist(a, j) # to[a]
      BY <2>2, <1>3, RingPair
    <3> QED
      BY <3>1, <1>1, <1>2, <1>7, <1>11 DEF Sent
  <2> QED
    BY <2>1, <2>2
<1>14. /\ DOMAIN wire' = Verifier /\ \A i \in Verifier : DOMAIN wire'[i] = Verifier
       /\ \A i, j \in Verifier : (i # a \/ j # b) => wire'[i][j] = wire[i][j]
       /\ wire'[a][b] = Append(wire[a][b], Piece(a, b, Kind(a)))
  BY <1>0, <1>3, SMTT(40), ZenonT(40) DEF IInv, TypeOK
<1>15. TypeOK'
  <2>1. TypeOK
    BY DEF IInv
  <2>2. DOMAIN wire' = Verifier /\ \A i \in Verifier : DOMAIN wire'[i] = Verifier
    BY <1>14
  <2>3. UNCHANGED <<case, at, from, have, got, deal, coin, verdict>>
    BY <1>0
  <2> QED
    BY <2>1, <2>2, <2>3, <1>1, <1>9, ZenonT(60), SMTT(40) DEF TypeOK
<1>16. LocalOK'
  BY <1>0, <1>1, <1>2, <1>7, <1>10, <1>11, SMTT(40), ZenonT(40) DEF IInv, LocalOK
<1>17. ChannelsOK'
  <2>1. ASSUME NEW i \in Verifier, NEW j \in Verifier, i # j, i # a \/ j # b
        PROVE  Channel(i, j)'
    BY <2>1, <1>0, <1>1, <1>5, <1>6, <1>13, <1>14, Unmoved
  <2>2. Channel(a, b)'
    <3>1. /\ Channel(a, b) /\ at[a] \in Nat /\ at[b] \in Nat
          /\ Sent(a, b) \in Nat /\ Rcvd(b, a) \in 0 .. Pieces[Kind(b)] /\ Pieces[Kind(b)] \in Nat
      BY <1>3, Amounts
    <3>2. ChannelIs(Append(wire[a][b], Piece(a, b, Kind(a))), at[a], at[b], Sent(a, b) + 1,
                    Rcvd(b, a), Pieces[Kind(a)], Pieces[Kind(b)], Piece(a, b, Kind(a)),
                    Piece(a, b, Kind(b)))
      BY <3>1, <1>7, <1>12, Appended DEF Channel
    <3> QED
      BY <3>2, <1>0, <1>1, <1>3, <1>5, <1>6, <1>12, <1>14 DEF Channel
  <2> QED
    BY <2>1, <2>2 DEF ChannelsOK
<1>18. HeardOK'
  <2>1. \A x \in 1 .. Len(Exchanges) : Exchanges[x] \in Kinds
    BY Order DEF IInv, TypeOK
  <2>2. ASSUME NEW i \in Verifier, NEW j \in Verifier, NEW x \in 1 .. Len(Exchanges)
        PROVE  Piece(j, i, Exchanges[x])' = Piece(j, i, Exchanges[x])
    BY <2>1, <1>0, <1>1, PlacedPiece, <1>4
  <2> QED
    BY <2>2, <1>0, <1>1, <1>6 DEF IInv, HeardOK
<1>19. VerdictOK'
  BY <1>0, <1>1 DEF IInv, VerdictOK, SameDigests
<1> QED
  BY <1>15, <1>16, <1>17, <1>18, <1>19 DEF IInv

(* What was heard is something its sender has come to.                     *)
LEMMA Placed ==
  ASSUME IInv, NEW i \in Verifier
  PROVE  /\ Len(Exchanges) \in Nat /\ at[i] \in Nat /\ at[i] \in 1 .. Len(Exchanges)
         /\ \A x \in 1 .. Len(Exchanges) : x \in Nat
<1>1. Len(Exchanges) \in Nat
  BY Order DEF IInv, TypeOK
<1> QED
  BY <1>1 DEF IInv, TypeOK

LEMMA HeardWasSaid ==
  ASSUME IInv, NEW i \in Verifier, NEW j \in Verifier, i # j, NEW x \in 1 .. Len(Exchanges),
         x < at[i] \/ (x = at[i] /\ Rcvd(i, j) > 0)
  PROVE  x <= at[j]
<1>1. Channel(j, i) /\ at[i] \in Nat /\ at[j] \in Nat /\ x \in Nat
  BY Placed DEF IInv, ChannelsOK
<1>2. at[j] < at[i] => at[i] = at[j] + 1 /\ Rcvd(i, j) = 0
  BY <1>1 DEF Channel, ChannelIs
<1> QED
  BY <1>1, <1>2

LEMMA HeardStays ==
  ASSUME NEW g, NEW x \in Nat, NEW y \in Nat, NEW r \in Nat, NEW m, NEW new,
         HeardIs(g, x, y, r, m), x < y \/ (x = y /\ r > 0) => new = m
  PROVE  HeardIs(g, x, y, r, new)
BY DEF HeardIs

(* All of a step's obligations that concern pieces said before.            *)
LEMMA HeardElsewhere ==
  ASSUME IInv, NEW i \in Verifier, NEW j \in Verifier, i # j, NEW x \in 1 .. Len(Exchanges),
         Exchanges' = Exchanges, at'[i] = at[i], Rcvd(i, j)' = Rcvd(i, j),
         got'[i][Exchanges[x]][j] = got[i][Exchanges[x]][j],
         x <= at[j] => Piece(j, i, Exchanges[x])' = Piece(j, i, Exchanges[x])
  PROVE  HeardIs(got'[i][Exchanges[x]][j], x, at'[i], Rcvd(i, j)', Piece(j, i, Exchanges[x])')
<1>1. HeardIs(got[i][Exchanges[x]][j], x, at[i], Rcvd(i, j), Piece(j, i, Exchanges[x]))
  BY DEF IInv, HeardOK
<1>2. x \in Nat /\ at[i] \in Nat /\ Rcvd(i, j) \in Nat
  <2>1. Rcvd(i, j) \in Nat
    BY Amounts
  <2> QED
    BY <2>1, Placed
<1>3. x < at[i] \/ (x = at[i] /\ Rcvd(i, j) > 0) =>
        Piece(j, i, Exchanges[x])' = Piece(j, i, Exchanges[x])
  BY HeardWasSaid
<1>4. PICK new : new = Piece(j, i, Exchanges[x])'
  OBVIOUS
<1>5. HeardIs(got[i][Exchanges[x]][j], x, at[i], Rcvd(i, j), new)
  BY <1>1, <1>2, <1>3, <1>4, HeardStays
<1> QED
  BY <1>4, <1>5

LEMMA ReadStep ==
  ASSUME IInv, NEW a \in Verifier, Read(a)
  PROVE  IInv'
<1>2. from[a] \in 1 .. n - 1
  BY DEF IInv, TypeOK, Read, CanRead
<1>3. PICK b \in Verifier : b = RingBehind(a, from[a]) /\ b # a /\ Dist(b, a) = from[a]
  BY <1>2, RingPeer
<1>0. /\ case' = case /\ at' = at /\ to' = to /\ part' = part
      /\ deal' = deal /\ coin' = coin /\ verdict' = verdict
      /\ wire' = [wire EXCEPT ![b][a] = Tail(@)] /\ wire[b][a] # << >>
      /\ got' = [got EXCEPT ![a][Kind(a)][b] = @ \cup {Head(wire[b][a])}]
  BY <1>3 DEF Read, CanRead
<1>1. Exchanges' = Exchanges /\ \A i \in Verifier : Kind(i)' = Kind(i)
  BY <1>0 DEF Exchanges, Kind
<1>4. /\ \A i \in Verifier : Kind(i) \in Kinds /\ at[i] \in 1 .. Len(Exchanges)
      /\ Len(Exchanges) \in Nat /\ \A x \in 1 .. Len(Exchanges) : Exchanges[x] \in Kinds
  BY Order, SMTT(40), ZenonT(40) DEF IInv, TypeOK, Kind
<1>5. /\ DOMAIN got' = Verifier
      /\ \A i \in Verifier : /\ DOMAIN got'[i] = Kinds
                             /\ \A k \in Kinds : DOMAIN got'[i][k] = Verifier
      /\ got'[a][Kind(a)][b] = got[a][Kind(a)][b] \cup {Head(wire[b][a])}
      /\ \A i, j \in Verifier, k \in Kinds : (i # a \/ k # Kind(a) \/ j # b) =>
           got'[i][k][j] = got[i][k][j]
  <2>1. /\ DOMAIN got = Verifier /\ Kind(a) \in Kinds
        /\ \A i \in Verifier : /\ DOMAIN got[i] = Kinds
                               /\ \A k \in Kinds : DOMAIN got[i][k] = Verifier
    BY <1>4 DEF IInv, TypeOK
  <2> QED
    BY <2>1, <1>0, <1>3
<1>6. \A i, j \in Verifier, x \in 1 .. Len(Exchanges) : x <= at[i] =>
        Piece(i, j, Exchanges[x])' = Piece(i, j, Exchanges[x])
  <2> SUFFICES ASSUME NEW i \in Verifier, NEW j \in Verifier, NEW x \in 1 .. Len(Exchanges),
                      x <= at[i]
               PROVE  Piece(i, j, Exchanges[x])' = Piece(i, j, Exchanges[x])
    OBVIOUS
  <2>1. Exchanges[x] \in {"com", "open"} /\ i = a => Kind(a) # "zero"
    BY <1>4, Order DEF IInv, TypeOK, Kind
  <2>2. Exchanges[x] \in {"com", "open"} =>
          \A m \in Verifier : got'[i]["zero"][m] = got[i]["zero"][m]
    BY <2>1, <1>5 DEF Kinds
  <2>3. ASSUME NEW k \in Kinds, k = Exchanges[x] PROVE Piece(i, j, k)' = Piece(i, j, k)
    BY <2>2, <2>3, <1>0, PieceStays, ZenonT(60), SMTT(40), Z3T(40)
  <2> QED
    BY <2>3, <1>1, <1>4, PlacedPiece
<1>7. \A i, j, m \in Verifier : at[m] <= at[i] =>
        Piece(i, j, Kind(m))' = Piece(i, j, Kind(m))
  BY <1>0, <1>1, <1>4, <1>6 DEF Kind
<1>8. \A i, j \in Verifier : Sent(i, j)' = Sent(i, j)
  BY <1>0, <1>1 DEF Sent
<1>9. Pieces[Kind(a)] \in Nat \ {0} /\ have[a] \in Nat /\ have[a] < Pieces[Kind(a)]
  BY <1>3, Amounts, ZenonT(60), SMTT(40) DEF IInv, TypeOK, LocalOK
<1>10. \/ /\ have[a] + 1 = Pieces[Kind(a)]
          /\ from' = [from EXCEPT ![a] = @ + 1] /\ have' = [have EXCEPT ![a] = 0]
       \/ /\ have[a] + 1 # Pieces[Kind(a)]
          /\ from' = from /\ have' = [have EXCEPT ![a] = @ + 1]
  BY DEF Read, Expected
<1>11. from' \in [Verifier -> 1 .. n] /\ have' \in [Verifier -> Nat]
  <2>1. from \in [Verifier -> 1 .. n] /\ have \in [Verifier -> Nat] /\ from[a] + 1 \in 1 .. n
    BY <1>2, SMTT(40), ZenonT(40), Z3T(40) DEF IInv, TypeOK
  <2> QED
    BY <2>1, <1>9, <1>10
<1>12. \A i \in Verifier : i # a => from'[i] = from[i] /\ have'[i] = have[i]
  BY <1>10, ZenonT(60), SMTT(40) DEF IInv, TypeOK
<1>13. \/ from'[a] = from[a] + 1 /\ have'[a] = 0 /\ have[a] + 1 = Pieces[Kind(a)]
       \/ from'[a] = from[a] /\ have'[a] = have[a] + 1 /\ have'[a] < Pieces[Kind(a)]
  BY <1>9, <1>10, SMTT(40), ZenonT(40) DEF IInv, TypeOK
<1>14. Rcvd(a, b)' = Rcvd(a, b) + 1 /\ Rcvd(a, b) < Pieces[Kind(a)]
  BY <1>1, <1>2, <1>3, <1>9, <1>13 DEF Rcvd
<1>15. \A i, j \in Verifier : i # j /\ (i # a \/ j # b) => Rcvd(i, j)' = Rcvd(i, j)
  <2>1. ASSUME NEW i \in Verifier, NEW j \in Verifier, i # a PROVE Rcvd(i, j)' = Rcvd(i, j)
    BY <2>1, <1>1, <1>12 DEF Rcvd
  <2>2. ASSUME NEW j \in Verifier, a # j, j # b PROVE Rcvd(a, j)' = Rcvd(a, j)
    <3>1. Dist(j, a) \in 1 .. n - 1 /\ Dist(j, a) # from[a]
      BY <2>2, <1>3, RingPair
    <3> QED
      BY <3>1, <1>1, <1>2, <1>9, <1>13 DEF Rcvd
  <2> QED
    BY <2>1, <2>2
<1>16. /\ DOMAIN wire' = Verifier /\ \A i \in Verifier : DOMAIN wire'[i] = Verifier
       /\ \A i, j \in Verifier : (i # b \/ j # a) => wire'[i][j] = wire[i][j]
       /\ wire'[b][a] = Tail(wire[b][a])
  BY <1>0, <1>3 DEF IInv, TypeOK
<1>17. TypeOK'
  <2>1. TypeOK
    BY DEF IInv
  <2> QED
    BY <2>1, <1>0, <1>1, <1>5, <1>11, <1>16, SMTT(40), ZenonT(40) DEF TypeOK
<1>18. LocalOK'
  BY <1>0, <1>1, <1>2, <1>9, <1>12, <1>13 DEF IInv, LocalOK, Read, CanRead
<1>19. /\ ChannelIs(Tail(wire[b][a]), at[b], at[a], Sent(b, a), Rcvd(a, b) + 1, Pieces[Kind(b)],
                    Pieces[Kind(a)], Piece(b, a, Kind(b)), Piece(b, a, Kind(a)))
       /\ at[b] >= at[a] /\ Head(wire[b][a]) = Piece(b, a, Kind(a))
  <2>1. /\ Channel(b, a) /\ at[a] \in Nat /\ at[b] \in Nat
        /\ Sent(b, a) \in Nat /\ Rcvd(a, b) \in Nat /\ Pieces[Kind(b)] \in Nat
    BY <1>3, Amounts
  <2>2. at[a] = at[b] => Kind(a) = Kind(b)
    BY DEF Kind
  <2> QED
    BY <2>1, <2>2, <1>0, <1>9, <1>14, Taken DEF Channel
<1>20. ChannelsOK'
  <2>1. ASSUME NEW i \in Verifier, NEW j \in Verifier, i # j, i # b \/ j # a
        PROVE  Channel(i, j)'
    <3>1. at[i] <= at[i]
      BY <1>4
    <3> QED
      BY <2>1, <3>1, <1>0, <1>1, <1>7, <1>8, <1>15, <1>16, Unmoved
  <2>2. Channel(b, a)'
    <3>1. at[b] <= at[b] /\ at[a] <= at[b]
      BY <1>4, <1>19
    <3>2. /\ Piece(b, a, Kind(b))' = Piece(b, a, Kind(b))
          /\ Piece(b, a, Kind(a))' = Piece(b, a, Kind(a))
      BY <3>1, <1>7
    <3> QED
      BY <3>2, <1>0, <1>1, <1>3, <1>8, <1>14, <1>16, <1>19 DEF Channel
  <2> QED
    BY <2>1, <2>2 DEF ChannelsOK
<1>21. HeardOK'
  <2> SUFFICES ASSUME NEW i \in Verifier, NEW j \in Verifier, NEW x \in 1 .. Len(Exchanges), i # j
               PROVE  HeardIs(got'[i][Exchanges[x]][j], x, at'[i], Rcvd(i, j)',
                              Piece(j, i, Exchanges[x])')
    BY <1>1 DEF HeardOK
  <2>1. CASE i # a \/ j # b
    <3>1. got'[i][Exchanges[x]][j] = got[i][Exchanges[x]][j]
      BY <2>1, <1>4, <1>5
    <3>2. Rcvd(i, j)' = Rcvd(i, j) /\ at'[i] = at[i]
      BY <2>1, <1>0, <1>15
    <3>3. x <= at[j] => Piece(j, i, Exchanges[x])' = Piece(j, i, Exchanges[x])
      BY <1>6
    <3> QED
      BY <3>1, <3>2, <3>3, <1>1, HeardElsewhere
  <2>2. CASE i = a /\ j = b /\ x # at[a]
    <3>1. HeardIs(got[a][Exchanges[x]][b], x, at[a], Rcvd(a, b), Piece(b, a, Exchanges[x]))
      BY <2>2, <1>3 DEF IInv, HeardOK
    <3>2. Exchanges[x] # Kind(a)
      BY <2>2, <1>4, Order, SMTT(40), ZenonT(40) DEF IInv, TypeOK, Kind
    <3>3. x < at[a] => Piece(b, a, Exchanges[x])' = Piece(b, a, Exchanges[x])
      BY <1>4, <1>6, <1>19
    <3>4. got'[a][Exchanges[x]][b] = got[a][Exchanges[x]][b]
      BY <3>2, <1>4, <1>5
    <3> QED
      BY <3>1, <3>3, <3>4, <2>2, <1>0, SMTT(40), ZenonT(40), Z3T(40) DEF HeardIs
  <2>3. CASE i = a /\ j = b /\ x = at[a]
    <3>1. HeardIs(got[a][Kind(a)][b], x, at[a], Rcvd(a, b), Piece(b, a, Kind(a)))
      BY <2>3, <1>3 DEF IInv, HeardOK, Kind
    <3>2. Rcvd(a, b) \in Nat
      BY <1>3, Amounts
    <3>3. got'[a][Kind(a)][b] = {Piece(b, a, Kind(a))}
      BY <3>1, <3>2, <2>3, <1>5, <1>19 DEF HeardIs
    <3>4. Piece(b, a, Exchanges[x])' = Piece(b, a, Kind(a))
      BY <2>3, <1>6, <1>19 DEF Kind
    <3> QED
      BY <3>2, <3>3, <3>4, <2>3, <1>0, <1>1, <1>14, SMTT(40), ZenonT(40), Z3T(40) DEF HeardIs, Kind
  <2> QED
    BY <2>1, <2>2, <2>3
<1>22. VerdictOK'
  BY <1>0, <1>1 DEF IInv, VerdictOK, SameDigests
<1> QED
  BY <1>17, <1>18, <1>20, <1>21, <1>22 DEF IInv

(* A verifier ends: only its verdict changes.                              *)
LEMMA EndStep ==
  ASSUME IInv, NEW a \in Verifier, NEW v \in Verdicts, verdict' = [verdict EXCEPT ![a] = v],
         UNCHANGED <<case, at, to, part, from, have, wire, got, deal, coin>>,
         v \in {"passed", "failed"} => to[a] = n /\ from[a] = n,
         v = "passed" => at[a] = Len(Exchanges), VerdictOK'
  PROVE  IInv'
<1>1. Exchanges' = Exchanges /\ \A i \in Verifier : Kind(i)' = Kind(i)
  BY DEF Exchanges, Kind
<1>2. /\ verdict' \in [Verifier -> Verdicts] /\ verdict'[a] = v
      /\ \A i \in Verifier : i # a => verdict'[i] = verdict[i]
  BY DEF IInv, TypeOK
<1>3. TypeOK'
  BY <1>1, <1>2 DEF IInv, TypeOK
<1>4. LocalOK'
  BY <1>1, <1>2 DEF IInv, LocalOK
<1>5. \A i, j \in Verifier, k \in Kinds : Piece(i, j, k)' = Piece(i, j, k)
  BY PieceStays
<1>7. \A i, j \in Verifier : Sent(i, j)' = Sent(i, j) /\ Rcvd(i, j)' = Rcvd(i, j)
  BY <1>1 DEF Sent, Rcvd
<1>8. ASSUME NEW i \in Verifier, NEW j \in Verifier, NEW x \in 1 .. Len(Exchanges)
      PROVE  Piece(i, j, Exchanges[x])' = Piece(i, j, Exchanges[x])
  <2>1. Exchanges[x] \in Kinds
    BY Order DEF IInv, TypeOK
  <2> QED
    BY <2>1, <1>1, <1>5, PlacedPiece
<1>9. \A i, j, m \in Verifier : Piece(i, j, Kind(m))' = Piece(i, j, Kind(m))
  BY <1>8 DEF Kind, IInv, TypeOK
<1>10. ChannelsOK'
  BY <1>1, <1>7, <1>9, Unmoved DEF ChannelsOK
<1>11. HeardOK'
  BY <1>1, <1>7, <1>8, HeardElsewhere DEF HeardOK
<1> QED
  BY <1>3, <1>4, <1>10, <1>11 DEF IInv

(* What a verifier knows when an exchange ends.                            *)
LEMMA Known ==
  ASSUME IInv, NEW i \in Verifier, NEW j \in Verifier, i # j, from[i] = n
  PROVE  /\ at[j] >= at[i]
         /\ \A x \in 1 .. at[i] : /\ got[i][Exchanges[x]][j] = {Piece(j, i, Exchanges[x])}
                                  /\ Heard(i, Exchanges[x], j) = Said(j, i, Exchanges[x])
<1>1. /\ Rcvd(i, j) > 0 /\ at[i] \in 1 .. Len(Exchanges) /\ at[j] \in Nat
      /\ Len(Exchanges) \in Nat
  <2>1. Rcvd(i, j) > 0
    BY Amounts
  <2> QED
    BY <2>1, Placed
<1>2. at[j] >= at[i]
  BY <1>1, HeardWasSaid
<1>3. ASSUME NEW x \in 1 .. at[i]
      PROVE  /\ got[i][Exchanges[x]][j] = {Piece(j, i, Exchanges[x])}
             /\ Heard(i, Exchanges[x], j) = Said(j, i, Exchanges[x])
  <2>1. x \in 1 .. Len(Exchanges) /\ (x < at[i] \/ x = at[i])
    BY <1>1
  <2>2. got[i][Exchanges[x]][j] = {Piece(j, i, Exchanges[x])}
    BY <1>1, <2>1 DEF IInv, HeardOK, HeardIs
  <2>3. Heard(i, Exchanges[x], j) = Piece(j, i, Exchanges[x]).v
    BY <2>2 DEF Heard, Value
  <2> QED
    BY <2>2, <2>3 DEF Piece
<1> QED
  BY <1>2, <1>3

(* A check fails at the echo of digests that differ, or at the end.        *)
LEMMA Failing ==
  ASSUME IInv, NEW i \in Verifier, Joined(i)
  PROVE  /\ Fails(i) => (at[i] = 1 /\ ~SameDigests) \/ at[i] = Len(Exchanges)
         /\ at[i] = 1 /\ ~Fails(i) => SameDigests
<1>1. from[i] = n /\ at[i] \in 1 .. Len(Exchanges) /\ Len(Exchanges) \in Nat
  BY Order DEF Joined, IInv, TypeOK
<1>2. Kind(i) = "echo" <=> at[i] = 1
  BY <1>1, Order DEF Kind, IInv, TypeOK
<1>3. at[i] = 1 => \A j \in Peers(i) : Heard(i, "echo", j) = case.digest[j]
  BY <1>1, <1>2, Known DEF Peers, Said, Kind
<1>4. Kind(i) = "show" => \A j \in Peers(i) : Heard(i, "show", j) = Heard(i, "flip", j)
  <2> SUFFICES ASSUME Kind(i) = "show", NEW j \in Peers(i)
               PROVE  Heard(i, "show", j) = Heard(i, "flip", j)
    OBVIOUS
  <2>1. at[i] - 1 \in 1 .. at[i] /\ at[i] \in 1 .. at[i] /\ Exchanges[at[i] - 1] = "flip"
    BY <1>1, Order, SMTT(40), ZenonT(40) DEF Kind, IInv, TypeOK
  <2>2. Heard(i, "show", j) = Said(j, i, "show") /\ Heard(i, "flip", j) = Said(j, i, "flip")
    BY <1>1, <2>1, Known DEF Peers, Kind
  <2> QED
    BY <2>2 DEF Said
<1>5. Kind(i) = "open" => at[i] = Len(Exchanges)
  BY <1>1, Order DEF Kind, IInv, TypeOK
<1>6. at[i] = 1 => (Fails(i) <=> \E j \in Peers(i) : case.digest[j] # case.digest[i])
  BY <1>2, <1>3 DEF Fails
<1>7. (\E j \in Peers(i) : case.digest[j] # case.digest[i]) <=> ~SameDigests
  BY DEF SameDigests, Peers
<1> QED
  BY <1>2, <1>4, <1>5, <1>6, <1>7 DEF Fails

(* The next exchange begins.                                               *)
LEMMA EnterStep ==
  ASSUME IInv, NEW a \in Verifier, Judge(a), ~Fails(a), at[a] # Len(Exchanges)
  PROVE  IInv'
<1>1. /\ case' = case /\ part' = part /\ have' = have /\ wire' = wire /\ got' = got
      /\ verdict' = verdict /\ at' = [at EXCEPT ![a] = @ + 1]
      /\ to' = [to EXCEPT ![a] = 1] /\ from' = [from EXCEPT ![a] = 1]
      /\ Draw(a, Exchanges[at[a] + 1]) /\ verdict[a] = "open" /\ Joined(a)
  BY DEF Judge, CanJudge
<1>2. Exchanges' = Exchanges
  BY <1>1 DEF Exchanges
<1>3. /\ Len(Exchanges) \in Nat /\ at[a] \in 1 .. Len(Exchanges)
      /\ at[a] + 1 \in 1 .. Len(Exchanges)
      /\ \A x \in 1 .. Len(Exchanges) : Exchanges[x] \in Kinds
  BY Order DEF IInv, TypeOK
<1>4. /\ at' \in [Verifier -> Nat] /\ to' \in [Verifier -> 1 .. n] /\ from' \in [Verifier -> 1 .. n]
      /\ at'[a] = at[a] + 1 /\ to'[a] = 1 /\ from'[a] = 1
      /\ \A i \in Verifier : i # a => at'[i] = at[i] /\ to'[i] = to[i] /\ from'[i] = from[i]
  BY <1>1, <1>3, SMTT(40), ZenonT(40) DEF IInv, TypeOK
<1>5. Kind(a)' = Exchanges[at[a] + 1] /\ \A i \in Verifier : i # a => Kind(i)' = Kind(i)
  BY <1>2, <1>4 DEF Kind
<1>6. /\ to[a] = n /\ from[a] = n /\ part[a] = 0 /\ have[a] = 0
      /\ part'[a] = 0 /\ have'[a] = 0
  BY <1>1 DEF Joined, IInv, LocalOK
<1>7. /\ DOMAIN coin' = Verifier /\ DOMAIN deal' = Verifier
      /\ \A i \in Verifier : i # a => coin'[i] = coin[i] /\ deal'[i] = deal[i]
      /\ Exchanges[at[a] + 1] # "flip" => coin'[a] = coin[a]
      /\ Exchanges[at[a] + 1] # "zero" => deal'[a] = deal[a]
  BY <1>1 DEF Draw, IInv, TypeOK
<1>8. \A i, j \in Verifier, x \in 1 .. Len(Exchanges) : x <= at[i] =>
        \A k \in {Exchanges[x]} : Piece(i, j, k)' = Piece(i, j, k)
  <2> SUFFICES ASSUME NEW i \in Verifier, NEW j \in Verifier, NEW x \in 1 .. Len(Exchanges),
                      x <= at[i], NEW k \in {Exchanges[x]}
               PROVE  Piece(i, j, k)' = Piece(i, j, k)
    OBVIOUS
  <2>1. i = a => x <= at[a] + 1 /\ x # at[a] + 1
    BY <1>3
  <2>2. i = a /\ Exchanges[at[a] + 1] = "flip" => Exchanges[x] \notin {"flip", "show"}
    BY <2>1, <1>3, Order, SMTT(40), ZenonT(40) DEF IInv, TypeOK
  <2>3. i = a /\ Exchanges[at[a] + 1] = "zero" => Exchanges[x] \notin {"zero", "com", "open"}
    BY <2>1, <1>3, Order, SMTT(40), ZenonT(40) DEF IInv, TypeOK
  <2>4. /\ k \in {"flip", "show"} => coin'[i] = coin[i]
        /\ k \in {"zero", "com", "open"} => deal'[i] = deal[i]
    BY <2>2, <2>3, <1>7
  <2> QED
    BY <2>4, <1>1, <1>3, PieceStays
<1>9. \A i, j, m \in Verifier : m # a /\ at[m] <= at[i] =>
        Piece(i, j, Kind(m))' = Piece(i, j, Kind(m))
  <2> SUFFICES ASSUME NEW i \in Verifier, NEW j \in Verifier, NEW m \in Verifier, m # a,
                      at[m] <= at[i]
               PROVE  Piece(i, j, Kind(m))' = Piece(i, j, Kind(m))
    OBVIOUS
  <2>1. at[m] \in 1 .. Len(Exchanges)
    BY DEF IInv, TypeOK
  <2>2. \A k \in {Kind(m)} : Piece(i, j, k)' = Piece(i, j, k)
    BY <2>1, <1>8 DEF Kind
  <2> QED
    BY <2>2, <1>5, PresentPiece
<1>10. \A i, j \in Verifier : i # a =>
         Sent(i, j)' = Sent(i, j) /\ Rcvd(i, j)' = Rcvd(i, j)
  BY <1>1, <1>4, <1>5 DEF Sent, Rcvd
<1>11. \A j \in Verifier : j # a => Sent(a, j)' = 0 /\ Rcvd(a, j)' = 0
  <2> SUFFICES ASSUME NEW j \in Verifier, j # a PROVE Sent(a, j)' = 0 /\ Rcvd(a, j)' = 0
    OBVIOUS
  <2>1. Dist(a, j) \in 1 .. n - 1 /\ Dist(j, a) \in 1 .. n - 1
    BY RingPair
  <2> QED
    BY <2>1, <1>4, <1>6 DEF Sent, Rcvd
<1>12. TypeOK'
  BY <1>1, <1>2, <1>3, <1>4, <1>7, SMTT(40), ZenonT(40) DEF IInv, TypeOK
<1>13. LocalOK'
  <2>1. Pieces[Exchanges[at[a] + 1]] \in Nat \ {0}
    BY <1>3
  <2> QED
    BY <2>1, <1>1, <1>2, <1>4, <1>5, <1>6 DEF IInv, LocalOK
<1>14. ChannelsOK'
  <2>1. ASSUME NEW i \in Verifier, NEW j \in Verifier, i # j, i # a, j # a
        PROVE  Channel(i, j)'
    <3>1. Channel(i, j) /\ at[i] \in Nat /\ at[j] \in Nat
      BY <2>1, Amounts
    <3>2. Piece(i, j, Kind(i))' = Piece(i, j, Kind(i))
      BY <2>1, <3>1, <1>9
    <3>3. at[j] <= at[i] => Piece(i, j, Kind(j))' = Piece(i, j, Kind(j))
      BY <2>1, <1>9
    <3>4. CASE at[j] <= at[i]
      BY <3>1, <3>2, <3>3, <3>4, <2>1, <1>1, <1>4, <1>5, <1>10 DEF Channel
    <3>5. CASE at[i] < at[j]
      BY <3>1, <3>5, <2>1, <1>1, <1>4, <1>5, <1>10 DEF Channel, ChannelIs
    <3> QED
      BY <3>1, <3>4, <3>5
  <2>2. ASSUME NEW j \in Verifier, j # a PROVE Channel(a, j)' /\ Channel(j, a)'
    <3>1. /\ Channel(a, j) /\ Channel(j, a) /\ at[a] \in Nat /\ at[j] \in Nat
          /\ Sent(a, j) = Pieces[Kind(a)] /\ Rcvd(a, j) = Pieces[Kind(a)]
          /\ Sent(j, a) \in 0 .. Pieces[Kind(j)] /\ Rcvd(j, a) \in 0 .. Pieces[Kind(j)]
          /\ Pieces[Kind(a)] \in Nat /\ Pieces[Kind(a)] >= 1 /\ Pieces[Kind(j)] \in Nat
      BY <2>2, <1>6, Amounts
    <3>2. at[a] = at[j] => Kind(a) = Kind(j)
      BY DEF Kind
    <3>3. PICK nw : nw = Piece(a, j, Kind(a))'
      OBVIOUS
    <3>4. PICK nr : nr = Piece(a, j, Kind(j))'
      OBVIOUS
    <3>5. PICK mr : mr = Piece(j, a, Kind(a))'
      OBVIOUS
    <3>6. PICK p : p = Pieces[Kind(a)']
      OBVIOUS
    <3>7. at[j] >= at[a] /\ ChannelIs(wire[j][a], at[j], at[a] + 1, Sent(j, a), 0, Pieces[Kind(j)],
                                      p, Piece(j, a, Kind(j)), mr)
      <4>1. /\ ChannelIs(wire[j][a], at[j], at[a], Sent(j, a), Rcvd(a, j), Pieces[Kind(j)],
                         Pieces[Kind(a)], Piece(j, a, Kind(j)), Piece(j, a, Kind(a)))
            /\ Sent(j, a) \in Nat /\ Sent(j, a) <= Pieces[Kind(j)]
        BY <3>1 DEF Channel
      <4>2. at[j] = at[a] => Pieces[Kind(j)] = Pieces[Kind(a)]
        BY <3>2
      <4>3. \A w, mw, ma : \A x, y, s, r, pw, pa \in Nat :
              ChannelIs(w, x, y, s, r, pw, pa, mw, ma) /\ r = pa /\ s <= pw /\ pa >= 1
                /\ (x = y => pw = pa)
              => ChannelIs(w, x, y + 1, s, 0, pw, p, mw, mr) /\ x >= y
        BY ReaderEnters
      <4> QED
        BY <3>1, <4>1, <4>2, <4>3
    <3>8. Piece(j, a, Kind(j))' = Piece(j, a, Kind(j))
      BY <2>2, <3>1, <1>9
    <3>9. Channel(j, a)'
      BY <3>5, <3>6, <3>7, <3>8, <2>2, <1>1, <1>4, <1>5, <1>10, <1>11 DEF Channel
    <3>10. at[a] = at[j] => Piece(a, j, Kind(a)) = nr
      BY <2>2, <3>1, <3>2, <3>4, <1>9
    <3>11. ChannelIs(wire[a][j], at[a] + 1, at[j], 0, Rcvd(j, a), p, Pieces[Kind(j)], nw, nr)
      BY <3>1, <3>2, <3>7, <3>10, WriterEnters DEF Channel
    <3>12. Channel(a, j)'
      BY <3>3, <3>4, <3>6, <3>11, <2>2, <1>1, <1>4, <1>5, <1>10, <1>11 DEF Channel
    <3> QED
      BY <3>9, <3>12
  <2> QED
    BY <2>1, <2>2 DEF ChannelsOK
<1>15. HeardOK'
  <2> SUFFICES ASSUME NEW i \in Verifier, NEW j \in Verifier, NEW x \in 1 .. Len(Exchanges), i # j
               PROVE  HeardIs(got'[i][Exchanges[x]][j], x, at'[i], Rcvd(i, j)',
                              Piece(j, i, Exchanges[x])')
    BY <1>2 DEF HeardOK
  <2>1. x <= at[j] => Piece(j, i, Exchanges[x])' = Piece(j, i, Exchanges[x])
    BY <1>2, <1>8, PlacedPiece
  <2>2. CASE i # a
    BY <2>1, <2>2, <1>1, <1>2, <1>4, <1>10, HeardElsewhere
  <2>3. CASE i = a
    <3>1. /\ HeardIs(got[a][Exchanges[x]][j], x, at[a], Rcvd(a, j), Piece(j, a, Exchanges[x]))
          /\ Rcvd(a, j) > 0
      BY <2>3, <1>6, Amounts, SMTT(40), ZenonT(40) DEF IInv, HeardOK
    <3>2. x <= at[a] => x <= at[j]
      BY <2>3, <3>1, <1>3, HeardWasSaid
    <3> QED
      BY <2>1, <2>3, <3>1, <3>2, <1>1, <1>3, <1>4, <1>11, SMTT(40), ZenonT(40) DEF HeardIs
  <2> QED
    BY <2>2, <2>3
<1>16. VerdictOK'
  <2>1. at[a] + 1 > 1 => SameDigests
    BY <1>1, <1>3, Failing DEF IInv, VerdictOK
  <2> QED
    BY <2>1, <1>1, <1>2, <1>3, <1>4 DEF IInv, VerdictOK, SameDigests
<1> QED
  BY <1>12, <1>13, <1>14, <1>15, <1>16 DEF IInv
LEMMA JudgeStep ==
  ASSUME IInv, NEW a \in Verifier, Judge(a)
  PROVE  IInv'
<1>1. verdict[a] = "open" /\ Joined(a) /\ to[a] = n /\ from[a] = n
  BY DEF Judge, CanJudge, Joined
<1>2. CASE ~Fails(a) /\ at[a] # Len(Exchanges)
  BY <1>2, EnterStep
<1>3. CASE Fails(a) \/ at[a] = Len(Exchanges)
  <2>1. PICK v \in Verdicts : v = IF Fails(a) THEN "failed" ELSE "passed"
    BY DEF Verdicts
  <2>2. /\ verdict' = [verdict EXCEPT ![a] = v]
        /\ UNCHANGED <<case, at, to, part, from, have, wire, got, deal, coin>>
    BY <1>3, <2>1 DEF Judge
  <2>3. Exchanges' = Exchanges /\ (SameDigests' <=> SameDigests)
    BY <2>2 DEF Exchanges, SameDigests
  <2>4. verdict'[a] = v /\ \A i \in Verifier : i # a => verdict'[i] = verdict[i]
    BY <2>2 DEF IInv, TypeOK
  <2>5. v = "failed" => (at[a] = 1 /\ ~SameDigests) \/ at[a] = Len(Exchanges)
    BY <1>1, <2>1, Failing
  <2>6. v = "passed" => at[a] = Len(Exchanges)
    BY <1>3, <2>1
  <2>7. VerdictOK'
    BY <1>1, <2>1, <2>2, <2>3, <2>4, <2>5 DEF IInv, VerdictOK
  <2> QED
    BY <1>1, <2>2, <2>6, <2>7, EndStep
<1> QED
  BY <1>2, <1>3

(* Nobody meets a closed channel unless a process died.                    *)
LEMMA CutOff ==
  ASSUME IInv, NEW i \in Verifier, FindsClosed(i)
  PROVE  \E j \in Verifier : verdict[j] = "crashed"
<1> SUFFICES ASSUME \A j \in Verifier : verdict[j] # "crashed" PROVE FALSE
  OBVIOUS
<1>1. ASSUME NEW j \in Verifier, j # i, Gone(j)
      PROVE  /\ at[i] = at[j] /\ Kind(i) = Kind(j) /\ Channel(i, j) /\ Channel(j, i)
             /\ Pieces[Kind(i)] \in Nat
             /\ Sent(j, i) = Pieces[Kind(i)] /\ Rcvd(j, i) = Pieces[Kind(i)]
  <2>1. verdict[j] = "failed"
    BY <1>1 DEF Gone, IInv, VerdictOK
  <2>2. to[j] = n /\ from[j] = n
    BY <2>1 DEF IInv, LocalOK
  <2>3. /\ at[i] \in Nat /\ at[j] \in Nat /\ at[i] >= 1 /\ at[j] >= 1
        /\ at[i] <= Len(Exchanges) /\ at[j] <= Len(Exchanges) /\ Len(Exchanges) \in Nat
    BY <1>1, Amounts, Order DEF IInv, TypeOK
  <2>4. at[j] <= at[i]
    <3>1. Rcvd(j, i) > 0 /\ at[j] \in 1 .. Len(Exchanges)
      BY <1>1, <2>2, Amounts, SMTT(40), ZenonT(40), Z3T(40) DEF IInv, TypeOK
    <3> QED
      BY <1>1, <3>1, HeardWasSaid
  <2>5. at[i] <= at[j]
    BY <2>1, <2>3 DEF IInv, VerdictOK
  <2>6. at[i] = at[j] /\ Kind(i) = Kind(j)
    BY <2>3, <2>4, <2>5 DEF Kind
  <2> QED
    BY <1>1, <2>2, <2>6, Amounts
<1>2. /\ part[i] \in Nat /\ part[i] < Pieces[Kind(i)]
      /\ have[i] \in Nat /\ have[i] < Pieces[Kind(i)]
  BY DEF IInv, TypeOK, LocalOK
<1>3. CASE to[i] < n /\ Gone(RingAhead(i, to[i]))
  <2>1. to[i] \in 1 .. n - 1
    BY <1>3 DEF IInv, TypeOK
  <2>2. PICK j \in Verifier : j = RingAhead(i, to[i]) /\ j # i /\ Dist(i, j) = to[i]
    BY <2>1, RingPeer
  <2>3. Sent(i, j) = part[i]
    BY <2>1, <2>2 DEF Sent
  <2>4. Len(wire[i][j]) \in Nat /\ Len(wire[i][j]) = Sent(i, j) - Rcvd(j, i)
    BY <1>1, <1>3, <2>2 DEF Channel, ChannelIs
  <2> QED
    BY <1>1, <1>2, <1>3, <2>2, <2>3, <2>4
<1>4. CASE /\ from[i] < n /\ Gone(RingBehind(i, from[i]))
           /\ wire[RingBehind(i, from[i])][i] = << >>
  <2>1. from[i] \in 1 .. n - 1
    BY <1>4 DEF IInv, TypeOK
  <2>2. PICK j \in Verifier : j = RingBehind(i, from[i]) /\ j # i /\ Dist(j, i) = from[i]
    BY <2>1, RingPeer
  <2>3. Rcvd(i, j) = have[i]
    BY <2>1, <2>2 DEF Rcvd
  <2>4. Len(wire[j][i]) = Sent(j, i) - Rcvd(i, j)
    BY <1>1, <1>4, <2>2 DEF Channel, ChannelIs
  <2>5. Len(wire[j][i]) = 0
    BY <1>4, <2>2
  <2> QED
    BY <1>1, <1>2, <1>4, <2>2, <2>3, <2>4, <2>5
<1> QED
  BY <1>3, <1>4 DEF FindsClosed

LEMMA CutStep ==
  ASSUME IInv, NEW a \in Verifier, Cut(a)
  PROVE  IInv'
<1>1. /\ verdict' = [verdict EXCEPT ![a] = "cut"] /\ verdict[a] = "open"
      /\ UNCHANGED <<case, at, to, part, from, have, wire, got, deal, coin>>
  BY DEF Cut, FindsClosed
<1>2. PICK j \in Verifier : verdict[j] = "crashed"
  BY CutOff DEF Cut
<1>3. /\ verdict'[j] = "crashed" /\ verdict'[a] = "cut"
      /\ \A i \in Verifier : i # a => verdict'[i] = verdict[i]
  BY <1>1, <1>2 DEF IInv, TypeOK
<1>4. Exchanges' = Exchanges /\ (SameDigests' <=> SameDigests)
  BY <1>1 DEF Exchanges, SameDigests
<1>5. VerdictOK'
  BY <1>1, <1>3, <1>4 DEF IInv, VerdictOK
<1> QED
  BY <1>1, <1>5, EndStep DEF Verdicts

LEMMA CrashStep ==
  ASSUME IInv, NEW a \in Verifier, Crash(a)
  PROVE  IInv'
<1>1. /\ verdict' = [verdict EXCEPT ![a] = "crashed"]
      /\ UNCHANGED <<case, at, to, part, from, have, wire, got, deal, coin>>
  BY DEF Crash
<1>2. verdict'[a] = "crashed" /\ \A i \in Verifier : i # a => verdict'[i] = verdict[i]
  BY <1>1 DEF IInv, TypeOK
<1>3. Exchanges' = Exchanges /\ (SameDigests' <=> SameDigests)
  BY <1>1 DEF Exchanges, SameDigests
<1>4. VerdictOK'
  BY <1>1, <1>2, <1>3 DEF IInv, VerdictOK
<1> QED
  BY <1>1, <1>4, EndStep DEF Verdicts

LEMMA StepInv == IInv /\ [Next]_vars => IInv'
<1> SUFFICES ASSUME IInv, [Next]_vars PROVE IInv'
  OBVIOUS
<1>1. CASE \E i \in Verifier : Write(i) \/ Read(i) \/ Judge(i) \/ Cut(i) \/ Crash(i)
  BY <1>1, WriteStep, ReadStep, JudgeStep, CutStep, CrashStep
<1>2. CASE UNCHANGED vars
  <2>1. PICK a \in Verifier : TRUE
    BY DEF Verifier
  <2>2. PICK v \in Verdicts : v = verdict[a]
    BY DEF IInv, TypeOK
  <2>3. /\ verdict' = [verdict EXCEPT ![a] = v]
        /\ UNCHANGED <<case, at, to, part, from, have, wire, got, deal, coin>>
    BY <1>2, <2>2 DEF IInv, TypeOK, vars
  <2>4. Exchanges' = Exchanges /\ (SameDigests' <=> SameDigests)
    BY <2>3 DEF Exchanges, SameDigests
  <2>5. VerdictOK'
    BY <1>2, <2>4 DEF IInv, VerdictOK, vars
  <2>6. /\ v \in {"passed", "failed"} => to[a] = n /\ from[a] = n
        /\ v = "passed" => at[a] = Len(Exchanges)
    BY <2>2 DEF IInv, LocalOK
  <2> QED
    BY <2>3, <2>5, <2>6, EndStep
<1> QED
  BY <1>1, <1>2 DEF Next, Terminated

(* How far each verifier is in its exchange fits what is on the channels   *)
(* and what its peers have said, in every reachable state of MvzkMesh.     *)
THEOREM Invariance == Spec => []IInv
BY InitInv, StepInv, PTL DEF Spec

-----------------------------------------------------------------------------
(* A message reaches the exchange it was sent in: what a verifier has read *)
(* from a peer when an exchange() ends is all the peer wrote in the same   *)
(* one, for every number of verifiers, length of the messages and size of  *)
(* the channels.                                                           *)
THEOREM Delivered == Spec => []SameExchange
<1>1. IInv => SameExchange
  <2> SUFFICES ASSUME IInv, NEW i \in Verifier, NEW j \in Verifier, i # j, from[i] = n
               PROVE  at[j] >= at[i] /\ got[i][Kind(i)][j] = {Piece(j, i, Kind(i))}
    BY DEF SameExchange
  <2>1. at[i] \in 1 .. at[i]
    BY Order DEF IInv, TypeOK
  <2> QED
    BY <2>1, Known DEF Kind
<1> QED
  BY <1>1, Invariance, PTL

(* A failed check of echo_check() or macCheckZero() cuts nobody off: unless *)
(* a process dies no verifier ever meets a closed channel, for every number *)
(* of verifiers.                                                            *)
THEOREM NobodyIsCut == Spec => []NobodyCut
<1>1. IInv => NobodyCut
  BY CutOff DEF NobodyCut, IInv, VerdictOK
<1> QED
  BY <1>1, Invariance, PTL

-----------------------------------------------------------------------------
LEMMA Least ==
  ASSUME NEW S, S \subseteq Verifier, S # {}, NEW f \in [Verifier -> Nat]
  PROVE  \E x \in S : \A y \in S : f[x] <= f[y]
<1> DEFINE T == {f[x] : x \in S}
<1>1. T \subseteq Nat /\ T # {}
  OBVIOUS
<1>2. PICK t \in T : \A u \in T : <<u, t>> \notin OpToRel(<, Nat)
  BY <1>1, WFMin, NatLessThanWellFounded
<1>3. PICK x \in S : f[x] = t
  OBVIOUS
<1>4. ASSUME NEW y \in S PROVE f[x] <= f[y]
  <2>1. f[y] \in T /\ f[x] \in Nat /\ f[y] \in Nat
    OBVIOUS
  <2>2. ~(f[y] < f[x])
    BY <1>2, <1>3, <2>1 DEF OpToRel
  <2> QED
    BY <2>1, <2>2
<1> QED
  BY <1>4

(* Of two verifiers in one exchange whose distances are at least d, the one *)
(* that waits at d is served.                                               *)
LEMMA InvNoStall == IInv => NoStall
<1> SUFFICES ASSUME IInv, ~AllEnded,
                    \A i \in Verifier : ~CanWrite(i) /\ ~CanRead(i) /\ ~FindsClosed(i) /\ ~CanJudge(i)
             PROVE  FALSE
  BY DEF NoStall
<1> DEFINE Open == {i \in Verifier : verdict[i] = "open"}
           low  == [i \in Verifier |-> IF to[i] <= from[i] THEN to[i] ELSE from[i]]
<1>1. Open \subseteq Verifier /\ Open # {} /\ at \in [Verifier -> Nat]
  BY DEF AllEnded, IInv, TypeOK
<1>2. PICK o \in Open : \A j \in Open : at[o] <= at[j]
  BY <1>1, Least
<1> DEFINE Behind == {i \in Open : at[i] = at[o]}
<1>3. /\ Behind \subseteq Verifier /\ Behind # {}
      /\ \A i \in Verifier : to[i] \in 1 .. n /\ from[i] \in 1 .. n
      /\ low \in [Verifier -> Nat]
  BY SMTT(40), ZenonT(40) DEF IInv, TypeOK
<1> HIDE DEF low
<1>4. PICK i \in Behind : \A j \in Behind : low[i] <= low[j]
  BY <1>3, Least
<1>5. /\ i \in Verifier /\ verdict[i] = "open" /\ at[i] = at[o]
      /\ part[i] \in Nat /\ part[i] < Pieces[Kind(i)]
      /\ have[i] \in Nat /\ have[i] < Pieces[Kind(i)]
  BY DEF IInv, TypeOK, LocalOK
<1>6. ASSUME NEW j \in Verifier, j # i, ~Gone(j)
      PROVE  /\ at[i] \in Nat /\ at[j] \in Nat /\ at[i] <= at[j]
             /\ Sent(j, i) \in Nat /\ Sent(i, j) \in Nat /\ Rcvd(j, i) \in Nat
             /\ Channel(i, j) /\ Channel(j, i)
             /\ at[j] = at[i] => Kind(j) = Kind(i)
             /\ \/ Sent(j, i) = Pieces[Kind(j)] /\ Rcvd(j, i) = Pieces[Kind(j)]
                \/ verdict[j] = "open" /\ (at[j] = at[i] => low[i] <= to[j] /\ low[i] <= from[j])
  <2>1. /\ at[i] \in Nat /\ at[j] \in Nat /\ at[i] <= Len(Exchanges) /\ Len(Exchanges) \in Nat
        /\ Sent(j, i) \in Nat /\ Sent(i, j) \in Nat /\ Rcvd(j, i) \in Nat
        /\ Channel(i, j) /\ Channel(j, i)
    <3>1. /\ at[i] \in Nat /\ at[i] <= Len(Exchanges) /\ Sent(i, j) \in Nat
          /\ Channel(i, j) /\ Channel(j, i)
      BY <1>5, <1>6, Amounts
    <3>2. at[j] \in Nat /\ Sent(j, i) \in Nat /\ Rcvd(j, i) \in Nat
      BY <1>5, <1>6, Amounts
    <3> QED
      BY <3>1, <3>2, Order DEF IInv, TypeOK
  <2>2. at[j] = at[i] => Kind(j) = Kind(i)
    BY DEF Kind
  <2>3. CASE verdict[j] = "open"
    <3>1. j \in Open /\ at[i] <= at[j]
      BY <2>3, <1>2, <1>5
    <3>2. at[j] = at[i] => low[i] <= low[j]
      BY <3>1, <1>4, <1>5
    <3>3. low[j] \in Nat /\ low[j] <= to[j] /\ low[j] <= from[j] /\ low[i] \in Nat
      BY <1>3, <1>5 DEF low
    <3> QED
      BY <2>1, <2>2, <2>3, <3>1, <3>2, <3>3, <1>3, SMTT(40), ZenonT(40)
  <2>4. CASE verdict[j] # "open"
    <3>1. verdict[j] = "passed"
      BY <2>4, <1>6 DEF Gone, IInv, TypeOK, Verdicts
    <3>2. to[j] = n /\ from[j] = n /\ at[j] = Len(Exchanges)
      BY <3>1 DEF IInv, LocalOK
    <3>3. Sent(j, i) = Pieces[Kind(j)] /\ Rcvd(j, i) = Pieces[Kind(j)]
      BY <3>2, <1>5, <1>6, Amounts
    <3> QED
      BY <2>1, <2>2, <3>2, <3>3
  <2> QED
    BY <2>3, <2>4
<1>7. CASE to[i] < n /\ to[i] <= from[i]
  <2>1. to[i] \in 1 .. n - 1 /\ low[i] = to[i]
    BY <1>3, <1>5, <1>7 DEF low
  <2>2. PICK j \in Verifier : /\ j = RingAhead(i, to[i]) /\ j # i /\ Dist(i, j) = to[i]
                              /\ RingBehind(j, to[i]) = i
    BY <1>5, <2>1, RingPeer, RingPair
  <2>3. ~Gone(j) /\ ~(Len(wire[i][j]) < Cap)
    BY <1>5, <1>7, <2>2 DEF CanWrite, FindsClosed
  <2>4. Sent(i, j) = part[i]
    BY <2>1, <2>2 DEF Sent
  <2>5. Len(wire[i][j]) \in Nat /\ Len(wire[i][j]) > 0
    BY <1>6, <2>2, <2>3 DEF Channel, ChannelIs
  <2>6. at[i] = at[j] /\ Len(wire[i][j]) = Sent(i, j) - Rcvd(j, i) /\ Kind(j) = Kind(i)
    BY <1>6, <2>2, <2>3, <2>5 DEF Channel, ChannelIs
  <2>7. Rcvd(j, i) < Pieces[Kind(j)]
    <3>1. Rcvd(j, i) \in Nat
      BY <1>6, <2>2, <2>3
    <3>2. Rcvd(j, i) < part[i]
      BY <3>1, <1>5, <2>4, <2>5, <2>6
    <3>3. Pieces[Kind(i)] \in Nat
      BY <1>5, <2>2, Amounts
    <3> QED
      BY <3>1, <3>2, <3>3, <1>5, <2>6
  <2>8. verdict[j] = "open" /\ to[i] <= from[j]
    BY <1>5, <1>6, <2>1, <2>2, <2>3, <2>6, <2>7, SMTT(40), ZenonT(40), Z3T(40)
  <2>9. from[j] = to[i]
    <3>1. from[j] \in Nat /\ to[i] \in Nat
      BY <1>3, <2>1, <2>2
    <3>2. ~(to[i] < from[j])
      <4>1. CASE Dist(i, j) < from[j]
        <5>1. Rcvd(j, i) = Pieces[Kind(j)] /\ Pieces[Kind(j)] \in Nat
          BY <4>1, <1>5, <2>2, Amounts DEF Rcvd
        <5> QED
          BY <5>1, <2>7
      <4> QED
        BY <4>1, <2>2
    <3> QED
      BY <3>1, <3>2, <2>8
  <2>10. wire[i][j] # << >>
    BY <2>5
  <2> QED
    BY <2>1, <2>2, <2>8, <2>9, <2>10 DEF CanRead
<1>8. CASE from[i] < n /\ from[i] < to[i]
  <2>1. from[i] \in 1 .. n - 1 /\ low[i] = from[i]
    BY <1>3, <1>5, <1>8 DEF low
  <2>2. PICK j \in Verifier : /\ j = RingBehind(i, from[i]) /\ j # i /\ Dist(j, i) = from[i]
                              /\ RingAhead(j, from[i]) = i
    BY <1>5, <2>1, RingPeer, RingPair
  <2>3. ~Gone(j) /\ wire[j][i] = << >>
    BY <1>5, <1>8, <2>2 DEF CanRead, FindsClosed
  <2>4. Rcvd(i, j) = have[i]
    BY <2>1, <2>2 DEF Rcvd
  <2>5. Len(wire[j][i]) = 0
    BY <2>3
  <2>6. at[j] = at[i] /\ Sent(j, i) = have[i] /\ Kind(j) = Kind(i)
    BY <1>5, <1>6, <2>2, <2>3, <2>4, <2>5, SMTT(40), ZenonT(40), Z3T(40) DEF Channel, ChannelIs
  <2>7. verdict[j] = "open" /\ from[i] <= to[j]
    BY <1>5, <1>6, <2>1, <2>2, <2>3, <2>6
  <2>8. to[j] = from[i]
    BY <1>3, <1>5, <2>1, <2>2, <2>6, <2>7 DEF Sent
  <2>9. ~Gone(i) /\ Len(wire[j][i]) < Cap
    BY <1>5, <2>5 DEF Gone
  <2> QED
    BY <2>1, <2>2, <2>7, <2>8, <2>9 DEF CanWrite
<1> QED
  BY <1>3, <1>5, <1>7, <1>8 DEF CanJudge, Joined

(* The two ring orders never deadlock: in every reachable state of MvzkMesh *)
(* all verifiers are done or some thread of one of them can go on, for      *)
(* every number of verifiers, length of the messages and channel size.      *)
THEOREM NeverStalls == Spec => []NoStall
BY Invariance, InvNoStall, PTL
-----------------------------------------------------------------------------
(* Nothing is ever on the channel of a verifier to itself.                 *)
SelfQuiet == \A i \in Verifier : wire[i][i] = << >>

LEMMA SelfQuietStep == IInv /\ SelfQuiet /\ [Next]_vars => SelfQuiet'
<1> SUFFICES ASSUME IInv, SelfQuiet, [Next]_vars, NEW i \in Verifier PROVE wire'[i][i] = << >>
  BY DEF SelfQuiet
<1>1. ASSUME NEW a \in Verifier, Write(a) PROVE wire'[i][i] = << >>
  <2>1. to[a] \in 1 .. n - 1
    BY <1>1, SMTT(40), ZenonT(40) DEF IInv, TypeOK, Write, CanWrite
  <2>2. PICK b \in Verifier : b = RingAhead(a, to[a]) /\ b # a
    BY <2>1, RingPeer
  <2>3. wire' = [wire EXCEPT ![a][b] = Append(@, Piece(a, b, Kind(a)))]
    BY <1>1, <2>2 DEF Write
  <2> QED
    BY <2>2, <2>3 DEF SelfQuiet, IInv, TypeOK
<1>2. ASSUME NEW a \in Verifier, Read(a) PROVE wire'[i][i] = << >>
  <2>1. from[a] \in 1 .. n - 1
    BY <1>2, SMTT(40), ZenonT(40) DEF IInv, TypeOK, Read, CanRead
  <2>2. PICK b \in Verifier : b = RingBehind(a, from[a]) /\ b # a
    BY <2>1, RingPeer
  <2>3. wire' = [wire EXCEPT ![b][a] = Tail(@)]
    BY <1>2, <2>2 DEF Read
  <2> QED
    BY <2>2, <2>3 DEF SelfQuiet, IInv, TypeOK
<1>3. ASSUME NEW a \in Verifier, Judge(a) \/ Cut(a) \/ Crash(a) PROVE wire'[i][i] = << >>
  BY <1>3 DEF Judge, Cut, Crash, SelfQuiet
<1>4. CASE UNCHANGED vars
  BY <1>4 DEF vars, SelfQuiet
<1> QED
  BY <1>1, <1>2, <1>3, <1>4 DEF Next, Terminated

(* What is on a channel was written in an exchange the writer has reached. *)
LEMMA OnTheWire ==
  ASSUME IInv, NEW i \in Verifier, NEW j \in Verifier, i # j, NEW p \in Range(wire[i][j])
  PROVE  \E x \in 1 .. at[i] : p.k = Exchanges[x]
<1>1. /\ at[i] \in Nat /\ at[i] >= 1 /\ at[j] \in Nat /\ at[j] >= 1 /\ Channel(i, j)
  BY Amounts
<1>2. PICK S : wire[i][j] \in Seq(S)
  BY <1>1 DEF Channel, ChannelIs
<1>3. PICK m \in 1 .. Len(wire[i][j]) : p = wire[i][j][m]
  BY <1>2 DEF Range
<1>4. \/ p = Piece(i, j, Kind(i))
      \/ p = Piece(i, j, Kind(j)) /\ at[i] > at[j]
  <2>1. Len(wire[i][j]) \in Nat /\ Len(wire[i][j]) >= 1
    BY <1>2, <1>3
  <2> QED
    BY <1>1, <1>3, <2>1 DEF Channel, ChannelIs
<1>5. p.k = Kind(i) \/ (p.k = Kind(j) /\ at[i] > at[j])
  BY <1>4 DEF Piece
<1> QED
  BY <1>1, <1>5 DEF Kind

(* Behind an exchange everything said in it has been read.                 *)
LEMMA ReadBehind ==
  ASSUME IInv, NEW i \in Verifier, NEW x \in 1 .. Len(Exchanges), x < at[i], NEW m \in Peers(i)
  PROVE  got[i][Exchanges[x]][m] # {}
<1>1. m \in Verifier /\ i # m
  BY DEF Peers
<1>2. HeardIs(got[i][Exchanges[x]][m], x, at[i], Rcvd(i, m), Piece(m, i, Exchanges[x]))
  BY <1>1 DEF IInv, HeardOK
<1> QED
  BY <1>2 DEF HeardIs

LEMMA OpenFollowsCom ==
  ASSUME case \in Cases, NEW x \in 1 .. Len(Exchanges), Exchanges[x] = "open"
  PROVE  x > 1 /\ Exchanges[x - 1] = "com"
<1>1. CASE case.check = "batch"
  BY <1>1 DEF Exchanges
<1>2. CASE case.check # "batch"
  BY <1>2 DEF Exchanges
<1> QED
  BY <1>1, <1>2

(* Nobody shows its coin or its masked sum before it has the commitments   *)
(* of all the others: nothing of an opening is on a channel until then,    *)
(* for every number of verifiers, length of the messages and channel size. *)
THEOREM BoundFirst == Spec => []CommittedFirst
<1>1. Init => SelfQuiet
  BY DEF Init, SelfQuiet
<1>2. IInv /\ SelfQuiet => CommittedFirst
  <2> SUFFICES ASSUME IInv, SelfQuiet, NEW i \in Verifier, NEW j \in Verifier,
                      NEW p \in Range(wire[i][j])
               PROVE  /\ p.k = "show" => \A m \in Peers(i) : got[i]["flip"][m] # {}
                      /\ p.k = "open" => \A m \in Peers(i) : got[i]["com"][m] # {}
    BY DEF CommittedFirst
  <2>1. i # j
    BY DEF SelfQuiet, Range
  <2>2. PICK x \in 1 .. at[i] : p.k = Exchanges[x]
    BY <2>1, OnTheWire
  <2>3. case \in Cases /\ at[i] \in Nat /\ at[i] <= Len(Exchanges) /\ Len(Exchanges) \in Nat
    BY <2>1, Amounts, Order DEF IInv, TypeOK
  <2>4. x \in 1 .. Len(Exchanges)
    BY <2>3
  <2>5. x > 1 => x - 1 \in 1 .. Len(Exchanges) /\ x - 1 < at[i]
    BY <2>3, <2>4
  <2>6. /\ Exchanges[x] = "show" => x > 1 /\ Exchanges[x - 1] = "flip"
        /\ Exchanges[x] = "open" => x > 1 /\ Exchanges[x - 1] = "com"
    BY <2>3, <2>4, Order, OpenFollowsCom
  <2> QED
    BY <2>2, <2>5, <2>6, ReadBehind
<1> QED
  BY <1>1, <1>2, Invariance, SelfQuietStep, PTL DEF Spec

-----------------------------------------------------------------------------
(* Sums over the verifiers.                                                *)

LEMMA Verifiers ==
  /\ IsFiniteSet(Verifier) /\ Verifier # {}
  /\ \A s \in SUBSET Verifier : IsFiniteSet(s) /\ Cardinality(s) \in Nat
<1>1. n \in Nat /\ n > 1 /\ 0 \in Int /\ n - 1 \in Int
  BY NAssumption
<1>2. IsFiniteSet(0 .. n - 1)
  BY ONLY <1>1, FS_Interval
<1>3. IsFiniteSet(Verifier) /\ 0 \in Verifier
  BY <1>1, <1>2 DEF Verifier
<1>4. ASSUME NEW s \in SUBSET Verifier PROVE IsFiniteSet(s) /\ Cardinality(s) \in Nat
  <2>1. IsFiniteSet(s)
    BY <1>3, FS_Subset
  <2> QED
    BY <2>1, FS_CardinalityType
<1> QED
  BY <1>3, <1>4

LEMMA LeastNat ==
  ASSUME NEW S, S \subseteq Nat, S # {}
  PROVE  \E x \in S : \A y \in S : x <= y
<1>1. PICK x \in S : \A y \in S : <<y, x>> \notin OpToRel(<, Nat)
  BY WFMin, NatLessThanWellFounded, Zenon
<1>2. ASSUME NEW y \in S PROVE x <= y
  <2>1. x \in Nat /\ y \in Nat /\ ~(y < x)
    BY <1>1 DEF OpToRel
  <2> QED
    BY <2>1
<1> QED
  BY <1>2

\* A set of verifiers in T none of which can be taken away.
LEMMA Minimal ==
  ASSUME NEW T, T \subseteq SUBSET Verifier, T # {}
  PROVE  \E s \in T : \A x \in s : s \ {x} \notin T
<1> DEFINE S == {Cardinality(s) : s \in T}
<1>1. S \subseteq Nat /\ S # {}
  BY Verifiers
<1>2. PICK c \in S : \A d \in S : c <= d
  <2> HIDE DEF S
  <2> QED
    BY <1>1, LeastNat
<1>3. PICK s \in T : Cardinality(s) = c
  OBVIOUS
<1>4. ASSUME NEW x \in s, s \ {x} \in T PROVE FALSE
  <2>1. Cardinality(s \ {x}) = Cardinality(s) - 1 /\ Cardinality(s) \in Nat
    BY Verifiers, FS_RemoveElement
  <2>2. c <= Cardinality(s \ {x})
    BY <1>2, <1>4
  <2> QED
    BY <1>3, <2>1, <2>2
<1> QED
  BY <1>4

Pick(s) == CHOOSE x \in s : TRUE

LEMMA Picked ==
  ASSUME NEW s \in SUBSET Verifier, s # {}
  PROVE  Pick(s) \in s /\ Pick(s) \in Verifier /\ s \ {Pick(s)} \in SUBSET Verifier
BY DEF Pick

\* g is the sum of f over each set of verifiers.
Sums(f, g) ==
  g = [s \in SUBSET Verifier |-> IF s = {} THEN 0 ELSE f[Pick(s)] + g[s \ {Pick(s)}]]

LEMMA SumsExist == ASSUME NEW f PROVE \E g : Sums(f, g)
<1> DEFINE L(m) == {s \in SUBSET Verifier : Cardinality(s) <= m}
           Upto(m, g) == g = [s \in L(m) |-> IF s = {} THEN 0 ELSE f[Pick(s)] + g[s \ {Pick(s)}]]
           S == {m \in Nat : ~\E g : Upto(m, g)}
<1>1. \E g : Upto(0, g)
  <2> DEFINE g == [s \in L(0) |-> 0]
  <2>1. \A s \in L(0) : s = {}
    BY Verifiers, FS_EmptySet
  <2>2. Upto(0, g)
    BY <2>1
  <2> QED
    BY <2>2
<1>2. ASSUME NEW m \in Nat, NEW h, Upto(m, h) PROVE \E g : Upto(m + 1, g)
  <2> DEFINE rhs(s, k) == IF s = {} THEN 0 ELSE f[Pick(s)] + k[s \ {Pick(s)}]
             g == [s \in L(m + 1) |-> rhs(s, h)]
  <2>1. ASSUME NEW s \in L(m) PROVE s \in L(m + 1) /\ g[s] = h[s]
    <3>1. s \in L(m + 1)
      BY Verifiers
    <3>2. h[s] = rhs(s, h)
      BY <1>2
    <3> QED
      BY <3>1, <3>2
  <2>2. ASSUME NEW s \in L(m + 1), s # {} PROVE s \ {Pick(s)} \in L(m)
    <3>1. Cardinality(s \ {Pick(s)}) = Cardinality(s) - 1 /\ Cardinality(s) \in Nat
      BY <2>2, Verifiers, Picked, FS_RemoveElement
    <3> QED
      BY <2>2, <3>1
  <2>3. \A s \in L(m + 1) : rhs(s, h) = rhs(s, g)
    BY <2>1, <2>2
  <2>4. g = [s \in L(m + 1) |-> rhs(s, g)]
    <3> HIDE DEF rhs, L
    <3>1. \A s \in L(m + 1) : g[s] = rhs(s, g)
      BY <2>3
    <3> DEFINE k == g
    <3>2. k = [s \in L(m + 1) |-> k[s]]
      OBVIOUS
    <3> HIDE DEF k
    <3> QED
      BY <3>1, <3>2 DEF k
  <2> HIDE DEF g
  <2> QED
    BY <2>4
<1>3. ASSUME NEW m \in Nat PROVE \E g : Upto(m, g)
  <2> SUFFICES ASSUME S # {} PROVE FALSE
    OBVIOUS
  <2>1. S \subseteq Nat
    OBVIOUS
  <2>2. PICK l \in S : \A y \in S : l <= y
    <3> HIDE DEF S
    <3> QED
      BY <2>1, LeastNat
  <2>3. l \in Nat /\ ~\E g : Upto(l, g)
    BY <2>2
  <2> HIDE DEF Upto, L
  <2>4. l # 0
    BY <1>1, <2>3
  <2>5. l - 1 \in Nat /\ (l - 1) + 1 = l /\ ~(l <= l - 1)
    BY <2>3, <2>4
  <2>6. \E g : Upto(l - 1, g)
    BY <2>2, <2>5
  <2> QED
    BY <1>2, <2>3, <2>5, <2>6
<1>4. \A s \in SUBSET Verifier : Cardinality(s) <= Cardinality(Verifier)
  BY Verifiers, FS_Subset
<1>5. Cardinality(Verifier) \in Nat /\ L(Cardinality(Verifier)) = SUBSET Verifier
  BY <1>4, Verifiers
<1>6. PICK g : Upto(Cardinality(Verifier), g)
  <2> HIDE DEF Upto, L
  <2> QED
    BY <1>3, <1>5
<1>7. Sums(f, g)
  <2> HIDE DEF L
  <2> QED
    BY <1>5, <1>6 DEF Sums
<1> QED
  BY <1>7

\* The sum of f over the verifiers in s.
Part(f, s) == (CHOOSE g : Sums(f, g))[s]
Total(f)   == Part(f, Verifier)

LEMMA PartFacts ==
  ASSUME NEW f
  PROVE  /\ Part(f, {}) = 0
         /\ \A s \in SUBSET Verifier : s # {} => Part(f, s) = f[Pick(s)] + Part(f, s \ {Pick(s)})
<1> DEFINE g == CHOOSE g : Sums(f, g)
<1>1. Sums(f, g)
  <2> HIDE DEF g
  <2>1. \E h : Sums(f, h)
    BY SumsExist
  <2> QED
    BY <2>1 DEF g
<1>2. \A s : Part(f, s) = g[s]
  BY DEF Part
<1> HIDE DEF g
<1>3. \A s \in SUBSET Verifier : g[s] = IF s = {} THEN 0 ELSE f[Pick(s)] + g[s \ {Pick(s)}]
  BY <1>1 DEF Sums
<1> QED
  BY <1>2, <1>3

LEMMA SumIsTotal == ASSUME NEW f, DOMAIN f = Verifier PROVE SumFunction(f) = Total(f)
BY DEF SumFunction, SumFunctionOnSet, FoldFunctionOnSet, MapThenFoldSet, Total, Part, Sums, Pick

LEMMA PartInt ==
  ASSUME NEW f, \A x \in Verifier : f[x] \in Int
  PROVE  \A s \in SUBSET Verifier : Part(f, s) \in Int
<1> DEFINE T == {s \in SUBSET Verifier : Part(f, s) \notin Int}
<1> SUFFICES ASSUME T # {} PROVE FALSE
  OBVIOUS
<1>1. PICK s \in T : \A x \in s : s \ {x} \notin T
  <2> HIDE DEF T
  <2> QED
    BY Minimal DEF T
<1>2. s # {}
  BY PartFacts
<1>3. Pick(s) \in s /\ Pick(s) \in Verifier /\ s \ {Pick(s)} \in SUBSET Verifier
  BY <1>2, Picked
<1>4. Part(f, s) = f[Pick(s)] + Part(f, s \ {Pick(s)}) /\ Part(f, s \ {Pick(s)}) \in Int
  BY <1>1, <1>2, <1>3, PartFacts
<1> QED
  BY <1>1, <1>3, <1>4

LEMMA PartAdd ==
  ASSUME NEW f, NEW g, NEW h,
         \A x \in Verifier : f[x] \in Int /\ g[x] \in Int /\ h[x] = f[x] + g[x]
  PROVE  \A s \in SUBSET Verifier : Part(h, s) = Part(f, s) + Part(g, s)
<1> DEFINE T == {s \in SUBSET Verifier : Part(h, s) # Part(f, s) + Part(g, s)}
<1> SUFFICES ASSUME T # {} PROVE FALSE
  OBVIOUS
<1>1. PICK s \in T : \A x \in s : s \ {x} \notin T
  <2> HIDE DEF T
  <2> QED
    BY Minimal DEF T
<1>2. s # {}
  <2>1. Part(f, {}) = 0 /\ Part(g, {}) = 0 /\ Part(h, {}) = 0
    BY PartFacts
  <2>2. Part(h, {}) = Part(f, {}) + Part(g, {})
    BY <2>1
  <2> QED
    BY <1>1, <2>2
<1>3. Pick(s) \in s /\ Pick(s) \in Verifier /\ s \ {Pick(s)} \in SUBSET Verifier
  BY <1>2, Picked
<1>4. Part(h, s \ {Pick(s)}) = Part(f, s \ {Pick(s)}) + Part(g, s \ {Pick(s)})
  BY <1>1, <1>3
<1>5. /\ Part(h, s) = h[Pick(s)] + Part(h, s \ {Pick(s)})
      /\ Part(f, s) = f[Pick(s)] + Part(f, s \ {Pick(s)})
      /\ Part(g, s) = g[Pick(s)] + Part(g, s \ {Pick(s)})
  BY <1>2, PartFacts
<1>6. Part(f, s \ {Pick(s)}) \in Int /\ Part(g, s \ {Pick(s)}) \in Int
  BY <1>3, PartInt
<1>7. Part(h, s) = Part(f, s) + Part(g, s)
  <2> DEFINE x == Pick(s)  a == Part(f, s \ {x})  b == Part(g, s \ {x})
  <2>1. /\ a \in Int /\ b \in Int /\ f[x] \in Int /\ g[x] \in Int /\ h[x] = f[x] + g[x]
        /\ Part(h, s) = h[x] + (a + b) /\ Part(f, s) = f[x] + a /\ Part(g, s) = g[x] + b
    BY <1>3, <1>4, <1>5, <1>6
  <2> HIDE DEF a, b, x
  <2> QED
    BY <2>1
<1> QED
  BY <1>1, <1>7

\* Only one verifier has anything.
LEMMA PartOne ==
  ASSUME NEW i, NEW c \in Int, NEW f, \A x \in Verifier : f[x] = IF x = i THEN c ELSE 0
  PROVE  \A s \in SUBSET Verifier : Part(f, s) = IF i \in s THEN c ELSE 0
<1> DEFINE T == {s \in SUBSET Verifier : Part(f, s) # IF i \in s THEN c ELSE 0}
<1> SUFFICES ASSUME T # {} PROVE FALSE
  OBVIOUS
<1>1. PICK s \in T : \A x \in s : s \ {x} \notin T
  <2> HIDE DEF T
  <2> QED
    BY Minimal DEF T
<1>2. s # {}
  BY PartFacts
<1>3. Pick(s) \in s /\ Pick(s) \in Verifier /\ s \ {Pick(s)} \in SUBSET Verifier
  BY <1>2, Picked
<1>4. /\ Part(f, s) = f[Pick(s)] + Part(f, s \ {Pick(s)})
      /\ Part(f, s \ {Pick(s)}) = IF i \in s \ {Pick(s)} THEN c ELSE 0
  BY <1>1, <1>2, <1>3, PartFacts
<1>5. CASE Pick(s) = i
  BY <1>1, <1>3, <1>4, <1>5
<1>6. CASE Pick(s) # i
  BY <1>1, <1>3, <1>4, <1>6
<1> QED
  BY <1>5, <1>6

\* Sums of equal values.
LEMMA PartSame ==
  ASSUME NEW f, NEW g, \A x \in Verifier : f[x] \in Int /\ g[x] = f[x]
  PROVE  \A s \in SUBSET Verifier : Part(g, s) = Part(f, s)
<1> DEFINE z == [x \in Verifier |-> 0]
<1>1. \A x \in Verifier : f[x] \in Int /\ z[x] \in Int /\ g[x] = f[x] + z[x]
  OBVIOUS
<1>2. \A x \in Verifier : z[x] = IF x = -1 THEN 0 ELSE 0
  OBVIOUS
<1> HIDE DEF z
<1>3. \A s \in SUBSET Verifier : Part(g, s) = Part(f, s) + Part(z, s) /\ Part(f, s) \in Int
  BY <1>1, PartAdd, PartInt, SMTT(40), ZenonT(40), Z3T(40)
<1>4. \A s \in SUBSET Verifier : Part(z, s) = 0
  BY <1>2, PartOne
<1> QED
  BY <1>3, <1>4

\* A table and the other way round, and the sums of its rows.
Transposed(a, b) == \A i, j \in Verifier : a[i][j] \in Int /\ b[j][i] = a[i][j]
RowSums(a, r)    == \A i \in Verifier : r[i] = Total(a[i])

\* The order of two sums.
LEMMA PartSwap ==
  ASSUME NEW a, NEW b, NEW r, NEW c, Transposed(a, b), RowSums(a, r), RowSums(b, c)
  PROVE  Total(r) = Total(c)
<1> USE DEF Transposed, RowSums
<1> DEFINE row(s) == [j \in Verifier |-> Part(b[j], s)]
           T == {s \in SUBSET Verifier : Part(r, s) # Total(row(s))}
<1>0. \A j \in Verifier, s \in SUBSET Verifier : Part(b[j], s) \in Int
  <2> SUFFICES ASSUME NEW j \in Verifier PROVE \A s \in SUBSET Verifier : Part(b[j], s) \in Int
    OBVIOUS
  <2>1. \A i \in Verifier : b[j][i] \in Int
    OBVIOUS
  <2> DEFINE f == b[j]
  <2>2. \A i \in Verifier : f[i] \in Int
    BY <2>1
  <2> HIDE DEF f
  <2>3. \A s \in SUBSET Verifier : Part(f, s) \in Int
    BY ONLY <2>2, PartInt
  <2> QED
    BY <2>3 DEF f
<1>1. T = {}
  <2> SUFFICES ASSUME T # {} PROVE FALSE
    OBVIOUS
  <2>1. PICK s \in T : \A x \in s : s \ {x} \notin T
    <3>1. T \subseteq SUBSET Verifier
      OBVIOUS
    <3> HIDE DEF T
    <3> QED
      BY <3>1, Minimal
  <2>2. s # {}
    <3>1. \A j \in Verifier : row({})[j] = IF j = -1 THEN 0 ELSE 0
      BY PartFacts
    <3>2. Total(row({})) = 0
      <4> DEFINE z == row({})
      <4>1. \A j \in Verifier : z[j] = IF j = -1 THEN 0 ELSE 0
        BY <3>1
      <4> HIDE DEF z, row
      <4>2. \A u \in SUBSET Verifier : Part(z, u) = IF -1 \in u THEN 0 ELSE 0
        BY <4>1, PartOne
      <4> QED
        BY <4>2 DEF Total, z
    <3>3. Part(r, {}) = 0
      BY PartFacts
    <3> QED
      BY <2>1, <3>2, <3>3
  <2>3. Pick(s) \in s /\ Pick(s) \in Verifier /\ s \ {Pick(s)} \in SUBSET Verifier /\ s \in SUBSET Verifier
    BY <2>1, <2>2, Picked
  <2>4. Part(r, s \ {Pick(s)}) = Total(row(s \ {Pick(s)}))
    BY <2>1, <2>3
  <2>5. Part(r, s) = r[Pick(s)] + Part(r, s \ {Pick(s)})
    BY <2>2, <2>3, PartFacts, SMTT(40), ZenonT(40)
  <2>6. \A j \in Verifier : /\ a[Pick(s)][j] \in Int /\ row(s \ {Pick(s)})[j] \in Int
                            /\ row(s)[j] = a[Pick(s)][j] + row(s \ {Pick(s)})[j]
    <3> SUFFICES ASSUME NEW j \in Verifier
                 PROVE  /\ a[Pick(s)][j] \in Int /\ row(s \ {Pick(s)})[j] \in Int
                        /\ row(s)[j] = a[Pick(s)][j] + row(s \ {Pick(s)})[j]
      OBVIOUS
    <3>1. Part(b[j], s) = b[j][Pick(s)] + Part(b[j], s \ {Pick(s)})
      BY <2>2, <2>3, PartFacts
    <3>2. b[j][Pick(s)] = a[Pick(s)][j]
      BY <2>3
    <3> QED
      BY <1>0, <2>3, <3>1, <3>2
  <2> HIDE DEF row, T
  <2>7. Total(row(s)) = Total(a[Pick(s)]) + Total(row(s \ {Pick(s)}))
    <3> DEFINE f == a[Pick(s)]  g == row(s \ {Pick(s)})  h == row(s)
    <3>1. \A x \in Verifier : f[x] \in Int /\ g[x] \in Int /\ h[x] = f[x] + g[x]
      BY <2>6
    <3> HIDE DEF f, g, h
    <3>2. \A u \in SUBSET Verifier : Part(h, u) = Part(f, u) + Part(g, u)
      BY ONLY <3>1, PartAdd
    <3> QED
      BY <3>2 DEF Total, f, g, h
  <2> QED
    BY <2>1, <2>3, <2>4, <2>5, <2>7 DEF T
<1>2. Part(r, Verifier) = Total(row(Verifier))
  BY <1>1
<1>3. \A j \in Verifier : row(Verifier)[j] = c[j] /\ c[j] \in Int
  BY <1>0 DEF Total
<1> HIDE DEF row
<1> QED
  BY <1>2, <1>3, PartSame DEF Total

-----------------------------------------------------------------------------
(* Sums mod q.                                                             *)
Same(a, b) == \E z \in Int : a = b + z * q

LEMMA Modulus == q \in Nat \ {0} /\ 0 \in Field /\ \A x \in Field : x \in Int
BY QAssumption DEF Field

LEMMA ProductInt == ASSUME NEW a \in Int, NEW b \in Int PROVE a * b \in Int
OBVIOUS

LEMMA SmallMultiple ==
  ASSUME NEW z \in Int, NEW m \in Nat \ {0}, -m < z * m, z * m < m
  PROVE  z = 0
<1>1. CASE z >= 1
  <2>1. PICK y \in Nat : z = y + 1
    BY <1>1, z - 1 \in Nat
  <2>2. z * m = y * m + m /\ y * m \in Nat
    BY <2>1
  <2> QED
    BY <2>2
<1>2. CASE z <= -1
  <2>1. PICK y \in Nat : z = -y - 1
    BY <1>2, -z - 1 \in Nat
  <2>2. z * m = -(y * m) - m /\ y * m \in Nat
    BY <2>1
  <2> QED
    BY <2>2
<1> QED
  BY <1>1, <1>2

LEMMA ModSame ==
  /\ \A a \in Int : a % q \in Field /\ Same(a % q, a) /\ Same(a, a % q)
  /\ \A a, b \in Int : Same(a, b) => a % q = b % q
  /\ \A a \in Field : a % q = a
<1>1. ASSUME NEW a \in Int PROVE a % q \in Field /\ \E z \in Int : a = (a % q) + z * q
  <2>1. a % q \in Field
    BY Modulus DEF Field
  <2>2. a = q * (a \div q) + (a % q) /\ a \div q \in Int
    BY Modulus
  <2>3. q * (a \div q) = (a \div q) * q
    BY <2>2, Modulus
  <2>4. a = (a % q) + (a \div q) * q
    BY <2>1, <2>2, <2>3, Modulus
  <2> QED
    BY <2>1, <2>2, <2>4
<1>2. \A a, b, z \in Int : a = b + z * q => b = a + (-z) * q
  <2> SUFFICES ASSUME NEW a \in Int, NEW b \in Int, NEW z \in Int, a = b + z * q
               PROVE  b = a + (-z) * q
    OBVIOUS
  <2>1. (-z) * q = -(z * q) /\ z * q \in Int
    BY Modulus
  <2> QED
    BY <2>1
<1>3. \A a \in Int : a % q \in Field /\ Same(a % q, a) /\ Same(a, a % q)
  <2> SUFFICES ASSUME NEW a \in Int PROVE a % q \in Field /\ Same(a % q, a) /\ Same(a, a % q)
    OBVIOUS
  <2>1. PICK z \in Int : a = (a % q) + z * q
    BY <1>1
  <2>2. a % q \in Int
    BY <1>1, Modulus
  <2>3. a % q = a + (-z) * q /\ -z \in Int
    BY <1>2, <2>1, <2>2
  <2> QED
    BY <1>1, <2>1, <2>3 DEF Same
<1>4. ASSUME NEW a \in Int, NEW b \in Int, Same(a, b) PROVE a % q = b % q
  <2>1. PICK z \in Int : a = b + z * q
    BY <1>4 DEF Same
  <2>2. PICK y \in Int : a = (a % q) + y * q
    BY <1>1
  <2>3. PICK x \in Int : b = (b % q) + x * q
    BY <1>1
  <2>4. PICK u \in Field, v \in Field : u = a % q /\ v = b % q
    BY <1>1
  <2>5. (x + z - y) * q = x * q + z * q - y * q /\ x * q \in Int /\ z * q \in Int /\ y * q \in Int
    BY Modulus
  <2>6. u \in Int /\ v \in Int /\ 0 <= u /\ u < q /\ 0 <= v /\ v < q
    BY Modulus DEF Field
  <2> DEFINE w == x + z - y  xq == x * q  zq == z * q  yq == y * q  wq == w * q
  <2>7. /\ u + yq = v + xq + zq /\ wq = xq + zq - yq /\ w \in Int
        /\ xq \in Int /\ yq \in Int /\ zq \in Int
    BY <2>1, <2>2, <2>3, <2>4, <2>5
  <2> HIDE DEF xq, zq, yq, w
  <2>8. wq = u - v
    <3> HIDE DEF wq
    <3> QED
      BY <2>6, <2>7
  <2>9. -q < wq /\ wq < q
    <3> HIDE DEF wq
    <3> QED
      BY <2>6, <2>8, Modulus
  <2>10. w = 0
    BY <2>7, <2>9, Modulus, SmallMultiple
  <2>11. wq = 0
    BY <2>10, Modulus
  <2> HIDE DEF wq
  <2> QED
    BY <2>4, <2>6, <2>8, <2>11
<1>5. \A a \in Field : a % q = a
  <2> SUFFICES ASSUME NEW a \in 0 .. q - 1 PROVE a % q = a
    BY DEF Field
  <2> QED
    BY Modulus
<1> QED
  BY <1>3, <1>4, <1>5

LEMMA SameAdd ==
  ASSUME NEW a \in Int, NEW b \in Int, NEW c \in Int, NEW d \in Int, Same(a, b), Same(c, d)
  PROVE  Same(a + c, b + d)
<1>1. PICK y \in Int : a = b + y * q
  BY DEF Same
<1>2. PICK z \in Int : c = d + z * q
  BY DEF Same
<1>3. (y + z) * q = y * q + z * q /\ y * q \in Int /\ z * q \in Int /\ y + z \in Int
  BY Modulus
<1>4. a + c = (b + d) + (y + z) * q
  <2> DEFINE yq == y * q  zq == z * q  w == (y + z) * q
  <2>1. a = b + yq /\ c = d + zq /\ w = yq + zq /\ yq \in Int /\ zq \in Int
    BY <1>1, <1>2, <1>3
  <2> HIDE DEF yq, zq, w
  <2>2. a + c = (b + d) + w
    BY <2>1
  <2> QED
    BY <2>2 DEF w
<1> QED
  BY <1>3, <1>4 DEF Same

\* Sums of values that are the same mod q.
LEMMA PartMod ==
  ASSUME NEW f, NEW g, \A x \in Verifier : f[x] \in Int /\ g[x] \in Int /\ Same(f[x], g[x])
  PROVE  \A s \in SUBSET Verifier : Same(Part(f, s), Part(g, s))
<1> DEFINE T == {s \in SUBSET Verifier : ~Same(Part(f, s), Part(g, s))}
<1> SUFFICES ASSUME T # {} PROVE FALSE
  OBVIOUS
<1>1. PICK s \in T : \A x \in s : s \ {x} \notin T
  <2>1. T \subseteq SUBSET Verifier
    OBVIOUS
  <2> HIDE DEF T
  <2> QED
    BY <2>1, Minimal
<1>2. s # {}
  <2>1. Part(f, {}) = 0 /\ Part(g, {}) = 0
    BY PartFacts
  <2>2. 0 = 0 + 0 * q
    BY Modulus
  <2>3. Same(Part(f, {}), Part(g, {}))
    BY <2>1, <2>2 DEF Same
  <2> QED
    BY <1>1, <2>3
<1>3. Pick(s) \in s /\ Pick(s) \in Verifier /\ s \ {Pick(s)} \in SUBSET Verifier
  BY <1>2, Picked
<1>4. Same(Part(f, s \ {Pick(s)}), Part(g, s \ {Pick(s)}))
  BY <1>1, <1>3
<1>5. /\ Part(f, s) = f[Pick(s)] + Part(f, s \ {Pick(s)})
      /\ Part(g, s) = g[Pick(s)] + Part(g, s \ {Pick(s)})
  BY <1>2, PartFacts
<1>6. Part(f, s \ {Pick(s)}) \in Int /\ Part(g, s \ {Pick(s)}) \in Int
  BY <1>3, PartInt
<1>7. Same(f[Pick(s)] + Part(f, s \ {Pick(s)}), g[Pick(s)] + Part(g, s \ {Pick(s)}))
  BY <1>3, <1>4, <1>6, SameAdd
<1> QED
  BY <1>1, <1>5, <1>7

LEMMA SameTrans ==
  ASSUME NEW a \in Int, NEW b \in Int, NEW c \in Int, Same(a, b), Same(b, c)
  PROVE  Same(a, c)
<1>1. PICK y \in Int : a = b + y * q
  BY DEF Same
<1>2. PICK z \in Int : b = c + z * q
  BY DEF Same
<1>3. (y + z) * q = y * q + z * q /\ y * q \in Int /\ z * q \in Int /\ y + z \in Int
  BY Modulus
<1>4. a = c + (y + z) * q
  <2> DEFINE yq == y * q  zq == z * q  w == (y + z) * q
  <2>1. a = b + yq /\ b = c + zq /\ w = yq + zq /\ yq \in Int /\ zq \in Int
    BY <1>1, <1>2, <1>3
  <2> HIDE DEF yq, zq, w
  <2>2. a = c + w
    BY <2>1
  <2> QED
    BY <2>2 DEF w
<1> QED
  BY <1>3, <1>4 DEF Same

LEMMA SameSelf == ASSUME NEW a \in Int PROVE Same(a, a)
<1>1. a = a + 0 * q /\ 0 \in Int
  BY Modulus
<1> QED
  BY <1>1 DEF Same

LEMMA TotalFacts ==
  /\ \A f : (\A x \in Verifier : f[x] \in Int) => Total(f) \in Int
  /\ \A f, g, h : (\A x \in Verifier : f[x] \in Int /\ g[x] \in Int /\ h[x] = f[x] + g[x])
                 => Total(h) = Total(f) + Total(g)
  /\ \A f, g : (\A x \in Verifier : f[x] \in Int /\ g[x] \in Int /\ Same(f[x], g[x]))
              => Same(Total(f), Total(g))
  /\ \A f, i, c : i \in Verifier /\ c \in Int /\ (\A x \in Verifier : f[x] = IF x = i THEN c ELSE 0)
                 => Total(f) = c
<1>1. Verifier \in SUBSET Verifier
  OBVIOUS
<1>2. \A f : (\A x \in Verifier : f[x] \in Int) => Total(f) \in Int
  BY <1>1, PartInt DEF Total
<1>3. \A f, g, h : (\A x \in Verifier : f[x] \in Int /\ g[x] \in Int /\ h[x] = f[x] + g[x])
                 => Total(h) = Total(f) + Total(g)
  BY <1>1, PartAdd DEF Total
<1>4. \A f, g : (\A x \in Verifier : f[x] \in Int /\ g[x] \in Int /\ Same(f[x], g[x]))
              => Same(Total(f), Total(g))
  BY <1>1, PartMod DEF Total
<1>5. \A f, i, c : i \in Verifier /\ c \in Int /\ (\A x \in Verifier : f[x] = IF x = i THEN c ELSE 0)
                 => Total(f) = c
  BY <1>1, PartOne DEF Total
<1> QED
  BY <1>2, <1>3, <1>4, <1>5

LEMMA SumModIs ==
  ASSUME NEW f, DOMAIN f = Verifier
  PROVE  SumMod(f) = Total(f) % q
BY SumIsTotal DEF SumMod

\* What stands in for a verifier's own share makes its deal sum to zero.
LEMMA KeptShare ==
  ASSUME NEW r \in Int
  PROVE  q - (r % q) \in Int /\ Same(q - (r % q), -r)
<1>1. r % q \in Int /\ Same(r % q, r)
  BY ModSame, Modulus
<1>2. PICK z \in Int : r % q = r + z * q
  BY <1>1 DEF Same
<1>3. (1 - z) * q = q - z * q /\ z * q \in Int /\ 1 - z \in Int /\ q \in Int
  BY Modulus
<1>4. q - (r % q) = -r + (1 - z) * q
  <2> DEFINE zq == z * q  w == (1 - z) * q  m == r % q
  <2>1. m = r + zq /\ w = q - zq /\ zq \in Int /\ q \in Int
    BY <1>2, <1>3
  <2> HIDE DEF zq, w, m
  <2>2. q - m = -r + w
    BY <2>1
  <2> QED
    BY <2>2 DEF w, m
<1>5. q - (r % q) \in Int
  BY <1>1, <1>3
<1> QED
  BY <1>3, <1>4, <1>5 DEF Same

\* The deals d of a check, the shares t of zero that come of them, and errors e masked as m.
Deals(d) == d \in [Verifier -> [Verifier -> Field]] /\ \A i \in Verifier : d[i][i] = 0
ZeroSharesOf(d, t) ==
  \A j \in Verifier :
    t[j] = SumMod([i \in Verifier |-> IF i = j THEN q - SumMod(d[j]) ELSE d[i][j]])
MaskedBy(e, t, m) ==
  /\ e \in [Verifier -> Field] /\ DOMAIN m = Verifier
  /\ \A j \in Verifier : m[j] = (e[j] + t[j]) % q

\* Whatever the verifiers deal, the shares of zero cancel in the sum of what they mask.
LEMMA ZeroSharesCancel ==
  ASSUME NEW d, NEW e, NEW t, NEW m, Deals(d), ZeroSharesOf(d, t), MaskedBy(e, t, m)
  PROVE  SumMod(m) = SumMod(e)
<1> USE DEF Deals, ZeroSharesOf, MaskedBy
<1> DEFINE R == [j \in Verifier |-> Total(d[j])]
           col == [j \in Verifier |-> [i \in Verifier |-> d[i][j]]]
           S == [j \in Verifier |-> Total(col[j])]
           row(j) == [i \in Verifier |-> IF i = j THEN q - SumMod(d[j]) ELSE d[i][j]]
           W == [j \in Verifier |-> e[j] + (S[j] - R[j])]
           U == [j \in Verifier |-> e[j] + S[j]]
<1>1. /\ \A i, j \in Verifier : d[i][j] \in Int
      /\ \A i \in Verifier : e[i] \in Int /\ DOMAIN d[i] = Verifier
      /\ Verifier \in SUBSET Verifier
  BY Modulus
<1>2. \A j \in Verifier : R[j] \in Int /\ R[j] = Total(d[j])
  <2> SUFFICES ASSUME NEW j \in Verifier PROVE Total(d[j]) \in Int
    OBVIOUS
  <2> DEFINE f == d[j]
  <2>1. \A x \in Verifier : f[x] \in Int
    BY <1>1
  <2> HIDE DEF f
  <2>2. Total(f) \in Int
    BY <2>1, PartInt DEF Total
  <2> QED
    BY <2>2 DEF f
<1>3. \A j \in Verifier : S[j] \in Int /\ S[j] = Total(col[j])
  <2> SUFFICES ASSUME NEW j \in Verifier PROVE Total(col[j]) \in Int
    OBVIOUS
  <2> DEFINE f == col[j]
  <2>1. \A x \in Verifier : f[x] \in Int
    BY <1>1
  <2> HIDE DEF f
  <2>2. Total(f) \in Int
    BY <2>1, PartInt DEF Total
  <2> QED
    BY <2>2 DEF f
<1>4. Total(R) = Total(S)
  <2>1. Transposed(d, col)
    BY <1>1 DEF Transposed
  <2>2. RowSums(d, R) /\ RowSums(col, S)
    BY DEF RowSums
  <2> HIDE DEF R, S, col
  <2> QED
    BY ONLY <2>1, <2>2, PartSwap
<1>5. ASSUME NEW j \in Verifier
      PROVE  t[j] \in Int /\ Same(t[j], S[j] - R[j])
  <2> DEFINE k == q - SumMod(d[j])
             f == col[j]
             g == [i \in Verifier |-> IF i = j THEN k ELSE 0]
             h == row(j)
  <2>1. k \in Int /\ Same(k, -R[j])
    <3>1. SumMod(d[j]) = R[j] % q
      BY <1>1, <1>2, SumModIs
    <3> HIDE DEF R
    <3> QED
      BY <1>2, <3>1, KeptShare
  <2>2. \A x \in Verifier : f[x] \in Int /\ g[x] \in Int /\ h[x] = f[x] + g[x]
    <3> HIDE DEF k
    <3>1. \A x \in Verifier : f[x] \in Int /\ f[x] = d[x][j]
      BY <1>1
    <3>2. \A x \in Verifier : g[x] \in Int /\ g[x] = IF x = j THEN k ELSE 0
      BY <2>1
    <3>3. \A x \in Verifier : h[x] = IF x = j THEN k ELSE d[x][j]
      BY DEF k
    <3>4. d[j][j] = 0
      OBVIOUS
    <3> HIDE DEF f, g, h
    <3> QED
      BY <2>1, <3>1, <3>2, <3>3, <3>4
  <2>3. \A x \in Verifier : g[x] = IF x = j THEN k ELSE 0
    OBVIOUS
  <2>4. Total(f) = S[j]
    BY <1>3
  <2>5. DOMAIN h = Verifier /\ t[j] = SumMod(h)
    OBVIOUS
  <2> HIDE DEF f, g, h, k, R, S
  <2>6. Total(h) = Total(f) + Total(g)
    BY ONLY <2>2, TotalFacts
  <2>7. Total(g) = k
    BY ONLY <2>1, <2>3, TotalFacts, j \in Verifier
  <2>8. t[j] = (S[j] + k) % q
    BY <2>4, <2>5, <2>6, <2>7, SumModIs
  <2>9. S[j] + k \in Int /\ -R[j] \in Int /\ S[j] + (-R[j]) = S[j] - R[j] /\ S[j] - R[j] \in Int
    <3> DEFINE a == S[j]  b == R[j]
    <3>1. a \in Int /\ b \in Int /\ k \in Int
      BY <1>2, <1>3, <2>1
    <3> HIDE DEF a, b
    <3>2. a + k \in Int /\ -b \in Int /\ a + (-b) = a - b /\ a - b \in Int
      BY ONLY <3>1
    <3> QED
      BY ONLY <3>2 DEF a, b
  <2>10. Same(S[j], S[j])
    BY <1>3, SameSelf
  <2>11. Same(S[j] + k, S[j] - R[j])
    <3>1. Same(S[j] + k, S[j] + (-R[j]))
      BY <1>2, <1>3, <2>1, <2>9, <2>10, SameAdd
    <3> QED
      BY <2>9, <3>1
  <2>12. t[j] \in Int /\ Same(t[j], S[j] + k)
    BY <2>8, <2>9, ModSame, Modulus, SMTT(40), ZenonT(40)
  <2> QED
    BY <2>9, <2>11, <2>12, SameTrans
<1>6. \A j \in Verifier : m[j] \in Int /\ W[j] \in Int /\ Same(m[j], W[j])
  <2> SUFFICES ASSUME NEW j \in Verifier PROVE m[j] \in Int /\ W[j] \in Int /\ Same(m[j], W[j])
    OBVIOUS
  <2>1. W[j] = e[j] + (S[j] - R[j]) /\ m[j] = (e[j] + t[j]) % q
    OBVIOUS
  <2> HIDE DEF W, S, R
  <2>2. /\ e[j] \in Int /\ t[j] \in Int /\ S[j] - R[j] \in Int /\ e[j] + t[j] \in Int
        /\ e[j] + (S[j] - R[j]) \in Int
    <3> DEFINE a == S[j]  b == R[j]  c == e[j]  x == t[j]
    <3>1. a \in Int /\ b \in Int /\ c \in Int /\ x \in Int
      BY <1>1, <1>2, <1>3, <1>5
    <3> HIDE DEF a, b, c, x
    <3>2. c \in Int /\ x \in Int /\ a - b \in Int /\ c + x \in Int /\ c + (a - b) \in Int
      BY ONLY <3>1
    <3> QED
      BY ONLY <3>2 DEF a, b, c, x
  <2>3. Same(e[j], e[j])
    BY <2>2, SameSelf
  <2>4. Same(e[j] + t[j], e[j] + (S[j] - R[j]))
    BY <1>5, <2>2, <2>3, SameAdd
  <2>5. m[j] \in Int /\ Same(m[j], e[j] + t[j])
    BY <2>1, <2>2, ModSame, Modulus, ZenonT(60), SMTT(40), Z3T(40)
  <2> QED
    BY <2>1, <2>2, <2>4, <2>5, SameTrans
<1>7. Same(Total(m), Total(W)) /\ Total(m) \in Int /\ Total(W) \in Int
  <2> HIDE DEF W
  <2> QED
    BY ONLY <1>6, TotalFacts
<1>8. \A j \in Verifier : /\ e[j] \in Int /\ S[j] \in Int /\ R[j] \in Int /\ W[j] \in Int
                          /\ U[j] = e[j] + S[j] /\ U[j] = W[j] + R[j]
  <2> SUFFICES ASSUME NEW j \in Verifier
               PROVE  /\ e[j] \in Int /\ S[j] \in Int /\ R[j] \in Int /\ W[j] \in Int
                      /\ U[j] = e[j] + S[j] /\ U[j] = W[j] + R[j]
    OBVIOUS
  <2>1. U[j] = e[j] + S[j] /\ W[j] = e[j] + (S[j] - R[j])
    OBVIOUS
  <2> DEFINE a == S[j]  b == R[j]  c == e[j]  u == U[j]  w == W[j]
  <2>2. a \in Int /\ b \in Int /\ c \in Int /\ u = c + a /\ w = c + (a - b)
    BY <1>1, <1>2, <1>3, <2>1
  <2> HIDE DEF a, b, c, u, w
  <2>3. c \in Int /\ a \in Int /\ b \in Int /\ w \in Int /\ u = c + a /\ u = w + b
    BY ONLY <2>2
  <2> QED
    BY ONLY <2>3 DEF a, b, c, u, w
<1> HIDE DEF U, W, S, R
<1>9. Total(U) = Total(e) + Total(S)
  BY ONLY <1>8, TotalFacts
<1>10. Total(U) = Total(W) + Total(R)
  BY ONLY <1>8, TotalFacts
<1>11. Total(e) \in Int /\ Total(S) \in Int
  BY ONLY <1>8, TotalFacts
<1>12. Total(W) = Total(e)
  <2> DEFINE a == Total(e)  b == Total(S)  r == Total(R)  w == Total(W)  u == Total(U)
  <2>1. u = a + b /\ u = w + r /\ r = b /\ a \in Int /\ b \in Int /\ w \in Int
    BY <1>4, <1>7, <1>9, <1>10, <1>11
  <2> HIDE DEF a, b, r, w, u
  <2>2. w = a
    BY ONLY <2>1
  <2> QED
    BY <2>2 DEF a, w
<1>13. SumMod(m) = Total(m) % q /\ SumMod(e) = Total(e) % q
  BY SumModIs
<1> QED
  BY <1>7, <1>12, <1>13, ModSame

-----------------------------------------------------------------------------
(* The verdict.                                                            *)
DrawnOK ==
  /\ coin \in [Verifier -> Field] /\ deal \in [Verifier -> [Verifier -> Field]]
  /\ \A i \in Verifier : deal[i][i] = 0

Judged == \A i \in Verifier : /\ verdict[i] = "passed" => Right
                              /\ verdict[i] = "failed" => ~Right

LEMMA CaseType ==
  ASSUME case \in Cases
  PROVE  /\ case.check \in {"batch", "public"}
         /\ case.err \in [Verifier -> Field] /\ case.share \in [Verifier -> Field]
BY CasesAssumption

LEMMA Ending ==
  ASSUME case \in Cases
  PROVE  /\ Exchanges[Len(Exchanges)] = "open"
         /\ \E x \in 1 .. Len(Exchanges) - 1 : Exchanges[x] = "zero"
         /\ \E x \in 1 .. Len(Exchanges) - 1 : Exchanges[x] = "com"
         /\ case.check = "batch" => \E x \in 1 .. Len(Exchanges) - 1 : Exchanges[x] = "vals"
         /\ case.check = "public" => \E x \in 1 .. Len(Exchanges) - 1 : Exchanges[x] = "show"
<1>1. CASE case.check = "batch"
  <2>1. Exchanges = <<"echo", "vals", "zero", "com", "open">>
    BY <1>1 DEF Exchanges
  <2>2. Len(Exchanges) = 5 /\ 2 \in 1 .. 5 - 1 /\ 3 \in 1 .. 5 - 1 /\ 4 \in 1 .. 5 - 1
    BY <2>1
  <2>3. /\ Exchanges[5] = "open" /\ Exchanges[3] = "zero" /\ Exchanges[4] = "com"
        /\ Exchanges[2] = "vals"
    BY <2>1
  <2> QED
    BY <1>1, <2>2, <2>3
<1>2. CASE case.check # "batch"
  <2>1. Exchanges = <<"echo", "flip", "show", "zero", "com", "open">>
    BY <1>2 DEF Exchanges
  <2>2. Len(Exchanges) = 6 /\ 3 \in 1 .. 6 - 1 /\ 4 \in 1 .. 6 - 1 /\ 5 \in 1 .. 6 - 1
    BY <2>1
  <2>3. /\ Exchanges[6] = "open" /\ Exchanges[4] = "zero" /\ Exchanges[5] = "com"
        /\ Exchanges[3] = "show"
    BY <2>1
  <2> QED
    BY <1>2, <2>2, <2>3
<1> QED
  BY <1>1, <1>2

\* What was said behind the exchange a verifier is in.
LEMMA HeardBehind ==
  ASSUME IInv, NEW i \in Verifier, NEW j \in Verifier, i # j,
         NEW x \in 1 .. Len(Exchanges), x < at[i]
  PROVE  Heard(i, Exchanges[x], j) = Said(j, i, Exchanges[x])
<1>1. HeardIs(got[i][Exchanges[x]][j], x, at[i], Rcvd(i, j), Piece(j, i, Exchanges[x]))
  BY DEF IInv, HeardOK
<1>2. got[i][Exchanges[x]][j] = {Piece(j, i, Exchanges[x])}
  BY <1>1 DEF HeardIs
<1>3. Heard(i, Exchanges[x], j) = Piece(j, i, Exchanges[x]).v
  BY <1>2 DEF Heard, Value
<1> QED
  BY <1>3 DEF Piece

\* At the end of a check each verifier has the sums of what all of them had.
LEMMA EndSums ==
  ASSUME IInv, DrawnOK, NEW i \in Verifier, from[i] = n, at[i] = Len(Exchanges)
  PROVE  /\ \A j \in Peers(i) : Heard(i, "open", j) = Heard(i, "com", j)
         /\ Opened(i, "open", Masked(i)) = SumMod(case.err)
         /\ case.check = "batch" => Opened(i, "vals", case.share[i]) = SumMod(case.share)
         /\ case.check = "public" => CoinOf(i) = SumMod(coin)
<1> DEFINE L == Len(Exchanges)
<1>1. case \in Cases /\ L \in Nat /\ L > 1
  BY Order DEF IInv, TypeOK
<1>2. /\ case.check \in {"batch", "public"}
      /\ case.err \in [Verifier -> Field] /\ case.share \in [Verifier -> Field]
  BY <1>1, CaseType
<1>3. \A j \in Verifier : at[j] = L
  <2> SUFFICES ASSUME NEW j \in Verifier, j # i PROVE at[j] = L
    OBVIOUS
  <2>1. at[j] >= at[i] /\ at[j] <= L /\ at[j] \in Nat /\ at[i] \in Nat
    BY Known, Amounts
  <2> QED
    BY <1>1, <2>1
<1>4. ASSUME NEW x \in 1 .. L - 1, NEW j \in Verifier, NEW m \in Verifier, j # m
      PROVE  Heard(j, Exchanges[x], m) = Said(m, j, Exchanges[x])
  <2>1. x \in 1 .. Len(Exchanges) /\ x < at[j]
    BY <1>1, <1>3
  <2> QED
    BY <1>4, <2>1, HeardBehind
<1>5. /\ \A j, m \in Verifier : j # m => Heard(j, "zero", m) = deal[m][j]
      /\ \A j, m \in Verifier : j # m => Heard(j, "com", m) = Masked(m)
      /\ case.check = "batch" =>
           \A j, m \in Verifier : j # m => Heard(j, "vals", m) = case.share[m]
      /\ case.check = "public" =>
           \A j, m \in Verifier : j # m => Heard(j, "show", m) = coin[m]
  BY <1>1, <1>4, Ending, SMTT(40), ZenonT(40) DEF Said
<1>6. \A j \in Verifier : j # i => Heard(i, "open", j) = Masked(j)
  <2>1. at[i] \in 1 .. at[i] /\ Exchanges[at[i]] = "open"
    BY <1>1, Ending
  <2>2. \A j \in Verifier : j # i => Heard(i, "open", j) = Said(j, i, "open")
    BY <2>1, Known
  <2> QED
    BY <2>2 DEF Said
<1>7. \A j \in Peers(i) : Heard(i, "open", j) = Heard(i, "com", j)
  BY <1>5, <1>6 DEF Peers
<1>8. Opened(i, "open", Masked(i)) = SumMod(case.err)
  <2> DEFINE t == [j \in Verifier |-> Theta(j)]
             m == [j \in Verifier |-> Masked(j)]
             d == deal
             e == case.err
  <2>1. ASSUME NEW j \in Verifier
        PROVE  t[j] = SumMod([x \in Verifier |-> IF x = j THEN q - SumMod(d[j]) ELSE d[x][j]])
    <3>1. [x \in Verifier |-> IF x = j THEN q - SumMod(deal[j]) ELSE Heard(j, "zero", x)]
            = [x \in Verifier |-> IF x = j THEN q - SumMod(deal[j]) ELSE deal[x][j]]
      BY <1>5
    <3>2. t[j] = Theta(j)
      OBVIOUS
    <3> QED
      BY <3>1, <3>2 DEF Theta
  <2>2. \A j \in Verifier : m[j] = (e[j] + t[j]) % q
    BY DEF Masked
  <2>3. /\ d \in [Verifier -> [Verifier -> Field]] /\ (\A x \in Verifier : d[x][x] = 0)
        /\ e \in [Verifier -> Field] /\ DOMAIN m = Verifier
    BY <1>2 DEF DrawnOK
  <2>4. [j \in Verifier |-> IF j = i THEN Masked(i) ELSE Heard(i, "open", j)] = m
    BY <1>6
  <2>5. Opened(i, "open", Masked(i)) = SumMod(m)
    BY <2>4 DEF Opened
  <2>6. Deals(d) /\ ZeroSharesOf(d, t) /\ MaskedBy(e, t, m)
    <3> HIDE DEF t, m, d, e
    <3> QED
      BY ONLY <2>1, <2>2, <2>3 DEF Deals, ZeroSharesOf, MaskedBy
  <2> HIDE DEF t, m, d, e
  <2>7. SumMod(m) = SumMod(e)
    BY ONLY <2>6, ZeroSharesCancel
  <2> QED
    BY <2>5, <2>7 DEF e
<1>9. case.check = "batch" => Opened(i, "vals", case.share[i]) = SumMod(case.share)
  <2> SUFFICES ASSUME case.check = "batch"
               PROVE  Opened(i, "vals", case.share[i]) = SumMod(case.share)
    OBVIOUS
  <2>1. [j \in Verifier |-> IF j = i THEN case.share[i] ELSE Heard(i, "vals", j)] = case.share
    BY <1>2, <1>5
  <2> QED
    BY <2>1 DEF Opened
<1>10. case.check = "public" => CoinOf(i) = SumMod(coin)
  <2> SUFFICES ASSUME case.check = "public" PROVE CoinOf(i) = SumMod(coin)
    OBVIOUS
  <2>1. [j \in Verifier |-> IF j = i THEN coin[i] ELSE Heard(i, "show", j)] = coin
    BY <1>5 DEF DrawnOK
  <2> QED
    BY <2>1 DEF Opened, CoinOf
<1> QED
  BY <1>7, <1>8, <1>9, <1>10

LEMMA DrawnInit == Init => DrawnOK /\ Judged
BY Modulus DEF Init, DrawnOK, Judged

LEMMA DrawnStep == ASSUME IInv, DrawnOK, [Next]_vars PROVE DrawnOK'
<1>1. CASE \E a \in Verifier : Judge(a)
  <2>1. PICK a \in Verifier : Judge(a)
    BY <1>1
  <2>2. CASE UNCHANGED <<deal, coin>>
    BY <2>2 DEF DrawnOK
  <2>3. CASE Draw(a, Exchanges[at[a] + 1])
    <3>1. coin' \in [Verifier -> Field]
      BY <2>3, CoinsAssumption DEF Draw, DrawnOK
    <3>2. deal' \in [Verifier -> [Verifier -> Field]] /\ \A i \in Verifier : deal'[i][i] = 0
      <4>1. CASE deal' = deal
        BY <4>1 DEF DrawnOK
      <4>2. CASE \E d \in Dealt : deal' = [deal EXCEPT ![a] = [d EXCEPT ![a] = 0]]
        <5>1. PICK d \in Dealt : deal' = [deal EXCEPT ![a] = [d EXCEPT ![a] = 0]]
          BY <4>2
        <5>2. d \in [Verifier -> Field] /\ 0 \in Field
          BY DealtAssumption, Modulus
        <5>3. [d EXCEPT ![a] = 0] \in [Verifier -> Field] /\ [d EXCEPT ![a] = 0][a] = 0
          BY <5>2
        <5> QED
          BY <5>1, <5>3 DEF DrawnOK
      <4> QED
        BY <2>3, <4>1, <4>2 DEF Draw
    <3> QED
      BY <3>1, <3>2 DEF DrawnOK
  <2> QED
    BY <2>1, <2>2, <2>3 DEF Judge
<1>2. CASE UNCHANGED <<deal, coin>>
  BY <1>2 DEF DrawnOK
<1> QED
  BY <1>1, <1>2 DEF Next, Write, Read, Cut, Crash, Terminated, vars

LEMMA JudgedStep == ASSUME IInv, DrawnOK, Judged, [Next]_vars PROVE Judged'
<1>1. ASSUME case' = case, verdict' = verdict PROVE Judged'
  BY <1>1 DEF Judged, Right, SameDigests
<1>2. ASSUME NEW a \in Verifier, case' = case, NEW v \in Verdicts,
             verdict' = [verdict EXCEPT ![a] = v],
             v = "passed" => Right, v = "failed" => ~Right
      PROVE  Judged'
  <2>1. Right' <=> Right
    BY <1>2 DEF Right, SameDigests
  <2>2. verdict'[a] = v /\ \A i \in Verifier : i # a => verdict'[i] = verdict[i]
    BY <1>2 DEF IInv, TypeOK
  <2> QED
    BY <1>2, <2>1, <2>2 DEF Judged
<1>3. ASSUME NEW a \in Verifier, Judge(a) PROVE Judged'
  <2>1. Joined(a) /\ from[a] = n /\ case' = case
    BY <1>3 DEF Judge, CanJudge, Joined
  <2>2. CASE Fails(a) \/ at[a] = Len(Exchanges)
    <3>1. PICK v \in Verdicts : v = IF Fails(a) THEN "failed" ELSE "passed"
      BY DEF Verdicts
    <3>2. verdict' = [verdict EXCEPT ![a] = v]
      BY <1>3, <2>2, <3>1 DEF Judge
    <3>3. v = IF Right THEN "passed" ELSE "failed"
      <4>1. CASE at[a] = Len(Exchanges)
        <5>1. Kind(a) = "open" /\ case.check \in {"batch", "public"} /\ SameDigests
          <6>1. case \in Cases
            BY DEF IInv, TypeOK
          <6>2. at[a] > 1
            BY <4>1, <6>1, Order
          <6> QED
            BY <4>1, <6>1, <6>2, Ending, CaseType DEF Kind, IInv, VerdictOK
        <5>2. Fails(a) <=> \/ Opened(a, "open", Masked(a)) # 0
                           \/ case.check = "batch" /\ Opened(a, "vals", case.share[a]) # 0
          BY <2>1, <4>1, <5>1, EndSums DEF Fails
        <5>3. Fails(a) <=> ~Right
          BY <2>1, <4>1, <5>1, <5>2, EndSums DEF Right
        <5> QED
          BY <3>1, <5>3
      <4>2. CASE at[a] # Len(Exchanges)
        <5>1. Fails(a) /\ ~SameDigests
          BY <2>1, <2>2, <4>2, Failing
        <5> QED
          BY <3>1, <5>1 DEF Right
      <4> QED
        BY <4>1, <4>2
    <3> QED
      BY <1>2, <2>1, <3>2, <3>3
  <2>3. CASE ~(Fails(a) \/ at[a] = Len(Exchanges))
    <3>1. verdict' = verdict
      BY <1>3, <2>3 DEF Judge
    <3> QED
      BY <1>1, <2>1, <3>1
  <2> QED
    BY <2>2, <2>3
<1>4. ASSUME NEW a \in Verifier, Cut(a) \/ Crash(a) PROVE Judged'
  <2>1. PICK v \in {"cut", "crashed"} : verdict' = [verdict EXCEPT ![a] = v]
    BY <1>4 DEF Cut, Crash
  <2> QED
    BY <1>2, <1>4, <2>1 DEF Cut, Crash, Verdicts
<1>5. ASSUME NEW a \in Verifier, Write(a) \/ Read(a) PROVE Judged'
  BY <1>1, <1>5 DEF Write, Read
<1>6. CASE UNCHANGED vars
  BY <1>1, <1>6 DEF vars
<1> QED
  BY <1>3, <1>4, <1>5, <1>6 DEF Next, Terminated

(* The verifiers come to one verdict, the right one, and to one coin, for   *)
(* every number of verifiers and every modulus, whatever shares of zero     *)
(* zero_shares() deals: they cancel in the sum that macCheckZero() opens.   *)
THEOREM OneVerdict == Spec => []VerdictExact
<1>1. IInv /\ DrawnOK /\ Judged => VerdictExact
  <2> SUFFICES ASSUME IInv, DrawnOK, Judged, NEW i \in Verifier,
                      verdict[i] = "passed", case.check = "public"
               PROVE  CoinOf(i) = SumMod(coin)
    BY DEF VerdictExact, Judged
  <2>1. from[i] = n /\ at[i] = Len(Exchanges)
    BY DEF IInv, LocalOK
  <2> QED
    BY <2>1, EndSums
<1> QED
  BY <1>1, Invariance, DrawnInit, DrawnStep, JudgedStep, PTL DEF Spec

-----------------------------------------------------------------------------
(* The n-party VOLE.                                                       *)

LEMMA Pools == n \in Nat \ {0, 1} /\ peer_par \in [V!Verifier -> Nat \ {0}] /\ Extends \in Nat
BY NAssumption, PeerParAssumption, ExtendsAssumption DEF V!Verifier, Verifier

USE Pools

(* The same operator, by either name.                                      *)
LEMMA PoolSize == ASSUME NEW S PROVE V!Cardinality(S) = Cardinality(S)
BY DEF V!Cardinality, Cardinality

(* A non-empty set of verifiers has a least id.                            *)
LEMMA LeastVerifier ==
  ASSUME NEW S, S \subseteq V!Verifier, S # {}
  PROVE  \E x \in S : \A y \in S : x <= y
<1>1. S \subseteq Nat
  BY DEF V!Verifier
<1>2. PICK x \in S : \A y \in S : <<y, x>> \notin OpToRel(<, Nat)
  BY <1>1, WFMin, NatLessThanWellFounded
<1>3. \A y \in S : ~(y < x)
  BY <1>1, <1>2 DEF OpToRel
<1>4. x \in S /\ \A y \in S : x <= y
  <2> SUFFICES ASSUME NEW y \in S PROVE x <= y
    OBVIOUS
  <2>1. x \in Nat /\ y \in Nat /\ ~(y < x)
    BY <1>1, <1>3
  <2> QED
    BY <2>1
<1> QED
  BY <1>4

LEMMA VoleInit == V!Init => V!IInv
<1> SUFFICES ASSUME V!Init PROVE V!IInv
  OBVIOUS
<1>1. V!TypeOK
  BY DEF V!Init, V!TypeOK, V!Verifier
<1>2. V!TasksWellFormed /\ V!TasksOrdered /\ V!StepsOfRound
  BY DEF V!Init, V!TasksWellFormed, V!TasksOrdered, V!StepsOfRound, V!Unfinished, V!Peers, V!Verifier
<1>3. V!CommitterAhead /\ V!KingInStep
  BY DEF V!Init, V!CommitterAhead, V!KingInStep, V!Peers, V!Verifier
<1> QED
  BY <1>1, <1>2, <1>3 DEF V!IInv

(* The prover's steps touch only what KingInStep and the types speak of.   *)
LEMMA KingSteps ==
  ASSUME V!IInv, V!KingStep
  PROVE  V!IInv'
<1> USE DEF V!IInv
<1>1. UNCHANGED <<main, round, queued, running, step, secrets, nonced>>
  BY DEF V!KingStep, V!Publish, V!Collect, V!Relay, V!meshVars
<1>0. /\ kat \in 0 .. n - 1 /\ kround \in 0 .. Extends /\ n \in Nat /\ n > 1
      /\ \A i \in V!Verifier : i \in 0 .. n - 1 /\ sent[i] \in Nat /\ relayed[i] \in Nat
  BY SMTT(40), ZenonT(40) DEF V!TypeOK, V!Verifier
<1>6. kat' \in V!Verifier /\ kround' \in 0 .. Extends /\ king' \in {"publish", "collect", "relay", "done"}
  <2>1. king \in {"publish", "collect", "relay", "done"}
    BY DEF V!TypeOK
  <2>2. kat' \in 0 .. n - 1
    BY <1>0 DEF V!KingStep, V!Publish, V!Collect, V!Relay, V!NextVerifier
  <2>3. kround' \in 0 .. Extends
    BY <1>0 DEF V!KingStep, V!Publish, V!Collect, V!Relay
  <2>4. king' \in {"publish", "collect", "relay", "done"}
    BY <2>1 DEF V!KingStep, V!Publish, V!Collect, V!Relay, V!NextVerifier
  <2> QED
    BY <2>2, <2>3, <2>4 DEF V!Verifier
<1>7. sent' \in [V!Verifier -> Nat] /\ relayed' \in [V!Verifier -> Nat]
  BY <1>0 DEF V!KingStep, V!Publish, V!Collect, V!Relay, V!TypeOK
<1>2. V!TypeOK'
  BY <1>1, <1>6, <1>7 DEF V!TypeOK
<1>3. V!TasksWellFormed' /\ V!TasksOrdered'
  BY <1>1 DEF V!TasksWellFormed, V!TasksOrdered, V!Unfinished
<1>4. V!StepsOfRound' /\ V!CommitterAhead'
  BY <1>1 DEF V!StepsOfRound, V!CommitterAhead, V!Unfinished, V!Commits
<1>5. V!KingInStep'
  <2>1. CASE V!Publish
    <3>1. /\ king = "publish" /\ kround' = kround /\ relayed' = relayed
          /\ sent' = [sent EXCEPT ![kat] = @ + 1]
          /\ IF kat = n - 1 THEN king' = "collect" /\ kat' = 0 ELSE king' = king /\ kat' = kat + 1
      BY <2>1 DEF V!Publish, V!NextVerifier
    <3>2. \A i \in V!Verifier : sent'[i] = IF i = kat THEN sent[i] + 1 ELSE sent[i]
      BY <3>1 DEF V!TypeOK
    <3> QED
      BY <1>0, <1>1, <3>1, <3>2 DEF V!KingInStep
  <2>2. CASE V!Collect
    <3>1. /\ king = "collect" /\ kround' = kround /\ relayed' = relayed /\ sent' = sent
          /\ nonced[kat] > kround
          /\ IF kat = n - 1 THEN king' = "relay" /\ kat' = 0 ELSE king' = king /\ kat' = kat + 1
      BY <2>2 DEF V!Collect, V!NextVerifier
    <3> QED
      BY <1>0, <1>1, <3>1 DEF V!KingInStep
  <2>3. CASE V!Relay
    <3>1. /\ king = "relay" /\ sent' = sent
          /\ relayed' = [relayed EXCEPT ![kat] = @ + 1]
          /\ kround' = IF kat = n - 1 /\ kround < Extends THEN kround + 1 ELSE kround
          /\ IF kat = n - 1
             THEN king' = (IF kround = Extends THEN "done" ELSE "publish") /\ kat' = 0
             ELSE king' = king /\ kat' = kat + 1
      BY <2>3 DEF V!Relay, V!NextVerifier
    <3>2. \A i \in V!Verifier : relayed'[i] = IF i = kat THEN relayed[i] + 1 ELSE relayed[i]
      BY <3>1 DEF V!TypeOK
    <3>3. nonced[kat] > kround /\ relayed[kat] = kround
      BY <1>0, <3>1 DEF V!KingInStep, V!Verifier
    <3> QED
      BY <1>0, <1>1, <3>1, <3>2, <3>3 DEF V!KingInStep
  <2> QED
    BY <2>1, <2>2, <2>3 DEF V!KingStep
<1> QED
  BY <1>2, <1>3, <1>4, <1>5

LEMMA ReceiveStep ==
  ASSUME V!IInv, NEW i \in V!Verifier, V!Receive(i)
  PROVE  V!IInv'
<1> USE DEF V!IInv
<1>0. \A j \in V!Verifier : step[i][j] \in Nat /\ round[i] \in Nat
  BY DEF V!TypeOK
<1>1. V!TypeOK'
  BY DEF V!Receive, V!TypeOK, V!Peers, V!kingVars
<1>2. V!TasksWellFormed'
  BY DEF V!Receive, V!TasksWellFormed, V!Unfinished, V!Peers, V!TypeOK
<1>3. V!TasksOrdered'
  BY DEF V!Receive, V!TasksOrdered, V!Peers, V!TypeOK
<1>4. V!StepsOfRound'
  BY DEF V!Receive, V!StepsOfRound, V!TasksWellFormed, V!Unfinished, V!Peers, V!TypeOK
<1>5. V!CommitterAhead'
  BY DEF V!Receive, V!CommitterAhead, V!Commits
<1>6. V!KingInStep'
  BY DEF V!Receive, V!KingInStep, V!TypeOK, V!kingVars
<1> QED
  BY <1>1, <1>2, <1>3, <1>4, <1>5, <1>6

LEMMA StartStep ==
  ASSUME V!IInv, NEW i \in V!Verifier, V!StartTask(i)
  PROVE  V!IInv'
<1> USE DEF V!IInv
<1>1. PICK j \in queued[i] :
        /\ V!NextTask(i, j)
        /\ queued' = [queued EXCEPT ![i] = @ \ {j}]
        /\ running' = [running EXCEPT ![i] = @ \cup {j}]
        /\ UNCHANGED <<main, round, step, secrets, V!kingVars, nonced>>
  BY DEF V!StartTask
<1>2. V!TypeOK'
  BY <1>1 DEF V!TypeOK, V!kingVars
<1>3. V!TasksWellFormed'
  BY <1>1 DEF V!TasksWellFormed, V!Unfinished, V!TypeOK
<1>4. V!TasksOrdered'
  <2> SUFFICES ASSUME NEW a \in V!Verifier, NEW b \in queued'[a], NEW k \in V!Peers(a), k > b
               PROVE  k \in queued'[a]
    BY DEF V!TasksOrdered
  <2>1. b \in queued[a] /\ k \in queued[a]
    BY <1>1 DEF V!TasksOrdered, V!TypeOK
  <2>2. a = i => k # j
    <3>1. a = i => j <= b
      BY <1>1, <2>1 DEF V!NextTask
    <3>2. j \in Nat /\ b \in Nat /\ k \in Nat
      BY <1>1, <2>1 DEF V!TasksWellFormed, V!Peers, V!Verifier
    <3> QED
      BY <3>1, <3>2
  <2> QED
    BY <1>1, <2>1, <2>2 DEF V!TypeOK
<1>5. V!StepsOfRound'
  BY <1>1 DEF V!StepsOfRound, V!Unfinished, V!TasksWellFormed, V!TypeOK
<1>6. V!CommitterAhead'
  BY <1>1 DEF V!CommitterAhead, V!Commits
<1>7. V!KingInStep'
  BY <1>1 DEF V!KingInStep, V!kingVars
<1> QED
  BY <1>2, <1>3, <1>4, <1>5, <1>6, <1>7

(* A direction completed by i with j keeps everything but CommitterAhead,  *)
(* which depends on the end that completed it.                             *)
LEMMA AdvanceStep ==
  ASSUME V!IInv, NEW i \in V!Verifier, NEW j \in running[i], V!Advance(i, j),
         UNCHANGED <<main, round, queued, V!kingVars, nonced>>,
         secrets' \in [V!Verifier -> Nat]
  PROVE  V!TypeOK' /\ V!TasksWellFormed' /\ V!TasksOrdered' /\ V!StepsOfRound' /\ V!KingInStep'
<1> USE DEF V!IInv
<1>0. j \in V!Peers(i) /\ j \in V!Verifier /\ step[i][j] \in Nat /\ round[i] \in Nat
  BY DEF V!TasksWellFormed, V!Peers, V!TypeOK
<1>1. V!TypeOK'
  <2>1. step' \in [V!Verifier -> [V!Verifier -> Nat]]
    BY <1>0 DEF V!Advance, V!TypeOK
  <2>2. running' \in [V!Verifier -> SUBSET V!Verifier]
    BY DEF V!Advance, V!TypeOK
  <2> QED
    BY <2>1, <2>2 DEF V!TypeOK, V!kingVars
<1>2. V!TasksWellFormed'
  BY DEF V!Advance, V!TasksWellFormed, V!Unfinished, V!TypeOK
<1>3. V!TasksOrdered'
  BY DEF V!TasksOrdered
<1>4. V!StepsOfRound'
  <2> SUFFICES ASSUME NEW a \in V!Verifier, NEW b \in V!Peers(a)
               PROVE  /\ main[a] = "wait" \/ b \in queued[a] => step'[a][b] = 2 * round[a]
                      /\ b \in running'[a] => step'[a][b] \in {2 * round[a], 2 * round[a] + 1}
                      /\ main[a] # "wait" /\ b \notin queued[a] \cup running'[a] =>
                           step'[a][b] = 2 * round[a] + 2
    BY DEF V!StepsOfRound, V!Unfinished
  <2>1. CASE a = i /\ b = j
    <3>1. step'[a][b] = step[i][j] + 1
      BY <1>0, <2>1 DEF V!Advance, V!TypeOK
    <3>2. step[i][j] \in {2 * round[i], 2 * round[i] + 1}
      BY <1>0 DEF V!StepsOfRound
    <3>3. main[i] = "mesh" /\ j \notin queued[i]
      BY DEF V!TasksWellFormed, V!Unfinished
    <3>4. j \in running'[i] <=> step[i][j] # 2 * round[i] + 1
      BY <1>0 DEF V!Advance, V!PairDone, V!TypeOK
    <3> QED
      BY <1>0, <2>1, <3>1, <3>2, <3>3, <3>4
  <2>2. CASE ~(a = i /\ b = j)
    <3>1. step'[a][b] = step[a][b]
      BY <1>0, <2>2 DEF V!Advance, V!TypeOK, V!Peers
    <3>2. b \in running'[a] <=> b \in running[a]
      BY <1>0, <2>2 DEF V!Advance, V!TypeOK
    <3> QED
      BY <3>1, <3>2 DEF V!StepsOfRound, V!Unfinished
  <2> QED
    BY <2>1, <2>2
<1>5. V!KingInStep'
  BY DEF V!KingInStep, V!kingVars
<1> QED
  BY <1>1, <1>2, <1>3, <1>4, <1>5

LEMMA CommitStep ==
  ASSUME V!IInv, NEW i \in V!Verifier, NEW j \in V!Verifier, V!Commit(i, j)
  PROVE  V!IInv'
<1> USE DEF V!IInv
<1>0. /\ j \in running[i] /\ j \in V!Peers(i) /\ i \in V!Peers(j)
      /\ step[i][j] \in Nat /\ step[j][i] = step[i][j] /\ ~V!Commits(j, i)
      /\ V!Advance(i, j) /\ UNCHANGED <<main, round, queued, V!kingVars, nonced>>
  BY DEF V!Commit, V!TasksWellFormed, V!Peers, V!TypeOK
<1>1. secrets' \in [V!Verifier -> Nat]
  BY DEF V!Commit, V!TypeOK
<1>2. V!TypeOK' /\ V!TasksWellFormed' /\ V!TasksOrdered' /\ V!StepsOfRound' /\ V!KingInStep'
  BY <1>0, <1>1, AdvanceStep
<1>3. /\ step'[i][j] = step[i][j] + 1
      /\ \A a \in V!Verifier : \A b \in V!Peers(a) : ~(a = i /\ b = j) => step'[a][b] = step[a][b]
  BY <1>0 DEF V!Advance, V!TypeOK, V!Peers
<1>4. V!CommitterAhead'
  <2> SUFFICES ASSUME NEW a \in V!Verifier, NEW b \in V!Peers(a), step'[a][b] > step'[b][a]
               PROVE  /\ step'[a][b] = step'[b][a] + 1
                      /\ ~(step'[b][a] % 2 = 0 <=> b > a)
    BY DEF V!CommitterAhead, V!Commits
  <2>1. b \in V!Verifier /\ a \in V!Peers(b) /\ step[a][b] \in Nat /\ step[b][a] \in Nat
    BY DEF V!Peers, V!TypeOK
  <2>2. CASE a = i /\ b = j
    <3>1. step'[b][a] = step[b][a]
      BY <1>0, <1>3, <2>1, <2>2 DEF V!Peers
    <3> QED
      BY <1>0, <1>3, <2>2, <3>1 DEF V!Commits
  <2>3. CASE a = j /\ b = i
    <3>1. step'[a][b] = step[a][b]
      BY <1>0, <1>3, <2>1, <2>3 DEF V!Peers
    <3> QED
      BY <1>0, <1>3, <2>3, <3>1
  <2>4. CASE ~(a = i /\ b = j) /\ ~(a = j /\ b = i)
    <3>1. step'[a][b] = step[a][b] /\ step'[b][a] = step[b][a]
      BY <1>3, <2>1, <2>4
    <3> QED
      BY <2>1, <3>1 DEF V!CommitterAhead, V!Commits
  <2> QED
    BY <2>2, <2>3, <2>4
<1> QED
  BY <1>2, <1>4

LEMMA VerifyStep ==
  ASSUME V!IInv, NEW i \in V!Verifier, NEW j \in V!Verifier, V!Verify(i, j)
  PROVE  V!IInv'
<1> USE DEF V!IInv
<1>0. /\ j \in running[i] /\ j \in V!Peers(i) /\ i \in V!Peers(j)
      /\ step[i][j] \in Nat /\ step[j][i] \in Nat /\ step[j][i] > step[i][j]
      /\ V!Advance(i, j) /\ UNCHANGED <<main, round, queued, V!kingVars, nonced>>
  BY DEF V!Verify, V!TasksWellFormed, V!Peers, V!TypeOK
<1>1. secrets' \in [V!Verifier -> Nat]
  BY DEF V!Verify, V!TypeOK
<1>2. V!TypeOK' /\ V!TasksWellFormed' /\ V!TasksOrdered' /\ V!StepsOfRound' /\ V!KingInStep'
  BY <1>0, <1>1, AdvanceStep
<1>3. /\ step'[i][j] = step[i][j] + 1
      /\ \A a \in V!Verifier : \A b \in V!Peers(a) : ~(a = i /\ b = j) => step'[a][b] = step[a][b]
  BY <1>0 DEF V!Advance, V!TypeOK, V!Peers
<1>4. step[j][i] = step[i][j] + 1
  BY <1>0 DEF V!CommitterAhead
<1>5. V!CommitterAhead'
  <2> SUFFICES ASSUME NEW a \in V!Verifier, NEW b \in V!Peers(a), step'[a][b] > step'[b][a]
               PROVE  /\ step'[a][b] = step'[b][a] + 1
                      /\ ~(step'[b][a] % 2 = 0 <=> b > a)
    BY DEF V!CommitterAhead, V!Commits
  <2>1. b \in V!Verifier /\ a \in V!Peers(b) /\ step[a][b] \in Nat /\ step[b][a] \in Nat
    BY DEF V!Peers, V!TypeOK
  <2>2. CASE (a = i /\ b = j) \/ (a = j /\ b = i)
    <3>1. step'[j][i] = step[j][i]
      BY <1>0, <1>3 DEF V!Peers
    <3> QED
      BY <1>0, <1>3, <1>4, <2>2, <3>1
  <2>3. CASE ~(a = i /\ b = j) /\ ~(a = j /\ b = i)
    <3>1. step'[a][b] = step[a][b] /\ step'[b][a] = step[b][a]
      BY <1>3, <2>1, <2>3
    <3> QED
      BY <2>1, <3>1 DEF V!CommitterAhead, V!Commits
  <2> QED
    BY <2>2, <2>3
<1> QED
  BY <1>2, <1>5

LEMMA EndMeshStep ==
  ASSUME V!IInv, NEW i \in V!Verifier, V!EndMesh(i)
  PROVE  V!IInv'
<1> USE DEF V!IInv
<1>1. V!TypeOK'
  BY DEF V!EndMesh, V!TypeOK, V!meshVars, V!kingVars
<1>2. V!TasksWellFormed' /\ V!TasksOrdered'
  BY DEF V!EndMesh, V!TasksWellFormed, V!TasksOrdered, V!Unfinished, V!TypeOK, V!meshVars
<1>3. V!StepsOfRound' /\ V!CommitterAhead'
  BY DEF V!EndMesh, V!StepsOfRound, V!CommitterAhead, V!Commits, V!Unfinished, V!TypeOK, V!meshVars
<1>4. V!KingInStep'
  BY DEF V!EndMesh, V!KingInStep, V!TypeOK, V!kingVars
<1> QED
  BY <1>1, <1>2, <1>3, <1>4

LEMMA EndRoundStep ==
  ASSUME V!IInv, NEW i \in V!Verifier, V!EndRound(i)
  PROVE  V!IInv'
<1> USE DEF V!IInv
<1>0. \A j \in V!Verifier : round[j] \in 0 .. Extends /\ nonced[j] \in Nat /\ kround \in 0 .. Extends
  BY DEF V!TypeOK
<1>1. V!TypeOK'
  <2>1. main' \in [V!Verifier -> {"wait", "mesh", "nonces", "done"}]
    BY DEF V!EndRound, V!TypeOK
  <2>2. round' \in [V!Verifier -> 0 .. Extends]
    <3>1. CASE round[i] = Extends
      BY <3>1 DEF V!EndRound, V!TypeOK
    <3>2. CASE round[i] # Extends
      <4>1. round' = [round EXCEPT ![i] = @ + 1]
        BY <3>2 DEF V!EndRound
      <4>2. round[i] + 1 \in 0 .. Extends
        BY <1>0, <3>2
      <4> QED
        BY <4>1, <4>2 DEF V!TypeOK
    <3> QED
      BY <3>1, <3>2
  <2> QED
    BY <2>1, <2>2 DEF V!EndRound, V!TypeOK, V!meshVars, V!kingVars
<1>2. V!TasksWellFormed' /\ V!TasksOrdered'
  <2>1. queued' = queued /\ running' = running /\ main[i] = "nonces" /\ V!TasksWellFormed /\ V!TasksOrdered
    BY DEF V!EndRound, V!meshVars
  <2>2. \A j \in V!Verifier : main'[j] # "mesh" => main[j] # "mesh"
    BY <2>1 DEF V!EndRound, V!TypeOK
  <2>3. V!TasksWellFormed'
    BY ONLY <2>1, <2>2 DEF V!TasksWellFormed, V!Unfinished
  <2>4. V!TasksOrdered'
    BY ONLY <2>1 DEF V!TasksOrdered
  <2> QED
    BY ONLY <2>3, <2>4
<1>3. V!StepsOfRound'
  <2> SUFFICES ASSUME NEW a \in V!Verifier, NEW b \in V!Peers(a)
               PROVE  /\ main'[a] = "wait" \/ b \in queued[a] => step[a][b] = 2 * round'[a]
                      /\ b \in running[a] => step[a][b] \in {2 * round'[a], 2 * round'[a] + 1}
                      /\ main'[a] # "wait" /\ b \notin V!Unfinished(a)
                           => step[a][b] = 2 * round'[a] + 2
    BY DEF V!EndRound, V!StepsOfRound, V!Unfinished, V!meshVars
  <2>1. /\ main[a] = "wait" \/ b \in queued[a] => step[a][b] = 2 * round[a]
        /\ b \in running[a] => step[a][b] \in {2 * round[a], 2 * round[a] + 1}
        /\ main[a] # "wait" /\ b \notin V!Unfinished(a) => step[a][b] = 2 * round[a] + 2
    BY DEF V!StepsOfRound
  <2>2. CASE a # i
    <3>1. main'[a] = main[a] /\ round'[a] = round[a]
      BY <2>2 DEF V!EndRound, V!TypeOK
    <3> QED BY <2>1, <3>1
  <2>3. CASE a = i
    <3>1. /\ main[a] = "nonces" /\ V!Unfinished(a) = {}
          /\ b \notin queued[a] /\ b \notin running[a]
      BY <2>3 DEF V!EndRound, V!TasksWellFormed, V!Unfinished
    <3>2. step[a][b] = 2 * round[a] + 2 BY <2>1, <3>1
    <3>3. CASE round[i] = Extends
      <4>1. main'[a] = "done" /\ round'[a] = round[a]
        BY <2>3, <3>3 DEF V!EndRound, V!TypeOK
      <4> QED BY <3>1, <3>2, <4>1
    <3>4. CASE round[i] # Extends
      <4>1. main'[a] = "wait" /\ round'[a] = round[a] + 1
        BY <2>3, <3>4 DEF V!EndRound, V!TypeOK
      <4>2. step[a][b] = 2 * round'[a] BY <1>0, <3>2, <4>1
      <4> QED BY <3>1, <4>1, <4>2
    <3> QED BY <3>3, <3>4
  <2> QED BY <2>2, <2>3
<1>4. V!CommitterAhead'
  BY DEF V!EndRound, V!CommitterAhead, V!Commits, V!meshVars
<1>5. V!KingInStep'
  BY <1>0 DEF V!EndRound, V!KingInStep, V!TypeOK, V!meshVars, V!kingVars
<1> QED
  BY <1>1, <1>2, <1>3, <1>4, <1>5

LEMMA VoleStep == V!IInv /\ [V!Next]_(V!vars) => V!IInv'
<1> SUFFICES ASSUME V!IInv, [V!Next]_(V!vars) PROVE V!IInv'
  OBVIOUS
<1>1. CASE V!KingStep
  BY <1>1, KingSteps
<1>2. CASE \E i \in V!Verifier : V!MainStep(i)
  BY <1>2, ReceiveStep, StartStep, EndMeshStep, EndRoundStep DEF V!MainStep
<1>3. CASE \E i \in V!Verifier : \E j \in V!Verifier : V!PairStep(i, j)
  BY <1>3, CommitStep, VerifyStep DEF V!PairStep
<1>4. CASE UNCHANGED V!vars
  BY <1>4 DEF V!vars, V!IInv, V!TypeOK, V!TasksWellFormed, V!TasksOrdered, V!StepsOfRound,
              V!CommitterAhead, V!KingInStep, V!Unfinished, V!Commits
<1> QED
  BY <1>1, <1>2, <1>3, <1>4 DEF V!Next, V!Terminated

(* The tasks the pools run, the peers still waiting, and the directions    *)
(* each verifier has completed with each peer fit together in every        *)
(* reachable state of MvzkNVole.                                           *)
THEOREM VolesInStep == V!Spec => []V!IInv
BY VoleInit, VoleStep, PTL DEF V!Spec

-----------------------------------------------------------------------------
(* A pair that only one end still has to finish: the other end committed   *)
(* in the last direction, and the end behind can verify.                   *)
LEMMA BehindCanVerify ==
  ASSUME V!IInv, NEW i \in V!Verifier, NEW j \in V!Peers(i), NEW r \in Nat,
         round[i] = r, round[j] = r, main[i] = "mesh", main[j] \in {"mesh", "nonces"},
         j \in V!Unfinished(i), i \notin V!Unfinished(j)
  PROVE  V!CanStep
<1> USE DEF V!IInv
<1>1. j \in V!Verifier /\ i \in V!Peers(j)
  BY DEF V!Peers
<1>2. step[j][i] = 2 * r + 2
  BY <1>1 DEF V!StepsOfRound
<1>3. step[i][j] \in Nat /\ step[i][j] <= 2 * r + 1
  BY DEF V!StepsOfRound, V!Unfinished
<1>4. step[j][i] = step[i][j] + 1 /\ ~V!Commits(i, j)
  BY <1>1, <1>2, <1>3 DEF V!CommitterAhead
<1>5. j \in running[i]
  BY <1>2, <1>3, <1>4 DEF V!StepsOfRound, V!Unfinished
<1> QED
  BY <1>3, <1>4, <1>5 DEF V!CanStep

(* A pair whose two tasks are both running can complete a direction.       *)
LEMMA PairCanStep ==
  ASSUME V!IInv, NEW i \in V!Verifier, NEW j \in V!Peers(i), j \in running[i], i \in running[j]
  PROVE  V!CanStep
<1> USE DEF V!IInv
<1>1. j \in V!Verifier /\ i \in V!Peers(j) /\ i \in Nat /\ j \in Nat /\ i # j
  BY DEF V!Peers, V!Verifier
<1>2. step[i][j] \in Nat /\ step[j][i] \in Nat
  BY <1>1 DEF V!TypeOK
<1>3. CASE step[i][j] = step[j][i]
  <2>1. V!Commits(i, j) <=> ~V!Commits(j, i)
    BY <1>1, <1>2, <1>3 DEF V!Commits
  <2> QED
    BY <1>1, <1>3, <2>1 DEF V!CanStep
<1>4. CASE step[i][j] > step[j][i]
  BY <1>1, <1>4 DEF V!CommitterAhead, V!CanStep
<1>5. CASE step[j][i] > step[i][j]
  BY <1>1, <1>5 DEF V!CommitterAhead, V!CanStep
<1> QED
  BY <1>2, <1>3, <1>4, <1>5

(* A verifier whose least unfinished peer is still queued runs no task, so *)
(* its pool can start that one.                                            *)
LEMMA LeastCanStart ==
  ASSUME V!IInv, NEW i \in V!Verifier, NEW j \in queued[i], \A k \in V!Unfinished(i) : j <= k
  PROVE  V!CanStep
<1> USE DEF V!IInv
<1>1. running[i] = {}
  <2> SUFFICES ASSUME NEW k \in running[i] PROVE FALSE
    OBVIOUS
  <2>1. k \in V!Peers(i) /\ j \in V!Peers(i) /\ k \notin queued[i] /\ k # j
    BY DEF V!TasksWellFormed
  <2>2. k \in Nat /\ j \in Nat /\ j <= k
    BY <2>1 DEF V!Peers, V!Verifier, V!Unfinished
  <2>3. k > j
    BY <2>1, <2>2
  <2> QED
    BY <2>1, <2>3 DEF V!TasksOrdered
<1>2. Cardinality(running[i]) = 0
  BY <1>1, FS_EmptySet
<1>3. peer_par[i] \in Nat \ {0}
  OBVIOUS
<1> QED
  BY <1>2, <1>3, PoolSize DEF V!CanStep

(* With all verifiers in the mesh of one round or past it, the least id    *)
(* with an unfinished pair and its least unfinished peer can go on.        *)
LEMMA MeshCanStep ==
  ASSUME V!IInv, NEW r \in Nat, NEW a \in V!Verifier, main[a] = "mesh",
         \A i \in V!Verifier : round[i] = r /\ main[i] \in {"mesh", "nonces"}
  PROVE  V!CanStep
<1> USE DEF V!IInv
<1> SUFFICES ASSUME ~V!CanStep PROVE FALSE
  OBVIOUS
<1>1. \A i \in V!Verifier : \A j \in V!Unfinished(i) : j \in V!Peers(i) /\ main[i] = "mesh"
  BY DEF V!TasksWellFormed, V!Unfinished
<1>2. \A i \in V!Verifier : \A j \in V!Unfinished(i) : i \in V!Unfinished(j)
  BY <1>1, BehindCanVerify DEF V!Peers
<1>3. V!Unfinished(a) # {}
  BY DEF V!CanStep, V!Unfinished
<1> DEFINE Open == {i \in V!Verifier : V!Unfinished(i) # {}}
<1>4. PICK i \in Open : \A k \in Open : i <= k
  <2>1. Open \subseteq V!Verifier /\ Open # {}
    BY <1>3
  <2> QED
    BY <2>1, LeastVerifier
<1>5. PICK j \in V!Unfinished(i) : \A k \in V!Unfinished(i) : j <= k
  <2>1. V!Unfinished(i) \subseteq V!Verifier /\ V!Unfinished(i) # {}
    BY <1>1, <1>4 DEF V!Peers
  <2> QED
    BY <2>1, LeastVerifier
<1>6. i \in V!Verifier /\ j \in V!Verifier /\ j \in V!Peers(i) /\ i \in V!Peers(j) /\ i \in V!Unfinished(j)
  BY <1>1, <1>2, <1>5 DEF V!Peers
<1>7. \A k \in V!Unfinished(j) : i <= k
  <2> SUFFICES ASSUME NEW k \in V!Unfinished(j) PROVE i <= k
    OBVIOUS
  <2>1. k \in V!Verifier /\ j \in V!Unfinished(k)
    BY <1>1, <1>2, <1>6 DEF V!Peers
  <2> QED
    BY <1>4, <2>1
<1>8. j \notin queued[i]
  BY <1>5, <1>6, LeastCanStart
<1>9. i \notin queued[j]
  BY <1>6, <1>7, LeastCanStart
<1> QED
  BY <1>5, <1>6, <1>8, <1>9, PairCanStep DEF V!Unfinished

(* IInv leaves no state stuck: the prover can go on, or the verifier it    *)
(* waits for can, or the verifiers are in one round and MeshCanStep holds. *)
LEMMA InvPairsGoOn == V!IInv => V!PairsGoOn
<1> USE DEF V!IInv
<1> SUFFICES ASSUME V!IInv, ~V!CanStep PROVE V!AllDone
  BY DEF V!PairsGoOn
<1>0. /\ kround \in 0 .. Extends /\ kat \in V!Verifier
      /\ king \in {"publish", "collect", "relay", "done"}
      /\ \A i \in V!Verifier : /\ main[i] \in {"wait", "mesh", "nonces", "done"}
                             /\ round[i] \in 0 .. Extends
  BY DEF V!TypeOK
<1>1. CASE king = "done"
  <2>1. ASSUME NEW i \in V!Verifier PROVE main[i] = "done"
    <3>1. relayed[i] = Extends + 1
      BY <1>1 DEF V!KingInStep
    <3>2. main[i] \notin {"wait", "mesh"}
      BY <1>0, <3>1 DEF V!KingInStep
    <3>3. main[i] # "nonces"
      BY <1>0, <3>1 DEF V!KingInStep, V!CanStep
    <3> QED
      BY <1>0, <3>2, <3>3
  <2> QED
    BY <1>1, <2>1 DEF V!AllDone
<1>2. CASE king = "collect"
  <2>1. nonced[kat] <= kround
    BY <1>0, <1>2 DEF V!CanStep, V!TypeOK
  <2>2. ASSUME NEW i \in V!Verifier
        PROVE  round[i] = kround /\ main[i] \in {"mesh", "nonces"}
    <3>1. relayed[i] = kround /\ sent[i] = kround + 1
      BY <1>2 DEF V!KingInStep
    <3>2. main[i] # "wait"
      BY <1>0, <3>1 DEF V!KingInStep, V!CanStep
    <3>3. main[i] # "done"
      BY <1>0, <3>1 DEF V!KingInStep
    <3>4. main[i] = "nonces" => round[i] = kround
      BY <1>0, <3>1 DEF V!KingInStep, V!CanStep
    <3>5. main[i] = "mesh" => round[i] = kround
      BY <3>1 DEF V!KingInStep
    <3> QED
      BY <1>0, <3>2, <3>3, <3>4, <3>5
  <2>3. main[kat] = "mesh"
    BY <1>0, <2>1, <2>2 DEF V!KingInStep
  <2> QED
    BY <1>0, <2>2, <2>3, MeshCanStep
<1> QED
  BY <1>0, <1>1, <1>2 DEF V!CanStep

(* The pools never deadlock: in every reachable state of MvzkNVole either  *)
(* all parties are done or some thread can go on, for every number of      *)
(* verifiers and whatever number of peers each of them serves at a time.   *)
THEOREM PairsNeverStall == V!Spec => []PairsGoOn
<1>1. V!PairsGoOn <=> PairsGoOn
  BY PoolSize DEF V!PairsGoOn, PairsGoOn, V!AllDone, AllDone, V!CanStep, CanStep, V!Commits, Commits, V!Verifier, Verifier
<1> QED
  BY <1>1, VolesInStep, InvPairsGoOn, PTL
-----------------------------------------------------------------------------
(* The values u^i of a round are there once verifier i has committed to    *)
(* its designated peer: the second direction of a pair for verifier 0, the *)
(* first for the others.                                                   *)
Threshold(i) == IF i = 0 THEN 2 * round[i] + 2 ELSE 2 * round[i] + 1

SecretsOK ==
  \A i \in V!Verifier : step[i][V!SecretsWriter(i)] >= Threshold(i) => secrets[i] = round[i]

LEMMA WriterIsPeer == \A i \in V!Verifier : V!SecretsWriter(i) \in V!Peers(i)
BY DEF V!Verifier, V!SecretsWriter, V!Peers

(* The commitment to the designated peer completes that direction and      *)
(* writes the values; nothing else completes it.                           *)
LEMMA WriterSecrets ==
  ASSUME V!IInv, SecretsOK, NEW i \in V!Verifier, NEW j \in V!Verifier, V!PairStep(i, j),
         j = V!SecretsWriter(i), step'[i][j] >= Threshold(i)
  PROVE  secrets'[i] = round[i]
<1> USE DEF V!IInv
<1>1. /\ j \in running[i] /\ j \in V!Peers(i) /\ step[i][j] \in Nat /\ round[i] \in Nat
      /\ step'[i][j] = step[i][j] + 1
  BY DEF V!PairStep, V!Commit, V!Verify, V!Advance, V!TasksWellFormed, V!Peers, V!TypeOK
<1>2. step[i][j] \in {2 * round[i], 2 * round[i] + 1}
  BY <1>1 DEF V!StepsOfRound
<1>3. V!Commit(i, j) => secrets'[i] = round[i]
  BY DEF V!Commit, V!TypeOK
<1>4. V!Commits(i, j) => V!Commit(i, j)
  BY DEF V!PairStep, V!Verify
<1>5. CASE i = 0
  <2>1. j = 1 /\ step[i][j] = 2 * round[i] + 1
    BY <1>1, <1>2, <1>5 DEF Threshold, V!SecretsWriter
  <2>2. V!Commits(i, j)
    BY <1>1, <1>5, <2>1 DEF V!Commits
  <2> QED
    BY <1>3, <1>4, <2>2
<1>6. CASE i # 0
  <2>1. j = 0 /\ i > 0
    BY <1>6 DEF V!SecretsWriter, V!Verifier
  <2>2. CASE step[i][j] = 2 * round[i]
    <3>1. V!Commits(i, j)
      BY <1>1, <2>1, <2>2 DEF V!Commits
    <3> QED
      BY <1>3, <1>4, <3>1
  <2>3. CASE step[i][j] = 2 * round[i] + 1
    <3>1. secrets[i] = round[i]
      BY <1>1, <1>6, <2>3 DEF SecretsOK, Threshold
    <3>2. V!Verify(i, j) => secrets' = secrets
      BY DEF V!Verify
    <3> QED
      BY <1>3, <3>1, <3>2 DEF V!PairStep
  <2> QED
    BY <1>2, <2>2, <2>3
<1> QED
  BY <1>5, <1>6

LEMMA PairSecrets ==
  ASSUME V!IInv, SecretsOK, NEW i \in V!Verifier, NEW j \in V!Verifier, V!PairStep(i, j)
  PROVE  SecretsOK'
<1>1. /\ j \in V!Peers(i) /\ round' = round
      /\ \A a \in V!Verifier : \A b \in V!Peers(a) : ~(a = i /\ b = j) => step'[a][b] = step[a][b]
  BY DEF V!IInv, V!PairStep, V!Commit, V!Verify, V!Advance, V!TasksWellFormed, V!Peers, V!TypeOK
<1>2. \A a \in V!Verifier : a # i \/ j # V!SecretsWriter(a) => secrets'[a] = secrets[a]
  BY DEF V!IInv, V!PairStep, V!Commit, V!Verify, V!TypeOK
<1> SUFFICES ASSUME NEW a \in V!Verifier, step'[a][V!SecretsWriter(a)] >= Threshold(a)
             PROVE  secrets'[a] = round[a]
  BY <1>1 DEF SecretsOK, Threshold, V!SecretsWriter
<1>3. CASE a = i /\ j = V!SecretsWriter(a)
  BY <1>3, WriterSecrets
<1>4. CASE ~(a = i /\ j = V!SecretsWriter(a))
  <2>1. step'[a][V!SecretsWriter(a)] = step[a][V!SecretsWriter(a)]
    BY <1>1, <1>4, WriterIsPeer
  <2> QED
    BY <1>2, <1>4, <2>1 DEF SecretsOK
<1> QED
  BY <1>3, <1>4

(* A new round starts below the threshold.                                 *)
LEMMA WriterEnded ==
  ASSUME V!IInv, NEW i \in V!Verifier, main[i] \in {"nonces", "done"}
  PROVE  /\ V!SecretsWriter(i) \in V!Peers(i) /\ V!Unfinished(i) = {} /\ round[i] \in Nat
         /\ step[i][V!SecretsWriter(i)] = 2 * round[i] + 2
<1>1. V!TypeOK /\ V!TasksWellFormed /\ V!StepsOfRound
  BY DEF V!IInv
<1>2. main[i] # "mesh" /\ main[i] # "wait"
  OBVIOUS
<1>3. V!Unfinished(i) = {}
  BY ONLY <1>1, <1>2, i \in V!Verifier DEF V!TasksWellFormed
<1>4. V!SecretsWriter(i) \in V!Peers(i)
  BY WriterIsPeer
<1>5. round[i] \in Nat
  BY <1>1 DEF V!TypeOK
<1>6. step[i][V!SecretsWriter(i)] = 2 * round[i] + 2
  BY ONLY <1>1, <1>2, <1>3, <1>4, i \in V!Verifier DEF V!StepsOfRound
<1> QED
  BY ONLY <1>3, <1>4, <1>5, <1>6

LEMMA MainSecrets ==
  ASSUME V!IInv, SecretsOK, NEW i \in V!Verifier, V!MainStep(i)
  PROVE  SecretsOK'
<1>1. step' = step /\ secrets' = secrets
  BY DEF V!MainStep, V!Receive, V!StartTask, V!EndMesh, V!EndRound, V!meshVars
<1>2. round' = round \/ (main[i] = "nonces" /\ round' = [round EXCEPT ![i] = @ + 1])
  BY DEF V!MainStep, V!Receive, V!StartTask, V!EndMesh, V!EndRound
<1>3. CASE round' = round
  BY <1>1, <1>3 DEF SecretsOK, Threshold, V!SecretsWriter
<1>4. CASE main[i] = "nonces" /\ round' = [round EXCEPT ![i] = @ + 1]
  <2>1. \A a \in V!Verifier : round'[a] = IF a = i THEN round[a] + 1 ELSE round[a]
    BY <1>4 DEF V!IInv, V!TypeOK
  <2>2. /\ V!SecretsWriter(i) \in V!Peers(i) /\ V!Unfinished(i) = {} /\ round[i] \in Nat
        /\ step[i][V!SecretsWriter(i)] = 2 * round[i] + 2
    BY <1>4, WriterEnded
  <2>3. ~(step[i][V!SecretsWriter(i)] >= (IF i = 0 THEN 2 * round'[i] + 2 ELSE 2 * round'[i] + 1))
    BY <2>1, <2>2
  <2> QED
    BY <1>1, <2>1, <2>3 DEF SecretsOK, Threshold, V!SecretsWriter
<1> QED
  BY <1>2, <1>3, <1>4

LEMMA SecretsStep == V!IInv /\ SecretsOK /\ [V!Next]_(V!vars) => SecretsOK'
<1> SUFFICES ASSUME V!IInv, SecretsOK, [V!Next]_(V!vars) PROVE SecretsOK'
  OBVIOUS
<1>1. CASE V!KingStep \/ UNCHANGED V!vars
  BY <1>1 DEF V!KingStep, V!Publish, V!Collect, V!Relay, V!meshVars, V!vars,
              SecretsOK, Threshold, V!SecretsWriter
<1> QED
  BY <1>1, MainSecrets, PairSecrets DEF V!Next, V!Terminated

(* Whenever a verifier's pool has joined, the values an extend returns are *)
(* those of this extend: exactly one task wrote them, and before it ended. *)
THEOREM ValuesFilled == V!Spec => []SecretsFilled
<1>1. V!Init => SecretsOK
  BY DEF V!Init, SecretsOK, Threshold, V!SecretsWriter, V!Verifier
<1>2. V!IInv /\ SecretsOK => V!SecretsFilled
  <2> SUFFICES ASSUME V!IInv, SecretsOK, NEW i \in V!Verifier, main[i] \in {"nonces", "done"}
               PROVE  secrets[i] = round[i]
    BY DEF V!SecretsFilled
  <2>1. /\ V!SecretsWriter(i) \in V!Peers(i) /\ V!Unfinished(i) = {} /\ round[i] \in Nat
        /\ step[i][V!SecretsWriter(i)] = 2 * round[i] + 2
    BY WriterEnded
  <2> QED
    BY <2>1 DEF SecretsOK, Threshold
<1>3. V!SecretsFilled <=> SecretsFilled
  BY DEF V!SecretsFilled, SecretsFilled, V!Verifier, Verifier
<1> QED
  BY <1>1, <1>2, <1>3, VolesInStep, SecretsStep, PTL DEF V!Spec
=============================================================================
