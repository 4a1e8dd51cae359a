------------------------------- MODULE MvzkMesh -------------------------------
(***************************************************************************)
(* The exchanges among the n verifiers (mvzk/mesh.h) and the checks they   *)
(* end in: checkPublic(), the end of verifyAuthTriple() with               *)
(* openAndCheck(), and macCheckZero() (mvzk/zk/verifier.h).                *)
(*                                                                         *)
(* In an exchange every verifier writes one message to each other one, on  *)
(* a pool thread and upwards around the ring, and reads theirs on its main *)
(* thread, downwards.  Sends block: a channel holds at most Cap pieces and *)
(* a message may have more.  The prover takes no part.                     *)
(*                                                                         *)
(* Field elements are numbers mod q.  A commitment is what it was made of. *)
(* The algebra of the opened triple is one number, the sum of all shares,  *)
(* which is 0 if the product is right; a MAC check is over the sum of the  *)
(* verifiers' errors.  An honest prover's verifiers hold the same digest.  *)
(*                                                                         *)
(* The watchdogs of the abort guard (AbortGuard) are left out: what they   *)
(* cut short when a peer ends, a verifier here comes to by its own reads   *)
(* and writes.                                                             *)
(***************************************************************************)
EXTENDS MvzkParties, Sequences, FiniteSets, Functions

CONSTANTS
  q,        \* the field's order
  Cap,      \* pieces a channel holds
  Pieces,   \* Pieces[k]: pieces of a message of an exchange of kind k
  Coins,    \* what a verifier may draw for the coin
  Dealt,    \* shares of zero a verifier may draw for its peers
  MaxCrashes,  \* processes that die (bound of the model)
  Cases     \* [check, digest, share, err] of the verifiers before the check

Field    == 0 .. q - 1
Kinds    == {"echo", "vals", "flip", "show", "zero", "com", "open"}

ASSUME QAssumption      == q \in Nat \ {0, 1}
ASSUME CapAssumption    == Cap \in Nat \ {0}
ASSUME PiecesAssumption == Pieces \in [Kinds -> Nat \ {0}]
ASSUME CoinsAssumption  == Coins # {} /\ Coins \subseteq Field
ASSUME DealtAssumption  == Dealt # {} /\ Dealt \subseteq [Verifier -> Field]
ASSUME CrashAssumption  == MaxCrashes \in Nat
ASSUME CasesAssumption  ==
  Cases \subseteq [check : {"batch", "public"}, digest : [Verifier -> Nat],
                   share : [Verifier -> Field], err : [Verifier -> Field]]

VARIABLES
  case,     \* the check, and what each verifier brings to it
  at,       \* at[i]: the exchange verifier i is in
  to,       \* to[i]: distance of the peer its pool thread writes to; n: ended
  part,     \* part[i]: pieces of that message already written
  from,     \* from[i]: distance of the peer its main thread reads; n: all read
  have,     \* have[i]: pieces of that message already read
  wire,     \* wire[i][j]: pieces on the channel from i to j
  got,      \* got[i][k][j]: the pieces i has read from j in its exchange of kind k
  deal,     \* deal[i][j]: the share of zero that i deals j
  coin,     \* coin[i]: what i contributes to the coin
  verdict   \* verdict[i]: "open", "passed", "failed", "cut", "crashed"

vars == <<case, at, to, part, from, have, wire, got, deal, coin, verdict>>

\* The peers at distance d: upwards for the pool thread, downwards for the main
\* thread.  Mutant: both go upwards.
RingAhead(i, d)    == IF i + d < n THEN i + d ELSE i + d - n
RingBehindUp(i, d) == RingAhead(i, d)
RingBehind(i, d)   == IF d <= i THEN i - d ELSE i + n - d

\* The exchanges of verifyAuthTriple()'s end and of checkPublic(), which both begin
\* with echo_check() and end with macCheckZero().  Mutant: the coin is shown first.
ExchangesShowFirst ==
  IF case.check = "batch" THEN <<"echo", "vals", "zero", "com", "open">>
                          ELSE <<"echo", "show", "flip", "zero", "com", "open">>
Exchanges ==
  IF case.check = "batch" THEN <<"echo", "vals", "zero", "com", "open">>
                          ELSE <<"echo", "flip", "show", "zero", "com", "open">>

Kind(i) == Exchanges[at[i]]

SumMod(f) == SumFunction(f) % q

\* What i received from j in its exchange of kind k (the pieces of a message all
\* say the same).
Value(pieces)  == (CHOOSE p \in pieces : TRUE).v
Heard(i, k, j) == Value(got[i][k][j])

\* zero_shares(): i keeps what makes its own deal sum to zero.  Mutant: it keeps
\* the sum itself.
ThetaPlain(i) ==
  SumMod([j \in Verifier |-> IF j = i THEN SumMod(deal[i]) ELSE Heard(i, "zero", j)])
Theta(i) ==
  SumMod([j \in Verifier |-> IF j = i THEN q - SumMod(deal[i]) ELSE Heard(i, "zero", j)])
Masked(i) == (case.err[i] + Theta(i)) % q

\* What i writes to j in an exchange of kind k, a piece at a time.
Said(i, j, k) ==
  CASE k = "echo" -> case.digest[i]
    [] k = "vals" -> case.share[i]
    [] k \in {"flip", "show"} -> coin[i]
    [] k = "zero" -> deal[i][j]
    [] k \in {"com", "open"} -> Masked(i)

Piece(i, j, k) == [k |-> k, v |-> Said(i, j, k)]

Init ==
  /\ case \in Cases
  /\ at = [i \in Verifier |-> 1]
  /\ to = [i \in Verifier |-> 1] /\ part = [i \in Verifier |-> 0]
  /\ from = [i \in Verifier |-> 1] /\ have = [i \in Verifier |-> 0]
  /\ wire = [i \in Verifier |-> [j \in Verifier |-> << >>]]
  /\ got = [i \in Verifier |-> [k \in Kinds |-> [j \in Verifier |-> {}]]]
  /\ deal = [i \in Verifier |-> [j \in Verifier |-> 0]]
  /\ coin = [i \in Verifier |-> 0]
  /\ verdict = [i \in Verifier |-> "open"]

\* A process that fails a check ends, and its sockets close.
Gone(i) == verdict[i] \in {"failed", "cut", "crashed"}

\* The pool thread: one piece to the next peer up the ring.
CanWrite(i) ==
  /\ verdict[i] = "open" /\ to[i] < n
  /\ ~Gone(RingAhead(i, to[i])) /\ Len(wire[i][RingAhead(i, to[i])]) < Cap

Write(i) ==
  /\ CanWrite(i)
  /\ LET j == RingAhead(i, to[i]) IN
       wire' = [wire EXCEPT ![i][j] = Append(@, Piece(i, j, Kind(i)))]
  /\ IF part[i] + 1 = Pieces[Kind(i)]
     THEN to' = [to EXCEPT ![i] = @ + 1] /\ part' = [part EXCEPT ![i] = 0]
     ELSE part' = [part EXCEPT ![i] = @ + 1] /\ UNCHANGED to
  /\ UNCHANGED <<case, at, from, have, got, deal, coin, verdict>>

\* The main thread: one piece from the next peer down the ring.
CanRead(i) ==
  /\ verdict[i] = "open" /\ from[i] < n
  /\ wire[RingBehind(i, from[i])][i] # << >>

\* Pieces that make a message.  Mutant: one piece is left unread.
ExpectedShort(i) == IF Pieces[Kind(i)] = 1 THEN 1 ELSE Pieces[Kind(i)] - 1
Expected(i)      == Pieces[Kind(i)]

Read(i) ==
  /\ CanRead(i)
  /\ LET j == RingBehind(i, from[i]) IN
       /\ got' = [got EXCEPT ![i][Kind(i)][j] = @ \cup {Head(wire[j][i])}]
       /\ wire' = [wire EXCEPT ![j][i] = Tail(@)]
  /\ IF have[i] + 1 = Expected(i)
     THEN from' = [from EXCEPT ![i] = @ + 1] /\ have' = [have EXCEPT ![i] = 0]
     ELSE have' = [have EXCEPT ![i] = @ + 1] /\ UNCHANGED from
  /\ UNCHANGED <<case, at, to, part, deal, coin, verdict>>

\* A verifier that finds a channel closed ends with it.
FindsClosed(i) ==
  /\ verdict[i] = "open"
  /\ \/ to[i] < n /\ Gone(RingAhead(i, to[i]))
     \/ LET j == RingBehind(i, from[i]) IN from[i] < n /\ Gone(j) /\ wire[j][i] = << >>

Cut(i) ==
  /\ FindsClosed(i)
  /\ verdict' = [verdict EXCEPT ![i] = "cut"]
  /\ UNCHANGED <<case, at, to, part, from, have, wire, got, deal, coin>>

Crash(i) ==
  /\ verdict[i] = "open" /\ Cardinality({j \in Verifier : verdict[j] = "crashed"}) < MaxCrashes
  /\ verdict' = [verdict EXCEPT ![i] = "crashed"]
  /\ UNCHANGED <<case, at, to, part, from, have, wire, got, deal, coin>>

\* fut.get(): the exchange is over when everything is read and written.
\* Mutant: everything read is enough.
JoinedReads(i) == from[i] = n
Joined(i)      == from[i] = n /\ to[i] = n

CanJudge(i) == verdict[i] = "open" /\ Joined(i)

\* The sums every verifier forms of its own element and those it received.
Opened(i, k, own) ==
  SumMod([j \in Verifier |-> IF j = i THEN own ELSE Heard(i, k, j)])

\* echo_check(), the openings of coin() and macCheckZero(), and the product check.
Fails(i) ==
  \/ Kind(i) = "echo" /\ \E j \in Peers(i) : Heard(i, "echo", j) # case.digest[i]
  \/ Kind(i) = "show" /\ \E j \in Peers(i) : Heard(i, "show", j) # Heard(i, "flip", j)
  \/ /\ Kind(i) = "open"
     /\ \/ \E j \in Peers(i) : Heard(i, "open", j) # Heard(i, "com", j)
        \/ Opened(i, "open", Masked(i)) # 0
        \/ case.check = "batch" /\ Opened(i, "vals", case.share[i]) # 0

\* Fresh random values: the coin before its commitment, the deal before
\* zero_shares() sends it.
Draw(i, k) ==
  /\ IF k = "flip" THEN \E c \in Coins : coin' = [coin EXCEPT ![i] = c]
                   ELSE UNCHANGED coin
  /\ IF k = "zero"
     THEN \E d \in Dealt : deal' = [deal EXCEPT ![i] = [d EXCEPT ![i] = 0]]
     ELSE UNCHANGED deal

Judge(i) ==
  /\ CanJudge(i)
  /\ IF Fails(i) \/ at[i] = Len(Exchanges)
     THEN /\ verdict' = [verdict EXCEPT ![i] = IF Fails(i) THEN "failed" ELSE "passed"]
          /\ UNCHANGED <<at, to, from, deal, coin>>
     ELSE /\ at' = [at EXCEPT ![i] = @ + 1]
          /\ to' = [to EXCEPT ![i] = 1] /\ from' = [from EXCEPT ![i] = 1]
          /\ Draw(i, Exchanges[at[i] + 1])
          /\ UNCHANGED verdict
  /\ UNCHANGED <<case, part, have, wire, got>>

AllEnded   == \A i \in Verifier : verdict[i] # "open"
Terminated == AllEnded /\ UNCHANGED vars

Next ==
  \/ \E i \in Verifier : Write(i) \/ Read(i) \/ Judge(i) \/ Cut(i) \/ Crash(i)
  \/ Terminated

Spec == Init /\ [][Next]_vars

-----------------------------------------------------------------------------
\* The two ring orders meet: until all verifiers are done, some thread can write,
\* read or judge, however small the channels and however long the messages ("so
\* the two directions never share a socket and a party can send on a pool thread
\* while receiving on the main thread without deadlock", mesh.h:6-7).
NoStall ==
  AllEnded \/ \E i \in Verifier : CanWrite(i) \/ CanRead(i) \/ FindsClosed(i) \/ CanJudge(i)

\* What a verifier has read when an exchange ends is what each peer wrote to it in
\* this exchange, whole: nothing of the exchange before or behind it.
SameExchange ==
  \A i \in Verifier, j \in Verifier :
    i # j /\ from[i] = n =>
      /\ at[j] >= at[i]
      /\ got[i][Kind(i)][j] = {Piece(j, i, Kind(i))}

\* Nobody shows a random value or a masked sum before all the others are bound
\* to theirs: as long as i has not all commitments, nothing of its opening is on
\* a channel ("a rushing verifier cannot bias it", mesh.h:73).
CommittedFirst ==
  \A i \in Verifier, j \in Verifier : \A p \in Range(wire[i][j]) :
    /\ p.k = "show" => \A m \in Peers(i) : got[i]["flip"][m] # {}
    /\ p.k = "open" => \A m \in Peers(i) : got[i]["com"][m] # {}

\* The verifiers come to one verdict, the right one: a check passes if the
\* verifiers hold the same digest, their errors sum to zero (whatever the shares
\* of zero they dealt) and the opened product is right; and they pass it with the
\* same coin.
SameDigests == \A i, j \in Verifier : case.digest[i] = case.digest[j]
Right ==
  /\ SameDigests /\ SumMod(case.err) = 0
  /\ case.check = "batch" => SumMod(case.share) = 0
CoinOf(i) == Opened(i, "show", coin[i])
VerdictExact ==
  \A i \in Verifier :
    /\ verdict[i] = "passed" => Right
    /\ verdict[i] = "failed" => ~Right
    /\ verdict[i] = "passed" /\ case.check = "public" =>
         CoinOf(i) = SumMod(coin)

\* A verifier whose check fails leaves nobody without a verdict: all of them have
\* what they need to fail by themselves, and none meets a closed channel, although
\* echo_check() ends the process without an ABORT (mesh.h:68).  Only a process
\* that dies, or a watchdog that comes first, cuts the others off.
NobodyCut ==
  (\A i \in Verifier : verdict[i] # "crashed") => \A i \in Verifier : ~FindsClosed(i) /\ verdict[i] # "cut"
=============================================================================
