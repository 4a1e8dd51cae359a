-------------------------------- MODULE EdaBits --------------------------------
(***************************************************************************)
(* Conversion between booleans and F_p (edabits.h, doub_auth_helper.h): a   *)
(* batch of ell candidates, each one value authenticated in both worlds, is *)
(* cut and chosen down to N edabits, which the conversions then use up.     *)
(*                                                                         *)
(* Both parties do the same steps on the same counters, so one copy of them *)
(* stands for both; what ALICE commits to and sends need not be what it     *)
(* should be.  A position is a place in the VOLE's stream.  The 62-bit      *)
(* integers are numbers mod 2 * PR + 2 (PR = 2^61 - 1), with the sign bit   *)
(* set from PR + 1 on.                                                      *)
(***************************************************************************)
EXTENDS Integers, Sequences, FiniteSetsExt, Functions

CONSTANTS
  PR,         \* the prime
  N, B, C,    \* edabits of a batch, bucket size, opened candidates
  np_sz,      \* F_p values drawn at a time
  First,      \* candidates [fp, f2] that ALICE may commit to in the first batch
  Later,      \* the same of the batches after it
  Inputs,     \* calls: [op, in], in a sequence of values to convert
  MaxCalls    \* conversions before the destructor (bound of the model)

Bm1        == B - 1
ell        == B * N + C
ell_faulty == ell - N
Width      == 2 * PR + 2

ASSUME PRAssumption    == PR \in Nat \ {0}
ASSUME SizesAssumption == N \in Nat \ {0} /\ C \in Nat \ {0} /\ B \in Nat \ {0, 1}
ASSUME np_szAssumption == np_sz \in Nat /\ ell + C <= np_sz
ASSUME BatchAssumption ==
  First \cup Later \subseteq [0 .. ell - 1 -> [fp : 0 .. PR - 1, f2 : 0 .. Width - 1]]

ASSUME InputsAssumption ==
  \A c \in Inputs : c.op \in {"bool2arith", "arith2bool"} /\ c.in \in Seq(0 .. PR - 1)

VARIABLES
  drawn,            \* times arith_candidate was filled
  np_pt, np_rg,     \* the current batch in it
  rand_pt,          \* where the opened candidates start
  edabit_num, edabit_offset,  \* edabits left, next one
  arith_candidate,  \* F_p values (those of the batches so far)
  bool_candidate,   \* the batch's booleans
  hashOk,           \* both parties' digests of the openings agree
  call,             \* the conversion under way: [op, in, chunk, num]
  calls,            \* conversions begun
  masks,            \* positions used by conversions
  shown,            \* positions opened, alone or in the sum of a bucket
  past,             \* some batch opened a position behind its end
  exact,            \* every output of a right edabit was its input
  honest,           \* ALICE has committed and sent what she should
  verdict           \* "open", "failed" (error()), "accepted"

bufVars == <<drawn, np_pt, np_rg, rand_pt, arith_candidate, bool_candidate>>
vars == <<drawn, np_pt, np_rg, rand_pt, edabit_num, edabit_offset, arith_candidate,
          bool_candidate, hashOk, call, calls, masks, shown, past, exact, honest, verdict>>

-----------------------------------------------------------------------------
(* Arithmetic of the two worlds.                                           *)

intfp_add(a, b) == (a + b) % PR
Plus(x, y)      == (x + y) % Width
Minus(x, y)     == (x - y) % Width
Negative(x)     == x > PR

\* select(x[61], x + c): what a negative x is corrected by.
Correct(x, c) == IF Negative(x) THEN Plus(x, c) ELSE x

\* Mutant: a sum that wrapped is corrected like a difference.
f2_add_like_diff(x, y) == Correct(Plus(x, y), PR)

f2_add(x, y)     == Correct(Plus(x, y), PR + 2)
bool_diff(in, r)  == Correct(Minus(in, r), PR)

-----------------------------------------------------------------------------
(* Indices into a batch.                                                   *)

f2_index(offset)     == IF offset >= ell THEN offset - ell_faulty ELSE offset
fp_index(rg, offset) == IF offset >= rg THEN offset - ell_faulty ELSE offset

\* The j-th partner of each kept edabit: if21 and ifp1 through the loop.
f2_partner(rand, j) ==
  LET if21[i \in 0 .. N - 1] ==
        IF i = 0 THEN f2_index(f2_index(rand + N + C) + j) ELSE f2_index(if21[i - 1] + Bm1)
  IN  if21
fp_partner(pt, rand, j) ==
  LET rg == pt + ell
      ifp1[i \in 0 .. N - 1] ==
        IF i = 0 THEN fp_index(rg, fp_index(rg, pt + N + rand + C) + j)
        ELSE fp_index(rg, ifp1[i - 1] + Bm1)
  IN  ifp1

Kept           == 0 .. N - 1
Turns          == 0 .. Bm1 - 1
Opened(rand)   == N + rand .. N + rand + C - 1
Overflows(rand) == \E o \in Opened(rand) : o >= ell

\* Mutant: the last kept edabit's bucket is left out.
BucketsAgreeShort(pt, rand, arith, bool) ==
  \A j \in Turns, i \in 0 .. N - 2 :
    intfp_add(arith[pt + i], arith[fp_partner(pt, rand, j)[i]])
      = f2_add(bool[i], bool[f2_partner(rand, j)[i]])

\* What the digests say of the opened candidates and of the buckets' sums.
OpenedAgree(pt, rand, arith, bool) ==
  \A o \in Opened(rand) : o < ell => arith[pt + o] = bool[o]
BucketsAgree(pt, rand, arith, bool) ==
  \A j \in Turns, i \in Kept :
    intfp_add(arith[pt + i], arith[fp_partner(pt, rand, j)[i]])
      = f2_add(bool[i], bool[f2_partner(rand, j)[i]])

Pos(d, i) == (d - 1) * np_sz + i

-----------------------------------------------------------------------------
Idle == [op |-> "none", in |-> << >>, chunk |-> << >>, num |-> 0]

\* The constructor.
Init ==
  /\ drawn = 1 /\ np_pt = 0 /\ np_rg = 0 /\ rand_pt = 0
  /\ edabit_num = 0 /\ edabit_offset = 0
  /\ arith_candidate = [i \in 0 .. np_sz - 1 |-> 0]
  /\ bool_candidate = [i \in 0 .. ell - 1 |-> 0]
  /\ hashOk = TRUE /\ call = Idle /\ calls = 0
  /\ masks = << >> /\ shown = {} /\ past = FALSE
  /\ exact = TRUE /\ honest = TRUE /\ verdict = "open"

Smaller(a, b) == IF a < b THEN a ELSE b

\* Mutant: a chunk is capped at a whole batch only.
AvailAlways == N

Avail == IF edabit_num > 0 THEN edabit_num ELSE N

\* The top of the loop: how much of what is left one chunk takes.
Chunk(op, in) ==
  IF in = << >> THEN Idle
  ELSE [op |-> op, in |-> in, chunk |-> << >>, num |-> Smaller(Len(in), Avail)]

\* bool2arith() or arith2bool(), of one value or of several.
Begin ==
  /\ verdict = "open" /\ call = Idle /\ calls < MaxCalls
  /\ \E c \in Inputs : call' = Chunk(c.op, c.in)
  /\ calls' = calls + 1
  /\ UNCHANGED <<bufVars, edabit_num, edabit_offset, hashOk, masks, shown, past, exact, honest, verdict>>

\* Mutant: a batch that no longer fits starts where the buffer did, unfilled.
DrawsStale(pt) == drawn

\* edabits_gen_backend() refills the buffer when the batch no longer fits.
Draws(pt) == IF pt + ell > np_sz THEN drawn + 1 ELSE drawn
Start(pt) == IF pt + ell > np_sz THEN 0 ELSE pt

\* next_edabits() without any left: edabits_gen_backend().  ALICE's booleans
\* come before BOB's random point.  A point in the last C - 1 of its range has
\* a position opened behind the batch ("TODO overflow", edabits.h:118): there
\* the booleans compared are whatever lies behind bool_candidate.
Generate(cands, rand) ==
  LET pt    == Start(np_rg)
      d     == Draws(np_rg)
      arith == [i \in 0 .. np_sz - 1 |->
                  IF i - pt \in 0 .. ell - 1 THEN cands[i - pt].fp
                  ELSE IF d = drawn THEN arith_candidate[i] ELSE 0]
      bool  == [i \in 0 .. ell - 1 |-> cands[i].f2]
      agree == /\ hashOk
               /\ OpenedAgree(pt, rand, arith, bool) /\ BucketsAgree(pt, rand, arith, bool)
  IN  /\ np_pt' = pt /\ np_rg' = pt + ell /\ drawn' = d /\ rand_pt' = rand
      /\ arith_candidate' = arith /\ bool_candidate' = bool
      /\ shown' = shown
           \cup {Pos(d, pt + o) : o \in Opened(rand)}
           \cup {Pos(d, fp_partner(pt, rand, j)[i]) : j \in Turns, i \in Kept}
      /\ past' = (past \/ Overflows(rand))
      /\ edabit_num' = N /\ edabit_offset' = 0
      /\ hashOk' = TRUE
      /\ honest' = (honest /\ \A i \in DOMAIN cands : cands[i].fp = cands[i].f2)
      /\ \/ agree /\ UNCHANGED verdict
         \/ (~agree \/ Overflows(rand)) /\ verdict' = "failed"
  /\ UNCHANGED <<call, calls, masks, exact>>

NextBatch ==
  /\ verdict = "open" /\ call # Idle /\ Len(call.chunk) < call.num /\ edabit_num = 0
  /\ \E rand \in 0 .. ell_faulty - 1 :
       \E cands \in IF np_rg = 0 THEN First ELSE Later :
         Generate(cands, rand)

\* A turn of the chunk's loop: next_edabits(), and the masked input.
TakeEdabit ==
  /\ verdict = "open" /\ call # Idle /\ Len(call.chunk) < call.num /\ edabit_num > 0
  /\ LET f2 == edabit_offset
         fp == np_pt + edabit_offset
         in == call.in[Len(call.chunk) + 1]
         masked == IF call.op = "bool2arith" THEN bool_diff(in, bool_candidate[f2])
                   ELSE intfp_add(arith_candidate[fp], in)
         right == arith_candidate[fp] = bool_candidate[f2]
     IN  /\ call' = [call EXCEPT !.chunk =
                       Append(@, [f2 |-> f2, fp |-> fp, masked |-> masked, right |-> right])]
         /\ masks' = Append(masks, Pos(drawn, fp))
  /\ edabit_offset' = edabit_offset + 1 /\ edabit_num' = edabit_num - 1
  /\ UNCHANGED <<bufVars, hashOk, calls, shown, past, exact, honest, verdict>>

\* The chunk is opened in one go and unmasked.  An F_p value that ALICE sends
\* wrong shows in the digests; a boolean one is the boolean engine's to check.
Output(e, sent) ==
  IF call.op = "bool2arith" THEN intfp_add(arith_candidate[e.fp], sent)
  ELSE bool_diff(sent, bool_candidate[e.f2])

OpenChunk ==
  /\ verdict = "open" /\ call # Idle /\ Len(call.chunk) = call.num
  /\ \E lie \in IF call.op = "arith2bool" THEN 0 .. PR - 1 ELSE {0} :
       LET sent(k) == IF k = 1 THEN (call.chunk[1].masked + lie) % PR
                      ELSE call.chunk[k].masked
       IN  /\ hashOk' = (hashOk /\ lie = 0) /\ honest' = (honest /\ lie = 0)
           /\ exact' = (exact /\ \A k \in 1 .. call.num :
                call.chunk[k].right => Output(call.chunk[k], sent(k)) = call.in[k])
  /\ call' = Chunk(call.op, SubSeq(call.in, call.num + 1, Len(call.in)))
  /\ UNCHANGED <<bufVars, edabit_num, edabit_offset, calls, masks, shown, past, verdict>>

\* ~EdaBits(): the last digests.
Destroy ==
  /\ verdict = "open" /\ call = Idle
  /\ verdict' = IF hashOk THEN "accepted" ELSE "failed"
  /\ UNCHANGED <<bufVars, edabit_num, edabit_offset, hashOk, call, calls, masks, shown, past,
                 exact, honest>>

Terminated == verdict # "open" /\ UNCHANGED vars

Next == Begin \/ NextBatch \/ TakeEdabit \/ OpenChunk \/ Destroy \/ Terminated

Spec == Init /\ [][Next]_vars

-----------------------------------------------------------------------------
(* Properties.                                                             *)

Wrong(i) == arith_candidate[np_pt + i] # bool_candidate[i]
Bucket(i) == {i} \cup {f2_partner(rand_pt, j)[i] : j \in Turns}

\* Cut and choose: in a batch that was accepted, a kept edabit that is wrong has
\* B candidates of its own in its bucket, all wrong; the others' buckets and the
\* opened candidates give it none of them.  Every opened candidate was right.
\* Nothing bounds the booleans, and two other numbers of 62 bits may pass for the
\* value in a bucket's sum: those congruent to it mod PR, value + PR and the
\* negative value - PR, which is value + PR + 2 here.
WrongByBuckets ==
  np_rg > 0 /\ verdict # "failed" =>
    /\ \A i \in Kept :
         /\ Cardinality(Bucket(i)) = B
         /\ Wrong(i) => \/ \A c \in Bucket(i) : Wrong(c)
                        \/ bool_candidate[i] - arith_candidate[np_pt + i] \in {PR, PR + 2}
    /\ \A i, k \in Kept : i # k => Bucket(i) \cap Bucket(k) = {}
    /\ \A o \in Opened(rand_pt) : o < ell => ~Wrong(o)

\* What masks an input is known to ALICE alone: no F_p value masks two inputs, none
\* that masks an input was opened or shown in a sum as a partner, in its batch or
\* before, and no kept edabit has a partner that was opened too; over chunks,
\* batches and refills of the buffer.  Not so once a batch opened a position behind
\* its end: it may be the first of the next batch.
MasksFresh ==
  /\ \A j, k \in DOMAIN masks : j # k => masks[j] # masks[k]
  /\ ~past => Range(masks) \cap shown = {}
  /\ np_rg > 0 => \A i \in Kept : Bucket(i) \cap Opened(rand_pt) = {}

\* A session whose digests agree to the end has converted every input right,
\* whatever ALICE sent for the openings, if the edabits used were right: in
\* particular the values that a chunk was masked with are the values that it is
\* unmasked with ("so the chunk never spans a regen boundary", edabits.h:179-182).
ConversionsExact == verdict = "accepted" => exact

\* An honest prover fails only where the code lets it: when two values of a
\* bucket add up to PR, which the booleans keep as PR, or past the batch's end.
HonestPasses ==
  verdict = "failed" /\ honest /\ ~past =>
    \E i \in Kept : \E c \in Bucket(i) \ {i} : bool_candidate[i] + bool_candidate[c] = PR
=============================================================================
