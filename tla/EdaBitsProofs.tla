---------------------------- MODULE EdaBitsProofs ----------------------------
(***************************************************************************)
(* The conversions of EdaBits are exact for every prime, batch and program: *)
(* the arithmetic of the two worlds, and that a chunk is unmasked with the  *)
(* edabits it was masked with.  Cut and choose binds the prover and keeps   *)
(* the masks hidden: where the walk over the partners of the kept edabits   *)
(* goes, what the sums of a bucket tell, and that a batch's masks lie above *)
(* all that was used or shown before.                                      *)
(***************************************************************************)
EXTENDS EdaBits, TLAPS, FiniteSetTheorems, NaturalsInduction, WellFoundedInduction

USE PRAssumption, SizesAssumption

(* Remainders of sums and differences that leave their range once.         *)
LEMMA ModSame == ASSUME NEW m \in Nat \ {0}, NEW a \in 0 .. m - 1 PROVE a % m = a
OBVIOUS

LEMMA ModAbove == ASSUME NEW m \in Nat \ {0}, NEW a \in m .. 2 * m - 1 PROVE a % m = a - m
OBVIOUS

LEMMA ModBelow == ASSUME NEW m \in Nat \ {0}, NEW a \in -m .. -1 PROVE a % m = a + m
OBVIOUS

Value == 0 .. PR - 1

LEMMA WidthType == Width \in Nat \ {0} /\ Width = 2 * PR + 2 /\ PR \in Nat \ {0}
BY DEF Width

(* Subtracting mod PR on 62-bit integers.                                  *)
LEMMA BoolDiff ==
  ASSUME NEW x \in Value, NEW r \in Value
  PROVE  bool_diff(x, r) = IF x >= r THEN x - r ELSE x - r + PR
<1> USE WidthType
<1>1. x \in Int /\ r \in Int /\ x >= 0 /\ r >= 0 /\ x < PR /\ r < PR
  BY DEF Value
<1>2. CASE x >= r
  <2>1. x - r \in 0 .. Width - 1
    BY <1>1, <1>2
  <2>2. Minus(x, r) = x - r
    BY <2>1, ModSame DEF Minus
  <2> QED
    BY <1>1, <1>2, <2>2 DEF bool_diff, Correct, Negative
<1>3. CASE x < r
  <2>1. x - r \in -Width .. -1
    BY <1>1, <1>3
  <2>2. Minus(x, r) = x - r + Width
    BY <2>1, ModBelow DEF Minus
  <2>3. Negative(Minus(x, r))
    BY <2>2, <1>1 DEF Negative
  <2>4. Minus(x, r) + PR \in Width .. 2 * Width - 1
    <3>1. Minus(x, r) + PR = x - r + 3 * PR + 2
      BY <2>2, <1>1
    <3>2. x - r >= 1 - PR /\ x - r <= -1
      BY <1>1, <1>3
    <3> QED
      BY <3>1, <3>2, <1>1
  <2>5. Plus(Minus(x, r), PR) = x - r + PR
    <3>1. PICK s \in Width .. 2 * Width - 1 : s = Minus(x, r) + PR
      BY <2>4
    <3>2. s % Width = s - Width
      BY ModAbove, SMTT(40), ZenonT(40), Z3T(40)
    <3>3. s - Width = x - r + PR
      BY <3>1, <2>2, <1>1
    <3> QED
      BY <3>1, <3>2, <3>3 DEF Plus
  <2> QED
    BY <1>1, <1>3, <2>3, <2>5 DEF bool_diff, Correct
<1> QED
  BY <1>1, <1>2, <1>3

LEMMA IntfpAdd ==
  ASSUME NEW x \in Value, NEW r \in Value
  PROVE  /\ intfp_add(r, x) = IF r + x < PR THEN r + x ELSE r + x - PR
         /\ intfp_add(r, x) \in Value
<1>1. x \in Int /\ r \in Int /\ x >= 0 /\ r >= 0 /\ x < PR /\ r < PR /\ PR \in Nat \ {0}
  BY DEF Value
<1>2. CASE r + x < PR
  <2>1. r + x \in 0 .. PR - 1
    BY <1>1, <1>2
  <2> QED
    BY <1>1, <1>2, <2>1, ModSame DEF intfp_add, Value
<1>3. CASE r + x >= PR
  <2>1. PR \in Nat \ {0} /\ r + x \in PR .. 2 * PR - 1
    BY <1>1, <1>3
  <2>2. PICK s \in PR .. 2 * PR - 1 : s = r + x
    BY <2>1
  <2>3. intfp_add(r, x) = r + x - PR
    <3>1. s % PR = s - PR
      BY <2>1, ModAbove
    <3>2. intfp_add(r, x) = s % PR
      BY <2>2 DEF intfp_add
    <3> QED
      BY <1>1, <2>2, <3>1, <3>2
  <2> QED
    BY <1>1, <1>3, <2>3 DEF Value
<1> QED
  BY <1>1, <1>2, <1>3

\* A boolean value masked with an edabit and unmasked in F_p is itself
\* (bool2arith(), edabits.h:160-174).
THEOREM BoolToArith ==
  ASSUME NEW x \in Value, NEW r \in Value
  PROVE  bool_diff(x, r) \in Value /\ intfp_add(r, bool_diff(x, r)) = x
<1>1. x \in Int /\ r \in Int /\ x >= 0 /\ r >= 0 /\ x < PR /\ r < PR /\ PR \in Nat \ {0}
  BY DEF Value
<1>2. bool_diff(x, r) = (IF x >= r THEN x - r ELSE x - r + PR) /\ bool_diff(x, r) \in Value
  BY BoolDiff, <1>1 DEF Value
<1>3. intfp_add(r, bool_diff(x, r)) = IF r + bool_diff(x, r) < PR
                                      THEN r + bool_diff(x, r) ELSE r + bool_diff(x, r) - PR
  BY <1>2, IntfpAdd
<1> QED
  BY <1>1, <1>2, <1>3

\* A value of F_p masked with an edabit and unmasked on booleans is itself
\* (arith2bool(), edabits.h:210-251).
THEOREM ArithToBool ==
  ASSUME NEW x \in Value, NEW r \in Value
  PROVE  bool_diff(intfp_add(r, x), r) = x
<1>1. x \in Int /\ r \in Int /\ x >= 0 /\ r >= 0 /\ x < PR /\ r < PR /\ PR \in Nat \ {0}
  BY DEF Value
<1>2. /\ intfp_add(r, x) = (IF r + x < PR THEN r + x ELSE r + x - PR)
      /\ intfp_add(r, x) \in Value
  BY IntfpAdd
<1>3. bool_diff(intfp_add(r, x), r) = IF intfp_add(r, x) >= r
                                      THEN intfp_add(r, x) - r ELSE intfp_add(r, x) - r + PR
  BY <1>2, BoolDiff
<1> QED
  BY <1>1, <1>2, <1>3

-----------------------------------------------------------------------------
(* A chunk meets the edabits it was masked with.                           *)

LEMMA Sizes == ell \in Nat /\ N <= ell /\ ell <= np_sz /\ np_sz \in Nat /\ N \in Nat \ {0}
<1>1. B * N \in Nat /\ B * N >= N
  <2>1. PICK b \in Nat : B = b + 2
    BY B - 2 \in Nat
  <2>2. B * N = b * N + 2 * N /\ b * N \in Nat
    BY <2>1
  <2> QED
    BY <2>2
<1> QED
  BY <1>1, np_szAssumption DEF ell

TypeOK ==
  /\ np_pt \in Nat /\ np_pt + ell <= np_sz /\ np_rg \in Nat
  /\ edabit_num \in 0 .. N /\ edabit_offset \in 0 .. N
  /\ edabit_num > 0 => edabit_offset + edabit_num = N
  /\ arith_candidate \in [0 .. np_sz - 1 -> Value]
  /\ bool_candidate \in [0 .. ell - 1 -> 0 .. Width - 1]
  /\ hashOk \in BOOLEAN /\ exact \in BOOLEAN
  /\ verdict \in {"open", "failed", "accepted"}

\* An edabit of the chunk under way, and the input x that it masks.
EntryOK(e, x) ==
  /\ e.fp \in 0 .. np_sz - 1 /\ e.f2 \in 0 .. ell - 1
  /\ e.right => arith_candidate[e.fp] = bool_candidate[e.f2]
  /\ e.masked = IF call.op = "bool2arith" THEN bool_diff(x, bool_candidate[e.f2])
                ELSE intfp_add(arith_candidate[e.fp], x)

Edabit   == [f2 : Int, fp : Int, masked : Int, right : BOOLEAN]
Ops      == {"bool2arith", "arith2bool"}
CallType == [op : Ops, in : Seq(Value), chunk : Seq(Edabit), num : Nat]

\* What is left of the chunk fits in the edabits that are left, or in a batch.
CallOK ==
  \/ call = Idle
  \/ /\ call \in CallType
     /\ call.num \in 1 .. Len(call.in) /\ Len(call.chunk) <= call.num
     /\ \/ call.chunk = << >> /\ edabit_num = 0 /\ call.num <= N
        \/ call.num - Len(call.chunk) <= edabit_num
     /\ \A k \in 1 .. Len(call.chunk) : EntryOK(call.chunk[k], call.in[k])

\* A wrong output shows in the digests.
ExactOK ==
  /\ verdict = "open" /\ hashOk => exact
  /\ verdict = "accepted" => exact

IInv == TypeOK /\ CallOK /\ ExactOK

LEMMA InitInv == Init => IInv
<1> SUFFICES ASSUME Init PROVE IInv
  OBVIOUS
<1>1. 0 \in Value /\ 0 \in 0 .. Width - 1
  BY WidthType DEF Value
<1>2. TypeOK
  BY <1>1, Sizes DEF Init, TypeOK
<1> QED
  BY <1>2 DEF Init, IInv, CallOK, ExactOK

(* The top of a call's loop takes a chunk that fits.                       *)
LEMMA ChunkFits ==
  ASSUME TypeOK, NEW op \in Ops, NEW in \in Seq(Value),
         call' = Chunk(op, in), UNCHANGED edabit_num
  PROVE  CallOK'
<1>1. CASE in = << >>
  BY <1>1 DEF Chunk, CallOK, Idle
<1>2. CASE in # << >>
  <2>1. call' = [op |-> op, in |-> in, chunk |-> << >>, num |-> Smaller(Len(in), Avail)]
    BY <1>2 DEF Chunk
  <2>2. Len(in) \in Nat \ {0} /\ Avail \in 1 .. N /\ (edabit_num > 0 => Avail = edabit_num)
    BY <1>2, Sizes DEF TypeOK, Avail
  <2>3. /\ Smaller(Len(in), Avail) \in 1 .. Len(in)
        /\ Smaller(Len(in), Avail) <= N
        /\ edabit_num > 0 => Smaller(Len(in), Avail) <= edabit_num
    BY <2>2, Sizes DEF Smaller
  <2>4. edabit_num \in Nat
    BY DEF TypeOK
  <2> HIDE DEF Smaller, Avail
  <2> QED
    BY <2>1, <2>2, <2>3, <2>4, Sizes DEF CallOK, EntryOK, CallType
<1> QED
  BY <1>1, <1>2

LEMMA BeginStep == ASSUME IInv, Begin PROVE IInv'
<1> USE DEF IInv
<1>1. PICK c \in Inputs : call' = Chunk(c.op, c.in)
  BY DEF Begin
<1>2. c.op \in Ops /\ c.in \in Seq(Value)
  BY InputsAssumption DEF Value, Ops
<1>3. UNCHANGED <<bufVars, edabit_num, edabit_offset, hashOk, exact, verdict>>
  BY DEF Begin
<1>4. CallOK'
  BY <1>1, <1>2, <1>3, ChunkFits
<1> QED
  BY <1>3, <1>4 DEF TypeOK, ExactOK, bufVars

(* A new batch is only made between two chunks.                            *)
LEMMA NextBatchStep == ASSUME IInv, NextBatch PROVE IInv'
<1> USE DEF IInv
<1>1. PICK rand \in 0 .. ell_faulty - 1, cands \in First \cup Later : Generate(cands, rand)
  BY DEF NextBatch
<1>2. cands \in [0 .. ell - 1 -> [fp : 0 .. PR - 1, f2 : 0 .. Width - 1]]
  BY BatchAssumption
<1>3. call # Idle /\ verdict = "open" /\ Len(call.chunk) < call.num /\ edabit_num = 0
  BY DEF NextBatch
<1>4. Start(np_rg) \in Nat /\ Start(np_rg) + ell <= np_sz
  BY Sizes DEF Start, TypeOK
<1>5. /\ np_pt' = Start(np_rg) /\ np_rg' = Start(np_rg) + ell
      /\ edabit_num' = N /\ edabit_offset' = 0 /\ hashOk' = TRUE
      /\ UNCHANGED <<call, exact>>
  BY <1>1 DEF Generate
<1>6. arith_candidate' \in [0 .. np_sz - 1 -> Value]
  <2>1. arith_candidate' = [i \in 0 .. np_sz - 1 |->
          IF i - Start(np_rg) \in 0 .. ell - 1 THEN cands[i - Start(np_rg)].fp
          ELSE IF Draws(np_rg) = drawn THEN arith_candidate[i] ELSE 0]
    BY <1>1 DEF Generate
  <2>2. 0 \in Value /\ \A k \in 0 .. ell - 1 : cands[k].fp \in Value
    BY <1>2 DEF Value
  <2> HIDE DEF Start, Draws
  <2> QED
    BY <2>1, <2>2 DEF TypeOK
<1>7. bool_candidate' \in [0 .. ell - 1 -> 0 .. Width - 1]
  <2>1. bool_candidate' = [i \in 0 .. ell - 1 |-> cands[i].f2]
    BY <1>1 DEF Generate
  <2> QED
    BY <2>1, <1>2
<1>8. (verdict' = "open" /\ hashOk) \/ verdict' = "failed"
  BY <1>1, <1>3 DEF Generate
<1>9. TypeOK'
  <2>1. np_pt' \in Nat /\ np_pt' + ell <= np_sz /\ np_rg' \in Nat
    BY <1>4, <1>5, Sizes
  <2>2. edabit_num' \in 0 .. N /\ edabit_offset' \in 0 .. N /\ edabit_offset' + edabit_num' = N
    BY <1>5, Sizes
  <2>3. hashOk' \in BOOLEAN /\ exact' \in BOOLEAN
    BY <1>5 DEF TypeOK
  <2>4. verdict' \in {"open", "failed", "accepted"}
    BY <1>3, <1>8
  <2> QED
    BY ONLY <1>6, <1>7, <2>1, <2>2, <2>3, <2>4 DEF TypeOK
<1>10. CallOK'
  <2>1. call.chunk = << >> /\ call.num <= N /\ call.num \in Nat /\ Len(call.chunk) = 0
    BY <1>3 DEF CallOK, CallType
  <2> QED
    BY <1>3, <1>5, <2>1 DEF CallOK, EntryOK
<1>11. ExactOK'
  BY <1>3, <1>5, <1>8 DEF ExactOK
<1> QED
  BY <1>9, <1>10, <1>11

LEMMA TakeEdabitStep == ASSUME IInv, TakeEdabit PROVE IInv'
<1> USE DEF IInv
<1> DEFINE k == Len(call.chunk) + 1
           fp == np_pt + edabit_offset
           f2 == edabit_offset
           masked == IF call.op = "bool2arith" THEN bool_diff(call.in[k], bool_candidate[f2])
                     ELSE intfp_add(arith_candidate[fp], call.in[k])
           right == arith_candidate[fp] = bool_candidate[f2]
           e == [f2 |-> f2, fp |-> fp, masked |-> masked, right |-> right]
<1>1. /\ call # Idle /\ verdict = "open" /\ Len(call.chunk) < call.num /\ edabit_num > 0
      /\ call' = [call EXCEPT !.chunk = Append(@, e)]
      /\ edabit_offset' = edabit_offset + 1 /\ edabit_num' = edabit_num - 1
      /\ UNCHANGED <<np_pt, np_rg, arith_candidate, bool_candidate, hashOk, exact, verdict>>
  BY DEF TakeEdabit, bufVars
<1>2. /\ edabit_offset + edabit_num = N /\ edabit_offset \in Nat /\ edabit_num \in Nat
      /\ np_pt \in Nat /\ np_pt + ell <= np_sz
  BY <1>1 DEF TypeOK
<1>3. fp \in 0 .. np_sz - 1 /\ f2 \in 0 .. ell - 1 /\ fp \in Int /\ f2 \in Int
  <2>1. edabit_num > 0
    BY <1>1
  <2> QED
    BY ONLY <1>2, <2>1, Sizes
<1>4. TypeOK'
  <2>1. /\ np_pt' = np_pt /\ np_rg' = np_rg /\ np_rg \in Nat
        /\ arith_candidate' = arith_candidate /\ bool_candidate' = bool_candidate
        /\ hashOk' = hashOk /\ exact' = exact /\ verdict' = verdict
        /\ edabit_offset' = edabit_offset + 1 /\ edabit_num' = edabit_num - 1 /\ edabit_num > 0
    BY <1>1 DEF TypeOK
  <2>2. /\ edabit_num' \in 0 .. N /\ edabit_offset' \in 0 .. N /\ edabit_offset' + edabit_num' = N
    BY ONLY <1>2, <2>1, Sizes
  <2>3. /\ arith_candidate \in [0 .. np_sz - 1 -> Value] /\ bool_candidate \in [0 .. ell - 1 -> 0 .. Width - 1]
        /\ hashOk \in BOOLEAN /\ exact \in BOOLEAN /\ verdict \in {"open", "failed", "accepted"}
    BY DEF TypeOK
  <2> QED
    BY ONLY <1>2, <2>1, <2>2, <2>3 DEF TypeOK
<1>5. /\ call \in CallType /\ call.num \in 1 .. Len(call.in)
      /\ call.num - Len(call.chunk) <= edabit_num
      /\ \A i \in 1 .. Len(call.chunk) : EntryOK(call.chunk[i], call.in[i])
  BY <1>1 DEF CallOK
<1>6. k \in 1 .. Len(call.in) /\ call.in[k] \in Value /\ call.chunk \in Seq(Edabit)
  BY <1>1, <1>5 DEF CallType
<1>7. masked \in Int
  <2>1. arith_candidate[fp] \in Int /\ bool_candidate[f2] \in Int /\ call.in[k] \in Int
    <3>1. arith_candidate[fp] \in Value
      BY <1>3 DEF TypeOK
    <3>2. bool_candidate[f2] \in 0 .. Width - 1
      BY <1>3 DEF TypeOK
    <3> QED
      BY <1>6, <3>1, <3>2 DEF Value
  <2>2. intfp_add(arith_candidate[fp], call.in[k]) \in Int
    BY <2>1, WidthType DEF intfp_add
  <2>3. bool_diff(call.in[k], bool_candidate[f2]) \in Int
    BY <2>1, WidthType DEF bool_diff, Correct, Minus, Plus
  <2> QED
    BY <2>2, <2>3
<1>8. e \in Edabit /\ e.fp = fp /\ e.f2 = f2 /\ e.masked = masked /\ e.right = right
  BY <1>3, <1>7 DEF Edabit
<1>9. EntryOK(e, call.in[k])
  BY <1>3, <1>8 DEF EntryOK
<1> HIDE DEF e
<1>10. /\ call' \in CallType /\ call'.op = call.op /\ call'.in = call.in
       /\ call'.num = call.num /\ call'.chunk = Append(call.chunk, e)
  <2>1. Append(call.chunk, e) \in Seq(Edabit)
    BY <1>6, <1>8
  <2> HIDE DEF k, masked, right, fp, f2
  <2> QED
    BY <1>1, <1>5, <2>1 DEF CallType
<1>11. Len(call'.chunk) = k /\ k \in Nat
  BY <1>6, <1>8, <1>10
<1>12. \A i \in 1 .. k : EntryOK(call'.chunk[i], call.in[i])
  <2> SUFFICES ASSUME NEW i \in 1 .. k PROVE EntryOK(call'.chunk[i], call.in[i])
    OBVIOUS
  <2>1. CASE i = k
    BY <2>1, <1>6, <1>8, <1>9, <1>10
  <2>2. CASE i # k
    <3>1. i \in 1 .. Len(call.chunk) /\ call'.chunk[i] = call.chunk[i]
      BY <2>2, <1>6, <1>8, <1>10
    <3> QED
      BY <3>1, <1>5
  <2> QED
    BY <2>1, <2>2
<1>13. CallOK'
  <2>1. \A i \in 1 .. Len(call'.chunk) : EntryOK(call.chunk[i], call.in[i])'
    BY <1>1, <1>10, <1>11, <1>12, SMTT(40), ZenonT(40) DEF EntryOK
  <2>2. call'.num \in 1 .. Len(call'.in)
    BY <1>5, <1>10
  <2>3. Len(call'.chunk) <= call'.num /\ call'.num - Len(call'.chunk) <= edabit_num'
    <3> DEFINE x == call.num  y == Len(call.chunk)
    <3>1. x \in Nat /\ y \in Nat /\ y < x /\ x - y <= edabit_num
      BY <1>1, <1>5, <1>6
    <3>2. call'.num = x /\ Len(call'.chunk) = y + 1 /\ edabit_num' = edabit_num - 1
      BY <1>1, <1>10, <1>11
    <3> HIDE DEF x, y
    <3> QED
      BY ONLY <1>2, <3>1, <3>2
  <2> QED
    BY <1>10, <2>1, <2>2, <2>3 DEF CallOK
<1> QED
  BY <1>1, <1>4, <1>13 DEF ExactOK

(* An opening that is not false gives back what was masked.                *)
LEMMA OutputRight ==
  ASSUME TypeOK, call \in CallType, NEW e \in Edabit, NEW x \in Value, EntryOK(e, x), e.right
  PROVE  e.masked \in Value /\ Output(e, e.masked) = x
<1> DEFINE r == arith_candidate[e.fp]
<1>1. r \in Value /\ bool_candidate[e.f2] = r
  BY DEF EntryOK, TypeOK
<1> HIDE DEF r
<1>2. CASE call.op = "bool2arith"
  <2>1. e.masked = bool_diff(x, r) /\ Output(e, e.masked) = intfp_add(r, e.masked)
    BY <1>1, <1>2 DEF EntryOK, Output, r
  <2> QED
    BY <1>1, <2>1, BoolToArith
<1>3. CASE call.op # "bool2arith"
  <2>1. e.masked = intfp_add(r, x) /\ Output(e, e.masked) = bool_diff(e.masked, r)
    BY <1>1, <1>3 DEF EntryOK, Output, r
  <2> QED
    BY <1>1, <2>1, ArithToBool, IntfpAdd
<1> QED
  BY <1>2, <1>3

LEMMA OpenChunkStep == ASSUME IInv, OpenChunk PROVE IInv'
<1> USE DEF IInv
<1>1. PICK lie \in IF call.op = "arith2bool" THEN 0 .. PR - 1 ELSE {0} :
        LET sent(k) == IF k = 1 THEN (call.chunk[1].masked + lie) % PR
                       ELSE call.chunk[k].masked
        IN  /\ hashOk' = (hashOk /\ lie = 0)
            /\ exact' = (exact /\ \A k \in 1 .. call.num :
                 call.chunk[k].right => Output(call.chunk[k], sent(k)) = call.in[k])
  BY SMTT(40), ZenonT(40) DEF OpenChunk
<1>2. /\ call # Idle /\ verdict = "open" /\ Len(call.chunk) = call.num
      /\ call' = Chunk(call.op, SubSeq(call.in, call.num + 1, Len(call.in)))
      /\ UNCHANGED <<np_pt, np_rg, arith_candidate, bool_candidate, edabit_num, edabit_offset, verdict>>
  BY DEF OpenChunk, bufVars
<1>3. /\ call \in CallType /\ call.num \in 1 .. Len(call.in)
      /\ \A k \in 1 .. Len(call.chunk) : EntryOK(call.chunk[k], call.in[k])
  BY <1>2 DEF CallOK
<1>4. TypeOK'
  BY <1>1, <1>2 DEF TypeOK
<1>5. CallOK'
  <2>1. call.op \in Ops /\ SubSeq(call.in, call.num + 1, Len(call.in)) \in Seq(Value)
    BY <1>3 DEF CallType
  <2> QED
    BY <1>2, <2>1, ChunkFits
<1>6. ASSUME lie = 0, NEW k \in 1 .. call.num, call.chunk[k].right
      PROVE  /\ (call.chunk[k].masked + lie) % PR = call.chunk[k].masked
             /\ Output(call.chunk[k], call.chunk[k].masked) = call.in[k]
  <2>1. call.chunk[k] \in Edabit /\ call.in[k] \in Value
    BY <1>2, <1>3 DEF CallType
  <2>2. /\ call.chunk[k].masked \in Value
        /\ Output(call.chunk[k], call.chunk[k].masked) = call.in[k]
    BY <1>2, <1>3, <1>6, <2>1, OutputRight
  <2>3. PICK m \in 0 .. PR - 1 : m = call.chunk[k].masked
    BY <2>2 DEF Value
  <2>4. m % PR = m /\ m + lie = m
    BY <1>6, WidthType, ModSame
  <2> QED
    BY <2>2, <2>3, <2>4
<1>7. lie = 0 => exact' = exact
  BY <1>1, <1>6 DEF TypeOK
<1>8. ExactOK'
  BY <1>1, <1>2, <1>7 DEF ExactOK, TypeOK
<1> QED
  BY <1>4, <1>5, <1>8

LEMMA DestroyStep == ASSUME IInv, Destroy PROVE IInv'
<1> USE DEF IInv
<1>1. /\ verdict = "open" /\ verdict' = (IF hashOk THEN "accepted" ELSE "failed")
      /\ UNCHANGED <<np_pt, np_rg, arith_candidate, bool_candidate, edabit_num, edabit_offset,
                     hashOk, exact, call>>
  BY DEF Destroy, bufVars
<1>2. TypeOK' /\ ExactOK'
  BY <1>1 DEF TypeOK, ExactOK
<1>3. CallOK'
  BY <1>1 DEF CallOK, EntryOK
<1> QED
  BY <1>2, <1>3

LEMMA StepInv == IInv /\ [Next]_vars => IInv'
<1> SUFFICES ASSUME IInv, [Next]_vars PROVE IInv'
  BY SMTT(40), ZenonT(40)
<1>1. CASE UNCHANGED vars
  BY <1>1 DEF vars, IInv, TypeOK, CallOK, EntryOK, ExactOK
<1> QED
  BY <1>1, BeginStep, NextBatchStep, TakeEdabitStep, OpenChunkStep, DestroyStep
     DEF Next, Terminated

\* The converter's variables stay in their types, for every prime, batch and
\* buffer size: no conversion reads behind the buffers.
THEOREM TypeCorrect == Spec => []TypeOK
<1>1. IInv => TypeOK
  BY DEF IInv
<1> QED
  BY InitInv, StepInv, <1>1, PTL DEF Spec

\* A session whose digests agree to the end has converted every input right
\* wherever the edabit was right, for every prime, batch size, buffer and program.
THEOREM ExactConversions == Spec => []ConversionsExact
<1>1. IInv => ConversionsExact
  BY DEF IInv, ExactOK, ConversionsExact
<1> QED
  BY InitInv, StepInv, <1>1, PTL DEF Spec

-----------------------------------------------------------------------------
(* Indices into a batch: the walk over the candidates behind the kept ones. *)

LEMMA LeastNat ==
  ASSUME NEW S, S \subseteq Nat, S # {}
  PROVE  \E x \in S : \A y \in S : x <= y
<1>1. PICK x \in S : \A y \in S : <<y, x>> \notin OpToRel(<, Nat)
  BY WFMin, NatLessThanWellFounded, Zenon
<1>2. ASSUME NEW y \in S PROVE x <= y
  <2>1. x \in Nat /\ y \in Nat /\ ~(y < x)
    BY <1>1 DEF OpToRel
  <2> QED
    BY <2>1
<1> QED
  BY <1>2

\* Steps of D, up to m of them.
LEMMA Steps ==
  ASSUME NEW D \in Nat \ {0}, NEW m \in Nat \ {0}
  PROVE  /\ m * D \in Nat
         /\ \A i \in 0 .. m - 1 : i * D \in Nat /\ i * D + D <= m * D
         /\ \A i \in 0 .. m - 1 : i # 0 => (i - 1) * D + D = i * D
         /\ \A i, l \in 0 .. m - 1 : i < l => i * D + D <= l * D
         /\ 0 * D = 0
<1>1. \A a, b \in Nat : a < b => a * D \in Nat /\ b * D \in Nat /\ a * D + D <= b * D
  <2> SUFFICES ASSUME NEW a \in Nat, NEW b \in Nat, a < b
               PROVE  a * D \in Nat /\ b * D \in Nat /\ a * D + D <= b * D
    OBVIOUS
  <2>1. PICK c \in Nat : b = a + 1 + c
    BY b - a - 1 \in Nat
  <2>2. a * D \in Nat /\ c * D \in Nat
    OBVIOUS
  <2>3. b * D = a * D + D + c * D
    BY <2>1
  <2> QED
    BY <2>2, <2>3
<1>2. m * D \in Nat /\ 0 * D = 0
  OBVIOUS
<1>3. \A i \in 0 .. m - 1 : i # 0 => (i - 1) * D + D = i * D
  OBVIOUS
<1> QED
  BY <1>1, <1>2, <1>3

\* Steps of the walk over all buckets.
Walk == N * Bm1

LEMMA BatchSizes ==
  /\ N \in Nat \ {0} /\ C \in Nat \ {0} /\ Bm1 \in Nat \ {0} /\ B = Bm1 + 1
  /\ Walk \in Nat /\ Bm1 <= Walk
  /\ ell_faulty = Walk + C /\ ell = N + ell_faulty
  /\ ell_faulty \in Nat \ {0}
<1>1. N \in Nat \ {0} /\ C \in Nat \ {0} /\ Bm1 \in Nat \ {0} /\ B = Bm1 + 1 /\ B \in Nat
  BY SizesAssumption DEF Bm1
<1>2. Walk \in Nat /\ 0 * Bm1 + Bm1 <= Walk /\ 0 * Bm1 = 0
  BY <1>1, Steps DEF Walk
<1>3. B * N = Walk + N
  BY <1>1 DEF Walk
<1> HIDE DEF Walk
<1> QED
  BY <1>1, <1>2, <1>3 DEF ell, ell_faulty

\* The candidate u steps behind the kept ones, around the batch once at most.
Place(u) == N + (IF u < ell_faulty THEN u ELSE u - ell_faulty)

LEMMA Onward ==
  /\ \A u \in Nat : u < 2 * ell_faulty => f2_index(N + u) = Place(u)
  /\ \A u, d \in Nat : u + d < 2 * ell_faulty => f2_index(Place(u) + d) = Place(u + d)
  /\ \A pt, o \in Nat : fp_index(pt + ell, pt + o) = pt + f2_index(o)
  /\ \A u \in Nat : u < 2 * ell_faulty => Place(u) \in N .. ell - 1
<1>1. N \in Nat /\ ell = N + ell_faulty /\ ell_faulty \in Nat \ {0}
  BY BatchSizes
<1>2. \A u \in Nat : u < 2 * ell_faulty => f2_index(N + u) = Place(u)
  BY <1>1 DEF f2_index, Place
<1>3. \A u, d \in Nat : u + d < 2 * ell_faulty => f2_index(Place(u) + d) = Place(u + d)
  BY <1>1 DEF f2_index, Place
<1>4. \A pt, o \in Nat : fp_index(pt + ell, pt + o) = pt + f2_index(o)
  BY <1>1 DEF f2_index, fp_index
<1>5. \A u \in Nat : u < 2 * ell_faulty => Place(u) \in N .. ell - 1
  BY <1>1 DEF Place
<1> QED
  BY <1>2, <1>3, <1>4, <1>5

\* Where the j-th partner of kept edabit i is on the walk.
At(rand, j, i) == rand + C + j + i * Bm1

LEMMA AtFacts ==
  ASSUME NEW rand \in 0 .. ell_faulty - 1, NEW j \in Turns
  PROVE  /\ \A i \in Kept : /\ At(rand, j, i) \in rand + C .. rand + ell_faulty - 1
                            /\ At(rand, j, i) \in Nat /\ At(rand, j, i) < 2 * ell_faulty
         /\ \A i \in Kept : i # 0 => At(rand, j, i - 1) + Bm1 = At(rand, j, i)
         /\ At(rand, j, 0) = rand + C + j
<1>1. /\ N \in Nat \ {0} /\ C \in Nat \ {0} /\ Bm1 \in Nat \ {0} /\ Walk \in Nat
      /\ ell_faulty = Walk + C /\ ell_faulty \in Nat \ {0}
  BY BatchSizes
<1>2. /\ \A i \in 0 .. N - 1 : i * Bm1 \in Nat /\ i * Bm1 + Bm1 <= Walk
      /\ \A i \in 0 .. N - 1 : i # 0 => (i - 1) * Bm1 + Bm1 = i * Bm1
      /\ 0 * Bm1 = 0
  BY <1>1, Steps DEF Walk
<1>3. rand \in Nat /\ rand < ell_faulty /\ j \in Nat /\ j < Bm1
  BY <1>1 DEF Turns
<1>4. ASSUME NEW i \in Kept
      PROVE  /\ At(rand, j, i) \in rand + C .. rand + ell_faulty - 1
             /\ At(rand, j, i) \in Nat /\ At(rand, j, i) < 2 * ell_faulty
  <2> DEFINE x == i * Bm1
  <2>1. x \in Nat /\ x + Bm1 <= Walk /\ At(rand, j, i) = rand + C + j + x
    BY <1>2 DEF Kept, At
  <2> HIDE DEF x
  <2> QED
    BY <1>1, <1>3, <2>1
<1>5. ASSUME NEW i \in Kept, i # 0
      PROVE  At(rand, j, i - 1) + Bm1 = At(rand, j, i)
  <2> DEFINE x == i * Bm1  y == (i - 1) * Bm1
  <2>1. x \in Nat /\ y + Bm1 = x /\ At(rand, j, i) = rand + C + j + x /\ At(rand, j, i - 1) = rand + C + j + y
    BY <1>2, <1>5 DEF Kept, At
  <2>2. i - 1 \in 0 .. N - 1
    BY <1>1, <1>5 DEF Kept
  <2>3. y \in Nat
    BY <1>2, <2>2
  <2> HIDE DEF x, y
  <2> QED
    BY <1>1, <1>3, <2>1, <2>3
<1>6. At(rand, j, 0) = rand + C + j
  BY <1>1, <1>2, <1>3 DEF At
<1> QED
  BY <1>4, <1>5, <1>6

\* The loop over the partners of one turn is any function that satisfies it.
LEMMA LoopIs ==
  ASSUME NEW m \in Nat \ {0}, NEW x, NEW rg, NEW w,
         w = [i \in 0 .. m - 1 |-> IF i = 0 THEN x ELSE fp_index(rg, w[i - 1] + Bm1)]
  PROVE  (CHOOSE g : g = [i \in 0 .. m - 1 |-> IF i = 0 THEN x ELSE fp_index(rg, g[i - 1] + Bm1)])
           = w
<1> DEFINE Loop(g) == g = [i \in 0 .. m - 1 |-> IF i = 0 THEN x ELSE fp_index(rg, g[i - 1] + Bm1)]
<1> SUFFICES ASSUME NEW g, Loop(g) PROVE g = w
  <2>1. Loop(w)
    OBVIOUS
  <2>2. \A g : Loop(g) => g = w
    OBVIOUS
  <2> HIDE DEF Loop
  <2>3. (CHOOSE g : Loop(g)) = w
    BY <2>1, <2>2
  <2> QED
    BY <2>3 DEF Loop
<1>1. \A i \in 0 .. m - 1 : g[i] = w[i]
  <2> DEFINE S == {i \in 0 .. m - 1 : g[i] # w[i]}
  <2> SUFFICES ASSUME S # {} PROVE FALSE
    OBVIOUS
  <2>1. S \subseteq Nat
    OBVIOUS
  <2>2. PICK i \in S : \A l \in S : i <= l
    <3> HIDE DEF S
    <3> QED
      BY <2>1, LeastNat
  <2>3. i \in 0 .. m - 1 /\ g[i] # w[i]
    BY <2>2
  <2>4. i # 0
    BY <2>3
  <2>5. i - 1 \in 0 .. m - 1 /\ ~(i <= i - 1)
    BY <2>3, <2>4
  <2>6. g[i - 1] = w[i - 1]
    BY <2>2, <2>5
  <2> QED
    BY <2>3, <2>4, <2>6
<1> QED
  BY <1>1

\* The j-th partner of a kept edabit, as a boolean and as an F_p value.
LEMMA PartnerAt ==
  ASSUME NEW rand \in 0 .. ell_faulty - 1, NEW j \in Turns, NEW pt \in Nat, NEW i \in Kept
  PROVE  /\ f2_partner(rand, j)[i] = Place(At(rand, j, i))
         /\ fp_partner(pt, rand, j)[i] = pt + Place(At(rand, j, i))
<1>1. /\ N \in Nat \ {0} /\ C \in Nat \ {0} /\ Bm1 \in Nat \ {0} /\ Walk \in Nat
      /\ ell_faulty = Walk + C /\ ell_faulty \in Nat \ {0} /\ ell = N + ell_faulty
  BY BatchSizes
<1>2. rand \in Nat /\ rand < ell_faulty /\ j \in Nat /\ rand + C + j < 2 * ell_faulty
  <2>1. Bm1 <= Walk
    BY BatchSizes
  <2> QED
    BY <1>1, <2>1 DEF Turns
<1>3. ASSUME NEW q \in Nat
      PROVE  /\ fp_index(q + ell, fp_index(q + ell, q + (N + rand + C)) + j) = q + Place(At(rand, j, 0))
             /\ \A k \in Kept : k # 0 =>
                  fp_index(q + ell, q + Place(At(rand, j, k - 1)) + Bm1) = q + Place(At(rand, j, k))
  <2>1. fp_index(q + ell, q + (N + rand + C)) = q + Place(rand + C)
    <3>1. fp_index(q + ell, q + (N + rand + C)) = q + f2_index(N + rand + C)
      BY <1>1, <1>2, Onward
    <3>2. f2_index(N + (rand + C)) = Place(rand + C)
      BY <1>1, <1>2, Onward
    <3>3. N + (rand + C) = N + rand + C
      BY <1>1, <1>2
    <3> QED
      BY <3>1, <3>2, <3>3
  <2>2. ASSUME NEW u \in Nat, NEW d \in Nat, u + d < 2 * ell_faulty
        PROVE  fp_index(q + ell, q + Place(u) + d) = q + Place(u + d)
    <3>1. Place(u) + d \in Nat /\ q + Place(u) + d = q + (Place(u) + d)
      <4>1. Place(u) \in N .. ell - 1
        BY <1>1, <2>2, Onward
      <4> QED
        BY <1>1, <4>1
    <3>2. fp_index(q + ell, q + (Place(u) + d)) = q + f2_index(Place(u) + d)
      BY <3>1, Onward
    <3>3. f2_index(Place(u) + d) = Place(u + d)
      BY <2>2, Onward
    <3> QED
      BY <3>1, <3>2, <3>3
  <2>3. fp_index(q + ell, q + Place(rand + C) + j) = q + Place(At(rand, j, 0))
    <3>1. At(rand, j, 0) = rand + C + j /\ rand + C \in Nat
      BY <1>1, <1>2, AtFacts
    <3> QED
      BY <1>2, <2>2, <3>1
  <2>4. ASSUME NEW k \in Kept, k # 0
        PROVE  fp_index(q + ell, q + Place(At(rand, j, k - 1)) + Bm1) = q + Place(At(rand, j, k))
    <3>1. At(rand, j, k - 1) + Bm1 = At(rand, j, k) /\ At(rand, j, k) < 2 * ell_faulty
      BY <2>4, AtFacts
    <3>2. At(rand, j, k - 1) \in Nat
      <4>1. k - 1 \in Kept
        BY <1>1, <2>4 DEF Kept
      <4> QED
        BY <4>1, AtFacts
    <3> QED
      BY <1>1, <2>2, <3>1, <3>2
  <2> QED
    BY <2>1, <2>3, <2>4
<1>4. fp_partner(pt, rand, j) = [k \in Kept |-> pt + Place(At(rand, j, k))]
  <2> DEFINE w == [k \in 0 .. N - 1 |-> pt + Place(At(rand, j, k))]
             x == fp_index(pt + ell, fp_index(pt + ell, pt + N + rand + C) + j)
             rg == pt + ell
  <2>1. pt + N + rand + C = pt + (N + rand + C)
    BY <1>1, <1>2
  <2>2. w = [k \in 0 .. N - 1 |-> IF k = 0 THEN x ELSE fp_index(rg, w[k - 1] + Bm1)]
    <3> SUFFICES ASSUME NEW k \in 0 .. N - 1
                 PROVE  w[k] = IF k = 0 THEN x ELSE fp_index(rg, w[k - 1] + Bm1)
      OBVIOUS
    <3>1. k # 0 => w[k - 1] = pt + Place(At(rand, j, k - 1))
      BY <1>1
    <3> QED
      BY <1>3, <2>1, <3>1 DEF Kept
  <2>3. fp_partner(pt, rand, j)
          = CHOOSE g : g = [k \in 0 .. N - 1 |-> IF k = 0 THEN x ELSE fp_index(rg, g[k - 1] + Bm1)]
    BY DEF fp_partner
  <2>4. N \in Nat \ {0}
    BY <1>1
  <2> HIDE DEF w, x, rg
  <2>5. fp_partner(pt, rand, j) = w
    BY <2>2, <2>3, <2>4, LoopIs
  <2> QED
    BY <2>5 DEF w, Kept
<1>5. f2_partner(rand, j) = [k \in Kept |-> Place(At(rand, j, k))]
  <2> DEFINE w == [k \in 0 .. N - 1 |-> Place(At(rand, j, k))]
             x == fp_index(ell, fp_index(ell, rand + N + C) + j)
             rg == ell
  <2>1. rand + N + C = 0 + (N + rand + C) /\ 0 + ell = ell
    BY <1>1, <1>2
  <2>2. w = [k \in 0 .. N - 1 |-> IF k = 0 THEN x ELSE fp_index(rg, w[k - 1] + Bm1)]
    <3> SUFFICES ASSUME NEW k \in 0 .. N - 1
                 PROVE  w[k] = IF k = 0 THEN x ELSE fp_index(rg, w[k - 1] + Bm1)
      OBVIOUS
    <3>0. \A l \in Kept : 0 + Place(At(rand, j, l)) = Place(At(rand, j, l))
      <4> SUFFICES ASSUME NEW l \in Kept PROVE 0 + Place(At(rand, j, l)) = Place(At(rand, j, l))
        OBVIOUS
      <4>1. Place(At(rand, j, l)) \in N .. ell - 1
        BY AtFacts, Onward
      <4> QED
        BY <4>1
    <3>1. k # 0 => w[k - 1] = Place(At(rand, j, k - 1)) /\ k - 1 \in Kept
      BY <1>1 DEF Kept
    <3>2. CASE k = 0
      <4>1. fp_index(0 + ell, fp_index(0 + ell, 0 + (N + rand + C)) + j) = 0 + Place(At(rand, j, 0))
        BY <1>3
      <4>2. 0 \in Kept
        BY <3>2 DEF Kept
      <4> QED
        BY <2>1, <3>0, <3>2, <4>1, <4>2
    <3>3. CASE k # 0
      <4>1. fp_index(0 + ell, 0 + Place(At(rand, j, k - 1)) + Bm1) = 0 + Place(At(rand, j, k))
        BY <1>3, <3>3 DEF Kept
      <4>2. k \in Kept
        BY DEF Kept
      <4> QED
        BY <2>1, <3>0, <3>1, <3>3, <4>1, <4>2
    <3> QED
      BY <3>2, <3>3
  <2>3. f2_partner(rand, j)
          = CHOOSE g : g = [k \in 0 .. N - 1 |-> IF k = 0 THEN x ELSE fp_index(rg, g[k - 1] + Bm1)]
    BY DEF f2_partner, f2_index, fp_index
  <2>4. N \in Nat \ {0}
    BY <1>1
  <2> HIDE DEF w, x, rg
  <2>5. f2_partner(rand, j) = w
    BY <2>2, <2>3, <2>4, LoopIs
  <2> QED
    BY <2>5 DEF w, Kept
<1> QED
  BY <1>4, <1>5

\* The partners lie behind the kept edabits, no two at one place and none at an
\* opened one.
LEMMA PartnersApart ==
  ASSUME NEW rand \in 0 .. ell_faulty - 1
  PROVE  /\ \A j \in Turns, i \in Kept : f2_partner(rand, j)[i] \in N .. ell - 1
         /\ \A j, l \in Turns, i, k \in Kept :
              f2_partner(rand, j)[i] = f2_partner(rand, l)[k] => j = l /\ i = k
         /\ \A j \in Turns, i \in Kept : f2_partner(rand, j)[i] \notin Opened(rand)
<1>1. /\ N \in Nat \ {0} /\ C \in Nat \ {0} /\ Bm1 \in Nat \ {0} /\ Walk \in Nat
      /\ ell_faulty = Walk + C /\ ell_faulty \in Nat \ {0} /\ ell = N + ell_faulty
  BY BatchSizes
<1>2. ASSUME NEW j \in Turns, NEW i \in Kept
      PROVE  /\ f2_partner(rand, j)[i] = Place(At(rand, j, i))
             /\ At(rand, j, i) \in rand + C .. rand + ell_faulty - 1
             /\ At(rand, j, i) \in Nat /\ At(rand, j, i) < 2 * ell_faulty
  <2>1. f2_partner(rand, j)[i] = Place(At(rand, j, i))
    BY PartnerAt, 0 \in Nat
  <2> QED
    BY <2>1, AtFacts
<1>3. ASSUME NEW j \in Turns, NEW i \in Kept PROVE f2_partner(rand, j)[i] \in N .. ell - 1
  <2> DEFINE u == At(rand, j, i)
  <2>1. f2_partner(rand, j)[i] = Place(u) /\ u \in Nat /\ u < 2 * ell_faulty
    BY <1>2
  <2> HIDE DEF u
  <2> QED
    BY <2>1, Onward
<1>4. \A u, v \in rand + C .. rand + ell_faulty - 1 : Place(u) = Place(v) => u = v
  BY <1>1 DEF Place
<1>5. ASSUME NEW j \in Turns, NEW l \in Turns, NEW i \in Kept, NEW k \in Kept,
             At(rand, j, i) = At(rand, l, k)
      PROVE  j = l /\ i = k
  <2> DEFINE x == i * Bm1  y == k * Bm1
  <2>1. /\ j \in 0 .. Bm1 - 1 /\ l \in 0 .. Bm1 - 1 /\ i \in 0 .. N - 1 /\ k \in 0 .. N - 1
    BY DEF Turns, Kept
  <2>2. /\ x \in Nat /\ y \in Nat /\ (i < k => x + Bm1 <= y) /\ (k < i => y + Bm1 <= x)
        /\ i = k => x = y
    BY <1>1, <2>1, Steps
  <2>3. rand + C + j + x = rand + C + l + y
    BY <1>5 DEF At
  <2> HIDE DEF x, y
  <2>4. ~(i < k) /\ ~(k < i)
    BY <1>1, <2>1, <2>2, <2>3
  <2>5. i = k
    BY <2>1, <2>4
  <2> QED
    BY <1>1, <2>1, <2>2, <2>3, <2>5
<1>6. ASSUME NEW j \in Turns, NEW l \in Turns, NEW i \in Kept, NEW k \in Kept,
             f2_partner(rand, j)[i] = f2_partner(rand, l)[k]
      PROVE  j = l /\ i = k
  <2>1. At(rand, j, i) = At(rand, l, k)
    BY <1>2, <1>4, <1>6
  <2> QED
    BY <1>5, <2>1
<1>7. ASSUME NEW j \in Turns, NEW i \in Kept, f2_partner(rand, j)[i] \in Opened(rand) PROVE FALSE
  <2> DEFINE u == At(rand, j, i)
  <2>1. u \in rand + C .. rand + ell_faulty - 1 /\ Place(u) \in N + rand .. N + rand + C - 1
    BY <1>2, <1>7 DEF Opened
  <2> HIDE DEF u
  <2> QED
    BY <1>1, <2>1 DEF Place
<1> QED
  BY <1>3, <1>6, <1>7

LEMMA BucketFacts ==
  ASSUME NEW rand \in 0 .. ell_faulty - 1, rand_pt = rand
  PROVE  /\ \A i \in Kept : Cardinality(Bucket(i)) = B
         /\ \A i, k \in Kept : i # k => Bucket(i) \cap Bucket(k) = {}
         /\ \A i \in Kept : Bucket(i) \cap Opened(rand_pt) = {}
         /\ \A i \in Kept : Bucket(i) \subseteq 0 .. ell - 1
<1>1. /\ N \in Nat \ {0} /\ Bm1 \in Nat \ {0} /\ B = Bm1 + 1 /\ ell = N + ell_faulty
      /\ ell_faulty \in Nat \ {0}
  BY BatchSizes
<1>2. /\ \A j \in Turns, i \in Kept : f2_partner(rand, j)[i] \in N .. ell - 1
      /\ \A j, l \in Turns, i, k \in Kept :
           f2_partner(rand, j)[i] = f2_partner(rand, l)[k] => j = l /\ i = k
      /\ \A j \in Turns, i \in Kept : f2_partner(rand, j)[i] \notin Opened(rand)
  BY PartnersApart
<1>3. \A i \in Kept : i \in 0 .. N - 1 /\ i \notin N .. ell - 1 /\ i \notin Opened(rand) /\ i \in 0 .. ell - 1
  BY <1>1 DEF Kept, Opened
<1>4. \A i, k \in Kept : i # k => Bucket(i) \cap Bucket(k) = {}
  BY <1>2, <1>3 DEF Bucket
<1>5. \A i \in Kept : Bucket(i) \cap Opened(rand_pt) = {}
  BY <1>2, <1>3 DEF Bucket
<1>6. \A i \in Kept : Bucket(i) \subseteq 0 .. ell - 1
  BY <1>1, <1>2, <1>3 DEF Bucket
<1>7. ASSUME NEW i \in Kept PROVE Cardinality(Bucket(i)) = B
  <2> DEFINE P == {f2_partner(rand, j)[i] : j \in Turns}
             h == [j \in Turns |-> f2_partner(rand, j)[i]]
  <2>1. h \in Bijection(Turns, P)
    BY <1>2 DEF Bijection, Injection, Surjection, IsInjective
  <2>2. IsFiniteSet(Turns) /\ Cardinality(Turns) = Bm1
    <3>1. Bm1 - 1 \in Int
      BY <1>1
    <3>2. IsFiniteSet(0 .. Bm1 - 1) /\ Cardinality(0 .. Bm1 - 1) = IF 0 > Bm1 - 1 THEN 0 ELSE (Bm1 - 1) - 0 + 1
      BY ONLY <3>1, FS_Interval, SMTT(40), ZenonT(40), Z3T(40)
    <3> QED
      BY <1>1, <3>2 DEF Turns
  <2>6. ExistsBijection(Turns, P)
    BY <2>1 DEF ExistsBijection
  <2> HIDE DEF h
  <2>3. IsFiniteSet(P) /\ Cardinality(P) = Bm1
    <3> HIDE DEF P
    <3> QED
      BY <2>6, <2>2, FS_Bijection
  <2>4. i \notin P
    BY <1>2, <1>3
  <2>5. Bucket(i) = P \cup {i}
    BY DEF Bucket
  <2> HIDE DEF P
  <2> QED
    BY <1>1, <2>3, <2>4, <2>5, FS_AddElement
<1> QED
  BY <1>4, <1>5, <1>6, <1>7

-----------------------------------------------------------------------------
(* Sums of a bucket.                                                       *)

LEMMA F2Add ==
  ASSUME NEW b \in 0 .. Width - 1, NEW c \in Value
  PROVE  f2_add(b, c) = IF b + c <= PR THEN b + c
                        ELSE IF b + c < Width THEN b + c - PR
                        ELSE b + c - Width
<1>1. /\ b \in Int /\ c \in Int /\ 0 <= b /\ b < Width /\ 0 <= c /\ c < PR
      /\ Width \in Nat \ {0} /\ Width = 2 * PR + 2 /\ PR \in Nat \ {0}
  BY WidthType DEF Value
<1>2. \A a \in 0 .. Width - 1 : a % Width = a
  BY <1>1, ModSame
<1>3. \A a \in Width .. 2 * Width - 1 : a % Width = a - Width
  BY <1>1, ModAbove
<1> HIDE DEF Width
<1>4. CASE b + c <= PR
  <2>1. b + c \in 0 .. Width - 1
    BY <1>1, <1>4
  <2>2. Plus(b, c) = b + c /\ ~Negative(Plus(b, c))
    BY <1>1, <1>2, <1>4, <2>1 DEF Plus, Negative
  <2> QED
    BY <1>4, <2>2 DEF f2_add, Correct
<1>5. CASE PR < b + c /\ b + c < Width
  <2>1. b + c \in 0 .. Width - 1
    BY <1>1, <1>5
  <2>2. Plus(b, c) = b + c /\ Negative(Plus(b, c))
    BY <1>1, <1>2, <1>5, <2>1 DEF Plus, Negative
  <2>3. (b + c) + (PR + 2) \in Width .. 2 * Width - 1
    BY <1>1, <1>5
  <2>4. f2_add(b, c) = ((b + c) + (PR + 2)) % Width
    BY <2>2 DEF f2_add, Correct, Plus
  <2>5. PICK s \in Width .. 2 * Width - 1 : s = (b + c) + (PR + 2)
    BY <2>3
  <2>6. f2_add(b, c) = s - Width
    BY <1>3, <2>4, <2>5
  <2> QED
    BY <1>1, <1>5, <2>5, <2>6
<1>6. CASE Width <= b + c
  <2>1. b + c \in Width .. 2 * Width - 1
    BY <1>1, <1>6
  <2>4. PICK s \in Width .. 2 * Width - 1 : s = b + c
    BY <2>1
  <2>5. s % Width = s - Width
    BY <1>3
  <2>6. Plus(b, c) = s % Width
    BY <2>4 DEF Plus
  <2>2. Plus(b, c) = b + c - Width
    BY <1>1, <2>4, <2>5, <2>6
  <2>3. ~Negative(Plus(b, c))
    BY <1>1, <2>2 DEF Negative
  <2> QED
    BY <1>1, <1>6, <2>2, <2>3 DEF f2_add, Correct
<1> QED
  BY <1>1, <1>4, <1>5, <1>6

\* A kept boolean that adds up with a right partner is the value, or one of the
\* two numbers congruent to it.
LEMMA RightPartner ==
  ASSUME NEW a \in Value, NEW c \in Value, NEW b \in 0 .. Width - 1,
         intfp_add(a, c) = f2_add(b, c)
  PROVE  b = a \/ b - a \in {PR, PR + 2}
<1>1. /\ b \in Int /\ c \in Int /\ a \in Int /\ 0 <= b /\ b < Width /\ 0 <= c /\ c < PR
      /\ 0 <= a /\ a < PR /\ Width = 2 * PR + 2 /\ PR \in Nat \ {0}
  BY WidthType DEF Value
<1>2. intfp_add(a, c) = IF a + c < PR THEN a + c ELSE a + c - PR
  BY IntfpAdd
<1>3. f2_add(b, c) = IF b + c <= PR THEN b + c
                     ELSE IF b + c < Width THEN b + c - PR ELSE b + c - Width
  BY F2Add
<1>4. (IF a + c < PR THEN a + c ELSE a + c - PR)
        = IF b + c <= PR THEN b + c ELSE IF b + c < Width THEN b + c - PR ELSE b + c - Width
  BY <1>2, <1>3
<1>5. b = a \/ b = a + PR \/ b = a + (PR + 2)
  BY ONLY <1>1, <1>4
<1> QED
  BY <1>1, <1>5

\* Two right candidates add up alike, but for a sum of PR.
LEMMA RightSum ==
  ASSUME NEW a \in Value, NEW c \in Value, a + c # PR
  PROVE  intfp_add(a, c) = f2_add(a, c)
<1>1. /\ c \in Int /\ a \in Int /\ 0 <= c /\ c < PR /\ a \in 0 .. Width - 1
      /\ 0 <= a /\ a < PR /\ Width = 2 * PR + 2 /\ PR \in Nat \ {0}
  BY WidthType DEF Value
<1>2. intfp_add(a, c) = IF a + c < PR THEN a + c ELSE a + c - PR
  BY IntfpAdd
<1>3. f2_add(a, c) = IF a + c <= PR THEN a + c
                     ELSE IF a + c < Width THEN a + c - PR ELSE a + c - Width
  BY <1>1, F2Add
<1> QED
  BY <1>1, <1>2, <1>3

-----------------------------------------------------------------------------
(* Batches and masks.                                                      *)

Accepted == /\ OpenedAgree(np_pt, rand_pt, arith_candidate, bool_candidate)
            /\ BucketsAgree(np_pt, rand_pt, arith_candidate, bool_candidate)

\* The batch at hand has been checked, and is right if ALICE is honest.
BatchOK ==
  /\ np_rg > 0 => np_rg = np_pt + ell /\ rand_pt \in 0 .. ell_faulty - 1
  /\ np_rg > 0 /\ verdict # "failed" => Accepted
  /\ honest => hashOk /\ (np_rg > 0 => \A i \in 0 .. ell - 1 : ~Wrong(i))

\* The next mask is above all that have been used; what was shown is behind the
\* kept edabits of its batch.
MaskOK ==
  /\ drawn \in Nat /\ np_rg <= np_sz
  /\ np_rg = 0 => np_pt = 0 /\ edabit_offset = 0 /\ edabit_num = 0
  /\ masks \in Seq(Int)
  /\ \A k \in DOMAIN masks : masks[k] < Pos(drawn, np_pt + edabit_offset)
  /\ \A j, k \in DOMAIN masks : j # k => masks[j] # masks[k]
  /\ ~past => /\ shown \subseteq Int /\ \A s \in shown : s < Pos(drawn, np_rg)
              /\ np_rg > 0 => \A i \in Kept : Pos(drawn, np_pt + i) \notin shown
              /\ Range(masks) \cap shown = {}

CutInv == IInv /\ BatchOK /\ MaskOK /\ HonestPasses

LEMMA PosFacts ==
  /\ \A d, i \in Nat : Pos(d, i) = Pos(d, 0) + i /\ Pos(d, i) \in Int /\ Pos(d, 0) \in Int
  /\ \A d \in Nat : Pos(d + 1, 0) = Pos(d, 0) + np_sz
<1>1. np_sz \in Nat
  BY Sizes
<1>2. \A d \in Nat : (d - 1) * np_sz \in Int /\ ((d + 1) - 1) * np_sz = (d - 1) * np_sz + np_sz
  BY <1>1
<1>3. \A d, i \in Nat : Pos(d, i) = (d - 1) * np_sz + i
  BY DEF Pos
<1>4. \A d, i \in Nat : Pos(d, i) = Pos(d, 0) + i /\ Pos(d, i) \in Int /\ Pos(d, 0) \in Int
  <2> SUFFICES ASSUME NEW d \in Nat, NEW i \in Nat
               PROVE  Pos(d, i) = Pos(d, 0) + i /\ Pos(d, i) \in Int /\ Pos(d, 0) \in Int
    OBVIOUS
  <2> DEFINE x == (d - 1) * np_sz
  <2>1. x \in Int /\ Pos(d, i) = x + i /\ Pos(d, 0) = x + 0
    BY <1>2, <1>3
  <2> HIDE DEF x
  <2> QED
    BY <2>1
<1>5. \A d \in Nat : Pos(d + 1, 0) = Pos(d, 0) + np_sz
  <2> SUFFICES ASSUME NEW d \in Nat PROVE Pos(d + 1, 0) = Pos(d, 0) + np_sz
    OBVIOUS
  <2> DEFINE x == (d - 1) * np_sz  y == ((d + 1) - 1) * np_sz
  <2>1. x \in Int /\ y = x + np_sz /\ Pos(d + 1, 0) = y + 0 /\ Pos(d, 0) = x + 0
    BY <1>2, <1>3
  <2> HIDE DEF x, y
  <2> QED
    BY <1>1, <2>1
<1> QED
  BY <1>4, <1>5

LEMMA CutInit == Init => CutInv
<1> SUFFICES ASSUME Init PROVE CutInv
  OBVIOUS
<1>1. IInv
  BY InitInv
<1>2. BatchOK
  BY DEF Init, BatchOK
<1>3. MaskOK
  <2>1. np_sz \in Nat /\ 0 <= np_sz
    BY Sizes
  <2>2. DOMAIN masks = {} /\ masks \in Seq(Int)
    BY DEF Init
  <2>3. Range(masks) = {}
    BY <2>2 DEF Range
  <2> QED
    BY <2>1, <2>2, <2>3 DEF Init, MaskOK
<1>4. HonestPasses
  BY DEF Init, HonestPasses
<1> QED
  BY <1>1, <1>2, <1>3, <1>4 DEF CutInv

\* What a batch that is made leaves behind.
LEMMA CutNextBatch == ASSUME CutInv, NextBatch PROVE BatchOK' /\ MaskOK' /\ HonestPasses'
<1>1. PICK rand \in 0 .. ell_faulty - 1, cands \in First \cup Later : Generate(cands, rand)
  BY DEF NextBatch
<1>2. cands \in [0 .. ell - 1 -> [fp : 0 .. PR - 1, f2 : 0 .. Width - 1]]
  BY BatchAssumption
<1>3. verdict = "open"
  BY DEF NextBatch
<1> DEFINE pt == Start(np_rg)  d == Draws(np_rg)
<1>4. /\ N \in Nat \ {0} /\ C \in Nat \ {0} /\ ell = N + ell_faulty /\ ell_faulty \in Nat \ {0}
      /\ ell \in Nat /\ np_sz \in Nat /\ ell <= np_sz
  BY BatchSizes, Sizes
<1>5. np_rg \in Nat /\ np_pt \in Nat /\ edabit_offset \in 0 .. N /\ drawn \in Nat /\ np_rg <= np_sz
  BY DEF CutInv, IInv, TypeOK, MaskOK
<1>6. pt \in Nat /\ pt + ell <= np_sz /\ d \in Nat
  BY <1>4, <1>5 DEF Start, Draws
<1>7. /\ np_pt' = pt /\ np_rg' = pt + ell /\ drawn' = d /\ rand_pt' = rand
      /\ edabit_num' = N /\ edabit_offset' = 0 /\ hashOk' = TRUE
      /\ past' = (past \/ Overflows(rand))
      /\ honest' = (honest /\ \A i \in DOMAIN cands : cands[i].fp = cands[i].f2)
      /\ shown' = shown
           \cup {Pos(d, pt + o) : o \in Opened(rand)}
           \cup {Pos(d, fp_partner(pt, rand, j)[i]) : j \in Turns, i \in Kept}
      /\ UNCHANGED <<call, calls, masks, exact>>
  BY <1>1 DEF Generate
<1>8. /\ arith_candidate' = [i \in 0 .. np_sz - 1 |->
                  IF i - pt \in 0 .. ell - 1 THEN cands[i - pt].fp
                  ELSE IF d = drawn THEN arith_candidate[i] ELSE 0]
      /\ bool_candidate' = [i \in 0 .. ell - 1 |-> cands[i].f2]
  BY <1>1 DEF Generate
<1>9. LET agree == /\ hashOk
                   /\ OpenedAgree(pt, rand, arith_candidate', bool_candidate')
                   /\ BucketsAgree(pt, rand, arith_candidate', bool_candidate')
      IN  \/ agree /\ UNCHANGED verdict
          \/ (~agree \/ Overflows(rand)) /\ verdict' = "failed"
  BY <1>1, <1>8 DEF Generate
<1>10. np_rg' > 0 /\ np_rg' = np_pt' + ell /\ rand_pt' \in 0 .. ell_faulty - 1 /\ np_rg' <= np_sz
  BY <1>4, <1>6, <1>7
<1>11. \A i \in 0 .. ell - 1 : arith_candidate'[pt + i] = cands[i].fp /\ bool_candidate'[i] = cands[i].f2
  <2> SUFFICES ASSUME NEW i \in 0 .. ell - 1
               PROVE  arith_candidate'[pt + i] = cands[i].fp /\ bool_candidate'[i] = cands[i].f2
    OBVIOUS
  <2>1. pt + i \in 0 .. np_sz - 1 /\ (pt + i) - pt = i
    BY <1>4, <1>6
  <2> HIDE DEF pt, d
  <2> QED
    BY <1>8, <2>1
<1>12. honest' => \A i \in 0 .. ell - 1 : arith_candidate'[pt + i] = bool_candidate'[i]
  BY <1>2, <1>7, <1>11
<1> HIDE DEF pt, d
<1>13. BatchOK'
  <2>1. verdict' # "failed" => Accepted'
    BY <1>7, <1>9 DEF Accepted, OpenedAgree, BucketsAgree, Opened
  <2>2. honest' => hashOk' /\ \A i \in 0 .. ell - 1 : ~Wrong(i)'
    BY <1>7, <1>12 DEF Wrong
  <2> QED
    BY <1>10, <2>1, <2>2 DEF BatchOK
<1>14. HonestPasses'
  <2> SUFFICES ASSUME verdict' = "failed", honest', ~past'
               PROVE  \E i \in Kept : \E c \in Bucket(i)' \ {i} : bool_candidate'[i] + bool_candidate'[c] = PR
    BY DEF HonestPasses
  <2>1. honest /\ hashOk /\ ~Overflows(rand) /\ \A i \in 0 .. ell - 1 : arith_candidate'[pt + i] = bool_candidate'[i]
    BY <1>7, <1>12 DEF CutInv, BatchOK
  <2>2. OpenedAgree(pt, rand, arith_candidate', bool_candidate')
    <3>1. \A o \in Opened(rand) : o < ell => o \in 0 .. ell - 1
      BY <1>4 DEF Opened
    <3> QED
      BY <2>1, <3>1 DEF OpenedAgree
  <2>3. ~BucketsAgree(pt, rand, arith_candidate', bool_candidate')
    BY <1>3, <1>9, <2>1, <2>2
  <2>4. PICK j \in Turns, i \in Kept :
          intfp_add(arith_candidate'[pt + i], arith_candidate'[fp_partner(pt, rand, j)[i]])
            # f2_add(bool_candidate'[i], bool_candidate'[f2_partner(rand, j)[i]])
    BY <2>3 DEF BucketsAgree
  <2> DEFINE c == f2_partner(rand, j)[i]
  <2>5. c \in N .. ell - 1 /\ fp_partner(pt, rand, j)[i] = pt + c
    BY <1>6, PartnersApart, PartnerAt
  <2>6. i \in 0 .. N - 1 /\ i \in 0 .. ell - 1 /\ c \in 0 .. ell - 1 /\ c # i
    BY <1>4, <2>5 DEF Kept
  <2> HIDE DEF c
  <2>7. /\ arith_candidate'[pt + i] = bool_candidate'[i] /\ arith_candidate'[pt + c] = bool_candidate'[c]
        /\ bool_candidate'[i] \in Value /\ bool_candidate'[c] \in Value
    BY <1>2, <1>11, <2>1, <2>6 DEF Value
  <2>8. intfp_add(bool_candidate'[i], bool_candidate'[c]) # f2_add(bool_candidate'[i], bool_candidate'[c])
    BY <2>4, <2>5, <2>7 DEF c
  <2>9. bool_candidate'[i] + bool_candidate'[c] = PR
    BY <2>7, <2>8, RightSum
  <2>10. c \in Bucket(i)'
    BY <1>7 DEF Bucket, c
  <2> QED
    BY <2>6, <2>9, <2>10
<1>15. MaskOK'
  <2>1. /\ \A e, i \in Nat : Pos(e, i) = Pos(e, 0) + i /\ Pos(e, i) \in Int /\ Pos(e, 0) \in Int
        /\ \A e \in Nat : Pos(e + 1, 0) = Pos(e, 0) + np_sz
    BY PosFacts
  <2>2. Pos(d, pt) >= Pos(drawn, np_rg)
    <3>1. CASE np_rg + ell > np_sz
      <4>1. d = drawn + 1 /\ pt = 0
        BY <3>1 DEF d, pt, Start, Draws
      <4>2. Pos(d, pt) = Pos(drawn, 0) + np_sz
        BY <1>5, <2>1, <4>1
      <4>3. Pos(drawn, np_rg) = Pos(drawn, 0) + np_rg /\ Pos(drawn, 0) \in Int
        BY <1>5, <2>1
      <4> QED
        BY <1>4, <1>5, <4>2, <4>3
    <3>2. CASE ~(np_rg + ell > np_sz)
      <4>1. d = drawn /\ pt = np_rg
        BY <3>2 DEF d, pt, Start, Draws
      <4>2. Pos(drawn, np_rg) \in Int
        BY <1>5, <2>1
      <4> QED
        BY <4>1, <4>2
    <3> QED
      BY <3>1, <3>2
  <2>3. Pos(drawn, np_rg) >= Pos(drawn, np_pt + edabit_offset)
    <3>1. np_rg = 0 => np_pt = 0 /\ edabit_offset = 0
      BY DEF CutInv, MaskOK
    <3>2. np_rg > 0 => np_rg = np_pt + ell
      BY DEF CutInv, BatchOK
    <3>3. np_rg >= np_pt + edabit_offset /\ np_pt + edabit_offset \in Nat
      BY <1>4, <1>5, <3>1, <3>2
    <3>4. /\ Pos(drawn, np_rg) = Pos(drawn, 0) + np_rg /\ Pos(drawn, 0) \in Int
          /\ Pos(drawn, np_pt + edabit_offset) = Pos(drawn, 0) + (np_pt + edabit_offset)
      BY <1>5, <2>1, <3>3
    <3> QED
      BY <1>5, <3>3, <3>4
  <2>4. /\ Pos(d, pt) \in Int /\ Pos(drawn, np_rg) \in Int /\ Pos(drawn, np_pt + edabit_offset) \in Int
        /\ \A i \in Nat : Pos(d, pt + i) = Pos(d, pt) + i
    <3>1. np_pt + edabit_offset \in Nat
      BY <1>5
    <3>2. Pos(d, pt) = Pos(d, 0) + pt /\ Pos(d, 0) \in Int
      BY <1>6, <2>1
    <3>3. ASSUME NEW i \in Nat PROVE Pos(d, pt + i) = Pos(d, pt) + i
      <4>1. pt + i \in Nat
        BY <1>6
      <4>2. Pos(d, pt + i) = Pos(d, 0) + (pt + i)
        BY <1>6, <2>1, <4>1
      <4> QED
        BY <1>6, <3>2, <4>2
    <3> QED
      BY <1>5, <1>6, <2>1, <3>1, <3>3
  <2>5. masks \in Seq(Int) /\ (\A k \in DOMAIN masks : masks[k] < Pos(drawn, np_pt + edabit_offset))
        /\ \A j, k \in DOMAIN masks : j # k => masks[j] # masks[k]
    BY DEF CutInv, MaskOK
  <2>6. \A k \in DOMAIN masks : masks[k] \in Int /\ masks[k] < Pos(d, pt)
    <3> SUFFICES ASSUME NEW k \in DOMAIN masks PROVE masks[k] \in Int /\ masks[k] < Pos(d, pt)
      OBVIOUS
    <3>1. masks[k] \in Int /\ masks[k] < Pos(drawn, np_pt + edabit_offset)
      BY <2>5
    <3> QED
      BY <2>2, <2>3, <2>4, <3>1
  <2>7. Pos(d, pt + 0) = Pos(d, pt) + 0
    BY <2>4
  <2>8. ASSUME ~past'
        PROVE  /\ shown' \subseteq Int /\ \A s \in shown' : s < Pos(drawn', np_rg')
               /\ \A i \in Kept : Pos(drawn', np_pt' + i) \notin shown'
               /\ Range(masks') \cap shown' = {}
    <3>1. ~past /\ ~Overflows(rand)
      BY <1>7, <2>8
    <3>2. shown \subseteq Int /\ (\A s \in shown : s < Pos(drawn, np_rg)) /\ Range(masks) \cap shown = {}
      BY <3>1 DEF CutInv, MaskOK
    <3>3. \A o \in Opened(rand) : o \in N .. ell - 1
      BY <1>4, <3>1 DEF Overflows, Opened
    <3>4. ASSUME NEW s \in shown', s \notin shown
          PROVE  \E o \in N .. ell - 1 : s = Pos(d, pt + o)
      <4>1. CASE s \in {Pos(d, pt + o) : o \in Opened(rand)}
        BY <3>3, <4>1
      <4>2. CASE s \in {Pos(d, fp_partner(pt, rand, j)[i]) : j \in Turns, i \in Kept}
        <5>1. PICK j \in Turns, i \in Kept : s = Pos(d, fp_partner(pt, rand, j)[i])
          BY <4>2
        <5>2. f2_partner(rand, j)[i] \in N .. ell - 1 /\ fp_partner(pt, rand, j)[i] = pt + f2_partner(rand, j)[i]
          BY <1>6, PartnersApart, PartnerAt
        <5> QED
          BY <5>1, <5>2
      <4> QED
        BY <1>7, <3>4, <4>1, <4>2
    <3>5. ASSUME NEW s \in shown'
          PROVE  /\ s \in Int /\ s < Pos(d, pt) + ell
                 /\ s < Pos(d, pt) \/ s >= Pos(d, pt) + N
                 /\ s \notin shown => s >= Pos(d, pt) + N
      <4>1. CASE s \in shown
        <5>1. s \in Int /\ s < Pos(drawn, np_rg)
          BY <3>2, <4>1
        <5> QED
          BY <1>4, <2>2, <2>4, <4>1, <5>1
      <4>2. CASE s \notin shown
        <5>1. PICK o \in N .. ell - 1 : s = Pos(d, pt + o)
          BY <3>4, <4>2
        <5>2. s = Pos(d, pt) + o
          BY <1>4, <2>4, <5>1
        <5> QED
          BY <1>4, <2>4, <5>2
      <4> QED
        BY <4>1, <4>2
    <3>6. Pos(drawn', np_rg') = Pos(d, pt) + ell
      BY <1>4, <1>7, <2>4
    <3>7. ASSUME NEW i \in Kept PROVE Pos(drawn', np_pt' + i) \notin shown'
      <4>1. i \in Nat /\ i < N
        BY <1>4 DEF Kept
      <4>2. Pos(drawn', np_pt' + i) = Pos(d, pt) + i
        BY <1>7, <2>4, <4>1
      <4> DEFINE s == Pos(d, pt) + i
      <4>3. s \in Int /\ ~(s < Pos(d, pt)) /\ ~(s >= Pos(d, pt) + N)
        BY <1>4, <2>4, <4>1
      <4> HIDE DEF s
      <4>4. s \notin shown'
        BY <3>5, <4>3
      <4> QED
        BY <4>2, <4>4 DEF s
    <3>8. Range(masks') \cap shown' = {}
      <4> SUFFICES ASSUME NEW k \in DOMAIN masks, masks[k] \in shown' PROVE FALSE
        BY <1>7 DEF Range
      <4>1. masks[k] \in Int /\ masks[k] < Pos(d, pt)
        BY <2>6
      <4>2. masks[k] \notin shown
        BY <3>2 DEF Range
      <4>3. masks[k] >= Pos(d, pt) + N
        BY <3>5, <4>2
      <4> QED
        BY <1>4, <2>4, <4>1, <4>3
    <3> QED
      BY <3>5, <3>6, <3>7, <3>8
  <2>9. \A k \in DOMAIN masks' : masks'[k] < Pos(drawn', np_pt' + edabit_offset')
    <3>1. np_pt' + edabit_offset' = pt
      BY <1>6, <1>7
    <3> QED
      BY <1>7, <2>6, <3>1
  <2> QED
    BY <1>6, <1>7, <1>10, <2>5, <2>8, <2>9 DEF MaskOK
<1> QED
  BY <1>13, <1>14, <1>15

\* What leaves the batch and the masks alone.
LEMMA CutKept ==
  ASSUME CutInv,
         UNCHANGED <<bufVars, edabit_num, edabit_offset, masks, shown, past>>,
         honest' => honest /\ hashOk', verdict' # "failed" => verdict # "failed"
  PROVE  BatchOK' /\ MaskOK'
<1>1. BatchOK'
  BY DEF CutInv, BatchOK, Accepted, bufVars, Wrong, OpenedAgree, BucketsAgree
<1>2. MaskOK'
  BY DEF CutInv, MaskOK, bufVars
<1> QED
  BY <1>1, <1>2

LEMMA CutTakeEdabit == ASSUME CutInv, TakeEdabit PROVE BatchOK' /\ MaskOK' /\ HonestPasses'
<1> DEFINE p == Pos(drawn, np_pt + edabit_offset)
<1>1. /\ verdict = "open" /\ edabit_num > 0 /\ masks' = Append(masks, p)
      /\ edabit_offset' = edabit_offset + 1 /\ edabit_num' = edabit_num - 1
      /\ UNCHANGED <<drawn, np_pt, np_rg, rand_pt, arith_candidate, bool_candidate,
                     hashOk, shown, past, honest, verdict>>
  BY DEF TakeEdabit, bufVars
<1>2. BatchOK'
  BY <1>1 DEF CutInv, BatchOK, Accepted, Wrong, OpenedAgree, BucketsAgree
<1>3. HonestPasses'
  BY <1>1 DEF HonestPasses
<1>4. /\ drawn \in Nat /\ np_pt \in Nat /\ edabit_offset \in Nat /\ N \in Nat
      /\ edabit_num \in Nat /\ edabit_offset + edabit_num = N /\ np_rg > 0
      /\ masks \in Seq(Int)
  BY <1>1, BatchSizes DEF CutInv, IInv, TypeOK, MaskOK
<1>5. edabit_offset \in Kept
  BY <1>1, <1>4 DEF Kept
<1>6. p \in Int /\ p < Pos(drawn, np_pt + edabit_offset')
  <2>1. /\ np_pt + edabit_offset \in Nat
        /\ np_pt + edabit_offset' = (np_pt + edabit_offset) + 1
        /\ np_pt + edabit_offset' \in Nat
    BY <1>1, <1>4
  <2>2. /\ Pos(drawn, np_pt + edabit_offset) = Pos(drawn, 0) + (np_pt + edabit_offset)
        /\ Pos(drawn, np_pt + edabit_offset') = Pos(drawn, 0) + (np_pt + edabit_offset')
        /\ Pos(drawn, 0) \in Int
    BY <1>4, <2>1, PosFacts
  <2> QED
    BY <2>1, <2>2
<1>7. \A k \in DOMAIN masks : masks[k] \in Int /\ masks[k] < p
  BY <1>4 DEF CutInv, MaskOK
<1>8. ~past => p \notin shown
  BY <1>4, <1>5 DEF CutInv, MaskOK
<1> HIDE DEF p
<1>9. /\ masks' \in Seq(Int) /\ DOMAIN masks' = 1 .. Len(masks) + 1 /\ DOMAIN masks = 1 .. Len(masks)
      /\ Len(masks) \in Nat
      /\ masks'[Len(masks) + 1] = p /\ \A k \in DOMAIN masks : masks'[k] = masks[k]
  BY <1>1, <1>4, <1>6
<1>10. \A k \in DOMAIN masks' : k \in DOMAIN masks \/ k = Len(masks) + 1
  BY <1>9
<1>11. \A k \in DOMAIN masks' : masks'[k] < Pos(drawn', np_pt' + edabit_offset')
  <2> SUFFICES ASSUME NEW k \in DOMAIN masks' PROVE masks'[k] < Pos(drawn, np_pt + edabit_offset')
    BY <1>1
  <2> DEFINE q == Pos(drawn, np_pt + edabit_offset')
  <2>1. q \in Int
    <3>1. np_pt + edabit_offset' \in Nat
      BY <1>1, <1>4
    <3> QED
      BY <1>4, <3>1, PosFacts
  <2>2. p < q
    BY <1>6
  <2> HIDE DEF q
  <2>3. CASE k \in DOMAIN masks
    <3>1. masks'[k] = masks[k] /\ masks[k] \in Int /\ masks[k] < p
      BY <1>7, <1>9, <2>3
    <3> QED
      BY <1>6, <2>1, <2>2, <3>1 DEF q
  <2>4. CASE k = Len(masks) + 1
    BY <1>9, <2>2, <2>4 DEF q
  <2> QED
    BY <1>10, <2>3, <2>4
<1>12. \A j, k \in DOMAIN masks' : j # k => masks'[j] # masks'[k]
  <2>1. \A j, k \in DOMAIN masks : j # k => masks[j] # masks[k]
    BY DEF CutInv, MaskOK
  <2>2. \A k \in DOMAIN masks : masks[k] # p
    BY <1>6, <1>7
  <2> QED
    BY <1>9, <1>10, <2>1, <2>2
<1>13. ~past' => Range(masks') \cap shown' = {}
  <2> SUFFICES ASSUME ~past, NEW k \in DOMAIN masks', masks'[k] \in shown PROVE FALSE
    BY <1>1 DEF Range
  <2>1. \A l \in DOMAIN masks : masks[l] \notin shown
    BY DEF CutInv, MaskOK, Range
  <2> QED
    BY <1>8, <1>9, <1>10, <2>1
<1>14. MaskOK'
  BY <1>1, <1>4, <1>9, <1>11, <1>12, <1>13, SMTT(40), ZenonT(40) DEF CutInv, MaskOK
<1> QED
  BY <1>2, <1>3, <1>14

LEMMA CutStep == CutInv /\ [Next]_vars => CutInv'
<1> SUFFICES ASSUME CutInv, [Next]_vars PROVE CutInv'
  OBVIOUS
<1>1. IInv'
  BY StepInv DEF CutInv
<1> SUFFICES BatchOK' /\ MaskOK' /\ HonestPasses'
  BY <1>1 DEF CutInv
<1>2. honest => hashOk
  BY DEF CutInv, BatchOK
<1>3. CASE Begin
  <2>1. /\ verdict = "open"
        /\ UNCHANGED <<bufVars, edabit_num, edabit_offset, hashOk, masks, shown, past, honest, verdict>>
    BY <1>3 DEF Begin
  <2>2. HonestPasses'
    BY <2>1 DEF HonestPasses
  <2> QED
    BY <1>2, <2>1, <2>2, CutKept
<1>4. CASE NextBatch
  BY <1>4, CutNextBatch
<1>5. CASE TakeEdabit
  BY <1>5, CutTakeEdabit
<1>6. CASE OpenChunk
  <2>1. /\ verdict = "open" /\ (honest' => honest /\ (hashOk => hashOk'))
        /\ UNCHANGED <<bufVars, edabit_num, edabit_offset, masks, shown, past, verdict>>
    BY <1>6 DEF OpenChunk
  <2>2. HonestPasses'
    BY <2>1 DEF HonestPasses
  <2> QED
    BY <1>2, <2>1, <2>2, CutKept
<1>7. CASE Destroy
  <2>1. /\ verdict = "open" /\ verdict' = (IF hashOk THEN "accepted" ELSE "failed")
        /\ UNCHANGED <<bufVars, edabit_num, edabit_offset, hashOk, masks, shown, past, honest>>
    BY <1>7 DEF Destroy
  <2>2. HonestPasses'
    BY <1>2, <2>1 DEF HonestPasses
  <2> QED
    BY <1>2, <2>1, <2>2, CutKept
<1>8. CASE UNCHANGED vars
  <2>1. UNCHANGED <<bufVars, edabit_num, edabit_offset, hashOk, masks, shown, past, honest, verdict>>
    BY <1>8 DEF vars, bufVars
  <2>2. HonestPasses'
    BY <2>1 DEF CutInv, HonestPasses, Bucket, bufVars
  <2> QED
    BY <1>2, <2>1, <2>2, CutKept
<1> QED
  BY <1>3, <1>4, <1>5, <1>6, <1>7, <1>8 DEF Next, Terminated

LEMMA CutSound == CutInv => WrongByBuckets
<1> SUFFICES ASSUME CutInv, np_rg > 0, verdict # "failed"
             PROVE  /\ \A i \in Kept :
                         /\ Cardinality(Bucket(i)) = B
                         /\ Wrong(i) => \/ \A c \in Bucket(i) : Wrong(c)
                                        \/ bool_candidate[i] - arith_candidate[np_pt + i] \in {PR, PR + 2}
                    /\ \A i, k \in Kept : i # k => Bucket(i) \cap Bucket(k) = {}
                    /\ \A o \in Opened(rand_pt) : o < ell => ~Wrong(o)
  BY DEF WrongByBuckets
<1>1. rand_pt \in 0 .. ell_faulty - 1 /\ Accepted
  BY DEF CutInv, BatchOK
<1>2. /\ \A i \in Kept : Cardinality(Bucket(i)) = B
      /\ \A i, k \in Kept : i # k => Bucket(i) \cap Bucket(k) = {}
      /\ \A i \in Kept : Bucket(i) \subseteq 0 .. ell - 1
  BY <1>1, BucketFacts
<1>3. ASSUME NEW i \in Kept, NEW c \in Bucket(i), Wrong(i), ~Wrong(c)
      PROVE  bool_candidate[i] - arith_candidate[np_pt + i] \in {PR, PR + 2}
  <2>1. PICK j \in Turns : c = f2_partner(rand_pt, j)[i]
    BY <1>3 DEF Bucket
  <2>2. /\ np_pt \in Nat /\ np_pt + ell <= np_sz /\ np_sz \in Nat /\ ell \in Nat
        /\ arith_candidate \in [0 .. np_sz - 1 -> Value]
        /\ bool_candidate \in [0 .. ell - 1 -> 0 .. Width - 1]
    BY Sizes DEF CutInv, IInv, TypeOK
  <2>3. fp_partner(np_pt, rand_pt, j)[i] = np_pt + c
    BY <1>1, <2>1, <2>2, PartnerAt
  <2>4. intfp_add(arith_candidate[np_pt + i], arith_candidate[np_pt + c])
          = f2_add(bool_candidate[i], bool_candidate[c])
    BY <1>1, <2>1, <2>3 DEF Accepted, BucketsAgree
  <2>5. i \in 0 .. ell - 1 /\ c \in 0 .. ell - 1
    BY <1>2 DEF Bucket
  <2>6. np_pt + i \in 0 .. np_sz - 1 /\ np_pt + c \in 0 .. np_sz - 1
    BY <2>2, <2>5
  <2>7. /\ arith_candidate[np_pt + i] \in Value /\ arith_candidate[np_pt + c] \in Value
        /\ bool_candidate[i] \in 0 .. Width - 1 /\ bool_candidate[c] = arith_candidate[np_pt + c]
        /\ bool_candidate[i] # arith_candidate[np_pt + i]
    BY <1>3, <2>2, <2>5, <2>6 DEF Wrong
  <2> QED
    BY <2>4, <2>7, RightPartner
<1>4. \A o \in Opened(rand_pt) : o < ell => ~Wrong(o)
  BY <1>1 DEF Accepted, OpenedAgree, Wrong
<1> QED
  BY <1>2, <1>3, <1>4

LEMMA MasksSound == CutInv => MasksFresh
<1> SUFFICES ASSUME CutInv PROVE MasksFresh
  OBVIOUS
<1>1. np_rg > 0 => \A i \in Kept : Bucket(i) \cap Opened(rand_pt) = {}
  BY BucketFacts DEF CutInv, BatchOK
<1> QED
  BY <1>1 DEF CutInv, MaskOK, MasksFresh

\* Cut and choose binds the prover, for every prime, batch and bucket size: in a
\* batch that was accepted, buckets are of B candidates and apart, a kept edabit
\* that is wrong has nothing but wrong ones with it (or hides a multiple of PR in
\* its boolean, which edabits.h:104-112 does not bound), and every opened one was right.
THEOREM CutAndChoose == Spec => []WrongByBuckets
<1> QED
  BY CutInit, CutStep, CutSound, PTL DEF Spec

\* No value masks two inputs, and none that masks an input is opened, alone or as a
\* partner in a bucket, for every batch and buffer size and through every refill
\* (edabits_gen_backend() and next_edabits(), edabits.h).
THEOREM MasksNeverShown == Spec => []MasksFresh
<1> QED
  BY CutInit, CutStep, MasksSound, PTL DEF Spec

\* An honest prover is refused only where two values of a bucket add up to PR, which
\* f2_add() (edabits.h) keeps as PR, or past a batch's end.
THEOREM HonestFailsRarely == Spec => []HonestPasses
<1>1. CutInv => HonestPasses
  BY DEF CutInv
<1> QED
  BY CutInit, CutStep, <1>1, PTL DEF Spec
=============================================================================
