--------------------------- MODULE MvzkWiresProofs ---------------------------
(***************************************************************************)
(* Theorems about MvzkWires, for every number of verifiers and every       *)
(* program: the prover never masks two messages with one sharing, the      *)
(* buffers of products suffice, the wires of a batch keep their memory     *)
(* until they are filled, every verifier accepts and gets the prover's     *)
(* values and products, and no reachable state is stuck.                   *)
(*                                                                         *)
(* The last four rest on one fact: what a party does next depends on the   *)
(* program and on how far it has come, not on when messages arrive.  All   *)
(* parties go through the states of one machine (Started, Succ), each as   *)
(* far as it has come (OnPath), and a channel holds what the machine sends *)
(* between the receiver and the prover (Delivered).                        *)
(***************************************************************************)
EXTENDS MvzkWires, SequenceTheorems, NaturalsInduction, WellFoundedInduction, TLAPS

\* Correlations the prover has consumed.
Used == (extends[Prover] - 1) * Usable + authPtr[Prover]

\* The last sharing it can have masked a message with.
Top == Used - Len(pool[Prover]) + IF Filling(Prover) THEN 0 ELSE ptr[Prover]

PoolType ==
  /\ pool \in [Party -> Seq(Int)] /\ ptr \in [Party -> Nat]
  /\ authPtr \in [Party -> Nat]
  /\ entered \in [Party -> Nat] /\ extends \in [Party -> Nat]
  /\ masks \in Seq(Int)

PoolBounds ==
  /\ Len(pool[Prover]) <= PreAuthSharingNum
  /\ ptr[Prover] <= PreAuthSharingNum
  /\ authPtr[Prover] <= Usable
  /\ entered[Prover] > extends[Prover] =>
       entered[Prover] = extends[Prover] + 1 /\ authPtr[Prover] = Usable

\* The pool is the last piece of what was consumed, and the messages were
\* masked with sharings before what is left of it, each later than the last.
PoolIsTail == \A i \in 1 .. Len(pool[Prover]) :
                pool[Prover][i] = Used - Len(pool[Prover]) + i
MasksBelow == \A i \in 1 .. Len(masks) : masks[i] <= Top
MasksRise  == \A i, j \in 1 .. Len(masks) : i < j => masks[i] < masks[j]

MInv == PoolType /\ PoolBounds /\ PoolIsTail /\ MasksBelow /\ MasksRise

-----------------------------------------------------------------------------
LEMMA CeilDivNat ==
  ASSUME NEW a \in Nat, NEW b \in Nat \ {0}
  PROVE  CeilDiv(a, b) \in Nat
BY SMT DEF CeilDiv

LEMMA Numbers == /\ FoldNeed \in Nat /\ LastNeed \in Nat
                 /\ n \in Nat /\ PreAuthSharingNum \in Nat /\ Usable \in Nat
                 /\ Prover \in Party
                 /\ \A v \in Verifier : v \in Party /\ v # Prover
<1>1. 2 * CompressParam - 2 \in Nat /\ 2 * CompressParam + 2 \in Nat
  BY CheckAssumption
<1>2. FoldNeed \in Nat /\ LastNeed \in Nat
  BY <1>1, CeilDivNat, PartiesAssumption DEF FoldNeed, LastNeed
<1> QED BY <1>2, PartiesAssumption, CheckAssumption DEF Prover, Party, Verifier

LEMMA CeilDivPos ==
  ASSUME NEW a \in Nat \ {0}, NEW b \in Nat \ {0}
  PROVE  CeilDiv(a, b) > 0
BY SMT DEF CeilDiv

LEMMA NeedNat == \A p : Need(p) \in Nat
BY Numbers DEF Need

-----------------------------------------------------------------------------
LEMMA InitMInv == Init => MInv
<1> SUFFICES ASSUME Init PROVE MInv OBVIOUS
<1>1. PoolType BY Numbers DEF Init, PoolType
<1>2. PoolBounds BY Numbers DEF Init, PoolBounds
<1>3. PoolIsTail /\ MasksBelow /\ MasksRise
  BY Numbers DEF Init, PoolIsTail, MasksBelow, MasksRise
<1> QED BY <1>1, <1>2, <1>3 DEF MInv

LEMMA Product == ASSUME NEW a \in Int, NEW b \in Int PROVE a * b \in Int
OBVIOUS

\* The t-th of the consecutive numbers of q is low.
RunsTo(q, low, t) == \A i \in 1 .. Len(q) : q[i] = low + i - t
\* r is m with the c numbers after low appended.
RunAdded(r, m, low, c) ==
  /\ r \in Seq(Int) /\ Len(r) = Len(m) + c
  /\ \A i \in 1 .. Len(m) + c : r[i] = IF i <= Len(m) THEN m[i] ELSE low + (i - Len(m))

\* What appending a piece of a sequence of consecutive numbers gives.
LEMMA AppendPiece ==
  ASSUME NEW q \in Seq(Int), NEW m \in Seq(Int), NEW t \in Nat, NEW c \in Nat,
         t + c <= Len(q), NEW low \in Int, RunsTo(q, low, t)
  PROVE  RunAdded(m \o SubSeq(q, t + 1, t + c), m, low, c)
<1> DEFINE u == SubSeq(q, t + 1, t + c)
<1>1. \A i \in t + 1 .. t + c : i \in 1 .. Len(q) OBVIOUS
<1>2. \A i \in t + 1 .. t + c : q[i] \in Int BY <1>1, ElementOfSeq
<1>3. /\ u \in Seq(Int) /\ Len(u) = IF t + 1 <= t + c THEN (t + c) - (t + 1) + 1 ELSE 0
      /\ \A i \in 1 .. (t + c) - (t + 1) + 1 : u[i] = q[(t + 1) + i - 1]
  BY <1>2, SubSeqProperties, t + 1 \in Int, t + c \in Int
<1>4. Len(u) = c /\ \A i \in 1 .. c : u[i] = low + i
  <2>1. Len(u) = c BY <1>3
  <2>2. ASSUME NEW i \in 1 .. c PROVE u[i] = low + i
    <3>1. u[i] = q[t + i] BY <1>3, (t + 1) + i - 1 = t + i, i \in 1 .. (t + c) - (t + 1) + 1
    <3>2. q[t + i] = low + (t + i) - t BY t + i \in 1 .. Len(q) DEF RunsTo
    <3> QED BY <3>1, <3>2
  <2> QED BY <2>1, <2>2
<1> HIDE DEF u
<1>5. /\ m \o u \in Seq(Int) /\ Len(m \o u) = Len(m) + c
      /\ \A i \in 1 .. Len(m) + c :
           (m \o u)[i] = IF i <= Len(m) THEN m[i] ELSE u[i - Len(m)]
  <2>1. m \in Seq(Int) /\ u \in Seq(Int)
    BY <1>3
  <2>2. /\ m \o u \in Seq(Int) /\ Len(m \o u) = Len(m) + Len(u)
        /\ \A i \in 1 .. Len(m) + Len(u) :
             (m \o u)[i] = IF i <= Len(m) THEN m[i] ELSE u[i - Len(m)]
    BY ONLY <2>1, ConcatProperties
  <2>3. Len(u) = c
    BY <1>4
  <2> QED
    BY ONLY <2>2, <2>3
<1>6. \A i \in 1 .. Len(m) + c : i > Len(m) => u[i - Len(m)] = low + (i - Len(m))
  BY <1>4
<1>7. \A i \in 1 .. Len(m) + c :
        (m \o u)[i] = IF i <= Len(m) THEN m[i] ELSE low + (i - Len(m))
  BY <1>5, <1>6
<1> QED BY <1>5, <1>7 DEF u, RunAdded

\* A message is masked with the next sharings of the pool.
LEMMA UsingMasks ==
  ASSUME MInv, ~Starved(Prover), Need(Prover) > 0, UseMasks(Prover),
         masks' = masks \o NextMasks(Prover)
  PROVE  MInv'
<1> DEFINE P   == Prover
           c   == Need(P)
           low == Used - Len(pool[P]) + ptr[P]
<1>1. /\ pool[P] \in Seq(Int) /\ ptr[P] \in Nat /\ c \in Nat /\ masks \in Seq(Int)
      /\ authPtr[P] \in Nat /\ extends[P] \in Nat
  BY Numbers, NeedNat DEF MInv, PoolType
<1>2. /\ Len(pool[P]) \in Nat /\ Used \in Int /\ low \in Int
  <2>1. Len(pool[P]) \in Nat BY <1>1
  <2>2. (extends[P] - 1) * Usable \in Int BY <1>1, Product, Numbers
  <2>3. Used \in Int BY <1>1, <2>2 DEF Used
  <2> QED BY <1>1, <2>1, <2>3
<1>3. /\ ~Filling(P) /\ Len(pool[P]) = PreAuthSharingNum
      /\ ptr[P] + c <= Len(pool[P])
  <2>1. ~Filling(P) /\ ~(ptr[P] + c > PreAuthSharingNum)
    BY DEF Starved
  <2>2. Len(pool[P]) <= PreAuthSharingNum
    BY DEF MInv, PoolBounds
  <2>3. ~(Len(pool[P]) < PreAuthSharingNum)
    BY <2>1 DEF Filling
  <2>4. Len(pool[P]) \in Int /\ PreAuthSharingNum \in Int /\ ptr[P] \in Int /\ c \in Int
    BY <1>1, <1>2, Numbers
  <2>5. Len(pool[P]) = PreAuthSharingNum
    BY ONLY <2>2, <2>3, <2>4
  <2>6. ptr[P] + c <= PreAuthSharingNum
    BY ONLY <2>1, <2>4
  <2> QED
    BY ONLY <2>1, <2>5, <2>6
<1>4. /\ masks' \in Seq(Int) /\ Len(masks') = Len(masks) + c
      /\ \A i \in 1 .. Len(masks) + c :
           masks'[i] = IF i <= Len(masks) THEN masks[i] ELSE low + (i - Len(masks))
  <2>1. \A i \in 1 .. Len(pool[P]) : pool[P][i] = low + i - ptr[P]
    <3>1. \A i \in 1 .. Len(pool[P]) : pool[P][i] = Used - Len(pool[P]) + i
      BY DEF MInv, PoolIsTail
    <3>2. ASSUME NEW i \in Int
          PROVE  Used - Len(pool[P]) + i = low + i - ptr[P]
      <4> DEFINE u == Used
                 l == Len(pool[P])
                 t == ptr[P]
      <4>1. u \in Int /\ l \in Int /\ t \in Int BY <1>1, <1>2
      <4> HIDE DEF u, l, t
      <4>2. u - l + i = (u - l + t) + i - t BY <4>1
      <4> QED BY <4>2 DEF u, l, t
    <3> QED BY <3>1, <3>2
  <2>2. masks' = masks \o SubSeq(pool[P], ptr[P] + 1, ptr[P] + c)
    BY DEF NextMasks
  <2> DEFINE q == pool[P]
             t == ptr[P]
  <2>3. q \in Seq(Int) /\ t \in Nat /\ t + c <= Len(q) BY <1>1, <1>3
  <2>4. \A i \in 1 .. Len(q) : q[i] = low + i - t BY <2>1
  <2>5. masks' = masks \o SubSeq(q, t + 1, t + c) BY <2>2
  <2>6. c \in Nat /\ low \in Int /\ masks \in Seq(Int) BY <1>1, <1>2
  <2> HIDE DEF q, t, low, c, P
  <2>7. RunsTo(q, low, t)
    BY <2>4 DEF RunsTo
  <2>8. RunAdded(masks \o SubSeq(q, t + 1, t + c), masks, low, c)
    BY ONLY <2>3, <2>6, <2>7, AppendPiece
  <2> QED
    BY <2>5, <2>8 DEF RunAdded
<1>5. /\ ptr' \in [Party -> Nat] /\ ptr'[P] = ptr[P] + c
      /\ UNCHANGED <<pool, authPtr, entered, extends>>
  BY <1>1, Numbers DEF UseMasks, MInv, PoolType
<1>6. Top = low /\ Top' = low + c
  <2>1. Used' = Used
    BY <1>5 DEF Used
  <2>2. Top = low
    BY <1>3 DEF Top
  <2>3. Filling(P)' = Filling(P) /\ Len(pool'[P]) = Len(pool[P]) /\ ptr'[P] = ptr[P] + c
    BY <1>5 DEF Filling
  <2>4. Top' = Used - Len(pool[P]) + (ptr[P] + c)
    BY <1>3, <2>1, <2>3 DEF Top
  <2> DEFINE u == Used
             l == Len(pool[P])
             t == ptr[P]
  <2>5. u \in Int /\ l \in Int /\ t \in Int /\ c \in Int
    BY <1>1, <1>2
  <2>6. low = u - l + t /\ Top' = u - l + (t + c)
    BY <2>4
  <2> HIDE DEF u, l, t, low, c
  <2>7. u - l + (t + c) = (u - l + t) + c
    BY ONLY <2>5
  <2> QED
    BY ONLY <2>2, <2>6, <2>7
<1>7. PoolType' BY <1>4, <1>5 DEF MInv, PoolType
<1>8. PoolBounds' BY <1>3, <1>5, Numbers DEF MInv, PoolBounds
<1>9. PoolIsTail' BY <1>5 DEF MInv, PoolIsTail, Used
<1>10. \A i \in 1 .. Len(masks) : masks[i] <= low /\ masks[i] \in Int
  BY <1>1, <1>6, ElementOfSeq DEF MInv, MasksBelow
<1> HIDE DEF low, c
<1>11. MasksBelow'
  <2> SUFFICES ASSUME NEW i \in 1 .. Len(masks') PROVE masks'[i] <= Top'
    BY DEF MasksBelow
  <2>1. i \in 1 .. Len(masks) + c /\ Len(masks) \in Nat BY <1>1, <1>4
  <2>2. CASE i <= Len(masks)
    <3>1. masks'[i] = masks[i] BY <1>4, <2>1, <2>2
    <3>2. masks[i] <= low /\ masks[i] \in Int BY <1>10, <2>1, <2>2
    <3> QED BY <1>1, <1>2, <1>6, <3>1, <3>2
  <2>3. CASE i > Len(masks)
    <3>1. masks'[i] = low + (i - Len(masks)) BY <1>4, <2>1, <2>3
    <3> QED BY <1>1, <1>2, <1>6, <2>1, <3>1
  <2> QED BY <2>1, <2>2, <2>3
<1>12. MasksRise'
  <2>1. \A i, j \in 1 .. Len(masks) : i < j => masks[i] < masks[j]
    BY DEF MInv, MasksRise
  <2> SUFFICES ASSUME NEW i \in 1 .. Len(masks'), NEW j \in 1 .. Len(masks'), i < j
               PROVE  masks'[i] < masks'[j]
    BY DEF MasksRise
  <2>2. Len(masks) \in Nat /\ i \in 1 .. Len(masks) + c /\ j \in 1 .. Len(masks) + c
    BY <1>1, <1>4
  <2>3. CASE j <= Len(masks)
    BY <1>4, <2>1, <2>2, <2>3
  <2>4. CASE i <= Len(masks) /\ j > Len(masks)
    <3>1. i \in 1 .. Len(masks) /\ i <= Len(masks) /\ ~(j <= Len(masks))
      BY ONLY <2>2, <2>4
    <3>2. masks'[i] = masks[i] /\ masks'[j] = low + (j - Len(masks))
      BY ONLY <1>4, <2>2, <3>1
    <3>3. masks[i] <= low /\ masks[i] \in Int
      BY ONLY <1>10, <3>1
    <3>4. low \in Int /\ j \in Int
      BY <1>2, <1>6, <2>2
    <3>5. masks'[i] <= low /\ low < masks'[j] /\ masks'[i] \in Int /\ masks'[j] \in Int
      BY ONLY <2>2, <2>4, <3>2, <3>3, <3>4
    <3> QED
      BY ONLY <3>4, <3>5
  <2>5. CASE i > Len(masks)
    <3>1. ~(i <= Len(masks)) /\ ~(j <= Len(masks)) /\ i < j
      BY <2>2, <2>5
    <3>2. masks'[i] = low + (i - Len(masks)) /\ masks'[j] = low + (j - Len(masks))
      BY ONLY <1>4, <2>2, <3>1
    <3>3. low \in Int /\ i \in Int /\ j \in Int
      BY <1>2, <1>6, <2>2
    <3> QED
      BY ONLY <2>2, <3>1, <3>2, <3>3
  <2> QED BY <2>2, <2>3, <2>4, <2>5
<1> QED BY <1>7, <1>8, <1>9, <1>11, <1>12 DEF MInv

-----------------------------------------------------------------------------
(* The pool.                                                               *)

\* No message is masked: what was masked stays below the rising top.
LEMMA Rising ==
  ASSUME MInv, UNCHANGED masks, PoolType', PoolBounds', PoolIsTail',
         Top \in Int, Top' \in Int, Top <= Top'
  PROVE  MInv'
<1>1. \A i \in 1 .. Len(masks) : masks[i] \in Int
  BY ElementOfSeq DEF MInv, PoolType
<1>2. MasksBelow' BY <1>1 DEF MInv, MasksBelow
<1>3. MasksRise' BY DEF MInv, MasksRise
<1> QED BY <1>2, <1>3 DEF MInv

LEMMA NumbersOfPool ==
  ASSUME MInv, NEW p \in Party
  PROVE  /\ pool[p] \in Seq(Int) /\ Len(pool[p]) \in Nat /\ ptr[p] \in Nat
         /\ authPtr[p] \in Nat /\ extends[p] \in Nat /\ entered[p] \in Nat
         /\ FirstLeft(p) \in Int
<1>1. /\ pool[p] \in Seq(Int) /\ ptr[p] \in Nat
      /\ authPtr[p] \in Nat /\ extends[p] \in Nat /\ entered[p] \in Nat
  BY DEF MInv, PoolType
<1>2. (extends[p] - 1) * Usable \in Int BY <1>1, Product, Numbers
<1> QED BY <1>1, <1>2 DEF FirstLeft

\* Appending consecutive numbers to a sequence.
LEMMA AppendRun ==
  ASSUME NEW q \in Seq(Int), NEW c \in Nat, NEW low \in Int
  PROVE  LET r == q \o [l \in 1 .. c |-> low + l]
         IN  /\ r \in Seq(Int) /\ Len(r) = Len(q) + c
             /\ \A i \in 1 .. Len(q) + c :
                  r[i] = IF i <= Len(q) THEN q[i] ELSE low + (i - Len(q))
<1> DEFINE u == [l \in 1 .. c |-> low + l]
<1>1. u \in [1 .. c -> Int] OBVIOUS
<1>2. u \in Seq(Int) /\ Len(u) = c BY <1>1
<1>3. \A i \in 1 .. c : u[i] = low + i OBVIOUS
<1> HIDE DEF u
<1>4. /\ q \o u \in Seq(Int) /\ Len(q \o u) = Len(q) + c
      /\ \A i \in 1 .. Len(q) + c :
           (q \o u)[i] = IF i <= Len(q) THEN q[i] ELSE u[i - Len(q)]
  BY <1>2, ConcatProperties
<1>5. \A i \in 1 .. Len(q) + c : i > Len(q) => u[i - Len(q)] = low + (i - Len(q))
  BY <1>3
<1> QED BY <1>4, <1>5 DEF u

LEMMA Refilling ==
  ASSUME MInv, NEW p \in Party, RandAuthVal(p)
  PROVE  MInv'
<1> DEFINE old   == IF Filling(p) THEN pool[p] ELSE <<>>
           short == PreAuthSharingNum - Len(old)
           left  == Usable - authPtr[p]
           take  == IF short < left THEN short ELSE left
           piece == [l \in 1 .. take |-> FirstLeft(p) + l]
<1>1. /\ authPtr[p] < Usable /\ UNCHANGED <<entered, extends, masks>>
      /\ pool' = [pool EXCEPT ![p] = old \o piece]
      /\ authPtr' = [authPtr EXCEPT ![p] = @ + take]
      /\ ptr' = [ptr EXCEPT ![p] = IF take = short THEN 0 ELSE @]
  BY DEF RandAuthVal, netVars
<1>2. /\ pool[p] \in Seq(Int) /\ Len(pool[p]) \in Nat /\ ptr[p] \in Nat
      /\ authPtr[p] \in Nat /\ FirstLeft(p) \in Int
  BY NumbersOfPool
<1>3. /\ old \in Seq(Int) /\ Len(old) \in Nat
      /\ Filling(p) => Len(old) < PreAuthSharingNum
      /\ ~Filling(p) => Len(old) = 0
  BY <1>2 DEF Filling
<1>4. /\ take \in Nat /\ short \in Nat /\ take <= short
      /\ authPtr[p] + take <= Usable
  <2>1. short \in Nat
    BY <1>3, Numbers DEF Filling
  <2>2. left \in Nat /\ left = Usable - authPtr[p] /\ authPtr[p] \in Nat /\ Usable \in Nat
    BY <1>1, <1>2, Numbers
  <2>3. take = IF short < left THEN short ELSE left
    OBVIOUS
  <2> HIDE DEF short, left, take
  <2> QED
    BY ONLY <2>1, <2>2, <2>3
<1> HIDE DEF old, short, left, take
<1>5. /\ old \o piece \in Seq(Int) /\ Len(old \o piece) = Len(old) + take
      /\ \A i \in 1 .. Len(old) + take :
           (old \o piece)[i] = IF i <= Len(old) THEN old[i]
                               ELSE FirstLeft(p) + (i - Len(old))
  <2> HIDE DEF piece
  <2>1. piece = [l \in 1 .. take |-> FirstLeft(p) + l]
    BY DEF piece
  <2>2. old \in Seq(Int) /\ take \in Nat /\ FirstLeft(p) \in Int
    BY ONLY <1>2, <1>3, <1>4
  <2> PICK low \in Int : low = FirstLeft(p)
    BY <2>2
  <2>3. LET r == old \o [l \in 1 .. take |-> low + l]
        IN  /\ r \in Seq(Int) /\ Len(r) = Len(old) + take
            /\ \A i \in 1 .. Len(old) + take :
                 r[i] = IF i <= Len(old) THEN old[i] ELSE low + (i - Len(old))
    BY ONLY <2>2, low \in Int, AppendRun
  <2> QED
    BY <2>1, <2>3
<1> HIDE DEF piece
<1>6. PoolType'
  <2>1. pool \in [Party -> Seq(Int)] /\ ptr \in [Party -> Nat] /\ authPtr \in [Party -> Nat]
    BY DEF MInv, PoolType
  <2>2. pool' \in [Party -> Seq(Int)]
    BY ONLY <1>1, <1>5, <2>1
  <2>3. ptr' \in [Party -> Nat]
    BY ONLY <1>1, <2>1
  <2>4. authPtr[p] + take \in Nat
    BY ONLY <1>2, <1>4
  <2>5. authPtr' \in [Party -> Nat]
    BY ONLY <1>1, <2>1, <2>4
  <2>6. entered' \in [Party -> Nat] /\ extends' \in [Party -> Nat] /\ masks' \in Seq(Int)
    BY <1>1 DEF MInv, PoolType
  <2> QED
    BY ONLY <2>2, <2>3, <2>5, <2>6 DEF PoolType
<1>7. CASE p # Prover
  <2>1. /\ pool'[Prover] = pool[Prover] /\ ptr'[Prover] = ptr[Prover]
        /\ authPtr'[Prover] = authPtr[Prover]
    BY <1>1, <1>7, Numbers DEF MInv, PoolType
  <2>2. Used' = Used BY <1>1, <2>1 DEF Used
  <2>3. Top' = Top BY <2>1, <2>2 DEF Top, Filling
  <2>4. PoolBounds' BY <1>1, <2>1 DEF MInv, PoolBounds
  <2>5. PoolIsTail' BY <2>1, <2>2 DEF MInv, PoolIsTail
  <2>6. MasksBelow' BY <1>1, <2>3 DEF MInv, MasksBelow
  <2>7. MasksRise' BY <1>1 DEF MInv, MasksRise
  <2> QED BY <1>6, <2>4, <2>5, <2>6, <2>7 DEF MInv
<1>8. CASE p = Prover
  <2>1. /\ pool'[Prover] = old \o piece
        /\ ptr'[Prover] = IF take = short THEN 0 ELSE ptr[Prover]
        /\ authPtr'[Prover] = authPtr[Prover] + take
    BY <1>1, <1>8 DEF MInv, PoolType
  <2>2. Len(pool'[Prover]) = Len(old) + take BY <1>5, <2>1
  <2>3. Used = FirstLeft(Prover) BY DEF Used, FirstLeft
  <2>4. Used \in Int BY <1>2, <1>8, <2>3
  <2>5. Used' = Used + take
    <3> DEFINE b == (extends[Prover] - 1) * Usable
    <3>1. b \in Int BY NumbersOfPool, Numbers, Product
    <3>2. Used = b + authPtr[Prover] BY DEF Used
    <3>3. Used' = b + (authPtr[Prover] + take) BY <1>1, <2>1 DEF Used
    <3> HIDE DEF b
    <3> QED BY <1>2, <1>4, <1>8, <3>1, <3>2, <3>3
  <2>6. PoolBounds'
    <3>1. Len(old) + take <= PreAuthSharingNum BY <1>3, <1>4, Numbers DEF short
    <3>2. Len(pool'[Prover]) <= PreAuthSharingNum
      BY ONLY <2>2, <3>1
    <3>3. ptr'[Prover] <= PreAuthSharingNum
      <4>1. ptr[Prover] <= PreAuthSharingNum /\ 0 <= PreAuthSharingNum
        BY Numbers DEF MInv, PoolBounds
      <4> QED
        BY ONLY <2>1, <4>1
    <3>4. authPtr'[Prover] <= Usable
      BY ONLY <1>4, <1>8, <2>1
    <3>5. ~(entered'[Prover] > extends'[Prover])
      <4>1. authPtr[Prover] # Usable
        BY <1>1, <1>2, <1>8, Numbers
      <4>2. ~(entered[Prover] > extends[Prover])
        BY <4>1 DEF MInv, PoolBounds
      <4> QED
        BY <1>1, <4>2
    <3> QED
      BY ONLY <3>2, <3>3, <3>4, <3>5 DEF PoolBounds
  <2>7. Used' - Len(pool'[Prover]) = Used - Len(old)
    BY <1>3, <1>4, <2>2, <2>4, <2>5
  <2>8. PoolIsTail'
    <3> SUFFICES ASSUME NEW i \in 1 .. Len(pool'[Prover])
                 PROVE  pool'[Prover][i] = Used' - Len(pool'[Prover]) + i
      BY DEF PoolIsTail
    <3>1. i \in 1 .. Len(old) + take BY <2>2
    <3>2. CASE i <= Len(old)
      <4>1. Filling(p) /\ old = pool[Prover]
        BY <1>3, <1>8, <3>1, <3>2 DEF old
      <4>2. old[i] = Used - Len(old) + i
        BY <1>3, <3>1, <3>2, <4>1 DEF MInv, PoolIsTail
      <4> QED BY <1>5, <2>1, <2>7, <3>1, <3>2, <4>2
    <3>3. CASE i > Len(old)
      <4>1. pool'[Prover][i] = Used + (i - Len(old))
        BY <1>3, <1>5, <1>8, <2>1, <2>3, <3>1, <3>3
      <4> QED BY <1>3, <2>4, <2>7, <3>1, <4>1
    <3> QED BY <1>3, <3>1, <3>2, <3>3
  <2>9. Top' = Used - Len(old)
    <3>1. CASE take = short
      <4>1. ptr'[Prover] = 0 BY <2>1, <3>1
      <4>2. Top' = Used' - Len(pool'[Prover]) + 0 BY <4>1 DEF Top
      <4> QED BY <1>3, <2>4, <2>7, <4>2
    <3>2. CASE take # short
      <4>1. Len(pool'[Prover]) < PreAuthSharingNum
        BY <1>3, <1>4, <2>2, <3>2, Numbers DEF short
      <4>2. Top' = Used' - Len(pool'[Prover]) + 0 BY <4>1 DEF Top, Filling
      <4> QED BY <1>3, <2>4, <2>7, <4>2
    <3> QED BY <3>1, <3>2
  <2>10. Top \in Int /\ Top <= Used - Len(old)
    <3>1. CASE Filling(p)
      BY <1>2, <1>8, <2>4, <3>1 DEF Top, old
    <3>2. CASE ~Filling(p)
      <4>1. Len(pool[p]) = PreAuthSharingNum /\ ptr[p] <= PreAuthSharingNum
        BY <1>2, <1>8, <3>2, Numbers DEF MInv, PoolBounds, Filling
      <4> QED BY <1>2, <1>3, <1>8, <2>4, <3>2, <4>1 DEF Top
    <3> QED BY <3>1, <3>2
  <2> QED BY <1>1, <1>3, <1>6, <2>4, <2>6, <2>8, <2>9, <2>10, Rising
<1> QED BY <1>7, <1>8

\* A step that leaves the prover's pool and what it has masked alone.
LEMMA Elsewhere ==
  ASSUME MInv, PoolType', UNCHANGED <<extends[Prover], entered[Prover], masks>>,
         UNCHANGED <<pool[Prover], ptr[Prover], authPtr[Prover]>>
  PROVE  MInv'
<1>1. Used' = Used BY DEF Used
<1>2. Top' = Top BY <1>1 DEF Top, Filling
<1>3. PoolBounds' BY DEF MInv, PoolBounds
<1>4. PoolIsTail' BY <1>1 DEF MInv, PoolIsTail
<1>5. MasksBelow' BY <1>2 DEF MInv, MasksBelow
<1>6. MasksRise' BY DEF MInv, MasksRise
<1> QED BY <1>3, <1>4, <1>5, <1>6 DEF MInv

LEMMA Quiet ==
  ASSUME MInv, UNCHANGED <<poolVars, masks>>
  PROVE  MInv'
<1>1. UNCHANGED <<pool, ptr, authPtr, entered, extends, masks>> BY DEF poolVars
<1>2. PoolType' BY <1>1 DEF MInv, PoolType
<1> QED BY <1>1, <1>2, Elsewhere

LEMMA QuietVerifier ==
  ASSUME MInv, NEW v \in Verifier, UseMasks(v), UNCHANGED masks
  PROVE  MInv'
<1>1. /\ ptr' = [ptr EXCEPT ![v] = @ + Need(v)]
      /\ UNCHANGED <<pool, authPtr, entered, extends>>
  BY DEF UseMasks
<1>2. v \in Party /\ v # Prover /\ Prover \in Party BY Numbers
<1>3. Need(v) \in Nat BY NeedNat
<1>4. ptr[v] + Need(v) \in Nat BY <1>2, <1>3, NumbersOfPool
<1>5. PoolType' BY <1>1, <1>4 DEF MInv, PoolType
<1>6. ptr'[Prover] = ptr[Prover] BY <1>1, <1>2 DEF MInv, PoolType
<1> QED BY <1>1, <1>5, <1>6, Elsewhere

LEMMA Entering ==
  ASSUME MInv, NEW p \in Party, EnterExtend(p)
  PROVE  MInv'
<1>1. /\ authPtr[p] = Usable /\ entered[p] = extends[p]
      /\ entered' = [entered EXCEPT ![p] = @ + 1]
      /\ UNCHANGED <<pool, ptr, authPtr, extends, masks>>
  BY DEF EnterExtend
<1>2. entered[p] \in Nat /\ extends[p] \in Nat BY NumbersOfPool
<1>3. PoolType' BY <1>1, <1>2 DEF MInv, PoolType
<1>4. CASE p # Prover
  <2>1. entered'[Prover] = entered[Prover] BY <1>1, <1>4, Numbers DEF MInv, PoolType
  <2> QED BY <1>1, <1>3, <2>1, Elsewhere
<1>5. CASE p = Prover
  <2>1. entered'[Prover] = extends[Prover] + 1 BY <1>1, <1>5 DEF MInv, PoolType
  <2>2. PoolBounds' BY <1>1, <1>5, <2>1 DEF MInv, PoolBounds
  <2>3. Used' = Used BY <1>1 DEF Used
  <2>4. PoolIsTail' BY <1>1, <2>3 DEF MInv, PoolIsTail
  <2>5. Top' = Top BY <1>1, <2>3 DEF Top, Filling
  <2>6. MasksBelow' BY <1>1, <2>5 DEF MInv, MasksBelow
  <2>7. MasksRise' BY <1>1 DEF MInv, MasksRise
  <2> QED BY <1>3, <2>2, <2>4, <2>6, <2>7 DEF MInv
<1> QED BY <1>4, <1>5

LEMMA NextMultiple ==
  ASSUME NEW e \in Int, NEW u \in Int
  PROVE  ((e + 1) - 1) * u + 0 = (e - 1) * u + u
OBVIOUS

\* An extend begins where the one before it ended, at a multiple of Usable.
LEMMA Leaving ==
  ASSUME MInv, NEW p \in Party, LeaveExtend(p)
  PROVE  MInv'
<1>1. /\ entered[p] > extends[p]
      /\ extends' = [extends EXCEPT ![p] = @ + 1]
      /\ authPtr' = [authPtr EXCEPT ![p] = 0]
      /\ UNCHANGED <<pool, ptr, entered, masks>>
  BY DEF LeaveExtend, Receive, netVars
<1>2. entered[p] \in Nat /\ extends[p] \in Nat BY NumbersOfPool
<1>3. PoolType' BY <1>1, <1>2 DEF MInv, PoolType
<1>4. CASE p # Prover
  <2>1. extends'[Prover] = extends[Prover] /\ authPtr'[Prover] = authPtr[Prover]
    BY <1>1, <1>4, Numbers DEF MInv, PoolType
  <2> QED BY <1>1, <1>3, <2>1, Elsewhere
<1>5. CASE p = Prover
  <2>1. extends'[Prover] = extends[Prover] + 1 /\ authPtr'[Prover] = 0
    BY <1>1, <1>5 DEF MInv, PoolType
  <2>2. entered[Prover] = extends[Prover] + 1 /\ authPtr[Prover] = Usable
    BY <1>1, <1>5 DEF MInv, PoolBounds
  <2>3. PoolBounds'
    BY <1>1, <1>2, <1>5, <2>1, <2>2, Numbers DEF MInv, PoolBounds
  <2>4. Used' = Used
    <3>1. Used' = ((extends[Prover] + 1) - 1) * Usable + 0 BY <2>1 DEF Used
    <3>2. Used = (extends[Prover] - 1) * Usable + Usable BY <2>2 DEF Used
    <3> QED BY <1>2, <1>5, <3>1, <3>2, Numbers, NextMultiple
  <2>5. PoolIsTail' BY <1>1, <2>4 DEF MInv, PoolIsTail
  <2>6. Top' = Top BY <1>1, <2>4 DEF Top, Filling
  <2>7. MasksBelow' BY <1>1, <2>6 DEF MInv, MasksBelow
  <2>8. MasksRise' BY <1>1 DEF MInv, MasksRise
  <2> QED BY <1>3, <2>3, <2>5, <2>7, <2>8 DEF MInv
<1> QED BY <1>4, <1>5

-----------------------------------------------------------------------------
(* Every step.                                                             *)

LEMMA NeedPos ==
  pc[Prover] \in {"batch", "round"} => Need(Prover) > 0
<1>1. 2 * CompressParam - 2 \in Nat \ {0} /\ 2 * CompressParam + 2 \in Nat \ {0}
  BY CheckAssumption
<1>2. FoldNeed > 0 /\ LastNeed > 0
  BY <1>1, CeilDivPos, PartiesAssumption DEF FoldNeed, LastNeed
<1> QED BY <1>2 DEF Need

LEMMA ProverStep == ASSUME MInv, PStep PROVE MInv'
<1>1. CASE PCall BY <1>1, Quiet DEF PCall, netVars
<1>2. CASE PBatch
  BY <1>2, NeedPos, UsingMasks DEF PBatch
<1>3. CASE PCommit BY <1>3, Quiet DEF PCommit
<1>4. CASE PRound
  BY <1>4, NeedPos, UsingMasks DEF PRound
<1>5. CASE PTail BY <1>5, Quiet DEF PTail
<1> QED BY <1>1, <1>2, <1>3, <1>4, <1>5 DEF PStep

LEMMA VerifierStep == ASSUME MInv, NEW v \in Verifier, VStep(v) PROVE MInv'
<1>1. CASE VCall(v) BY <1>1, Quiet DEF VCall, netVars
<1>2. CASE VBatch(v) BY <1>2, QuietVerifier DEF VBatch, Receive
<1>3. CASE VCommit(v) BY <1>3, Quiet DEF VCommit, Receive
<1>4. CASE VRound(v) BY <1>4, QuietVerifier DEF VRound, Receive
<1>5. CASE VTail(v)
  <2>1. UNCHANGED masks BY <1>5 DEF VTail, Receive, netVars
  <2> QED BY <1>5, <2>1, Quiet DEF VTail
<1>6. CASE VMesh(v) BY <1>6, Quiet DEF VMesh, netVars
<1> QED BY <1>1, <1>2, <1>3, <1>4, <1>5, <1>6 DEF VStep

LEMMA StepKeepsMInv == MInv /\ [Next]_vars => MInv'
<1> SUFFICES ASSUME MInv, [Next]_vars PROVE MInv' OBVIOUS
<1>1. ASSUME NEW p \in Party, PartyStep(p) PROVE MInv'
  <2>1. CASE Pool(p) BY <2>1, Refilling, Entering, Leaving DEF Pool
  <2>2. CASE p = Prover /\ PStep BY <2>2, ProverStep
  <2>3. CASE p # Prover /\ VStep(p)
    <3>1. p \in Verifier BY <2>3 DEF Party
    <3> QED BY <2>3, <3>1, VerifierStep
  <2> QED BY <1>1, <2>1, <2>2, <2>3 DEF PartyStep
<1>2. ASSUME NEW v \in Verifier, SpontaneousWrite(v) PROVE MInv'
  BY <1>2, Quiet DEF SpontaneousWrite
<1>3. CASE UNCHANGED vars BY <1>3, Quiet DEF vars, netVars
<1> QED BY <1>1, <1>2, <1>3 DEF Next, Terminated

\* Messages masked with rising sharings are masked with different ones.
LEMMA RisingIsFresh == MInv => MasksFresh
<1> SUFFICES ASSUME MInv PROVE MasksFresh OBVIOUS
<1>1. masks \in Seq(Int) BY DEF MInv, PoolType
<1>2. DOMAIN masks = 1 .. Len(masks) /\ Len(masks) \in Nat BY <1>1
<1>3. \A i \in 1 .. Len(masks) : masks[i] \in Int BY <1>1, ElementOfSeq
<1>4. ASSUME NEW i \in 1 .. Len(masks), NEW j \in 1 .. Len(masks), i < j
      PROVE  masks[i] # masks[j]
  <2>1. masks[i] < masks[j] BY <1>4 DEF MInv, MasksRise
  <2> QED BY <1>3, <2>1
<1>5. ASSUME NEW i \in 1 .. Len(masks), NEW j \in 1 .. Len(masks),
             masks[i] = masks[j]
      PROVE  i = j
  BY <1>2, <1>4, <1>5
<1> QED BY <1>2, <1>5 DEF MasksFresh, IsInjective

\* The pool is always the last piece of the correlations consumed, and messages
\* are masked with sharings in rising order (auth.h randAuthVal, refill).
THEOREM Invariance == Spec => []MInv
<1>1. Init => MInv BY InitMInv
<1>2. MInv /\ [Next]_vars => MInv' BY StepKeepsMInv
<1> QED BY <1>1, <1>2, PTL DEF Spec

\* No preprocessed sharing masks two messages of the prover, however batches
\* and checks fall between refills of the pool and extends
\* (prover.h ensurePreAuth, auth.h randAuthVal).
THEOREM MasksNeverReused == Spec => []MasksFresh
<1>1. Spec => []MInv BY Invariance
<1>2. MInv => MasksFresh BY RisingIsFresh
<1> QED BY <1>1, <1>2, PTL

-----------------------------------------------------------------------------
(* Sequences, and the recursive functions of the module.                   *)

IsSeq(s) == \E S : s \in Seq(S)

LEMMA SeqFacts ==
  ASSUME NEW s, IsSeq(s)
  PROVE  /\ Len(s) \in Nat /\ DOMAIN s = 1 .. Len(s)
         /\ s = [i \in 1 .. Len(s) |-> s[i]]
<1>1. PICK S : s \in Seq(S)
  BY DEF IsSeq
<1> QED
  BY <1>1

LEMMA SeqAppend ==
  ASSUME NEW s, NEW e, IsSeq(s)
  PROVE  /\ IsSeq(Append(s, e)) /\ Len(Append(s, e)) = Len(s) + 1
         /\ \A i \in 1 .. Len(s) : Append(s, e)[i] = s[i]
         /\ Append(s, e)[Len(s) + 1] = e
<1>1. PICK S : s \in Seq(S)
  BY DEF IsSeq
<1> DEFINE T == S \union {e}
<1>2. s \in Seq(T) /\ e \in T
  BY <1>1, SeqMonotonic
<1> HIDE DEF T
<1>3. Append(s, e) \in Seq(T)
  BY <1>2
<1>4. /\ Len(Append(s, e)) = Len(s) + 1
      /\ \A i \in 1 .. Len(s) : Append(s, e)[i] = s[i]
      /\ Append(s, e)[Len(s) + 1] = e
  BY <1>2
<1> QED
  BY <1>3, <1>4 DEF IsSeq

LEMMA SeqEmpty == IsSeq(<<>>) /\ Len(<<>>) = 0
<1>1. <<>> \in Seq({})
  OBVIOUS
<1> QED
  BY <1>1 DEF IsSeq

LEMMA LeastNat ==
  ASSUME NEW S, S \subseteq Nat, S # {}
  PROVE  \E x \in S : \A y \in S : x <= y
<1>1. PICK x \in S : \A y \in S : <<y, x>> \notin OpToRel(<, Nat)
  BY WFMin, NatLessThanWellFounded, Zenon
<1>2. ASSUME NEW y \in S PROVE x <= y
  <2>1. x \in Nat /\ y \in Nat /\ ~(y < x)
    BY <1>1 DEF OpToRel
  <2> QED
    BY <2>1
<1> QED
  BY <1>2

\* g holds what the first wires of a batch, pen, make of base.
Fills(base, pen, vals, g) ==
  g = [i \in 0 .. Len(pen) |-> IF i = 0 THEN base ELSE FillSlot(g[i - 1], pen[i], vals[i])]

LEMMA FillsExist ==
  ASSUME NEW base, NEW pen, NEW vals, Len(pen) \in Nat
  PROVE  \E g : Fills(base, pen, vals, g)
<1> DEFINE rhs(h, i) == IF i = 0 THEN base ELSE FillSlot(h[i - 1], pen[i], vals[i])
           Upto(m, h) == h = [i \in 0 .. m |-> rhs(h, i)]
           S == {m \in Nat : ~\E h : Upto(m, h)}
<1>1. \E h : Upto(0, h)
  <2> DEFINE h == [i \in 0 .. 0 |-> base]
  <2>1. h = [i \in 0 .. 0 |-> rhs(h, i)]
    OBVIOUS
  <2> QED
    BY <2>1
<1>2. ASSUME NEW m \in Nat, NEW h, Upto(m, h) PROVE \E w : Upto(m + 1, w)
  <2> DEFINE w == [i \in 0 .. m + 1 |-> rhs(h, i)]
  <2>1. \A i \in 0 .. m : w[i] = h[i]
    <3>1. \A i \in 0 .. m : h[i] = rhs(h, i)
      <4> HIDE DEF rhs
      <4>1. h = [i \in 0 .. m |-> rhs(h, i)]
        BY <1>2
      <4> QED
        BY ONLY <4>1
    <3> HIDE DEF rhs
    <3> QED
      BY <3>1
  <2>2. \A i \in 0 .. m + 1 : rhs(h, i) = rhs(w, i)
    <3> HIDE DEF w
    <3>1. \A i \in 0 .. m + 1 : i # 0 => i - 1 \in 0 .. m
      OBVIOUS
    <3> QED
      BY <2>1, <3>1
  <2>3. \A i \in 0 .. m + 1 : w[i] = rhs(w, i)
    <3>1. \A i \in 0 .. m + 1 : w[i] = rhs(h, i)
      <4> HIDE DEF rhs
      <4> QED
        OBVIOUS
    <3> HIDE DEF w, rhs
    <3> QED
      BY <2>2, <3>1
  <2>4. w = [i \in 0 .. m + 1 |-> w[i]]
    <3> HIDE DEF rhs
    <3> QED
      OBVIOUS
  <2> HIDE DEF w, rhs
  <2>5. w = [i \in 0 .. m + 1 |-> rhs(w, i)]
    BY <2>3, <2>4
  <2> QED
    BY <2>5
<1>3. S = {}
  <2> SUFFICES ASSUME S # {} PROVE FALSE
    OBVIOUS
  <2> HIDE DEF Upto
  <2>1. PICK m \in S : \A y \in S : m <= y
    <3>1. S \subseteq Nat
      OBVIOUS
    <3> HIDE DEF S
    <3> QED
      BY <3>1, LeastNat
  <2>2. m # 0
    BY <1>1
  <2>3. m - 1 \in Nat /\ m - 1 \notin S
    BY <2>1, <2>2
  <2>4. \E h : Upto(m - 1, h)
    BY <2>3
  <2>5. \E w : Upto((m - 1) + 1, w)
    BY <1>2, <2>3, <2>4
  <2> QED
    BY <2>5
<1>4. \E h : Upto(Len(pen), h)
  <2> HIDE DEF Upto
  <2> QED
    BY <1>3
<1> QED
  BY <1>4 DEF Fills

LEMMA FillBatchIs ==
  ASSUME NEW v, NEW vals, Len(pending[v]) \in Nat
  PROVE  \E g : /\ Fills([slots |-> slots[v], triples |-> triples[v], failed |-> FALSE],
                         pending[v], vals, g)
                /\ FillBatch(v, vals) = g[Len(pending[v])]
<1> DEFINE base == [slots |-> slots[v], triples |-> triples[v], failed |-> FALSE]
           g == CHOOSE h : Fills(base, pending[v], vals, h)
<1>1. Fills(base, pending[v], vals, g)
  <2> HIDE DEF base
  <2> QED
    BY FillsExist
<1>2. FillBatch(v, vals) = g[Len(pending[v])]
  BY DEF FillBatch, Fills
<1> QED
  BY <1>1, <1>2

-----------------------------------------------------------------------------
(* Programs.                                                               *)

\* The arguments of a call have been made by the calls before it.
CallOK(i) ==
  LET op == prog[i]
  IN  /\ op = [kind |-> op.kind, args |-> op.args] /\ op.kind \in Calls \union {"finalize"}
      /\ op.kind # "finalize" => i <= MaxCalls
      /\ op.kind \in {"feed", "pub", "finalize"} => op.args = <<>>
      /\ op.kind \in {"addc", "drop", "reveal", "check"} =>
           \E a \in 1 .. i - 1 : op.args = <<a>> /\ MakesSlot(prog[a])
      /\ op.kind \in {"add", "mult"} =>
           \E a, b \in 1 .. i - 1 : op.args = <<a, b>> /\ MakesSlot(prog[a]) /\ MakesSlot(prog[b])

ProgOK ==
  /\ IsSeq(prog) /\ \A i \in 1 .. Len(prog) : CallOK(i)
  /\ \A i \in 1 .. Len(prog) - 1 : prog[i].kind # "finalize"

\* The program has not changed, or has grown by a call.
Grown ==
  /\ Len(prog) \in Nat /\ Len(prog') \in Nat /\ Len(prog) <= Len(prog')
  /\ \A i \in 1 .. Len(prog) : prog'[i] = prog[i]

LEMMA CallableFacts ==
  ASSUME ProgOK, NEW op \in Callable, Len(prog) < MaxCalls \/ op.kind = "finalize",
         prog' = Append(prog, op), \A i \in 1 .. Len(prog) : prog[i].kind # "finalize"
  PROVE  ProgOK' /\ Grown /\ prog'[Len(prog) + 1] = op /\ Len(prog') = Len(prog) + 1
<1>1. /\ IsSeq(prog') /\ Len(prog') = Len(prog) + 1 /\ Len(prog) \in Nat
      /\ \A i \in 1 .. Len(prog) : prog'[i] = prog[i]
      /\ prog'[Len(prog) + 1] = op
  BY SeqAppend, SeqFacts DEF ProgOK
<1>2. Grown
  BY <1>1 DEF Grown
<1>3. \A a \in Handles(Len(prog)) : a \in 1 .. Len(prog) /\ MakesSlot(prog[a])
  BY DEF Handles
<1>4. /\ op = [kind |-> op.kind, args |-> op.args]
      /\ op.kind \in Calls \union {"finalize"}
      /\ op.kind \in {"feed", "pub", "finalize"} => op.args = <<>>
      /\ op.kind \in {"addc", "drop", "reveal", "check"} =>
           \E a \in Handles(Len(prog)) : op.args = <<a>>
      /\ op.kind \in {"add", "mult"} =>
           \E a, b \in Handles(Len(prog)) : op.args = <<a, b>>
  <2> DEFINE h == Handles(Len(prog))
  <2>1. CASE op = [kind |-> "finalize", args |-> <<>>]
    BY <2>1
  <2>2. CASE \E c \in Calls \intersect {"feed", "pub"} : op = [kind |-> c, args |-> <<>>]
    BY <2>2
  <2>3. CASE \E c \in Calls \intersect {"addc", "drop", "reveal", "check"}, a \in h :
               op = [kind |-> c, args |-> <<a>>]
    BY <2>3
  <2>4. CASE \E c \in Calls \intersect {"add", "mult"}, ab \in h \X h : op = [kind |-> c, args |-> ab]
    <3>1. PICK c \in Calls \intersect {"add", "mult"}, ab \in h \X h : op = [kind |-> c, args |-> ab]
      BY <2>4
    <3>2. PICK a \in h, b \in h : ab = <<a, b>>
      BY <3>1
    <3> QED
      BY <3>1, <3>2
  <2> QED
    BY <2>1, <2>2, <2>3, <2>4 DEF Callable
<1>5. ASSUME NEW i \in 1 .. Len(prog') PROVE CallOK(i)'
  <2>1. CASE i <= Len(prog)
    <3>1. CallOK(i) /\ prog'[i] = prog[i]
      BY <1>1, <2>1 DEF ProgOK
    <3>2. \A a \in 1 .. i - 1 : prog'[a] = prog[a]
      BY <1>1, <2>1
    <3> QED
      BY <3>1, <3>2 DEF CallOK, MakesSlot, IsShared, IsLinear
  <2>2. CASE i = Len(prog) + 1
    <3>1. prog'[i] = op /\ 1 .. i - 1 = 1 .. Len(prog)
      BY <1>1, <2>2
    <3>2. \A a \in Handles(Len(prog)) : a \in 1 .. i - 1 /\ MakesSlot(prog'[a])
      BY <1>1, <1>3, <3>1
    <3>3. op.kind # "finalize" => i <= MaxCalls
      BY <1>1, <2>2, ProgramAssumption
    <3> QED
      BY <1>4, <3>1, <3>2, <3>3 DEF CallOK
  <2> QED
    BY <1>1, <2>1, <2>2
<1>6. \A i \in 1 .. Len(prog') - 1 : prog'[i].kind # "finalize"
  BY <1>1
<1> QED
  BY <1>1, <1>2, <1>5, <1>6 DEF ProgOK

-----------------------------------------------------------------------------
(* Where a party is, the products it has recorded and the slots it holds.  *)

Where == {"next", "batch", "tail", "com", "round", "mesh", "open", "end", "error", "failed"}

Shapes ==
  /\ pos \in [Party -> Nat] /\ pc \in [Party -> Where] /\ pending \in [Party -> Seq(Slot)]
  /\ batches \in [Party -> Nat] /\ DOMAIN triples = Party
  /\ DOMAIN hold = Verifier /\ DOMAIN seen = Verifier /\ DOMAIN slots = Verifier

\* A party is in a call of the program, or between two, or has made the last.
Placed(p) ==
  /\ pos[p] <= Len(prog)
  /\ pc[p] \notin {"next", "end"} => pos[p] < Len(prog)
  /\ pc[p] = "next" /\ pos[p] > 0 => prog[pos[p]].kind # "finalize"
  /\ pc[p] = "open" => Op(p).kind \in {"reveal", "check"}

\* How many products it has recorded, and how many wires are in its batch.
Recorded(p) ==
  /\ IsSeq(triples[p]) /\ Len(triples[p]) <= MultGateBufSz + k - 1
  /\ Len(pending[p]) <= k
  /\ pc[p] \notin {"batch", "error"} => Len(pending[p]) < k
  /\ p = Prover /\ pc[p] \in {"next", "batch", "tail"} =>
       Len(triples[p]) < MultGateBufSz + Len(pending[p])
  /\ p # Prover /\ pc[p] \in {"next", "batch", "tail", "open"} => Len(triples[p]) < MultGateBufSz

\* Who holds the slots of the wires in a verifier's batch.
Held(v) ==
  /\ \A s \in ToSet(pending[v]) :
       s \in hold[v] \/ (pc[v] \notin {"next", "end"} /\ s = pos[v] + 1 /\ IsShared(Op(v)))
  /\ pc[v] \in {"next", "batch", "open"} => batches[v] = seen[v]
  /\ batches[v] # seen[v] => pending[v] = <<>>

WInv ==
  /\ ProgOK /\ Shapes
  /\ \A p \in Party : Placed(p) /\ Recorded(p)
  /\ \A v \in Verifier : Held(v)

LEMMA Sizes ==
  /\ k \in Nat \ {0} /\ MultGateBufSz \in Nat \ {0} /\ n \in Nat /\ MaxCalls \in Nat
  /\ Prover \in Party /\ \A v \in Verifier : v \in Party /\ v # Prover
  /\ \A p \in Party : p # Prover => p \in Verifier
BY Numbers, PartiesAssumption, CheckAssumption, ProgramAssumption DEF Party

\* A step that leaves a party where it is.
LEMMA Untouched ==
  ASSUME NEW p \in Party, Placed(p), Recorded(p), pos[p] \in Nat, Grown,
         UNCHANGED <<pos[p], pc[p], pending[p], triples[p]>>
  PROVE  Placed(p)' /\ Recorded(p)'
<1>1. Placed(p)'
  <2>1. pos[p] <= Len(prog) /\ Len(prog) <= Len(prog') /\ Len(prog) \in Nat /\ Len(prog') \in Nat
    BY DEF Placed, Grown
  <2>2. pos[p] > 0 => prog'[pos[p]] = prog[pos[p]]
    BY <2>1 DEF Grown
  <2>3. pos[p] < Len(prog) => Op(p)' = Op(p)
    <3>1. pos'[p] = pos[p]
      OBVIOUS
    <3>2. ASSUME pos[p] < Len(prog) PROVE prog'[pos[p] + 1] = prog[pos[p] + 1]
      <4>1. pos[p] + 1 \in 1 .. Len(prog)
        BY ONLY <2>1, <3>2, pos[p] \in Nat
      <4> QED
        BY <4>1 DEF Grown
    <3> QED
      BY <3>1, <3>2 DEF Op
  <2> QED
    BY <2>1, <2>2, <2>3 DEF Placed
<1>2. Recorded(p)'
  BY DEF Recorded
<1> QED
  BY <1>1, <1>2

LEMMA Unheld ==
  ASSUME NEW v \in Verifier, Held(v), Placed(v), pos[v] \in Nat, Grown,
         UNCHANGED <<pos[v], pc[v], pending[v], batches[v], hold[v], seen[v]>>
  PROVE  Held(v)'
<1>1. pc[v] \notin {"next", "end"} => Op(v)' = Op(v)
  <2> SUFFICES ASSUME pc[v] \notin {"next", "end"} PROVE Op(v)' = Op(v)
    OBVIOUS
  <2>1. pos[v] < Len(prog) /\ pos[v] \in Nat /\ Len(prog) \in Nat
    BY DEF Placed, Grown
  <2>2. pos[v] + 1 \in 1 .. Len(prog)
    BY ONLY <2>1
  <2>3. prog'[pos[v] + 1] = prog[pos[v] + 1]
    BY <2>2 DEF Grown
  <2>4. pos'[v] = pos[v]
    OBVIOUS
  <2> QED
    BY ONLY <2>3, <2>4 DEF Op
<1>2. pc[v] \notin {"next", "end"} => IsShared(Op(v))' = IsShared(Op(v))
  BY <1>1 DEF IsShared
<1>3. ASSUME NEW s \in ToSet(pending'[v])
      PROVE  s \in hold'[v] \/ (pc'[v] \notin {"next", "end"} /\ s = pos'[v] + 1 /\ IsShared(Op(v))')
  <2>1. s \in hold[v] \/ (pc[v] \notin {"next", "end"} /\ s = pos[v] + 1 /\ IsShared(Op(v)))
    BY <1>3 DEF Held, ToSet
  <2> QED
    BY <1>2, <2>1
<1> QED
  BY <1>3 DEF Held

LEMMA Steady ==
  ASSUME WInv, UNCHANGED <<prog, pos, pc, pending, batches, triples, hold, seen, slots>>
  PROVE  WInv'
<1>1. ProgOK' /\ Shapes'
  BY DEF WInv, ProgOK, Shapes, CallOK
<1>2. \A p \in Party : Placed(p)' /\ Recorded(p)'
  BY DEF WInv, Placed, Recorded, Op
<1>3. \A v \in Verifier : Held(v)'
  BY DEF WInv, Held, Op
<1> QED
  BY <1>1, <1>2, <1>3 DEF WInv

\* A party starts a call, new or made before by another.
LEMMA CallingFacts ==
  ASSUME WInv, NEW p \in Party, NEW op \in NextCalls(p), Calling(p, op)
  PROVE  /\ ProgOK' /\ Grown /\ pos[p] \in Nat /\ pos[p] < Len(prog')
         /\ prog'[pos[p] + 1] = op
         /\ \E i \in 1 .. Len(prog') : i = pos[p] + 1 /\ CallOK(i)'
<1>1. pc[p] = "next" /\ Placed(p) /\ ProgOK /\ pos[p] \in Nat /\ Len(prog) \in Nat
  BY SeqFacts DEF Calling, WInv, Shapes, ProgOK
<1>2. CASE pos[p] # Len(prog)
  <2>1. prog' = prog /\ op = prog[pos[p] + 1] /\ pos[p] < Len(prog)
    BY <1>1, <1>2 DEF Calling, NextCalls, Op, Placed
  <2>2. Grown
    BY <1>1, <2>1 DEF Grown
  <2>3. ProgOK'
    BY <1>1, <2>1 DEF ProgOK, CallOK
  <2>4. pos[p] + 1 \in 1 .. Len(prog')
    BY <1>1, <2>1
  <2>5. \E i \in 1 .. Len(prog') : i = pos[p] + 1 /\ CallOK(i)'
    BY <2>3, <2>4 DEF ProgOK
  <2> QED
    BY <1>1, <2>1, <2>2, <2>3, <2>5
<1>3. CASE pos[p] = Len(prog)
  <2>1. prog' = Append(prog, op) /\ op \in Callable
    BY <1>3 DEF Calling, NextCalls
  <2>2. \A i \in 1 .. Len(prog) : prog[i].kind # "finalize"
    BY <1>1, <1>3 DEF Placed, ProgOK
  <2>3. \A i \in 1 .. Len(prog) : i <= MaxCalls
    BY <1>1, <2>2 DEF ProgOK, CallOK
  <2>4. Len(prog) <= MaxCalls
    BY <1>1, <2>3, Sizes
  <2>5. Len(prog) < MaxCalls \/ op.kind = "finalize"
    BY <1>1, <2>1, <2>4, Sizes DEF Callable
  <2>6. ProgOK' /\ Grown /\ prog'[Len(prog) + 1] = op /\ Len(prog') = Len(prog) + 1
    BY <1>1, <2>1, <2>2, <2>5, CallableFacts
  <2>7. pos[p] + 1 \in 1 .. Len(prog')
    BY <1>1, <1>3, <2>6
  <2>8. \E i \in 1 .. Len(prog') : i = pos[p] + 1 /\ CallOK(i)'
    BY <2>6, <2>7 DEF ProgOK
  <2> QED
    BY <1>1, <1>3, <2>6, <2>8
<1> QED
  BY <1>2, <1>3

\* Its wire, if it makes one to be sent, joins the batch.
LEMMA SharingFacts ==
  ASSUME WInv, NEW p \in Party, NEW op \in NextCalls(p), Calling(p, op),
         IsShared(op) \/ IsFlush(op), Share(p, op)
  PROVE  /\ pos' = pos /\ pending' \in [Party -> Seq(Slot)]
         /\ \E w \in {"batch", "tail"} :
              /\ pc' = [pc EXCEPT ![p] = w]
              /\ Len(pending'[p]) <= k
              /\ w = "tail" => Len(pending'[p]) < k
         /\ IF IsShared(op)
            THEN /\ pos[p] + 1 \in Slot
                 /\ pending' = [pending EXCEPT ![p] = Append(@, pos[p] + 1)]
                 /\ Len(pending'[p]) = Len(pending[p]) + 1
            ELSE pending' = pending
<1>1. /\ pending \in [Party -> Seq(Slot)] /\ Len(pending[p]) < k /\ Len(pending[p]) \in Nat
      /\ pc[p] = "next"
  <2>1. pending \in [Party -> Seq(Slot)] /\ pc[p] = "next" /\ Recorded(p)
    BY DEF WInv, Shapes, Calling
  <2>2. pending[p] \in Seq(Slot)
    BY <2>1
  <2> QED
    BY <2>1, <2>2 DEF Recorded
<1>2. /\ pos[p] \in Nat /\ pos[p] < Len(prog') /\ prog'[pos[p] + 1] = op
      /\ \E i \in 1 .. Len(prog') : i = pos[p] + 1 /\ CallOK(i)'
  BY CallingFacts
<1>3. IsShared(op) => pos[p] + 1 \in Slot /\ ~IsFlush(op)
  BY <1>2, Sizes DEF CallOK, IsShared, IsFlush, Slot
<1>4. /\ pending' = IF IsShared(op) THEN [pending EXCEPT ![p] = Append(@, pos[p] + 1)] ELSE pending
      /\ pos' = pos
      /\ pc' = [pc EXCEPT ![p] = IF IsFlush(op) THEN IF pending[p] # <<>> THEN "batch" ELSE "tail"
                                 ELSE IF Len(pending'[p]) = k THEN "batch" ELSE "tail"]
  BY DEF Share, SharePending, Goto
<1>5. CASE IsShared(op)
  <2>1. Append(pending[p], pos[p] + 1) \in Seq(Slot)
    BY <1>1, <1>3, <1>5
  <2>2. pending' \in [Party -> Seq(Slot)] /\ Len(pending'[p]) = Len(pending[p]) + 1
    BY <1>1, <1>4, <1>5, <2>1
  <2>3. pc' = [pc EXCEPT ![p] = IF Len(pending'[p]) = k THEN "batch" ELSE "tail"]
    BY <1>3, <1>4, <1>5
  <2>4. Len(pending'[p]) <= k
    BY <1>1, <2>2, Sizes
  <2>5. \E w \in {"batch", "tail"} :
          pc' = [pc EXCEPT ![p] = w] /\ (w = "tail" => Len(pending'[p]) # k)
    BY <2>3
  <2>6. \E w \in {"batch", "tail"} :
          pc' = [pc EXCEPT ![p] = w] /\ (w = "tail" => Len(pending'[p]) < k)
    <3>1. Len(pending'[p]) # k => Len(pending'[p]) < k
      BY <1>1, <2>2, <2>4, Sizes
    <3> QED
      BY <2>5, <3>1
  <2> QED
    BY <1>3, <1>4, <1>5, <2>2, <2>4, <2>6
<1>6. CASE ~IsShared(op)
  <2>1. pending' = pending
    BY <1>4, <1>6
  <2>2. \E w \in {"batch", "tail"} : pc' = [pc EXCEPT ![p] = w]
    BY <1>4
  <2>3. pending'[p] = pending[p] /\ Len(pending'[p]) <= k /\ Len(pending'[p]) < k
    BY <1>1, <2>1, Sizes
  <2> QED
    BY <1>1, <1>4, <1>6, <2>1, <2>2, <2>3
<1> QED
  BY <1>5, <1>6

LEMMA GotoFacts ==
  ASSUME Shapes, NEW p \in Party, NEW w \in Where, Goto(p, w)
  PROVE  /\ pc' \in [Party -> Where] /\ pc'[p] = w
         /\ \A o \in Party : o # p => pc'[o] = pc[o]
BY DEF Shapes, Goto

LEMMA FinishFacts ==
  ASSUME Shapes, NEW p \in Party, Finish(p)
  PROVE  /\ pos' \in [Party -> Nat] /\ pos'[p] = pos[p] + 1 /\ pos[p] \in Nat
         /\ pc' \in [Party -> Where] /\ pc'[p] = "next"
         /\ \A o \in Party : o # p => pos'[o] = pos[o] /\ pc'[o] = pc[o]
<1>1. /\ pos \in [Party -> Nat] /\ pos' = [pos EXCEPT ![p] = @ + 1]
      /\ Goto(p, "next") /\ "next" \in Where
  BY DEF Shapes, Finish, Where
<1>2. pos[p] \in Nat /\ pos[p] + 1 \in Nat
  BY <1>1
<1>3. pos' \in [Party -> Nat] /\ pos'[p] = pos[p] + 1 /\ \A o \in Party : o # p => pos'[o] = pos[o]
  BY <1>1, <1>2
<1> QED
  BY <1>1, <1>2, <1>3, GotoFacts

LEMMA PCallKeeps == ASSUME WInv, PCall PROVE WInv'
<1>1. PICK op \in NextCalls(Prover) :
        /\ Calling(Prover, op)
        /\ IF IsShared(op) \/ IsFlush(op)
           THEN Share(Prover, op) ELSE Finish(Prover) /\ UNCHANGED pending
        /\ \/ triples' = triples /\ op.kind # "mult"
           \/ /\ \E e : triples' = [triples EXCEPT ![Prover] = Append(@, e)]
              /\ IsShared(op)
        /\ UNCHANGED <<batches, hold, seen, slots>>
  BY DEF PCall, ProverUnchanged, slotVars, IsShared
<1>2. /\ ProgOK' /\ Grown /\ pos[Prover] \in Nat /\ pos[Prover] < Len(prog')
      /\ prog'[pos[Prover] + 1] = op
  BY <1>1, CallingFacts, Sizes
<1>3. Shapes /\ Placed(Prover) /\ Recorded(Prover) /\ pc[Prover] = "next" /\ Len(prog') \in Nat
  BY <1>1, <1>2, Sizes DEF WInv, Calling, Grown
<1>4. Len(triples[Prover]) \in Nat /\ Len(pending[Prover]) \in Nat /\ IsSeq(triples[Prover])
  BY <1>3, SeqFacts, Sizes DEF Recorded, Shapes
<1>5. /\ DOMAIN triples' = Party /\ \A p \in Party : p # Prover => triples'[p] = triples[p]
      /\ IsSeq(triples'[Prover])
      /\ \/ triples'[Prover] = triples[Prover]
         \/ Len(triples'[Prover]) = Len(triples[Prover]) + 1 /\ IsShared(op)
  <2>1. DOMAIN triples = Party /\ Prover \in Party
    BY <1>3, Sizes DEF Shapes
  <2>2. CASE triples' = triples
    BY <1>4, <2>1, <2>2
  <2>3. CASE IsShared(op) /\ \E e : triples' = [triples EXCEPT ![Prover] = Append(@, e)]
    <3>1. PICK e : triples' = [triples EXCEPT ![Prover] = Append(@, e)]
      BY <2>3
    <3> DEFINE a == Append(triples[Prover], e)
    <3>2. IsSeq(a) /\ Len(a) = Len(triples[Prover]) + 1
      BY <1>4, SeqAppend
    <3>3. triples' = [triples EXCEPT ![Prover] = a]
      BY <3>1
    <3> HIDE DEF a
    <3> QED
      BY <2>1, <2>3, <3>2, <3>3
  <2> QED
    BY <1>1, <2>2, <2>3, SMTT(40), ZenonT(40)
<1>6. CASE IsShared(op) \/ IsFlush(op)
  <2>1. Share(Prover, op)
    BY <1>1, <1>6
  <2>2. /\ pos' = pos /\ pending' \in [Party -> Seq(Slot)]
        /\ \E w \in {"batch", "tail"} :
             /\ pc' = [pc EXCEPT ![Prover] = w]
             /\ Len(pending'[Prover]) <= k
             /\ w = "tail" => Len(pending'[Prover]) < k
        /\ IF IsShared(op)
           THEN /\ pending' = [pending EXCEPT ![Prover] = Append(@, pos[Prover] + 1)]
                /\ Len(pending'[Prover]) = Len(pending[Prover]) + 1
           ELSE pending' = pending
    BY <1>1, <1>6, <2>1, SharingFacts, Sizes
  <2>3. PICK w \in {"batch", "tail"} :
          /\ pc' = [pc EXCEPT ![Prover] = w]
          /\ Len(pending'[Prover]) <= k
          /\ w = "tail" => Len(pending'[Prover]) < k
    BY <2>2
  <2>4. Shapes'
    <3>1. pc' \in [Party -> Where]
      BY <1>3, <2>3 DEF Shapes, Where
    <3> QED
      BY <1>1, <1>3, <1>5, <2>2, <3>1 DEF Shapes
  <2>5. \A p \in Party : p # Prover => pc'[p] = pc[p] /\ pending'[p] = pending[p]
    BY <1>3, <2>2, <2>3 DEF Shapes
  <2>6. pc'[Prover] = w
    BY <1>3, <2>3, Sizes DEF Shapes
  <2>7. Placed(Prover)'
    BY <1>2, <1>3, <2>2, <2>6 DEF Placed
  <2>8. Recorded(Prover)'
    <3>1. Len(triples'[Prover]) < MultGateBufSz + Len(pending'[Prover])
      <4>1. Len(triples[Prover]) < MultGateBufSz + Len(pending[Prover])
        BY <1>3 DEF Recorded
      <4>2. /\ Len(triples[Prover]) \in Nat /\ Len(pending[Prover]) \in Nat /\ MultGateBufSz \in Nat
        BY <1>4, Sizes
      <4>3. CASE IsShared(op)
        <5>1. Len(pending'[Prover]) = Len(pending[Prover]) + 1
          BY ONLY <2>2, <4>3
        <5>2. \/ Len(triples'[Prover]) = Len(triples[Prover])
              \/ Len(triples'[Prover]) = Len(triples[Prover]) + 1
          BY ONLY <1>5
        <5> QED
          BY ONLY <4>1, <4>2, <5>1, <5>2
      <4>4. CASE ~IsShared(op)
        <5>1. pending'[Prover] = pending[Prover] /\ triples'[Prover] = triples[Prover]
          BY ONLY <1>5, <2>2, <4>4
        <5> QED
          BY ONLY <4>1, <5>1
      <4> QED
        BY ONLY <4>3, <4>4
    <3>2. Len(triples'[Prover]) <= MultGateBufSz + k - 1
      <4>1. Len(pending'[Prover]) \in Nat /\ Len(pending'[Prover]) <= k
        BY <2>3, <2>4, Sizes DEF Shapes
      <4>2. Len(triples'[Prover]) \in Nat
        BY <1>5, SeqFacts
      <4>3. MultGateBufSz \in Nat /\ k \in Nat
        BY Sizes
      <4> QED
        BY ONLY <3>1, <4>1, <4>2, <4>3
    <3> QED
      BY <1>5, <2>3, <2>6, <3>1, <3>2 DEF Recorded
  <2> QED
    <3>1. ProgOK' /\ Shapes'
      BY <1>2, <2>4
    <3>2. ASSUME NEW p \in Party PROVE Placed(p)' /\ Recorded(p)'
      <4>1. CASE p = Prover
        BY ONLY <2>7, <2>8, <4>1
      <4>2. CASE p # Prover
        <5>1. pos'[p] = pos[p] /\ pc'[p] = pc[p] /\ pending'[p] = pending[p] /\ triples'[p] = triples[p]
          BY <1>5, <2>2, <2>5, <4>2
        <5>2. Placed(p) /\ Recorded(p) /\ pos[p] \in Nat
          BY DEF WInv, Shapes
        <5> QED
          BY <1>2, <5>1, <5>2, Untouched
      <4> QED
        BY <4>1, <4>2
    <3>3. ASSUME NEW v \in Verifier PROVE Held(v)'
      <4>1. v \in Party /\ v # Prover
        BY Sizes
      <4>2. /\ pos'[v] = pos[v] /\ pc'[v] = pc[v] /\ pending'[v] = pending[v]
            /\ batches' = batches /\ hold' = hold /\ seen' = seen
        BY <1>1, <2>2, <2>5, <4>1
      <4>3. Held(v) /\ Placed(v) /\ pos[v] \in Nat
        BY <4>1 DEF WInv, Shapes
      <4> QED
        BY <1>2, <4>2, <4>3, Unheld
    <3> QED
      BY <3>1, <3>2, <3>3 DEF WInv
<1>7. CASE ~(IsShared(op) \/ IsFlush(op))
  <2>1. Finish(Prover) /\ pending' = pending /\ triples' = triples
    BY <1>1, <1>7
  <2>2. /\ pos' \in [Party -> Nat] /\ pos'[Prover] = pos[Prover] + 1
        /\ pc' \in [Party -> Where] /\ pc'[Prover] = "next"
        /\ \A o \in Party : o # Prover => pos'[o] = pos[o] /\ pc'[o] = pc[o]
    BY <1>3, <2>1, FinishFacts, Sizes
  <2>3. Shapes' /\ op.kind # "finalize"
    BY <1>1, <1>3, <1>7, <2>1, <2>2 DEF Shapes, IsFlush
  <2>4. Placed(Prover)'
    BY <1>2, <1>3, <2>2, <2>3 DEF Placed
  <2>5. Recorded(Prover)'
    BY <1>3, <2>1, <2>2 DEF Recorded
  <2> QED
    <3>1. ProgOK' /\ Shapes'
      BY <1>2, <2>3
    <3>2. ASSUME NEW p \in Party PROVE Placed(p)' /\ Recorded(p)'
      <4>1. CASE p = Prover
        BY ONLY <2>4, <2>5, <4>1
      <4>2. CASE p # Prover
        <5>1. pos'[p] = pos[p] /\ pc'[p] = pc[p] /\ pending'[p] = pending[p] /\ triples'[p] = triples[p]
          BY <2>1, <2>2, <4>2
        <5>2. Placed(p) /\ Recorded(p) /\ pos[p] \in Nat
          BY DEF WInv, Shapes
        <5> QED
          BY <1>2, <5>1, <5>2, Untouched
      <4> QED
        BY <4>1, <4>2
    <3>3. ASSUME NEW v \in Verifier PROVE Held(v)'
      <4>1. v \in Party /\ v # Prover
        BY Sizes
      <4>2. /\ pos'[v] = pos[v] /\ pc'[v] = pc[v] /\ pending' = pending
            /\ batches' = batches /\ hold' = hold /\ seen' = seen
        BY <1>1, <2>1, <2>2, <4>1
      <4>3. Held(v) /\ Placed(v) /\ pos[v] \in Nat
        BY <4>1 DEF WInv, Shapes
      <4> QED
        BY <1>2, <4>2, <4>3, Unheld
    <3> QED
      BY <3>1, <3>2, <3>3 DEF WInv
<1> QED
  BY <1>6, <1>7

LEMMA OneMoves ==
  ASSUME WInv, NEW p \in Party, ProgOK', Grown, Shapes', Placed(p)', Recorded(p)',
         p \in Verifier => Held(p)',
         \A o \in Party : o # p =>
           UNCHANGED <<pos[o], pc[o], pending[o], triples[o], batches[o]>>,
         \A v \in Verifier : v # p => UNCHANGED <<hold[v], seen[v]>>
  PROVE  WInv'
<1>1. ASSUME NEW o \in Party, o # p
      PROVE  Placed(o)' /\ Recorded(o)' /\ (o \in Verifier => Held(o)')
  <2>1. Placed(o) /\ Recorded(o) /\ pos[o] \in Nat
    BY DEF WInv, Shapes
  <2>2. UNCHANGED <<pos[o], pc[o], pending[o], triples[o], batches[o]>>
    BY <1>1
  <2>3. Placed(o)' /\ Recorded(o)'
    BY <2>1, <2>2, Untouched
  <2>4. o \in Verifier => Held(o)'
    BY <1>1, <2>1, <2>2, Unheld DEF WInv
  <2> QED
    BY <2>3, <2>4
<1>2. \A v \in Verifier : Held(v)'
  BY <1>1, Sizes
<1> QED
  BY <1>1, <1>2 DEF WInv

LEMMA SameProg == ASSUME WInv, UNCHANGED prog PROVE ProgOK' /\ Grown
BY SeqFacts DEF WInv, ProgOK, CallOK, Grown

\* The end of shareBatch(), for either side.
LEMMA BatchDoneFacts ==
  ASSUME Shapes, NEW p \in Party, NEW recorded, BatchDone(p, recorded)
  PROVE  /\ pending' \in [Party -> Seq(Slot)] /\ pending'[p] = <<>>
         /\ batches' \in [Party -> Nat] /\ batches'[p] = batches[p] + 1
         /\ pc' \in [Party -> Where] /\ pc'[p] = IF CheckDue(recorded) THEN "com" ELSE "tail"
         /\ \A o \in Party : o # p => UNCHANGED <<pending[o], batches[o], pc[o]>>
<1> DEFINE w == IF CheckDue(recorded) THEN "com" ELSE "tail"
<1>1. /\ pending \in [Party -> Seq(Slot)] /\ pending' = [pending EXCEPT ![p] = <<>>]
      /\ <<>> \in Seq(Slot)
  BY DEF Shapes, BatchDone
<1>2. pending' \in [Party -> Seq(Slot)] /\ pending'[p] = <<>> /\ \A o \in Party : o # p => pending'[o] = pending[o]
  BY <1>1
<1>3. /\ batches \in [Party -> Nat] /\ batches' = [batches EXCEPT ![p] = @ + 1]
      /\ batches[p] + 1 \in Nat
  BY DEF Shapes, BatchDone
<1>4. /\ batches' \in [Party -> Nat] /\ batches'[p] = batches[p] + 1
      /\ \A o \in Party : o # p => batches'[o] = batches[o]
  BY <1>3
<1>5. Goto(p, w) /\ w \in Where
  BY DEF BatchDone, Where
<1>6. pc' \in [Party -> Where] /\ pc'[p] = w /\ \A o \in Party : o # p => pc'[o] = pc[o]
  <2> HIDE DEF w
  <2> QED
    BY <1>5, GotoFacts
<1> QED
  BY <1>2, <1>4, <1>6

\* A party that goes elsewhere in its call.
LEMMA InCall ==
  ASSUME WInv, NEW p \in Party, NEW w \in Where \ {"next", "end", "open"},
         pc[p] \notin {"next", "end"}, Goto(p, w), UNCHANGED <<prog, pos>>
  PROVE  /\ ProgOK' /\ Grown /\ Placed(p)' /\ Op(p)' = Op(p)
         /\ pc' \in [Party -> Where] /\ pc'[p] = w /\ \A o \in Party : o # p => pc'[o] = pc[o]
<1>1. ProgOK' /\ Grown
  BY SameProg
<1>2. pc' \in [Party -> Where] /\ pc'[p] = w /\ \A o \in Party : o # p => pc'[o] = pc[o]
  BY GotoFacts DEF WInv
<1>3. Placed(p)'
  BY <1>2 DEF WInv, Placed
<1> QED
  BY <1>1, <1>2, <1>3 DEF Op

LEMMA PBatchKeeps == ASSUME WInv, PBatch PROVE WInv'
<1>1. /\ pc[Prover] = "batch" /\ BatchDone(Prover, triples[Prover])
      /\ UNCHANGED <<prog, pos, triples, hold, seen, slots>>
  BY DEF PBatch, ProverUnchanged, slotVars
<1>2. Shapes /\ Recorded(Prover) /\ Placed(Prover) /\ Prover \in Party
  BY Sizes DEF WInv
<1>3. /\ pending' \in [Party -> Seq(Slot)] /\ pending'[Prover] = <<>>
      /\ batches' \in [Party -> Nat]
      /\ pc' \in [Party -> Where]
      /\ pc'[Prover] = IF CheckDue(triples[Prover]) THEN "com" ELSE "tail"
      /\ \A o \in Party : o # Prover => UNCHANGED <<pending[o], batches[o], pc[o]>>
  BY <1>1, <1>2, BatchDoneFacts
<1>4. ProgOK' /\ Grown
  BY <1>1, SameProg
<1>5. Shapes'
  BY <1>1, <1>2, <1>3 DEF Shapes
<1>6. Placed(Prover)'
  BY <1>1, <1>2, <1>3 DEF Placed
<1>7. Recorded(Prover)'
  <2>1. IsSeq(triples[Prover]) /\ Len(triples[Prover]) \in Nat /\ Len(pending'[Prover]) = 0
    BY <1>2, <1>3, SeqFacts DEF Recorded
  <2>2. pc'[Prover] = "tail" => Len(triples[Prover]) < MultGateBufSz
    BY <1>3, <2>1, Sizes DEF CheckDue
  <2> QED
    BY <1>1, <1>2, <1>3, <2>1, <2>2, Sizes DEF Recorded
<1> QED
  BY <1>1, <1>2, <1>3, <1>4, <1>5, <1>6, <1>7, OneMoves, Sizes

LEMMA PCommitKeeps == ASSUME WInv, PCommit PROVE WInv'
<1>1. /\ pc[Prover] = "com" /\ Goto(Prover, "round")
      /\ UNCHANGED <<prog, pos, pending, batches, triples, hold, seen, slots>>
  BY DEF PCommit, StartCheck, ProverUnchanged, slotVars
<1>2. "round" \in Where \ {"next", "end", "open"} /\ Prover \in Party /\ Recorded(Prover)
  BY Sizes DEF Where, WInv
<1>3. /\ ProgOK' /\ Grown /\ Placed(Prover)'
      /\ pc' \in [Party -> Where] /\ pc'[Prover] = "round"
      /\ \A o \in Party : o # Prover => pc'[o] = pc[o]
  BY <1>1, <1>2, InCall
<1>4. Shapes' /\ Recorded(Prover)'
  BY <1>1, <1>2, <1>3 DEF WInv, Shapes, Recorded
<1> QED
  BY <1>1, <1>2, <1>3, <1>4, OneMoves, Sizes

LEMMA PRoundKeeps == ASSUME WInv, PRound PROVE WInv'
<1>1. /\ pc[Prover] = "round" /\ UNCHANGED <<prog, pos, pending, batches, hold, seen, slots>>
      /\ \/ triples' = [triples EXCEPT ![Prover] = <<>>] /\ Goto(Prover, "tail")
         \/ UNCHANGED <<triples, pc>>
  BY DEF PRound, ProverUnchanged, slotVars
<1>2. CASE UNCHANGED <<triples, pc>>
  BY <1>1, <1>2, Steady
<1>3. CASE triples' = [triples EXCEPT ![Prover] = <<>>] /\ Goto(Prover, "tail")
  <2>1. /\ "tail" \in Where \ {"next", "end", "open"} /\ Prover \in Party /\ Recorded(Prover)
        /\ Shapes
    BY Sizes DEF Where, WInv
  <2>2. /\ ProgOK' /\ Grown /\ Placed(Prover)'
        /\ pc' \in [Party -> Where] /\ pc'[Prover] = "tail"
        /\ \A o \in Party : o # Prover => pc'[o] = pc[o]
    BY <1>1, <1>3, <2>1, InCall
  <2>3. /\ triples'[Prover] = <<>> /\ DOMAIN triples' = Party
        /\ \A o \in Party : o # Prover => triples'[o] = triples[o]
    BY <1>3, <2>1 DEF Shapes
  <2>4. Shapes'
    BY <1>1, <2>1, <2>2, <2>3 DEF Shapes
  <2>5. Recorded(Prover)'
    <3>1. Len(pending[Prover]) \in Nat
      BY <2>1 DEF Shapes
    <3> QED
      BY <1>1, <2>1, <2>2, <2>3, <3>1, SeqEmpty, Sizes DEF Recorded
  <2> QED
    BY <1>1, <2>1, <2>2, <2>3, <2>4, <2>5, OneMoves, Sizes
<1> QED
  BY <1>1, <1>2, <1>3

\* After the flush of finalize.
LEMMA FinalCheckFacts ==
  ASSUME Shapes, NEW p \in Party, FinalCheck(p)
  PROVE  /\ pos' \in [Party -> Nat] /\ pc' \in [Party -> Where]
         /\ IF triples[p] # <<>> THEN pos' = pos /\ pc'[p] = "com"
                                 ELSE pos'[p] = pos[p] + 1 /\ pc'[p] = "end"
         /\ \A o \in Party : o # p => pos'[o] = pos[o] /\ pc'[o] = pc[o]
<1> DEFINE w == IF triples[p] # <<>> THEN "com" ELSE "end"
<1>1. /\ pos \in [Party -> Nat] /\ Goto(p, w) /\ w \in Where
      /\ pos' = IF triples[p] # <<>> THEN pos ELSE [pos EXCEPT ![p] = @ + 1]
  BY DEF Shapes, FinalCheck, Where
<1>2. pc' \in [Party -> Where] /\ pc'[p] = w /\ \A o \in Party : o # p => pc'[o] = pc[o]
  <2> HIDE DEF w
  <2> QED
    BY <1>1, GotoFacts
<1>3. pos[p] \in Nat /\ pos[p] + 1 \in Nat
  BY <1>1
<1>4. /\ pos' \in [Party -> Nat] /\ \A o \in Party : o # p => pos'[o] = pos[o]
      /\ pos'[p] = IF triples[p] # <<>> THEN pos[p] ELSE pos[p] + 1
  BY <1>1, <1>3
<1> QED
  BY <1>1, <1>2, <1>4

LEMMA PTailKeeps == ASSUME WInv, PTail PROVE WInv'
<1>1. /\ pc[Prover] = "tail" /\ UNCHANGED <<prog, pending, batches, triples, hold, seen, slots>>
      /\ IF Op(Prover).kind = "finalize" THEN FinalCheck(Prover) ELSE Finish(Prover)
  BY DEF PTail, ProverUnchanged, slotVars
<1>2. Shapes /\ Recorded(Prover) /\ Placed(Prover) /\ Prover \in Party
  BY Sizes DEF WInv
<1>3. ProgOK' /\ Grown /\ Len(prog) \in Nat
  BY <1>1, SameProg DEF Grown
<1>4. /\ pos' \in [Party -> Nat] /\ pc' \in [Party -> Where]
      /\ \A o \in Party : o # Prover => pos'[o] = pos[o] /\ pc'[o] = pc[o]
      /\ \/ pos'[Prover] = pos[Prover] /\ pc'[Prover] = "com"
         \/ pos'[Prover] = pos[Prover] + 1 /\ pc'[Prover] = "end"
         \/ pos'[Prover] = pos[Prover] + 1 /\ pc'[Prover] = "next" /\ Op(Prover).kind # "finalize"
  BY <1>1, <1>2, FinalCheckFacts, FinishFacts
<1>5. Shapes'
  BY <1>1, <1>2, <1>4 DEF Shapes
<1>6. Placed(Prover)'
  <2>1. pos[Prover] \in Nat /\ pos[Prover] < Len(prog)
    BY <1>1, <1>2 DEF Placed, Shapes
  <2> QED
    BY <1>1, <1>3, <1>4, <2>1 DEF Placed, Op
<1>7. Recorded(Prover)'
  BY <1>1, <1>2, <1>4 DEF Recorded
<1> QED
  BY <1>1, <1>2, <1>3, <1>4, <1>5, <1>6, <1>7, OneMoves, Sizes

LEMMA ToSetAppend ==
  ASSUME NEW s \in Seq(Slot), NEW e \in Slot
  PROVE  \A x \in ToSet(Append(s, e)) : x \in ToSet(s) \/ x = e
<1>1. IsSeq(s)
  BY DEF IsSeq
<1>2. /\ DOMAIN s = 1 .. Len(s) /\ Len(s) \in Nat
      /\ \A i \in 1 .. Len(s) : Append(s, e)[i] = s[i]
      /\ Append(s, e)[Len(s) + 1] = e /\ DOMAIN Append(s, e) = 1 .. Len(s) + 1
  BY <1>1, SeqAppend, SeqFacts
<1> DEFINE a == Append(s, e)
<1> HIDE DEF a
<1>3. ASSUME NEW i \in DOMAIN a PROVE a[i] \in ToSet(s) \/ a[i] = e
  <2>1. i \in 1 .. Len(s) \/ i = Len(s) + 1
    BY <1>2 DEF a
  <2>2. CASE i \in 1 .. Len(s)
    <3>1. a[i] = s[i] /\ i \in DOMAIN s
      BY <1>2, <2>2 DEF a
    <3> QED
      BY <3>1 DEF ToSet
  <2>3. CASE i = Len(s) + 1
    BY <1>2, <2>3 DEF a
  <2> QED
    BY <2>1, <2>2, <2>3
<1> QED
  BY <1>3 DEF ToSet, a

LEMMA ToSetEmpty == ToSet(<<>>) = {}
BY DEF ToSet

LEMMA VCallKeeps == ASSUME WInv, NEW v \in Verifier, VCall(v) PROVE WInv'
<1>1. PICK op \in NextCalls(v) :
        /\ Calling(v, op)
        /\ IF IsShared(op) \/ IsFlush(op)
           THEN Share(v, op) ELSE Finish(v) /\ UNCHANGED pending
        /\ DOMAIN slots' = DOMAIN slots
        /\ UNCHANGED <<batches, triples, hold, seen>>
  BY DEF VCall
<1>2. v \in Party /\ v # Prover /\ Shapes /\ Placed(v) /\ Recorded(v) /\ Held(v)
  BY Sizes DEF WInv
<1>3. /\ ProgOK' /\ Grown /\ pos[v] \in Nat /\ pos[v] < Len(prog')
      /\ prog'[pos[v] + 1] = op /\ Len(prog') \in Nat
  BY <1>1, <1>2, CallingFacts DEF Grown
<1>4. pc[v] = "next" /\ Len(triples[v]) \in Nat
  BY <1>1, <1>2, SeqFacts DEF Calling, Recorded
<1>5. CASE IsShared(op) \/ IsFlush(op)
  <2>1. Share(v, op)
    BY <1>1, <1>5
  <2>2. /\ pos' = pos /\ pending' \in [Party -> Seq(Slot)]
        /\ \E w \in {"batch", "tail"} :
             /\ pc' = [pc EXCEPT ![v] = w]
             /\ Len(pending'[v]) <= k
             /\ w = "tail" => Len(pending'[v]) < k
        /\ IF IsShared(op)
           THEN /\ pos[v] + 1 \in Slot
                /\ pending' = [pending EXCEPT ![v] = Append(@, pos[v] + 1)]
           ELSE pending' = pending
    BY <1>1, <1>2, <1>5, <2>1, SharingFacts
  <2>3. PICK w \in {"batch", "tail"} :
          /\ pc' = [pc EXCEPT ![v] = w]
          /\ Len(pending'[v]) <= k
          /\ w = "tail" => Len(pending'[v]) < k
    BY <2>2
  <2>4. pc' \in [Party -> Where] /\ pc'[v] = w /\ \A o \in Party : o # v => pc'[o] = pc[o]
    BY <1>2, <2>3, GotoFacts DEF Where, Goto
  <2>5. Shapes'
    BY <1>1, <1>2, <2>2, <2>4 DEF Shapes
  <2>6. \A o \in Party : o # v => pending'[o] = pending[o]
    BY <1>2, <2>2 DEF Shapes
  <2>7. Placed(v)'
    BY <1>2, <1>3, <2>2, <2>4 DEF Placed
  <2>8. Recorded(v)'
    BY <1>1, <1>2, <1>4, <2>3, <2>4 DEF Recorded
  <2>9. Held(v)'
    <3>1. ASSUME NEW s \in ToSet(pending'[v])
          PROVE  s \in hold[v] \/ (s = pos[v] + 1 /\ IsShared(op))
      <4>1. \A x \in ToSet(pending[v]) : x \in hold[v]
        BY <1>2, <1>4 DEF Held
      <4>2. CASE IsShared(op)
        <5>1. pending[v] \in Seq(Slot) /\ pos[v] + 1 \in Slot /\ pending'[v] = Append(pending[v], pos[v] + 1)
          BY <1>2, <2>2, <4>2 DEF Shapes
        <5>2. s \in ToSet(pending[v]) \/ s = pos[v] + 1
          BY <3>1, <5>1, ToSetAppend
        <5> QED
          BY <4>1, <4>2, <5>2
      <4>3. CASE ~IsShared(op)
        BY <2>2, <3>1, <4>1, <4>3
      <4> QED
        BY <4>2, <4>3
    <3>2. Op(v)' = op
      BY <1>3, <2>2 DEF Op
    <3>3. IsShared(Op(v))' = IsShared(op)
      BY <3>2 DEF IsShared
    <3>4. batches[v] = seen[v]
      BY <1>2, <1>4 DEF Held
    <3> QED
      BY <1>1, <2>2, <2>4, <3>1, <3>3, <3>4 DEF Held
  <2> QED
    BY <1>1, <1>2, <1>3, <2>2, <2>4, <2>5, <2>6, <2>7, <2>8, <2>9, OneMoves
<1>6. CASE ~(IsShared(op) \/ IsFlush(op))
  <2>1. Finish(v) /\ pending' = pending
    BY <1>1, <1>6
  <2>2. /\ pos' \in [Party -> Nat] /\ pos'[v] = pos[v] + 1
        /\ pc' \in [Party -> Where] /\ pc'[v] = "next"
        /\ \A o \in Party : o # v => pos'[o] = pos[o] /\ pc'[o] = pc[o]
    BY <1>2, <2>1, FinishFacts
  <2>3. Shapes' /\ op.kind # "finalize"
    BY <1>1, <1>2, <1>6, <2>1, <2>2 DEF Shapes, IsFlush
  <2>4. Placed(v)'
    BY <1>2, <1>3, <2>2, <2>3 DEF Placed
  <2>5. Recorded(v)'
    BY <1>1, <1>2, <1>4, <2>1, <2>2 DEF Recorded
  <2>6. Held(v)'
    BY <1>1, <1>2, <1>4, <2>1, <2>2 DEF Held
  <2> QED
    BY <1>1, <1>2, <1>3, <2>1, <2>2, <2>3, <2>4, <2>5, <2>6, OneMoves
<1> QED
  BY <1>5, <1>6

\* What FillSlot() makes of the slots, and the product it records.
Resolved(f, s) == IF prog[s].kind = "mult"
                  THEN Materialize(Materialize(f.slots, prog[s].args[1]), prog[s].args[2])
                  ELSE f.slots
FilledWith(r, s, val) == [r EXCEPT ![s] = [@ EXCEPT !.ready = TRUE, !.sh = val]]
Recording(f, s, val) ==
  <<Resolved(f, s)[prog[s].args[1]].sh, Resolved(f, s)[prog[s].args[2]].sh, val>>
Fails(f, s) ==
  f.failed \/ (/\ prog[s].kind = "mult"
               /\ \E t \in {prog[s].args[1], prog[s].args[2]} : Premature(f.slots, t))

LEMMA FillSlotParts ==
  ASSUME NEW f, NEW s, NEW val
  PROVE  /\ FillSlot(f, s, val).slots = FilledWith(Resolved(f, s), s, val)
         /\ FillSlot(f, s, val).triples = IF prog[s].kind # "mult" THEN f.triples
                                          ELSE Append(f.triples, Recording(f, s, val))
         /\ FillSlot(f, s, val).failed = Fails(f, s)
<1> DEFINE tr == IF prog[s].kind # "mult" THEN f.triples ELSE Append(f.triples, Recording(f, s, val))
           sl == FilledWith(Resolved(f, s), s, val)
           fl == Fails(f, s)
<1>1. FillSlot(f, s, val) = [slots |-> sl, triples |-> tr, failed |-> fl]
  BY DEF FillSlot, Resolved, FilledWith, Recording, Fails
<1> HIDE DEF sl, tr, fl
<1>2. /\ FillSlot(f, s, val).slots = sl /\ FillSlot(f, s, val).triples = tr
      /\ FillSlot(f, s, val).failed = fl
  BY <1>1
<1> QED
  BY <1>2 DEF sl, tr, fl

\* Filling a batch records at most one product for each of its wires.
LEMMA FillRecords ==
  ASSUME NEW v, NEW vals, IsSeq(pending[v]), IsSeq(triples[v])
  PROVE  /\ IsSeq(FillBatch(v, vals).triples)
         /\ Len(FillBatch(v, vals).triples) <= Len(triples[v]) + Len(pending[v])
<1>1. Len(pending[v]) \in Nat /\ Len(triples[v]) \in Nat
  BY SeqFacts
<1> DEFINE base == [slots |-> slots[v], triples |-> triples[v], failed |-> FALSE]
           pen == pending[v]
           N == Len(pending[v])
           L == Len(triples[v])
<1>2. PICK g : Fills(base, pen, vals, g) /\ FillBatch(v, vals) = g[N]
  BY <1>1, FillBatchIs
<1> DEFINE Bad == {i \in 0 .. N : ~(IsSeq(g[i].triples) /\ Len(g[i].triples) <= L + i)}
<1>3. g[0] = base /\ \A i \in 1 .. N : g[i] = FillSlot(g[i - 1], pen[i], vals[i])
  <2> HIDE DEF base, pen, N
  <2>1. N \in Nat /\ g = [i \in 0 .. N |-> IF i = 0 THEN base ELSE FillSlot(g[i - 1], pen[i], vals[i])]
    BY <1>1, <1>2, SMTT(40), ZenonT(40) DEF Fills, N, pen
  <2> QED
    BY <2>1
<1>4. 0 \notin Bad
  BY <1>1, <1>3
<1>5. ASSUME NEW i \in 1 .. N, i - 1 \notin Bad PROVE i \notin Bad
  <2>1. i - 1 \in 0 .. N
    BY <1>1
  <2>2. IsSeq(g[i - 1].triples) /\ Len(g[i - 1].triples) <= L + (i - 1)
    BY <1>5, <2>1
  <2>3. \/ g[i].triples = g[i - 1].triples
        \/ \E e : g[i].triples = Append(g[i - 1].triples, e)
    <3>1. g[i] = FillSlot(g[i - 1], pen[i], vals[i])
      BY <1>3
    <3> DEFINE f == g[i - 1]  s == pen[i]  val == vals[i]
    <3>2. g[i] = FillSlot(f, s, val)
      BY <3>1
    <3> HIDE DEF f, s, val
    <3>4. FillSlot(f, s, val).triples = IF prog[s].kind # "mult" THEN f.triples
                                        ELSE Append(f.triples, Recording(f, s, val))
      BY ONLY FillSlotParts
    <3>3. \/ g[i].triples = f.triples
          \/ \E e : g[i].triples = Append(f.triples, e)
      BY ONLY <3>2, <3>4
    <3> QED
      BY <3>3 DEF f
  <2> HIDE DEF L, N
  <2>4. L \in Nat /\ Len(g[i - 1].triples) \in Nat /\ i \in Nat
    BY <1>1, <2>2, SeqFacts DEF L, N
  <2>5. CASE g[i].triples = g[i - 1].triples
    BY <2>2, <2>4, <2>5
  <2>6. CASE \E e : g[i].triples = Append(g[i - 1].triples, e)
    <3>1. IsSeq(g[i].triples) /\ Len(g[i].triples) = Len(g[i - 1].triples) + 1
      BY <2>2, <2>6, SeqAppend
    <3> QED
      BY <2>2, <2>4, <3>1
  <2> QED
    BY <2>3, <2>5, <2>6
<1>6. Bad = {}
  <2> SUFFICES ASSUME Bad # {} PROVE FALSE
    OBVIOUS
  <2>1. PICK i \in Bad : \A j \in Bad : i <= j
    <3>1. Bad \subseteq Nat
      BY <1>1
    <3> HIDE DEF Bad
    <3> QED
      BY <3>1, LeastNat
  <2>2. i \in 1 .. N /\ i - 1 \notin Bad
    <3>1. i \in 0 .. N /\ i # 0
      BY <1>4, <2>1
    <3> HIDE DEF Bad, N
    <3>2. i \in 1 .. N /\ ~(i <= i - 1)
      BY <1>1, <3>1 DEF N
    <3> QED
      BY <2>1, <3>2
  <2> QED
    BY <1>5, <2>1, <2>2
<1>7. N \in 0 .. N
  BY <1>1
<1> QED
  BY <1>2, <1>6, <1>7

LEMMA VBatchKeeps == ASSUME WInv, NEW v \in Verifier, VBatch(v) PROVE WInv'
<1>1. PICK vals :
        /\ pc[v] = "batch" /\ UNCHANGED <<prog, pos, hold, seen>>
        /\ slots' = [slots EXCEPT ![v] = FillBatch(v, vals).slots]
        /\ triples' = [triples EXCEPT ![v] = FillBatch(v, vals).triples]
        /\ IF FillBatch(v, vals).failed THEN Goto(v, "error") /\ UNCHANGED <<pending, batches>>
                                        ELSE BatchDone(v, FillBatch(v, vals).triples)
  BY DEF VBatch
<1> DEFINE r == FillBatch(v, vals).triples
<1>2. v \in Party /\ v # Prover /\ Shapes /\ Placed(v) /\ Recorded(v) /\ Held(v)
  BY Sizes DEF WInv
<1>3. ProgOK' /\ Grown
  BY <1>1, SameProg
<1>4. /\ IsSeq(pending[v]) /\ IsSeq(triples[v]) /\ Len(pending[v]) \in Nat /\ Len(triples[v]) \in Nat
      /\ Len(pending[v]) <= k /\ Len(triples[v]) < MultGateBufSz
  <2>1. pending[v] \in Seq(Slot)
    BY <1>2 DEF Shapes
  <2> QED
    BY <1>1, <1>2, <2>1, SeqFacts DEF Recorded, IsSeq
<1>5. IsSeq(r) /\ Len(r) \in Nat /\ Len(r) <= MultGateBufSz + k - 1
  <2>1. IsSeq(r) /\ Len(r) <= Len(triples[v]) + Len(pending[v])
    BY <1>4, FillRecords
  <2> HIDE DEF r
  <2>2. Len(r) \in Nat
    BY <2>1, SeqFacts
  <2> DEFINE a == Len(r)  b == Len(triples[v])  c == Len(pending[v])
  <2>3. a \in Nat /\ b \in Nat /\ c \in Nat /\ a <= b + c /\ c <= k /\ b < MultGateBufSz
    BY <1>4, <2>1, <2>2
  <2> HIDE DEF a, b, c
  <2>4. a <= MultGateBufSz + k - 1
    BY <2>3, Sizes
  <2> QED
    BY <2>1, <2>2, <2>4 DEF a
<1> HIDE DEF r
<1>6. /\ triples'[v] = r /\ DOMAIN triples' = Party /\ DOMAIN slots' = Verifier
      /\ \A o \in Party : o # v => triples'[o] = triples[o]
  BY <1>1, <1>2 DEF Shapes, r
<1>7. CASE Goto(v, "error") /\ UNCHANGED <<pending, batches>>
  <2>1. /\ Placed(v)' /\ Op(v)' = Op(v)
        /\ pc' \in [Party -> Where] /\ pc'[v] = "error" /\ \A o \in Party : o # v => pc'[o] = pc[o]
    BY <1>1, <1>2, <1>7, InCall DEF Where
  <2>2. Shapes' /\ Recorded(v)'
    BY <1>1, <1>2, <1>5, <1>6, <1>7, <2>1 DEF Shapes, Recorded
  <2>3. Held(v)'
    <3>1. IsShared(Op(v))' = IsShared(Op(v))
      BY <2>1 DEF IsShared
    <3> QED
      BY <1>1, <1>2, <1>7, <2>1, <3>1 DEF Held
  <2> QED
    BY <1>1, <1>2, <1>3, <1>6, <1>7, <2>1, <2>2, <2>3, OneMoves
<1>8. CASE BatchDone(v, r)
  <2>1. /\ pending' \in [Party -> Seq(Slot)] /\ pending'[v] = <<>>
        /\ batches' \in [Party -> Nat]
        /\ pc' \in [Party -> Where] /\ pc'[v] = IF CheckDue(r) THEN "com" ELSE "tail"
        /\ \A o \in Party : o # v => UNCHANGED <<pending[o], batches[o], pc[o]>>
    BY <1>2, <1>8, BatchDoneFacts
  <2>2. Shapes'
    BY <1>1, <1>2, <1>6, <2>1 DEF Shapes
  <2>3. Placed(v)'
    BY <1>1, <1>2, <2>1 DEF Placed
  <2>4. Recorded(v)'
    <3>1. pc'[v] = "tail" => Len(r) < MultGateBufSz
      BY <1>5, <2>1, Sizes DEF CheckDue
    <3>2. Len(pending'[v]) = 0
      BY <2>1
    <3> QED
      BY <1>2, <1>5, <1>6, <2>1, <3>1, <3>2, Sizes DEF Recorded
  <2>5. Held(v)'
    BY <2>1, ToSetEmpty DEF Held
  <2> QED
    BY <1>1, <1>2, <1>3, <1>6, <2>1, <2>2, <2>3, <2>4, <2>5, OneMoves
<1> QED
  BY <1>1, <1>7, <1>8 DEF r

\* A verifier goes elsewhere in its call and changes nothing that WInv is about.
LEMMA VGoes ==
  ASSUME WInv, NEW v \in Verifier, NEW w \in {"round", "mesh", "failed"},
         pc[v] \in {"com", "round", "mesh", "open"}, Goto(v, w),
         UNCHANGED <<prog, pos, pending, batches, triples, hold, seen, slots>>
  PROVE  WInv'
<1>1. v \in Party /\ v # Prover /\ Shapes /\ Placed(v) /\ Recorded(v) /\ Held(v)
  BY Sizes DEF WInv
<1>2. /\ ProgOK' /\ Grown /\ Placed(v)' /\ Op(v)' = Op(v)
      /\ pc' \in [Party -> Where] /\ pc'[v] = w /\ \A o \in Party : o # v => pc'[o] = pc[o]
  BY <1>1, InCall DEF Where
<1>3. Shapes' /\ Recorded(v)'
  BY <1>1, <1>2 DEF Shapes, Recorded
<1>4. Held(v)'
  <2>1. IsShared(Op(v))' = IsShared(Op(v))
    BY <1>2 DEF IsShared
  <2> QED
    BY <1>1, <1>2, <2>1 DEF Held
<1> QED
  BY <1>1, <1>2, <1>3, <1>4, OneMoves

LEMMA VCommitKeeps == ASSUME WInv, NEW v \in Verifier, VCommit(v) PROVE WInv'
<1>1. /\ pc[v] = "com" /\ UNCHANGED <<prog, pos, pending, batches, triples, hold, seen, slots>>
      /\ Goto(v, "round") \/ Goto(v, "failed")
  BY DEF VCommit, StartCheck, slotVars
<1> QED
  BY <1>1, VGoes

LEMMA VRoundKeeps == ASSUME WInv, NEW v \in Verifier, VRound(v) PROVE WInv'
<1>1. /\ pc[v] = "round" /\ UNCHANGED <<prog, pos, pending, batches, triples, hold, seen, slots>>
      /\ Goto(v, "mesh") \/ pc' = pc
  BY DEF VRound, slotVars
<1> QED
  BY <1>1, VGoes, Steady

LEMMA VMeshKeeps == ASSUME WInv, NEW v \in Verifier, VMesh(v) PROVE WInv'
<1>1. /\ pc[v] \in {"mesh", "open"} /\ UNCHANGED <<prog, pending, batches, hold, seen, slots>>
      /\ \/ Goto(v, "failed") /\ UNCHANGED <<pos, triples>>
         \/ pc[v] = "mesh" /\ triples' = [triples EXCEPT ![v] = <<>>] /\ Goto(v, "tail") /\ UNCHANGED pos
         \/ pc[v] = "open" /\ Finish(v) /\ UNCHANGED triples
  BY DEF VMesh, slotVars, CheckPassed
<1>2. v \in Party /\ v # Prover /\ Shapes /\ Placed(v) /\ Recorded(v) /\ Held(v)
  BY Sizes DEF WInv
<1>3. ProgOK' /\ Grown
  BY <1>1, SameProg
<1>4. CASE Goto(v, "failed") /\ UNCHANGED <<pos, triples>>
  BY <1>1, <1>4, VGoes
<1>5. CASE pc[v] = "mesh" /\ triples' = [triples EXCEPT ![v] = <<>>] /\ Goto(v, "tail") /\ UNCHANGED pos
  <2>1. /\ Placed(v)' /\ Op(v)' = Op(v)
        /\ pc' \in [Party -> Where] /\ pc'[v] = "tail" /\ \A o \in Party : o # v => pc'[o] = pc[o]
    BY <1>1, <1>2, <1>5, InCall DEF Where
  <2>2. /\ triples'[v] = <<>> /\ DOMAIN triples' = Party
        /\ \A o \in Party : o # v => triples'[o] = triples[o]
    BY <1>2, <1>5 DEF Shapes
  <2>3. Shapes'
    BY <1>1, <1>2, <1>5, <2>1, <2>2 DEF Shapes
  <2>4. Recorded(v)'
    BY <1>1, <1>2, <1>5, <2>1, <2>2, SeqEmpty, Sizes DEF Recorded
  <2>5. Held(v)'
    <3>1. IsShared(Op(v))' = IsShared(Op(v))
      BY <2>1 DEF IsShared
    <3> QED
      BY <1>1, <1>2, <1>5, <2>1, <3>1 DEF Held
  <2> QED
    BY <1>1, <1>2, <1>3, <1>5, <2>1, <2>2, <2>3, <2>4, <2>5, OneMoves
<1>6. CASE pc[v] = "open" /\ Finish(v) /\ UNCHANGED triples
  <2>1. /\ pos' \in [Party -> Nat] /\ pos'[v] = pos[v] + 1 /\ pos[v] \in Nat
        /\ pc' \in [Party -> Where] /\ pc'[v] = "next"
        /\ \A o \in Party : o # v => pos'[o] = pos[o] /\ pc'[o] = pc[o]
    BY <1>2, <1>6, FinishFacts
  <2>2. Shapes'
    BY <1>1, <1>2, <1>6, <2>1 DEF Shapes
  <2>3. Placed(v)'
    <3>1. /\ pos[v] < Len(prog) /\ Len(prog) \in Nat
          /\ prog[pos[v] + 1].kind # "finalize"
      BY <1>2, <1>3, <1>6 DEF Placed, Op, Grown
    <3> QED
      BY <1>1, <2>1, <3>1 DEF Placed
  <2>4. Recorded(v)'
    BY <1>1, <1>2, <1>6, <2>1 DEF Recorded
  <2>5. Held(v)'
    <3>1. ~IsShared(Op(v))
      BY <1>2, <1>6 DEF Placed, IsShared
    <3> QED
      BY <1>1, <1>2, <1>6, <2>1, <3>1 DEF Held
  <2> QED
    BY <1>1, <1>2, <1>3, <1>6, <2>1, <2>2, <2>3, <2>4, <2>5, OneMoves
<1> QED
  BY <1>1, <1>4, <1>5, <1>6

LEMMA VTailKeeps == ASSUME WInv, NEW v \in Verifier, VTail(v) PROVE WInv'
<1>1. /\ pc[v] = "tail" /\ UNCHANGED <<prog, pending, batches, triples>>
      /\ DOMAIN slots' = DOMAIN slots
      /\ IF Op(v).kind = "finalize" /\ triples[v] # <<>> THEN UNCHANGED <<hold, seen>>
         ELSE AfterOp(v, IF IsShared(Op(v)) THEN hold[v] \union {pos[v] + 1} ELSE hold[v])
      /\ \/ /\ Op(v).kind \in {"reveal", "check"} /\ UNCHANGED pos
            /\ Goto(v, "error") \/ Goto(v, "open")
         \/ Op(v).kind = "finalize" /\ FinalCheck(v)
         \/ Op(v).kind \notin {"reveal", "check", "finalize"} /\ Finish(v)
  BY DEF VTail
<1>2. v \in Party /\ v # Prover /\ Shapes /\ Placed(v) /\ Recorded(v) /\ Held(v)
  BY Sizes DEF WInv
<1>3. ProgOK' /\ Grown /\ Len(prog) \in Nat
  BY <1>1, SameProg DEF Grown
<1>4. pos[v] \in Nat /\ pos[v] < Len(prog)
  BY <1>1, <1>2 DEF Placed, Shapes
<1>5. /\ pos' \in [Party -> Nat] /\ pc' \in [Party -> Where]
      /\ \A o \in Party : o # v => pos'[o] = pos[o] /\ pc'[o] = pc[o]
      /\ \/ pos'[v] = pos[v] /\ pc'[v] \in {"error", "open"} /\ Op(v).kind \in {"reveal", "check"}
         \/ /\ pos'[v] = pos[v] /\ pc'[v] = "com" /\ Op(v).kind = "finalize" /\ triples[v] # <<>>
         \/ pos'[v] = pos[v] + 1 /\ pc'[v] = "end" /\ Op(v).kind = "finalize" /\ triples[v] = <<>>
         \/ pos'[v] = pos[v] + 1 /\ pc'[v] = "next" /\ Op(v).kind \notin {"reveal", "check", "finalize"}
  <2>1. CASE Op(v).kind \in {"reveal", "check"} /\ UNCHANGED pos /\ Goto(v, "error")
    BY <1>2, <2>1, GotoFacts DEF Where, Shapes
  <2>2. CASE Op(v).kind \in {"reveal", "check"} /\ UNCHANGED pos /\ Goto(v, "open")
    BY <1>2, <2>2, GotoFacts DEF Where, Shapes
  <2>3. CASE Op(v).kind = "finalize" /\ FinalCheck(v)
    BY <1>2, <2>3, FinalCheckFacts
  <2>4. CASE Op(v).kind \notin {"reveal", "check", "finalize"} /\ Finish(v)
    BY <1>2, <2>4, FinishFacts
  <2> QED
    BY <1>1, <2>1, <2>2, <2>3, <2>4
<1>6. /\ DOMAIN hold' = Verifier /\ DOMAIN seen' = Verifier
      /\ \A o \in Verifier : o # v => hold'[o] = hold[o] /\ seen'[o] = seen[o]
      /\ \/ Op(v).kind = "finalize" /\ triples[v] # <<>> /\ UNCHANGED <<hold, seen>>
         \/ /\ seen'[v] = batches[v] /\ batches[v] # seen[v]
         \/ /\ seen'[v] = batches[v] /\ batches[v] = seen[v]
            /\ hold'[v] = IF IsShared(Op(v)) THEN hold[v] \union {pos[v] + 1} ELSE hold[v]
  BY <1>1, <1>2 DEF AfterOp, Shapes
<1>7. Shapes'
  BY <1>1, <1>2, <1>5, <1>6 DEF Shapes
<1>8. Placed(v)'
  BY <1>1, <1>3, <1>4, <1>5 DEF Placed, Op
<1>9. Recorded(v)'
  BY <1>1, <1>2, <1>5 DEF Recorded
<1>10. Held(v)'
  <2>1. CASE pending[v] = <<>> /\ seen'[v] = batches[v]
    BY <1>1, <2>1, ToSetEmpty DEF Held
  <2>2. CASE Op(v).kind = "finalize" /\ triples[v] # <<>> /\ UNCHANGED <<hold, seen>>
    <3>1. ~IsShared(Op(v)) /\ pc'[v] = "com"
      BY <1>5, <2>2 DEF IsShared
    <3> QED
      BY <1>1, <1>2, <2>2, <3>1 DEF Held
  <2>3. CASE /\ seen'[v] = batches[v]
             /\ hold'[v] = IF IsShared(Op(v)) THEN hold[v] \union {pos[v] + 1} ELSE hold[v]
    <3>1. \A s \in ToSet(pending[v]) : s \in hold'[v]
      BY <1>2, <2>3 DEF Held
    <3> QED
      BY <1>1, <2>3, <3>1 DEF Held
  <2> QED
    BY <1>2, <1>6, <2>1, <2>2, <2>3 DEF Held
<1> QED
  BY <1>1, <1>2, <1>3, <1>5, <1>6, <1>7, <1>8, <1>9, <1>10, OneMoves

LEMMA InitWInv == Init => WInv
<1> SUFFICES ASSUME Init PROVE WInv
  OBVIOUS
<1>1. ProgOK
  BY SeqEmpty DEF Init, ProgOK
<1>2. Shapes
  BY DEF Init, Shapes, Where
<1>3. ASSUME NEW p \in Party PROVE Placed(p) /\ Recorded(p)
  <2>1. pos[p] = 0 /\ pc[p] = "next" /\ pending[p] = <<>> /\ triples[p] = <<>> /\ prog = <<>>
    BY <1>3 DEF Init
  <2>2. Placed(p)
    BY <2>1 DEF Placed
  <2>3. Recorded(p)
    BY <2>1, SeqEmpty, Sizes DEF Recorded
  <2> QED
    BY <2>2, <2>3
<1>4. ASSUME NEW v \in Verifier PROVE Held(v)
  <2>1. pending[v] = <<>> /\ batches[v] = 0 /\ seen[v] = 0
    BY <1>4, Sizes DEF Init
  <2> QED
    BY <2>1, ToSetEmpty DEF Held
<1> QED
  BY <1>1, <1>2, <1>3, <1>4 DEF WInv

LEMMA WStep == WInv /\ [Next]_vars => WInv'
<1> SUFFICES ASSUME WInv, [Next]_vars PROVE WInv'
  OBVIOUS
<1>1. ASSUME NEW p \in Party, PartyStep(p) PROVE WInv'
  <2>1. CASE Pool(p)
    BY <2>1, Steady DEF Pool, RandAuthVal, EnterExtend, LeaveExtend, slotVars
  <2>2. CASE p = Prover /\ PStep
    BY <2>2, PCallKeeps, PBatchKeeps, PCommitKeeps, PRoundKeeps, PTailKeeps DEF PStep
  <2>3. CASE p # Prover /\ VStep(p)
    BY <2>3, Sizes, VCallKeeps, VBatchKeeps, VCommitKeeps, VRoundKeeps, VTailKeeps, VMeshKeeps DEF VStep
  <2> QED
    BY <1>1, <2>1, <2>2, <2>3 DEF PartyStep
<1>2. ASSUME NEW v \in Verifier, SpontaneousWrite(v) PROVE WInv'
  BY <1>2, Steady DEF SpontaneousWrite, slotVars
<1>3. CASE UNCHANGED vars
  BY <1>3, Steady DEF vars, slotVars
<1> QED
  BY <1>1, <1>2, <1>3 DEF Next, Terminated

\* Each party is where the program takes it: in a call or between two, with the
\* wires of a batch not full, held by the calls that made them.
THEOREM WiresInvariance == Spec => []WInv
BY InitWInv, WStep, PTL DEF Spec

\* The buffers of multGateBufSz + k products (prover.h:46-48) never overflow: a
\* check is due as soon as one batch leaves multGateBufSz products behind, and a
\* batch adds no more than k.
THEOREM BufferNeverOverflows == Spec => []BufferSuffices
<1>1. WInv => BufferSuffices
  BY DEF WInv, Recorded, BufferSuffices
<1> QED
  BY <1>1, WiresInvariance, PTL

-----------------------------------------------------------------------------
(* Slots that are alive.                                                   *)

\* al[t]: slot t is in root or is a term of a slot of sl that is alive.
Reaches(root, sl, al) ==
  al = [t \in Slot |-> \/ t \in root
                       \/ \E u \in t + 1 .. MaxCalls : al[u] /\ t \in ToSet(sl[u].lin)]

LEMMA ReachExists == ASSUME NEW root, NEW sl PROVE \E al : Reaches(root, sl, al)
<1> DEFINE rhs(h, t) == \/ t \in root
                        \/ \E u \in t + 1 .. MaxCalls : h[u] /\ t \in ToSet(sl[u].lin)
           D(m) == {t \in Slot : t > MaxCalls - m}
           Upto(m, h) == h = [t \in D(m) |-> rhs(h, t)]
           S == {m \in Nat : ~\E h : Upto(m, h)}
<1>0. MaxCalls \in Nat
  BY Sizes
<1>1. \E h : Upto(0, h)
  <2>1. D(0) = {}
    BY <1>0 DEF Slot
  <2> DEFINE h == [t \in {} |-> TRUE]
  <2>2. h = [t \in D(0) |-> rhs(h, t)]
    <3> HIDE DEF rhs, h
    <3>1. h = [t \in {} |-> TRUE]
      BY DEF h
    <3> QED
      BY <2>1, <3>1
  <2> QED
    BY <2>2
<1>2. ASSUME NEW m \in Nat, NEW h, Upto(m, h) PROVE \E w : Upto(m + 1, w)
  <2> DEFINE w == [t \in D(m + 1) |-> rhs(h, t)]
  <2>0. \A t \in D(m) : t \in D(m + 1)
    BY <1>0 DEF Slot
  <2>1. \A t \in D(m) : w[t] = h[t]
    <3>1. \A t \in D(m) : h[t] = rhs(h, t)
      <4> HIDE DEF rhs, D
      <4>1. h = [t \in D(m) |-> rhs(h, t)]
        BY <1>2
      <4> QED
        BY ONLY <4>1
    <3>2. \A t \in D(m + 1) : w[t] = rhs(h, t)
      <4> HIDE DEF rhs, D
      <4> QED
        OBVIOUS
    <3> HIDE DEF rhs, D, w
    <3> QED
      BY <2>0, <3>1, <3>2
  <2>2. \A t \in D(m + 1) : rhs(h, t) = rhs(w, t)
    <3> SUFFICES ASSUME NEW t \in D(m + 1) PROVE rhs(h, t) = rhs(w, t)
      OBVIOUS
    <3>1. \A u \in t + 1 .. MaxCalls : u \in D(m)
      BY <1>0 DEF Slot
    <3> HIDE DEF w, D
    <3>2. \A u \in t + 1 .. MaxCalls : w[u] = h[u]
      BY <2>1, <3>1
    <3> QED
      BY <3>2
  <2>3. \A t \in D(m + 1) : w[t] = rhs(w, t)
    <3>1. \A t \in D(m + 1) : w[t] = rhs(h, t)
      <4> HIDE DEF rhs, D
      <4> QED
        OBVIOUS
    <3> HIDE DEF w, rhs, D
    <3> QED
      BY <2>2, <3>1
  <2>4. w = [t \in D(m + 1) |-> w[t]]
    <3> HIDE DEF rhs, D
    <3> QED
      OBVIOUS
  <2> HIDE DEF w, rhs, D
  <2>5. w = [t \in D(m + 1) |-> rhs(w, t)]
    BY <2>3, <2>4
  <2> QED
    BY <2>5
<1>3. S = {}
  <2> SUFFICES ASSUME S # {} PROVE FALSE
    OBVIOUS
  <2> HIDE DEF Upto
  <2>1. PICK m \in S : \A y \in S : m <= y
    <3>1. S \subseteq Nat
      OBVIOUS
    <3> HIDE DEF S
    <3> QED
      BY <3>1, LeastNat
  <2>2. m # 0
    BY <1>1
  <2>3. m - 1 \in Nat /\ m - 1 \notin S
    BY <2>1, <2>2
  <2>4. \E h : Upto(m - 1, h)
    BY <2>3
  <2>5. \E w : Upto((m - 1) + 1, w)
    BY <1>2, <2>3, <2>4
  <2> QED
    BY <2>5
<1>4. PICK h : Upto(MaxCalls, h)
  <2> HIDE DEF Upto
  <2> QED
    BY <1>0, <1>3
<1>5. D(MaxCalls) = Slot
  BY <1>0 DEF Slot
<1>6. h = [t \in Slot |-> rhs(h, t)]
  <2> HIDE DEF rhs, D
  <2> QED
    BY <1>4, <1>5
<1> QED
  BY <1>6 DEF Reaches

\* Slots the program, the held slots, the call and the batch of v refer to.
Root(v) ==
  LET now == IF pc[v] \in {"next", "end"} THEN {} ELSE {pos[v] + 1} \union ToSet(Op(v).args)
      captured == UNION {ToSet(prog[s].args) : s \in ToSet(pending[v])}
  IN  Handles(pos[v]) \union hold[v] \union now \union captured

LEMMA RootsAlive == ASSUME NEW v, NEW t \in Slot, t \in Root(v) PROVE t \in Alive(v)
<1> DEFINE root == Root(v)
           sl == slots[v]
           al == CHOOSE h : Reaches(root, sl, h)
<1>1. Reaches(root, sl, al)
  <2> HIDE DEF root, sl
  <2> QED
    BY ReachExists
<1>2. Alive(v) = {x \in Slot : al[x]}
  BY DEF Alive, Root, Reaches
<1>3. al[t]
  <2> HIDE DEF al, sl
  <2>1. t \in root
    OBVIOUS
  <2> HIDE DEF root
  <2>2. al[t] = (t \in root \/ \E u \in t + 1 .. MaxCalls : al[u] /\ t \in ToSet(sl[u].lin))
    BY <1>1 DEF Reaches
  <2> QED
    BY <2>1, <2>2
<1> QED
  BY <1>2, <1>3

\* The raw pointers of the wires of a verifier's batch stay valid until the batch
\* is filled, whatever handles the program gives up: the wires are held by
\* afterOp() from the end of the call that made them (verifier.h:47-49).
THEOREM BatchStaysAlive == Spec => []PendingAlive
<1>1. WInv => PendingAlive
  <2> SUFFICES ASSUME WInv, NEW v \in Verifier, NEW s \in ToSet(pending[v]) PROVE s \in Alive(v)
    BY DEF PendingAlive
  <2>1. s \in Slot
    <3>1. pending[v] \in Seq(Slot)
      BY Sizes DEF WInv, Shapes
    <3> QED
      BY <3>1 DEF ToSet
  <2>2. s \in Root(v)
    BY DEF WInv, Held, Root
  <2> QED
    BY <2>1, <2>2, RootsAlive
<1> QED
  BY <1>1, WiresInvariance, PTL

-----------------------------------------------------------------------------
(* Values.                                                                 *)

LEMMA MaxIn ==
  ASSUME NEW m \in Nat, NEW s \in SUBSET (1 .. m), s # {}
  PROVE  Max(s) \in s
<1> DEFINE S == {m - x : x \in s}
<1>1. S \subseteq Nat /\ S # {}
  <2>1. \A x \in s : m - x \in Nat
    OBVIOUS
  <2>2. PICK x : x \in s
    OBVIOUS
  <2>3. m - x \in S
    BY <2>2
  <2> QED
    BY <2>1, <2>3
<1>2. PICK d \in S : \A e \in S : d <= e
  <2> HIDE DEF S
  <2> QED
    BY <1>1, LeastNat
<1>3. PICK x \in s : d = m - x
  OBVIOUS
<1>4. \A y \in s : x >= y
  <2> SUFFICES ASSUME NEW y \in s PROVE x >= y
    OBVIOUS
  <2>1. m - x <= m - y /\ x \in Int /\ y \in Int
    <3>1. m - y \in S /\ d = m - x
      BY <1>3
    <3>2. d <= m - y
      BY ONLY <1>2, <3>1
    <3> QED
      BY <3>1, <3>2
  <2> QED
    BY <2>1
<1> QED
  BY <1>3, <1>4 DEF Max

\* A linear form depends on the values of its terms only.
LEMMA SameTerms ==
  ASSUME NEW f, NEW h, NEW terms, NEW c, IsSeq(terms),
         \A i \in 1 .. Len(terms) : f[terms[i]] = h[terms[i]]
  PROVE  LinearForm(f, terms, c) = LinearForm(h, terms, c)
<1>1. DOMAIN terms = 1 .. Len(terms) /\ Len(terms) \in Nat
  BY SeqFacts
<1> DEFINE D == DOMAIN terms
           body(v, g, s) == IF s = {} THEN c ELSE Sum(g[s \ {Max(s)}], v[terms[Max(s)]])
<1>2. \A g : [s \in SUBSET D |-> body(f, g, s)] = [s \in SUBSET D |-> body(h, g, s)]
  <2> SUFFICES ASSUME NEW g, NEW s \in SUBSET D PROVE body(f, g, s) = body(h, g, s)
    OBVIOUS
  <2>1. CASE s = {}
    BY <2>1
  <2>2. CASE s # {}
    <3>1. Max(s) \in 1 .. Len(terms)
      BY <1>1, <2>2, MaxIn
    <3> QED
      BY <2>2, <3>1
  <2> QED
    BY <2>1, <2>2
<1>3. LinearForm(f, terms, c) = (CHOOSE g : g = [s \in SUBSET D |-> body(f, g, s)])[D]
  BY DEF LinearForm, FoldLeft, MapThenFoldSet
<1>4. LinearForm(h, terms, c) = (CHOOSE g : g = [s \in SUBSET D |-> body(h, g, s)])[D]
  BY DEF LinearForm, FoldLeft, MapThenFoldSet
<1> DEFINE B(v, g) == [s \in SUBSET D |-> body(v, g, s)]
<1>5. \A g : B(f, g) = B(h, g)
  BY <1>2
<1>6. /\ LinearForm(f, terms, c) = (CHOOSE g : g = B(f, g))[D]
      /\ LinearForm(h, terms, c) = (CHOOSE g : g = B(h, g))[D]
  BY <1>3, <1>4
<1> HIDE DEF B, D
<1>7. (CHOOSE g : g = B(f, g)) = (CHOOSE g : g = B(h, g))
  BY <1>5
<1> QED
  BY <1>6, <1>7

LEMMA ValueFrom ==
  ASSUME ProgOK, NEW s \in 1 .. Len(prog), NEW f, NEW h,
         \A t \in 1 .. s - 1 : f[t] = h[t]
  PROVE  ValueOf(f, s) = ValueOf(h, s)
<1>1. CASE IsLinear(prog[s])
  <2>1. /\ Len(prog) \in Nat /\ CallOK(s)
        /\ prog[s].kind \in {"add", "addc"}
    BY <1>1, SeqFacts DEF ProgOK, IsLinear
  <2>2. \/ \E a \in 1 .. s - 1 : prog[s].args = <<a>>
        \/ \E a, b \in 1 .. s - 1 : prog[s].args = <<a, b>>
    BY <2>1 DEF CallOK
  <2>3. IsSeq(prog[s].args) /\ \A i \in 1 .. Len(prog[s].args) : prog[s].args[i] \in 1 .. s - 1
    <3>1. \A a, b \in 1 .. s - 1 : <<a>> \in Seq(1 .. s - 1) /\ <<a, b>> \in Seq(1 .. s - 1)
      OBVIOUS
    <3>2. prog[s].args \in Seq(1 .. s - 1)
      BY ONLY <2>2, <3>1
    <3> QED
      BY <3>2, ElementOfSeq DEF IsSeq
  <2>4. LinearForm(f, prog[s].args, Const(prog[s])) = LinearForm(h, prog[s].args, Const(prog[s]))
    BY <2>3, SameTerms
  <2> QED
    BY <1>1, <2>4 DEF ValueOf
<1>2. CASE ~IsLinear(prog[s])
  BY <1>2 DEF ValueOf
<1> QED
  BY <1>1, <1>2

LEMMA MeaningExists ==
  ASSUME ProgOK
  PROVE  \E f : f = [s \in DOMAIN prog |-> ValueOf(f, s)]
<1>0. Len(prog) \in Nat /\ DOMAIN prog = 1 .. Len(prog)
  BY SeqFacts DEF ProgOK
<1> DEFINE Upto(m, h) == h = [s \in 1 .. m |-> ValueOf(h, s)]
           S == {m \in 0 .. Len(prog) : ~\E h : Upto(m, h)}
<1>1. \E h : Upto(0, h)
  <2> DEFINE h == [s \in {} |-> 0]
  <2>1. h = [s \in 1 .. 0 |-> ValueOf(h, s)]
    OBVIOUS
  <2> QED
    BY <2>1
<1>2. ASSUME NEW m \in Nat, m < Len(prog), NEW h, Upto(m, h) PROVE \E w : Upto(m + 1, w)
  <2> DEFINE w == [s \in 1 .. m + 1 |-> ValueOf(h, s)]
  <2>1. \A s \in 1 .. m : w[s] = h[s]
    <3>1. \A s \in 1 .. m : h[s] = ValueOf(h, s)
      <4>1. h = [s \in 1 .. m |-> ValueOf(h, s)]
        BY <1>2
      <4> QED
        BY ONLY <4>1
    <3> QED
      BY <3>1
  <2>2. ASSUME NEW s \in 1 .. m + 1 PROVE ValueOf(h, s) = ValueOf(w, s)
    <3>1. \A t \in 1 .. s - 1 : h[t] = w[t]
      BY <2>1
    <3>2. s \in 1 .. Len(prog)
      BY <1>0, <1>2
    <3> HIDE DEF w
    <3> QED
      BY <3>1, <3>2, ValueFrom
  <2>3. \A s \in 1 .. m + 1 : w[s] = ValueOf(w, s)
    <3>1. \A s \in 1 .. m + 1 : w[s] = ValueOf(h, s)
      OBVIOUS
    <3> HIDE DEF w
    <3> QED
      BY <2>2, <3>1
  <2>4. w = [s \in 1 .. m + 1 |-> w[s]]
    OBVIOUS
  <2> HIDE DEF w
  <2>5. w = [s \in 1 .. m + 1 |-> ValueOf(w, s)]
    BY <2>3, <2>4
  <2> QED
    BY <2>5
<1>3. S = {}
  <2> SUFFICES ASSUME S # {} PROVE FALSE
    OBVIOUS
  <2> HIDE DEF Upto
  <2>1. PICK m \in S : \A y \in S : m <= y
    <3>1. S \subseteq Nat
      BY <1>0
    <3> HIDE DEF S
    <3> QED
      BY <3>1, LeastNat
  <2>2. m # 0
    BY <1>1
  <2>3. m - 1 \in Nat /\ m - 1 < Len(prog) /\ m - 1 \notin S
    BY <1>0, <2>1, <2>2
  <2>4. \E h : Upto(m - 1, h)
    BY <1>0, <2>3
  <2>5. \E w : Upto((m - 1) + 1, w)
    BY <1>2, <2>3, <2>4
  <2> QED
    BY <2>5
<1>4. PICK h : Upto(Len(prog), h)
  <2> HIDE DEF Upto
  <2> QED
    BY <1>0, <1>3
<1> QED
  BY <1>0, <1>4

LEMMA MeaningIs ==
  ASSUME ProgOK
  PROVE  \A s \in 1 .. Len(prog) : Meaning[s] = ValueOf(Meaning, s)
<1> DEFINE F == CHOOSE f : f = [s \in DOMAIN prog |-> ValueOf(f, s)]
<1>1. F = [s \in DOMAIN prog |-> ValueOf(F, s)]
  BY MeaningExists
<1>2. Meaning = F
  BY DEF Meaning
<1>3. DOMAIN prog = 1 .. Len(prog)
  BY SeqFacts DEF ProgOK
<1> HIDE DEF F
<1> QED
  BY <1>1, <1>2, <1>3

-----------------------------------------------------------------------------
(* Induction on a set of numbers.                                          *)

LEMMA StepByStep ==
  ASSUME NEW S, NEW m \in Nat, 0 \in S, \A i \in 1 .. m : i - 1 \in S => i \in S
  PROVE  \A i \in 0 .. m : i \in S
<1> DEFINE Bad == {i \in 0 .. m : i \notin S}
<1>1. SUFFICES ASSUME Bad # {} PROVE FALSE
  OBVIOUS
<1>2. PICK i \in Bad : \A j \in Bad : i <= j
  <2>1. Bad \subseteq Nat
    OBVIOUS
  <2> HIDE DEF Bad
  <2> QED
    BY <1>1, <2>1, LeastNat
<1>3. i \in 1 .. m /\ i - 1 \in S
  <2>1. i \in 1 .. m /\ i - 1 \in 0 .. m /\ ~(i <= i - 1)
    BY <1>2
  <2> QED
    BY <1>2, <2>1
<1> QED
  BY <1>2, <1>3

LEMMA FromAllBefore ==
  ASSUME NEW S, NEW m \in Nat, \A i \in 1 .. m : (\A j \in 1 .. i - 1 : j \in S) => i \in S
  PROVE  \A i \in 1 .. m : i \in S
<1> DEFINE Bad == {i \in 1 .. m : i \notin S}
<1>1. SUFFICES ASSUME Bad # {} PROVE FALSE
  OBVIOUS
<1>2. PICK i \in Bad : \A j \in Bad : i <= j
  <2>1. Bad \subseteq Nat
    OBVIOUS
  <2> HIDE DEF Bad
  <2> QED
    BY <1>1, <2>1, LeastNat
<1>3. \A j \in 1 .. i - 1 : j \in S
  <2> SUFFICES ASSUME NEW j \in 1 .. i - 1, j \notin S PROVE FALSE
    OBVIOUS
  <2>1. i \in 1 .. m
    BY <1>2
  <2>2. j \in 1 .. m /\ ~(i <= j)
    BY <2>1
  <2>3. j \in Bad
    BY <2>2
  <2> HIDE DEF Bad
  <2> QED
    BY <1>2, <2>2, <2>3
<1> QED
  BY <1>2, <1>3

-----------------------------------------------------------------------------
(* What the calls made so far mean does not change.                        *)

LEMMA MeaningNow == ProgOK => \A s \in 1 .. Len(prog) : Meaning[s] = ValueOf(Meaning, s)
BY MeaningIs

LEMMA MeaningNext == ProgOK' => (\A s \in 1 .. Len(prog) : Meaning[s] = ValueOf(Meaning, s))'
BY MeaningNow, PTL

LEMMA MeaningStable ==
  ASSUME ProgOK, ProgOK', Grown
  PROVE  \A s \in 1 .. Len(prog) : Meaning'[s] = Meaning[s]
<1> DEFINE m == Meaning
           w == Meaning'
           S == {s \in Int : w[s] = m[s]}
<1>1. Len(prog) \in Nat /\ \A s \in 1 .. Len(prog) : s \in 1 .. Len(prog') /\ prog'[s] = prog[s]
  BY DEF Grown
<1>2. ASSUME NEW s \in 1 .. Len(prog) PROVE m[s] = ValueOf(m, s) /\ w[s] = ValueOf(w, s)
  <2>1. m[s] = ValueOf(m, s)
    BY MeaningNow
  <2>2. w[s] = ValueOf(Meaning, s)'
    BY <1>1, MeaningNext
  <2>3. ValueOf(Meaning, s)' = ValueOf(w, s)
    <3>1. prog'[s] = prog[s]
      BY <1>1
    <3> QED
      BY <3>1 DEF ValueOf, IsShared, IsLinear
  <2> QED
    BY <2>1, <2>2, <2>3
<1> HIDE DEF m, w
<1>3. ASSUME NEW s \in 1 .. Len(prog), \A t \in 1 .. s - 1 : t \in S PROVE s \in S
  <2>1. \A t \in 1 .. s - 1 : w[t] = m[t]
    BY <1>3
  <2>2. ValueOf(w, s) = ValueOf(m, s)
    BY <2>1, ValueFrom
  <2> QED
    BY <1>2, <2>2
<1>4. \A s \in 1 .. Len(prog) : s \in S
  <2> HIDE DEF S
  <2> QED
    BY <1>1, <1>3, FromAllBefore
<1> QED
  BY <1>4 DEF m, w

LEMMA TripleStable ==
  ASSUME ProgOK, ProgOK', Grown, NEW s \in 1 .. Len(prog), prog[s].kind = "mult"
  PROVE  Triple(s)' = Triple(s)
<1>1. prog'[s] = prog[s] /\ CallOK(s) /\ Len(prog) \in Nat
  BY DEF Grown, ProgOK
<1>2. PICK a \in 1 .. s - 1, b \in 1 .. s - 1 : prog[s].args = <<a, b>>
  BY <1>1 DEF CallOK
<1>3. Meaning'[a] = Meaning[a] /\ Meaning'[b] = Meaning[b]
  BY <1>1, MeaningStable
<1> QED
  BY <1>1, <1>2, <1>3 DEF Triple

-----------------------------------------------------------------------------
(* Slots that are resolved late.                                           *)

\* Terms of slots without a value lie before them.
Backward(sl) ==
  \A t \in Slot : ~sl[t].ready =>
    IsSeq(sl[t].lin) /\ \A i \in 1 .. Len(sl[t].lin) : sl[t].lin[i] \in 1 .. t - 1

LateValue(f, sl, t) == IF sl[t].ready THEN sl[t].sh ELSE LinearForm(f, sl[t].lin, sl[t].pub)

LEMMA LateFrom ==
  ASSUME NEW sl, Backward(sl), NEW t \in Slot, NEW f, NEW h,
         \A u \in 1 .. t - 1 : f[u] = h[u]
  PROVE  LateValue(f, sl, t) = LateValue(h, sl, t)
<1>1. CASE sl[t].ready
  BY <1>1 DEF LateValue
<1>2. CASE ~sl[t].ready
  <2>1. IsSeq(sl[t].lin) /\ \A i \in 1 .. Len(sl[t].lin) : f[sl[t].lin[i]] = h[sl[t].lin[i]]
    BY <1>2 DEF Backward
  <2>2. LinearForm(f, sl[t].lin, sl[t].pub) = LinearForm(h, sl[t].lin, sl[t].pub)
    BY <2>1, SameTerms
  <2> QED
    BY <1>2, <2>2 DEF LateValue
<1> QED
  BY <1>1, <1>2

LEMMA LateExists ==
  ASSUME NEW sl, Backward(sl)
  PROVE  \E f : f = [t \in Slot |-> LateValue(f, sl, t)]
<1> DEFINE Upto(m, h) == h = [t \in 1 .. m |-> LateValue(h, sl, t)]
           S == {m \in Int : \E h : Upto(m, h)}
<1>0. MaxCalls \in Nat /\ Slot = 1 .. MaxCalls
  BY Sizes DEF Slot
<1>1. \E h : Upto(0, h)
  <2> DEFINE h == [t \in {} |-> 0]
  <2>1. h = [t \in 1 .. 0 |-> LateValue(h, sl, t)]
    OBVIOUS
  <2> QED
    BY <2>1
<1>2. ASSUME NEW m \in Nat, m < MaxCalls, NEW h, Upto(m, h) PROVE \E w : Upto(m + 1, w)
  <2> DEFINE w == [t \in 1 .. m + 1 |-> LateValue(h, sl, t)]
  <2>1. \A t \in 1 .. m : w[t] = h[t]
    <3>1. \A t \in 1 .. m : h[t] = LateValue(h, sl, t)
      <4>1. h = [t \in 1 .. m |-> LateValue(h, sl, t)]
        BY <1>2
      <4> QED
        BY ONLY <4>1
    <3> QED
      BY <3>1
  <2>2. ASSUME NEW t \in 1 .. m + 1 PROVE LateValue(h, sl, t) = LateValue(w, sl, t)
    <3>1. \A u \in 1 .. t - 1 : h[u] = w[u]
      BY <2>1, SMTT(40), ZenonT(40)
    <3>2. t \in Slot
      BY <1>0, <1>2
    <3> HIDE DEF w
    <3> QED
      BY <3>1, <3>2, LateFrom
  <2>3. \A t \in 1 .. m + 1 : w[t] = LateValue(w, sl, t)
    <3>1. \A t \in 1 .. m + 1 : w[t] = LateValue(h, sl, t)
      OBVIOUS
    <3> HIDE DEF w
    <3> QED
      BY <2>2, <3>1
  <2>4. w = [t \in 1 .. m + 1 |-> w[t]]
    OBVIOUS
  <2> HIDE DEF w
  <2>5. w = [t \in 1 .. m + 1 |-> LateValue(w, sl, t)]
    BY <2>3, <2>4
  <2> QED
    BY <2>5
<1> HIDE DEF Upto
<1>3. ASSUME NEW m \in 1 .. MaxCalls, m - 1 \in S PROVE m \in S
  <2>1. m - 1 \in Nat /\ m - 1 < MaxCalls /\ (m - 1) + 1 = m
    BY <1>0
  <2>2. PICK h : Upto(m - 1, h)
    BY <1>3
  <2>3. \E w : Upto((m - 1) + 1, w)
    BY <1>2, <2>1, <2>2
  <2> QED
    BY <2>1, <2>3
<1>4. 0 \in S
  BY <1>1
<1>5. \A m \in 0 .. MaxCalls : m \in S
  <2> HIDE DEF S
  <2> QED
    BY <1>0, <1>3, <1>4, StepByStep, SMTT(40), ZenonT(40)
<1>6. PICK h : Upto(MaxCalls, h)
  BY <1>0, <1>5
<1> QED
  BY <1>0, <1>6 DEF Upto

\* The slots that resolving s visits.
Visits(vis, sl, s) ==
  vis = [t \in Slot |-> /\ ~sl[t].ready
                        /\ t = s \/ \E u \in t + 1 .. s : t \in ToSet(sl[u].lin) /\ vis[u]]

LEMMA VisitsExist == ASSUME NEW sl, NEW s \in Slot PROVE \E vis : Visits(vis, sl, s)
<1> DEFINE terms(u) == IF sl[u].ready \/ u > s THEN <<>> ELSE sl[u].lin
           sm == [u \in Slot |-> [lin |-> terms(u)]]
           root == {s}
<1>1. PICK al : Reaches(root, sm, al)
  BY ReachExists
<1>2. \A u \in Slot : sm[u].lin = terms(u)
  OBVIOUS
<1>3. \A t \in Slot : al[t] = (t = s \/ \E u \in t + 1 .. MaxCalls : al[u] /\ t \in ToSet(sm[u].lin))
  <2> HIDE DEF sm
  <2> QED
    BY <1>1 DEF Reaches
<1> DEFINE vis == [t \in Slot |-> ~sl[t].ready /\ al[t]]
<1>4. ASSUME NEW t \in Slot, ~sl[t].ready
      PROVE  al[t] = (t = s \/ \E u \in t + 1 .. s : t \in ToSet(sl[u].lin) /\ vis[u])
  <2>1. ASSUME NEW u \in t + 1 .. MaxCalls, al[u], t \in ToSet(sm[u].lin)
        PROVE  u \in t + 1 .. s /\ t \in ToSet(sl[u].lin) /\ vis[u]
    <3>1. u \in Slot /\ t \in ToSet(terms(u))
      BY <1>2, <2>1 DEF Slot
    <3>2. ~sl[u].ready /\ ~(u > s)
      BY <3>1, ToSetEmpty
    <3>3. terms(u) = sl[u].lin
      BY <3>2
    <3>4. u \in t + 1 .. s
      BY <3>1, <3>2 DEF Slot
    <3>5. vis[u]
      BY <2>1, <3>1, <3>2
    <3> QED
      BY <3>1, <3>3, <3>4, <3>5
  <2>2. ASSUME NEW u \in t + 1 .. s, t \in ToSet(sl[u].lin), vis[u]
        PROVE  u \in t + 1 .. MaxCalls /\ al[u] /\ t \in ToSet(sm[u].lin)
    <3>1. u \in Slot /\ u \in t + 1 .. MaxCalls /\ ~(u > s)
      BY Sizes DEF Slot
    <3>2. ~sl[u].ready /\ al[u]
      BY <2>2, <3>1
    <3>3. terms(u) = sl[u].lin
      BY <3>1, <3>2
    <3> QED
      BY <1>2, <2>2, <3>1, <3>2, <3>3
  <2> HIDE DEF vis, sm
  <2> QED
    BY <1>3, <2>1, <2>2
<1>5. \A t \in Slot : vis[t] = (~sl[t].ready /\ (t = s \/ \E u \in t + 1 .. s : t \in ToSet(sl[u].lin) /\ vis[u]))
  <2> SUFFICES ASSUME NEW t \in Slot
               PROVE  vis[t] = (~sl[t].ready /\ (t = s \/ \E u \in t + 1 .. s : t \in ToSet(sl[u].lin) /\ vis[u]))
    OBVIOUS
  <2>1. vis[t] = (~sl[t].ready /\ al[t])
    OBVIOUS
  <2> HIDE DEF vis, sm
  <2> QED
    BY <1>4, <2>1
<1>6. vis = [t \in Slot |-> vis[t]]
  OBVIOUS
<1>7. Visits(vis, sl, s)
  <2> HIDE DEF vis, sm
  <2> QED
    BY <1>5, <1>6 DEF Visits
<1> QED
  BY <1>7

LEMMA UnresolvedFacts ==
  ASSUME NEW sl, NEW s \in Slot
  PROVE  /\ Unresolved(sl, s) \subseteq 1 .. s
         /\ ~sl[s].ready => s \in Unresolved(sl, s)
         /\ \A t \in Unresolved(sl, s) :
              /\ ~sl[t].ready
              /\ t = s \/ \E u \in t + 1 .. s : t \in ToSet(sl[u].lin) /\ u \in Unresolved(sl, s)
<1> DEFINE vis == CHOOSE h : Visits(h, sl, s)
<1>1. Visits(vis, sl, s)
  BY VisitsExist
<1>2. Unresolved(sl, s) = {t \in 1 .. s : vis[t]}
  BY DEF Unresolved, Visits
<1> HIDE DEF vis
<1>3. \A t \in 1 .. s : vis[t] = (~sl[t].ready /\ (t = s \/ \E u \in t + 1 .. s : t \in ToSet(sl[u].lin) /\ vis[u]))
  <2>1. \A t \in Slot : vis[t] = (~sl[t].ready /\ (t = s \/ \E u \in t + 1 .. s : t \in ToSet(sl[u].lin) /\ vis[u]))
    BY <1>1 DEF Visits
  <2>2. \A t \in 1 .. s : t \in Slot
    BY Sizes DEF Slot
  <2> QED
    BY <2>1, <2>2
<1>4. s \in 1 .. s
  BY DEF Slot
<1>5. ASSUME NEW t \in Unresolved(sl, s)
      PROVE  /\ ~sl[t].ready
             /\ t = s \/ \E u \in t + 1 .. s : t \in ToSet(sl[u].lin) /\ u \in Unresolved(sl, s)
  <2>1. t \in 1 .. s /\ vis[t]
    BY <1>2
  <2>2. \A u \in t + 1 .. s : u \in 1 .. s
    BY <2>1
  <2> QED
    BY <1>2, <1>3, <2>1, <2>2
<1> QED
  BY <1>2, <1>3, <1>4, <1>5

-----------------------------------------------------------------------------
(* The slots of a verifier that has made the first m calls, the wires of   *)
(* the calls in S without a value.                                         *)

SlotRight(sl, t, m, S) ==
  /\ sl[t] = [ready |-> sl[t].ready, sh |-> sl[t].sh, lin |-> sl[t].lin, pub |-> sl[t].pub]
  /\ sl[t].ready => t <= m /\ sl[t].sh = Meaning[t]
  /\ ~sl[t].ready =>
       IF t <= m /\ IsLinear(prog[t])
       THEN sl[t].lin = prog[t].args /\ sl[t].pub = Const(prog[t])
       ELSE sl[t].lin = <<>>
  /\ ~sl[t].ready /\ t <= m => prog[t].kind # "pub" /\ (IsShared(prog[t]) => t \in S)

SlotsRight(sl, m, S) == DOMAIN sl = Slot /\ \A t \in Slot : SlotRight(sl, t, m, S)

LEMMA LinearArgs ==
  ASSUME ProgOK, NEW t \in 1 .. Len(prog), IsLinear(prog[t])
  PROVE  /\ IsSeq(prog[t].args) /\ prog[t].args # <<>>
         /\ \A i \in 1 .. Len(prog[t].args) :
              prog[t].args[i] \in 1 .. t - 1 /\ MakesSlot(prog[prog[t].args[i]])
<1>1. Len(prog) \in Nat /\ CallOK(t) /\ prog[t].kind \in {"add", "addc"}
  BY SeqFacts DEF ProgOK, IsLinear
<1>2. \/ \E a \in 1 .. t - 1 : prog[t].args = <<a>> /\ MakesSlot(prog[a])
      \/ \E a, b \in 1 .. t - 1 : prog[t].args = <<a, b>> /\ MakesSlot(prog[a]) /\ MakesSlot(prog[b])
  BY <1>1 DEF CallOK
<1>3. CASE \E a \in 1 .. t - 1 : prog[t].args = <<a>> /\ MakesSlot(prog[a])
  <2>1. PICK a \in 1 .. t - 1 : prog[t].args = <<a>> /\ MakesSlot(prog[a])
    BY <1>3
  <2>2. <<a>> \in Seq(1 .. t - 1) /\ Len(<<a>>) = 1 /\ <<a>>[1] = a /\ <<a>> # <<>>
    OBVIOUS
  <2> QED
    BY <2>1, <2>2 DEF IsSeq
<1>4. CASE \E a, b \in 1 .. t - 1 : prog[t].args = <<a, b>> /\ MakesSlot(prog[a]) /\ MakesSlot(prog[b])
  <2>1. PICK a \in 1 .. t - 1, b \in 1 .. t - 1 :
          prog[t].args = <<a, b>> /\ MakesSlot(prog[a]) /\ MakesSlot(prog[b])
    BY <1>4
  <2>2. /\ <<a, b>> \in Seq(1 .. t - 1) /\ Len(<<a, b>>) = 2 /\ <<a, b>>[1] = a /\ <<a, b>>[2] = b
        /\ <<a, b>> # <<>> /\ \A i \in 1 .. 2 : i = 1 \/ i = 2
    OBVIOUS
  <2> QED
    BY <2>1, <2>2 DEF IsSeq
<1> QED
  BY <1>2, <1>3, <1>4

LEMMA TermsBefore ==
  ASSUME ProgOK, NEW m \in 0 .. Len(prog), NEW S, NEW sl, SlotsRight(sl, m, S)
  PROVE  Backward(sl)
<1> SUFFICES ASSUME NEW t \in Slot, ~sl[t].ready
             PROVE  IsSeq(sl[t].lin) /\ \A i \in 1 .. Len(sl[t].lin) : sl[t].lin[i] \in 1 .. t - 1
  BY DEF Backward
<1>1. SlotRight(sl, t, m, S) /\ Len(prog) \in Nat
  BY SeqFacts DEF SlotsRight, ProgOK
<1>2. CASE t <= m /\ IsLinear(prog[t])
  <2>1. t \in 1 .. Len(prog) /\ sl[t].lin = prog[t].args
    BY <1>1, <1>2 DEF SlotRight, Slot
  <2> QED
    BY <1>2, <2>1, LinearArgs
<1>3. CASE ~(t <= m /\ IsLinear(prog[t]))
  <2>1. sl[t].lin = <<>>
    BY <1>1, <1>3 DEF SlotRight
  <2> QED
    BY <2>1, SeqEmpty
<1> QED
  BY <1>2, <1>3

\* The unready slots visited are linear, and their values those of the program.
LEMMA LateRight ==
  ASSUME ProgOK, NEW m \in 0 .. Len(prog), NEW S, NEW sl, SlotsRight(sl, m, S),
         NEW a \in Slot, a <= m, MakesSlot(prog[a]), \A t \in S : t > a,
         NEW val, val = [t \in Slot |-> LateValue(val, sl, t)]
  PROVE  \A t \in Unresolved(sl, a) : sl[t].lin # <<>> /\ val[t] = Meaning[t]
<1>1. Len(prog) \in Nat /\ a \in Nat /\ a <= Len(prog) /\ \A t \in 1 .. a : t \in Slot /\ t \in 1 .. Len(prog) /\ t <= m
  <2>1. Len(prog) \in Nat /\ a \in 1 .. MaxCalls /\ MaxCalls \in Nat
    BY Sizes, SeqFacts DEF ProgOK, Slot
  <2> QED
    BY <2>1 DEF Slot
<1>2. ASSUME NEW t \in 1 .. a, MakesSlot(prog[t]), ~sl[t].ready
      PROVE  IsLinear(prog[t]) /\ sl[t].lin = prog[t].args /\ sl[t].pub = Const(prog[t])
  <2>1. SlotRight(sl, t, m, S) /\ t <= m /\ t \notin S
    <3>1. ~(t > a)
      BY SMTT(40), ZenonT(40), Z3T(40)
    <3> QED
      BY <1>1, <3>1 DEF SlotsRight
  <2> QED
    BY <1>2, <2>1 DEF SlotRight, MakesSlot
<1> DEFINE G == {t \in Int : MakesSlot(prog[t]) => val[t] = Meaning[t]}
<1>3. ASSUME NEW t \in 1 .. a, \A u \in 1 .. t - 1 : u \in G PROVE t \in G
  <2> SUFFICES ASSUME MakesSlot(prog[t]) PROVE val[t] = Meaning[t]
    OBVIOUS
  <2>1. val[t] = LateValue(val, sl, t) /\ SlotRight(sl, t, m, S)
    <3>1. t \in Slot
      BY <1>1
    <3> QED
      BY <3>1 DEF SlotsRight
  <2>2. CASE sl[t].ready
    BY <2>1, <2>2 DEF LateValue, SlotRight
  <2>3. CASE ~sl[t].ready
    <3>1. IsLinear(prog[t]) /\ val[t] = LinearForm(val, prog[t].args, Const(prog[t]))
      BY <1>2, <2>1, <2>3 DEF LateValue
    <3>2. IsSeq(prog[t].args) /\ \A i \in 1 .. Len(prog[t].args) : val[prog[t].args[i]] = Meaning[prog[t].args[i]]
      BY <1>1, <1>3, <3>1, LinearArgs
    <3>3. val[t] = LinearForm(Meaning, prog[t].args, Const(prog[t]))
      BY <3>1, <3>2, SameTerms
    <3>4. Meaning[t] = ValueOf(Meaning, t)
      BY <1>1, MeaningNow
    <3>5. ~IsShared(prog[t]) /\ prog[t].kind # "pub"
      BY <3>1 DEF IsLinear, IsShared
    <3> QED
      BY <3>1, <3>3, <3>4, <3>5 DEF ValueOf
  <2> QED
    BY <2>2, <2>3
<1>4. \A t \in 1 .. a : t \in G
  <2> HIDE DEF G
  <2> QED
    BY <1>1, <1>3, FromAllBefore
<1>5. ASSUME NEW t \in Unresolved(sl, a) PROVE t \in 1 .. a /\ MakesSlot(prog[t]) /\ ~sl[t].ready
  <2>1. /\ t \in 1 .. a /\ ~sl[t].ready
        /\ t = a \/ \E u \in t + 1 .. a : t \in ToSet(sl[u].lin) /\ u \in Unresolved(sl, a)
    BY UnresolvedFacts
  <2>2. ASSUME NEW u \in t + 1 .. a, t \in ToSet(sl[u].lin), u \in Unresolved(sl, a) PROVE MakesSlot(prog[t])
    <3>1. u \in 1 .. a /\ ~sl[u].ready
      BY <2>2, UnresolvedFacts
    <3>2. SlotRight(sl, u, m, S) /\ u <= m /\ u \in 1 .. Len(prog)
      BY <1>1, <3>1 DEF SlotsRight
    <3>3. sl[u].lin # <<>>
      BY <2>2, ToSetEmpty
    <3>4. IsLinear(prog[u]) /\ sl[u].lin = prog[u].args
      BY <3>1, <3>2, <3>3 DEF SlotRight
    <3>5. \A i \in DOMAIN prog[u].args : MakesSlot(prog[prog[u].args[i]])
      <4>1. ProgOK /\ u \in 1 .. Len(prog) /\ IsLinear(prog[u])
        BY <3>2, <3>4
      <4>2. /\ IsSeq(prog[u].args)
            /\ \A i \in 1 .. Len(prog[u].args) : MakesSlot(prog[prog[u].args[i]])
        BY ONLY <4>1, LinearArgs
      <4>3. DOMAIN prog[u].args = 1 .. Len(prog[u].args)
        BY ONLY <4>2, SeqFacts
      <4> QED
        BY ONLY <4>2, <4>3
    <3> QED
      BY <2>2, <3>4, <3>5 DEF ToSet
  <2> QED
    BY <2>1, <2>2
<1>6. ASSUME NEW t \in Unresolved(sl, a) PROVE sl[t].lin # <<>>
  <2>1. IsLinear(prog[t]) /\ sl[t].lin = prog[t].args /\ t \in 1 .. Len(prog)
    BY <1>1, <1>2, <1>5, SMTT(40), ZenonT(40)
  <2> QED
    BY <2>1, LinearArgs
<1> QED
  BY <1>4, <1>5, <1>6, SMTT(40), ZenonT(40)

LEMMA MaterializeIs ==
  ASSUME NEW sl, NEW a, Backward(sl)
  PROVE  \E val : /\ val = [t \in Slot |-> LateValue(val, sl, t)]
                  /\ Materialize(sl, a) =
                       [t \in Slot |-> IF t \in Unresolved(sl, a)
                          THEN [sl[t] EXCEPT !.ready = TRUE, !.sh = val[t], !.lin = <<>>]
                          ELSE sl[t]]
<1> DEFINE val == CHOOSE f : f = [t \in Slot |-> LateValue(f, sl, t)]
<1>1. val = [t \in Slot |-> LateValue(val, sl, t)]
  BY LateExists
<1>2. Materialize(sl, a) =
        [t \in Slot |-> IF t \in Unresolved(sl, a)
           THEN [sl[t] EXCEPT !.ready = TRUE, !.sh = val[t], !.lin = <<>>]
           ELSE sl[t]]
  BY DEF Materialize, LateValue
<1> QED
  BY <1>1, <1>2

\* Slot a can be resolved: all wires up to a have their values.
Resolvable(sl, a, m, S) ==
  /\ m \in 0 .. Len(prog) /\ SlotsRight(sl, m, S)
  /\ a \in Slot /\ a <= m /\ MakesSlot(prog[a]) /\ \A t \in S : t > a

Settles(sl, a, m, S) ==
  /\ SlotsRight(Materialize(sl, a), m, S) /\ ~Premature(sl, a)
  /\ Materialize(sl, a)[a].ready /\ Materialize(sl, a)[a].sh = Meaning[a]
  /\ \A t \in Slot : sl[t].ready => Materialize(sl, a)[t] = sl[t]

\* Resolving a slot gives it and those it depends on their values (int_fp.h materialize).
LEMMA MaterializeRight ==
  ASSUME ProgOK, NEW m, NEW S, NEW sl, NEW a, Resolvable(sl, a, m, S)
  PROVE  Settles(sl, a, m, S)
<1> DEFINE M == Materialize(sl, a)
           U == Unresolved(sl, a)
<1>0. /\ m \in 0 .. Len(prog) /\ SlotsRight(sl, m, S)
      /\ a \in Slot /\ a <= m /\ MakesSlot(prog[a]) /\ \A t \in S : t > a
  BY DEF Resolvable
<1>1. Backward(sl)
  BY <1>0, TermsBefore
<1>2. PICK val : /\ val = [t \in Slot |-> LateValue(val, sl, t)]
                 /\ M = [t \in Slot |-> IF t \in U
                          THEN [sl[t] EXCEPT !.ready = TRUE, !.sh = val[t], !.lin = <<>>]
                          ELSE sl[t]]
  BY <1>1, MaterializeIs
<1>3. \A t \in U : sl[t].lin # <<>> /\ val[t] = Meaning[t]
  <2>1. val = [t \in Slot |-> LateValue(val, sl, t)]
    BY <1>2
  <2> HIDE DEF M
  <2> QED
    BY <1>0, <2>1, LateRight
<1>4. U \subseteq 1 .. a /\ (~sl[a].ready => a \in U) /\ \A t \in U : ~sl[t].ready
  BY <1>0, UnresolvedFacts
<1>5. ~Premature(sl, a)
  BY <1>3 DEF Premature
<1>6. ASSUME NEW t \in Slot
      PROVE  /\ SlotRight(M, t, m, S)
             /\ t \in U => M[t].ready /\ M[t].sh = Meaning[t]
             /\ t \notin U => M[t] = sl[t]
  <2>1. SlotRight(sl, t, m, S)
    BY <1>0 DEF SlotsRight
  <2>2. CASE t \in U
    <3>1. /\ M[t] = [sl[t] EXCEPT !.ready = TRUE, !.sh = val[t], !.lin = <<>>]
          /\ t <= m /\ val[t] = Meaning[t]
      <4>1. t \in 1 .. a /\ a \in 1 .. MaxCalls /\ m \in Int /\ MaxCalls \in Nat
        BY <1>0, <1>4, <2>2, Sizes, SeqFacts DEF Slot, ProgOK
      <4>2. t <= m
        BY <1>0, <4>1
      <4>3. M[t] = [sl[t] EXCEPT !.ready = TRUE, !.sh = val[t], !.lin = <<>>]
        <5> HIDE DEF M, U
        <5> QED
          BY <1>2, <2>2
      <4> QED
        BY <1>3, <2>2, <4>2, <4>3
    <3>2. M[t] = [ready |-> TRUE, sh |-> Meaning[t], lin |-> <<>>, pub |-> sl[t].pub]
      <4> DEFINE x == sl[t]
      <4>1. x = [ready |-> x.ready, sh |-> x.sh, lin |-> x.lin, pub |-> x.pub]
        BY <2>1 DEF SlotRight
      <4>2. M[t] = [x EXCEPT !.ready = TRUE, !.sh = Meaning[t], !.lin = <<>>]
        BY <3>1
      <4> HIDE DEF x, M
      <4>3. M[t] = [ready |-> TRUE, sh |-> Meaning[t], lin |-> <<>>, pub |-> x.pub]
        BY <4>1, <4>2
      <4> QED
        BY <4>3 DEF x
    <3> HIDE DEF M, U
    <3> QED
      BY <2>2, <3>1, <3>2 DEF SlotRight
  <2>3. CASE t \notin U
    <3>1. M[t] = sl[t]
      <4> HIDE DEF M, U
      <4> QED
        BY <1>2, <2>3
    <3> HIDE DEF M, U
    <3> QED
      BY <2>1, <2>3, <3>1 DEF SlotRight
  <2> QED
    BY <2>2, <2>3
<1>7. DOMAIN M = Slot
  <2> HIDE DEF M, U
  <2> QED
    BY <1>2
<1>8. M[a].ready /\ M[a].sh = Meaning[a]
  <2>1. SlotRight(sl, a, m, S)
    BY <1>0 DEF SlotsRight
  <2> HIDE DEF M, U
  <2> QED
    BY <1>0, <1>4, <1>6, <2>1 DEF SlotRight
<1>9. \A t \in Slot : sl[t].ready => M[t] = sl[t]
  <2> HIDE DEF M, U
  <2> QED
    BY <1>4, <1>6
<1> QED
  BY <1>5, <1>6, <1>7, <1>8, <1>9 DEF SlotsRight, Settles

-----------------------------------------------------------------------------
(* A batch arrives.                                                        *)

\* The products of the slots made[i + 1] to made[j].
Products(made, i, j) == [l \in 1 .. j - i |-> Triple(made[i + l])]

\* How many products are recorded when the i-th wire of a batch has been filled.
Mark(marks, done, i) == IF i = 0 THEN done ELSE marks[i]

\* The products of the batch pen are those that follow the first done of made.
Marked(pen, marks, made, done) ==
  \A i \in 1 .. Len(pen) :
    /\ Mark(marks, done, i) \in Nat
    /\ IF prog[pen[i]].kind = "mult"
       THEN /\ Mark(marks, done, i) = Mark(marks, done, i - 1) + 1
            /\ made[Mark(marks, done, i)] = pen[i]
       ELSE Mark(marks, done, i) = Mark(marks, done, i - 1)

\* A batch consists of wires of calls made, in their order.
Batch(pen, m) ==
  /\ IsSeq(pen)
  /\ \A i \in 1 .. Len(pen) : pen[i] \in Slot /\ pen[i] <= m /\ IsShared(prog[pen[i]])
  /\ \A i, j \in 1 .. Len(pen) : i < j => pen[i] < pen[j]

Rest(pen, i) == {pen[j] : j \in i + 1 .. Len(pen)}

LEMMA ProductsFacts ==
  ASSUME NEW made, NEW i \in Nat, NEW j \in Nat, i <= j
  PROVE  /\ IsSeq(Products(made, i, j)) /\ Len(Products(made, i, j)) = j - i
         /\ DOMAIN Products(made, i, j) = 1 .. j - i
         /\ \A l \in 1 .. j - i : Products(made, i, j)[l] = Triple(made[i + l])
         /\ Append(Products(made, i, j), Triple(made[j + 1])) = Products(made, i, j + 1)
<1> DEFINE s == Products(made, i, j)
           T == {Triple(made[i + l]) : l \in 1 .. j + 1 - i}
<1>1. s \in Seq(T) /\ Triple(made[j + 1]) \in T /\ Len(s) = j - i /\ DOMAIN s = 1 .. j - i
  <2>1. s = [l \in 1 .. j - i |-> Triple(made[i + l])] /\ j - i \in Nat
    BY DEF Products
  <2>2. \A l \in 1 .. j - i : Triple(made[i + l]) \in T
    OBVIOUS
  <2>3. Triple(made[j + 1]) \in T
    <3>1. j + 1 - i \in 1 .. j + 1 - i /\ i + (j + 1 - i) = j + 1
      OBVIOUS
    <3> QED
      BY <3>1
  <2> HIDE DEF T
  <2> QED
    BY <2>1, <2>2, <2>3
<1>2. \A l \in 1 .. j - i : s[l] = Triple(made[i + l])
  BY DEF Products
<1> DEFINE e == Triple(made[j + 1])
           a == Append(s, e)
<1> HIDE DEF s, T, e
<1>3. IsSeq(s) /\ Len(s) = j - i
  BY <1>1 DEF IsSeq
<1>4. /\ IsSeq(a) /\ Len(a) = j + 1 - i /\ a[j + 1 - i] = e
      /\ \A l \in 1 .. j - i : a[l] = s[l]
  <2>1. IsSeq(a) /\ Len(a) = Len(s) + 1 /\ a[Len(s) + 1] = e /\ \A l \in 1 .. Len(s) : a[l] = s[l]
    BY <1>3, SeqAppend
  <2>2. Len(s) = j - i /\ Len(s) + 1 = j + 1 - i
    BY <1>3
  <2> HIDE DEF a
  <2> QED
    BY <2>1, <2>2
<1> HIDE DEF a
<1>5. ASSUME NEW l \in 1 .. j + 1 - i PROVE a[l] = Triple(made[i + l])
  <2>1. CASE l \in 1 .. j - i
    BY <1>2, <1>4, <2>1
  <2>2. CASE l = j + 1 - i
    <3>1. i + l = j + 1
      BY <2>2
    <3> QED
      BY <1>4, <2>2, <3>1 DEF e
  <2> QED
    BY <2>1, <2>2
<1>6. a = [l \in 1 .. j + 1 - i |-> a[l]]
  BY <1>4, SeqFacts
<1>7. a = [l \in 1 .. j + 1 - i |-> Triple(made[i + l])]
  BY <1>5, <1>6
<1>8. a = Products(made, i, j + 1)
  BY <1>7 DEF Products
<1>9. DOMAIN s = 1 .. j - i
  BY <1>1
<1> QED
  BY <1>2, <1>3, <1>8, <1>9 DEF s, a, e

\* The next wire of a batch is s, those in R come after it.
Fillable(f, s, val, m, S, R) ==
  /\ m \in 0 .. Len(prog) /\ SlotsRight(f.slots, m, S) /\ ~f.failed
  /\ s \in Slot /\ s <= m /\ IsShared(prog[s]) /\ val = Meaning[s]
  /\ S \subseteq Int /\ \A t \in S : t >= s /\ (t # s => t \in R)

FilledRight(f, s, val, m, R) ==
  /\ SlotsRight(FillSlot(f, s, val).slots, m, R) /\ ~FillSlot(f, s, val).failed
  /\ FillSlot(f, s, val).triples =
        IF prog[s].kind = "mult" THEN Append(f.triples, Triple(s)) ELSE f.triples

\* Filling the next wire of a batch (verifier.h shareBatch).
LEMMA FillSlotRight ==
  ASSUME ProgOK, NEW m, NEW S, NEW R, NEW f, NEW s, NEW val, Fillable(f, s, val, m, S, R)
  PROVE  FilledRight(f, s, val, m, R)
<1>0. /\ m \in 0 .. Len(prog) /\ SlotsRight(f.slots, m, S) /\ ~f.failed
      /\ s \in Slot /\ s <= m /\ IsShared(prog[s]) /\ val = Meaning[s]
      /\ S \subseteq Int /\ \A t \in S : t >= s /\ (t # s => t \in R)
  BY DEF Fillable
<1>1. s \in 1 .. Len(prog) /\ Len(prog) \in Nat /\ CallOK(s) /\ s <= MaxCalls
  <2>1. Len(prog) \in Nat /\ s \in 1 .. MaxCalls /\ MaxCalls \in Nat
    BY <1>0, Sizes, SeqFacts DEF ProgOK, Slot
  <2> QED
    BY <1>0, <2>1 DEF ProgOK
<1>2. /\ SlotsRight(Resolved(f, s), m, S) /\ ~Fails(f, s)
      /\ prog[s].kind = "mult" => Recording(f, s, val) = Triple(s)
  <2>1. CASE prog[s].kind # "mult"
    BY <1>0, <2>1 DEF Resolved, Fails
  <2>2. CASE prog[s].kind = "mult"
    <3>1. PICK a \in 1 .. s - 1, b \in 1 .. s - 1 :
            prog[s].args = <<a, b>> /\ MakesSlot(prog[a]) /\ MakesSlot(prog[b])
      BY <1>1, <2>2 DEF CallOK
    <3>2. a \in Slot /\ a <= m /\ b \in Slot /\ b <= m
      <4>1. s \in Nat /\ m \in Nat /\ s <= m /\ s <= MaxCalls /\ MaxCalls \in Nat /\ Slot = 1 .. MaxCalls
        BY <1>0, <1>1, Sizes DEF Slot
      <4>2. a \in Nat /\ b \in Nat /\ 1 <= a /\ 1 <= b /\ a < s /\ b < s
        BY <4>1
      <4> QED
        BY <4>1, <4>2
    <3>3. \A t \in S : t > a /\ t > b
      <4> SUFFICES ASSUME NEW t \in S PROVE t > a /\ t > b
        OBVIOUS
      <4>1. t \in Int /\ s \in Int /\ t >= s /\ a \in Int /\ b \in Int /\ a < s /\ b < s
        BY <1>0, <1>1
      <4> QED
        BY <4>1
    <3> DEFINE sl == f.slots
               R1 == Materialize(sl, a)
               R2 == Materialize(R1, b)
    <3>12. /\ Resolvable(f.slots, a, m, S) /\ Resolvable(f.slots, b, m, S)
           /\ \A sm : SlotsRight(sm, m, S) => Resolvable(sm, b, m, S)
      BY <1>0, <3>1, <3>2, <3>3 DEF Resolvable
    <3>13. Settles(sl, a, m, S) /\ Settles(sl, b, m, S)
      BY <3>12, MaterializeRight
    <3> HIDE DEF sl
    <3>4. SlotsRight(R1, m, S) /\ ~Premature(sl, a) /\ R1[a].ready /\ R1[a].sh = Meaning[a]
      BY <3>13 DEF Settles
    <3>5. ~Premature(sl, b)
      BY <3>13 DEF Settles
    <3> HIDE DEF R1
    <3>14. Settles(R1, b, m, S)
      BY <3>4, <3>12, MaterializeRight
    <3>6. SlotsRight(R2, m, S) /\ R2[b].sh = Meaning[b] /\ R2[a] = R1[a]
      BY <3>2, <3>4, <3>14 DEF Settles
    <3>7. Resolved(f, s) = R2
      BY <2>2, <3>1 DEF Resolved, R1, sl
    <3>8. ~Fails(f, s)
      BY <1>0, <3>1, <3>4, <3>5 DEF Fails, sl
    <3>9. val = Unit(s)
      <4>1. Meaning[s] = ValueOf(Meaning, s)
        BY <1>1, MeaningNow
      <4>2. ValueOf(Meaning, s) = Unit(s)
        BY <1>0 DEF ValueOf, IsShared, IsLinear
      <4> QED
        BY <1>0, <4>1, <4>2
    <3>10. Recording(f, s, val) = <<R2[a].sh, R2[b].sh, val>>
      BY <3>1, <3>7 DEF Recording
    <3> HIDE DEF R2
    <3>11. Recording(f, s, val) = Triple(s)
      BY <3>1, <3>4, <3>6, <3>9, <3>10 DEF Triple
    <3> QED
      BY <3>6, <3>7, <3>8, <3>11
  <2> QED
    BY <2>1, <2>2
<1> DEFINE r == Resolved(f, s)
           w == FilledWith(r, s, val)
<1>3. SlotsRight(r, m, S)
  BY <1>2
<1> HIDE DEF r
<1>4. DOMAIN w = Slot /\ w[s] = [r[s] EXCEPT !.ready = TRUE, !.sh = val] /\ \A t \in Slot : t # s => w[t] = r[t]
  BY <1>0, <1>3 DEF FilledWith, SlotsRight
<1> HIDE DEF w
<1>5. SlotRight(w, s, m, R)
  <2>1. r[s] = [ready |-> r[s].ready, sh |-> r[s].sh, lin |-> r[s].lin, pub |-> r[s].pub]
    BY <1>0, <1>3 DEF SlotsRight, SlotRight
  <2>2. w[s] = [ready |-> TRUE, sh |-> val, lin |-> r[s].lin, pub |-> r[s].pub]
    <3> DEFINE x == r[s]
    <3>1. x = [ready |-> x.ready, sh |-> x.sh, lin |-> x.lin, pub |-> x.pub]
      BY <2>1
    <3>2. w[s] = [x EXCEPT !.ready = TRUE, !.sh = val]
      BY <1>4
    <3> HIDE DEF x
    <3>3. w[s] = [ready |-> TRUE, sh |-> val, lin |-> x.lin, pub |-> x.pub]
      BY <3>1, <3>2
    <3> QED
      BY <3>3 DEF x
  <2> QED
    BY <1>0, <2>2 DEF SlotRight
<1>6. ASSUME NEW t \in Slot, t # s PROVE SlotRight(w, t, m, R)
  <2>1. SlotRight(r, t, m, S) /\ w[t] = r[t]
    BY <1>3, <1>4, <1>6 DEF SlotsRight
  <2> QED
    BY <1>0, <1>6, <2>1 DEF SlotRight
<1>7. SlotsRight(w, m, R)
  BY <1>4, <1>5, <1>6 DEF SlotsRight
<1> QED
  BY <1>2, <1>7, FillSlotParts DEF w, r, FilledRight

\* A batch of wires arrives at v with the values the program gives them.
Arriving(v, vals, m, made, marks, done, from) ==
  /\ m \in 0 .. Len(prog) /\ done \in Nat /\ from \in Nat /\ from <= done
  /\ Batch(pending[v], m) /\ SlotsRight(slots[v], m, ToSet(pending[v]))
  /\ \A i \in 1 .. Len(pending[v]) : vals[i] = Meaning[pending[v][i]]
  /\ Marked(pending[v], marks, made, done) /\ triples[v] = Products(made, from, done)
Arrives(v, vals, m, made, marks, done, from) ==
  /\ SlotsRight(FillBatch(v, vals).slots, m, {}) /\ ~FillBatch(v, vals).failed
  /\ FillBatch(v, vals).triples = Products(made, from, Mark(marks, done, Len(pending[v])))

LEMMA FillBatchRight ==
  ASSUME ProgOK, NEW v, NEW vals, NEW m, NEW made, NEW marks, NEW done, NEW from,
         Arriving(v, vals, m, made, marks, done, from)
  PROVE  Arrives(v, vals, m, made, marks, done, from)
<1> /\ m \in 0 .. Len(prog) /\ done \in Nat /\ from \in Nat /\ from <= done
    /\ Batch(pending[v], m) /\ SlotsRight(slots[v], m, ToSet(pending[v]))
    /\ \A i \in 1 .. Len(pending[v]) : vals[i] = Meaning[pending[v][i]]
    /\ Marked(pending[v], marks, made, done) /\ triples[v] = Products(made, from, done)
  BY DEF Arriving
<1> SUFFICES /\ SlotsRight(FillBatch(v, vals).slots, m, {}) /\ ~FillBatch(v, vals).failed
             /\ FillBatch(v, vals).triples = Products(made, from, Mark(marks, done, Len(pending[v])))
  BY DEF Arrives
<1> DEFINE base == [slots |-> slots[v], triples |-> triples[v], failed |-> FALSE]
           pen == pending[v]
           N == Len(pending[v])
           mark(i) == Mark(marks, done, i)
<1>0. N \in Nat
  BY SeqFacts DEF Batch
<1>1. PICK g : Fills(base, pen, vals, g) /\ FillBatch(v, vals) = g[N]
  BY <1>0, FillBatchIs
<1>2. g[0] = base /\ \A i \in 1 .. N : g[i] = FillSlot(g[i - 1], pen[i], vals[i])
  <2> HIDE DEF base, pen
  <2>1. g = [i \in 0 .. N |-> IF i = 0 THEN base ELSE FillSlot(g[i - 1], pen[i], vals[i])]
    BY <1>1, SMTT(40), ZenonT(40) DEF Fills, pen
  <2>2. N \in Nat
    BY <1>0
  <2> HIDE DEF N
  <2>3. g[0] = base
    BY <2>1, <2>2
  <2>4. ASSUME NEW i \in 1 .. N PROVE g[i] = FillSlot(g[i - 1], pen[i], vals[i])
    <3>1. i \in 0 .. N /\ i # 0
      BY <2>2
    <3> QED
      BY ONLY <2>1, <3>1
  <2> QED
    BY <2>3, <2>4
<1> DEFINE Good(i) == /\ SlotsRight(g[i].slots, m, Rest(pen, i)) /\ ~g[i].failed
                      /\ mark(i) \in Nat /\ from <= mark(i)
                      /\ g[i].triples = Products(made, from, mark(i))
           S == {i \in Int : Good(i)}
<1>3. Good(0)
  <2>1. Rest(pen, 0) = ToSet(pen)
    <3>1. DOMAIN pen = 1 .. N
      BY SeqFacts DEF Batch
    <3> QED
      BY <3>1 DEF Rest, ToSet
  <2> QED
    BY <1>2, <2>1 DEF Mark
<1>4. ASSUME NEW i \in 1 .. N, Good(i - 1) PROVE Good(i)
  <2> DEFINE f == g[i - 1]
             s == pen[i]
             val == vals[i]
  <2>1. g[i] = FillSlot(f, s, val) /\ val = Meaning[s]
    BY <1>2
  <2>2. s \in Slot /\ s <= m /\ IsShared(prog[s])
    BY DEF Batch
  <2>3. /\ \A t \in Rest(pen, i - 1) : t >= s
        /\ \A t \in Rest(pen, i - 1) : t # s => t \in Rest(pen, i)
    <3> SUFFICES ASSUME NEW j \in (i - 1) + 1 .. N
                 PROVE  pen[j] >= s /\ (pen[j] # s => pen[j] \in Rest(pen, i))
      BY DEF Rest
    <3>1. CASE j = i
      BY <2>2, <3>1, Sizes DEF Slot
    <3>2. CASE j # i
      <4>1. j \in i + 1 .. N /\ i < j /\ j \in 1 .. N
        BY <1>0, <3>2
      <4>2. pen[i] < pen[j] /\ pen[j] \in Slot
        BY <4>1 DEF Batch
      <4> QED
        BY <2>2, <4>1, <4>2, Sizes, SMTT(40), ZenonT(40) DEF Rest, Slot
    <3> QED
      BY <3>1, <3>2
  <2>4. SlotsRight(f.slots, m, Rest(pen, i - 1)) /\ ~f.failed
    BY <1>4
  <2>8. Rest(pen, i - 1) \subseteq Int
    <3> SUFFICES ASSUME NEW j \in (i - 1) + 1 .. N PROVE pen[j] \in Int
      BY DEF Rest
    <3>1. j \in 1 .. N
      BY <1>0
    <3>2. pen[j] \in Slot
      BY <3>1 DEF Batch
    <3> QED
      BY <3>2, Sizes DEF Slot
  <2> HIDE DEF f, s, val
  <2>9. Fillable(f, s, val, m, Rest(pen, i - 1), Rest(pen, i))
    BY <2>1, <2>2, <2>3, <2>4, <2>8 DEF Fillable
  <2>5. /\ SlotsRight(FillSlot(f, s, val).slots, m, Rest(pen, i)) /\ ~FillSlot(f, s, val).failed
        /\ FillSlot(f, s, val).triples =
              IF prog[s].kind = "mult" THEN Append(f.triples, Triple(s)) ELSE f.triples
    BY <2>9, FillSlotRight DEF FilledRight
  <2>6. /\ mark(i - 1) \in Nat /\ from <= mark(i - 1) /\ mark(i) \in Nat
        /\ f.triples = Products(made, from, mark(i - 1))
        /\ IF prog[s].kind = "mult" THEN mark(i) = mark(i - 1) + 1 /\ made[mark(i)] = s
                                    ELSE mark(i) = mark(i - 1)
    BY <1>4 DEF Marked, f, s
  <2>7. g[i].triples = Products(made, from, mark(i)) /\ from <= mark(i)
    <3> HIDE DEF mark
    <3>1. CASE prog[s].kind = "mult"
      <4>1. Append(Products(made, from, mark(i - 1)), Triple(made[mark(i - 1) + 1]))
              = Products(made, from, mark(i - 1) + 1)
        BY <2>6, ProductsFacts, ZenonT(60), SMTT(40)
      <4>2. mark(i) = mark(i - 1) + 1 /\ made[mark(i - 1) + 1] = s
        BY <2>6, <3>1
      <4> QED
        BY <2>1, <2>5, <2>6, <3>1, <4>1, <4>2, SMTT(40), ZenonT(40)
    <3>2. CASE prog[s].kind # "mult"
      BY <2>1, <2>5, <2>6, <3>2
    <3> QED
      BY <3>1, <3>2
  <2> QED
    BY <2>1, <2>5, <2>6, <2>7
<1>5. \A i \in 0 .. N : i \in S
  <2> HIDE DEF Good
  <2>1. 0 \in S /\ \A i \in 1 .. N : i - 1 \in S => i \in S
    <3>1. 0 \in S
      BY <1>3
    <3>2. ASSUME NEW i \in 1 .. N, i - 1 \in S PROVE i \in S
      <4>1. Good(i - 1) /\ i \in Int
        BY <1>0, <3>2
      <4>2. Good(i)
        BY <1>4, <4>1
      <4> QED
        BY <4>1, <4>2
    <3> QED
      BY <3>1, <3>2
  <2> HIDE DEF S
  <2> QED
    BY <1>0, <2>1, StepByStep
<1>6. Good(N)
  <2>1. N \in 0 .. N
    BY <1>0
  <2> HIDE DEF Good, N
  <2> QED
    BY <1>5, <2>1
<1>7. Rest(pen, N) = {}
  BY <1>0 DEF Rest
<1> QED
  BY <1>1, <1>6, <1>7

-----------------------------------------------------------------------------
(* What a party does depends on the program and on how far it has come,    *)
(* never on what it receives: all parties go through the states of one     *)
(* machine.  made are the products called so far, done of them in batches  *)
(* that are sent, from of them checked; log is what the prover has sent,   *)
(* got what a verifier has received.                                       *)

Fields == {"pos", "pc", "pending", "marks", "batches", "made", "done", "from", "dim", "pool", "ptr",
           "authPtr", "entered", "extends", "log", "got", "trans", "posted"}
IsState(r) == r = [f \in Fields |-> r[f]]

Started ==
  [pos |-> 0, pc |-> "next", pending |-> <<>>, marks |-> <<>>, batches |-> 0, made |-> <<>>,
   done |-> 0, from |-> 0, dim |-> 0, pool |-> <<>>, ptr |-> PreAuthSharingNum,
   authPtr |-> Usable, entered |-> 0, extends |-> 0, log |-> <<>>, got |-> <<>>,
   trans |-> <<>>, posted |-> <<>>]

NeedOf(r) == CASE r.pc = "batch" -> 1
               [] r.pc = "round" -> IF r.dim > CompressParam THEN FoldNeed ELSE LastNeed
               [] OTHER          -> 0
FillingOf(r) == Len(r.pool) < PreAuthSharingNum
StarvedOf(r) == NeedOf(r) > 0 /\ (FillingOf(r) \/ r.ptr + NeedOf(r) > PreAuthSharingNum)
MasksOf(r)   == SubSeq(r.pool, r.ptr + 1, r.ptr + NeedOf(r))

\* What comes next.
Act(r) == IF r.entered > r.extends THEN "leave"
          ELSE IF ~StarvedOf(r) THEN r.pc
          ELSE IF r.authPtr < Usable THEN "rand" ELSE "enter"

\* The messages of the prover.
ExtendMsg   == [kind |-> "extend"]
BatchMsg(r) == [kind |-> "batch", masks |-> MasksOf(r),
                vals |-> [i \in 1 .. k |-> IF i <= Len(r.pending) THEN Meaning[r.pending[i]] ELSE Zero]]
ComMsg(r)   == [kind |-> "com", batches |-> r.batches, nonces |-> r.extends,
                triples |-> Products(r.made, r.from, Len(r.made))]
DiffMsg(r)  == [kind |-> "diff", last |-> r.dim <= CompressParam, masks |-> MasksOf(r)]
ValsMsg(r)  == [kind |-> "vals", val |-> Meaning[prog[r.pos + 1].args[1]]]

RandOf(r) ==
  LET old   == IF FillingOf(r) THEN r.pool ELSE <<>>
      short == PreAuthSharingNum - Len(old)
      left  == Usable - r.authPtr
      take  == IF short < left THEN short ELSE left
  IN  [r EXCEPT !.pool = old \o [l \in 1 .. take |-> (r.extends - 1) * Usable + r.authPtr + l],
                !.authPtr = @ + take, !.ptr = IF take = short THEN 0 ELSE @]
EnterOf(r) == [r EXCEPT !.entered = @ + 1, !.log = Append(@, ExtendMsg)]
LeaveOf(r) == [r EXCEPT !.extends = @ + 1, !.authPtr = 0, !.got = r.log]

NextOf(r) ==
  LET op == prog[r.pos + 1]
      s  == r.pos + 1
      made == IF op.kind = "mult" THEN Append(r.made, s) ELSE r.made
  IN  IF IsShared(op)
      THEN [r EXCEPT !.pending = Append(@, s), !.made = made, !.marks = Append(@, Len(made)),
                     !.pc = IF Len(r.pending) + 1 = k THEN "batch" ELSE "tail"]
      ELSE IF IsFlush(op)
      THEN [r EXCEPT !.pc = IF r.pending # <<>> THEN "batch" ELSE "tail"]
      ELSE [r EXCEPT !.pos = s]

BatchOf(r) ==
  [r EXCEPT !.pending = <<>>, !.marks = <<>>, !.batches = @ + 1, !.done = Len(r.made),
            !.ptr = @ + NeedOf(r), !.log = Append(@, BatchMsg(r)), !.got = Append(r.log, BatchMsg(r)),
            !.pc = IF Len(r.made) - r.from >= MultGateBufSz THEN "com" ELSE "tail"]

CommitOf(r) ==
  [r EXCEPT !.dim = Padded(Len(r.made) - r.from), !.pc = "round", !.trans = <<ComMsg(r)>>,
            !.log = Append(@, ComMsg(r)), !.got = Append(r.log, ComMsg(r))]

Heard(r) == Append(r.trans, [DiffMsg(r) EXCEPT !.masks = TRUE])
RoundOf(r) ==
  LET sent == [r EXCEPT !.ptr = @ + NeedOf(r), !.trans = Heard(r),
                        !.log = Append(@, DiffMsg(r)), !.got = Append(r.log, DiffMsg(r))]
  IN  IF r.dim <= CompressParam
      THEN [sent EXCEPT !.pc = "tail", !.from = Len(r.made),
                        !.posted = Append(@, [saw |-> Heard(r), right |-> TRUE])]
      ELSE [sent EXCEPT !.dim = Padded(@ \div CompressParam)]

Opened(r) == [saw |-> <<Meaning[prog[r.pos + 1].args[1]]>>, right |-> TRUE]
TailOf(r) ==
  LET op == prog[r.pos + 1]
      finished == [r EXCEPT !.pos = @ + 1, !.pc = "next"]
  IN  CASE op.kind = "reveal" ->
             [finished EXCEPT !.log = Append(@, ValsMsg(r)), !.got = Append(r.log, ValsMsg(r)),
                              !.posted = Append(@, Opened(r))]
        [] op.kind = "check" -> [finished EXCEPT !.posted = Append(@, Opened(r))]
        [] op.kind = "finalize" -> IF Len(r.made) > r.from THEN [r EXCEPT !.pc = "com"]
                                   ELSE [finished EXCEPT !.pc = "end"]
        [] OTHER -> finished

Succ(r) == CASE Act(r) = "rand"  -> RandOf(r)
             [] Act(r) = "enter" -> EnterOf(r)
             [] Act(r) = "leave" -> LeaveOf(r)
             [] Act(r) = "next"  -> NextOf(r)
             [] Act(r) = "batch" -> BatchOf(r)
             [] Act(r) = "com"   -> CommitOf(r)
             [] Act(r) = "round" -> RoundOf(r)
             [] Act(r) = "tail"  -> TailOf(r)
             [] OTHER            -> r

LEMMA EnterFields ==
  ASSUME NEW r, IsState(r)
  PROVE  LET q == EnterOf(r)
         IN  /\ IsState(q)
             /\ q.entered = r.entered + 1
             /\ q.log = Append(r.log, ExtendMsg)
             /\ q.pos = r.pos /\ q.pc = r.pc /\ q.pending = r.pending /\ q.marks = r.marks
             /\ q.batches = r.batches /\ q.made = r.made /\ q.done = r.done /\ q.from = r.from
             /\ q.dim = r.dim /\ q.pool = r.pool /\ q.ptr = r.ptr /\ q.authPtr = r.authPtr
             /\ q.extends = r.extends /\ q.got = r.got /\ q.trans = r.trans /\ q.posted = r.posted
BY DEF EnterOf, IsState, Fields

LEMMA LeaveFields ==
  ASSUME NEW r, IsState(r)
  PROVE  LET q == LeaveOf(r)
         IN  /\ IsState(q)
             /\ q.extends = r.extends + 1
             /\ q.authPtr = 0
             /\ q.got = r.log
             /\ q.pos = r.pos /\ q.pc = r.pc /\ q.pending = r.pending /\ q.marks = r.marks
             /\ q.batches = r.batches /\ q.made = r.made /\ q.done = r.done /\ q.from = r.from
             /\ q.dim = r.dim /\ q.pool = r.pool /\ q.ptr = r.ptr /\ q.entered = r.entered
             /\ q.log = r.log /\ q.trans = r.trans /\ q.posted = r.posted
BY DEF LeaveOf, IsState, Fields

LEMMA BatchFields ==
  ASSUME NEW r, IsState(r)
  PROVE  LET q == BatchOf(r)
         IN  /\ IsState(q)
             /\ q.pending = <<>>
             /\ q.marks = <<>>
             /\ q.batches = r.batches + 1
             /\ q.done = Len(r.made)
             /\ q.ptr = r.ptr + NeedOf(r)
             /\ q.log = Append(r.log, BatchMsg(r))
             /\ q.got = Append(r.log, BatchMsg(r))
             /\ q.pc = IF Len(r.made) - r.from >= MultGateBufSz THEN "com" ELSE "tail"
             /\ q.pos = r.pos /\ q.made = r.made /\ q.from = r.from /\ q.dim = r.dim
             /\ q.pool = r.pool /\ q.authPtr = r.authPtr /\ q.entered = r.entered /\ q.extends = r.extends
             /\ q.trans = r.trans /\ q.posted = r.posted
BY ZenonT(60), SMTT(40), Z3T(40) DEF BatchOf, IsState, Fields

LEMMA CommitFields ==
  ASSUME NEW r, IsState(r)
  PROVE  LET q == CommitOf(r)
         IN  /\ IsState(q)
             /\ q.dim = Padded(Len(r.made) - r.from)
             /\ q.pc = "round"
             /\ q.trans = <<ComMsg(r)>>
             /\ q.log = Append(r.log, ComMsg(r))
             /\ q.got = Append(r.log, ComMsg(r))
             /\ q.pos = r.pos /\ q.pending = r.pending /\ q.marks = r.marks /\ q.batches = r.batches
             /\ q.made = r.made /\ q.done = r.done /\ q.from = r.from /\ q.pool = r.pool
             /\ q.ptr = r.ptr /\ q.authPtr = r.authPtr /\ q.entered = r.entered /\ q.extends = r.extends
             /\ q.posted = r.posted
BY ZenonT(60), SMTT(40) DEF CommitOf, IsState, Fields

LEMMA LastRoundFields ==
  ASSUME NEW r, IsState(r), r.dim <= CompressParam
  PROVE  LET q == RoundOf(r)
         IN  /\ IsState(q)
             /\ q.ptr = r.ptr + NeedOf(r)
             /\ q.trans = Heard(r)
             /\ q.log = Append(r.log, DiffMsg(r))
             /\ q.got = Append(r.log, DiffMsg(r))
             /\ q.pc = "tail"
             /\ q.from = Len(r.made)
             /\ q.posted = Append(r.posted, [saw |-> Heard(r), right |-> TRUE])
             /\ q.pos = r.pos /\ q.pending = r.pending /\ q.marks = r.marks /\ q.batches = r.batches
             /\ q.made = r.made /\ q.done = r.done /\ q.dim = r.dim /\ q.pool = r.pool
             /\ q.authPtr = r.authPtr /\ q.entered = r.entered /\ q.extends = r.extends
BY ZenonT(60), SMTT(40), Z3T(40) DEF RoundOf, IsState, Fields

LEMMA FoldFields ==
  ASSUME NEW r, IsState(r), ~(r.dim <= CompressParam)
  PROVE  LET q == RoundOf(r)
         IN  /\ IsState(q)
             /\ q.ptr = r.ptr + NeedOf(r)
             /\ q.trans = Heard(r)
             /\ q.log = Append(r.log, DiffMsg(r))
             /\ q.got = Append(r.log, DiffMsg(r))
             /\ q.dim = Padded(r.dim \div CompressParam)
             /\ q.pos = r.pos /\ q.pc = r.pc /\ q.pending = r.pending /\ q.marks = r.marks
             /\ q.batches = r.batches /\ q.made = r.made /\ q.done = r.done /\ q.from = r.from
             /\ q.pool = r.pool /\ q.authPtr = r.authPtr /\ q.entered = r.entered /\ q.extends = r.extends
             /\ q.posted = r.posted
BY ZenonT(60), SMTT(40) DEF RoundOf, IsState, Fields

LEMMA RevealFields ==
  ASSUME NEW r, IsState(r), prog[r.pos + 1].kind = "reveal"
  PROVE  LET q == TailOf(r)
         IN  /\ IsState(q)
             /\ q.pos = r.pos + 1
             /\ q.pc = "next"
             /\ q.log = Append(r.log, ValsMsg(r))
             /\ q.got = Append(r.log, ValsMsg(r))
             /\ q.posted = Append(r.posted, Opened(r))
             /\ q.pending = r.pending /\ q.marks = r.marks /\ q.batches = r.batches /\ q.made = r.made
             /\ q.done = r.done /\ q.from = r.from /\ q.dim = r.dim /\ q.pool = r.pool
             /\ q.ptr = r.ptr /\ q.authPtr = r.authPtr /\ q.entered = r.entered /\ q.extends = r.extends
             /\ q.trans = r.trans
BY ZenonT(60), SMTT(40), Z3T(40) DEF TailOf, IsState, Fields

LEMMA ExpectFields ==
  ASSUME NEW r, IsState(r), prog[r.pos + 1].kind = "check"
  PROVE  LET q == TailOf(r)
         IN  /\ IsState(q)
             /\ q.pos = r.pos + 1
             /\ q.pc = "next"
             /\ q.posted = Append(r.posted, Opened(r))
             /\ q.pending = r.pending /\ q.marks = r.marks /\ q.batches = r.batches /\ q.made = r.made
             /\ q.done = r.done /\ q.from = r.from /\ q.dim = r.dim /\ q.pool = r.pool
             /\ q.ptr = r.ptr /\ q.authPtr = r.authPtr /\ q.entered = r.entered /\ q.extends = r.extends
             /\ q.log = r.log /\ q.got = r.got /\ q.trans = r.trans
BY ZenonT(60), SMTT(40), Z3T(40) DEF TailOf, IsState, Fields

LEMMA FinalFields ==
  ASSUME NEW r, IsState(r), prog[r.pos + 1].kind = "finalize", Len(r.made) > r.from
  PROVE  LET q == TailOf(r)
         IN  /\ IsState(q)
             /\ q.pc = "com"
             /\ q.pos = r.pos /\ q.pending = r.pending /\ q.marks = r.marks /\ q.batches = r.batches
             /\ q.made = r.made /\ q.done = r.done /\ q.from = r.from /\ q.dim = r.dim
             /\ q.pool = r.pool /\ q.ptr = r.ptr /\ q.authPtr = r.authPtr /\ q.entered = r.entered
             /\ q.extends = r.extends /\ q.log = r.log /\ q.got = r.got /\ q.trans = r.trans
             /\ q.posted = r.posted
BY DEF TailOf, IsState, Fields

LEMMA EndFields ==
  ASSUME NEW r, IsState(r), prog[r.pos + 1].kind = "finalize", ~(Len(r.made) > r.from)
  PROVE  LET q == TailOf(r)
         IN  /\ IsState(q)
             /\ q.pos = r.pos + 1
             /\ q.pc = "end"
             /\ q.pending = r.pending /\ q.marks = r.marks /\ q.batches = r.batches /\ q.made = r.made
             /\ q.done = r.done /\ q.from = r.from /\ q.dim = r.dim /\ q.pool = r.pool
             /\ q.ptr = r.ptr /\ q.authPtr = r.authPtr /\ q.entered = r.entered /\ q.extends = r.extends
             /\ q.log = r.log /\ q.got = r.got /\ q.trans = r.trans /\ q.posted = r.posted
BY ZenonT(60), SMTT(40) DEF TailOf, IsState, Fields

LEMMA ReturnFields ==
  ASSUME NEW r, IsState(r), prog[r.pos + 1].kind \notin {"reveal", "check", "finalize"}
  PROVE  LET q == TailOf(r)
         IN  /\ IsState(q)
             /\ q.pos = r.pos + 1
             /\ q.pc = "next"
             /\ q.pending = r.pending /\ q.marks = r.marks /\ q.batches = r.batches /\ q.made = r.made
             /\ q.done = r.done /\ q.from = r.from /\ q.dim = r.dim /\ q.pool = r.pool
             /\ q.ptr = r.ptr /\ q.authPtr = r.authPtr /\ q.entered = r.entered /\ q.extends = r.extends
             /\ q.log = r.log /\ q.got = r.got /\ q.trans = r.trans /\ q.posted = r.posted
BY ZenonT(60), SMTT(40) DEF TailOf, IsState, Fields

LEMMA ShareFields ==
  ASSUME NEW r, IsState(r), IsShared(prog[r.pos + 1])
  PROVE  LET q == NextOf(r)
         IN  /\ IsState(q)
             /\ q.pending = Append(r.pending, r.pos + 1)
             /\ q.made = IF prog[r.pos + 1].kind = "mult" THEN Append(r.made, r.pos + 1) ELSE r.made
             /\ q.marks = Append(r.marks, Len(IF prog[r.pos + 1].kind = "mult" THEN Append(r.made, r.pos + 1) ELSE r.made))
             /\ q.pc = IF Len(r.pending) + 1 = k THEN "batch" ELSE "tail"
             /\ q.pos = r.pos /\ q.batches = r.batches /\ q.done = r.done /\ q.from = r.from
             /\ q.dim = r.dim /\ q.pool = r.pool /\ q.ptr = r.ptr /\ q.authPtr = r.authPtr
             /\ q.entered = r.entered /\ q.extends = r.extends /\ q.log = r.log /\ q.got = r.got
             /\ q.trans = r.trans /\ q.posted = r.posted
BY ZenonT(60), SMTT(40), Z3T(40) DEF NextOf, IsState, Fields

LEMMA FlushFields ==
  ASSUME NEW r, IsState(r), IsFlush(prog[r.pos + 1]), ~IsShared(prog[r.pos + 1])
  PROVE  LET q == NextOf(r)
         IN  /\ IsState(q)
             /\ q.pc = IF r.pending # <<>> THEN "batch" ELSE "tail"
             /\ q.pos = r.pos /\ q.pending = r.pending /\ q.marks = r.marks /\ q.batches = r.batches
             /\ q.made = r.made /\ q.done = r.done /\ q.from = r.from /\ q.dim = r.dim
             /\ q.pool = r.pool /\ q.ptr = r.ptr /\ q.authPtr = r.authPtr /\ q.entered = r.entered
             /\ q.extends = r.extends /\ q.log = r.log /\ q.got = r.got /\ q.trans = r.trans
             /\ q.posted = r.posted
BY ZenonT(60), SMTT(40) DEF NextOf, IsState, Fields

LEMMA PassFields ==
  ASSUME NEW r, IsState(r), ~IsFlush(prog[r.pos + 1]), ~IsShared(prog[r.pos + 1])
  PROVE  LET q == NextOf(r)
         IN  /\ IsState(q)
             /\ q.pos = r.pos + 1
             /\ q.pc = r.pc /\ q.pending = r.pending /\ q.marks = r.marks /\ q.batches = r.batches
             /\ q.made = r.made /\ q.done = r.done /\ q.from = r.from /\ q.dim = r.dim
             /\ q.pool = r.pool /\ q.ptr = r.ptr /\ q.authPtr = r.authPtr /\ q.entered = r.entered
             /\ q.extends = r.extends /\ q.log = r.log /\ q.got = r.got /\ q.trans = r.trans
             /\ q.posted = r.posted
BY SMTT(40), ZenonT(40) DEF NextOf, IsState, Fields

LEMMA RandFields ==
  ASSUME NEW r, IsState(r)
  PROVE  LET q == RandOf(r)
             old   == IF FillingOf(r) THEN r.pool ELSE <<>>
             short == PreAuthSharingNum - Len(old)
             left  == Usable - r.authPtr
             take  == IF short < left THEN short ELSE left
         IN  /\ IsState(q)
             /\ q.pool = old \o [l \in 1 .. take |-> (r.extends - 1) * Usable + r.authPtr + l]
             /\ q.authPtr = r.authPtr + take /\ q.ptr = IF take = short THEN 0 ELSE r.ptr
             /\ q.pos = r.pos /\ q.pc = r.pc /\ q.pending = r.pending /\ q.marks = r.marks
             /\ q.batches = r.batches /\ q.made = r.made /\ q.done = r.done /\ q.from = r.from
             /\ q.dim = r.dim /\ q.entered = r.entered /\ q.extends = r.extends /\ q.log = r.log
             /\ q.got = r.got /\ q.trans = r.trans /\ q.posted = r.posted
BY ZenonT(60), SMTT(40), Z3T(40) DEF RandOf, IsState, Fields

-----------------------------------------------------------------------------
(* What holds of every state of the machine.                               *)

\* The calls begun.
Upto(r) == r.pos + (IF r.pc \in {"next", "end"} THEN 0 ELSE 1)

Among(x, s) == \E j \in 1 .. Len(s) : s[j] = x

StateType(r) ==
  /\ IsState(r) /\ r.pos \in Nat /\ r.pc \in {"next", "batch", "com", "round", "tail", "end"}
  /\ r.entered \in Nat /\ r.extends \in Nat /\ r.done \in Nat /\ r.from \in Nat
  /\ IsSeq(r.made) /\ IsSeq(r.marks) /\ IsSeq(r.log) /\ IsSeq(r.got) /\ IsSeq(r.trans) /\ IsSeq(r.posted)
  /\ r.from <= r.done /\ r.done <= Len(r.made)

StatePlaced(r) ==
  /\ r.pos <= Len(prog)
  /\ r.pc \notin {"next", "end"} => r.pos < Len(prog)
  /\ r.pc = "end" => r.pos > 0 /\ prog[r.pos].kind = "finalize" /\ r.from = Len(r.made)

\* The batch in progress, and the products it holds.
Queued(r) ==
  /\ Batch(r.pending, Upto(r))
  /\ Len(r.marks) = Len(r.pending) /\ Marked(r.pending, r.marks, r.made, r.done)
  /\ Mark(r.marks, r.done, Len(r.pending)) = Len(r.made)
  /\ \A i \in 1 .. Len(r.marks) : r.marks[i] <= Len(r.made)
Drained(r) ==
  /\ r.pc \in {"com", "round"} => r.pending = <<>>
  /\ r.pc = "tail" /\ IsFlush(prog[r.pos + 1]) => r.pending = <<>>

\* All products of the calls begun, in their order.
AllMade(r) ==
  /\ \A i, j \in 1 .. Len(r.made) : i < j => r.made[i] < r.made[j]
  /\ \A i \in 1 .. Len(r.made) : r.made[i] \in 1 .. Upto(r) /\ prog[r.made[i]].kind = "mult"
  /\ \A s \in 1 .. Upto(r) : prog[s].kind = "mult" => Among(s, r.made)
  /\ \A i \in 1 .. Len(r.made) : Among(r.made[i], r.pending) <=> i > r.done

Extending(r) ==
  IF r.entered > r.extends
  THEN /\ r.entered = r.extends + 1 /\ StarvedOf(r) /\ ~(r.authPtr < Usable)
       /\ r.log = Append(r.got, ExtendMsg)
  ELSE r.entered = r.extends /\ r.got = r.log

\* What the verifiers compare agrees, and nobody finds anything wrong.
Checking(r) ==
  /\ r.pc = "round" =>
       /\ Len(r.trans) >= 1 /\ r.trans[1].triples = Products(r.made, r.from, Len(r.made))
       /\ \A i \in 2 .. Len(r.trans) : r.trans[i].masks
  /\ \A i \in 1 .. Len(r.posted) : r.posted[i].right

Good(r) == /\ StateType(r) /\ StatePlaced(r) /\ Queued(r) /\ Drained(r)
           /\ AllMade(r) /\ Extending(r) /\ Checking(r)

LEMMA QueuedKeeps ==
  ASSUME NEW r, NEW q, StateType(r), Queued(r), q.pending = r.pending, q.marks = r.marks, q.made = r.made,
         q.done = r.done, Upto(q) \in {Upto(r), Upto(r) + 1}
  PROVE  Queued(q)
<1>1. Upto(r) \in Nat
  BY DEF StateType, Upto
<1>2. \A i \in 1 .. Len(r.pending) : r.pending[i] <= Upto(r) /\ r.pending[i] \in Slot
  BY DEF Queued, Batch
<1>3. \A i \in 1 .. Len(r.pending) : r.pending[i] <= Upto(q)
  <2>1. \A s \in Slot : s <= Upto(r) => s <= Upto(q)
    BY <1>1, Sizes DEF Slot
  <2> QED
    BY <1>2, <2>1
<1> QED
  BY <1>3 DEF Queued, Batch

LEMMA AllMadeKeeps ==
  ASSUME NEW r, NEW q, StateType(r), AllMade(r), q.pending = r.pending, q.made = r.made, q.done = r.done,
         Upto(q) = Upto(r) \/ (Upto(q) = Upto(r) + 1 /\ prog[Upto(q)].kind # "mult")
  PROVE  AllMade(q)
<1>1. Upto(r) \in Nat
  BY DEF StateType, Upto
<1>2. \A i \in 1 .. Len(r.made) : r.made[i] \in 1 .. Upto(r) => r.made[i] \in 1 .. Upto(q)
  BY <1>1
<1>3. \A s \in 1 .. Upto(q) : s \in 1 .. Upto(r) \/ prog[s].kind # "mult"
  BY <1>1
<1> QED
  BY <1>2, <1>3 DEF AllMade

LEMMA GoodMeans == ASSUME NEW r, Good(r)
                   PROVE  /\ StateType(r) /\ StatePlaced(r) /\ Queued(r) /\ Drained(r)
                          /\ AllMade(r) /\ Extending(r) /\ Checking(r) /\ IsState(r)
                          /\ IsSeq(r.pending) /\ IsSeq(r.made) /\ IsSeq(r.marks) /\ Len(r.pending) \in Nat
                          /\ Len(r.made) \in Nat /\ Len(r.marks) \in Nat
                          /\ Upto(r) \in Nat
<1>1. IsSeq(r.pending) /\ IsSeq(r.made) /\ IsSeq(r.marks) /\ Upto(r) \in Nat
  BY DEF Good, StateType, Queued, Batch, Upto
<1> QED
  BY <1>1, SeqFacts DEF Good, StateType

\* What a refill or an extend leaves alone.
PoolOnly(r, q) ==
  /\ IsState(q) /\ q.pos = r.pos /\ q.pc = r.pc /\ q.pending = r.pending /\ q.marks = r.marks
  /\ q.made = r.made /\ q.done = r.done /\ q.from = r.from /\ q.trans = r.trans /\ q.posted = r.posted

LEMMA PoolKeeps ==
  ASSUME NEW r, NEW q, Good(r), PoolOnly(r, q), q.entered \in Nat, q.extends \in Nat,
         IsSeq(q.log), IsSeq(q.got), Extending(q)
  PROVE  Good(q)
<1>1. /\ StateType(r) /\ StatePlaced(r) /\ Queued(r) /\ Drained(r) /\ AllMade(r) /\ Checking(r)
  BY DEF Good
<1>2. Upto(q) = Upto(r)
  BY DEF PoolOnly, Upto
<1>3. Queued(q) /\ AllMade(q)
  BY <1>1, <1>2, QueuedKeeps, AllMadeKeeps DEF PoolOnly
<1>4. StateType(q)
  BY <1>1 DEF StateType, PoolOnly
<1>5. StatePlaced(q)
  BY <1>1 DEF StatePlaced, PoolOnly
<1>6. Drained(q)
  BY <1>1 DEF Drained, PoolOnly
<1>7. Checking(q)
  BY <1>1 DEF Checking, PoolOnly
<1> QED
  BY <1>3, <1>4, <1>5, <1>6, <1>7 DEF Good

LEMMA RandGood == ASSUME NEW r, Good(r), Act(r) = "rand" PROVE Good(RandOf(r))
<1>1. StateType(r) /\ Extending(r) /\ IsState(r)
  BY GoodMeans
<1>2. ~(r.entered > r.extends)
  BY DEF Act
<1> DEFINE q == RandOf(r)
<1>3. PoolOnly(r, q) /\ q.entered = r.entered /\ q.extends = r.extends /\ q.log = r.log /\ q.got = r.got
  BY <1>1, RandFields DEF PoolOnly
<1> HIDE DEF q
<1>4. Extending(q)
  BY <1>1, <1>2, <1>3 DEF Extending
<1>5. q.entered \in Nat /\ q.extends \in Nat /\ IsSeq(q.log) /\ IsSeq(q.got)
  BY <1>1, <1>3 DEF StateType
<1> QED
  BY <1>3, <1>4, <1>5, PoolKeeps DEF q

LEMMA EnterGood == ASSUME NEW r, Good(r), Act(r) = "enter" PROVE Good(EnterOf(r))
<1>1. StateType(r) /\ Extending(r) /\ IsState(r) /\ Drained(r)
  BY GoodMeans
<1>2. ~(r.entered > r.extends) /\ StarvedOf(r) /\ ~(r.authPtr < Usable)
  <2>1. r.pc # "enter"
    BY <1>1 DEF StateType
  <2> QED
    BY <2>1 DEF Act
<1> DEFINE q == EnterOf(r)
<1>3. /\ PoolOnly(r, q) /\ q.entered = r.entered + 1 /\ q.extends = r.extends
      /\ q.log = Append(r.log, ExtendMsg) /\ q.got = r.got
      /\ q.dim = r.dim /\ q.pool = r.pool /\ q.ptr = r.ptr /\ q.authPtr = r.authPtr
  BY <1>1, EnterFields DEF PoolOnly
<1> HIDE DEF q
<1>4. r.entered \in Nat /\ r.extends \in Nat /\ IsSeq(r.log) /\ IsSeq(r.got)
  BY <1>1 DEF StateType
<1>5. StarvedOf(q)
  BY <1>2, <1>3 DEF StarvedOf, NeedOf, FillingOf, PoolOnly
<1>6. Extending(q)
  BY <1>1, <1>2, <1>3, <1>4, <1>5, SMTT(40), ZenonT(40) DEF Extending
<1>7. IsSeq(q.log) /\ IsSeq(q.got) /\ q.entered \in Nat /\ q.extends \in Nat
  BY <1>3, <1>4, SeqAppend
<1> QED
  BY <1>3, <1>4, <1>6, <1>7, PoolKeeps DEF q

LEMMA LeaveGood == ASSUME NEW r, Good(r), Act(r) = "leave" PROVE Good(LeaveOf(r))
<1>1. StateType(r) /\ Extending(r) /\ IsState(r)
  BY GoodMeans
<1>2. r.entered > r.extends
  <2>1. r.pc # "leave"
    BY <1>1 DEF StateType
  <2> QED
    BY <2>1 DEF Act
<1> DEFINE q == LeaveOf(r)
<1>3. /\ PoolOnly(r, q) /\ q.entered = r.entered /\ q.extends = r.extends + 1
      /\ q.log = r.log /\ q.got = r.log
  BY <1>1, LeaveFields DEF PoolOnly
<1> HIDE DEF q
<1>4. r.entered \in Nat /\ r.extends \in Nat /\ IsSeq(r.log) /\ IsSeq(r.got)
  BY <1>1 DEF StateType
<1>5. q.entered \in Nat /\ q.extends \in Nat /\ IsSeq(q.log) /\ IsSeq(q.got)
  BY <1>3, <1>4
<1>6. Extending(q)
  BY <1>1, <1>2, <1>3, <1>4 DEF Extending
<1> QED
  BY <1>3, <1>5, <1>6, PoolKeeps DEF q

\* A step without a refill: nothing is under way.
LEMMA Plain ==
  ASSUME NEW r, Good(r), Act(r) \in {"next", "batch", "com", "round", "tail"}
  PROVE  /\ r.pc = Act(r) /\ ~StarvedOf(r) /\ ~(r.entered > r.extends)
         /\ r.entered = r.extends /\ r.got = r.log
<1>1. Extending(r)
  BY DEF Good
<1>2. r.pc = Act(r) /\ ~StarvedOf(r) /\ ~(r.entered > r.extends)
  BY DEF Act
<1> QED
  BY <1>1, <1>2 DEF Extending

LEMMA StillPlain ==
  ASSUME NEW r, NEW q, r.entered = r.extends, r.entered \in Nat,
         q.entered = r.entered, q.extends = r.extends, q.got = q.log
  PROVE  Extending(q)
BY DEF Extending

LEMMA BatchGood == ASSUME ProgOK, NEW r, Good(r), Act(r) = "batch" PROVE Good(BatchOf(r))
<1>1. /\ StateType(r) /\ StatePlaced(r) /\ Queued(r) /\ AllMade(r) /\ Checking(r) /\ IsState(r)
      /\ Len(r.made) \in Nat /\ IsSeq(r.made)
  BY GoodMeans
<1>2. r.pc = "batch" /\ r.entered = r.extends /\ r.got = r.log
  BY Plain
<1> DEFINE q == BatchOf(r)
<1>3. /\ IsState(q) /\ q.pos = r.pos /\ q.pending = <<>> /\ q.marks = <<>>
      /\ q.made = r.made /\ q.done = Len(r.made) /\ q.from = r.from
      /\ q.entered = r.entered /\ q.extends = r.extends
      /\ q.log = Append(r.log, BatchMsg(r)) /\ q.got = q.log /\ q.trans = r.trans /\ q.posted = r.posted
      /\ q.pc \in {"com", "tail"}
  BY <1>1, <1>2, BatchFields, ZenonT(60), SMTT(40)
<1> HIDE DEF q
<1>4. StateType(q)
  <2>1. IsSeq(q.log) /\ IsSeq(q.marks) /\ r.from <= Len(r.made)
    BY <1>1, <1>3, SeqAppend, SeqEmpty DEF StateType
  <2> QED
    BY <1>1, <1>3, <2>1 DEF StateType
<1>5. StatePlaced(q)
  BY <1>1, <1>2, <1>3 DEF StatePlaced
<1>6. Upto(q) = Upto(r)
  BY <1>2, <1>3 DEF Upto
<1>7. Queued(q) /\ Drained(q)
  BY <1>3, SeqEmpty DEF Queued, Batch, Marked, Mark, Drained
<1>8. AllMade(q)
  <2>1. \A i \in 1 .. Len(r.made) : ~Among(r.made[i], <<>>) /\ ~(i > Len(r.made))
    BY <1>1, SeqEmpty DEF Among
  <2> QED
    BY <1>1, <1>3, <1>6, <2>1 DEF AllMade
<1>9. Extending(q)
  BY <1>1, <1>2, <1>3, StillPlain DEF StateType
<1>10. Checking(q)
  BY <1>1, <1>3 DEF Checking
<1> QED
  BY <1>4, <1>5, <1>7, <1>8, <1>9, <1>10 DEF Good, q

LEMMA CommitGood == ASSUME ProgOK, NEW r, Good(r), Act(r) = "com" PROVE Good(CommitOf(r))
<1>1. /\ StateType(r) /\ StatePlaced(r) /\ Queued(r) /\ Drained(r) /\ AllMade(r) /\ Checking(r) /\ IsState(r)
      /\ Len(r.made) \in Nat /\ IsSeq(r.made)
  BY GoodMeans
<1>2. r.pc = "com" /\ r.entered = r.extends /\ r.got = r.log
  BY Plain
<1> DEFINE q == CommitOf(r)
<1>3. /\ IsState(q) /\ q.pos = r.pos /\ q.pending = r.pending /\ q.marks = r.marks
      /\ q.made = r.made /\ q.done = r.done /\ q.from = r.from
      /\ q.entered = r.entered /\ q.extends = r.extends
      /\ q.log = Append(r.log, ComMsg(r)) /\ q.got = q.log /\ q.trans = <<ComMsg(r)>> /\ q.posted = r.posted
      /\ q.pc = "round"
  BY <1>1, <1>2, CommitFields, ZenonT(60), SMTT(40)
<1> HIDE DEF q
<1>4. StateType(q)
  <2>1. IsSeq(q.log) /\ IsSeq(q.trans)
    <3> DEFINE e == ComMsg(r)
    <3> HIDE DEF e
    <3>1. <<e>> \in Seq({e}) /\ IsSeq(r.log)
      BY <1>1 DEF StateType
    <3>2. IsSeq(<<e>>)
      BY <3>1 DEF IsSeq
    <3>3. IsSeq(Append(r.log, e))
      BY <3>1, SeqAppend
    <3> QED
      BY <1>3, <3>2, <3>3 DEF e
  <2> QED
    BY <1>1, <1>3, <2>1 DEF StateType
<1>5. StatePlaced(q)
  BY <1>1, <1>2, <1>3 DEF StatePlaced
<1>6. Upto(q) = Upto(r)
  BY <1>2, <1>3 DEF Upto
<1>7. Queued(q) /\ AllMade(q)
  BY <1>1, <1>3, <1>6, QueuedKeeps, AllMadeKeeps
<1>8. Drained(q)
  BY <1>1, <1>2, <1>3 DEF Drained
<1>9. Extending(q)
  BY <1>1, <1>2, <1>3, StillPlain, SMTT(40), ZenonT(40) DEF StateType
<1>10. Checking(q)
  <2>1. Len(<<ComMsg(r)>>) = 1 /\ <<ComMsg(r)>>[1] = ComMsg(r)
    OBVIOUS
  <2>2. ComMsg(r).triples = Products(r.made, r.from, Len(r.made))
    BY DEF ComMsg
  <2> QED
    BY <1>1, <1>3, <2>1, <2>2 DEF Checking
<1> QED
  BY <1>4, <1>5, <1>7, <1>8, <1>9, <1>10 DEF Good, q

LEMMA RoundGood == ASSUME ProgOK, NEW r, Good(r), Act(r) = "round" PROVE Good(RoundOf(r))
<1>1. /\ StateType(r) /\ StatePlaced(r) /\ Queued(r) /\ Drained(r) /\ AllMade(r) /\ Checking(r) /\ IsState(r)
      /\ Len(r.made) \in Nat /\ IsSeq(r.made) /\ IsSeq(r.trans) /\ IsSeq(r.posted) /\ IsSeq(r.log)
  BY GoodMeans DEF StateType
<1>2. r.pc = "round" /\ r.entered = r.extends /\ r.got = r.log
  BY Plain
<1> DEFINE q == RoundOf(r)
           last == r.dim <= CompressParam
<1>3. /\ IsState(q) /\ q.pos = r.pos /\ q.pending = r.pending /\ q.marks = r.marks
      /\ q.made = r.made /\ q.done = r.done
      /\ q.entered = r.entered /\ q.extends = r.extends
      /\ q.log = Append(r.log, DiffMsg(r)) /\ q.got = q.log /\ q.trans = Heard(r)
      /\ IF last THEN /\ q.pc = "tail" /\ q.from = Len(r.made)
                      /\ q.posted = Append(r.posted, [saw |-> Heard(r), right |-> TRUE])
                 ELSE q.pc = "round" /\ q.from = r.from /\ q.posted = r.posted
  <2>1. CASE last
    BY <1>1, <1>2, <2>1, LastRoundFields, ZenonT(60), SMTT(40)
  <2>2. CASE ~last
    BY <1>1, <1>2, <2>2, FoldFields, ZenonT(60), SMTT(40)
  <2> QED
    BY <2>1, <2>2
<1> HIDE DEF q, last
<1>11. /\ IsSeq(Heard(r)) /\ Len(Heard(r)) = Len(r.trans) + 1 /\ Len(r.trans) \in Nat
       /\ \A i \in 1 .. Len(r.trans) : Heard(r)[i] = r.trans[i]
       /\ Heard(r)[Len(r.trans) + 1].masks
  <2>1. [DiffMsg(r) EXCEPT !.masks = TRUE].masks
    BY DEF DiffMsg
  <2> QED
    BY <1>1, <2>1, SeqAppend, SeqFacts DEF Heard
<1>12. r.done = Len(r.made)
  <2>1. r.pending = <<>>
    BY <1>1, <1>2 DEF Drained
  <2> QED
    BY <1>1, <2>1, SeqEmpty DEF Queued, Mark
<1>4. StateType(q)
  <2>1. IsSeq(q.log) /\ IsSeq(q.trans) /\ IsSeq(q.posted)
    <3> DEFINE e == DiffMsg(r)
               w == [saw |-> Heard(r), right |-> TRUE]
    <3> HIDE DEF e, w
    <3>1. IsSeq(q.log)
      <4>1. q.log = Append(r.log, e) /\ IsSeq(r.log)
        BY <1>1, <1>3 DEF e
      <4> QED
        BY <4>1, SeqAppend
    <3>2. IsSeq(q.trans)
      BY <1>3, <1>11
    <3>3. IsSeq(q.posted)
      <4>1. q.posted = Append(r.posted, w) \/ q.posted = r.posted
        BY <1>3 DEF w
      <4>2. IsSeq(Append(r.posted, w)) /\ IsSeq(r.posted)
        <5>1. IsSeq(r.posted)
          BY ONLY <1>1
        <5> QED
          BY ONLY <5>1, SeqAppend
      <4> QED
        BY ONLY <4>1, <4>2
    <3> QED
      BY <3>1, <3>2, <3>3
  <2>2. q.from \in Nat /\ q.from <= q.done
    BY <1>1, <1>3, <1>12 DEF StateType
  <2>3. q.pc \in {"tail", "round"}
    BY <1>3
  <2> QED
    BY <1>1, <1>3, <2>1, <2>2, <2>3 DEF StateType
<1>5. StatePlaced(q)
  BY <1>1, <1>2, <1>3 DEF StatePlaced
<1>6. Upto(q) = Upto(r)
  BY <1>2, <1>3 DEF Upto
<1>7. Queued(q) /\ AllMade(q)
  BY <1>1, <1>3, <1>6, QueuedKeeps, AllMadeKeeps
<1>8. Drained(q)
  BY <1>1, <1>2, <1>3 DEF Drained
<1>9. Extending(q)
  BY <1>1, <1>2, <1>3, StillPlain DEF StateType
<1>10. Checking(q)
  <2>1. q.pc = "round" =>
          /\ Len(q.trans) >= 1 /\ q.trans[1].triples = Products(q.made, q.from, Len(q.made))
          /\ \A i \in 2 .. Len(q.trans) : q.trans[i].masks
    <3>1. /\ Len(r.trans) >= 1 /\ r.trans[1].triples = Products(r.made, r.from, Len(r.made))
          /\ \A i \in 2 .. Len(r.trans) : r.trans[i].masks
      BY <1>1, <1>2 DEF Checking
    <3>2. Len(Heard(r)) >= 1 /\ Heard(r)[1] = r.trans[1]
      BY <1>11, <3>1
    <3>3. ASSUME NEW i \in 2 .. Len(Heard(r)) PROVE Heard(r)[i].masks
      <4>1. i \in 2 .. Len(r.trans) \/ i = Len(r.trans) + 1
        BY <1>11
      <4>2. CASE i \in 2 .. Len(r.trans)
        BY <1>11, <3>1, <4>2
      <4> QED
        BY <1>11, <4>1, <4>2
    <3> QED
      BY <1>3, <3>1, <3>2, <3>3
  <2>2. ASSUME NEW i \in 1 .. Len(q.posted) PROVE q.posted[i].right
    <3>1. \A j \in 1 .. Len(r.posted) : r.posted[j].right
      BY <1>1 DEF Checking
    <3>2. CASE last
      <4> DEFINE e == [saw |-> Heard(r), right |-> TRUE]
      <4>1. e.right
        OBVIOUS
      <4> HIDE DEF e
      <4>2. q.posted = Append(r.posted, e)
        BY <1>3, <3>2 DEF e
      <4>3. /\ Len(q.posted) = Len(r.posted) + 1 /\ q.posted[Len(r.posted) + 1] = e /\ Len(r.posted) \in Nat
            /\ \A j \in 1 .. Len(r.posted) : q.posted[j] = r.posted[j]
        BY <1>1, <4>2, SeqAppend, SeqFacts
      <4>4. i \in 1 .. Len(r.posted) \/ i = Len(r.posted) + 1
        BY <4>3
      <4> QED
        BY <3>1, <4>1, <4>3, <4>4
    <3>3. CASE ~last
      BY <1>3, <3>1, <3>3
    <3> QED
      BY <3>2, <3>3
  <2> QED
    BY <2>1, <2>2 DEF Checking
<1> QED
  BY <1>4, <1>5, <1>7, <1>8, <1>9, <1>10 DEF Good, q

LEMMA AmongAppend ==
  ASSUME NEW s, NEW e, NEW x, IsSeq(s)
  PROVE  Among(x, Append(s, e)) <=> (Among(x, s) \/ x = e)
<1>1. /\ Len(s) \in Nat /\ Len(Append(s, e)) = Len(s) + 1
      /\ \A i \in 1 .. Len(s) : Append(s, e)[i] = s[i]
      /\ Append(s, e)[Len(s) + 1] = e
  BY SeqFacts, SeqAppend
<1>2. ASSUME Among(x, Append(s, e)) PROVE Among(x, s) \/ x = e
  <2>1. PICK j \in 1 .. Len(s) + 1 : Append(s, e)[j] = x
    BY <1>1, <1>2 DEF Among
  <2>2. j \in 1 .. Len(s) \/ j = Len(s) + 1
    BY <1>1
  <2> QED
    BY <1>1, <2>1, <2>2 DEF Among
<1>3. ASSUME Among(x, s) PROVE Among(x, Append(s, e))
  <2>1. PICK j \in 1 .. Len(s) : s[j] = x
    BY <1>3 DEF Among
  <2>2. j \in 1 .. Len(Append(s, e)) /\ Append(s, e)[j] = x
    BY <1>1, <2>1
  <2> QED
    BY <2>2 DEF Among
<1>4. Among(e, Append(s, e))
  <2>1. Len(s) + 1 \in 1 .. Len(Append(s, e))
    BY <1>1
  <2> QED
    BY <1>1, <2>1 DEF Among
<1> QED
  BY <1>2, <1>3, <1>4

\* A wire joins the batch, and if it is a product what is to be checked.
LEMMA ShareQueued ==
  ASSUME NEW r, NEW q, Good(r), Upto(r) = r.pos, Upto(q) = r.pos + 1, r.pos + 1 \in Slot,
         IsShared(prog[r.pos + 1]), q.pending = Append(r.pending, r.pos + 1), q.done = r.done,
         q.made = IF prog[r.pos + 1].kind = "mult" THEN Append(r.made, r.pos + 1) ELSE r.made,
         q.marks = Append(r.marks, Len(q.made))
  PROVE  Queued(q) /\ AllMade(q)
<1> DEFINE s == r.pos + 1
           L == Len(r.pending)
           M == Len(r.made)
<1>1. /\ Queued(r) /\ AllMade(r) /\ IsSeq(r.pending) /\ IsSeq(r.made) /\ IsSeq(r.marks)
      /\ L \in Nat /\ M \in Nat /\ r.pos \in Nat /\ r.done \in Nat /\ r.done <= M
      /\ Len(r.marks) = L
  BY GoodMeans DEF Queued, StateType
<1>2. /\ IsSeq(q.pending) /\ Len(q.pending) = L + 1 /\ q.pending[L + 1] = s
      /\ \A i \in 1 .. L : q.pending[i] = r.pending[i]
  BY <1>1, SeqAppend
<1>3. /\ IsSeq(q.marks) /\ Len(q.marks) = L + 1 /\ q.marks[L + 1] = Len(q.made)
      /\ \A i \in 1 .. L : q.marks[i] = r.marks[i]
  <2> DEFINE e == Len(q.made)
  <2>1. q.marks = Append(r.marks, e)
    OBVIOUS
  <2> HIDE DEF e
  <2> QED
    <3>1. IsSeq(r.marks) /\ Len(r.marks) = L
      BY <1>1
    <3>2. /\ IsSeq(Append(r.marks, e)) /\ Len(Append(r.marks, e)) = L + 1
          /\ \A i \in 1 .. L : Append(r.marks, e)[i] = r.marks[i]
          /\ Append(r.marks, e)[L + 1] = e
      BY ONLY <3>1, SeqAppend
    <3> QED
      BY <2>1, <3>2 DEF e
<1>4. /\ IsSeq(q.made) /\ Len(q.made) \in Nat /\ Len(q.made) \in {M, M + 1}
      /\ \A i \in 1 .. M : q.made[i] = r.made[i]
      /\ IF prog[s].kind = "mult" THEN Len(q.made) = M + 1 /\ q.made[M + 1] = s
                                  ELSE Len(q.made) = M
  BY <1>1, SeqAppend, SMTT(40), ZenonT(40)
<1>5. /\ \A i \in 1 .. L : r.pending[i] \in Slot /\ r.pending[i] < s /\ IsShared(prog[r.pending[i]])
      /\ \A i, j \in 1 .. L : i < j => r.pending[i] < r.pending[j]
  <2>1. \A x \in Slot : x <= r.pos => x < s
    BY <1>1, Sizes DEF Slot
  <2> QED
    BY <1>1, <2>1 DEF Queued, Batch
<1> HIDE DEF s, L, M
<1>6. Batch(q.pending, s)
  <2>1. s \in Slot /\ s <= s /\ IsShared(prog[s])
    BY <1>1 DEF s
  <2>2. ASSUME NEW i \in 1 .. L + 1 PROVE q.pending[i] \in Slot /\ q.pending[i] <= s /\ IsShared(prog[q.pending[i]])
    <3>1. i \in 1 .. L \/ i = L + 1
      BY <1>1
    <3>2. \A x \in Slot : x < s => x <= s
      BY <2>1, Sizes DEF Slot
    <3> QED
      BY <1>2, <1>5, <2>1, <3>1, <3>2
  <2>3. ASSUME NEW i \in 1 .. L + 1, NEW j \in 1 .. L + 1, i < j PROVE q.pending[i] < q.pending[j]
    <3>0. L \in Nat /\ i \in Nat /\ j \in Nat /\ 1 <= i /\ 1 <= j /\ j <= L + 1 /\ i < j
      BY <1>1, <2>3
    <3>1. i \in 1 .. L /\ (j \in 1 .. L \/ j = L + 1)
      BY ONLY <3>0
    <3> QED
      BY <1>2, <1>5, <2>3, <3>1
  <2> QED
    BY <1>2, <2>2, <2>3 DEF Batch
<1>7. \A i \in 0 .. L : Mark(q.marks, q.done, i) = Mark(r.marks, r.done, i)
  <2>1. \A i \in 0 .. L : i = 0 \/ i \in 1 .. L
    BY <1>1
  <2> QED
    BY <1>3, <2>1 DEF Mark
<1>8. Mark(r.marks, r.done, L) = M /\ \A i \in 1 .. L : r.marks[i] <= M
  BY <1>1 DEF Queued, L, M
<1>9. \A i \in 0 .. L : Mark(r.marks, r.done, i) \in Nat
  <2>1. \A i \in 0 .. L : i = 0 \/ i \in 1 .. L
    BY <1>1
  <2> QED
    BY <1>1, <2>1 DEF Queued, Marked, Mark, L
<1>10. Marked(q.pending, q.marks, q.made, q.done)
  <2>1. ASSUME NEW i \in 1 .. L + 1
        PROVE  /\ Mark(q.marks, q.done, i) \in Nat
               /\ IF prog[q.pending[i]].kind = "mult"
                  THEN /\ Mark(q.marks, q.done, i) = Mark(q.marks, q.done, i - 1) + 1
                       /\ q.made[Mark(q.marks, q.done, i)] = q.pending[i]
                  ELSE Mark(q.marks, q.done, i) = Mark(q.marks, q.done, i - 1)
    <3>1. i \in 1 .. L \/ i = L + 1
      BY <1>1
    <3>2. CASE i \in 1 .. L
      <4>1. i - 1 \in 0 .. L /\ i \in 0 .. L /\ i # 0
        <5>1. L \in Nat
          BY <1>1
        <5> QED
          BY ONLY <3>2, <5>1
      <4>2. IF prog[r.pending[i]].kind = "mult"
            THEN /\ Mark(r.marks, r.done, i) = Mark(r.marks, r.done, i - 1) + 1
                 /\ r.made[Mark(r.marks, r.done, i)] = r.pending[i]
            ELSE Mark(r.marks, r.done, i) = Mark(r.marks, r.done, i - 1)
        BY <1>1, <3>2 DEF Queued, Marked, L
      <4>3. Mark(r.marks, r.done, i) <= M
        BY <1>8, <3>2, <4>1 DEF Mark
      <4>4. Mark(r.marks, r.done, i - 1) \in Nat /\ Mark(r.marks, r.done, i) \in Nat
        BY <1>9, <4>1
      <4>5. prog[r.pending[i]].kind = "mult" => Mark(r.marks, r.done, i) \in 1 .. M
        BY <1>1, <4>2, <4>3, <4>4
      <4>6. prog[r.pending[i]].kind = "mult" => q.made[Mark(r.marks, r.done, i)] = r.made[Mark(r.marks, r.done, i)]
        BY <1>4, <4>5
      <4>7. q.pending[i] = r.pending[i]
        BY <1>2, <3>2
      <4> QED
        BY <1>7, <4>1, <4>2, <4>4, <4>6, <4>7
    <3>3. CASE i = L + 1
      <4>1. Mark(q.marks, q.done, i) = Len(q.made)
        BY <1>1, <1>3, <3>3 DEF Mark
      <4>2. i - 1 = L /\ L \in 0 .. L
        BY <1>1, <3>3
      <4>3. Mark(q.marks, q.done, i - 1) = M
        BY <1>7, <1>8, <4>2
      <4> QED
        BY <1>2, <1>4, <3>3, <4>1, <4>3
    <3> QED
      BY <3>1, <3>2, <3>3
  <2> QED
    BY <1>2, <2>1 DEF Marked
<1>11. \A i \in 1 .. Len(q.marks) : q.marks[i] <= Len(q.made)
  <2>1. ASSUME NEW i \in 1 .. L + 1 PROVE q.marks[i] <= Len(q.made)
    <3>1. i \in 1 .. L \/ i = L + 1
      BY <1>1
    <3>2. CASE i \in 1 .. L
      <4>1. q.marks[i] = r.marks[i] /\ r.marks[i] <= M
        BY <1>3, <1>8, <3>2
      <4>2. r.marks[i] \in Nat
        <5>1. i \in 0 .. L /\ i # 0
          BY <1>1, <3>2
        <5> QED
          BY <1>9, <5>1 DEF Mark
      <4> QED
        BY <1>1, <1>4, <4>1, <4>2, SMTT(40), ZenonT(40)
    <3> QED
      BY <1>3, <1>4, <3>1, <3>2
  <2> QED
    BY <1>3, <2>1
<1>12. Queued(q)
  <2>1. Mark(q.marks, q.done, L + 1) = Len(q.made)
    BY <1>1, <1>3 DEF Mark
  <2> QED
    BY <1>2, <1>3, <1>6, <1>10, <1>11, <2>1 DEF Queued, s
<1>13. \A i \in 1 .. M : r.made[i] \in Int /\ r.made[i] \in 1 .. r.pos /\ prog[r.made[i]].kind = "mult"
  BY <1>1, SMTT(40), ZenonT(40) DEF AllMade, M
<1>14. r.pos \in Nat /\ s = r.pos + 1
  BY <1>1 DEF s
<1>15. ASSUME NEW i \in 1 .. Len(q.made), NEW j \in 1 .. Len(q.made), i < j PROVE q.made[i] < q.made[j]
  <2>1. i \in 1 .. M /\ (j \in 1 .. M \/ (j = M + 1 /\ Len(q.made) = M + 1))
    BY <1>1, <1>4, <1>15
  <2>2. CASE j \in 1 .. M
    BY <1>1, <1>4, <1>15, <2>1, <2>2 DEF AllMade, M
  <2>3. CASE j = M + 1 /\ Len(q.made) = M + 1
    <3>1. q.made[j] = s
      <4>1. prog[s].kind = "mult"
        BY <1>1, <1>4, <2>3
      <4> QED
        BY <1>4, <2>3, <4>1
    <3>2. q.made[i] = r.made[i]
      BY <1>4, <2>1
    <3> QED
      BY <1>13, <1>14, <2>1, <3>1, <3>2
  <2> QED
    BY <2>1, <2>2, <2>3, SMTT(40), ZenonT(40), Z3T(40)
<1>16. ASSUME NEW i \in 1 .. Len(q.made)
       PROVE  /\ q.made[i] \in 1 .. s /\ prog[q.made[i]].kind = "mult"
              /\ Among(q.made[i], q.pending) <=> i > q.done
  <2>1. i \in 1 .. M \/ (i = M + 1 /\ prog[s].kind = "mult" /\ q.made[i] = s)
    BY <1>1, <1>4
  <2>2. CASE i \in 1 .. M
    <3>1. q.made[i] = r.made[i] /\ r.made[i] # s /\ r.made[i] \in 1 .. s /\ prog[r.made[i]].kind = "mult"
      <4>1. r.made[i] \in Int /\ r.made[i] \in 1 .. r.pos /\ prog[r.made[i]].kind = "mult"
        BY ONLY <1>13, <2>2
      <4>2. r.made[i] # s /\ r.made[i] \in 1 .. s
        BY ONLY <1>14, <4>1
      <4>3. q.made[i] = r.made[i]
        BY ONLY <1>4, <2>2
      <4> QED
        BY ONLY <4>1, <4>2, <4>3
    <3>2. Among(r.made[i], r.pending) <=> i > r.done
      BY <1>1, <2>2 DEF AllMade, M
    <3>3. Among(r.made[i], Append(r.pending, s)) <=> (Among(r.made[i], r.pending) \/ r.made[i] = s)
      BY <1>1, AmongAppend
    <3> QED
      BY <3>1, <3>2, <3>3 DEF s
  <2>3. CASE i = M + 1 /\ prog[s].kind = "mult" /\ q.made[i] = s
    <3>1. Among(s, Append(r.pending, s))
      BY <1>1, AmongAppend
    <3>2. i > q.done
      BY <1>1, <2>3
    <3>3. s \in 1 .. s
      BY <1>14
    <3> QED
      BY <2>3, <3>1, <3>2, <3>3 DEF s
  <2> QED
    BY <2>1, <2>2, <2>3
<1>17. ASSUME NEW t \in 1 .. s, prog[t].kind = "mult" PROVE Among(t, q.made)
  <2>1. t \in 1 .. r.pos \/ t = s
    BY <1>14
  <2>2. CASE t = s
    BY <1>1, <1>17, <2>2, AmongAppend DEF s
  <2>3. CASE t \in 1 .. r.pos
    <3>1. Among(t, r.made)
      BY <1>1, <1>17, <2>3 DEF AllMade
    <3>2. q.made = r.made \/ q.made = Append(r.made, s)
      BY DEF s
    <3> QED
      BY <1>1, <3>1, <3>2, AmongAppend
  <2> QED
    BY <2>1, <2>2, <2>3
<1>18. AllMade(q)
  BY <1>15, <1>16, <1>17, SMTT(40), ZenonT(40) DEF AllMade, s
<1> QED
  BY <1>12, <1>18

LEMMA SharedOK ==
  ASSUME ProgOK, NEW s \in 1 .. Len(prog), IsShared(prog[s])
  PROVE  s \in Slot /\ ~IsFlush(prog[s])
<1>1. CallOK(s) /\ Len(prog) \in Nat
  BY SeqFacts DEF ProgOK
<1>2. prog[s].kind \in {"feed", "mult"}
  BY DEF IsShared
<1>3. s <= MaxCalls
  BY <1>1, <1>2 DEF CallOK
<1> QED
  BY <1>1, <1>2, <1>3, Sizes DEF IsFlush, Slot

\* The state after a step that refills nothing and records no new product.
LEMMA SameBatch ==
  ASSUME NEW r, NEW q, Good(r), IsState(q), q.pos \in {r.pos, r.pos + 1}, StatePlaced(q),
         q.pc \in {"next", "batch", "com", "tail", "end"},
         q.pending = r.pending, q.marks = r.marks, q.made = r.made, q.done = r.done, q.from = r.from,
         q.trans = r.trans, q.posted = r.posted, q.log = r.log, q.got = r.got,
         q.entered = r.entered, q.extends = r.extends, r.entered = r.extends, r.got = r.log,
         Drained(q), Upto(q) = Upto(r) \/ (Upto(q) = Upto(r) + 1 /\ prog[Upto(q)].kind # "mult")
  PROVE  Good(q)
<1>1. /\ StateType(r) /\ Queued(r) /\ AllMade(r) /\ Checking(r)
  BY GoodMeans
<1>2. StateType(q)
  BY <1>1 DEF StateType
<1>3. Queued(q) /\ AllMade(q)
  BY <1>1, QueuedKeeps, AllMadeKeeps
<1>4. Extending(q)
  BY <1>1, StillPlain DEF StateType
<1>5. Checking(q)
  BY <1>1 DEF Checking
<1> QED
  BY <1>2, <1>3, <1>4, <1>5 DEF Good

LEMMA NextGood ==
  ASSUME ProgOK, NEW r, Good(r), Act(r) = "next", r.pos < Len(prog)
  PROVE  Good(NextOf(r))
<1>1. /\ StateType(r) /\ StatePlaced(r) /\ Queued(r) /\ AllMade(r) /\ Checking(r) /\ IsState(r)
      /\ IsSeq(r.made) /\ IsSeq(r.marks) /\ r.pos \in Nat
  BY GoodMeans DEF StateType
<1>2. r.pc = "next" /\ r.entered = r.extends /\ r.got = r.log /\ Upto(r) = r.pos
  BY <1>1, Plain DEF Upto
<1>3. Len(prog) \in Nat /\ r.pos + 1 \in 1 .. Len(prog)
  BY <1>1, SeqFacts DEF ProgOK
<1> DEFINE q == NextOf(r)
           s == r.pos + 1
<1>4. CASE IsShared(prog[s])
  <2>1. s \in Slot /\ ~IsFlush(prog[s])
    BY <1>3, <1>4, SharedOK
  <2>2. /\ IsState(q) /\ q.pending = Append(r.pending, s)
        /\ q.made = IF prog[s].kind = "mult" THEN Append(r.made, s) ELSE r.made
        /\ q.marks = Append(r.marks, Len(q.made)) /\ q.pc \in {"batch", "tail"}
        /\ q.pos = r.pos /\ q.done = r.done /\ q.from = r.from
        /\ q.entered = r.entered /\ q.extends = r.extends /\ q.log = r.log /\ q.got = r.got
        /\ q.trans = r.trans /\ q.posted = r.posted
    BY <1>1, <1>4, ShareFields, ZenonT(60), SMTT(40), Z3T(40)
  <2> HIDE DEF q
  <2>3. Upto(q) = r.pos + 1
    BY <2>2 DEF Upto
  <2>4. Queued(q) /\ AllMade(q)
    BY <1>2, <1>4, <2>1, <2>2, <2>3, ShareQueued
  <2>5. IsSeq(q.made) /\ IsSeq(q.marks) /\ Len(r.made) <= Len(q.made) /\ Len(q.made) \in Nat /\ Len(r.made) \in Nat
    <3>1. IsSeq(q.made) /\ Len(r.made) <= Len(q.made) /\ Len(q.made) \in Nat /\ Len(r.made) \in Nat
      BY <1>1, <2>2, SeqAppend, SeqFacts
    <3> DEFINE e == Len(q.made)
    <3>2. q.marks = Append(r.marks, e)
      BY <2>2
    <3> HIDE DEF e
    <3>3. IsSeq(q.marks)
      BY <1>1, <3>2, SeqAppend
    <3> QED
      BY <3>1, <3>3
  <2>6. StateType(q)
    <3>1. q.done <= Len(q.made) /\ q.from <= q.done
      BY <1>1, <2>2, <2>5, SMTT(40), ZenonT(40) DEF StateType
    <3> QED
      BY <1>1, <2>2, <2>5, <3>1 DEF StateType
  <2>7. StatePlaced(q)
    BY <1>1, <2>2 DEF StatePlaced
  <2>8. Drained(q)
    BY <2>1, <2>2 DEF Drained
  <2>9. Extending(q)
    BY <1>1, <1>2, <2>2, StillPlain DEF StateType
  <2>10. Checking(q)
    BY <1>1, <2>2 DEF Checking
  <2> QED
    BY <2>4, <2>6, <2>7, <2>8, <2>9, <2>10 DEF Good, q
<1>5. CASE ~IsShared(prog[s]) /\ IsFlush(prog[s])
  <2>1. /\ IsState(q) /\ q.pc = IF r.pending # <<>> THEN "batch" ELSE "tail"
        /\ q.pos = r.pos /\ q.pending = r.pending /\ q.marks = r.marks
        /\ q.made = r.made /\ q.done = r.done /\ q.from = r.from
        /\ q.entered = r.entered /\ q.extends = r.extends /\ q.log = r.log /\ q.got = r.got
        /\ q.trans = r.trans /\ q.posted = r.posted
    BY <1>1, <1>5, FlushFields
  <2> HIDE DEF q
  <2>2. q.pc \in {"batch", "tail"} /\ (q.pc = "tail" => q.pending = <<>>)
    BY <2>1
  <2>3. Upto(q) = Upto(r) + 1 /\ prog[Upto(q)].kind # "mult"
    BY <1>2, <1>5, <2>1, <2>2 DEF Upto, IsShared
  <2>4. StatePlaced(q) /\ Drained(q)
    BY <1>1, <2>1, <2>2 DEF StatePlaced, Drained
  <2>5. Good(q)
    BY ONLY Good(r), <1>2, <2>1, <2>2, <2>3, <2>4, SameBatch
  <2> QED
    BY <2>5 DEF q
<1>6. CASE ~IsShared(prog[s]) /\ ~IsFlush(prog[s])
  <2>1. /\ IsState(q) /\ q.pos = r.pos + 1 /\ q.pc = r.pc /\ q.pending = r.pending /\ q.marks = r.marks
        /\ q.made = r.made /\ q.done = r.done /\ q.from = r.from
        /\ q.entered = r.entered /\ q.extends = r.extends /\ q.log = r.log /\ q.got = r.got
        /\ q.trans = r.trans /\ q.posted = r.posted
    BY <1>1, <1>6, PassFields
  <2> HIDE DEF q
  <2>2. q.pc = "next"
    BY <1>2, <2>1
  <2>3. Upto(q) = Upto(r) + 1 /\ prog[Upto(q)].kind # "mult"
    BY <1>1, <1>2, <1>6, <2>1, <2>2 DEF Upto, IsShared
  <2>4. StatePlaced(q) /\ Drained(q)
    BY <1>1, <1>3, <2>1, <2>2 DEF StatePlaced, Drained
  <2>5. Good(q)
    BY ONLY Good(r), <1>2, <2>1, <2>2, <2>3, <2>4, SameBatch
  <2> QED
    BY <2>5 DEF q
<1> QED
  BY <1>4, <1>5, <1>6

\* The end of a call.
LEMMA TailGood ==
  ASSUME ProgOK, NEW r, Good(r), Act(r) = "tail"
  PROVE  Good(TailOf(r))
<1>1. /\ StateType(r) /\ StatePlaced(r) /\ Queued(r) /\ AllMade(r) /\ Checking(r) /\ Drained(r) /\ IsState(r)
      /\ r.pos \in Nat /\ IsSeq(r.log) /\ IsSeq(r.posted) /\ Len(r.made) \in Nat
  BY GoodMeans DEF StateType
<1>2. r.pc = "tail" /\ r.entered = r.extends /\ r.got = r.log /\ Upto(r) = r.pos + 1
  BY <1>1, Plain DEF Upto
<1>3. Len(prog) \in Nat /\ r.pos + 1 \in 1 .. Len(prog) /\ r.pos < Len(prog)
  <2>1. Len(prog) \in Nat
    BY SeqFacts DEF ProgOK
  <2> QED
    BY <1>1, <1>2, <2>1 DEF StatePlaced
<1> DEFINE q == TailOf(r)
           op == prog[r.pos + 1]
<1>4. CASE op.kind \in {"reveal", "check"}
  <2>1. /\ IsState(q) /\ q.pos = r.pos + 1 /\ q.pc = "next" /\ q.posted = Append(r.posted, Opened(r))
        /\ q.pending = r.pending /\ q.marks = r.marks /\ q.made = r.made
        /\ q.done = r.done /\ q.from = r.from /\ q.entered = r.entered /\ q.extends = r.extends
        /\ q.trans = r.trans
        /\ q.got = q.log
        /\ q.log = Append(r.log, ValsMsg(r)) \/ q.log = r.log
    <3>1. CASE op.kind = "reveal"
      BY <1>1, <1>2, <3>1, RevealFields, ZenonT(60), SMTT(40)
    <3>2. CASE op.kind = "check"
      BY <1>1, <1>2, <3>2, ExpectFields
    <3> QED
      BY <1>4, <3>1, <3>2
  <2> HIDE DEF q
  <2> DEFINE e == Opened(r)
             m == ValsMsg(r)
  <2>2. e.right
    BY DEF Opened
  <2>3. q.posted = Append(r.posted, e) /\ (q.log = Append(r.log, m) \/ q.log = r.log)
    BY <2>1
  <2> HIDE DEF e, m
  <2>4. IsSeq(Append(r.log, m)) /\ IsSeq(Append(r.posted, e))
    BY <1>1, SeqAppend
  <2>5. IsSeq(q.log) /\ IsSeq(q.posted) /\ IsSeq(q.got)
    BY ONLY <1>1, <2>1, <2>3, <2>4
  <2>6. StateType(q)
    BY <1>1, <2>1, <2>5 DEF StateType
  <2>7. StatePlaced(q) /\ Drained(q)
    BY <1>3, <2>1 DEF StatePlaced, Drained
  <2>8. Upto(q) = Upto(r)
    BY <1>1, <1>2, <2>1 DEF Upto
  <2>9. Queued(q) /\ AllMade(q)
    BY <1>1, <2>1, <2>8, QueuedKeeps, AllMadeKeeps
  <2>10. Extending(q)
    BY <1>1, <1>2, <2>1, StillPlain DEF StateType
  <2>11. ASSUME NEW i \in 1 .. Len(q.posted) PROVE q.posted[i].right
    <3>1. \A j \in 1 .. Len(r.posted) : r.posted[j].right
      BY <1>1 DEF Checking
    <3>2. /\ Len(q.posted) = Len(r.posted) + 1 /\ q.posted[Len(r.posted) + 1] = e /\ Len(r.posted) \in Nat
          /\ \A j \in 1 .. Len(r.posted) : q.posted[j] = r.posted[j]
      BY <1>1, <2>3, SeqAppend, SeqFacts
    <3>3. i \in 1 .. Len(r.posted) \/ i = Len(r.posted) + 1
      BY <3>2
    <3> QED
      BY <2>2, <3>1, <3>2, <3>3
  <2>12. Checking(q)
    BY <2>1, <2>11 DEF Checking
  <2> QED
    BY <2>6, <2>7, <2>9, <2>10, <2>12 DEF Good, q
<1>5. CASE op.kind = "finalize" /\ Len(r.made) > r.from
  <2>1. /\ IsState(q) /\ q.pc = "com"
        /\ q.pos = r.pos /\ q.pending = r.pending /\ q.marks = r.marks
        /\ q.made = r.made /\ q.done = r.done /\ q.from = r.from
        /\ q.entered = r.entered /\ q.extends = r.extends /\ q.log = r.log /\ q.got = r.got
        /\ q.trans = r.trans /\ q.posted = r.posted
    BY <1>1, <1>5, FinalFields
  <2> HIDE DEF q
  <2>5. Upto(q) = Upto(r)
    BY <1>2, <2>1 DEF Upto
  <2>2. StatePlaced(q) /\ Upto(q) = Upto(r)
    BY <1>1, <1>2, <2>1, <2>5 DEF StatePlaced
  <2>3. Drained(q)
    BY <1>1, <1>2, <1>5, <2>1 DEF Drained, IsFlush
  <2>4. Good(q)
    BY ONLY Good(r), <1>2, <2>1, <2>2, <2>3, SameBatch
  <2> QED
    BY <2>4 DEF q
<1>6. CASE op.kind = "finalize" /\ ~(Len(r.made) > r.from)
  <2>1. /\ IsState(q) /\ q.pc = "end" /\ q.pos = r.pos + 1
        /\ q.pending = r.pending /\ q.marks = r.marks
        /\ q.made = r.made /\ q.done = r.done /\ q.from = r.from
        /\ q.entered = r.entered /\ q.extends = r.extends /\ q.log = r.log /\ q.got = r.got
        /\ q.trans = r.trans /\ q.posted = r.posted
    BY <1>1, <1>6, EndFields
  <2> HIDE DEF q
  <2>2. r.from = Len(r.made)
    BY <1>1, <1>6 DEF StateType
  <2>3. StatePlaced(q) /\ Upto(q) = Upto(r)
    BY <1>1, <1>2, <1>3, <1>6, <2>1, <2>2 DEF StatePlaced, Upto
  <2>4. Drained(q)
    BY <2>1 DEF Drained
  <2>5. Good(q)
    BY ONLY Good(r), <1>2, <2>1, <2>3, <2>4, SameBatch
  <2> QED
    BY <2>5 DEF q
<1>7. CASE op.kind \notin {"reveal", "check", "finalize"}
  <2>1. /\ IsState(q) /\ q.pc = "next" /\ q.pos = r.pos + 1
        /\ q.pending = r.pending /\ q.marks = r.marks
        /\ q.made = r.made /\ q.done = r.done /\ q.from = r.from
        /\ q.entered = r.entered /\ q.extends = r.extends /\ q.log = r.log /\ q.got = r.got
        /\ q.trans = r.trans /\ q.posted = r.posted
    BY <1>1, <1>7, ReturnFields
  <2> HIDE DEF q
  <2>2. StatePlaced(q) /\ Upto(q) = Upto(r) /\ Drained(q)
    BY <1>1, <1>2, <1>3, <2>1 DEF StatePlaced, Upto, Drained
  <2>3. Good(q)
    BY ONLY Good(r), <1>2, <2>1, <2>2, SameBatch
  <2> QED
    BY <2>3 DEF q
<1> QED
  BY <1>4, <1>5, <1>6, <1>7

\* The last call is the end.
LEMMA NotEnded ==
  ASSUME ProgOK, NEW r, Good(r), r.pos < Len(prog)
  PROVE  r.pc # "end"
<1>1. StatePlaced(r) /\ r.pos \in Nat /\ Len(prog) \in Nat
  BY GoodMeans, SeqFacts DEF StateType, ProgOK
<1>2. SUFFICES ASSUME r.pc = "end" PROVE FALSE
  OBVIOUS
<1>3. r.pos \in 1 .. Len(prog) - 1 /\ prog[r.pos].kind = "finalize"
  BY <1>1, <1>2 DEF StatePlaced
<1> QED
  BY <1>3 DEF ProgOK

LEMMA SuccGood ==
  ASSUME ProgOK, NEW r, Good(r), r.pos < Len(prog)
  PROVE  Good(Succ(r))
<1>1. StateType(r) /\ r.pc # "end"
  BY GoodMeans, NotEnded
<1>2. Act(r) \in {"leave", "rand", "enter", "next", "batch", "com", "round", "tail"}
  BY <1>1 DEF Act, StateType
<1>3. CASE Act(r) = "leave"
  BY <1>3, LeaveGood DEF Succ
<1>4. CASE Act(r) = "rand"
  BY <1>4, RandGood DEF Succ
<1>5. CASE Act(r) = "enter"
  BY <1>5, EnterGood DEF Succ
<1>6. CASE Act(r) = "next"
  BY <1>6, NextGood DEF Succ
<1>7. CASE Act(r) = "batch"
  BY <1>7, BatchGood DEF Succ
<1>8. CASE Act(r) = "com"
  BY <1>8, CommitGood DEF Succ
<1>9. CASE Act(r) = "round"
  BY <1>9, RoundGood DEF Succ
<1>10. CASE Act(r) = "tail"
  BY <1>10, TailGood DEF Succ
<1> QED
  BY <1>2, <1>3, <1>4, <1>5, <1>6, <1>7, <1>8, <1>9, <1>10

-----------------------------------------------------------------------------
(* What the machine does in the calls made so far does not change.         *)

LEMMA ProductsGrow ==
  ASSUME ProgOK, ProgOK', Grown, NEW made, NEW i \in Nat, NEW j \in Nat,
         \A l \in i + 1 .. j : made[l] \in 1 .. Len(prog) /\ prog[made[l]].kind = "mult"
  PROVE  Products(made, i, j)' = Products(made, i, j)
<1>1. ASSUME NEW l \in 1 .. j - i PROVE Triple(made[i + l])' = Triple(made[i + l])
  <2>1. i + l \in i + 1 .. j
    OBVIOUS
  <2>2. made[i + l] \in 1 .. Len(prog) /\ prog[made[i + l]].kind = "mult"
    BY <2>1
  <2> QED
    BY <2>2, TripleStable
<1>2. Products(made, i, j)' = [l \in 1 .. j - i |-> Triple(made[i + l])']
  BY DEF Products
<1> QED
  BY <1>1, <1>2, SMTT(40), ZenonT(40) DEF Products

LEMMA ActSame == ASSUME NEW r PROVE Act(r)' = Act(r)
BY DEF Act, StarvedOf, NeedOf, FillingOf

LEMMA MadeGrows ==
  ASSUME ProgOK, ProgOK', Grown, NEW r, Good(r), NEW i \in Nat, NEW j \in Nat, j <= Len(r.made)
  PROVE  Products(r.made, i, j)' = Products(r.made, i, j)
<1>1. AllMade(r) /\ StatePlaced(r) /\ StateType(r) /\ Len(r.made) \in Nat /\ Upto(r) \in Nat
  BY GoodMeans
<1>2. Len(prog) \in Nat
  BY DEF Grown
<1>3. Upto(r) <= Len(prog)
  BY <1>1, <1>2 DEF StatePlaced, Upto, StateType
<1>4. \A l \in i + 1 .. j : r.made[l] \in 1 .. Len(prog) /\ prog[r.made[l]].kind = "mult"
  <2>1. \A l \in i + 1 .. j : l \in 1 .. Len(r.made)
    BY <1>1
  <2>2. \A x : x \in 1 .. Upto(r) => x \in 1 .. Len(prog)
    BY <1>1, <1>2, <1>3
  <2> QED
    BY <1>1, <2>1, <2>2 DEF AllMade
<1> QED
  BY <1>4, ProductsGrow

LEMMA UptoIn ==
  ASSUME ProgOK, NEW r, Good(r)
  PROVE  Upto(r) \in 0 .. Len(prog) /\ Len(prog) \in Nat
<1>1. StatePlaced(r) /\ StateType(r) /\ Len(prog) \in Nat
  BY GoodMeans, SeqFacts DEF ProgOK
<1> QED
  BY <1>1 DEF StatePlaced, Upto, StateType

LEMMA BatchMsgGrows ==
  ASSUME ProgOK, ProgOK', Grown, NEW r, Good(r)
  PROVE  BatchMsg(r)' = BatchMsg(r)
<1>1. Upto(r) \in 0 .. Len(prog) /\ Len(prog) \in Nat /\ Batch(r.pending, Upto(r)) /\ Len(r.pending) \in Nat
  BY UptoIn, GoodMeans DEF Queued
<1>2. \A i \in 1 .. Len(r.pending) : r.pending[i] \in 1 .. Len(prog)
  <2>1. \A s \in Slot : s <= Upto(r) => s \in 1 .. Len(prog)
    BY <1>1, Sizes DEF Slot
  <2> QED
    BY <1>1, <2>1 DEF Batch
<1>3. \A i \in 1 .. k : i <= Len(r.pending) => Meaning'[r.pending[i]] = Meaning[r.pending[i]]
  <2>1. \A i \in 1 .. k : i <= Len(r.pending) => i \in 1 .. Len(r.pending)
    BY <1>1, Sizes
  <2> QED
    BY <1>2, <2>1, MeaningStable
<1> DEFINE vals == [i \in 1 .. k |-> IF i <= Len(r.pending) THEN Meaning[r.pending[i]] ELSE Zero]
<1>4. vals' = vals
  BY <1>3 DEF Zero
<1>5. MasksOf(r)' = MasksOf(r)
  BY DEF MasksOf, NeedOf
<1>6. BatchMsg(r) = [kind |-> "batch", masks |-> MasksOf(r), vals |-> vals]
  BY DEF BatchMsg
<1>7. BatchMsg(r)' = [kind |-> "batch", masks |-> MasksOf(r)', vals |-> vals']
  BY DEF BatchMsg
<1> HIDE DEF vals
<1> QED
  BY <1>4, <1>5, <1>6, <1>7

LEMMA CallGrows ==
  ASSUME ProgOK, Grown, NEW r, Good(r), r.pos < Len(prog)
  PROVE  prog'[r.pos + 1] = prog[r.pos + 1] /\ r.pos + 1 \in 1 .. Len(prog)
<1>1. r.pos \in Nat
  BY GoodMeans DEF StateType
<1>2. r.pos + 1 \in 1 .. Len(prog)
  BY <1>1 DEF Grown
<1> QED
  BY <1>2 DEF Grown

LEMMA NextGrows ==
  ASSUME ProgOK, ProgOK', Grown, NEW r, Good(r), r.pos < Len(prog)
  PROVE  NextOf(r)' = NextOf(r)
<1>1. prog'[r.pos + 1] = prog[r.pos + 1]
  BY CallGrows
<1> QED
  BY <1>1 DEF NextOf, IsShared, IsFlush

LEMMA ShownOK ==
  ASSUME ProgOK, NEW i \in 1 .. Len(prog), prog[i].kind \in {"reveal", "check"}
  PROVE  \E a \in 1 .. i - 1 : prog[i].args = <<a>> /\ MakesSlot(prog[a])
<1>1. CallOK(i) /\ prog[i].kind \in {"addc", "drop", "reveal", "check"}
  BY DEF ProgOK
<1> QED
  BY ONLY <1>1 DEF CallOK

LEMMA TailGrows ==
  ASSUME ProgOK, ProgOK', Grown, NEW r, Good(r), r.pos < Len(prog)
  PROVE  TailOf(r)' = TailOf(r)
<1>1. prog'[r.pos + 1] = prog[r.pos + 1] /\ r.pos + 1 \in 1 .. Len(prog)
  BY CallGrows
<1>2. CASE prog[r.pos + 1].kind \in {"reveal", "check"}
  <2>1. Meaning'[prog[r.pos + 1].args[1]] = Meaning[prog[r.pos + 1].args[1]]
    <3>1. PICK i \in 1 .. Len(prog) : i = r.pos + 1
      BY <1>1
    <3>2. PICK a \in 1 .. i - 1 : prog[i].args = <<a>>
      BY <1>2, <3>1, ShownOK
    <3>3. r.pos \in Nat /\ Len(prog) \in Nat
      BY GoodMeans DEF StateType, Grown
    <3>4. a \in 1 .. Len(prog) /\ prog[r.pos + 1].args[1] = a
      BY <1>1, <3>1, <3>2, <3>3
    <3> QED
      BY <3>4, MeaningStable
  <2>2. ValsMsg(r)' = ValsMsg(r) /\ Opened(r)' = Opened(r)
    BY <1>1, <2>1 DEF ValsMsg, Opened
  <2> QED
    BY <1>1, <2>2 DEF TailOf
<1>3. CASE prog[r.pos + 1].kind \notin {"reveal", "check"}
  BY <1>1, <1>3 DEF TailOf
<1> QED
  BY <1>2, <1>3

LEMMA BatchGrows ==
  ASSUME ProgOK, ProgOK', Grown, NEW r, Good(r)
  PROVE  BatchOf(r)' = BatchOf(r)
BY BatchMsgGrows DEF BatchOf, NeedOf

LEMMA CommitGrows ==
  ASSUME ProgOK, ProgOK', Grown, NEW r, Good(r)
  PROVE  CommitOf(r)' = CommitOf(r)
<1>1. r.from \in Nat /\ Len(r.made) \in Nat /\ Len(r.made) <= Len(r.made)
  BY GoodMeans DEF StateType
<1>2. Products(r.made, r.from, Len(r.made))' = Products(r.made, r.from, Len(r.made))
  BY <1>1, MadeGrows
<1>3. ComMsg(r)' = ComMsg(r)
  BY <1>2 DEF ComMsg
<1> QED
  BY <1>3 DEF CommitOf, Padded, CeilDiv

LEMMA SuccGrows ==
  ASSUME ProgOK, ProgOK', Grown, NEW r, Good(r), r.pos < Len(prog)
  PROVE  Succ(r)' = Succ(r)
<1>1. Act(r)' = Act(r)
  BY ActSame
<1>2. RandOf(r)' = RandOf(r)
  BY DEF RandOf, FillingOf
<1>3. EnterOf(r)' = EnterOf(r)
  BY DEF EnterOf, ExtendMsg
<1>4. LeaveOf(r)' = LeaveOf(r)
  BY DEF LeaveOf
<1>5. RoundOf(r)' = RoundOf(r)
  BY DEF RoundOf, Heard, DiffMsg, NeedOf, MasksOf, Padded, CeilDiv, FoldNeed, LastNeed
<1>6. NextOf(r)' = NextOf(r) /\ TailOf(r)' = TailOf(r) /\ BatchOf(r)' = BatchOf(r) /\ CommitOf(r)' = CommitOf(r)
  BY NextGrows, TailGrows, BatchGrows, CommitGrows
<1>7. Succ(r)' = CASE Act(r)' = "rand"  -> RandOf(r)'
                   [] Act(r)' = "enter" -> EnterOf(r)'
                   [] Act(r)' = "leave" -> LeaveOf(r)'
                   [] Act(r)' = "next"  -> NextOf(r)'
                   [] Act(r)' = "batch" -> BatchOf(r)'
                   [] Act(r)' = "com"   -> CommitOf(r)'
                   [] Act(r)' = "round" -> RoundOf(r)'
                   [] Act(r)' = "tail"  -> TailOf(r)'
                   [] OTHER             -> r
  BY DEF Succ
<1> QED
  BY <1>1, <1>2, <1>3, <1>4, <1>5, <1>6, <1>7 DEF Succ

-----------------------------------------------------------------------------
(* The states all parties go through.                                      *)

Path(H, N) ==
  /\ N \in Nat /\ H[0] = Started
  /\ \A i \in 1 .. N : H[i - 1].pos < Len(prog) /\ H[i] = Succ(H[i - 1])

LEMMA StartedGood == ASSUME ProgOK PROVE Good(Started)
<1> DEFINE r == Started
<1>1. /\ r.pos = 0 /\ r.pc = "next" /\ r.pending = <<>> /\ r.marks = <<>> /\ r.made = <<>>
      /\ r.done = 0 /\ r.from = 0 /\ r.entered = 0 /\ r.extends = 0 /\ r.log = <<>> /\ r.got = <<>>
      /\ r.trans = <<>> /\ r.posted = <<>> /\ IsState(r)
  BY DEF Started, IsState, Fields
<1> HIDE DEF r
<1>2. StateType(r)
  BY <1>1, SeqEmpty DEF StateType
<1>3. StatePlaced(r) /\ Upto(r) = 0
  BY <1>1, SeqFacts DEF StatePlaced, Upto, ProgOK
<1>4. Queued(r) /\ Drained(r)
  BY <1>1, SeqEmpty DEF Queued, Drained, Batch, Marked, Mark
<1>5. AllMade(r)
  BY <1>1, <1>3, SeqEmpty DEF AllMade
<1>6. Extending(r) /\ Checking(r)
  BY <1>1, SeqEmpty DEF Extending, Checking
<1> QED
  BY <1>2, <1>3, <1>4, <1>5, <1>6 DEF Good, r

LEMMA PathGood == ASSUME ProgOK, NEW H, NEW N, Path(H, N)
                  PROVE  \A i \in 0 .. N : Good(H[i])
<1> DEFINE S == {i \in 0 .. N : Good(H[i])}
<1>1. N \in Nat /\ 0 \in S
  BY StartedGood DEF Path
<1>2. ASSUME NEW i \in 1 .. N, i - 1 \in S PROVE i \in S
  <2>1. Good(H[i - 1]) /\ H[i - 1].pos < Len(prog) /\ H[i] = Succ(H[i - 1])
    BY <1>2 DEF Path
  <2>2. Good(H[i])
    BY <2>1, SuccGood
  <2> QED
    BY <1>1, <2>2
<1> HIDE DEF S
<1>3. \A i \in 0 .. N : i \in S
  BY <1>1, <1>2, StepByStep
<1> QED
  BY <1>3 DEF S

LEMMA PathGrows == ASSUME ProgOK, ProgOK', Grown, NEW H, NEW N, Path(H, N)
                   PROVE  Path(H, N)'
<1>1. \A i \in 0 .. N : Good(H[i])
  BY PathGood
<1>2. ASSUME NEW i \in 1 .. N PROVE H[i - 1].pos < Len(prog') /\ H[i] = Succ(H[i - 1])'
  <2> DEFINE r == H[i - 1]
  <2>1. i - 1 \in 0 .. N
    BY DEF Path
  <2>2. Good(r) /\ r.pos < Len(prog) /\ H[i] = Succ(r) /\ r.pos \in Nat
    BY <1>1, <2>1, GoodMeans DEF Path, StateType
  <2>3. r.pos < Len(prog')
    BY <2>2 DEF Grown
  <2> HIDE DEF r
  <2>4. Succ(r)' = Succ(r)
    BY <2>2, SuccGrows
  <2> QED
    BY <2>2, <2>3, <2>4 DEF r
<1> QED
  BY <1>2 DEF Path, Started

\* s is the beginning of t.
Begins(s, t) == Len(s) <= Len(t) /\ \A i \in 1 .. Len(s) : t[i] = s[i]

LEMMA BeginsAppend == ASSUME NEW s, NEW e, IsSeq(s) PROVE Begins(s, Append(s, e)) /\ Begins(s, s)
BY SeqFacts, SeqAppend DEF Begins

LEMMA BeginsTrans ==
  ASSUME NEW s, NEW t, NEW u, IsSeq(s), IsSeq(t), IsSeq(u), Begins(s, t), Begins(t, u)
  PROVE  Begins(s, u)
<1>1. Len(s) \in Nat /\ Len(t) \in Nat /\ Len(u) \in Nat
  BY SeqFacts
<1>2. \A i \in 1 .. Len(s) : i \in 1 .. Len(t)
  BY <1>1 DEF Begins
<1> QED
  BY <1>1, <1>2 DEF Begins

\* State r comes before q.
Before(r, q) == /\ Begins(r.log, q.got) /\ Begins(r.posted, q.posted)
                /\ r.entered <= q.entered /\ r.extends <= q.extends

LEMMA GotBegins == ASSUME NEW r, Good(r) PROVE Begins(r.got, r.log)
<1>1. Extending(r) /\ IsSeq(r.got) /\ IsSeq(r.log)
  BY GoodMeans DEF StateType
<1>2. r.log = Append(r.got, ExtendMsg) \/ r.got = r.log
  BY <1>1 DEF Extending
<1> QED
  BY <1>1, <1>2, BeginsAppend

LEMMA BeforeTrans ==
  ASSUME NEW r, NEW q, NEW w, Good(r), Good(q), Good(w), Before(r, q), Before(q, w)
  PROVE  Before(r, w)
<1>1. /\ IsSeq(r.log) /\ IsSeq(q.log) /\ IsSeq(q.got) /\ IsSeq(w.got)
      /\ IsSeq(r.posted) /\ IsSeq(q.posted) /\ IsSeq(w.posted)
      /\ r.entered \in Nat /\ q.entered \in Nat /\ w.entered \in Nat
      /\ r.extends \in Nat /\ q.extends \in Nat /\ w.extends \in Nat
  BY GoodMeans DEF StateType
<1>2. Begins(q.got, q.log)
  BY GotBegins
<1>3. Begins(r.log, q.log)
  BY <1>1, <1>2, BeginsTrans DEF Before
<1>4. Begins(r.log, w.got) /\ Begins(r.posted, w.posted)
  BY <1>1, <1>3, BeginsTrans DEF Before
<1> QED
  BY <1>1, <1>4 DEF Before

LEMMA SuccBefore ==
  ASSUME ProgOK, NEW r, Good(r), r.pos < Len(prog)
  PROVE  Before(r, Succ(r))
<1>1. /\ StateType(r) /\ r.pc # "end" /\ Extending(r) /\ IsState(r) /\ IsSeq(r.log) /\ IsSeq(r.got)
      /\ IsSeq(r.posted) /\ r.entered \in Nat /\ r.extends \in Nat
  BY GoodMeans, NotEnded DEF StateType
<1>2. Act(r) \in {"leave", "rand", "enter", "next", "batch", "com", "round", "tail"}
  BY <1>1 DEF Act, StateType
<1> DEFINE q == Succ(r)
<1>3. /\ q.got = r.log \/ \E m : q.got = Append(r.log, m)
      /\ q.posted = r.posted \/ \E e : q.posted = Append(r.posted, e)
      /\ q.entered \in {r.entered, r.entered + 1} /\ q.extends \in {r.extends, r.extends + 1}
  <2>1. CASE Act(r) = "leave"
    BY <1>1, <2>1, LeaveFields DEF Succ
  <2>2. CASE Act(r) \in {"rand", "enter"}
    <3>1. ~(r.entered > r.extends)
      BY <2>2 DEF Act
    <3>2. r.got = r.log
      BY <1>1, <3>1 DEF Extending
    <3>3. CASE Act(r) = "rand"
      BY <1>1, <3>2, <3>3, RandFields DEF Succ
    <3>4. CASE Act(r) = "enter"
      BY <1>1, <3>2, <3>4, EnterFields DEF Succ
    <3> QED
      BY <2>2, <3>3, <3>4
  <2>3. CASE Act(r) \in {"next", "batch", "com", "round", "tail"}
    <3>1. r.got = r.log
      BY <2>3, Plain
    <3>2. CASE Act(r) = "batch"
      <4>1. IsState(r) /\ q = BatchOf(r)
        BY <1>1, <3>2 DEF Succ
      <4>2. /\ q.got = Append(r.log, BatchMsg(r)) /\ q.posted = r.posted
           /\ q.entered = r.entered /\ q.extends = r.extends
        BY ONLY <4>1, BatchFields
      <4> QED
        BY ONLY <3>1, <4>2
    <3>3. CASE Act(r) = "com"
      <4>1. IsState(r) /\ q = CommitOf(r)
        BY <1>1, <3>3 DEF Succ
      <4>2. /\ q.got = Append(r.log, ComMsg(r)) /\ q.posted = r.posted
           /\ q.entered = r.entered /\ q.extends = r.extends
        BY ONLY <4>1, CommitFields
      <4> QED
        BY ONLY <3>1, <4>2
    <3>4. CASE Act(r) = "round"
      <4>1. CASE r.dim <= CompressParam
        <5>1. IsState(r) /\ q = RoundOf(r)
          BY <1>1, <3>4 DEF Succ
        <5>2. /\ q.got = Append(r.log, DiffMsg(r)) /\ q.posted = Append(r.posted, [saw |-> Heard(r), right |-> TRUE])
             /\ q.entered = r.entered /\ q.extends = r.extends
          BY ONLY <4>1, <5>1, LastRoundFields
        <5> QED
          BY ONLY <3>1, <5>2
      <4>2. CASE ~(r.dim <= CompressParam)
        <5>1. IsState(r) /\ q = RoundOf(r)
          BY <1>1, <3>4 DEF Succ
        <5>2. /\ q.got = Append(r.log, DiffMsg(r)) /\ q.posted = r.posted
             /\ q.entered = r.entered /\ q.extends = r.extends
          BY ONLY <4>2, <5>1, FoldFields
        <5> QED
          BY ONLY <3>1, <5>2
      <4> QED
        BY <4>1, <4>2
    <3>5. CASE Act(r) = "next"
      <4>1. CASE IsShared(prog[r.pos + 1])
        <5>1. IsState(r) /\ q = NextOf(r)
          BY <1>1, <3>5 DEF Succ
        <5>2. /\ q.got = r.got /\ q.posted = r.posted
             /\ q.entered = r.entered /\ q.extends = r.extends
          BY ONLY <4>1, <5>1, ShareFields
        <5> QED
          BY ONLY <3>1, <5>2
      <4>2. CASE ~IsShared(prog[r.pos + 1]) /\ IsFlush(prog[r.pos + 1])
        <5>1. IsState(r) /\ q = NextOf(r)
          BY <1>1, <3>5 DEF Succ
        <5>2. /\ q.got = r.got /\ q.posted = r.posted
             /\ q.entered = r.entered /\ q.extends = r.extends
          BY ONLY <4>2, <5>1, FlushFields
        <5> QED
          BY ONLY <3>1, <5>2
      <4>3. CASE ~IsShared(prog[r.pos + 1]) /\ ~IsFlush(prog[r.pos + 1])
        <5>1. IsState(r) /\ q = NextOf(r)
          BY <1>1, <3>5 DEF Succ
        <5>2. /\ q.got = r.got /\ q.posted = r.posted
             /\ q.entered = r.entered /\ q.extends = r.extends
          BY ONLY <4>3, <5>1, PassFields
        <5> QED
          BY ONLY <3>1, <5>2
      <4> QED
        BY <4>1, <4>2, <4>3
    <3>6. CASE Act(r) = "tail"
      <4> DEFINE op == prog[r.pos + 1]
      <4>1. CASE op.kind = "reveal"
        <5>1. IsState(r) /\ q = TailOf(r)
          BY <1>1, <3>6 DEF Succ
        <5>2. /\ q.got = Append(r.log, ValsMsg(r)) /\ q.posted = Append(r.posted, Opened(r))
              /\ q.entered = r.entered /\ q.extends = r.extends
          BY ONLY <4>1, <5>1, RevealFields
        <5> QED
          BY ONLY <5>2
      <4>2. CASE op.kind = "check"
        <5>1. IsState(r) /\ q = TailOf(r)
          BY <1>1, <3>6 DEF Succ
        <5>2. /\ q.got = r.got /\ q.posted = Append(r.posted, Opened(r))
             /\ q.entered = r.entered /\ q.extends = r.extends
          BY ONLY <4>2, <5>1, ExpectFields
        <5> QED
          BY ONLY <3>1, <5>2
      <4>3. CASE op.kind = "finalize" /\ Len(r.made) > r.from
        <5>1. IsState(r) /\ q = TailOf(r)
          BY <1>1, <3>6 DEF Succ
        <5>2. /\ q.got = r.got /\ q.posted = r.posted
             /\ q.entered = r.entered /\ q.extends = r.extends
          BY ONLY <4>3, <5>1, FinalFields
        <5> QED
          BY ONLY <3>1, <5>2
      <4>4. CASE op.kind = "finalize" /\ ~(Len(r.made) > r.from)
        <5>1. IsState(r) /\ q = TailOf(r)
          BY <1>1, <3>6 DEF Succ
        <5>2. /\ q.got = r.got /\ q.posted = r.posted
             /\ q.entered = r.entered /\ q.extends = r.extends
          BY ONLY <4>4, <5>1, EndFields
        <5> QED
          BY ONLY <3>1, <5>2
      <4>5. CASE op.kind \notin {"reveal", "check", "finalize"}
        <5>1. IsState(r) /\ q = TailOf(r)
          BY <1>1, <3>6 DEF Succ
        <5>2. /\ q.got = r.got /\ q.posted = r.posted
             /\ q.entered = r.entered /\ q.extends = r.extends
          BY ONLY <4>5, <5>1, ReturnFields
        <5> QED
          BY ONLY <3>1, <5>2
      <4> QED
        BY <4>1, <4>2, <4>3, <4>4, <4>5
    <3> QED
      BY <2>3, <3>2, <3>3, <3>4, <3>5, <3>6
  <2> QED
    BY <1>2, <2>1, <2>2, <2>3
<1> HIDE DEF q
<1>4. Begins(r.log, q.got)
  <2>1. CASE q.got = r.log
    BY <1>1, <2>1, BeginsAppend
  <2>2. CASE \E m : q.got = Append(r.log, m)
    BY <1>1, <2>2, BeginsAppend
  <2> QED
    BY <1>3, <2>1, <2>2
<1>5. Begins(r.posted, q.posted)
  <2>1. CASE q.posted = r.posted
    BY <1>1, <2>1, BeginsAppend
  <2>2. CASE \E m : q.posted = Append(r.posted, m)
    BY <1>1, <2>2, BeginsAppend
  <2> QED
    BY <1>3, <2>1, <2>2
<1>6. r.entered <= q.entered /\ r.extends <= q.extends
  BY <1>1, <1>3
<1> QED
  BY <1>4, <1>5, <1>6 DEF Before, q

LEMMA PathBefore ==
  ASSUME ProgOK, NEW H, NEW N, Path(H, N)
  PROVE  \A j \in 0 .. N : \A i \in 0 .. j - 1 : Before(H[i], H[j])
<1> DEFINE S == {j \in 0 .. N : \A i \in 0 .. j - 1 : Before(H[i], H[j])}
<1>1. N \in Nat /\ 0 \in S
  BY DEF Path
<1>2. ASSUME NEW j \in 1 .. N, j - 1 \in S PROVE j \in S
  <2>1. j - 1 \in 0 .. N /\ j \in 0 .. N
    BY <1>1
  <2>2. Good(H[j - 1]) /\ Good(H[j]) /\ H[j - 1].pos < Len(prog) /\ H[j] = Succ(H[j - 1])
    BY <2>1, PathGood DEF Path
  <2>3. Before(H[j - 1], H[j])
    BY <2>2, SuccBefore
  <2>4. ASSUME NEW i \in 0 .. j - 1 PROVE Before(H[i], H[j])
    <3>1. i = j - 1 \/ i \in 0 .. (j - 1) - 1
      BY <1>1
    <3>2. CASE i \in 0 .. (j - 1) - 1
      <4>1. Before(H[i], H[j - 1])
        BY <1>2, <3>2
      <4>2. i \in 0 .. N
        BY <1>1, <3>2
      <4>3. Good(H[i])
        BY <4>2, PathGood
      <4> QED
        BY <2>2, <2>3, <4>1, <4>3, BeforeTrans
    <3> QED
      BY <2>3, <3>1, <3>2
  <2> QED
    BY <2>1, <2>4
<1> HIDE DEF S
<1>3. \A j \in 0 .. N : j \in S
  BY <1>1, <1>2, StepByStep
<1> QED
  BY <1>3 DEF S

\* The next state, on a path that may be longer.
Longer(H, N, G, M) == Path(G, M) /\ N <= M /\ \A i \in 0 .. N : G[i] = H[i]

LEMMA Advance ==
  ASSUME ProgOK, NEW H, NEW N, Path(H, N), NEW c \in 0 .. N, H[c].pos < Len(prog)
  PROVE  \E G, M : Longer(H, N, G, M) /\ c + 1 \in 0 .. M /\ G[c + 1] = Succ(H[c])
<1>1. N \in Nat /\ c \in Nat
  BY DEF Path
<1>2. CASE c < N
  <2>1. c + 1 \in 1 .. N /\ c + 1 \in 0 .. N /\ (c + 1) - 1 = c
    BY <1>1, <1>2
  <2>2. H[c + 1] = Succ(H[c])
    BY <2>1 DEF Path
  <2> QED
    BY <1>1, <2>1, <2>2 DEF Longer
<1>3. CASE c = N
  <2> DEFINE G == [i \in Nat |-> IF i = N + 1 THEN Succ(H[N]) ELSE H[i]]
  <2>1. \A i \in 0 .. N : G[i] = H[i]
    BY <1>1
  <2>2. G[N + 1] = Succ(H[N])
    BY <1>1
  <2> HIDE DEF G
  <2>3. ASSUME NEW i \in 1 .. N + 1 PROVE G[i - 1].pos < Len(prog) /\ G[i] = Succ(G[i - 1])
    <3>1. i - 1 \in 0 .. N /\ G[i - 1] = H[i - 1]
      BY <1>1, <2>1
    <3>2. CASE i = N + 1
      <4>1. i - 1 = N
        BY <1>1, <3>2
      <4> QED
        BY <1>3, <2>2, <3>1, <3>2, <4>1
    <3>3. CASE i \in 1 .. N
      <4>1. i \in 0 .. N
        BY <1>1, <3>3
      <4> QED
        BY <2>1, <3>1, <3>3, <4>1 DEF Path
    <3> QED
      BY <1>1, <3>2, <3>3
  <2>4. G[0] = Started
    BY <1>1, <2>1 DEF Path
  <2>5. Path(G, N + 1)
    BY <1>1, <2>3, <2>4 DEF Path
  <2> QED
    BY <1>1, <1>3, <2>1, <2>2, <2>5 DEF Longer
<1> QED
  BY <1>1, <1>2, <1>3

-----------------------------------------------------------------------------
(* How the parties of the system stand to states of the machine.           *)

PartyAs(p, r) ==
  /\ pending[p] = r.pending /\ batches[p] = r.batches /\ dim[p] = r.dim
  /\ pool[p] = r.pool /\ ptr[p] = r.ptr /\ authPtr[p] = r.authPtr
  /\ entered[p] = r.entered /\ extends[p] = r.extends

ProverAs(r) == /\ PartyAs(Prover, r) /\ pos[Prover] = r.pos /\ pc[Prover] = r.pc
               /\ triples[Prover] = Products(r.made, r.from, Len(r.made))

\* A verifier that waits for the others is about to be where the prover is
\* without waiting.
Stands(v, r) ==
  CASE pc[v] = "open" -> r.pc = "next" /\ r.pos = pos[v] + 1
    [] pc[v] = "mesh" -> r.pc = "tail" /\ r.pos = pos[v]
    [] OTHER          -> r.pc = pc[v] /\ r.pos = pos[v]

\* The products it has recorded; those of a check it waits for are kept.
Records(v, r) ==
  \E f \in 0 .. r.done :
    /\ checked[v] = Products(r.made, 0, f) /\ triples[v] = Products(r.made, f, r.done)
    /\ IF pc[v] = "mesh" THEN r.from = r.done ELSE f = r.from

Answered(v, r) ==
  /\ transcript[v] = r.trans /\ posted[v] = r.posted /\ meshed[v] \in Nat
  /\ Len(r.posted) = meshed[v] + (IF pc[v] \in {"mesh", "open"} THEN 1 ELSE 0)

VerifierAs(v, r) ==
  /\ PartyAs(v, r) /\ Stands(v, r) /\ Records(v, r) /\ Answered(v, r)
  /\ SlotsRight(slots[v], Upto(r), ToSet(pending[v]))

As(p, r) == IF p = Prover THEN ProverAs(r) ELSE VerifierAs(p, r)

\* What the prover has sent is received, delivered or in the send buffer.
Line(log, got, wi, bu) ==
  /\ IsSeq(wi) /\ IsSeq(bu) /\ Begins(got, log)
  /\ Len(log) = Len(got) + Len(wi) + Len(bu)
  /\ \A i \in 1 .. Len(wi) : wi[i] = log[Len(got) + i]
  /\ \A i \in 1 .. Len(bu) : bu[i] = log[Len(got) + Len(wi) + i]
Delivered(v, sender, receiver) == Line(sender.log, receiver.got, wire[v], buf[v])

OnPath(H, N, c) ==
  /\ Path(H, N) /\ c \in [Party -> 0 .. N]
  /\ \A p \in Party : As(p, H[c[p]])
  /\ \A v \in Verifier : Delivered(v, H[c[Prover]], H[c[v]])

NetShapes ==
  /\ DOMAIN dim = Party /\ DOMAIN pool = Party /\ DOMAIN ptr = Party /\ DOMAIN authPtr = Party
  /\ DOMAIN entered = Party /\ DOMAIN extends = Party
  /\ DOMAIN transcript = Verifier /\ DOMAIN posted = Verifier /\ DOMAIN meshed = Verifier
  /\ DOMAIN checked = Verifier /\ DOMAIN buf = Verifier /\ DOMAIN wire = Verifier

NInv == WInv /\ NetShapes /\ \E H, N, c : OnPath(H, N, c)

\* A party that takes no part in a step.
Still(o) ==
  /\ UNCHANGED <<pos[o], pc[o], pending[o], batches[o], triples[o], dim[o]>>
  /\ UNCHANGED <<pool[o], ptr[o], authPtr[o], entered[o], extends[o]>>
  /\ o # Prover => UNCHANGED <<slots[o], transcript[o], posted[o], meshed[o], checked[o]>>

LEMMA SlotsGrow ==
  ASSUME ProgOK, ProgOK', Grown, NEW sl, NEW m \in 0 .. Len(prog), NEW S, SlotsRight(sl, m, S)
  PROVE  SlotsRight(sl, m, S)'
<1>1. Len(prog) \in Nat
  BY DEF Grown
<1>2. \A t \in Slot : t <= m => prog'[t] = prog[t] /\ Meaning'[t] = Meaning[t]
  <2>1. \A t \in Slot : t <= m => t \in 1 .. Len(prog)
    BY <1>1 DEF Slot
  <2> QED
    BY <2>1, MeaningStable DEF Grown
<1>3. ASSUME NEW t \in Slot PROVE SlotRight(sl, t, m, S)'
  <2>1. SlotRight(sl, t, m, S)
    BY DEF SlotsRight
  <2>2. t <= m => prog'[t] = prog[t] /\ Meaning'[t] = Meaning[t]
    BY <1>2
  <2> QED
    BY <2>1, <2>2 DEF SlotRight, IsLinear, IsShared, Const, Zero, Unit
<1>4. Slot' = Slot
  BY DEF Slot
<1>5. SlotsRight(sl, m, S)' <=> DOMAIN sl = Slot' /\ \A t \in Slot' : SlotRight(sl, t, m, S)'
  BY DEF SlotsRight
<1> QED
  BY <1>3, <1>4, <1>5 DEF SlotsRight

LEMMA PartyStays ==
  ASSUME NEW o, NEW r, PartyAs(o, r), Still(o)
  PROVE  PartyAs(o, r)'
BY DEF PartyAs, Still

LEMMA ProverStays ==
  ASSUME ProgOK, ProgOK', Grown, NEW r, Good(r), ProverAs(r), Still(Prover)
  PROVE  ProverAs(r)'
<1>1. r.from \in Nat /\ Len(r.made) \in Nat /\ Len(r.made) <= Len(r.made)
  BY GoodMeans DEF StateType
<1>2. Products(r.made, r.from, Len(r.made))' = Products(r.made, r.from, Len(r.made))
  BY <1>1, MadeGrows
<1>3. PartyAs(Prover, r)'
  BY PartyStays DEF ProverAs
<1>4. Prover' = Prover
  BY DEF Prover
<1>5. pos'[Prover] = r.pos /\ pc'[Prover] = r.pc /\ triples'[Prover] = Products(r.made, r.from, Len(r.made))
  BY DEF ProverAs, Still
<1>6. ProverAs(r)' <=> /\ PartyAs(Prover, r)' /\ pos'[Prover] = r.pos /\ pc'[Prover] = r.pc
                       /\ triples'[Prover] = Products(r.made, r.from, Len(r.made))'
  BY <1>4 DEF ProverAs
<1> QED
  BY <1>2, <1>3, <1>5, <1>6

LEMMA RecordsGrow ==
  ASSUME ProgOK, ProgOK', Grown, NEW r, Good(r), NEW f \in 0 .. r.done
  PROVE  /\ Products(r.made, 0, f)' = Products(r.made, 0, f)
         /\ Products(r.made, f, r.done)' = Products(r.made, f, r.done)
<1>1. r.done \in Nat /\ Len(r.made) \in Nat /\ r.done <= Len(r.made)
  BY GoodMeans DEF StateType
<1>2. f \in Nat /\ f <= Len(r.made)
  BY <1>1
<1> QED
  BY <1>1, <1>2, MadeGrows

LEMMA VerifierStays ==
  ASSUME ProgOK, ProgOK', Grown, NEW v, v # Prover, NEW r, Good(r), VerifierAs(v, r), Still(v)
  PROVE  VerifierAs(v, r)'
<1>1. PartyAs(v, r)'
  BY PartyStays DEF VerifierAs
<1>2. UNCHANGED <<pos[v], pc[v], triples[v], slots[v], transcript[v], posted[v], meshed[v], checked[v], pending[v]>>
  BY DEF Still
<1>3. Stands(v, r)'
  BY <1>2 DEF VerifierAs, Stands
<1>4. Answered(v, r)'
  BY <1>2 DEF VerifierAs, Answered
<1>5. Records(v, r)'
  <2>1. PICK f \in 0 .. r.done :
          /\ checked[v] = Products(r.made, 0, f) /\ triples[v] = Products(r.made, f, r.done)
          /\ IF pc[v] = "mesh" THEN r.from = r.done ELSE f = r.from
    BY DEF VerifierAs, Records
  <2>2. /\ checked'[v] = Products(r.made, 0, f)' /\ triples'[v] = Products(r.made, f, r.done)'
        /\ IF pc'[v] = "mesh" THEN r.from = r.done ELSE f = r.from
    BY <1>2, <2>1, RecordsGrow
  <2> QED
    BY <2>2 DEF Records
<1>6. SlotsRight(slots[v], Upto(r), ToSet(pending[v]))'
  <2> DEFINE sl == slots[v]
             S  == ToSet(pending[v])
  <2>1. SlotsRight(sl, Upto(r), S) /\ Upto(r) \in 0 .. Len(prog)
    BY UptoIn DEF VerifierAs
  <2>2. sl' = sl /\ S' = S /\ Upto(r)' = Upto(r)
    BY <1>2 DEF ToSet, Upto
  <2> PICK s, T, m : s = sl /\ T = S /\ m = Upto(r)
    OBVIOUS
  <2>3. SlotsRight(s, m, T)'
    BY <2>1, SlotsGrow
  <2>4. SlotsRight(sl, Upto(r), S)' <=> SlotsRight(s, m, T)'
    BY <2>2 DEF SlotsRight
  <2> QED
    BY <2>3, <2>4
<1> QED
  BY <1>1, <1>3, <1>4, <1>5, <1>6 DEF VerifierAs

-----------------------------------------------------------------------------
(* What is between the prover and a verifier.                              *)

LEMMA SeqConcat ==
  ASSUME NEW s, NEW t, IsSeq(s), IsSeq(t)
  PROVE  /\ IsSeq(s \o t) /\ Len(s \o t) = Len(s) + Len(t)
         /\ \A i \in 1 .. Len(s) : (s \o t)[i] = s[i]
         /\ \A i \in 1 .. Len(t) : (s \o t)[Len(s) + i] = t[i]
<1>1. PICK S, T : s \in Seq(S) /\ t \in Seq(T)
  BY DEF IsSeq
<1> DEFINE U == S \union T
<1>2. s \in Seq(U) /\ t \in Seq(U)
  BY <1>1, SeqMonotonic
<1> HIDE DEF U
<1>3. s \o t \in Seq(U) /\ Len(s \o t) = Len(s) + Len(t) /\ Len(s) \in Nat /\ Len(t) \in Nat
  BY <1>2
<1>4. \A i \in 1 .. Len(s) + Len(t) : (s \o t)[i] = IF i <= Len(s) THEN s[i] ELSE t[i - Len(s)]
  BY <1>2
<1>5. \A i \in 1 .. Len(s) : (s \o t)[i] = s[i]
  BY <1>3, <1>4
<1>6. ASSUME NEW i \in 1 .. Len(t) PROVE (s \o t)[Len(s) + i] = t[i]
  <2>1. Len(s) + i \in 1 .. Len(s) + Len(t) /\ ~(Len(s) + i <= Len(s)) /\ (Len(s) + i) - Len(s) = i
    BY <1>3
  <2> QED
    BY <1>4, <2>1
<1> QED
  BY <1>3, <1>5, <1>6 DEF IsSeq

LEMMA SeqTail ==
  ASSUME NEW s, IsSeq(s), s # <<>>
  PROVE  /\ IsSeq(Tail(s)) /\ Len(s) \in Nat \ {0} /\ Len(Tail(s)) = Len(s) - 1 /\ Head(s) = s[1]
         /\ \A i \in 1 .. Len(s) - 1 : Tail(s)[i] = s[i + 1]
<1>1. PICK S : s \in Seq(S)
  BY DEF IsSeq
<1>2. Len(s) \in Nat \ {0} /\ Tail(s) \in Seq(S) /\ Len(Tail(s)) = Len(s) - 1 /\ Head(s) = s[1]
  BY <1>1
<1>3. \A i \in 1 .. Len(s) - 1 : Tail(s)[i] = s[i + 1]
  BY <1>1, <1>2
<1> QED
  BY <1>2, <1>3 DEF IsSeq

LEMMA LineNumbers ==
  ASSUME NEW log, NEW got, NEW wi, NEW bu, IsSeq(log), IsSeq(got), Line(log, got, wi, bu)
  PROVE  /\ Len(log) \in Nat /\ Len(got) \in Nat /\ Len(wi) \in Nat /\ Len(bu) \in Nat
         /\ IsSeq(wi) /\ IsSeq(bu)
BY SeqFacts DEF Line

LEMMA LineSend ==
  ASSUME NEW log, NEW got, NEW wi, NEW bu, NEW m, IsSeq(log), IsSeq(got), Line(log, got, wi, bu)
  PROVE  Line(Append(log, m), got, wi, Append(bu, m))
<1> DEFINE l == Append(log, m)
           b == Append(bu, m)
<1>1. /\ Len(log) \in Nat /\ Len(got) \in Nat /\ Len(wi) \in Nat /\ Len(bu) \in Nat /\ IsSeq(bu) /\ IsSeq(wi)
      /\ Len(log) = Len(got) + Len(wi) + Len(bu)
  BY LineNumbers DEF Line
<1>2. /\ IsSeq(l) /\ Len(l) = Len(log) + 1 /\ l[Len(log) + 1] = m /\ \A i \in 1 .. Len(log) : l[i] = log[i]
      /\ IsSeq(b) /\ Len(b) = Len(bu) + 1 /\ b[Len(bu) + 1] = m /\ \A i \in 1 .. Len(bu) : b[i] = bu[i]
  BY <1>1, SeqAppend
<1> HIDE DEF l, b
<1>3. Begins(got, l)
  <2>1. \A i \in 1 .. Len(got) : i \in 1 .. Len(log)
    BY <1>1
  <2> QED
    BY <1>1, <1>2, <2>1 DEF Line, Begins
<1>4. ASSUME NEW i \in 1 .. Len(wi) PROVE wi[i] = l[Len(got) + i]
  <2>1. Len(got) + i \in 1 .. Len(log)
    BY <1>1
  <2> QED
    BY <1>2, <2>1 DEF Line
<1>5. ASSUME NEW i \in 1 .. Len(bu) + 1 PROVE b[i] = l[Len(got) + Len(wi) + i]
  <2>1. CASE i \in 1 .. Len(bu)
    <3>1. Len(got) + Len(wi) + i \in 1 .. Len(log)
      BY <1>1, <2>1
    <3> QED
      BY <1>2, <2>1, <3>1 DEF Line
  <2>2. CASE i = Len(bu) + 1
    <3>1. Len(got) + Len(wi) + i = Len(log) + 1
      BY <1>1, <2>2
    <3> QED
      BY <1>2, <2>2, <3>1
  <2> QED
    BY <1>1, <2>1, <2>2
<1>6. Len(l) = Len(got) + Len(wi) + Len(b)
  BY <1>1, <1>2
<1> QED
  BY <1>1, <1>2, <1>3, <1>4, <1>5, <1>6 DEF Line, l, b

LEMMA LineFlush ==
  ASSUME NEW log, NEW got, NEW wi, NEW bu, IsSeq(log), IsSeq(got), Line(log, got, wi, bu)
  PROVE  Line(log, got, wi \o bu, <<>>)
<1> DEFINE w == wi \o bu
<1>1. /\ Len(log) \in Nat /\ Len(got) \in Nat /\ Len(wi) \in Nat /\ Len(bu) \in Nat /\ IsSeq(bu) /\ IsSeq(wi)
      /\ Len(log) = Len(got) + Len(wi) + Len(bu)
  BY LineNumbers DEF Line
<1>2. /\ IsSeq(w) /\ Len(w) = Len(wi) + Len(bu)
      /\ \A i \in 1 .. Len(wi) : w[i] = wi[i]
      /\ \A i \in 1 .. Len(bu) : w[Len(wi) + i] = bu[i]
  BY <1>1, SeqConcat
<1> HIDE DEF w
<1>3. ASSUME NEW i \in 1 .. Len(w) PROVE w[i] = log[Len(got) + i]
  <2>1. CASE i \in 1 .. Len(wi)
    BY <1>2, <2>1 DEF Line
  <2>2. CASE i \notin 1 .. Len(wi)
    <3> DEFINE j == i - Len(wi)
    <3>1. j \in 1 .. Len(bu) /\ i = Len(wi) + j /\ Len(got) + i = Len(got) + Len(wi) + j
      BY <1>1, <1>2, <2>2
    <3> HIDE DEF j
    <3> QED
      BY <1>2, <3>1 DEF Line
  <2> QED
    BY <2>1, <2>2
<1>4. Len(log) = Len(got) + Len(w) + Len(<<>>)
  BY <1>1, <1>2, SeqEmpty
<1>5. IsSeq(<<>>) /\ \A i \in 1 .. Len(<<>>) : FALSE
  BY SeqEmpty
<1> QED
  BY <1>2, <1>3, <1>4, <1>5 DEF Line, w

LEMMA LineDirect ==
  ASSUME NEW log, NEW got, NEW wi, NEW m, IsSeq(log), IsSeq(got), Line(log, got, wi, <<>>)
  PROVE  Line(Append(log, m), got, Append(wi, m), <<>>)
<1> DEFINE l == Append(log, m)
           w == Append(wi, m)
<1>1. /\ Len(log) \in Nat /\ Len(got) \in Nat /\ Len(wi) \in Nat /\ IsSeq(wi)
      /\ Len(log) = Len(got) + Len(wi) + Len(<<>>)
  BY LineNumbers DEF Line
<1>2. /\ IsSeq(l) /\ Len(l) = Len(log) + 1 /\ l[Len(log) + 1] = m /\ \A i \in 1 .. Len(log) : l[i] = log[i]
      /\ IsSeq(w) /\ Len(w) = Len(wi) + 1 /\ w[Len(wi) + 1] = m /\ \A i \in 1 .. Len(wi) : w[i] = wi[i]
  BY <1>1, SeqAppend
<1> HIDE DEF l, w
<1>7. Len(<<>>) = 0 /\ IsSeq(<<>>)
  BY SeqEmpty
<1>3. Begins(got, l)
  <2>1. \A i \in 1 .. Len(got) : i \in 1 .. Len(log)
    BY <1>1, <1>7
  <2> QED
    BY <1>1, <1>2, <2>1 DEF Line, Begins
<1>5. ASSUME NEW i \in 1 .. Len(wi) + 1 PROVE w[i] = l[Len(got) + i]
  <2>1. CASE i \in 1 .. Len(wi)
    <3>1. Len(got) + i \in 1 .. Len(log)
      BY <1>1, <1>7, <2>1
    <3> QED
      BY <1>2, <2>1, <3>1 DEF Line
  <2>2. CASE i = Len(wi) + 1
    <3>1. Len(got) + i = Len(log) + 1
      BY <1>1, <1>7, <2>2
    <3> QED
      BY <1>2, <2>2, <3>1
  <2> QED
    BY <1>1, <2>1, <2>2
<1>6. Len(l) = Len(got) + Len(w) + Len(<<>>)
  BY <1>1, <1>2, <1>7
<1>8. \A i \in 1 .. Len(<<>>) : FALSE
  BY <1>7
<1> QED
  BY <1>1, <1>2, <1>3, <1>5, <1>6, <1>7, <1>8, SMTT(40), ZenonT(40) DEF Line, l, w

LEMMA LineWrite ==
  ASSUME NEW log, NEW got, NEW wi, NEW bu, IsSeq(log), IsSeq(got), Line(log, got, wi, bu), bu # <<>>
  PROVE  Line(log, got, Append(wi, Head(bu)), Tail(bu))
<1> DEFINE m == Head(bu)
           w == Append(wi, m)
           b == Tail(bu)
<1>1. /\ Len(log) \in Nat /\ Len(got) \in Nat /\ Len(wi) \in Nat /\ Len(bu) \in Nat /\ IsSeq(bu) /\ IsSeq(wi)
      /\ Len(log) = Len(got) + Len(wi) + Len(bu)
  BY LineNumbers DEF Line
<1>2. /\ IsSeq(b) /\ Len(bu) > 0 /\ Len(b) = Len(bu) - 1 /\ m = bu[1]
      /\ \A i \in 1 .. Len(bu) - 1 : b[i] = bu[i + 1]
  BY <1>1, SeqTail
<1> HIDE DEF m
<1>3. IsSeq(w) /\ Len(w) = Len(wi) + 1 /\ w[Len(wi) + 1] = m /\ \A i \in 1 .. Len(wi) : w[i] = wi[i]
  BY <1>1, SeqAppend
<1> HIDE DEF w, b
<1>4. ASSUME NEW i \in 1 .. Len(wi) + 1 PROVE w[i] = log[Len(got) + i]
  <2>1. CASE i \in 1 .. Len(wi)
    BY <1>3, <2>1 DEF Line
  <2>2. CASE i = Len(wi) + 1
    <3>1. Len(got) + i = Len(got) + Len(wi) + 1 /\ 1 \in 1 .. Len(bu)
      BY <1>1, <1>2, <2>2
    <3> QED
      BY <1>2, <1>3, <2>2, <3>1 DEF Line
  <2> QED
    BY <1>1, <2>1, <2>2
<1>5. ASSUME NEW i \in 1 .. Len(b) PROVE b[i] = log[Len(got) + Len(w) + i]
  <2>1. i \in 1 .. Len(bu) - 1 /\ i + 1 \in 1 .. Len(bu)
        /\ Len(got) + Len(w) + i = Len(got) + Len(wi) + (i + 1)
    BY <1>1, <1>2, <1>3
  <2> QED
    BY <1>2, <2>1 DEF Line
<1>6. Len(log) = Len(got) + Len(w) + Len(b)
  BY <1>1, <1>2, <1>3
<1> QED
  BY <1>2, <1>3, <1>4, <1>5, <1>6 DEF Line, w, b, m

LEMMA LineReceive ==
  ASSUME NEW log, NEW got, NEW wi, NEW bu, IsSeq(log), IsSeq(got), Line(log, got, wi, bu), wi # <<>>
  PROVE  Line(log, Append(got, Head(wi)), Tail(wi), bu)
<1> DEFINE m == Head(wi)
           g == Append(got, m)
           w == Tail(wi)
<1>1. /\ Len(log) \in Nat /\ Len(got) \in Nat /\ Len(wi) \in Nat /\ Len(bu) \in Nat /\ IsSeq(bu) /\ IsSeq(wi)
      /\ Len(log) = Len(got) + Len(wi) + Len(bu)
  BY LineNumbers DEF Line
<1>2. /\ IsSeq(w) /\ Len(wi) > 0 /\ Len(w) = Len(wi) - 1 /\ m = wi[1]
      /\ \A i \in 1 .. Len(wi) - 1 : w[i] = wi[i + 1]
  BY <1>1, SeqTail
<1> HIDE DEF m
<1>3. IsSeq(g) /\ Len(g) = Len(got) + 1 /\ g[Len(got) + 1] = m /\ \A i \in 1 .. Len(got) : g[i] = got[i]
  BY SeqAppend
<1> HIDE DEF w, g
<1>4. Begins(g, log)
  <2>1. ASSUME NEW i \in 1 .. Len(got) + 1 PROVE log[i] = g[i]
    <3>1. CASE i \in 1 .. Len(got)
      BY <1>3, <3>1 DEF Line, Begins
    <3>2. CASE i = Len(got) + 1
      <4>1. 1 \in 1 .. Len(wi)
        BY <1>1, <1>2
      <4> QED
        BY <1>2, <1>3, <3>2, <4>1 DEF Line
    <3> QED
      BY <1>1, <3>1, <3>2
  <2>2. Len(g) <= Len(log)
    BY <1>1, <1>2, <1>3
  <2> QED
    BY <1>3, <2>1, <2>2 DEF Begins
<1>5. ASSUME NEW i \in 1 .. Len(w) PROVE w[i] = log[Len(g) + i]
  <2>1. i \in 1 .. Len(wi) - 1 /\ i + 1 \in 1 .. Len(wi) /\ Len(g) + i = Len(got) + (i + 1)
    BY <1>1, <1>2, <1>3
  <2> QED
    BY <1>2, <2>1 DEF Line
<1>6. Len(log) = Len(g) + Len(w) + Len(bu) /\ Len(g) + Len(w) = Len(got) + Len(wi)
  BY <1>1, <1>2, <1>3
<1>7. \A i \in 1 .. Len(bu) : bu[i] = log[Len(g) + Len(w) + i]
  BY <1>6 DEF Line
<1> QED
  BY <1>1, <1>2, <1>3, <1>4, <1>5, <1>6, <1>7 DEF Line, w, g, m

LEMMA AdvanceNow ==
  ProgOK => \A H, N, c : Path(H, N) /\ c \in 0 .. N /\ H[c].pos < Len(prog) =>
              \E G, M : Longer(H, N, G, M) /\ c + 1 \in 0 .. M /\ G[c + 1] = Succ(H[c])
BY Advance

LEMMA AdvanceNext ==
  ProgOK' => (\A H, N, c : Path(H, N) /\ c \in 0 .. N /\ H[c].pos < Len(prog) =>
                \E G, M : Longer(H, N, G, M) /\ c + 1 \in 0 .. M /\ G[c + 1] = Succ(H[c]))'
BY AdvanceNow, PTL

LEMMA Stays ==
  ASSUME ProgOK, ProgOK', Grown, NEW o, NEW r, Good(r), As(o, r), Still(o)
  PROVE  As(o, r)'
<1>1. CASE o = Prover
  <2>1. ProverAs(r)'
    BY <1>1, ProverStays DEF As
  <2> QED
    BY <1>1, <2>1 DEF As, Prover
<1>2. CASE o # Prover
  <2>1. VerifierAs(o, r)'
    BY <1>2, VerifierStays DEF As
  <2> QED
    BY <1>2, <2>1 DEF As, Prover
<1> QED
  BY <1>1, <1>2

\* A party does what the machine does next.
LEMMA Moves ==
  ASSUME ProgOK, ProgOK', Grown, NEW H, NEW N, NEW c, OnPath(H, N, c),
         NEW p \in Party, NEW q, q = Succ(H[c[p]])', H[c[p]].pos < Len(prog'),
         As(p, q)', \A o \in Party : o # p => Still(o),
         \A v \in Verifier : Delivered(v, IF p = Prover THEN q ELSE H[c[Prover]],
                                          IF p = v THEN q ELSE H[c[v]])'
  PROVE  \E G, M, d : OnPath(G, M, d)'
<1>1. Path(H, N) /\ c \in [Party -> 0 .. N] /\ \A o \in Party : As(o, H[c[o]])
  BY DEF OnPath
<1>2. Path(H, N)' /\ N \in Nat
  BY <1>1, PathGrows DEF Path
<1> DEFINE r == H[c[p]]
<1>3. c[p] \in 0 .. N
  BY <1>1
<1>4. PICK G, M : Longer(H, N, G, M)' /\ c[p] + 1 \in 0 .. M /\ G[c[p] + 1] = Succ(H[c[p]])'
  BY <1>2, <1>3, AdvanceNext
<1>5. Path(G, M)' /\ N <= M /\ M \in Nat /\ \A i \in 0 .. N : G[i] = H[i]
  BY <1>4 DEF Longer, Path
<1>6. G[c[p] + 1] = q
  BY <1>4
<1> DEFINE d == [c EXCEPT ![p] = @ + 1]
<1>7. d \in [Party -> 0 .. M] /\ d[p] = c[p] + 1 /\ \A o \in Party : o # p => d[o] = c[o]
  BY <1>1, <1>2, <1>4, <1>5
<1> HIDE DEF d
<1>8. \A o \in Party : G[d[o]] = IF o = p THEN q ELSE H[c[o]]
  BY <1>1, <1>5, <1>6, <1>7
<1>9. ASSUME NEW o \in Party PROVE As(o, G[d[o]])'
  <2>1. CASE o = p
    BY <1>8, <2>1
  <2>2. CASE o # p
    <3>1. Good(H[c[o]])
      <4>1. c[o] \in 0 .. N
        BY <1>1
      <4> QED
        BY <1>1, <4>1, PathGood
    <3>2. As(o, H[c[o]])'
      BY <1>1, <2>2, <3>1, Stays
    <3> QED
      BY <1>8, <2>2, <3>2
  <2> QED
    BY <2>1, <2>2
<1>10. ASSUME NEW v \in Verifier PROVE Delivered(v, G[d[Prover]], G[d[v]])'
  <2>1. v \in Party /\ Prover \in Party
    BY Sizes
  <2>2. /\ G[d[Prover]] = IF p = Prover THEN q ELSE H[c[Prover]]
        /\ G[d[v]] = IF p = v THEN q ELSE H[c[v]]
    BY <1>8, <2>1
  <2> QED
    BY <2>2
<1>11. Party' = Party /\ Verifier' = Verifier /\ Prover' = Prover
  BY DEF Party, Verifier, Prover
<1>12. OnPath(G, M, d)'
  <2>1. OnPath(G, M, d)' <=> /\ Path(G, M)' /\ d \in [Party -> 0 .. M]
                             /\ \A o \in Party : As(o, G[d[o]])'
                             /\ \A v \in Verifier : Delivered(v, G[d[Prover]], G[d[v]])'
    BY <1>11 DEF OnPath
  <2> QED
    BY <1>5, <1>7, <1>9, <1>10, <2>1
<1> QED
  BY <1>12

\* A party stays where it is on the path.
LEMMA Rests ==
  ASSUME ProgOK, UNCHANGED prog, NEW H, NEW N, NEW c, OnPath(H, N, c),
         \A o \in Party : As(o, H[c[o]])' \/ Still(o),
         \A v \in Verifier : Delivered(v, H[c[Prover]], H[c[v]])'
  PROVE  \E G, M, d : OnPath(G, M, d)'
<1>1. Path(H, N) /\ c \in [Party -> 0 .. N] /\ \A o \in Party : As(o, H[c[o]])
  BY DEF OnPath
<1>0. Len(prog) \in Nat
  BY SeqFacts DEF ProgOK
<1>2. ProgOK' /\ Grown
  <2>1. Grown
    BY <1>0 DEF Grown
  <2>2. ProgOK' <=> ProgOK
    BY DEF ProgOK, CallOK, MakesSlot, IsShared, IsLinear
  <2> QED
    BY <2>1, <2>2
<1>3. Path(H, N)'
  BY <1>1, <1>2, PathGrows
<1>4. ASSUME NEW o \in Party PROVE As(o, H[c[o]])'
  <2>1. c[o] \in 0 .. N
    BY <1>1
  <2>2. Good(H[c[o]])
    BY <1>1, <2>1, PathGood
  <2>3. Still(o) => As(o, H[c[o]])'
    BY <1>1, <1>2, <2>2, Stays
  <2> QED
    BY <2>3
<1>11. Party' = Party /\ Verifier' = Verifier /\ Prover' = Prover
  BY DEF Party, Verifier, Prover
<1>12. OnPath(H, N, c)'
  <2>1. OnPath(H, N, c)' <=> /\ Path(H, N)' /\ c \in [Party -> 0 .. N]
                             /\ \A o \in Party : As(o, H[c[o]])'
                             /\ \A v \in Verifier : Delivered(v, H[c[Prover]], H[c[v]])'
    BY <1>11 DEF OnPath
  <2> QED
    BY <1>1, <1>3, <1>4, <2>1
<1> QED
  BY <1>12

\* The first message on its way is the one the machine sends next.
LEMMA FirstOnWire ==
  ASSUME NEW v, NEW s, NEW r, NEW m, Delivered(v, s, r), IsSeq(s.log), IsSeq(r.got),
         Begins(Append(r.got, m), s.log), wire[v] # <<>>
  PROVE  Head(wire[v]) = m
<1>1. IsSeq(wire[v]) /\ Len(r.got) \in Nat
  BY SeqFacts DEF Delivered, Line
<1>2. Len(wire[v]) \in Nat \ {0} /\ Head(wire[v]) = wire[v][1]
  BY <1>1, SeqTail
<1>3. wire[v][1] = s.log[Len(r.got) + 1]
  <2>1. 1 \in 1 .. Len(wire[v])
    BY <1>2
  <2> QED
    BY <2>1 DEF Delivered, Line
<1>4. Append(r.got, m)[Len(r.got) + 1] = m /\ Len(Append(r.got, m)) = Len(r.got) + 1
  BY SeqAppend
<1>5. s.log[Len(r.got) + 1] = m
  <2>1. Len(r.got) + 1 \in 1 .. Len(Append(r.got, m))
    BY <1>1, <1>4
  <2> QED
    BY <1>4, <2>1 DEF Begins
<1> QED
  BY <1>2, <1>3, <1>5

\* A verifier to which something is under way is not ahead of the prover.
LEMMA SenderAhead ==
  ASSUME ProgOK, NEW H, NEW N, NEW c, OnPath(H, N, c), NEW v \in Verifier,
         wire[v] # <<>> \/ buf[v] # <<>>
  PROVE  /\ c[v] <= c[Prover]
         /\ H[c[v]].got = H[c[v]].log => c[v] < c[Prover]
<1> DEFINE r == H[c[v]]
           s == H[c[Prover]]
<1>1. /\ Path(H, N) /\ c[v] \in 0 .. N /\ c[Prover] \in 0 .. N /\ Delivered(v, s, r) /\ N \in Nat
  BY Sizes DEF OnPath, Path
<1>2. Good(r) /\ Good(s)
  BY <1>1, PathGood
<1>3. IsSeq(s.log) /\ IsSeq(r.got) /\ IsSeq(r.log)
  BY <1>2, GoodMeans DEF StateType
<1>4. Len(s.log) > Len(r.got) /\ Len(s.log) \in Nat /\ Len(r.got) \in Nat
  <2>1. /\ Len(s.log) = Len(r.got) + Len(wire[v]) + Len(buf[v]) /\ IsSeq(wire[v]) /\ IsSeq(buf[v])
    BY <1>1 DEF Delivered, Line
  <2>2. Len(wire[v]) > 0 \/ Len(buf[v]) > 0
    BY <2>1, SeqTail
  <2>3. Len(s.log) \in Nat /\ Len(r.got) \in Nat /\ Len(wire[v]) \in Nat /\ Len(buf[v]) \in Nat
    BY <1>3, <2>1, SeqFacts
  <2> HIDE DEF r, s
  <2>4. \A x, y, z, w \in Nat : x = y + z + w /\ (z > 0 \/ w > 0) => x > y
    OBVIOUS
  <2> QED
    BY ONLY <2>1, <2>2, <2>3, <2>4
<1> HIDE DEF r, s
<1>5. ASSUME c[Prover] < c[v] PROVE FALSE
  <2>1. c[Prover] \in 0 .. c[v] - 1
    BY <1>1, <1>5
  <2>2. Before(s, r)
    BY <1>1, <2>1, PathBefore DEF r, s
  <2> QED
    BY <1>4, <2>2 DEF Before, Begins
<1>6. ASSUME c[Prover] = c[v], r.got = r.log PROVE FALSE
  <2>1. s = r
    BY <1>6 DEF r, s
  <2> QED
    BY <1>4, <1>6, <2>1
<1> QED
  BY <1>1, <1>5, <1>6 DEF r

\* What the machine does next where the verifier is, the prover has done.
LEMMA SenderBeyond ==
  ASSUME ProgOK, NEW H, NEW N, NEW c, OnPath(H, N, c), NEW v \in Verifier, c[v] < c[Prover]
  PROVE  /\ H[c[v]].pos < Len(prog) /\ Begins(Succ(H[c[v]]).log, H[c[Prover]].log)
         /\ IsSeq(H[c[Prover]].log)
<1>1. Path(H, N) /\ c[v] \in 0 .. N /\ c[Prover] \in 0 .. N /\ N \in Nat
  BY Sizes DEF OnPath, Path
<1> DEFINE i == c[v] + 1
<1>2. i \in 1 .. N /\ i - 1 = c[v] /\ i \in 0 .. N
  BY <1>1
<1>3. H[c[v]].pos < Len(prog) /\ H[i] = Succ(H[c[v]])
  BY <1>1, <1>2 DEF Path
<1>4. Good(H[i]) /\ Good(H[c[Prover]])
  BY <1>1, <1>2, PathGood
<1>5. IsSeq(H[i].log) /\ IsSeq(H[c[Prover]].log) /\ IsSeq(H[c[Prover]].got)
  BY <1>4, GoodMeans DEF StateType
<1>6. Begins(H[i].log, H[c[Prover]].log)
  <2>1. CASE i = c[Prover]
    BY <1>5, <2>1, BeginsAppend
  <2>2. CASE i # c[Prover]
    <3>1. i \in 0 .. c[Prover] - 1
      BY <1>1, <2>2
    <3>2. Before(H[i], H[c[Prover]])
      BY <1>1, <3>1, PathBefore
    <3>3. Begins(H[c[Prover]].got, H[c[Prover]].log)
      BY <1>4, GotBegins
    <3> QED
      BY <1>5, <3>2, <3>3, BeginsTrans DEF Before
  <2> QED
    BY <2>1, <2>2
<1> QED
  BY <1>3, <1>5, <1>6

-----------------------------------------------------------------------------
(* The pool of preprocessed sharings.                                      *)

LEMMA AsMeans ==
  ASSUME NEW p, NEW r, As(p, r)
  PROVE  /\ PartyAs(p, r)
         /\ pc[p] = r.pc \/ (pc[p] = "open" /\ r.pc = "next") \/ (pc[p] = "mesh" /\ r.pc = "tail")
         /\ pc[p] \notin {"open", "mesh"} => pos[p] = r.pos
<1>1. CASE p = Prover
  <2>1. ProverAs(r)
    BY <1>1 DEF As
  <2> QED
    BY <1>1, <2>1 DEF ProverAs
<1>2. CASE p # Prover
  <2>1. VerifierAs(p, r)
    BY <1>2 DEF As
  <2> QED
    BY <2>1 DEF VerifierAs, Stands
<1> QED
  BY <1>1, <1>2

LEMMA PoolSame ==
  ASSUME NEW p, NEW r, As(p, r)
  PROVE  /\ Need(p) = NeedOf(r) /\ (Filling(p) <=> FillingOf(r)) /\ (Starved(p) <=> StarvedOf(r))
         /\ NextMasks(p) = MasksOf(r)
         /\ pool[p] = r.pool /\ ptr[p] = r.ptr /\ authPtr[p] = r.authPtr
         /\ entered[p] = r.entered /\ extends[p] = r.extends
<1>1. /\ PartyAs(p, r)
      /\ pc[p] = r.pc \/ (pc[p] = "open" /\ r.pc = "next") \/ (pc[p] = "mesh" /\ r.pc = "tail")
  BY AsMeans
<1>2. Need(p) = NeedOf(r)
  BY <1>1 DEF Need, NeedOf, PartyAs
<1>3. /\ pool[p] = r.pool /\ ptr[p] = r.ptr /\ authPtr[p] = r.authPtr
      /\ entered[p] = r.entered /\ extends[p] = r.extends
  BY <1>1 DEF PartyAs
<1>4. Filling(p) <=> FillingOf(r)
  BY <1>3 DEF Filling, FillingOf
<1>5. Starved(p) <=> StarvedOf(r)
  BY <1>2, <1>3, <1>4 DEF Starved, StarvedOf
<1>6. NextMasks(p) = MasksOf(r)
  BY <1>2, <1>3 DEF NextMasks, MasksOf
<1> QED
  BY <1>2, <1>3, <1>4, <1>5, <1>6

LEMMA PoolAs ==
  ASSUME ProgOK, ProgOK', Grown, NEW p, NEW r, NEW q, Good(r), As(p, r), PoolOnly(r, q), PartyAs(p, q)',
         UNCHANGED <<pos, pc, pending, triples, slots, transcript, posted, meshed, checked>>
  PROVE  As(p, q)'
<1>1. /\ q.pos = r.pos /\ q.pc = r.pc /\ q.pending = r.pending /\ q.made = r.made /\ q.done = r.done
      /\ q.from = r.from /\ q.trans = r.trans /\ q.posted = r.posted
  BY DEF PoolOnly
<1>2. r.from \in Nat /\ r.done \in Nat /\ Len(r.made) \in Nat /\ r.done <= Len(r.made)
  BY GoodMeans DEF StateType
<1>3. CASE p = Prover
  <2>1. ProverAs(r)
    BY <1>3 DEF As
  <2>2. Products(r.made, r.from, Len(r.made))' = Products(r.made, r.from, Len(r.made))
    BY <1>2, MadeGrows
  <2>3. Products(q.made, q.from, Len(q.made))' = Products(r.made, r.from, Len(r.made))'
    BY <1>1 DEF Products
  <2>4. triples'[p] = Products(q.made, q.from, Len(q.made))' /\ pos'[p] = q.pos /\ pc'[p] = q.pc
    BY <1>1, <1>3, <2>1, <2>2, <2>3 DEF ProverAs
  <2>5. ProverAs(q)'
    BY <1>3, <2>4 DEF ProverAs, Prover
  <2> QED
    BY <1>3, <2>5 DEF As, Prover
<1>4. CASE p # Prover
  <2>1. VerifierAs(p, r)
    BY <1>4 DEF As
  <2>2. Stands(p, q)'
    BY <1>1, <2>1 DEF VerifierAs, Stands
  <2>3. Answered(p, q)'
    BY <1>1, <2>1 DEF VerifierAs, Answered
  <2>4. Records(p, q)'
    <3>1. PICK f \in 0 .. r.done :
            /\ checked[p] = Products(r.made, 0, f) /\ triples[p] = Products(r.made, f, r.done)
            /\ IF pc[p] = "mesh" THEN r.from = r.done ELSE f = r.from
      BY <2>1 DEF VerifierAs, Records
    <3>2. /\ checked'[p] = Products(r.made, 0, f)' /\ triples'[p] = Products(r.made, f, r.done)'
          /\ IF pc'[p] = "mesh" THEN r.from = r.done ELSE f = r.from
      BY <3>1, RecordsGrow
    <3>3. f \in 0 .. q.done /\ /\ checked'[p] = Products(q.made, 0, f)'
                               /\ triples'[p] = Products(q.made, f, q.done)'
                               /\ IF pc'[p] = "mesh" THEN q.from = q.done ELSE f = q.from
      BY <1>1, <3>2 DEF Products
    <3> QED
      BY <3>3 DEF Records
  <2>5. SlotsRight(slots[p], Upto(q), ToSet(pending[p]))'
    <3> PICK s, T, m : s = slots[p] /\ T = ToSet(pending[p]) /\ m = Upto(r)
      OBVIOUS
    <3>1. SlotsRight(s, m, T) /\ m \in 0 .. Len(prog)
      BY <2>1, UptoIn DEF VerifierAs
    <3>2. SlotsRight(s, m, T)'
      BY <3>1, SlotsGrow
    <3>3. Upto(q)' = m /\ slots'[p] = s /\ ToSet(pending[p])' = T
      BY <1>1 DEF Upto, ToSet
    <3>4. SlotsRight(slots[p], Upto(q), ToSet(pending[p]))' <=> SlotsRight(s, m, T)'
      BY <3>3 DEF SlotsRight
    <3> QED
      BY <3>2, <3>4
  <2>6. VerifierAs(p, q)'
    BY <2>2, <2>3, <2>4, <2>5 DEF VerifierAs
  <2> QED
    BY <1>4, <2>6 DEF As, Prover
<1> QED
  BY <1>3, <1>4

\* A party that uses the pool is in a call.
LEMMA StarvedInCall ==
  ASSUME ProgOK, NEW r, Good(r), StarvedOf(r)
  PROVE  r.pos < Len(prog) /\ r.pc \in {"batch", "round"}
<1>1. r.pc \in {"batch", "round"}
  BY DEF StarvedOf, NeedOf
<1> QED
  BY <1>1, GoodMeans DEF StatePlaced

LEMMA OthersStill ==
  ASSUME NInv, NEW p \in Party, NEW o \in Party, o # p, NEW e1, NEW e2, NEW e3, NEW e4, NEW e5,
         pool' = pool \/ pool' = [pool EXCEPT ![p] = e1],
         ptr' = ptr \/ ptr' = [ptr EXCEPT ![p] = e2],
         authPtr' = authPtr \/ authPtr' = [authPtr EXCEPT ![p] = e3],
         entered' = entered \/ entered' = [entered EXCEPT ![p] = e4],
         extends' = extends \/ extends' = [extends EXCEPT ![p] = e5],
         UNCHANGED <<pos, pc, pending, batches, triples, dim, slots, transcript, posted, meshed, checked>>
  PROVE  Still(o)
<1>1. NetShapes
  BY DEF NInv
<1>2. pool'[o] = pool[o]
  BY <1>1 DEF NetShapes
<1>3. ptr'[o] = ptr[o]
  BY <1>1 DEF NetShapes
<1>4. authPtr'[o] = authPtr[o]
  BY <1>1 DEF NetShapes
<1>5. entered'[o] = entered[o]
  BY <1>1 DEF NetShapes
<1>6. extends'[o] = extends[o]
  BY <1>1 DEF NetShapes
<1> QED
  BY <1>2, <1>3, <1>4, <1>5, <1>6 DEF Still

LEMMA PathFacts ==
  ASSUME NInv, NEW H, NEW N, NEW c, OnPath(H, N, c), NEW p \in Party
  PROVE  /\ c[p] \in 0 .. N /\ Path(H, N) /\ N \in Nat
         /\ Good(H[c[p]]) /\ As(p, H[c[p]]) /\ ProgOK
<1>1. c[p] \in 0 .. N /\ Path(H, N) /\ N \in Nat /\ As(p, H[c[p]]) /\ ProgOK
  BY DEF OnPath, Path, NInv, WInv
<1> QED
  BY <1>1, PathGood

LEMMA RandStep ==
  ASSUME NInv, NEW p \in Party, RandAuthVal(p)
  PROVE  \E G, M, d : OnPath(G, M, d)'
<1>1. PICK H, N, c : OnPath(H, N, c)
  BY DEF NInv
<1> DEFINE r == H[c[p]]
           q == RandOf(r)
<1>2. Good(r) /\ As(p, r) /\ ProgOK
  BY <1>1, PathFacts
<1>3. /\ Need(p) = NeedOf(r) /\ (Filling(p) <=> FillingOf(r)) /\ (Starved(p) <=> StarvedOf(r))
      /\ pool[p] = r.pool /\ ptr[p] = r.ptr /\ authPtr[p] = r.authPtr
      /\ entered[p] = r.entered /\ extends[p] = r.extends
      /\ PartyAs(p, r)
  BY <1>2, PoolSame, AsMeans, SMTT(40), ZenonT(40)
<1>4. StarvedOf(r) /\ r.authPtr < Usable /\ UNCHANGED <<prog, pos, pc, pending, batches, triples, dim, slots,
                                                       transcript, posted, meshed, checked, buf, wire>>
  BY <1>3 DEF RandAuthVal, slotVars, checkVars, netVars
<1>5. IsState(r) /\ Extending(r)
  BY <1>2, GoodMeans
<1>6. Act(r) = "rand"
  BY <1>4, <1>5 DEF Act, Extending
<1>7. ProgOK' /\ Grown
  BY <1>4, SameProg DEF NInv
<1>8. r.pos < Len(prog)
  BY <1>2, <1>4, StarvedInCall
<1>9. r.pos < Len(prog') /\ q = Succ(r)'
  <2>1. Succ(r) = q
    BY <1>6 DEF Succ
  <2>2. Succ(r)' = Succ(r)
    BY <1>2, <1>7, <1>8, SuccGrows
  <2> QED
    BY <1>4, <1>8, <2>1, <2>2
<1> DEFINE old   == IF Filling(p) THEN pool[p] ELSE <<>>
           short == PreAuthSharingNum - Len(old)
           left  == Usable - authPtr[p]
           take  == IF short < left THEN short ELSE left
           piece == old \o [l \in 1 .. take |-> FirstLeft(p) + l]
           first == IF take = short THEN 0 ELSE ptr[p]
<1>10. /\ pool' = [pool EXCEPT ![p] = piece]
       /\ authPtr' = [authPtr EXCEPT ![p] = authPtr[p] + take]
       /\ ptr' = [ptr EXCEPT ![p] = first]
       /\ UNCHANGED <<entered, extends>>
  BY DEF RandAuthVal
<1>11. q.pool = piece /\ q.authPtr = authPtr[p] + take /\ q.ptr = first
  <2> DEFINE old2   == IF FillingOf(r) THEN r.pool ELSE <<>>
             short2 == PreAuthSharingNum - Len(old2)
             left2  == Usable - r.authPtr
             take2  == IF short2 < left2 THEN short2 ELSE left2
             start  == (r.extends - 1) * Usable + r.authPtr
  <2>1. /\ q.pool = old2 \o [l \in 1 .. take2 |-> start + l]
        /\ q.authPtr = r.authPtr + take2 /\ q.ptr = IF take2 = short2 THEN 0 ELSE r.ptr
    BY <1>5, RandFields
  <2>2. old = old2 /\ left = left2 /\ FirstLeft(p) = start
    BY <1>3 DEF FirstLeft
  <2>3. short = short2 /\ take = take2
    BY <2>2
  <2> HIDE DEF q, old, old2, short, short2, left, left2, take, take2, start
  <2>4. q.pool = old \o [l \in 1 .. take |-> FirstLeft(p) + l]
    BY <2>1, <2>2, <2>3
  <2>5. q.authPtr = authPtr[p] + take
    BY <1>3, <2>1, <2>3
  <2>6. q.ptr = IF take = short THEN 0 ELSE ptr[p]
    BY <1>3, <2>1, <2>3
  <2> QED
    BY <2>4, <2>5, <2>6, SMTT(40), ZenonT(40)
<1>12. PoolOnly(r, q) /\ q.entered = r.entered /\ q.extends = r.extends /\ q.log = r.log /\ q.got = r.got
       /\ q.batches = r.batches /\ q.dim = r.dim
  BY <1>5, RandFields DEF PoolOnly
<1> HIDE DEF q, piece, take, first
<1>13. PartyAs(p, q)'
  <2>1. pool'[p] = piece /\ authPtr'[p] = authPtr[p] + take /\ ptr'[p] = first
    BY <1>10 DEF NInv, NetShapes
  <2> QED
    BY <1>3, <1>4, <1>10, <1>11, <1>12, <2>1 DEF PartyAs, PoolOnly
<1>14. As(p, q)'
  BY <1>2, <1>4, <1>7, <1>12, <1>13, PoolAs
<1>15. ASSUME NEW o \in Party, o # p PROVE Still(o)
  BY <1>4, <1>10, <1>15, OthersStill
<1>16. ASSUME NEW v \in Verifier
       PROVE  Delivered(v, IF p = Prover THEN q ELSE H[c[Prover]], IF p = v THEN q ELSE H[c[v]])'
  <2>1. Delivered(v, H[c[Prover]], H[c[v]])
    BY <1>1 DEF OnPath
  <2> QED
    BY <1>4, <1>12, <2>1 DEF Delivered
<1> QED
  BY <1>1, <1>2, <1>7, <1>9, <1>14, <1>15, <1>16, Moves

LEMMA GoodSeqs == ASSUME NEW r, Good(r) PROVE IsSeq(r.log) /\ IsSeq(r.got) /\ IsSeq(r.posted) /\ IsSeq(r.trans)
BY GoodMeans DEF StateType

LEMMA EnterStep ==
  ASSUME NInv, NEW p \in Party, EnterExtend(p)
  PROVE  \E G, M, d : OnPath(G, M, d)'
<1>1. PICK H, N, c : OnPath(H, N, c)
  BY DEF NInv
<1> DEFINE r == H[c[p]]
           q == EnterOf(r)
<1>2. Good(r) /\ As(p, r) /\ ProgOK
  BY <1>1, PathFacts
<1>3. /\ (Starved(p) <=> StarvedOf(r)) /\ authPtr[p] = r.authPtr
      /\ entered[p] = r.entered /\ extends[p] = r.extends /\ PartyAs(p, r)
  BY <1>2, PoolSame, AsMeans
<1>4. StarvedOf(r) /\ r.authPtr = Usable /\ r.entered = r.extends
      /\ UNCHANGED <<prog, pos, pc, pending, batches, triples, dim, pool, ptr, authPtr, extends, slots,
                     transcript, posted, meshed, checked>>
      /\ entered' = [entered EXCEPT ![p] = @ + 1]
      /\ IF p = Prover THEN SendFlush(ExtendMsg) ELSE UNCHANGED <<buf, wire>>
  BY <1>3 DEF EnterExtend, slotVars, checkVars, ExtendMsg
<1>5. IsState(r) /\ r.entered \in Nat /\ IsSeq(r.log)
  BY <1>2, GoodMeans DEF StateType
<1>6. Act(r) = "enter"
  <2>1. Usable \in Nat
    BY Numbers
  <2> QED
    BY <1>4, <1>5, <2>1 DEF Act
<1>7. ProgOK' /\ Grown
  BY <1>4, SameProg DEF NInv
<1>8. r.pos < Len(prog)
  BY <1>2, <1>4, StarvedInCall
<1>9. r.pos < Len(prog') /\ q = Succ(r)'
  <2>1. Succ(r) = q
    BY <1>6 DEF Succ
  <2>2. Succ(r)' = Succ(r)
    BY <1>2, <1>7, <1>8, SuccGrows
  <2> QED
    BY <1>4, <1>8, <2>1, <2>2
<1>10. /\ PoolOnly(r, q) /\ q.entered = r.entered + 1 /\ q.log = Append(r.log, ExtendMsg) /\ q.got = r.got
       /\ q.extends = r.extends /\ q.pool = r.pool /\ q.ptr = r.ptr /\ q.authPtr = r.authPtr
       /\ q.batches = r.batches /\ q.dim = r.dim
  BY <1>5, EnterFields, SMTT(40), ZenonT(40) DEF PoolOnly
<1> HIDE DEF q
<1>11. PartyAs(p, q)'
  <2>1. entered'[p] = entered[p] + 1
    BY <1>4 DEF NInv, NetShapes
  <2> QED
    BY <1>3, <1>4, <1>10, <2>1 DEF PartyAs, PoolOnly
<1>12. As(p, q)'
  BY <1>2, <1>4, <1>7, <1>10, <1>11, PoolAs
<1>13. ASSUME NEW o \in Party, o # p PROVE Still(o)
  BY <1>4, <1>13, OthersStill
<1>14. ASSUME NEW v \in Verifier
       PROVE  Delivered(v, IF p = Prover THEN q ELSE H[c[Prover]], IF p = v THEN q ELSE H[c[v]])'
  <2>1. Delivered(v, H[c[Prover]], H[c[v]]) /\ v # Prover /\ v \in Party
    BY <1>1, Sizes DEF OnPath
  <2>2. CASE p # Prover
    BY <1>4, <1>10, <2>1, <2>2 DEF Delivered
  <2>3. CASE p = Prover
    <3> DEFINE g == H[c[v]].got
               m == ExtendMsg
    <3>1. IsSeq(g)
      BY <1>1, <2>1, PathFacts, GoodSeqs
    <3>2. Line(r.log, g, wire[v], buf[v])
      BY <2>1, <2>3 DEF Delivered
    <3> HIDE DEF g, m, r
    <3>3. Line(r.log, g, wire[v] \o buf[v], <<>>)
      BY <1>5, <3>1, <3>2, LineFlush
    <3>4. Line(Append(r.log, m), g, Append(wire[v] \o buf[v], m), <<>>)
      BY <1>5, <3>1, <3>3, LineDirect
    <3>5. wire'[v] = Append(wire[v] \o buf[v], m) /\ buf'[v] = <<>>
      BY <1>4, <2>3 DEF SendFlush, m
    <3>6. Line(q.log, g, wire'[v], buf'[v])
      BY <1>10, <3>4, <3>5 DEF m
    <3>7. Delivered(v, q, H[c[v]])'
      BY <3>6, ZenonT(60), SMTT(40) DEF Delivered, g, Line, Begins, IsSeq
    <3> QED
      BY <2>1, <2>3, <3>7
  <2> QED
    BY <2>2, <2>3
<1> QED
  BY <1>1, <1>2, <1>7, <1>9, <1>12, <1>13, <1>14, Moves

\* A verifier takes the next message from the wire.
LEMMA TakesNext ==
  ASSUME NEW s, NEW r, NEW v \in Verifier, NEW q, Delivered(v, s, r),
         IsSeq(s.log), IsSeq(r.got), wire[v] # <<>>, Receive(v), DOMAIN wire = Verifier,
         q.got = Append(r.got, Head(wire[v]))
  PROVE  /\ Delivered(v, s, q)'
         /\ \A w \in Verifier : w # v => wire'[w] = wire[w]
         /\ buf' = buf
<1>1. wire'[v] = Tail(wire[v]) /\ buf' = buf /\ \A w \in Verifier : w # v => wire'[w] = wire[w]
  BY DEF Receive
<1>2. Line(s.log, q.got, wire'[v], buf'[v])
  <2>1. Line(s.log, r.got, wire[v], buf[v])
    BY DEF Delivered
  <2>2. Line(s.log, Append(r.got, Head(wire[v])), Tail(wire[v]), buf[v])
    BY <2>1, LineReceive
  <2> QED
    BY <1>1, <2>2
<1> QED
  BY <1>1, <1>2, ZenonT(60), SMTT(40) DEF Delivered, Line, Begins, IsSeq

LEMMA LeaveStep ==
  ASSUME NInv, NEW p \in Party, LeaveExtend(p)
  PROVE  \E G, M, d : OnPath(G, M, d)'
<1>1. PICK H, N, c : OnPath(H, N, c)
  BY DEF NInv
<1> DEFINE r == H[c[p]]
           q == LeaveOf(r)
<1>2. Good(r) /\ As(p, r) /\ ProgOK
  BY <1>1, PathFacts
<1>3. /\ (Starved(p) <=> StarvedOf(r)) /\ authPtr[p] = r.authPtr
      /\ entered[p] = r.entered /\ extends[p] = r.extends /\ PartyAs(p, r)
  BY <1>2, PoolSame, AsMeans
<1>4. r.entered > r.extends
      /\ UNCHANGED <<prog, pos, pc, pending, batches, triples, dim, pool, ptr, entered, slots,
                     transcript, posted, meshed, checked>>
      /\ extends' = [extends EXCEPT ![p] = @ + 1]
      /\ authPtr' = [authPtr EXCEPT ![p] = 0]
      /\ IF p = Prover THEN UNCHANGED <<buf, wire>> ELSE wire[p] # <<>> /\ Receive(p)
  BY <1>3 DEF LeaveExtend, slotVars, checkVars, netVars, Arrived
<1>5. IsState(r) /\ IsSeq(r.log) /\ IsSeq(r.got) /\ Extending(r)
  BY <1>2, GoodMeans DEF StateType
<1>6. Act(r) = "leave" /\ StarvedOf(r) /\ r.log = Append(r.got, ExtendMsg)
  BY <1>4, <1>5 DEF Act, Extending
<1>7. ProgOK' /\ Grown
  BY <1>4, SameProg DEF NInv
<1>8. r.pos < Len(prog)
  BY <1>2, <1>6, StarvedInCall
<1>9. r.pos < Len(prog') /\ q = Succ(r)'
  <2>1. Succ(r) = q
    BY <1>6 DEF Succ
  <2>2. Succ(r)' = Succ(r)
    BY <1>2, <1>7, <1>8, SuccGrows
  <2> QED
    BY <1>4, <1>8, <2>1, <2>2
<1>10. /\ PoolOnly(r, q) /\ q.entered = r.entered /\ q.log = r.log /\ q.got = r.log
       /\ q.extends = r.extends + 1 /\ q.pool = r.pool /\ q.ptr = r.ptr /\ q.authPtr = 0
       /\ q.batches = r.batches /\ q.dim = r.dim
  BY <1>5, LeaveFields DEF PoolOnly
<1> HIDE DEF q
<1>11. PartyAs(p, q)'
  <2>1. extends'[p] = extends[p] + 1 /\ authPtr'[p] = 0
    BY <1>4 DEF NInv, NetShapes
  <2> QED
    BY <1>3, <1>4, <1>10, <2>1 DEF PartyAs, PoolOnly
<1>12. As(p, q)'
  BY <1>2, <1>4, <1>7, <1>10, <1>11, PoolAs
<1>13. ASSUME NEW o \in Party, o # p PROVE Still(o)
  BY <1>4, <1>13, OthersStill
<1>14. CASE p = Prover
  <2>1. ASSUME NEW v \in Verifier PROVE Delivered(v, q, H[c[v]])' /\ p # v
    <3>1. Delivered(v, H[c[Prover]], H[c[v]]) /\ v # Prover
      BY <1>1, Sizes DEF OnPath
    <3> QED
      BY <1>4, <1>10, <1>14, <3>1 DEF Delivered
  <2> QED
    BY <1>1, <1>2, <1>7, <1>9, <1>12, <1>13, <1>14, <2>1, Moves
<1>15. CASE p # Prover
  <2>1. p \in Verifier /\ Prover \in Party /\ wire[p] # <<>> /\ Receive(p) /\ DOMAIN wire = Verifier
    BY <1>4, <1>15, Sizes DEF NInv, NetShapes
  <2> DEFINE s == H[c[Prover]]
  <2>2. Delivered(p, s, r) /\ c[p] <= c[Prover]
    BY <1>1, <1>2, <2>1, SenderAhead DEF OnPath
  <2>3. Good(s) /\ IsSeq(s.log) /\ IsSeq(s.got)
    BY <1>1, <2>1, PathFacts, GoodSeqs
  <2>4. Begins(r.log, s.log)
    <3>1. CASE c[p] = c[Prover]
      BY <1>5, <3>1, BeginsAppend
    <3>2. CASE c[p] # c[Prover]
      <4>1. c[p] < c[Prover] /\ c[Prover] \in 0 .. N /\ c[p] \in 0 .. c[Prover] - 1
        <5>1. c[p] \in 0 .. N /\ c[Prover] \in 0 .. N /\ N \in Nat
          BY <1>1, <2>1, PathFacts
        <5> QED
          BY <2>2, <3>2, <5>1
      <4>2. Before(r, s)
        BY <1>1, <1>2, <4>1, PathBefore DEF OnPath
      <4>3. Begins(s.got, s.log)
        BY <2>3, GotBegins
      <4> HIDE DEF s, r
      <4> QED
        BY <1>5, <2>3, <4>2, <4>3, BeginsTrans DEF Before
    <3> QED
      BY <3>1, <3>2
  <2> DEFINE m == ExtendMsg
  <2>5. Begins(Append(r.got, m), s.log)
    BY <1>6, <2>4
  <2> HIDE DEF m
  <2>6. Head(wire[p]) = m
    BY <1>5, <2>1, <2>2, <2>3, <2>5, FirstOnWire
  <2>7. q.got = Append(r.got, Head(wire[p]))
    BY <1>6, <1>10, <2>6, SMTT(40), ZenonT(40) DEF m
  <2>8. /\ Delivered(p, s, q)' /\ buf' = buf
        /\ \A w \in Verifier : w # p => wire'[w] = wire[w]
    BY <1>5, <2>1, <2>2, <2>3, <2>7, TakesNext, SMTT(40), ZenonT(40), Z3T(40)
  <2>9. ASSUME NEW v \in Verifier
        PROVE  Delivered(v, IF p = Prover THEN q ELSE H[c[Prover]], IF p = v THEN q ELSE H[c[v]])'
    <3>1. Delivered(v, H[c[Prover]], H[c[v]])
      BY <1>1 DEF OnPath
    <3>2. CASE v = p
      BY <1>15, <2>8, <3>2
    <3>3. CASE v # p
      BY <1>15, <2>8, <3>1, <3>3 DEF Delivered
    <3> QED
      BY <3>2, <3>3
  <2> QED
    BY <1>1, <1>2, <1>7, <1>9, <1>12, <1>13, <2>9, Moves
<1> QED
  BY <1>14, <1>15

\* A part of the send buffer is written out.
LEMMA WriteStep ==
  ASSUME NInv, NEW v \in Verifier, SpontaneousWrite(v)
  PROVE  \E G, M, d : OnPath(G, M, d)'
<1>1. PICK H, N, c : OnPath(H, N, c)
  BY DEF NInv
<1>2. ProgOK /\ DOMAIN wire = Verifier /\ DOMAIN buf = Verifier
  BY DEF NInv, WInv, NetShapes
<1>3. /\ buf[v] # <<>>
      /\ wire' = [wire EXCEPT ![v] = Append(@, Head(buf[v]))]
      /\ buf' = [buf EXCEPT ![v] = Tail(@)]
      /\ UNCHANGED <<prog, pos, pc, pending, batches, triples, dim, pool, ptr, authPtr, entered, extends,
                     slots, transcript, posted, meshed, checked>>
  BY DEF SpontaneousWrite, poolVars, slotVars, checkVars
<1>4. \A o \in Party : Still(o)
  BY <1>3 DEF Still
<1>5. ASSUME NEW w \in Verifier PROVE Delivered(w, H[c[Prover]], H[c[w]])'
  <2>1. Delivered(w, H[c[Prover]], H[c[w]])
    BY <1>1 DEF OnPath
  <2>2. CASE w # v
    <3>1. wire'[w] = wire[w] /\ buf'[w] = buf[w]
      BY <1>2, <1>3, <2>2
    <3> QED
      BY <2>1, <3>1 DEF Delivered
  <2>3. CASE w = v
    <3>1. wire'[v] = Append(wire[v], Head(buf[v])) /\ buf'[v] = Tail(buf[v])
      BY <1>2, <1>3
    <3> DEFINE l == H[c[Prover]].log
               g == H[c[v]].got
    <3>2. IsSeq(l) /\ IsSeq(g)
      BY <1>1, Sizes, PathFacts, GoodSeqs
    <3>3. Line(l, g, wire[v], buf[v])
      BY <2>1, <2>3 DEF Delivered
    <3> HIDE DEF l, g
    <3>4. Line(l, g, wire'[v], buf'[v])
      BY <1>3, <3>1, <3>2, <3>3, LineWrite
    <3> QED
      BY <2>3, <3>4 DEF Delivered, Line, Begins, IsSeq, l, g
  <2> QED
    BY <2>2, <2>3
<1> QED
  BY <1>1, <1>2, <1>3, <1>4, <1>5, Rests

\* g differs from f at p only.
OnlyAt(f, g, p) == g = f \/ \E e : g = [f EXCEPT ![p] = e]

LEMMA OnlyAtKeeps ==
  ASSUME NEW f, NEW g, NEW p, NEW o, OnlyAt(f, g, p), o # p, o \in DOMAIN f
  PROVE  g[o] = f[o]
BY DEF OnlyAt

\* Everything a party has, as far as a step changes it.
LEMMA OnlyOneMoves ==
  ASSUME NInv, NEW p \in Party,
         OnlyAt(pos, pos', p), OnlyAt(pc, pc', p), OnlyAt(pending, pending', p),
         OnlyAt(batches, batches', p), OnlyAt(triples, triples', p), OnlyAt(dim, dim', p),
         OnlyAt(ptr, ptr', p), UNCHANGED <<pool, authPtr, entered, extends>>,
         OnlyAt(slots, slots', p), OnlyAt(transcript, transcript', p), OnlyAt(posted, posted', p),
         OnlyAt(meshed, meshed', p), OnlyAt(checked, checked', p)
  PROVE  \A o \in Party : o # p => Still(o)
<1> TAKE o \in Party
<1> HAVE o # p
<1>1. /\ DOMAIN pos = Party /\ DOMAIN pc = Party /\ DOMAIN pending = Party /\ DOMAIN batches = Party
      /\ DOMAIN triples = Party /\ DOMAIN dim = Party /\ DOMAIN ptr = Party
      /\ DOMAIN slots = Verifier /\ DOMAIN transcript = Verifier /\ DOMAIN posted = Verifier
      /\ DOMAIN meshed = Verifier /\ DOMAIN checked = Verifier
  BY DEF NInv, WInv, Shapes, NetShapes
<1>2. pos'[o] = pos[o]
  <2>1. OnlyAt(pos, pos', p) /\ o # p /\ o \in DOMAIN pos
    BY <1>1
  <2> QED
    BY ONLY <2>1, OnlyAtKeeps
<1>3. pc'[o] = pc[o]
  <2>1. OnlyAt(pc, pc', p) /\ o # p /\ o \in DOMAIN pc
    BY <1>1
  <2> QED
    BY ONLY <2>1, OnlyAtKeeps
<1>4. pending'[o] = pending[o]
  <2>1. OnlyAt(pending, pending', p) /\ o # p /\ o \in DOMAIN pending
    BY <1>1
  <2> QED
    BY ONLY <2>1, OnlyAtKeeps
<1>5. batches'[o] = batches[o]
  <2>1. OnlyAt(batches, batches', p) /\ o # p /\ o \in DOMAIN batches
    BY <1>1
  <2> QED
    BY ONLY <2>1, OnlyAtKeeps
<1>6. triples'[o] = triples[o]
  <2>1. OnlyAt(triples, triples', p) /\ o # p /\ o \in DOMAIN triples
    BY <1>1
  <2> QED
    BY ONLY <2>1, OnlyAtKeeps
<1>7. dim'[o] = dim[o]
  <2>1. OnlyAt(dim, dim', p) /\ o # p /\ o \in DOMAIN dim
    BY <1>1
  <2> QED
    BY ONLY <2>1, OnlyAtKeeps
<1>8. ptr'[o] = ptr[o]
  <2>1. OnlyAt(ptr, ptr', p) /\ o # p /\ o \in DOMAIN ptr
    BY <1>1
  <2> QED
    BY ONLY <2>1, OnlyAtKeeps
<1>9. o # Prover => o \in Verifier
  BY Sizes
<1>10. o # Prover => slots'[o] = slots[o]
  <2>1. OnlyAt(slots, slots', p) /\ o # p /\ (o # Prover => o \in DOMAIN slots)
    BY <1>1, <1>9
  <2> QED
    BY ONLY <2>1, OnlyAtKeeps
<1>11. o # Prover => transcript'[o] = transcript[o]
  <2>1. OnlyAt(transcript, transcript', p) /\ o # p /\ (o # Prover => o \in DOMAIN transcript)
    BY <1>1, <1>9
  <2> QED
    BY ONLY <2>1, OnlyAtKeeps
<1>12. o # Prover => posted'[o] = posted[o]
  <2>1. OnlyAt(posted, posted', p) /\ o # p /\ (o # Prover => o \in DOMAIN posted)
    BY <1>1, <1>9
  <2> QED
    BY ONLY <2>1, OnlyAtKeeps
<1>13. o # Prover => meshed'[o] = meshed[o]
  <2>1. OnlyAt(meshed, meshed', p) /\ o # p /\ (o # Prover => o \in DOMAIN meshed)
    BY <1>1, <1>9
  <2> QED
    BY ONLY <2>1, OnlyAtKeeps
<1>14. o # Prover => checked'[o] = checked[o]
  <2>1. OnlyAt(checked, checked', p) /\ o # p /\ (o # Prover => o \in DOMAIN checked)
    BY <1>1, <1>9
  <2> QED
    BY ONLY <2>1, OnlyAtKeeps
<1> QED
  BY <1>2, <1>3, <1>4, <1>5, <1>6, <1>7, <1>8, <1>9, <1>10, <1>11, <1>12, <1>13, <1>14 DEF Still

\* A product is recorded.
LEMMA RecordNow ==
  \A made, s : IsSeq(made) => \A i \in Nat : i <= Len(made) =>
    Products(Append(made, s), i, Len(made) + 1) = Append(Products(made, i, Len(made)), Triple(s))
<1> TAKE made, s
<1> HAVE IsSeq(made)
<1> TAKE i \in Nat
<1> HAVE i <= Len(made)
<1> DEFINE a == Append(made, s)
           j == Len(made)
<1>1. j \in Nat /\ a[j + 1] = s /\ \A l \in 1 .. j : a[l] = made[l]
  BY SeqFacts, SeqAppend
<1>2. Append(Products(a, i, j), Triple(a[j + 1])) = Products(a, i, j + 1)
  <2> HIDE DEF a, j
  <2> QED
    BY <1>1, ProductsFacts DEF j
<1>3. \A l \in 1 .. j - i : i + l \in 1 .. j
  BY <1>1
<1> HIDE DEF a, j
<1>4. Products(a, i, j) = Products(made, i, j)
  BY <1>1, <1>3 DEF Products
<1> QED
  BY <1>1, <1>2, <1>4 DEF a, j

LEMMA RecordNext ==
  (\A made, s : IsSeq(made) => \A i \in Nat : i <= Len(made) =>
     Products(Append(made, s), i, Len(made) + 1) = Append(Products(made, i, Len(made)), Triple(s)))'
BY RecordNow, PTL

LEMMA NextActs ==
  ASSUME NEW r, Good(r), r.pc \in {"next", "com", "tail"}
  PROVE  Act(r) = r.pc /\ r.entered = r.extends
<1>1. NeedOf(r) = 0
  BY DEF NeedOf
<1>2. ~StarvedOf(r)
  BY <1>1 DEF StarvedOf
<1>3. Extending(r)
  BY GoodMeans
<1> QED
  BY <1>2, <1>3 DEF Act, Extending

\* The first step of a call, on either side.
Begun(p, r, q, op) ==
  /\ IsState(q) /\ pos'[p] = q.pos /\ pc'[p] = q.pc /\ pending'[p] = q.pending
  /\ q.made = (IF op.kind = "mult" THEN Append(r.made, r.pos + 1) ELSE r.made)
  /\ q.batches = r.batches /\ q.done = r.done /\ q.from = r.from /\ q.dim = r.dim
  /\ q.pool = r.pool /\ q.ptr = r.ptr /\ q.authPtr = r.authPtr /\ q.entered = r.entered
  /\ q.extends = r.extends /\ q.log = r.log /\ q.got = r.got /\ q.trans = r.trans /\ q.posted = r.posted

LEMMA CallBegins ==
  ASSUME NInv, NEW p \in Party, NEW op \in NextCalls(p), Calling(p, op),
         IF IsShared(op) \/ IsFlush(op) THEN Share(p, op) ELSE Finish(p) /\ UNCHANGED pending,
         NEW r, Good(r), As(p, r)
  PROVE  /\ Succ(r)' = NextOf(r)' /\ Begun(p, r, NextOf(r)', op) /\ r.pos = pos[p] /\ r.pos < Len(prog')
         /\ r.pc = "next"
         /\ OnlyAt(pos, pos', p) /\ OnlyAt(pc, pc', p) /\ OnlyAt(pending, pending', p)
<1>1. /\ ProgOK' /\ Grown /\ pos[p] \in Nat /\ pos[p] < Len(prog') /\ prog'[pos[p] + 1] = op
  BY CallingFacts DEF NInv
<1>2. r.pc = "next" /\ r.pos = pos[p] /\ r.pending = pending[p] /\ IsState(r) /\ IsSeq(r.pending)
  <2>1. pc[p] = "next"
    BY DEF Calling
  <2> QED
    BY <2>1, AsMeans, GoodMeans DEF PartyAs
<1>3. Act(r) = "next" /\ Act(r)' = Act(r)
  BY <1>2, NextActs, ActSame
<1>4. Succ(r)' = NextOf(r)'
  BY <1>3 DEF Succ
<1>5. DOMAIN pos = Party /\ DOMAIN pc = Party /\ DOMAIN pending = Party
  BY DEF NInv, WInv, Shapes
<1> DEFINE q == NextOf(r)'
           s == r.pos + 1
           made == IF op.kind = "mult" THEN Append(r.made, s) ELSE r.made
<1>6. q = IF IsShared(op)
          THEN [r EXCEPT !.pending = Append(@, s), !.made = made, !.marks = Append(@, Len(made)),
                         !.pc = IF Len(r.pending) + 1 = k THEN "batch" ELSE "tail"]
          ELSE IF IsFlush(op)
          THEN [r EXCEPT !.pc = IF r.pending # <<>> THEN "batch" ELSE "tail"]
          ELSE [r EXCEPT !.pos = s]
  <2>1. prog'[r.pos + 1] = op
    BY <1>1, <1>2
  <2> QED
    BY <2>1 DEF NextOf, IsShared, IsFlush
<1>7. CASE IsShared(op)
  <2>1. ~IsFlush(op)
    BY <1>7 DEF IsShared, IsFlush
  <2>2. /\ pending' = [pending EXCEPT ![p] = Append(@, s)] /\ pos' = pos
        /\ pc' = [pc EXCEPT ![p] = IF Len(pending'[p]) = k THEN "batch" ELSE "tail"]
    BY <1>2, <1>7, <2>1 DEF Share, SharePending, Goto
  <2>3. pending'[p] = Append(r.pending, s) /\ Len(pending'[p]) = Len(r.pending) + 1
    BY <1>2, <1>5, <2>2, SeqAppend
  <2>4. pc'[p] = IF Len(r.pending) + 1 = k THEN "batch" ELSE "tail"
    BY <1>5, <2>2, <2>3
  <2>5. q = [r EXCEPT !.pending = Append(@, s), !.made = made, !.marks = Append(@, Len(made)),
                      !.pc = IF Len(r.pending) + 1 = k THEN "batch" ELSE "tail"]
    BY <1>6, <1>7
  <2> HIDE DEF q, made
  <2>6. /\ IsState(q) /\ q.pending = Append(r.pending, s) /\ q.made = made
        /\ q.pc = (IF Len(r.pending) + 1 = k THEN "batch" ELSE "tail") /\ q.pos = r.pos
        /\ q.batches = r.batches /\ q.done = r.done /\ q.from = r.from /\ q.dim = r.dim
        /\ q.pool = r.pool /\ q.ptr = r.ptr /\ q.authPtr = r.authPtr /\ q.entered = r.entered
        /\ q.extends = r.extends /\ q.log = r.log /\ q.got = r.got /\ q.trans = r.trans /\ q.posted = r.posted
    BY <1>2, <2>5 DEF IsState, Fields
  <2>7. Begun(p, r, q, op)
    BY <1>2, <2>2, <2>3, <2>4, <2>6 DEF Begun, made
  <2>8. OnlyAt(pos, pos', p) /\ OnlyAt(pc, pc', p) /\ OnlyAt(pending, pending', p)
    BY <2>2 DEF OnlyAt
  <2> QED
    BY <1>1, <1>2, <1>4, <2>7, <2>8 DEF q
<1>8. CASE ~IsShared(op) /\ IsFlush(op)
  <2>2. /\ pending' = pending /\ pos' = pos
        /\ pc' = [pc EXCEPT ![p] = IF pending[p] # <<>> THEN "batch" ELSE "tail"]
    BY <1>8 DEF Share, SharePending, Goto
  <2>4. pc'[p] = IF r.pending # <<>> THEN "batch" ELSE "tail"
    BY <1>2, <1>5, <2>2
  <2>5. q = [r EXCEPT !.pc = IF r.pending # <<>> THEN "batch" ELSE "tail"] /\ made = r.made
    BY <1>6, <1>8 DEF IsShared
  <2> HIDE DEF q, made
  <2>6. /\ IsState(q) /\ q.pending = r.pending /\ q.made = made
        /\ q.pc = (IF r.pending # <<>> THEN "batch" ELSE "tail") /\ q.pos = r.pos
        /\ q.batches = r.batches /\ q.done = r.done /\ q.from = r.from /\ q.dim = r.dim
        /\ q.pool = r.pool /\ q.ptr = r.ptr /\ q.authPtr = r.authPtr /\ q.entered = r.entered
        /\ q.extends = r.extends /\ q.log = r.log /\ q.got = r.got /\ q.trans = r.trans /\ q.posted = r.posted
    BY <1>2, <2>5 DEF IsState, Fields
  <2>7. Begun(p, r, q, op)
    BY <1>2, <2>2, <2>4, <2>6 DEF Begun, made
  <2>8. OnlyAt(pos, pos', p) /\ OnlyAt(pc, pc', p) /\ OnlyAt(pending, pending', p)
    BY <2>2 DEF OnlyAt
  <2> QED
    BY <1>1, <1>2, <1>4, <2>7, <2>8 DEF q
<1>9. CASE ~IsShared(op) /\ ~IsFlush(op)
  <2>2. /\ pending' = pending /\ pos' = [pos EXCEPT ![p] = @ + 1] /\ pc' = [pc EXCEPT ![p] = "next"]
    BY <1>9 DEF Finish, Goto
  <2>4. pc'[p] = r.pc /\ pos'[p] = s
    BY <1>2, <1>5, <2>2
  <2>5. q = [r EXCEPT !.pos = s] /\ made = r.made
    BY <1>6, <1>9 DEF IsShared
  <2> HIDE DEF q, made
  <2>6. /\ IsState(q) /\ q.pending = r.pending /\ q.made = made
        /\ q.pc = r.pc /\ q.pos = s
        /\ q.batches = r.batches /\ q.done = r.done /\ q.from = r.from /\ q.dim = r.dim
        /\ q.pool = r.pool /\ q.ptr = r.ptr /\ q.authPtr = r.authPtr /\ q.entered = r.entered
        /\ q.extends = r.extends /\ q.log = r.log /\ q.got = r.got /\ q.trans = r.trans /\ q.posted = r.posted
    BY <1>2, <2>5 DEF IsState, Fields
  <2>7. Begun(p, r, q, op)
    BY <1>2, <2>2, <2>4, <2>6 DEF Begun, made
  <2>8. OnlyAt(pos, pos', p) /\ OnlyAt(pc, pc', p) /\ OnlyAt(pending, pending', p)
    BY <2>2 DEF OnlyAt
  <2> QED
    BY <1>1, <1>2, <1>4, <2>7, <2>8 DEF q
<1> QED
  BY <1>7, <1>8, <1>9

-----------------------------------------------------------------------------
(* Steps of the prover.                                                    *)

\* A step of the prover that brings what it has sent from log to next.
Ships(log, next, m) == \/ next = log /\ UNCHANGED <<buf, wire>>
                       \/ next = log /\ Flush
                       \/ next = Append(log, m) /\ Send(m)
                       \/ next = Append(log, m) /\ SendFlush(m)

LEMMA LineShips ==
  ASSUME NEW log, NEW next, NEW m, NEW got, Ships(log, next, m), NEW v \in Verifier,
         IsSeq(log), IsSeq(got), Line(log, got, wire[v], buf[v])
  PROVE  Line(next, got, wire'[v], buf'[v])
<1>1. CASE next = log /\ UNCHANGED <<buf, wire>>
  BY <1>1
<1>2. CASE next = log /\ Flush
  <2>1. wire'[v] = wire[v] \o buf[v] /\ buf'[v] = <<>>
    BY <1>2 DEF Flush
  <2> QED
    BY <1>2, <2>1, LineFlush
<1>3. CASE next = Append(log, m) /\ Send(m)
  <2>1. buf'[v] = Append(buf[v], m) /\ wire'[v] = wire[v]
    BY <1>3 DEF Send
  <2> QED
    BY <1>3, <2>1, LineSend
<1>4. CASE next = Append(log, m) /\ SendFlush(m)
  <2>1. wire'[v] = Append(wire[v] \o buf[v], m) /\ buf'[v] = <<>>
    BY <1>4 DEF SendFlush
  <2>2. Line(log, got, wire[v] \o buf[v], <<>>)
    BY LineFlush
  <2> QED
    BY <1>4, <2>1, <2>2, LineDirect
<1> QED
  BY <1>1, <1>2, <1>3, <1>4 DEF Ships

LEMMA ProverMoves ==
  ASSUME NInv, ProgOK', Grown, NEW H, NEW N, NEW c, OnPath(H, N, c),
         NEW q, q = Succ(H[c[Prover]])', H[c[Prover]].pos < Len(prog'), ProverAs(q)',
         \A o \in Party : o # Prover => Still(o),
         NEW m, Ships(H[c[Prover]].log, q.log, m)
  PROVE  \E G, M, d : OnPath(G, M, d)'
<1>1. Prover \in Party /\ ProgOK
  BY Sizes DEF NInv, WInv
<1>2. As(Prover, q)'
  BY DEF As, Prover
<1>3. ASSUME NEW v \in Verifier
      PROVE  Delivered(v, IF Prover = Prover THEN q ELSE H[c[Prover]], IF Prover = v THEN q ELSE H[c[v]])'
  <2>1. Delivered(v, H[c[Prover]], H[c[v]]) /\ v # Prover /\ v \in Party
    BY Sizes DEF OnPath
  <2> DEFINE l == H[c[Prover]].log
             g == H[c[v]].got
  <2>2. IsSeq(l) /\ IsSeq(g)
    BY <1>1, <2>1, PathFacts, GoodSeqs
  <2>3. Line(l, g, wire[v], buf[v])
    BY <2>1 DEF Delivered
  <2>4. Ships(l, q.log, m)
    OBVIOUS
  <2> HIDE DEF l, g
  <2>5. Line(q.log, g, wire'[v], buf'[v])
    BY <2>2, <2>3, <2>4, LineShips, SMTT(40), ZenonT(40)
  <2>6. Delivered(v, q, H[c[v]])'
    BY <2>5 DEF Delivered, g, Line, Begins, IsSeq
  <2> QED
    BY <2>1, <2>6
<1> QED
  BY <1>1, <1>2, <1>3, Moves

LEMMA PCallStep ==
  ASSUME NInv, PCall
  PROVE  \E G, M, d : OnPath(G, M, d)'
<1>1. PICK H, N, c : OnPath(H, N, c)
  BY DEF NInv
<1> PICK r : r = H[c[Prover]]
  OBVIOUS
<1> PICK q : q = NextOf(r)'
  OBVIOUS
<1>2. Good(r) /\ As(Prover, r) /\ ProgOK /\ Prover \in Party /\ WInv
  BY <1>1, Sizes, PathFacts DEF NInv
<1>3. PICK op \in NextCalls(Prover) :
        /\ Calling(Prover, op)
        /\ IF IsShared(op) \/ IsFlush(op)
           THEN Share(Prover, op) ELSE Finish(Prover) /\ UNCHANGED pending
        /\ triples' = IF op.kind # "mult" THEN triples
                      ELSE [triples EXCEPT ![Prover] = Append(@,
                             <<Meaning[op.args[1]], Meaning[op.args[2]], Unit(pos[Prover] + 1)>>)]
        /\ UNCHANGED <<batches, dim, pool, ptr, authPtr, entered, extends, buf, wire, slots,
                       transcript, posted, meshed, checked>>
  BY DEF PCall, ProverUnchanged, poolVars, netVars, slotVars, checkVars
<1>4. /\ Succ(r)' = q /\ Begun(Prover, r, q, op) /\ r.pos = pos[Prover] /\ r.pos < Len(prog')
      /\ OnlyAt(pos, pos', Prover) /\ OnlyAt(pc, pc', Prover) /\ OnlyAt(pending, pending', Prover)
  BY <1>2, <1>3, CallBegins
<1>5. /\ ProgOK' /\ Grown /\ pos[Prover] \in Nat /\ prog'[pos[Prover] + 1] = op
      /\ \E i \in 1 .. Len(prog') : i = pos[Prover] + 1 /\ CallOK(i)'
  BY <1>2, <1>3, CallingFacts
<1>6. ProverAs(r) /\ PartyAs(Prover, r)
  BY <1>2 DEF As, ProverAs
<1>7. IsSeq(r.made) /\ r.from \in Nat /\ r.from <= Len(r.made) /\ Len(r.made) \in Nat
  BY <1>2, GoodMeans DEF StateType
<1>8. Products(r.made, r.from, Len(r.made))' = triples[Prover]
  <2>1. Products(r.made, r.from, Len(r.made))' = Products(r.made, r.from, Len(r.made))
    BY <1>2, <1>5, <1>7, MadeGrows
  <2> QED
    BY <1>6, <2>1 DEF ProverAs
<1>9. DOMAIN triples = Party
  BY <1>2 DEF WInv, Shapes
<1>10. ASSUME op.kind # "mult"
       PROVE  triples'[Prover] = Products(q.made, q.from, Len(q.made))'
  <2>1. q.made = r.made /\ q.from = r.from /\ triples'[Prover] = triples[Prover]
    BY <1>3, <1>4, <1>10 DEF Begun
  <2>2. Products(q.made, q.from, Len(q.made))' = Products(r.made, r.from, Len(r.made))'
    BY ONLY <2>1 DEF Products
  <2> QED
    BY <1>8, <2>1, <2>2
<1>11. ASSUME op.kind = "mult"
       PROVE  triples'[Prover] = Products(q.made, q.from, Len(q.made))'
  <2> DEFINE s == r.pos + 1
             t == <<Meaning[op.args[1]], Meaning[op.args[2]], Unit(pos[Prover] + 1)>>
  <2>1. q.made = Append(r.made, s) /\ q.from = r.from
    BY <1>4, <1>11 DEF Begun
  <2>2. triples'[Prover] = Append(triples[Prover], t)
    BY <1>2, <1>3, <1>9, <1>11
  <2>3. Triple(s)' = t
    <3>1. PICK a \in 1 .. s - 1, b \in 1 .. s - 1 : op.args = <<a, b>>
      <4>1. CallOK(s)' /\ prog'[s] = op
        BY <1>4, <1>5
      <4> QED
        BY <1>11, <4>1 DEF CallOK
    <3>2. a \in 1 .. Len(prog) /\ b \in 1 .. Len(prog)
      <4>1. pos[Prover] <= Len(prog) /\ Len(prog) \in Nat
        BY <1>2, <1>5 DEF WInv, Placed, Grown
      <4> QED
        BY <1>4, <1>5, <4>1
    <3>3. Meaning'[a] = Meaning[a] /\ Meaning'[b] = Meaning[b]
      BY <1>2, <1>5, <3>2, MeaningStable
    <3>4. prog'[s] = op /\ op.args[1] = a /\ op.args[2] = b
      BY <1>4, <1>5, <3>1
    <3>5. Triple(s)' = <<Meaning'[prog'[s].args[1]], Meaning'[prog'[s].args[2]], Unit(s)>>
      BY DEF Triple, Unit, Zero
    <3> QED
      BY <1>4, <3>3, <3>4, <3>5
  <2> HIDE DEF t, s
  <2>4. Products(Append(r.made, s), r.from, Len(r.made) + 1)' = Append(Products(r.made, r.from, Len(r.made))', Triple(s)')
    <3> PICK made, i : made = r.made /\ i = r.from
      OBVIOUS
    <3>1. IsSeq(made) /\ i \in Nat /\ i <= Len(made)
      BY <1>7
    <3>2. Products(Append(made, s), i, Len(made) + 1)' = Append(Products(made, i, Len(made))', Triple(s)')
      BY ONLY <3>1, RecordNext
    <3> QED
      BY <3>2
  <2>5. Len(q.made) = Len(r.made) + 1
    BY <1>7, <2>1, SeqAppend
  <2>6. Products(q.made, q.from, Len(q.made))' = Products(Append(r.made, s), r.from, Len(r.made) + 1)'
    BY ONLY <2>1, <2>5 DEF Products
  <2> QED
    BY <1>8, <2>2, <2>3, <2>4, <2>6
<1>12. triples'[Prover] = Products(q.made, q.from, Len(q.made))'
  BY <1>10, <1>11
<1>13. ProverAs(q)'
  <2>1. PartyAs(Prover, q)'
    BY <1>3, <1>4, <1>6 DEF PartyAs, Begun, Prover
  <2> QED
    BY <1>4, <1>12, <2>1 DEF ProverAs, Begun, Prover
<1>14. \A o \in Party : o # Prover => Still(o)
  <2>1. OnlyAt(triples, triples', Prover)
    BY <1>3 DEF OnlyAt
  <2>2. /\ OnlyAt(batches, batches', Prover) /\ OnlyAt(dim, dim', Prover) /\ OnlyAt(ptr, ptr', Prover)
        /\ OnlyAt(slots, slots', Prover) /\ OnlyAt(transcript, transcript', Prover)
        /\ OnlyAt(posted, posted', Prover) /\ OnlyAt(meshed, meshed', Prover)
        /\ OnlyAt(checked, checked', Prover) /\ UNCHANGED <<pool, authPtr, entered, extends>>
    BY <1>3 DEF OnlyAt
  <2> QED
    BY <1>2, <1>4, <2>1, <2>2, OnlyOneMoves
<1>15. Ships(r.log, q.log, <<>>)
  BY <1>3, <1>4 DEF Ships, Begun
<1> QED
  BY <1>1, <1>4, <1>5, <1>13, <1>14, <1>15, ProverMoves, SMTT(40), ZenonT(40), Z3T(40)

\* The prover comes to what the machine does next, q.
ProverComes(r, q, m) ==
  /\ pos'[Prover] = q.pos /\ pc'[Prover] = q.pc /\ pending'[Prover] = q.pending
  /\ batches'[Prover] = q.batches /\ dim'[Prover] = q.dim /\ ptr'[Prover] = q.ptr
  /\ triples'[Prover] = Products(q.made, q.from, Len(q.made))
  /\ q.pool = r.pool /\ q.authPtr = r.authPtr /\ q.entered = r.entered /\ q.extends = r.extends
  /\ Ships(r.log, q.log, m)

\* A step of the prover within a call changes what belongs to it only.
ProverAlone ==
  /\ OnlyAt(pos, pos', Prover) /\ OnlyAt(pc, pc', Prover) /\ OnlyAt(pending, pending', Prover)
  /\ OnlyAt(batches, batches', Prover) /\ OnlyAt(triples, triples', Prover)
  /\ OnlyAt(dim, dim', Prover) /\ OnlyAt(ptr, ptr', Prover)
  /\ UNCHANGED <<prog, pool, authPtr, entered, extends, slots, transcript, posted, meshed, checked>>

LEMMA ProverDoes ==
  ASSUME NInv, ProverAlone, NEW H, NEW N, NEW c, OnPath(H, N, c), NEW r, r = H[c[Prover]],
         r.pos < Len(prog), NEW m, ProverComes(r, Succ(r), m)
  PROVE  \E G, M, d : OnPath(G, M, d)'
<1>1. Good(r) /\ As(Prover, r) /\ ProgOK /\ Prover \in Party /\ WInv
  BY Sizes, PathFacts DEF NInv
<1>2. UNCHANGED prog
  BY DEF ProverAlone
<1>3. ProgOK' /\ Grown /\ r.pos < Len(prog')
  BY <1>1, <1>2, SameProg
<1> PICK q : q = Succ(r)
  OBVIOUS
<1>4. Good(q)
  BY <1>1, SuccGood
<1>5. Succ(r)' = q
  BY <1>1, <1>3, SuccGrows
<1>6. ProverComes(r, q, m)
  OBVIOUS
<1>7. Products(q.made, q.from, Len(q.made))' = Products(q.made, q.from, Len(q.made))
  <2>1. q.from \in Nat /\ Len(q.made) \in Nat
    BY <1>4, GoodMeans DEF StateType
  <2> QED
    BY <1>1, <1>3, <1>4, <2>1, MadeGrows
<1>8. PartyAs(Prover, r)
  BY <1>1, AsMeans
<1>9. PartyAs(Prover, q)'
  BY <1>6, <1>8 DEF PartyAs, ProverComes, ProverAlone, Prover
<1>10. ProverAs(q)'
  BY <1>6, <1>7, <1>9 DEF ProverAs, ProverComes, Prover
<1>11. \A o \in Party : o # Prover => Still(o)
  <2>1. /\ OnlyAt(slots, slots', Prover) /\ OnlyAt(transcript, transcript', Prover)
        /\ OnlyAt(posted, posted', Prover) /\ OnlyAt(meshed, meshed', Prover)
        /\ OnlyAt(checked, checked', Prover) /\ UNCHANGED <<pool, authPtr, entered, extends>>
    BY DEF OnlyAt, ProverAlone
  <2>2. /\ OnlyAt(pos, pos', Prover) /\ OnlyAt(pc, pc', Prover) /\ OnlyAt(pending, pending', Prover)
        /\ OnlyAt(batches, batches', Prover) /\ OnlyAt(triples, triples', Prover)
        /\ OnlyAt(dim, dim', Prover) /\ OnlyAt(ptr, ptr', Prover)
    BY DEF ProverAlone
  <2> QED
    BY <1>1, <2>1, <2>2, OnlyOneMoves
<1>12. Ships(H[c[Prover]].log, q.log, m)
  BY <1>6 DEF ProverComes
<1>13. q = Succ(H[c[Prover]])' /\ H[c[Prover]].pos < Len(prog')
  BY <1>3, <1>5
<1> QED
  BY <1>3, <1>10, <1>11, <1>12, <1>13, ProverMoves

\* What the prover's position and pool are on the path.
LEMMA ProverHere ==
  ASSUME NInv, NEW H, NEW N, NEW c, OnPath(H, N, c), NEW r, r = H[c[Prover]]
  PROVE  /\ Good(r) /\ ProverAs(r) /\ PartyAs(Prover, r) /\ ProgOK /\ IsState(r) /\ Prover \in Party
         /\ pc[Prover] = r.pc /\ pos[Prover] = r.pos
         /\ triples[Prover] = Products(r.made, r.from, Len(r.made))
         /\ pending[Prover] = r.pending /\ batches[Prover] = r.batches /\ dim[Prover] = r.dim
         /\ (Starved(Prover) <=> StarvedOf(r)) /\ NextMasks(Prover) = MasksOf(r)
         /\ Need(Prover) = NeedOf(r) /\ ptr[Prover] = r.ptr /\ extends[Prover] = r.extends
         /\ r.from \in Nat /\ Len(r.made) \in Nat /\ r.from <= Len(r.made)
         /\ Len(triples[Prover]) = Len(r.made) - r.from
<1>1. Good(r) /\ As(Prover, r) /\ ProgOK /\ Prover \in Party
  BY Sizes, PathFacts
<1>2. ProverAs(r)
  BY <1>1 DEF As
<1>3. r.from \in Nat /\ Len(r.made) \in Nat /\ r.from <= Len(r.made) /\ IsState(r)
  BY <1>1, GoodMeans DEF StateType
<1>4. Len(triples[Prover]) = Len(r.made) - r.from
  <2>1. triples[Prover] = Products(r.made, r.from, Len(r.made))
    BY <1>2 DEF ProverAs
  <2>2. Len(Products(r.made, r.from, Len(r.made))) = Len(r.made) - r.from
    <3> PICK made, i, j : made = r.made /\ i = r.from /\ j = Len(r.made)
      OBVIOUS
    <3>1. i \in Nat /\ j \in Nat /\ i <= j
      BY <1>3
    <3>2. Len(Products(made, i, j)) = j - i
      BY ONLY <3>1, ProductsFacts, SMTT(40), ZenonT(40), Z3T(40)
    <3> QED
      BY <3>2
  <2> QED
    BY <2>1, <2>2
<1>5. /\ (Starved(Prover) <=> StarvedOf(r)) /\ NextMasks(Prover) = MasksOf(r)
      /\ Need(Prover) = NeedOf(r)
  BY <1>1, PoolSame
<1> QED
  BY <1>1, <1>2, <1>3, <1>4, <1>5 DEF ProverAs, PartyAs

LEMMA PCommitStep ==
  ASSUME NInv, PCommit
  PROVE  \E G, M, d : OnPath(G, M, d)'
<1>1. PICK H, N, c : OnPath(H, N, c)
  BY DEF NInv
<1> PICK r : r = H[c[Prover]]
  OBVIOUS
<1>2. /\ Good(r) /\ IsState(r) /\ pc[Prover] = r.pc /\ pos[Prover] = r.pos
      /\ triples[Prover] = Products(r.made, r.from, Len(r.made)) /\ Prover \in Party
      /\ pending[Prover] = r.pending /\ batches[Prover] = r.batches
      /\ ptr[Prover] = r.ptr /\ extends[Prover] = r.extends
      /\ Len(triples[Prover]) = Len(r.made) - r.from
  BY <1>1, ProverHere
<1>3. /\ pc[Prover] = "com" /\ SendFlush(ComMsg(r))
      /\ dim' = [dim EXCEPT ![Prover] = Padded(Len(r.made) - r.from)]
      /\ pc' = [pc EXCEPT ![Prover] = "round"]
      /\ UNCHANGED <<prog, pos, pending, batches, triples, pool, ptr, authPtr, entered, extends,
                     slots, transcript, posted, meshed, checked>>
  BY <1>2 DEF PCommit, StartCheck, Goto, ProverUnchanged, poolVars, slotVars, checkVars, ComMsg
<1>4. Act(r) = "com"
  BY <1>2, <1>3, NextActs
<1> PICK q : q = Succ(r)
  OBVIOUS
<1>5. q = CommitOf(r)
  BY <1>4 DEF Succ
<1>6. /\ q.dim = Padded(Len(r.made) - r.from) /\ q.pc = "round" /\ q.log = Append(r.log, ComMsg(r))
      /\ q.pos = r.pos /\ q.pending = r.pending /\ q.batches = r.batches
      /\ q.made = r.made /\ q.from = r.from /\ q.pool = r.pool
      /\ q.ptr = r.ptr /\ q.authPtr = r.authPtr /\ q.entered = r.entered /\ q.extends = r.extends
  <2>1. IsState(r)
    BY <1>2
  <2> QED
    BY ONLY <1>5, <2>1, CommitFields
<1>7. r.pos < Len(prog)
  BY <1>2, <1>3, GoodMeans DEF StatePlaced
<1>8. ProverAlone
  BY <1>3 DEF ProverAlone, OnlyAt
<1>9. pc'[Prover] = "round" /\ dim'[Prover] = Padded(Len(r.made) - r.from)
  BY <1>2, <1>3 DEF NInv, NetShapes, WInv, Shapes
<1>10. Ships(r.log, q.log, ComMsg(r))
  BY <1>3, <1>6, SMTT(40), ZenonT(40) DEF Ships
<1>11. ProverComes(r, q, ComMsg(r))
  BY <1>2, <1>3, <1>6, <1>9, <1>10 DEF ProverComes
<1> QED
  BY <1>1, <1>7, <1>8, <1>11, ProverDoes

LEMMA PBatchStep ==
  ASSUME NInv, PBatch
  PROVE  \E G, M, d : OnPath(G, M, d)'
<1>1. PICK H, N, c : OnPath(H, N, c)
  BY DEF NInv
<1> PICK r : r = H[c[Prover]]
  OBVIOUS
<1>2. /\ Good(r) /\ IsState(r) /\ pc[Prover] = r.pc /\ pos[Prover] = r.pos
      /\ triples[Prover] = Products(r.made, r.from, Len(r.made)) /\ Prover \in Party
      /\ pending[Prover] = r.pending /\ batches[Prover] = r.batches /\ dim[Prover] = r.dim
      /\ (Starved(Prover) <=> StarvedOf(r)) /\ NextMasks(Prover) = MasksOf(r)
      /\ Need(Prover) = NeedOf(r) /\ ptr[Prover] = r.ptr /\ extends[Prover] = r.extends
      /\ Len(triples[Prover]) = Len(r.made) - r.from
  BY <1>1, ProverHere, SMTT(40), ZenonT(40)
<1>3. /\ pc[Prover] = "batch" /\ ~StarvedOf(r)
      /\ Send([kind |-> "batch", masks |-> NextMasks(Prover),
               vals |-> [i \in 1 .. k |-> IF i <= Len(pending[Prover])
                                          THEN Meaning[pending[Prover][i]] ELSE Zero]])
      /\ UNCHANGED <<prog, pos, triples, dim, pool, authPtr, entered, extends,
                     slots, transcript, posted, meshed, checked>>
      /\ ptr' = [ptr EXCEPT ![Prover] = @ + Need(Prover)]
      /\ BatchDone(Prover, triples[Prover])
  BY <1>2, SMTT(40), ZenonT(40) DEF PBatch, ProverUnchanged, UseMasks, slotVars, checkVars
<1>4. Send(BatchMsg(r))
  BY <1>2, <1>3 DEF BatchMsg
<1>5. /\ pending' = [pending EXCEPT ![Prover] = <<>>]
      /\ batches' = [batches EXCEPT ![Prover] = @ + 1]
      /\ pc' = [pc EXCEPT ![Prover] = IF Len(r.made) - r.from >= MultGateBufSz THEN "com" ELSE "tail"]
  BY <1>2, <1>3 DEF BatchDone, CheckDue, Goto
<1>6. Act(r) = "batch"
  <2>1. Extending(r) /\ r.pc = "batch"
    BY <1>2, <1>3, GoodMeans
  <2>2. ~(r.entered > r.extends)
    <3>1. r.entered > r.extends => StarvedOf(r)
      BY <2>1 DEF Extending
    <3> QED
      BY <1>3, <3>1
  <2> QED
    BY <1>3, <2>1, <2>2 DEF Act
<1> PICK q : q = Succ(r)
  OBVIOUS
<1>7. q = BatchOf(r)
  BY <1>6 DEF Succ
<1>8. /\ q.pending = <<>> /\ q.batches = r.batches + 1 /\ q.ptr = r.ptr + NeedOf(r)
      /\ q.log = Append(r.log, BatchMsg(r))
      /\ q.pc = (IF Len(r.made) - r.from >= MultGateBufSz THEN "com" ELSE "tail")
      /\ q.pos = r.pos /\ q.made = r.made /\ q.from = r.from /\ q.dim = r.dim
      /\ q.pool = r.pool /\ q.authPtr = r.authPtr /\ q.entered = r.entered /\ q.extends = r.extends
  <2>1. IsState(r)
    BY <1>2, SMTT(40), ZenonT(40)
  <2> QED
    BY ONLY <1>7, <2>1, BatchFields
<1>9. r.pos < Len(prog)
  BY <1>2, <1>3, GoodMeans DEF StatePlaced
<1>10. ProverAlone
  BY <1>3, <1>5 DEF ProverAlone, OnlyAt
<1>11. /\ pending'[Prover] = <<>> /\ batches'[Prover] = r.batches + 1
       /\ pc'[Prover] = (IF Len(r.made) - r.from >= MultGateBufSz THEN "com" ELSE "tail")
  BY <1>2, <1>5 DEF NInv, WInv, Shapes
<1>12. ptr'[Prover] = r.ptr + NeedOf(r)
  BY <1>2, <1>3 DEF NInv, NetShapes
<1>13. Ships(r.log, q.log, BatchMsg(r))
  <2> PICK m : m = BatchMsg(r)
    BY Zenon
  <2>1. q.log = Append(r.log, m) /\ (Send(m) \/ SendFlush(m))
    BY <1>4, <1>8, SMTT(40), ZenonT(40), Z3T(40)
  <2> QED
    BY <2>1 DEF Ships
<1>14. ProverComes(r, q, BatchMsg(r))
  BY <1>2, <1>3, <1>8, <1>11, <1>12, <1>13 DEF ProverComes
<1> QED
  BY <1>1, <1>9, <1>10, <1>14, ProverDoes

LEMMA PRoundStep ==
  ASSUME NInv, PRound
  PROVE  \E G, M, d : OnPath(G, M, d)'
<1>1. PICK H, N, c : OnPath(H, N, c)
  BY DEF NInv
<1> PICK r : r = H[c[Prover]]
  OBVIOUS
<1>2. /\ Good(r) /\ IsState(r) /\ pc[Prover] = r.pc /\ pos[Prover] = r.pos
      /\ triples[Prover] = Products(r.made, r.from, Len(r.made)) /\ Prover \in Party
      /\ pending[Prover] = r.pending /\ batches[Prover] = r.batches /\ dim[Prover] = r.dim
      /\ (Starved(Prover) <=> StarvedOf(r)) /\ NextMasks(Prover) = MasksOf(r)
      /\ Need(Prover) = NeedOf(r) /\ ptr[Prover] = r.ptr /\ Len(r.made) \in Nat
  BY <1>1, ProverHere
<1>3. /\ pc[Prover] = "round" /\ ~StarvedOf(r) /\ SendFlush(DiffMsg(r))
      /\ UNCHANGED <<prog, pos, pending, batches, pool, authPtr, entered, extends,
                     slots, transcript, posted, meshed, checked>>
      /\ ptr' = [ptr EXCEPT ![Prover] = @ + Need(Prover)]
      /\ IF r.dim <= CompressParam
         THEN /\ triples' = [triples EXCEPT ![Prover] = <<>>]
              /\ pc' = [pc EXCEPT ![Prover] = "tail"] /\ UNCHANGED dim
         ELSE /\ dim' = [dim EXCEPT ![Prover] = Padded(@ \div CompressParam)]
              /\ UNCHANGED <<triples, pc>>
  BY <1>2 DEF PRound, ProverUnchanged, UseMasks, slotVars, checkVars, DiffMsg, Goto, Fold
<1>6. Act(r) = "round"
  <2>1. Extending(r) /\ r.pc = "round"
    BY <1>2, <1>3, GoodMeans
  <2>2. ~(r.entered > r.extends)
    <3>1. r.entered > r.extends => StarvedOf(r)
      BY <2>1 DEF Extending
    <3> QED
      BY <1>3, <3>1
  <2> QED
    BY <1>3, <2>1, <2>2 DEF Act
<1> PICK q : q = Succ(r)
  OBVIOUS
<1>7. q = RoundOf(r)
  BY <1>6 DEF Succ
<1>9. r.pos < Len(prog)
  BY <1>2, <1>3, GoodMeans DEF StatePlaced
<1>10. ProverAlone
  BY <1>3 DEF ProverAlone, OnlyAt
<1>12. ptr'[Prover] = r.ptr + NeedOf(r)
  BY <1>2, <1>3 DEF NInv, NetShapes
<1>13. CASE r.dim <= CompressParam
  <2>1. /\ q.ptr = r.ptr + NeedOf(r) /\ q.log = Append(r.log, DiffMsg(r))
        /\ q.pc = "tail" /\ q.from = Len(r.made)
        /\ q.pos = r.pos /\ q.pending = r.pending /\ q.batches = r.batches
        /\ q.made = r.made /\ q.dim = r.dim /\ q.pool = r.pool
        /\ q.authPtr = r.authPtr /\ q.entered = r.entered /\ q.extends = r.extends
    <3>1. IsState(r)
      BY <1>2
    <3> QED
      BY ONLY <1>7, <1>13, <3>1, LastRoundFields
  <2>2. triples'[Prover] = <<>> /\ pc'[Prover] = "tail" /\ dim'[Prover] = r.dim
    BY <1>2, <1>3, <1>13 DEF NInv, WInv, Shapes
  <2>3. Products(q.made, q.from, Len(q.made)) = <<>>
    <3>1. IsSeq(Products(r.made, Len(r.made), Len(r.made)))
          /\ Len(Products(r.made, Len(r.made), Len(r.made))) = 0
      <4> PICK made, j : made = r.made /\ j = Len(r.made)
        OBVIOUS
      <4>1. j \in Nat
        BY <1>2
      <4>2. IsSeq(Products(made, j, j)) /\ Len(Products(made, j, j)) = j - j
        BY ONLY <4>1, ProductsFacts
      <4> QED
        BY <4>1, <4>2
    <3> PICK s : s = Products(r.made, Len(r.made), Len(r.made))
      OBVIOUS
    <3>2. s = <<>>
      BY <3>1 DEF IsSeq
    <3> QED
      BY <2>1, <3>2
  <2>4. Ships(r.log, q.log, DiffMsg(r))
    BY <1>3, <2>1, SMTT(40), ZenonT(40) DEF Ships
  <2>5. ProverComes(r, q, DiffMsg(r))
    BY <1>2, <1>3, <1>12, <2>1, <2>2, <2>3, <2>4 DEF ProverComes
  <2> QED
    BY <1>1, <1>9, <1>10, <2>5, ProverDoes
<1>14. CASE ~(r.dim <= CompressParam)
  <2>1. /\ q.ptr = r.ptr + NeedOf(r) /\ q.log = Append(r.log, DiffMsg(r))
        /\ q.dim = Padded(r.dim \div CompressParam) /\ q.pc = r.pc /\ q.from = r.from
        /\ q.pos = r.pos /\ q.pending = r.pending /\ q.batches = r.batches
        /\ q.made = r.made /\ q.pool = r.pool
        /\ q.authPtr = r.authPtr /\ q.entered = r.entered /\ q.extends = r.extends
    <3>1. IsState(r)
      BY <1>2
    <3> QED
      BY ONLY <1>7, <1>14, <3>1, FoldFields
  <2>2. dim'[Prover] = Padded(r.dim \div CompressParam) /\ UNCHANGED <<triples, pc>>
    BY <1>2, <1>3, <1>14 DEF NInv, NetShapes
  <2>4. Ships(r.log, q.log, DiffMsg(r))
    BY <1>3, <2>1 DEF Ships
  <2>5. ProverComes(r, q, DiffMsg(r))
    BY <1>2, <1>3, <1>12, <2>1, <2>2, <2>4 DEF ProverComes
  <2> QED
    BY <1>1, <1>9, <1>10, <2>5, ProverDoes
<1> QED
  BY <1>13, <1>14

LEMMA ProductsLeft ==
  ASSUME NEW made, NEW i \in Nat, NEW j \in Nat, i <= j
  PROVE  Products(made, i, j) # <<>> <=> j > i
<1>1. IsSeq(Products(made, i, j)) /\ Len(Products(made, i, j)) = j - i
  BY ProductsFacts, SMTT(40), ZenonT(40)
<1> PICK s : s = Products(made, i, j)
  OBVIOUS
<1>2. IsSeq(s) /\ Len(s) = j - i
  BY <1>1
<1>3. s # <<>> <=> Len(s) # 0
  BY <1>2 DEF IsSeq
<1>4. s # <<>> <=> j > i
  BY <1>2, <1>3
<1> QED
  BY <1>4

LEMMA PTailStep ==
  ASSUME NInv, PTail
  PROVE  \E G, M, d : OnPath(G, M, d)'
<1>1. PICK H, N, c : OnPath(H, N, c)
  BY DEF NInv
<1> PICK r : r = H[c[Prover]]
  OBVIOUS
<1> PICK op : op = prog[r.pos + 1]
  OBVIOUS
<1>2. /\ Good(r) /\ IsState(r) /\ pc[Prover] = r.pc /\ pos[Prover] = r.pos
      /\ triples[Prover] = Products(r.made, r.from, Len(r.made)) /\ Prover \in Party
      /\ pending[Prover] = r.pending /\ batches[Prover] = r.batches /\ dim[Prover] = r.dim
      /\ ptr[Prover] = r.ptr /\ Len(r.made) \in Nat /\ r.from \in Nat /\ r.from <= Len(r.made)
  BY <1>1, ProverHere, SMTT(40), ZenonT(40)
<1>3. /\ pc[Prover] = "tail"
      /\ CASE op.kind = "reveal" -> SendFlush(ValsMsg(r))
           [] op.kind \in {"check", "finalize"} -> Flush
           [] OTHER -> UNCHANGED <<buf, wire>>
      /\ IF op.kind = "finalize" THEN FinalCheck(Prover) ELSE Finish(Prover)
      /\ UNCHANGED <<prog, pending, batches, triples, dim, pool, ptr, authPtr, entered, extends,
                     slots, transcript, posted, meshed, checked>>
  BY <1>2 DEF PTail, PTailSends, Op, ProverUnchanged, poolVars, slotVars, checkVars, ValsMsg
<1>4. Act(r) = "tail"
  BY <1>2, <1>3, NextActs
<1> PICK q : q = Succ(r)
  OBVIOUS
<1>5. q = TailOf(r)
  BY <1>4 DEF Succ
<1>6. r.pos < Len(prog)
  BY <1>2, <1>3, GoodMeans DEF StatePlaced
<1>7. triples[Prover] # <<>> <=> Len(r.made) > r.from
  <2> PICK made, i, j : made = r.made /\ i = r.from /\ j = Len(r.made)
    OBVIOUS
  <2>1. i \in Nat /\ j \in Nat /\ i <= j
    BY <1>2
  <2>2. Products(made, i, j) # <<>> <=> j > i
    BY ONLY <2>1, ProductsLeft
  <2> QED
    BY <1>2, <2>2
<1>8. DOMAIN pos = Party /\ DOMAIN pc = Party
  BY DEF NInv, WInv, Shapes
<1>9. ProverAlone
  <2>1. /\ OnlyAt(pos, pos', Prover) /\ OnlyAt(pc, pc', Prover)
    BY <1>3 DEF OnlyAt, FinalCheck, Finish, Goto
  <2> QED
    BY <1>3, <2>1 DEF ProverAlone, OnlyAt
<1>10. ASSUME op.kind # "finalize"
       PROVE  pos'[Prover] = r.pos + 1 /\ pc'[Prover] = "next"
  BY <1>2, <1>3, <1>8, <1>10 DEF Finish, Goto
<1>11. CASE op.kind = "reveal"
  <2>0. op.kind # "finalize"
    BY <1>11
  <2>1. /\ q.pos = r.pos + 1 /\ q.pc = "next" /\ q.log = Append(r.log, ValsMsg(r))
        /\ q.pending = r.pending /\ q.batches = r.batches /\ q.made = r.made
        /\ q.from = r.from /\ q.dim = r.dim /\ q.pool = r.pool /\ q.ptr = r.ptr
        /\ q.authPtr = r.authPtr /\ q.entered = r.entered /\ q.extends = r.extends
    <3>1. IsState(r) /\ prog[r.pos + 1].kind = "reveal"
      BY <1>2, <1>11
    <3> QED
      BY ONLY <1>5, <3>1, RevealFields
  <2>2. Ships(r.log, q.log, ValsMsg(r))
    BY <1>3, <1>11, <2>1, SMTT(40), ZenonT(40) DEF Ships
  <2>3. ProverComes(r, q, ValsMsg(r))
    BY <1>2, <1>3, <1>10, <2>0, <2>1, <2>2 DEF ProverComes
  <2> QED
    BY <1>1, <1>6, <1>9, <2>3, ProverDoes
<1>12. CASE op.kind = "check"
  <2>0. op.kind # "finalize"
    BY <1>12
  <2>1. /\ q.pos = r.pos + 1 /\ q.pc = "next" /\ q.log = r.log
        /\ q.pending = r.pending /\ q.batches = r.batches /\ q.made = r.made
        /\ q.from = r.from /\ q.dim = r.dim /\ q.pool = r.pool /\ q.ptr = r.ptr
        /\ q.authPtr = r.authPtr /\ q.entered = r.entered /\ q.extends = r.extends
    <3>1. IsState(r) /\ prog[r.pos + 1].kind = "check"
      BY <1>2, <1>12
    <3> QED
      BY ONLY <1>5, <3>1, ExpectFields
  <2>2. Ships(r.log, q.log, <<>>)
    BY <1>3, <1>12, <2>1 DEF Ships
  <2>3. ProverComes(r, q, <<>>)
    BY <1>2, <1>3, <1>10, <2>0, <2>1, <2>2 DEF ProverComes
  <2> QED
    BY <1>1, <1>6, <1>9, <2>3, ProverDoes
<1>13. CASE op.kind = "finalize" /\ Len(r.made) > r.from
  <2>1. /\ q.pos = r.pos /\ q.pc = "com" /\ q.log = r.log
        /\ q.pending = r.pending /\ q.batches = r.batches /\ q.made = r.made
        /\ q.from = r.from /\ q.dim = r.dim /\ q.pool = r.pool /\ q.ptr = r.ptr
        /\ q.authPtr = r.authPtr /\ q.entered = r.entered /\ q.extends = r.extends
    <3>1. IsState(r) /\ prog[r.pos + 1].kind = "finalize" /\ Len(r.made) > r.from
      BY <1>2, <1>13
    <3> QED
      BY ONLY <1>5, <3>1, FinalFields
  <2>2. Ships(r.log, q.log, <<>>)
    BY <1>3, <1>13, <2>1 DEF Ships
  <2>3. pos'[Prover] = r.pos /\ pc'[Prover] = "com"
    BY <1>2, <1>3, <1>7, <1>8, <1>13 DEF FinalCheck, Goto
  <2>4. ProverComes(r, q, <<>>)
    BY <1>2, <1>3, <2>1, <2>2, <2>3 DEF ProverComes
  <2> QED
    BY <1>1, <1>6, <1>9, <2>4, ProverDoes
<1>14. CASE op.kind = "finalize" /\ ~(Len(r.made) > r.from)
  <2>1. /\ q.pos = r.pos + 1 /\ q.pc = "end" /\ q.log = r.log
        /\ q.pending = r.pending /\ q.batches = r.batches /\ q.made = r.made
        /\ q.from = r.from /\ q.dim = r.dim /\ q.pool = r.pool /\ q.ptr = r.ptr
        /\ q.authPtr = r.authPtr /\ q.entered = r.entered /\ q.extends = r.extends
    <3>1. IsState(r) /\ prog[r.pos + 1].kind = "finalize" /\ ~(Len(r.made) > r.from)
      BY <1>2, <1>14
    <3> QED
      BY ONLY <1>5, <3>1, EndFields
  <2>2. Ships(r.log, q.log, <<>>)
    BY <1>3, <1>14, <2>1 DEF Ships
  <2>3. pos'[Prover] = r.pos + 1 /\ pc'[Prover] = "end"
    BY <1>2, <1>3, <1>7, <1>8, <1>14 DEF FinalCheck, Goto
  <2>4. ProverComes(r, q, <<>>)
    BY <1>2, <1>3, <2>1, <2>2, <2>3 DEF ProverComes
  <2> QED
    BY <1>1, <1>6, <1>9, <2>4, ProverDoes
<1>15. CASE op.kind \notin {"reveal", "check", "finalize"}
  <2>0. op.kind # "finalize"
    BY <1>15
  <2>1. /\ q.pos = r.pos + 1 /\ q.pc = "next" /\ q.log = r.log
        /\ q.pending = r.pending /\ q.batches = r.batches /\ q.made = r.made
        /\ q.from = r.from /\ q.dim = r.dim /\ q.pool = r.pool /\ q.ptr = r.ptr
        /\ q.authPtr = r.authPtr /\ q.entered = r.entered /\ q.extends = r.extends
    <3>1. IsState(r) /\ prog[r.pos + 1].kind \notin {"reveal", "check", "finalize"}
      BY <1>2, <1>15
    <3> QED
      BY ONLY <1>5, <3>1, ReturnFields
  <2>2. Ships(r.log, q.log, <<>>)
    BY <1>3, <1>15, <2>1 DEF Ships
  <2>3. ProverComes(r, q, <<>>)
    BY <1>2, <1>3, <1>10, <2>0, <2>1, <2>2 DEF ProverComes
  <2> QED
    BY <1>1, <1>6, <1>9, <2>3, ProverDoes
<1> QED
  BY <1>11, <1>12, <1>13, <1>14, <1>15

-----------------------------------------------------------------------------
(* Steps of a verifier.                                                    *)

\* A verifier receives what the machine has it receive between r and q.
Hears(v, r, q) == \/ UNCHANGED <<buf, wire>> /\ q.got = r.got
                  \/ wire[v] # <<>> /\ Receive(v) /\ q.got = Append(r.got, Head(wire[v]))

LEMMA VerifierMoves ==
  ASSUME NInv, ProgOK', Grown, NEW H, NEW N, NEW c, OnPath(H, N, c), NEW v \in Verifier,
         NEW q, q = Succ(H[c[v]])', H[c[v]].pos < Len(prog'), VerifierAs(v, q)',
         \A o \in Party : o # v => Still(o), Hears(v, H[c[v]], q)
  PROVE  \E G, M, d : OnPath(G, M, d)'
<1>1. v \in Party /\ v # Prover /\ Prover \in Party /\ ProgOK /\ DOMAIN wire = Verifier
  BY Sizes DEF NInv, WInv, NetShapes
<1>2. As(v, q)'
  BY <1>1 DEF As, Prover
<1>3. ASSUME NEW w \in Verifier
      PROVE  Delivered(w, IF v = Prover THEN q ELSE H[c[Prover]], IF v = w THEN q ELSE H[c[w]])'
  <2>1. /\ Delivered(w, H[c[Prover]], H[c[w]]) /\ w # Prover /\ w \in Party
        /\ Delivered(v, H[c[Prover]], H[c[v]])
    BY Sizes DEF OnPath
  <2>2. IsSeq(H[c[Prover]].log) /\ IsSeq(H[c[v]].got)
    BY <1>1, PathFacts, GoodSeqs
  <2>3. CASE UNCHANGED <<buf, wire>> /\ q.got = H[c[v]].got
    BY <1>1, <2>1, <2>3 DEF Delivered
  <2>4. CASE wire[v] # <<>> /\ Receive(v) /\ q.got = Append(H[c[v]].got, Head(wire[v]))
    <3>1. /\ Delivered(v, H[c[Prover]], q)' /\ buf' = buf
          /\ \A o \in Verifier : o # v => wire'[o] = wire[o]
      BY <1>1, <2>1, <2>2, <2>4, TakesNext, SMTT(40), ZenonT(60), Z3T(40)
    <3>2. CASE w = v
      BY <1>1, <3>1, <3>2
    <3>3. CASE w # v
      BY <1>1, <2>1, <3>1, <3>3 DEF Delivered
    <3> QED
      BY <3>2, <3>3
  <2> QED
    BY <2>3, <2>4 DEF Hears
<1> QED
  BY <1>1, <1>2, <1>3, Moves

\* What a verifier's variables are on the path.
LEMMA VerifierHere ==
  ASSUME NInv, NEW H, NEW N, NEW c, OnPath(H, N, c), NEW v \in Verifier, NEW r, r = H[c[v]]
  PROVE  /\ Good(r) /\ VerifierAs(v, r) /\ As(v, r) /\ PartyAs(v, r) /\ ProgOK /\ IsState(r)
         /\ v \in Party /\ v # Prover
         /\ pc[v] = r.pc \/ (pc[v] = "open" /\ r.pc = "next") \/ (pc[v] = "mesh" /\ r.pc = "tail")
         /\ pc[v] \notin {"open", "mesh"} => pos[v] = r.pos
         /\ pending[v] = r.pending /\ batches[v] = r.batches /\ dim[v] = r.dim
         /\ (Starved(v) <=> StarvedOf(r)) /\ NextMasks(v) = MasksOf(r)
         /\ Need(v) = NeedOf(r) /\ ptr[v] = r.ptr /\ extends[v] = r.extends
         /\ SlotsRight(slots[v], Upto(r), ToSet(r.pending))
<1>1. Good(r) /\ As(v, r) /\ ProgOK /\ v \in Party /\ v # Prover
  BY Sizes, PathFacts
<1>2. VerifierAs(v, r)
  BY <1>1 DEF As
<1>3. IsState(r)
  BY <1>1, GoodMeans
<1>5. /\ (Starved(v) <=> StarvedOf(r)) /\ NextMasks(v) = MasksOf(r)
      /\ Need(v) = NeedOf(r)
  BY <1>1, PoolSame
<1>6. /\ pc[v] = r.pc \/ (pc[v] = "open" /\ r.pc = "next") \/ (pc[v] = "mesh" /\ r.pc = "tail")
      /\ pc[v] \notin {"open", "mesh"} => pos[v] = r.pos
  BY <1>1, AsMeans
<1> QED
  BY <1>1, <1>2, <1>3, <1>5, <1>6 DEF VerifierAs, PartyAs

\* A step of a verifier within a call changes what belongs to it only.
VerifierAlone(v) ==
  /\ OnlyAt(pos, pos', v) /\ OnlyAt(pc, pc', v) /\ OnlyAt(pending, pending', v)
  /\ OnlyAt(batches, batches', v) /\ OnlyAt(triples, triples', v)
  /\ OnlyAt(dim, dim', v) /\ OnlyAt(ptr, ptr', v)
  /\ OnlyAt(slots, slots', v) /\ OnlyAt(transcript, transcript', v) /\ OnlyAt(posted, posted', v)
  /\ OnlyAt(meshed, meshed', v) /\ OnlyAt(checked, checked', v)
  /\ UNCHANGED <<prog, pool, authPtr, entered, extends>>

\* A verifier comes to what the machine does next, q.
VerifierComes(v, r, q) ==
  /\ pending'[v] = q.pending /\ batches'[v] = q.batches /\ dim'[v] = q.dim /\ ptr'[v] = q.ptr
  /\ q.pool = r.pool /\ q.authPtr = r.authPtr /\ q.entered = r.entered /\ q.extends = r.extends
  /\ CASE pc'[v] = "open" -> q.pc = "next" /\ q.pos = pos'[v] + 1
       [] pc'[v] = "mesh" -> q.pc = "tail" /\ q.pos = pos'[v]
       [] OTHER           -> q.pc = pc'[v] /\ q.pos = pos'[v]
  /\ \E f \in 0 .. q.done :
       /\ checked'[v] = Products(q.made, 0, f) /\ triples'[v] = Products(q.made, f, q.done)
       /\ IF pc'[v] = "mesh" THEN q.from = q.done ELSE f = q.from
  /\ transcript'[v] = q.trans /\ posted'[v] = q.posted /\ meshed'[v] \in Nat
  /\ Len(q.posted) = meshed'[v] + (IF pc'[v] \in {"mesh", "open"} THEN 1 ELSE 0)
  /\ SlotsRight(slots'[v], Upto(q), ToSet(q.pending))

LEMMA VerifierComesAs ==
  ASSUME NInv, NEW v \in Verifier, VerifierAlone(v), NEW r, NEW q, Good(q), PartyAs(v, r),
         VerifierComes(v, r, q)
  PROVE  VerifierAs(v, q)'
<1>1. ProgOK /\ WInv
  BY DEF NInv, WInv
<1>2. UNCHANGED prog
  BY DEF VerifierAlone
<1>3. ProgOK' /\ Grown
  BY <1>1, <1>2, SameProg
<1>7. PartyAs(v, q)'
  BY DEF PartyAs, VerifierComes, VerifierAlone
<1>8. Stands(v, q)'
  BY DEF Stands, VerifierComes
<1>9. Answered(v, q)'
  BY DEF Answered, VerifierComes
<1>10. Records(v, q)'
  <2>1. PICK f \in 0 .. q.done :
          /\ checked'[v] = Products(q.made, 0, f) /\ triples'[v] = Products(q.made, f, q.done)
          /\ IF pc'[v] = "mesh" THEN q.from = q.done ELSE f = q.from
    BY DEF VerifierComes
  <2>2. Products(q.made, 0, f)' = Products(q.made, 0, f) /\ Products(q.made, f, q.done)' = Products(q.made, f, q.done)
    BY <1>1, <1>3, RecordsGrow
  <2> QED
    BY <2>1, <2>2 DEF Records
<1>11. SlotsRight(slots[v], Upto(q), ToSet(pending[v]))'
  <2> PICK s, T, m : s = slots'[v] /\ T = ToSet(q.pending) /\ m = Upto(q)
    OBVIOUS
  <2>1. SlotsRight(s, m, T) /\ m \in 0 .. Len(prog)
    BY <1>1, UptoIn DEF VerifierComes
  <2>2. SlotsRight(s, m, T)'
    BY <1>1, <1>3, <2>1, SlotsGrow
  <2>3. Upto(q)' = m /\ slots'[v] = s /\ ToSet(pending[v])' = T
    BY DEF Upto, ToSet, VerifierComes
  <2>4. SlotsRight(slots[v], Upto(q), ToSet(pending[v]))' <=> SlotsRight(s, m, T)'
    BY <2>3 DEF SlotsRight
  <2> QED
    BY <2>2, <2>4
<1> QED
  BY <1>7, <1>8, <1>9, <1>10, <1>11 DEF VerifierAs

LEMMA VerifierAloneStill ==
  ASSUME NInv, NEW v \in Verifier, VerifierAlone(v)
  PROVE  \A o \in Party : o # v => Still(o)
<1>1. v \in Party
  BY Sizes
<1>2. /\ OnlyAt(pos, pos', v) /\ OnlyAt(pc, pc', v) /\ OnlyAt(pending, pending', v)
      /\ OnlyAt(batches, batches', v) /\ OnlyAt(triples, triples', v)
      /\ OnlyAt(dim, dim', v) /\ OnlyAt(ptr, ptr', v)
      /\ OnlyAt(slots, slots', v) /\ OnlyAt(transcript, transcript', v) /\ OnlyAt(posted, posted', v)
      /\ OnlyAt(meshed, meshed', v) /\ OnlyAt(checked, checked', v)
      /\ UNCHANGED <<pool, authPtr, entered, extends>>
  BY DEF VerifierAlone
<1> QED
  BY <1>1, <1>2, OnlyOneMoves

LEMMA VerifierDoes ==
  ASSUME NInv, NEW v \in Verifier, VerifierAlone(v), NEW H, NEW N, NEW c, OnPath(H, N, c),
         NEW r, r = H[c[v]], r.pos < Len(prog), VerifierComes(v, r, Succ(r)), Hears(v, r, Succ(r))
  PROVE  \E G, M, d : OnPath(G, M, d)'
<1>1. Good(r) /\ PartyAs(v, r) /\ ProgOK /\ v \in Party /\ WInv
  BY VerifierHere DEF NInv
<1>2. UNCHANGED prog
  BY DEF VerifierAlone
<1>3. ProgOK' /\ Grown /\ r.pos < Len(prog')
  BY <1>1, <1>2, SameProg
<1> PICK q : q = Succ(r)
  OBVIOUS
<1>4. Good(q)
  BY <1>1, SuccGood
<1>5. Succ(r)' = q
  BY <1>1, <1>3, SuccGrows
<1>6. VerifierComes(v, r, q) /\ Hears(v, H[c[v]], q)
  OBVIOUS
<1>7. VerifierAs(v, q)'
  BY <1>1, <1>4, <1>6, VerifierComesAs
<1>8. \A o \in Party : o # v => Still(o)
  BY VerifierAloneStill
<1>9. q = Succ(H[c[v]])' /\ H[c[v]].pos < Len(prog')
  BY <1>3, <1>5
<1> QED
  BY <1>3, <1>6, <1>7, <1>8, <1>9, VerifierMoves

\* The slots after call s has been made.
WithSlot(sl, s, op) == CASE IsLinear(op) -> Linear(sl, s, op)
                         [] op.kind = "pub" -> [sl EXCEPT ![s] =
                              [EmptySlot EXCEPT !.ready = TRUE, !.sh = Unit(0)]]
                         [] OTHER -> sl

LEMMA LinearRight ==
  ASSUME ProgOK, NEW s \in 1 .. Len(prog), s \in Slot, NEW sl, NEW S, SlotsRight(sl, s - 1, S),
         IsLinear(prog[s]), NEW S2
  PROVE  SlotRight(Linear(sl, s, prog[s]), s, s, S2)
<1> DEFINE op == prog[s]
           new == Linear(sl, s, op)
           f == [t \in Slot |-> sl[t].sh]
<1>1. DOMAIN sl = Slot /\ \A t \in Slot : SlotRight(sl, t, s - 1, S)
  BY DEF SlotsRight
<1>2. IsSeq(op.args) /\ \A i \in 1 .. Len(op.args) : op.args[i] \in 1 .. s - 1
  BY LinearArgs
<1>3. DOMAIN op.args = 1 .. Len(op.args)
  BY <1>2, SeqFacts
<1>4. ~IsShared(op) /\ op.kind # "pub"
  BY DEF IsLinear, IsShared
<1>5. CASE \A i \in DOMAIN op.args : sl[op.args[i]].ready
  <2>1. new[s] = [ready |-> TRUE, lin |-> <<>>, pub |-> Zero, sh |-> LinearForm(f, op.args, Const(op))]
    <3> HIDE DEF op, f
    <3>1. new = [sl EXCEPT ![s] = [ready |-> TRUE, lin |-> <<>>, pub |-> Zero,
                    sh |-> LinearForm([t \in Slot |-> sl[t].sh], op.args, Const(op))]]
      BY <1>5 DEF Linear
    <3> QED
      BY <1>1, <3>1 DEF f
  <2>2. \A i \in 1 .. Len(op.args) : f[op.args[i]] = Meaning[op.args[i]]
    <3> TAKE i \in 1 .. Len(op.args)
    <3> PICK a : a = op.args[i]
      OBVIOUS
    <3>1. a \in 1 .. s - 1 /\ sl[a].ready
      BY <1>2, <1>3, <1>5
    <3>2. a \in Slot
      BY <3>1, Sizes DEF Slot
    <3>3. sl[a].sh = Meaning[a]
      BY <1>1, <3>1, <3>2 DEF SlotRight
    <3> QED
      BY <3>2, <3>3
  <2>3. LinearForm(f, op.args, Const(op)) = LinearForm(Meaning, op.args, Const(op))
    <3> PICK h, terms, c : h = Meaning /\ terms = op.args /\ c = Const(op)
      OBVIOUS
    <3>1. IsSeq(terms) /\ \A i \in 1 .. Len(terms) : f[terms[i]] = h[terms[i]]
      BY <1>2, <2>2
    <3> HIDE DEF f
    <3>2. LinearForm(f, terms, c) = LinearForm(h, terms, c)
      BY ONLY <3>1, SameTerms
    <3> QED
      BY <3>2
  <2>4. Meaning[s] = LinearForm(Meaning, op.args, Const(op))
    <3>1. Meaning[s] = ValueOf(Meaning, s)
      BY MeaningIs
    <3> QED
      BY <1>4, <3>1 DEF ValueOf
  <2> HIDE DEF new, op, f
  <2> QED
    BY <2>1, <2>3, <2>4 DEF SlotRight, new, op
<1>6. CASE ~(\A i \in DOMAIN op.args : sl[op.args[i]].ready)
  <2>1. new[s] = [EmptySlot EXCEPT !.lin = op.args, !.pub = Const(op)]
    <3> HIDE DEF op, f
    <3>1. new = [sl EXCEPT ![s] = [EmptySlot EXCEPT !.lin = op.args, !.pub = Const(op)]]
      BY <1>6 DEF Linear
    <3> QED
      BY <1>1, <3>1
  <2>2. new[s] = [ready |-> FALSE, sh |-> Zero, lin |-> op.args, pub |-> Const(op)]
    BY <2>1 DEF EmptySlot
  <2>3. SlotRight(new, s, s, S2)
    <3> HIDE DEF new, op
    <3> QED
      BY <1>4, <2>2 DEF SlotRight, op
  <2> QED
    BY <2>3
<1> QED
  BY <1>5, <1>6

LEMMA AddSlot ==
  ASSUME ProgOK, NEW s \in 1 .. Len(prog), NEW sl, NEW S, SlotsRight(sl, s - 1, S),
         NEW S2, S \subseteq S2, IsShared(prog[s]) => s \in S2
  PROVE  SlotsRight(WithSlot(sl, s, prog[s]), s, S2)
<1> PICK new : new = WithSlot(sl, s, prog[s])
  OBVIOUS
<1>1. DOMAIN sl = Slot /\ \A t \in Slot : SlotRight(sl, t, s - 1, S)
  BY DEF SlotsRight
<1>2. DOMAIN new = Slot /\ \A t \in Slot : t # s => new[t] = sl[t]
  BY <1>1 DEF WithSlot, Linear
<1>3. ASSUME NEW t \in Slot, t # s PROVE SlotRight(new, t, s, S2)
  <2>1. SlotRight(sl, t, s - 1, S) /\ new[t] = sl[t]
    BY <1>1, <1>2, <1>3
  <2>2. t <= s <=> t <= s - 1
    BY <1>3 DEF Slot
  <2> QED
    BY <2>1, <2>2 DEF SlotRight
<1>4. ASSUME s \in Slot PROVE SlotRight(new, s, s, S2)
  <2>1. CASE IsLinear(prog[s])
    <3>0. prog[s].kind # "pub"
      BY <2>1 DEF IsLinear
    <3>1. new = Linear(sl, s, prog[s])
      BY <2>1, <3>0 DEF WithSlot
    <3> QED
      BY <1>4, <2>1, <3>1, LinearRight
  <2>2. CASE prog[s].kind = "pub"
    <3>1. ~IsLinear(prog[s]) /\ ~IsShared(prog[s])
      BY <2>2 DEF IsLinear, IsShared
    <3>2. new[s] = [EmptySlot EXCEPT !.ready = TRUE, !.sh = Unit(0)]
      BY <1>1, <1>4, <2>2, <3>1 DEF WithSlot
    <3>3. new[s] = [ready |-> TRUE, sh |-> Unit(0), lin |-> <<>>, pub |-> Zero]
      BY <3>2 DEF EmptySlot
    <3>4. Meaning[s] = Unit(0)
      <4>1. Meaning[s] = ValueOf(Meaning, s)
        BY MeaningIs
      <4> QED
        BY <2>2, <3>1, <4>1 DEF ValueOf
    <3> QED
      BY <3>1, <3>3, <3>4 DEF SlotRight
  <2>3. CASE ~IsLinear(prog[s]) /\ prog[s].kind # "pub"
    <3>1. new = sl
      BY <2>3 DEF WithSlot
    <3>2. SlotRight(sl, s, s - 1, S)
      BY <1>1, <1>4
    <3>3. ~(s <= s - 1) /\ s <= s
      OBVIOUS
    <3> QED
      BY <2>3, <3>1, <3>2, <3>3 DEF SlotRight
  <2> QED
    BY <2>1, <2>2, <2>3
<1> QED
  BY <1>2, <1>3, <1>4 DEF SlotsRight

LEMMA AddSlotNow ==
  ProgOK => \A s \in 1 .. Len(prog) : \A sl, S, S2 :
    SlotsRight(sl, s - 1, S) /\ S \subseteq S2 /\ (IsShared(prog[s]) => s \in S2)
    => SlotsRight(WithSlot(sl, s, prog[s]), s, S2)
BY AddSlot

LEMMA AddSlotNext ==
  ProgOK' => (\A s \in 1 .. Len(prog) : \A sl, S, S2 :
    SlotsRight(sl, s - 1, S) /\ S \subseteq S2 /\ (IsShared(prog[s]) => s \in S2)
    => SlotsRight(WithSlot(sl, s, prog[s]), s, S2))'
BY AddSlotNow, PTL

\* The products before a new one.
LEMMA EarlierProducts ==
  ASSUME NEW made, NEW s, IsSeq(made), NEW i \in Nat, NEW j \in Nat, j <= Len(made)
  PROVE  Products(Append(made, s), i, j) = Products(made, i, j)
<1> PICK a : a = Append(made, s)
  OBVIOUS
<1>1. \A l \in 1 .. Len(made) : a[l] = made[l]
  BY SeqAppend
<1>2. \A l \in 1 .. j - i : i + l \in 1 .. Len(made)
  BY SeqFacts
<1>3. Products(a, i, j) = Products(made, i, j)
  BY <1>1, <1>2 DEF Products
<1> QED
  BY <1>3

LEMMA EarlierNow ==
  \A made, s : IsSeq(made) => \A i, j \in Nat : j <= Len(made) =>
    Products(Append(made, s), i, j) = Products(made, i, j)
BY EarlierProducts

LEMMA EarlierNext ==
  (\A made, s : IsSeq(made) => \A i, j \in Nat : j <= Len(made) =>
    Products(Append(made, s), i, j) = Products(made, i, j))'
BY EarlierNow, PTL

LEMMA RangeAppend ==
  ASSUME NEW s, NEW e, IsSeq(s)
  PROVE  ToSet(s) \subseteq ToSet(Append(s, e)) /\ e \in ToSet(Append(s, e))
<1>1. DOMAIN s = 1 .. Len(s) /\ Len(s) \in Nat
  BY SeqFacts
<1> PICK a : a = Append(s, e)
  OBVIOUS
<1>2. IsSeq(a) /\ Len(a) = Len(s) + 1 /\ (\A i \in 1 .. Len(s) : a[i] = s[i]) /\ a[Len(s) + 1] = e
  BY SeqAppend
<1>3. DOMAIN a = 1 .. Len(s) + 1
  BY <1>2, SeqFacts
<1>4. ToSet(s) \subseteq ToSet(a) /\ e \in ToSet(a)
  BY <1>1, <1>2, <1>3 DEF ToSet
<1> QED
  BY <1>4

\* Where a call leads first.
LEMMA CallLeads ==
  ASSUME WInv, NEW p \in Party, NEW op \in NextCalls(p), Calling(p, op),
         IF IsShared(op) \/ IsFlush(op) THEN Share(p, op) ELSE Finish(p) /\ UNCHANGED pending
  PROVE  /\ \/ pc'[p] = "next" /\ pos'[p] = pos[p] + 1
            \/ pc'[p] \in {"batch", "tail"} /\ pos'[p] = pos[p]
         /\ ToSet(pending[p]) \subseteq ToSet(pending'[p])
         /\ IsShared(op) => pos[p] + 1 \in ToSet(pending'[p])
<1>1. Shapes /\ DOMAIN pc = Party /\ DOMAIN pending = Party /\ IsSeq(pending[p])
  BY DEF WInv, Shapes, IsSeq
<1>2. CASE IsShared(op) \/ IsFlush(op)
  <2>1. /\ pos' = pos
        /\ \E w \in {"batch", "tail"} : pc' = [pc EXCEPT ![p] = w]
        /\ IF IsShared(op) THEN pending' = [pending EXCEPT ![p] = Append(@, pos[p] + 1)] ELSE pending' = pending
    <3>1. Share(p, op)
      BY <1>2
    <3> QED
      BY <1>2, <3>1, SharingFacts
  <2>2. pc'[p] \in {"batch", "tail"}
    BY <1>1, <2>1
  <2>3. CASE IsShared(op)
    <3>1. pending'[p] = Append(pending[p], pos[p] + 1)
      BY <1>1, <2>1, <2>3
    <3>2. ToSet(pending[p]) \subseteq ToSet(pending'[p]) /\ pos[p] + 1 \in ToSet(pending'[p])
      BY <1>1, <3>1, RangeAppend
    <3> QED
      BY <2>1, <2>2, <3>2
  <2>4. CASE ~IsShared(op)
    BY <2>1, <2>2, <2>4
  <2> QED
    BY <2>3, <2>4
<1>3. CASE ~(IsShared(op) \/ IsFlush(op))
  <2>1. Finish(p) /\ UNCHANGED pending
    BY <1>3
  <2> QED
    BY <1>1, <1>3, <2>1, FinishFacts
<1> QED
  BY <1>2, <1>3

LEMMA VCallStep ==
  ASSUME NInv, NEW v \in Verifier, VCall(v)
  PROVE  \E G, M, d : OnPath(G, M, d)'
<1>1. PICK H, N, c : OnPath(H, N, c)
  BY DEF NInv
<1> PICK r : r = H[c[v]]
  OBVIOUS
<1> PICK q : q = NextOf(r)'
  OBVIOUS
<1>2. /\ Good(r) /\ As(v, r) /\ VerifierAs(v, r) /\ PartyAs(v, r) /\ ProgOK /\ v \in Party /\ v # Prover
      /\ pending[v] = r.pending /\ WInv
  BY <1>1, VerifierHere DEF NInv
<1>3. PICK op \in NextCalls(v) :
        /\ Calling(v, op)
        /\ IF IsShared(op) \/ IsFlush(op)
           THEN Share(v, op) ELSE Finish(v) /\ UNCHANGED pending
        /\ slots' =
             CASE IsLinear(op) -> [slots EXCEPT ![v] = Linear(@, pos[v] + 1, op)]
               [] op.kind = "pub" -> [slots EXCEPT ![v][pos[v] + 1] =
                                        [EmptySlot EXCEPT !.ready = TRUE, !.sh = Unit(0)]]
               [] OTHER -> slots
        /\ UNCHANGED <<batches, triples, dim, pool, ptr, authPtr, entered, extends, buf, wire,
                       transcript, posted, meshed, checked>>
  BY DEF VCall, poolVars, netVars, checkVars
<1>4. /\ Succ(r)' = q /\ Begun(v, r, q, op) /\ r.pos = pos[v] /\ r.pos < Len(prog') /\ r.pc = "next"
      /\ OnlyAt(pos, pos', v) /\ OnlyAt(pc, pc', v) /\ OnlyAt(pending, pending', v)
  BY <1>2, <1>3, CallBegins
<1>5. /\ ProgOK' /\ Grown /\ pos[v] \in Nat /\ prog'[pos[v] + 1] = op
  BY <1>2, <1>3, CallingFacts
<1>6. /\ \/ pc'[v] = "next" /\ pos'[v] = pos[v] + 1
         \/ pc'[v] \in {"batch", "tail"} /\ pos'[v] = pos[v]
      /\ ToSet(pending[v]) \subseteq ToSet(pending'[v])
      /\ IsShared(op) => pos[v] + 1 \in ToSet(pending'[v])
  BY <1>2, <1>3, CallLeads
<1>7. pc[v] = "next"
  BY <1>3 DEF Calling
<1>8. /\ IsSeq(r.made) /\ r.from \in Nat /\ r.done \in Nat /\ r.done <= Len(r.made)
      /\ Upto(r) \in 0 .. Len(prog) /\ Upto(r) = r.pos
  BY <1>2, <1>4, GoodMeans, UptoIn, SMTT(40), ZenonT(40) DEF StateType, Upto
<1> PICK s, sl : s = r.pos + 1 /\ sl = slots[v]
  OBVIOUS
<1>9. Upto(q) = s /\ q.pending = pending'[v]
  BY <1>4, <1>5, <1>6 DEF Upto, Begun
<1>10. PartyAs(v, q)'
  BY <1>2, <1>3, <1>4 DEF PartyAs, Begun
<1>11. Stands(v, q)'
  BY <1>4, <1>6 DEF Stands, Begun
<1>12. Answered(v, q)'
  <2>1. Answered(v, r)
    BY <1>2 DEF VerifierAs
  <2> QED
    BY <1>3, <1>4, <1>6, <1>7, <2>1 DEF Answered, Begun
<1>13. Records(v, q)'
  <2>1. PICK f \in 0 .. r.done :
          /\ checked[v] = Products(r.made, 0, f) /\ triples[v] = Products(r.made, f, r.done)
          /\ f = r.from
    BY <1>2, <1>7 DEF VerifierAs, Records
  <2>2. checked'[v] = Products(r.made, 0, f)' /\ triples'[v] = Products(r.made, f, r.done)'
    BY <1>2, <1>3, <1>5, <2>1, RecordsGrow
  <2>3. q.done = r.done /\ q.from = r.from
    BY <1>4 DEF Begun
  <2>4. Products(q.made, 0, f)' = Products(r.made, 0, f)' /\ Products(q.made, f, r.done)' = Products(r.made, f, r.done)'
    <3>1. CASE op.kind # "mult"
      <4>1. q.made = r.made
        BY <1>4, <3>1 DEF Begun
      <4> QED
        BY ONLY <4>1 DEF Products
    <3>2. CASE op.kind = "mult"
      <4>1. q.made = Append(r.made, s)
        BY <1>4, <3>2 DEF Begun
      <4> PICK made, j : made = r.made /\ j = r.done
        OBVIOUS
      <4>2. IsSeq(made) /\ f \in Nat /\ j \in Nat /\ f <= Len(made) /\ j <= Len(made) /\ 0 \in Nat
        BY <1>8
      <4>3. Products(Append(made, s), 0, f)' = Products(made, 0, f)'
        BY ONLY <4>2, EarlierNext
      <4>4. Products(Append(made, s), f, j)' = Products(made, f, j)'
        BY ONLY <4>2, EarlierNext
      <4> QED
        BY <4>1, <4>3, <4>4
    <3> QED
      BY <3>1, <3>2
  <2>5. Products(q.made, f, q.done)' = Products(q.made, f, r.done)'
    BY ONLY <2>3 DEF Products
  <2>6. /\ f \in 0 .. q.done /\ checked'[v] = Products(q.made, 0, f)'
        /\ triples'[v] = Products(q.made, f, q.done)' /\ f = q.from /\ pc'[v] # "mesh"
    BY <1>6, <2>1, <2>2, <2>3, <2>4, <2>5
  <2> QED
    BY <2>6 DEF Records
<1>14. slots'[v] = WithSlot(sl, s, op)
  <2>1. DOMAIN slots = Verifier
    BY <1>2 DEF WInv, Shapes
  <2>2. CASE IsLinear(op)
    <3>1. op.kind # "pub"
      BY <2>2 DEF IsLinear
    <3>2. slots' = [slots EXCEPT ![v] = Linear(@, pos[v] + 1, op)]
      BY <1>3, <2>2, <3>1
    <3> QED
      BY <1>4, <2>1, <2>2, <3>1, <3>2 DEF WithSlot
  <2>3. CASE op.kind = "pub"
    <3>1. ~IsLinear(op)
      BY <2>3 DEF IsLinear
    <3>2. slots' = [slots EXCEPT ![v][pos[v] + 1] = [EmptySlot EXCEPT !.ready = TRUE, !.sh = Unit(0)]]
      BY <1>3, <2>3, <3>1
    <3> QED
      BY <1>4, <2>1, <2>3, <3>1, <3>2 DEF WithSlot
  <2>4. CASE ~IsLinear(op) /\ op.kind # "pub"
    <3>1. slots' = slots
      BY <1>3, <2>4
    <3> QED
      BY <2>4, <3>1 DEF WithSlot
  <2> QED
    BY <2>2, <2>3, <2>4
<1>15. SlotsRight(slots[v], Upto(q), ToSet(pending[v]))'
  <2> PICK S, S2, new : S = ToSet(pending[v]) /\ S2 = ToSet(pending'[v]) /\ new = slots'[v]
    OBVIOUS
  <2>1. SlotsRight(sl, r.pos, S)
    BY <1>2, <1>8 DEF VerifierAs
  <2>2. SlotsRight(sl, r.pos, S)'
    BY <1>2, <1>5, <1>8, <2>1, SlotsGrow
  <2>3. s \in 1 .. Len(prog') /\ s - 1 = r.pos /\ prog'[s] = op
    BY <1>4, <1>5, SeqFacts, SMTT(40), ZenonT(40) DEF Grown
  <2>4. SlotsRight(sl, s - 1, S)' /\ S \subseteq S2 /\ (IsShared(prog[s])' => s \in S2)
    BY <1>4, <1>6, <2>2, <2>3
  <2>5. SlotsRight(WithSlot(sl, s, prog[s]), s, S2)'
    BY ONLY <1>5, <2>3, <2>4, AddSlotNext
  <2>6. WithSlot(sl, s, prog[s])' = new
    <3> PICK o : o = prog'[s]
      OBVIOUS
    <3>1. WithSlot(sl, s, prog[s])' = WithSlot(sl, s, o)
      OBVIOUS
    <3> QED
      BY <1>14, <2>3, <3>1
  <2>7. SlotsRight(new, s, S2)'
    BY <2>5, <2>6 DEF SlotsRight
  <2>8. SlotsRight(slots[v], Upto(q), ToSet(pending[v]))' <=> SlotsRight(new, s, S2)'
    BY <1>9 DEF SlotsRight, Upto, ToSet
  <2> QED
    BY <2>7, <2>8
<1>16. VerifierAs(v, q)'
  BY <1>10, <1>11, <1>12, <1>13, <1>15 DEF VerifierAs
<1>17. \A o \in Party : o # v => Still(o)
  <2>1. OnlyAt(slots, slots', v)
    <3>1. CASE IsLinear(op)
      <4>1. slots' = [slots EXCEPT ![v] = Linear(slots[v], pos[v] + 1, op)]
        <5>1. op.kind # "pub"
          BY <3>1 DEF IsLinear
        <5> QED
          BY <1>3, <3>1, <5>1
      <4> QED
        BY <4>1 DEF OnlyAt
    <3>2. CASE op.kind = "pub"
      <4> DEFINE X == [EmptySlot EXCEPT !.ready = TRUE, !.sh = Unit(0)]
      <4>1. slots' = [slots EXCEPT ![v][pos[v] + 1] = X]
        <5>1. ~IsLinear(op)
          BY <3>2 DEF IsLinear
        <5> QED
          BY <1>3, <3>2, <5>1
      <4> HIDE DEF X
      <4>2. slots' = [slots EXCEPT ![v] = [slots[v] EXCEPT ![pos[v] + 1] = X]]
        BY <4>1
      <4> QED
        BY <4>2 DEF OnlyAt
    <3>3. CASE ~IsLinear(op) /\ op.kind # "pub"
      BY <1>3, <3>3 DEF OnlyAt
    <3> QED
      BY <3>1, <3>2, <3>3
  <2>2. /\ OnlyAt(batches, batches', v) /\ OnlyAt(dim, dim', v) /\ OnlyAt(ptr, ptr', v)
        /\ OnlyAt(triples, triples', v) /\ OnlyAt(transcript, transcript', v)
        /\ OnlyAt(posted, posted', v) /\ OnlyAt(meshed, meshed', v)
        /\ OnlyAt(checked, checked', v) /\ UNCHANGED <<pool, authPtr, entered, extends>>
    BY <1>3 DEF OnlyAt
  <2> QED
    BY <1>2, <1>4, <2>1, <2>2, OnlyOneMoves
<1>18. Hears(v, r, q)
  BY <1>3, <1>4 DEF Hears, Begun
<1> QED
  BY <1>1, <1>4, <1>5, <1>16, <1>17, <1>18, VerifierMoves

\* A verifier that waits for a message gets the one the machine sends there.
LEMMA NextMessage ==
  ASSUME NInv, NEW H, NEW N, NEW c, OnPath(H, N, c), NEW v \in Verifier, NEW r, r = H[c[v]],
         wire[v] # <<>>, r.got = r.log
  PROVE  \A m : Succ(r).log = Append(r.log, m) => Head(wire[v]) = m
<1> TAKE m
<1> HAVE Succ(r).log = Append(r.log, m)
<1>1. ProgOK /\ v \in Party /\ Prover \in Party
  BY Sizes DEF NInv, WInv
<1>2. c[v] < c[Prover]
  BY <1>1, SenderAhead
<1> PICK s : s = H[c[Prover]]
  OBVIOUS
<1>3. Begins(Append(r.got, m), s.log) /\ IsSeq(s.log)
  BY <1>1, <1>2, SenderBeyond
<1>4. IsSeq(r.got)
  BY <1>1, PathFacts, GoodSeqs
<1>5. Delivered(v, s, r)
  BY DEF OnPath
<1> QED
  BY <1>3, <1>4, <1>5, FirstOnWire

\* A verifier that waits for no pool and no other verifier.
LEMMA VerifierPlain ==
  ASSUME NInv, NEW H, NEW N, NEW c, OnPath(H, N, c), NEW v \in Verifier, NEW r, r = H[c[v]],
         pc[v] \in {"batch", "com", "round", "tail"}, ~Starved(v)
  PROVE  /\ r.pc = pc[v] /\ Act(r) = pc[v] /\ r.got = r.log /\ pos[v] = r.pos /\ r.pos < Len(prog)
         /\ Succ(r) = CASE pc[v] = "batch" -> BatchOf(r) [] pc[v] = "com" -> CommitOf(r)
                        [] pc[v] = "round" -> RoundOf(r) [] OTHER -> TailOf(r)
<1>1. /\ Good(r) /\ pc[v] = r.pc /\ pos[v] = r.pos /\ (Starved(v) <=> StarvedOf(r))
  BY VerifierHere
<1>2. Extending(r) /\ StatePlaced(r)
  BY <1>1, GoodMeans
<1>3. ~(r.entered > r.extends)
  <2>1. r.entered > r.extends => StarvedOf(r)
    BY <1>2 DEF Extending
  <2> QED
    BY <1>1, <2>1
<1>4. r.got = r.log
  BY <1>2, <1>3 DEF Extending
<1>5. Act(r) = r.pc
  BY <1>1, <1>3 DEF Act
<1>6. r.pos < Len(prog)
  BY <1>1, <1>2 DEF StatePlaced
<1>7. Succ(r) = CASE pc[v] = "batch" -> BatchOf(r) [] pc[v] = "com" -> CommitOf(r)
                  [] pc[v] = "round" -> RoundOf(r) [] OTHER -> TailOf(r)
  BY <1>1, <1>5 DEF Succ
<1> QED
  BY <1>1, <1>4, <1>5, <1>6, <1>7

\* What a verifier has recorded and compared, while it waits for no other.
LEMMA VerifierKept ==
  ASSUME NInv, NEW H, NEW N, NEW c, OnPath(H, N, c), NEW v \in Verifier, NEW r, r = H[c[v]],
         pc[v] \in {"batch", "com", "round", "tail", "next", "end"}
  PROVE  /\ checked[v] = Products(r.made, 0, r.from) /\ triples[v] = Products(r.made, r.from, r.done)
         /\ transcript[v] = r.trans /\ posted[v] = r.posted /\ meshed[v] \in Nat /\ Len(r.posted) = meshed[v]
         /\ r.from \in Nat /\ r.done \in Nat /\ r.from <= r.done /\ r.done <= Len(r.made) /\ Len(r.made) \in Nat
<1>1. Good(r) /\ VerifierAs(v, r)
  BY VerifierHere
<1>2. r.from \in Nat /\ r.done \in Nat /\ r.from <= r.done /\ r.done <= Len(r.made) /\ Len(r.made) \in Nat
  BY <1>1, GoodMeans DEF StateType
<1>3. Records(v, r) /\ Answered(v, r)
  BY <1>1 DEF VerifierAs
<1>4. checked[v] = Products(r.made, 0, r.from) /\ triples[v] = Products(r.made, r.from, r.done)
  BY <1>3 DEF Records
<1>5. transcript[v] = r.trans /\ posted[v] = r.posted /\ meshed[v] \in Nat /\ Len(r.posted) = meshed[v]
  BY <1>3 DEF Answered
<1> QED
  BY <1>2, <1>4, <1>5

\* Outside a batch, all products are recorded.
LEMMA AllDone ==
  ASSUME NEW r, Good(r), r.pending = <<>>
  PROVE  r.done = Len(r.made)
<1>1. Queued(r) /\ r.done \in Nat
  BY GoodMeans DEF StateType
<1>2. Mark(r.marks, r.done, 0) = Len(r.made)
  BY <1>1 DEF Queued
<1> QED
  BY <1>2 DEF Mark

LEMMA VCommitStep ==
  ASSUME NInv, NEW v \in Verifier, VCommit(v)
  PROVE  \E G, M, d : OnPath(G, M, d)'
<1>1. PICK H, N, c : OnPath(H, N, c)
  BY DEF NInv
<1> PICK r : r = H[c[v]]
  OBVIOUS
<1>2. /\ Good(r) /\ IsState(r) /\ v \in Party /\ SlotsRight(slots[v], Upto(r), ToSet(r.pending))
      /\ pending[v] = r.pending /\ batches[v] = r.batches /\ ptr[v] = r.ptr /\ extends[v] = r.extends
  BY <1>1, VerifierHere
<1>3. pc[v] = "com" /\ ~Starved(v) /\ wire[v] # <<>> /\ Receive(v)
  BY DEF VCommit, Arrived, Starved, Need
<1>4. r.pc = "com" /\ r.got = r.log /\ pos[v] = r.pos /\ r.pos < Len(prog) /\ Succ(r) = CommitOf(r)
  BY <1>1, <1>3, VerifierPlain
<1> PICK q : q = Succ(r)
  OBVIOUS
<1>5. /\ q.dim = Padded(Len(r.made) - r.from) /\ q.pc = "round" /\ q.trans = <<ComMsg(r)>>
      /\ q.log = Append(r.log, ComMsg(r)) /\ q.got = Append(r.log, ComMsg(r))
      /\ q.pos = r.pos /\ q.pending = r.pending /\ q.batches = r.batches
      /\ q.made = r.made /\ q.done = r.done /\ q.from = r.from /\ q.pool = r.pool
      /\ q.ptr = r.ptr /\ q.authPtr = r.authPtr /\ q.entered = r.entered /\ q.extends = r.extends
      /\ q.posted = r.posted
  <2>1. IsState(r) /\ q = CommitOf(r)
    BY <1>2, <1>4
  <2> QED
    BY ONLY <2>1, CommitFields
<1>6. Head(wire[v]) = ComMsg(r)
  <2>1. \A m : Succ(r).log = Append(r.log, m) => Head(wire[v]) = m
    BY <1>1, <1>3, <1>4, NextMessage, ZenonT(60), SMTT(40)
  <2>2. Succ(r).log = Append(r.log, ComMsg(r))
    BY <1>5
  <2> QED
    BY <2>1, <2>2
<1>7. /\ checked[v] = Products(r.made, 0, r.from) /\ triples[v] = Products(r.made, r.from, r.done)
      /\ posted[v] = r.posted /\ meshed[v] \in Nat /\ Len(r.posted) = meshed[v]
      /\ r.from \in Nat /\ r.done \in Nat /\ r.from <= r.done /\ r.done <= Len(r.made) /\ Len(r.made) \in Nat
  BY <1>1, <1>3, VerifierKept
<1>8. r.done = Len(r.made)
  <2>1. r.pending = <<>>
    BY <1>2, <1>4, GoodMeans DEF Drained
  <2> QED
    BY <1>2, <2>1, AllDone
<1>9. Len(triples[v]) = Len(r.made) - r.from
  <2> PICK made, i, j : made = r.made /\ i = r.from /\ j = r.done
    BY Zenon
  <2>1. i \in Nat /\ j \in Nat /\ i <= j
    BY <1>7
  <2>2. Len(Products(made, i, j)) = j - i
    BY ONLY <2>1, ProductsFacts
  <2> QED
    BY <1>7, <1>8, <2>2
<1>10. /\ dim' = [dim EXCEPT ![v] = Padded(Len(r.made) - r.from)] /\ pc' = [pc EXCEPT ![v] = "round"]
       /\ transcript' = [transcript EXCEPT ![v] = <<ComMsg(r)>>]
       /\ UNCHANGED <<prog, pos, pending, batches, triples, pool, ptr, authPtr, entered, extends, slots,
                      posted, meshed, checked>>
  <2>1. ComMsg(r).batches = batches[v] /\ ComMsg(r).nonces = extends[v]
    BY <1>2 DEF ComMsg
  <2> PICK msg : msg = ComMsg(r)
    BY ZenonT(60), SMTT(40)
  <2> QED
    BY <1>6, <1>9, <2>1 DEF VCommit, StartCheck, Goto, poolVars, slotVars
<1>11. dim'[v] = q.dim /\ pc'[v] = "round" /\ transcript'[v] = q.trans
  BY <1>2, <1>5, <1>10 DEF NInv, NetShapes, WInv, Shapes
<1>12. Upto(q) = Upto(r)
  BY ONLY <1>4, <1>5, SMTT(40), ZenonT(40) DEF Upto
<1>13. \E f \in 0 .. q.done :
         /\ checked'[v] = Products(q.made, 0, f) /\ triples'[v] = Products(q.made, f, q.done)
         /\ IF pc'[v] = "mesh" THEN q.from = q.done ELSE f = q.from
  <2>1. r.from \in 0 .. q.done
    BY ONLY <1>5, <1>7
  <2> QED
    BY <1>5, <1>7, <1>10, <1>11, <2>1
<1>14. VerifierComes(v, r, q)
  <2>1. pending'[v] = q.pending /\ batches'[v] = q.batches /\ dim'[v] = q.dim /\ ptr'[v] = q.ptr
    BY ONLY <1>2, <1>5, <1>10, <1>11
  <2>2. q.pool = r.pool /\ q.authPtr = r.authPtr /\ q.entered = r.entered /\ q.extends = r.extends
    BY ONLY <1>5
  <2>3. pc'[v] = q.pc /\ pos'[v] = q.pos /\ pc'[v] \notin {"mesh", "open"}
    BY ONLY <1>4, <1>5, <1>10, <1>11
  <2>4. (CASE pc'[v] = "open" -> q.pc = "next" /\ q.pos = pos'[v] + 1
             [] pc'[v] = "mesh" -> q.pc = "tail" /\ q.pos = pos'[v]
             [] OTHER           -> q.pc = pc'[v] /\ q.pos = pos'[v])
    BY ONLY <2>3
  <2>5. transcript'[v] = q.trans /\ posted'[v] = q.posted /\ meshed'[v] \in Nat
    BY ONLY <1>5, <1>7, <1>10, <1>11
  <2>6. Len(q.posted) = meshed'[v] + (IF pc'[v] \in {"mesh", "open"} THEN 1 ELSE 0)
    BY ONLY <1>5, <1>7, <1>10, <2>3
  <2>7. SlotsRight(slots'[v], Upto(q), ToSet(q.pending))
    BY ONLY <1>2, <1>5, <1>10, <1>12, SMTT(40), ZenonT(40)
  <2> QED
    BY ONLY <2>1, <2>2, <2>4, <2>5, <2>6, <2>7, <1>13 DEF VerifierComes
<1>15. Hears(v, r, q)
  BY <1>3, <1>4, <1>5, <1>6 DEF Hears
<1>16. VerifierAlone(v)
  BY <1>10 DEF VerifierAlone, OnlyAt
<1> QED
  BY <1>1, <1>4, <1>14, <1>15, <1>16, VerifierDoes

\* What a verifier has heard of the check agrees with what it has recorded.
LEMMA HeardRight ==
  ASSUME NEW r, Good(r), r.pc = "round", r.done = Len(r.made)
  PROVE  /\ IsSeq(Heard(r)) /\ Products(r.made, r.from, r.done) = Heard(r)[1].triples
         /\ \A i \in 2 .. Len(Heard(r)) : Heard(r)[i].masks
<1>1. /\ IsSeq(r.trans) /\ Len(r.trans) >= 1 /\ r.trans[1].triples = Products(r.made, r.from, Len(r.made))
      /\ \A i \in 2 .. Len(r.trans) : r.trans[i].masks
  BY GoodMeans DEF StateType, Checking
<1> PICK e, t : e = [DiffMsg(r) EXCEPT !.masks = TRUE] /\ t = r.trans
  OBVIOUS
<1>2. e.masks
  BY DEF DiffMsg
<1> PICK h : h = Append(t, e)
  OBVIOUS
<1>3. IsSeq(h) /\ Len(h) = Len(t) + 1 /\ (\A i \in 1 .. Len(t) : h[i] = t[i]) /\ h[Len(t) + 1] = e /\ Len(t) \in Nat
  BY <1>1, SeqAppend, SeqFacts
<1>4. h[1] = t[1]
  BY <1>1, <1>3
<1>5. ASSUME NEW i \in 2 .. Len(h) PROVE h[i].masks
  <2>1. CASE i \in 2 .. Len(t)
    BY <1>1, <1>3, <2>1
  <2>2. CASE i = Len(t) + 1
    BY <1>2, <1>3, <2>2
  <2> QED
    BY <1>3, <2>1, <2>2
<1>6. h = Heard(r)
  BY DEF Heard
<1> QED
  BY <1>1, <1>3, <1>4, <1>5, <1>6

LEMMA VRoundStep ==
  ASSUME NInv, NEW v \in Verifier, VRound(v)
  PROVE  \E G, M, d : OnPath(G, M, d)'
<1>1. PICK H, N, c : OnPath(H, N, c)
  BY DEF NInv
<1> PICK r : r = H[c[v]]
  OBVIOUS
<1>2. /\ Good(r) /\ IsState(r) /\ v \in Party /\ SlotsRight(slots[v], Upto(r), ToSet(r.pending))
      /\ pending[v] = r.pending /\ batches[v] = r.batches /\ ptr[v] = r.ptr /\ dim[v] = r.dim
      /\ NextMasks(v) = MasksOf(r) /\ Need(v) = NeedOf(r)
  BY <1>1, VerifierHere
<1>3. pc[v] = "round" /\ ~Starved(v) /\ wire[v] # <<>> /\ Receive(v)
  BY DEF VRound, Arrived
<1>4. r.pc = "round" /\ r.got = r.log /\ pos[v] = r.pos /\ r.pos < Len(prog) /\ Succ(r) = RoundOf(r)
  BY <1>1, <1>3, VerifierPlain
<1> PICK q : q = Succ(r)
  OBVIOUS
<1>5. Succ(r).log = Append(r.log, DiffMsg(r))
  <2>1. IsState(r) /\ Succ(r) = RoundOf(r)
    BY <1>2, <1>4
  <2>2. CASE r.dim <= CompressParam
    BY ONLY <2>1, <2>2, LastRoundFields
  <2>3. CASE ~(r.dim <= CompressParam)
    BY ONLY <2>1, <2>3, FoldFields
  <2> QED
    BY <2>2, <2>3
<1>6. Head(wire[v]) = DiffMsg(r)
  <2>1. \A m : Succ(r).log = Append(r.log, m) => Head(wire[v]) = m
    BY <1>1, <1>3, <1>4, NextMessage, ZenonT(60), SMTT(40)
  <2> QED
    BY <1>5, <2>1
<1>7. /\ checked[v] = Products(r.made, 0, r.from) /\ triples[v] = Products(r.made, r.from, r.done)
      /\ transcript[v] = r.trans /\ posted[v] = r.posted /\ meshed[v] \in Nat /\ Len(r.posted) = meshed[v]
      /\ r.from \in Nat /\ r.done \in Nat /\ r.from <= r.done /\ r.done <= Len(r.made) /\ Len(r.made) \in Nat
  BY <1>1, <1>3, VerifierKept
<1>8. r.done = Len(r.made)
  <2>1. r.pending = <<>>
    BY <1>2, <1>4, GoodMeans DEF Drained
  <2> QED
    BY <1>2, <2>1, AllDone
<1> DEFINE last == dim[v] <= CompressParam
           good(msg) == msg.masks = NextMasks(v) /\ msg.last = last
           all(msg) == Append(transcript[v], [msg EXCEPT !.masks = good(msg)])
           right(h) == triples[v] = h[1].triples /\ \A i \in 2 .. Len(h) : h[i].masks
<1>9. good(DiffMsg(r)) = TRUE
  BY <1>2 DEF DiffMsg
<1>10. all(DiffMsg(r)) = Heard(r)
  <2> HIDE DEF good
  <2> QED
    BY <1>7, <1>9 DEF Heard
<1>11. right(Heard(r)) = TRUE
  <2>1. Products(r.made, r.from, r.done) = Heard(r)[1].triples /\ \A i \in 2 .. Len(Heard(r)) : Heard(r)[i].masks
    BY <1>2, <1>4, <1>8, HeardRight
  <2> QED
    BY <1>7, <2>1
<1>12. /\ transcript' = [transcript EXCEPT ![v] = Heard(r)]
       /\ IF last THEN /\ posted' = [posted EXCEPT ![v] = Append(@, [saw |-> Heard(r), right |-> TRUE])]
                       /\ pc' = [pc EXCEPT ![v] = "mesh"] /\ UNCHANGED dim
                  ELSE /\ dim' = [dim EXCEPT ![v] = Padded(@ \div CompressParam)]
                       /\ UNCHANGED <<posted, pc>>
       /\ ptr' = [ptr EXCEPT ![v] = @ + Need(v)]
       /\ UNCHANGED <<prog, pos, pending, batches, triples, pool, authPtr, entered, extends, slots,
                      meshed, checked>>
  <2>1. LET msg == Head(wire[v])
        IN  /\ transcript' = [transcript EXCEPT ![v] = all(msg)]
            /\ IF last THEN /\ posted' = [posted EXCEPT ![v] = Append(@, [saw |-> all(msg), right |-> right(all(msg))])]
                            /\ pc' = [pc EXCEPT ![v] = "mesh"] /\ UNCHANGED dim
                       ELSE /\ dim' = [dim EXCEPT ![v] = Padded(@ \div CompressParam)]
                            /\ UNCHANGED <<posted, pc>>
    BY DEF VRound, Contribute, Goto, Fold
  <2>2. /\ ptr' = [ptr EXCEPT ![v] = @ + Need(v)]
        /\ UNCHANGED <<prog, pos, pending, batches, triples, pool, authPtr, entered, extends, slots,
                       meshed, checked>>
    BY DEF VRound, UseMasks, slotVars
  <2> HIDE DEF last, all, right
  <2> QED
    BY <1>6, <1>10, <1>11, <2>1, <2>2
<1>13. DOMAIN dim = Party /\ DOMAIN pc = Party /\ DOMAIN ptr = Party /\ DOMAIN transcript = Verifier /\ DOMAIN posted = Verifier
  BY DEF NInv, NetShapes, WInv, Shapes
<1>14. ptr'[v] = r.ptr + NeedOf(r) /\ transcript'[v] = Heard(r)
  BY <1>2, <1>12, <1>13
<1>15. VerifierAlone(v)
  <2>1. OnlyAt(posted, posted', v) /\ OnlyAt(pc, pc', v) /\ OnlyAt(dim, dim', v)
    BY <1>12 DEF OnlyAt
  <2> QED
    BY <1>12, <2>1 DEF VerifierAlone, OnlyAt
<1>16. CASE r.dim <= CompressParam
  <2>1. /\ q.ptr = r.ptr + NeedOf(r) /\ q.trans = Heard(r) /\ q.got = Append(r.log, DiffMsg(r))
        /\ q.pc = "tail" /\ q.from = Len(r.made)
        /\ q.posted = Append(r.posted, [saw |-> Heard(r), right |-> TRUE])
        /\ q.pos = r.pos /\ q.pending = r.pending /\ q.batches = r.batches
        /\ q.made = r.made /\ q.done = r.done /\ q.dim = r.dim /\ q.pool = r.pool
        /\ q.authPtr = r.authPtr /\ q.entered = r.entered /\ q.extends = r.extends
    <3>1. IsState(r) /\ q = RoundOf(r)
      BY <1>2, <1>4
    <3> QED
      BY ONLY <1>16, <3>1, LastRoundFields
  <2>2. posted'[v] = q.posted /\ pc'[v] = "mesh" /\ dim'[v] = q.dim
    <3>1. last /\ v \in Verifier /\ v \in Party /\ posted[v] = r.posted /\ dim[v] = r.dim
      BY <1>2, <1>7, <1>16 DEF Party
    <3>2. /\ posted' = [posted EXCEPT ![v] = Append(@, [saw |-> Heard(r), right |-> TRUE])]
          /\ pc' = [pc EXCEPT ![v] = "mesh"] /\ dim' = dim
      BY ONLY <1>12, <3>1
    <3>3. posted'[v] = Append(posted[v], [saw |-> Heard(r), right |-> TRUE]) /\ pc'[v] = "mesh"
      BY ONLY <1>13, <3>1, <3>2
    <3> QED
      BY ONLY <2>1, <3>1, <3>2, <3>3
  <2>3. Len(q.posted) = meshed'[v] + 1
    <3>1. IsSeq(r.posted)
      BY <1>2, GoodSeqs, SMTT(40), ZenonT(40)
    <3>2. Len(q.posted) = Len(r.posted) + 1
      BY <2>1, <3>1, SeqAppend
    <3> QED
      BY <1>7, <1>12, <3>2
  <2>4. Upto(q) = Upto(r)
    BY ONLY <1>4, <2>1, SMTT(40), ZenonT(40), Z3T(40) DEF Upto
  <2>5. \E f \in 0 .. q.done :
         /\ checked'[v] = Products(q.made, 0, f) /\ triples'[v] = Products(q.made, f, q.done)
         /\ IF pc'[v] = "mesh" THEN q.from = q.done ELSE f = q.from
    <3>1. r.from \in 0 .. q.done
      BY ONLY <1>7, <2>1
    <3> QED
      BY <1>7, <1>8, <1>12, <2>1, <2>2, <3>1
  <2>6. VerifierComes(v, r, q)
    <3>1. pending'[v] = q.pending /\ batches'[v] = q.batches /\ dim'[v] = q.dim /\ ptr'[v] = q.ptr
      BY ONLY <1>2, <1>12, <1>14, <2>1, <2>2
    <3>2. q.pool = r.pool /\ q.authPtr = r.authPtr /\ q.entered = r.entered /\ q.extends = r.extends
      BY ONLY <2>1
    <3>3. pc'[v] = "mesh" /\ q.pc = "tail" /\ pos'[v] = q.pos
      BY ONLY <1>4, <1>12, <2>1, <2>2
    <3>4. (CASE pc'[v] = "open" -> q.pc = "next" /\ q.pos = pos'[v] + 1
               [] pc'[v] = "mesh" -> q.pc = "tail" /\ q.pos = pos'[v]
               [] OTHER           -> q.pc = pc'[v] /\ q.pos = pos'[v])
      BY ONLY <3>3
    <3>5. transcript'[v] = q.trans /\ posted'[v] = q.posted /\ meshed'[v] \in Nat
      BY ONLY <1>7, <1>12, <1>14, <2>1, <2>2
    <3>6. Len(q.posted) = meshed'[v] + (IF pc'[v] \in {"mesh", "open"} THEN 1 ELSE 0)
      BY ONLY <2>3, <3>3
    <3>7. SlotsRight(slots'[v], Upto(q), ToSet(q.pending))
      BY ONLY <1>2, <1>12, <2>1, <2>4, SMTT(40), ZenonT(40)
    <3> QED
      BY ONLY <3>1, <3>2, <3>4, <3>5, <3>6, <3>7, <2>5 DEF VerifierComes
  <2>7. Hears(v, r, q)
    BY <1>3, <1>4, <1>6, <2>1 DEF Hears
  <2> QED
    BY <1>1, <1>4, <1>15, <2>6, <2>7, VerifierDoes
<1>17. CASE ~(r.dim <= CompressParam)
  <2>1. /\ q.ptr = r.ptr + NeedOf(r) /\ q.trans = Heard(r) /\ q.got = Append(r.log, DiffMsg(r))
        /\ q.dim = Padded(r.dim \div CompressParam) /\ q.pc = r.pc /\ q.from = r.from
        /\ q.pos = r.pos /\ q.pending = r.pending /\ q.batches = r.batches
        /\ q.made = r.made /\ q.done = r.done /\ q.pool = r.pool
        /\ q.authPtr = r.authPtr /\ q.entered = r.entered /\ q.extends = r.extends
        /\ q.posted = r.posted
    <3>1. IsState(r) /\ q = RoundOf(r)
      BY <1>2, <1>4
    <3> QED
      BY ONLY <1>17, <3>1, FoldFields, SMTT(40), ZenonT(40)
  <2>2. posted'[v] = q.posted /\ pc'[v] = "round" /\ dim'[v] = q.dim
    BY <1>2, <1>3, <1>7, <1>12, <1>13, <1>17, <2>1
  <2>4. Upto(q) = Upto(r)
    BY ONLY <1>4, <2>1, SMTT(40), ZenonT(40) DEF Upto
  <2>5. \E f \in 0 .. q.done :
         /\ checked'[v] = Products(q.made, 0, f) /\ triples'[v] = Products(q.made, f, q.done)
         /\ IF pc'[v] = "mesh" THEN q.from = q.done ELSE f = q.from
    <3>1. r.from \in 0 .. q.done
      BY ONLY <1>7, <2>1
    <3> QED
      BY <1>7, <1>12, <2>1, <2>2, <3>1
  <2>6. VerifierComes(v, r, q)
    <3>1. pending'[v] = q.pending /\ batches'[v] = q.batches /\ dim'[v] = q.dim /\ ptr'[v] = q.ptr
      BY ONLY <1>2, <1>12, <1>14, <2>1, <2>2
    <3>2. q.pool = r.pool /\ q.authPtr = r.authPtr /\ q.entered = r.entered /\ q.extends = r.extends
      BY ONLY <2>1
    <3>3. pc'[v] = q.pc /\ pos'[v] = q.pos /\ pc'[v] \notin {"mesh", "open"}
      BY ONLY <1>4, <1>12, <2>1, <2>2
    <3>4. (CASE pc'[v] = "open" -> q.pc = "next" /\ q.pos = pos'[v] + 1
               [] pc'[v] = "mesh" -> q.pc = "tail" /\ q.pos = pos'[v]
               [] OTHER           -> q.pc = pc'[v] /\ q.pos = pos'[v])
      BY ONLY <3>3
    <3>5. transcript'[v] = q.trans /\ posted'[v] = q.posted /\ meshed'[v] \in Nat
      BY ONLY <1>7, <1>12, <1>14, <2>1, <2>2
    <3>6. Len(q.posted) = meshed'[v] + (IF pc'[v] \in {"mesh", "open"} THEN 1 ELSE 0)
      BY ONLY <1>7, <1>12, <2>1, <3>3
    <3>7. SlotsRight(slots'[v], Upto(q), ToSet(q.pending))
      BY ONLY <1>2, <1>12, <2>1, <2>4
    <3> QED
      BY ONLY <3>1, <3>2, <3>4, <3>5, <3>6, <3>7, <2>5 DEF VerifierComes
  <2>7. Hears(v, r, q)
    BY <1>3, <1>4, <1>6, <2>1 DEF Hears
  <2> QED
    BY <1>1, <1>4, <1>15, <2>6, <2>7, VerifierDoes
<1> QED
  BY <1>16, <1>17

\* What a verifier makes of the batch that the machine sends.
LEMMA BatchFills ==
  ASSUME NInv, NEW H, NEW N, NEW c, OnPath(H, N, c), NEW v \in Verifier, NEW r, r = H[c[v]],
         pc[v] = "batch", NEW vals, vals = BatchMsg(r).vals
  PROVE  /\ SlotsRight(FillBatch(v, vals).slots, Upto(r), {}) /\ ~FillBatch(v, vals).failed
         /\ FillBatch(v, vals).triples = Products(r.made, r.from, Len(r.made))
<1>1. /\ Good(r) /\ v \in Party /\ SlotsRight(slots[v], Upto(r), ToSet(r.pending)) /\ pending[v] = r.pending
      /\ ProgOK
  BY VerifierHere
<1>2. /\ triples[v] = Products(r.made, r.from, r.done)
      /\ r.from \in Nat /\ r.done \in Nat /\ r.from <= r.done
  BY VerifierKept
<1>3. Queued(r) /\ Upto(r) \in 0 .. Len(prog)
  BY <1>1, GoodMeans, UptoIn
<1> PICK m, made, marks, done, from :
      m = Upto(r) /\ made = r.made /\ marks = r.marks /\ done = r.done /\ from = r.from
  OBVIOUS
<1>4. Batch(pending[v], m) /\ SlotsRight(slots[v], m, ToSet(pending[v])) /\ m \in 0 .. Len(prog)
  BY <1>1, <1>3 DEF Queued
<1>5. \A i \in 1 .. Len(pending[v]) : vals[i] = Meaning[pending[v][i]]
  <2>1. Len(pending[v]) <= k /\ k \in Nat /\ Len(pending[v]) \in Nat
    <3>1. Len(pending[v]) <= k
      BY <1>1 DEF NInv, WInv, Recorded
    <3>2. IsSeq(pending[v])
      BY <1>4 DEF Batch
    <3> QED
      BY <3>1, <3>2, SeqFacts, Sizes
  <2>2. \A i \in 1 .. k : vals[i] = IF i <= Len(r.pending) THEN Meaning[r.pending[i]] ELSE Zero
    BY DEF BatchMsg
  <2> QED
    BY <1>1, <2>1, <2>2
<1>6. /\ Marked(pending[v], marks, made, done) /\ triples[v] = Products(made, from, done)
      /\ done \in Nat /\ from \in Nat /\ from <= done
  BY <1>1, <1>2, <1>3 DEF Queued
<1>7. /\ SlotsRight(FillBatch(v, vals).slots, m, {}) /\ ~FillBatch(v, vals).failed
      /\ FillBatch(v, vals).triples = Products(made, from, Mark(marks, done, Len(pending[v])))
  <2>1. ProgOK
    BY <1>1
  <2>2. Arriving(v, vals, m, made, marks, done, from)
    BY <1>4, <1>5, <1>6 DEF Arriving
  <2>3. Arrives(v, vals, m, made, marks, done, from)
    BY ONLY <2>1, <2>2, FillBatchRight
  <2> QED
    BY <2>3 DEF Arrives
<1>8. Mark(marks, done, Len(pending[v])) = Len(made)
  BY <1>1, <1>3 DEF Queued
<1> QED
  BY <1>7, <1>8

LEMMA VBatchStep ==
  ASSUME NInv, NEW v \in Verifier, VBatch(v)
  PROVE  \E G, M, d : OnPath(G, M, d)'
<1>1. PICK H, N, c : OnPath(H, N, c)
  BY DEF NInv
<1> PICK r : r = H[c[v]]
  OBVIOUS
<1>2. /\ Good(r) /\ IsState(r) /\ v \in Party
      /\ pending[v] = r.pending /\ batches[v] = r.batches /\ ptr[v] = r.ptr /\ dim[v] = r.dim
      /\ NextMasks(v) = MasksOf(r) /\ Need(v) = NeedOf(r)
  BY <1>1, VerifierHere
<1>3. pc[v] = "batch" /\ ~Starved(v) /\ wire[v] # <<>> /\ Receive(v)
  BY DEF VBatch, Arrived
<1>4. r.pc = "batch" /\ r.got = r.log /\ pos[v] = r.pos /\ r.pos < Len(prog) /\ Succ(r) = BatchOf(r)
  BY <1>1, <1>3, VerifierPlain
<1> PICK q : q = Succ(r)
  OBVIOUS
<1>5. /\ q.pending = <<>> /\ q.batches = r.batches + 1 /\ q.ptr = r.ptr + NeedOf(r) /\ q.done = Len(r.made)
      /\ q.log = Append(r.log, BatchMsg(r)) /\ q.got = Append(r.log, BatchMsg(r))
      /\ q.pc = (IF Len(r.made) - r.from >= MultGateBufSz THEN "com" ELSE "tail")
      /\ q.pos = r.pos /\ q.made = r.made /\ q.from = r.from /\ q.dim = r.dim
      /\ q.pool = r.pool /\ q.authPtr = r.authPtr /\ q.entered = r.entered /\ q.extends = r.extends
      /\ q.trans = r.trans /\ q.posted = r.posted
  <2>1. IsState(r) /\ q = BatchOf(r)
    BY <1>2, <1>4
  <2> QED
    BY ONLY <2>1, BatchFields
<1>6. Head(wire[v]) = BatchMsg(r)
  <2>1. \A m : Succ(r).log = Append(r.log, m) => Head(wire[v]) = m
    BY <1>1, <1>3, <1>4, NextMessage, ZenonT(60), SMTT(40)
  <2>2. Succ(r).log = Append(r.log, BatchMsg(r))
    BY <1>5
  <2> QED
    BY <2>1, <2>2
<1>7. /\ checked[v] = Products(r.made, 0, r.from)
      /\ transcript[v] = r.trans /\ posted[v] = r.posted /\ meshed[v] \in Nat /\ Len(r.posted) = meshed[v]
      /\ r.from \in Nat /\ r.done \in Nat /\ r.from <= r.done /\ r.done <= Len(r.made) /\ Len(r.made) \in Nat
  BY <1>1, <1>3, VerifierKept
<1> PICK vals, filled : vals = BatchMsg(r).vals /\ filled = FillBatch(v, vals)
  OBVIOUS
<1>8. /\ SlotsRight(filled.slots, Upto(r), {}) /\ ~filled.failed
      /\ filled.triples = Products(r.made, r.from, Len(r.made))
  BY <1>1, <1>3, BatchFills
<1>9. Len(filled.triples) = Len(r.made) - r.from
  <2> PICK made, i, j : made = r.made /\ i = r.from /\ j = Len(r.made)
    OBVIOUS
  <2>1. i \in Nat /\ j \in Nat /\ i <= j
    BY <1>7
  <2>2. Len(Products(made, i, j)) = j - i
    BY ONLY <2>1, ProductsFacts
  <2> QED
    BY <1>8, <2>2
<1>10. /\ slots' = [slots EXCEPT ![v] = filled.slots] /\ triples' = [triples EXCEPT ![v] = filled.triples]
       /\ BatchDone(v, filled.triples)
       /\ ptr' = [ptr EXCEPT ![v] = @ + Need(v)]
       /\ UNCHANGED <<prog, pos, dim, pool, authPtr, entered, extends, transcript, posted, meshed, checked>>
  <2>1. LET msg == Head(wire[v])
            got == FillBatch(v, IF msg.masks = NextMasks(v) THEN msg.vals
                                ELSE [i \in 1 .. k |-> Junk])
        IN  /\ slots' = [slots EXCEPT ![v] = got.slots]
            /\ triples' = [triples EXCEPT ![v] = got.triples]
            /\ ~got.failed => BatchDone(v, got.triples)
    BY DEF VBatch
  <2>2. /\ ptr' = [ptr EXCEPT ![v] = @ + Need(v)]
        /\ UNCHANGED <<prog, pos, dim, pool, authPtr, entered, extends, transcript, posted, meshed, checked>>
    BY DEF VBatch, UseMasks, checkVars
  <2>3. BatchMsg(r).masks = NextMasks(v)
    BY <1>2 DEF BatchMsg
  <2>4. FillBatch(v, IF BatchMsg(r).masks = NextMasks(v) THEN BatchMsg(r).vals
                                ELSE [i \in 1 .. k |-> Junk]) = filled
    BY <2>3
  <2> QED
    BY <1>6, <1>8, <2>1, <2>2, <2>4
<1>11. /\ pending' = [pending EXCEPT ![v] = <<>>]
       /\ batches' = [batches EXCEPT ![v] = @ + 1]
       /\ pc' = [pc EXCEPT ![v] = IF Len(r.made) - r.from >= MultGateBufSz THEN "com" ELSE "tail"]
  BY <1>9, <1>10 DEF BatchDone, CheckDue, Goto
<1>12. /\ DOMAIN pending = Party /\ DOMAIN batches = Party /\ DOMAIN pc = Party /\ DOMAIN ptr = Party
       /\ DOMAIN slots = Verifier /\ DOMAIN triples = Party
  BY DEF NInv, NetShapes, WInv, Shapes
<1>13. /\ pending'[v] = <<>> /\ batches'[v] = r.batches + 1 /\ ptr'[v] = r.ptr + NeedOf(r)
       /\ slots'[v] = filled.slots /\ triples'[v] = Products(r.made, r.from, Len(r.made))
       /\ pc'[v] = (IF Len(r.made) - r.from >= MultGateBufSz THEN "com" ELSE "tail")
  BY <1>2, <1>8, <1>10, <1>11, <1>12
<1>14. SlotsRight(slots'[v], Upto(q), ToSet(q.pending))
  <2>1. Upto(q) = Upto(r)
    BY <1>4, <1>5 DEF Upto
  <2>2. ToSet(q.pending) = {}
    BY <1>5, ToSetEmpty
  <2> QED
    BY <1>8, <1>13, <2>1, <2>2
<1>15. \E f \in 0 .. q.done :
         /\ checked'[v] = Products(q.made, 0, f) /\ triples'[v] = Products(q.made, f, q.done)
         /\ IF pc'[v] = "mesh" THEN q.from = q.done ELSE f = q.from
  <2>1. r.from \in 0 .. q.done
    BY ONLY <1>5, <1>7
  <2>2. pc'[v] # "mesh"
    BY <1>13
  <2>3. checked'[v] = Products(q.made, 0, r.from) /\ triples'[v] = Products(q.made, r.from, q.done) /\ r.from = q.from
    BY ONLY <1>5, <1>7, <1>10, <1>13
  <2> QED
    BY <2>1, <2>2, <2>3
<1>16. VerifierComes(v, r, q)
  <2>1. pending'[v] = q.pending /\ batches'[v] = q.batches /\ dim'[v] = q.dim /\ ptr'[v] = q.ptr
    BY ONLY <1>2, <1>5, <1>10, <1>13
  <2>2. q.pool = r.pool /\ q.authPtr = r.authPtr /\ q.entered = r.entered /\ q.extends = r.extends
    BY ONLY <1>5
  <2>3. pc'[v] = q.pc /\ pos'[v] = q.pos /\ pc'[v] \notin {"mesh", "open"}
    BY ONLY <1>4, <1>5, <1>10, <1>13
  <2>4. (CASE pc'[v] = "open" -> q.pc = "next" /\ q.pos = pos'[v] + 1
             [] pc'[v] = "mesh" -> q.pc = "tail" /\ q.pos = pos'[v]
             [] OTHER           -> q.pc = pc'[v] /\ q.pos = pos'[v])
    BY ONLY <2>3
  <2>5. transcript'[v] = q.trans /\ posted'[v] = q.posted /\ meshed'[v] \in Nat
    BY ONLY <1>5, <1>7, <1>10
  <2>6. Len(q.posted) = meshed'[v] + (IF pc'[v] \in {"mesh", "open"} THEN 1 ELSE 0)
    BY ONLY <1>5, <1>7, <1>10, <2>3
  <2>7. SlotsRight(slots'[v], Upto(q), ToSet(q.pending))
    BY ONLY <1>14, SMTT(40), ZenonT(40)
  <2> QED
    BY ONLY <2>1, <2>2, <2>4, <2>5, <2>6, <2>7, <1>15 DEF VerifierComes
<1>17. Hears(v, r, q)
  BY <1>3, <1>4, <1>5, <1>6 DEF Hears
<1>18. VerifierAlone(v)
  BY <1>10, <1>11 DEF VerifierAlone, OnlyAt
<1> QED
  BY <1>1, <1>4, <1>16, <1>17, <1>18, VerifierDoes

-----------------------------------------------------------------------------
(* The exchanges of the verifiers.                                         *)

\* A verifier stays where it is on the path.
LEMMA VerifierRests ==
  ASSUME NInv, NEW v \in Verifier, VerifierAlone(v), NEW H, NEW N, NEW c, OnPath(H, N, c),
         NEW r, r = H[c[v]], VerifierComes(v, r, r), UNCHANGED <<buf, wire>>
  PROVE  \E G, M, d : OnPath(G, M, d)'
<1>1. Good(r) /\ PartyAs(v, r) /\ ProgOK /\ v \in Party /\ v # Prover
  BY VerifierHere DEF NInv
<1>2. UNCHANGED prog
  BY DEF VerifierAlone
<1>3. VerifierAs(v, r)'
  BY <1>1, VerifierComesAs
<1>4. As(v, H[c[v]])'
  BY <1>1, <1>3 DEF As, Prover
<1>5. \A o \in Party : As(o, H[c[o]])' \/ Still(o)
  BY <1>4, VerifierAloneStill
<1>6. \A w \in Verifier : Delivered(w, H[c[Prover]], H[c[w]])'
  BY DEF OnPath, Delivered
<1> QED
  BY <1>1, <1>2, <1>5, <1>6, Rests

\* All verifiers contribute the same, and find nothing wrong.
LEMMA PostedAgree ==
  ASSUME NInv, NEW v \in Verifier, NEW w \in Verifier,
         NEW i \in 1 .. Len(posted[v]), i <= Len(posted[w])
  PROVE  posted[w][i] = posted[v][i] /\ posted[v][i].right
<1>1. PICK H, N, c : OnPath(H, N, c)
  BY DEF NInv
<1> PICK r, q : r = H[c[v]] /\ q = H[c[w]]
  OBVIOUS
<1>2. VerifierAs(v, r) /\ VerifierAs(w, q) /\ Good(r) /\ Good(q) /\ v \in Party /\ w \in Party /\ ProgOK
  BY <1>1, VerifierHere
<1>3. posted[v] = r.posted /\ posted[w] = q.posted
  BY <1>2 DEF VerifierAs, Answered
<1>4. posted[v][i].right
  BY <1>2, <1>3, GoodMeans DEF Checking
<1>5. c[v] \in 0 .. N /\ c[w] \in 0 .. N /\ Path(H, N) /\ N \in Nat
  BY <1>1, <1>2, PathFacts
<1>6. IsSeq(r.posted) /\ IsSeq(q.posted)
  BY <1>2, GoodSeqs
<1>7. Len(r.posted) \in Nat /\ Len(q.posted) \in Nat
  BY <1>6, SeqFacts
<1>8. CASE c[v] = c[w]
  BY <1>3, <1>4, <1>8
<1>9. CASE c[v] < c[w]
  <2>1. c[v] \in 0 .. c[w] - 1
    BY <1>5, <1>9
  <2>2. Before(r, q)
    BY <1>2, <1>5, <2>1, PathBefore
  <2> QED
    BY <1>3, <1>4, <1>7, <2>2 DEF Before, Begins
<1>10. CASE c[w] < c[v]
  <2>1. c[w] \in 0 .. c[v] - 1
    BY <1>5, <1>10
  <2>2. Before(q, r)
    BY <1>2, <1>5, <2>1, PathBefore
  <2>3. i \in 1 .. Len(q.posted)
    BY <1>3, <1>7
  <2> QED
    BY <1>3, <1>4, <2>2, <2>3 DEF Before, Begins
<1> QED
  BY <1>5, <1>8, <1>9, <1>10

LEMMA ProductsJoin ==
  ASSUME NEW made, NEW i \in Nat, NEW j \in Nat, i <= j
  PROVE  Products(made, 0, i) \o Products(made, i, j) = Products(made, 0, j)
<1> PICK z : z = 0
  OBVIOUS
<1> PICK a, b, s : a = Products(made, z, i) /\ b = Products(made, i, j) /\ s = Products(made, z, j)
  OBVIOUS
<1>1. /\ IsSeq(a) /\ Len(a) = i /\ \A l \in 1 .. i : a[l] = Triple(made[l])
      /\ IsSeq(b) /\ Len(b) = j - i /\ \A l \in 1 .. j - i : b[l] = Triple(made[i + l])
      /\ IsSeq(s) /\ Len(s) = j /\ \A l \in 1 .. j : s[l] = Triple(made[l])
  <2>0. z \in Nat /\ z <= i /\ z <= j /\ i \in Nat /\ j \in Nat /\ i <= j
    OBVIOUS
  <2>1. IsSeq(a) /\ Len(a) = i - z /\ \A l \in 1 .. i - z : a[l] = Triple(made[z + l])
    BY ONLY <2>0, a = Products(made, z, i), ProductsFacts
  <2>2. IsSeq(b) /\ Len(b) = j - i /\ \A l \in 1 .. j - i : b[l] = Triple(made[i + l])
    BY ONLY <2>0, b = Products(made, i, j), ProductsFacts, ZenonT(60), SMTT(40), Z3T(40)
  <2>3. IsSeq(s) /\ Len(s) = j - z /\ \A l \in 1 .. j - z : s[l] = Triple(made[z + l])
    BY ONLY <2>0, s = Products(made, z, j), ProductsFacts
  <2>4. i - z = i /\ j - z = j /\ (\A l \in 1 .. j : z + l = l) /\ (\A l \in 1 .. i : z + l = l)
    OBVIOUS
  <2> QED
    BY ONLY <2>1, <2>2, <2>3, <2>4
<1> PICK t : t = a \o b
  OBVIOUS
<1>2. /\ IsSeq(t) /\ Len(t) = i + (j - i) /\ (\A l \in 1 .. i : t[l] = a[l])
      /\ \A l \in 1 .. j - i : t[i + l] = b[l]
  <2>1. IsSeq(a) /\ IsSeq(b)
    BY ONLY <1>1
  <2>2. /\ IsSeq(t) /\ Len(t) = Len(a) + Len(b) /\ (\A l \in 1 .. Len(a) : t[l] = a[l])
        /\ \A l \in 1 .. Len(b) : t[Len(a) + l] = b[l]
    BY ONLY <2>1, t = a \o b, SeqConcat
  <2>3. Len(a) = i /\ Len(b) = j - i
    BY ONLY <1>1
  <2> QED
    BY ONLY <2>2, <2>3
<1>3. Len(t) = j
  BY <1>2
<1>4. ASSUME NEW l \in 1 .. j PROVE t[l] = s[l]
  <2>1. CASE l <= i
    BY <1>1, <1>2, <2>1
  <2>2. CASE l > i
    <3> PICK x : x = l - i
      OBVIOUS
    <3>1. x \in 1 .. j - i /\ i + x = l
      BY <2>2
    <3>2. t[i + x] = b[x] /\ b[x] = Triple(made[i + x])
      BY ONLY <1>1, <1>2, <3>1
    <3>3. s[l] = Triple(made[l])
      BY ONLY <1>1, l \in 1 .. j
    <3> QED
      BY ONLY <3>1, <3>2, <3>3
  <2>3. l <= i \/ l > i
    OBVIOUS
  <2> QED
    BY ONLY <2>1, <2>2, <2>3
<1>5. t = [l \in 1 .. j |-> t[l]] /\ s = [l \in 1 .. j |-> s[l]]
  <2>1. IsSeq(t) /\ Len(t) = j /\ IsSeq(s) /\ Len(s) = j
    BY ONLY <1>1, <1>2, <1>3
  <2>2. t = [l \in 1 .. Len(t) |-> t[l]] /\ s = [l \in 1 .. Len(s) |-> s[l]]
    BY ONLY <2>1, SeqFacts
  <2> QED
    BY <2>1, <2>2
<1>6. t = s
  BY ONLY <1>4, <1>5
<1>7. a \o b = s
  BY ONLY <1>6, t = a \o b
<1> QED
  BY ONLY <1>7, a = Products(made, z, i), b = Products(made, i, j), s = Products(made, z, j), z = 0

LEMMA VMeshStep ==
  ASSUME NInv, NEW v \in Verifier, VMesh(v)
  PROVE  \E G, M, d : OnPath(G, M, d)'
<1>1. PICK H, N, c : OnPath(H, N, c)
  BY DEF NInv
<1> PICK r : r = H[c[v]]
  OBVIOUS
<1>2. /\ Good(r) /\ VerifierAs(v, r) /\ PartyAs(v, r) /\ v \in Party
      /\ SlotsRight(slots[v], Upto(r), ToSet(r.pending))
  BY <1>1, VerifierHere
<1>3. pc[v] \in {"mesh", "open"} /\ \A w \in Verifier : Len(posted[w]) >= meshed[v] + 1
  BY DEF VMesh
<1>4. /\ transcript[v] = r.trans /\ posted[v] = r.posted /\ meshed[v] \in Nat /\ Len(posted[v]) = meshed[v] + 1
  BY <1>2, <1>3 DEF VerifierAs, Answered
<1> PICK round : round = meshed[v] + 1
  OBVIOUS
<1>5. \A w \in Verifier : posted[w][round].right /\ posted[w][round].saw = posted[v][round].saw
  <2> TAKE w \in Verifier
  <2>1. round \in 1 .. Len(posted[v]) /\ round <= Len(posted[w])
    <3>1. IsSeq(posted[w])
      <4> PICK q : q = H[c[w]]
        OBVIOUS
      <4>1. VerifierAs(w, q) /\ Good(q)
        BY <1>1, VerifierHere
      <4> QED
        BY <4>1, GoodSeqs DEF VerifierAs, Answered
    <3>2. Len(posted[w]) \in Nat
      BY <3>1, SeqFacts
    <3> QED
      BY <1>3, <1>4, <3>2
  <2>2. posted[w][round] = posted[v][round] /\ posted[v][round].right
    BY <2>1, PostedAgree
  <2> QED
    BY <2>2
<1>6. /\ meshed' = [meshed EXCEPT ![v] = round]
      /\ IF pc[v] = "mesh"
         THEN CheckPassed(v) /\ Goto(v, "tail") /\ UNCHANGED pos
         ELSE Finish(v) /\ UNCHANGED <<triples, checked>>
      /\ UNCHANGED <<prog, pending, batches, dim, pool, ptr, authPtr, entered, extends, slots, transcript,
                     posted, buf, wire>>
  BY <1>5 DEF VMesh, poolVars, slotVars, netVars
<1>7. /\ DOMAIN meshed = Verifier /\ DOMAIN pc = Party /\ DOMAIN pos = Party /\ DOMAIN triples = Party
      /\ DOMAIN checked = Verifier
  BY DEF NInv, NetShapes, WInv, Shapes
<1>8. meshed'[v] = round /\ round \in Nat /\ Len(r.posted) = round
  BY <1>4, <1>6, <1>7
<1>9. PICK f \in 0 .. r.done :
        /\ checked[v] = Products(r.made, 0, f) /\ triples[v] = Products(r.made, f, r.done)
        /\ IF pc[v] = "mesh" THEN r.from = r.done ELSE f = r.from
  BY <1>2 DEF VerifierAs, Records
<1>10. Stands(v, r)
  BY <1>2 DEF VerifierAs
<1>11. /\ pending[v] = r.pending /\ batches[v] = r.batches /\ dim[v] = r.dim /\ ptr[v] = r.ptr
  BY <1>2 DEF PartyAs
<1>12. r.done \in Nat
  BY <1>2, GoodMeans DEF StateType
<1>13. VerifierAlone(v)
  <2>1. OnlyAt(pos, pos', v) /\ OnlyAt(pc, pc', v) /\ OnlyAt(triples, triples', v) /\ OnlyAt(checked, checked', v)
    BY <1>6 DEF OnlyAt, CheckPassed, Goto, Finish
  <2> QED
    BY <1>6, <2>1 DEF VerifierAlone, OnlyAt
<1>14. CASE pc[v] = "mesh"
  <2>1. pc'[v] = "tail" /\ pos'[v] = pos[v] /\ r.pc = "tail" /\ r.pos = pos[v]
    BY <1>2, <1>6, <1>7, <1>10, <1>14 DEF Goto, Stands
  <2>2. checked'[v] = checked[v] \o triples[v] /\ triples'[v] = <<>>
    <3>1. CheckPassed(v) /\ v \in Party
      BY <1>2, <1>6, <1>14, SMTT(40), ZenonT(40)
    <3> QED
      BY ONLY <1>7, <3>1, v \in Verifier DEF CheckPassed
  <2>3. checked'[v] = Products(r.made, 0, r.done) /\ triples'[v] = Products(r.made, r.done, r.done)
    <3> PICK made, j : made = r.made /\ j = r.done
      BY Zenon
    <3>1. f \in Nat /\ j \in Nat /\ f <= j /\ j <= j
      BY <1>9, <1>12
    <3>2. Products(made, 0, f) \o Products(made, f, j) = Products(made, 0, j)
      BY ONLY <3>1, ProductsJoin
    <3>3. ~(Products(made, j, j) # <<>>)
      <4>1. ~(j > j)
        BY <3>1
      <4> QED
        BY ONLY <3>1, <4>1, ProductsLeft
    <3> QED
      BY <1>9, <2>2, <3>2, <3>3
  <2>4. r.done \in 0 .. r.done /\ r.done = r.from
    BY <1>9, <1>12, <1>14
  <2>5. \E g \in 0 .. r.done :
          /\ checked'[v] = Products(r.made, 0, g) /\ triples'[v] = Products(r.made, g, r.done)
          /\ IF pc'[v] = "mesh" THEN r.from = r.done ELSE g = r.from
    BY <2>1, <2>3, <2>4
  <2>6. VerifierComes(v, r, r)
    BY <1>2, <1>4, <1>6, <1>8, <1>11, <2>1, <2>5 DEF VerifierComes
  <2> QED
    BY <1>1, <1>6, <1>13, <2>6, VerifierRests
<1>15. CASE pc[v] = "open"
  <2>1. pc'[v] = "next" /\ pos'[v] = pos[v] + 1 /\ r.pc = "next" /\ r.pos = pos[v] + 1
    BY <1>2, <1>6, <1>7, <1>10, <1>15 DEF Goto, Finish, Stands
  <2>5. \E g \in 0 .. r.done :
          /\ checked'[v] = Products(r.made, 0, g) /\ triples'[v] = Products(r.made, g, r.done)
          /\ IF pc'[v] = "mesh" THEN r.from = r.done ELSE g = r.from
    BY <1>6, <1>9, <1>15, <2>1
  <2>6. VerifierComes(v, r, r)
    BY <1>2, <1>4, <1>6, <1>8, <1>11, <2>1, <2>5 DEF VerifierComes
  <2> QED
    BY <1>1, <1>6, <1>13, <2>6, VerifierRests
<1> QED
  BY <1>3, <1>14, <1>15

-----------------------------------------------------------------------------
(* The rest of a verifier's call.                                          *)

\* A verifier that is about to open a value has all wires up to it.
LEMMA ShownRight ==
  ASSUME ProgOK, NEW r, Good(r), r.pc = "tail", r.pos < Len(prog),
         prog[r.pos + 1].kind \in {"reveal", "check"},
         NEW sl, SlotsRight(sl, Upto(r), ToSet(r.pending)), NEW a, a = prog[r.pos + 1].args[1]
  PROVE  r.pending = <<>> /\ Settles(sl, a, Upto(r), ToSet(r.pending))
<1>1. r.pos \in Nat /\ Upto(r) = r.pos + 1 /\ Drained(r)
  BY GoodMeans DEF StateType, Upto
<1>2. r.pending = <<>>
  BY <1>1 DEF Drained, IsFlush
<1>3. r.pos + 1 \in 1 .. Len(prog) /\ Len(prog) \in Nat
  BY <1>1, SeqFacts DEF ProgOK
<1>4. PICK b \in 1 .. r.pos : prog[r.pos + 1].args = <<b>> /\ MakesSlot(prog[b])
  <2> PICK i : i = r.pos + 1
    OBVIOUS
  <2>1. i \in 1 .. Len(prog) /\ prog[i].kind \in {"reveal", "check"} /\ i - 1 = r.pos
    BY <1>1, <1>3
  <2>2. \E b \in 1 .. i - 1 : prog[i].args = <<b>> /\ MakesSlot(prog[b])
    BY <2>1, ShownOK
  <2> QED
    BY <2>1, <2>2
<1>5. a = b
  BY <1>4
<1>6. a \in Slot
  <2>1. a \in 1 .. Len(prog) /\ MakesSlot(prog[a])
    BY <1>1, <1>3, <1>4, <1>5
  <2>2. CallOK(a)
    BY <2>1 DEF ProgOK
  <2>3. prog[a].kind # "finalize"
    BY <2>1 DEF MakesSlot, IsShared, IsLinear
  <2>4. a <= MaxCalls
    BY ONLY <2>2, <2>3 DEF CallOK
  <2>5. Len(prog) \in Nat /\ MaxCalls \in Nat /\ Slot = 1 .. MaxCalls
    BY <1>3, Sizes DEF Slot
  <2> QED
    BY ONLY <2>1, <2>4, <2>5
<1>7. \A t \in ToSet(r.pending) : t > a
  BY <1>2, ToSetEmpty
<1>8. Upto(r) \in 0 .. Len(prog)
  BY UptoIn
<1>9. Resolvable(sl, a, Upto(r), ToSet(r.pending))
  BY <1>1, <1>4, <1>5, <1>6, <1>7, <1>8 DEF Resolvable
<1> PICK m, S : m = Upto(r) /\ S = ToSet(r.pending)
  OBVIOUS
<1>10. Settles(sl, a, m, S)
  BY <1>9, MaterializeRight
<1> QED
  BY <1>2, <1>10

LEMMA VShowStep ==
  ASSUME NInv, NEW v \in Verifier, VTail(v), Op(v).kind \in {"reveal", "check"}
  PROVE  \E G, M, d : OnPath(G, M, d)'
<1>1. PICK H, N, c : OnPath(H, N, c)
  BY DEF NInv
<1> PICK r : r = H[c[v]]
  OBVIOUS
<1>2. /\ Good(r) /\ IsState(r) /\ v \in Party /\ SlotsRight(slots[v], Upto(r), ToSet(r.pending))
      /\ pending[v] = r.pending /\ batches[v] = r.batches /\ ptr[v] = r.ptr /\ dim[v] = r.dim /\ ProgOK
  BY <1>1, VerifierHere
<1>3. pc[v] = "tail" /\ ~Starved(v)
  BY DEF VTail, Starved, Need
<1>4. r.pc = "tail" /\ r.got = r.log /\ pos[v] = r.pos /\ r.pos < Len(prog) /\ Succ(r) = TailOf(r)
  BY <1>1, <1>3, VerifierPlain
<1> PICK op : op = prog[r.pos + 1]
  OBVIOUS
<1> PICK q : q = Succ(r)
  OBVIOUS
<1> PICK a : a = op.args[1]
  OBVIOUS
<1>5. Op(v) = op /\ op.kind \in {"reveal", "check"}
  BY <1>4 DEF Op
<1>6. /\ q.pos = r.pos + 1 /\ q.pc = "next" /\ q.posted = Append(r.posted, Opened(r))
      /\ q.pending = r.pending /\ q.batches = r.batches /\ q.made = r.made /\ q.done = r.done
      /\ q.from = r.from /\ q.dim = r.dim /\ q.pool = r.pool /\ q.ptr = r.ptr
      /\ q.authPtr = r.authPtr /\ q.entered = r.entered /\ q.extends = r.extends /\ q.trans = r.trans
      /\ IF op.kind = "reveal" THEN q.log = Append(r.log, ValsMsg(r)) /\ q.got = Append(r.log, ValsMsg(r))
                               ELSE q.got = r.got
  <2>1. CASE op.kind = "reveal"
    <3>1. IsState(r) /\ prog[r.pos + 1].kind = "reveal" /\ q = TailOf(r)
      BY <1>2, <1>4, <2>1
    <3> QED
      BY ONLY <2>1, <3>1, RevealFields
  <2>2. CASE op.kind = "check"
    <3>1. IsState(r) /\ prog[r.pos + 1].kind = "check" /\ q = TailOf(r)
      BY <1>2, <1>4, <2>2
    <3> QED
      BY ONLY <2>2, <3>1, ExpectFields
  <2> QED
    BY <1>5, <2>1, <2>2
<1>7. /\ checked[v] = Products(r.made, 0, r.from) /\ triples[v] = Products(r.made, r.from, r.done)
      /\ transcript[v] = r.trans /\ posted[v] = r.posted /\ meshed[v] \in Nat /\ Len(r.posted) = meshed[v]
      /\ r.from \in Nat /\ r.done \in Nat /\ r.from <= r.done /\ r.done <= Len(r.made) /\ Len(r.made) \in Nat
  BY <1>1, <1>3, VerifierKept
<1>8. Settles(slots[v], a, Upto(r), ToSet(r.pending))
  <2> PICK sl : sl = slots[v]
    OBVIOUS
  <2>1. SlotsRight(sl, Upto(r), ToSet(r.pending)) /\ prog[r.pos + 1].kind \in {"reveal", "check"}
        /\ a = prog[r.pos + 1].args[1]
    BY <1>2, <1>5
  <2>2. Settles(sl, a, Upto(r), ToSet(r.pending))
    <3>1. ProgOK /\ Good(r) /\ r.pc = "tail" /\ r.pos < Len(prog)
      BY <1>2, <1>4, SMTT(40), ZenonT(40)
    <3> QED
      BY ONLY <2>1, <3>1, ShownRight
  <2> QED
    BY <2>2
<1>9. op.kind = "reveal" => wire[v] # <<>> /\ Receive(v) /\ Head(wire[v]) = ValsMsg(r)
  <2> SUFFICES ASSUME op.kind = "reveal" PROVE wire[v] # <<>> /\ Receive(v) /\ Head(wire[v]) = ValsMsg(r)
    OBVIOUS
  <2>1. wire[v] # <<>> /\ Receive(v)
    BY <1>5 DEF VTail, Arrived
  <2>2. \A m : Succ(r).log = Append(r.log, m) => Head(wire[v]) = m
    BY <1>1, <1>4, <2>1, NextMessage, ZenonT(60), SMTT(40), Z3T(40)
  <2> QED
    BY <1>6, <2>1, <2>2
<1> DEFINE claimed == IF op.kind = "reveal" THEN Head(wire[v]).val ELSE Meaning[a]
           now == Materialize(slots[v], a)
<1>10. claimed = Meaning[a]
  BY <1>9 DEF ValsMsg
<1>11. /\ SlotsRight(now, Upto(r), ToSet(r.pending)) /\ ~Premature(slots[v], a)
       /\ now[a].sh = Meaning[a]
  BY <1>8, ZenonT(60), SMTT(40) DEF Settles
<1>12. /\ slots' = [slots EXCEPT ![v] = now]
       /\ pc' = [pc EXCEPT ![v] = "open"] /\ pos' = pos
       /\ posted' = [posted EXCEPT ![v] = Append(@, [saw |-> <<claimed>>, right |-> now[a].sh = claimed])]
       /\ UNCHANGED <<prog, pending, batches, triples, dim, pool, ptr, authPtr, entered, extends,
                      transcript, meshed, checked>>
       /\ op.kind # "reveal" => UNCHANGED <<buf, wire>>
  BY <1>5, <1>11, ZenonT(60), SMTT(40) DEF VTail, Contribute, Goto, poolVars, netVars
<1>13. [saw |-> <<claimed>>, right |-> now[a].sh = claimed] = Opened(r)
  <2>1. (now[a].sh = claimed) = TRUE
    BY <1>10, <1>11, ZenonT(60), SMTT(40)
  <2> HIDE DEF now, claimed
  <2> QED
    BY <1>10, <2>1, ZenonT(60), SMTT(40) DEF Opened
<1> HIDE DEF now, claimed
<1>14. DOMAIN pc = Party /\ DOMAIN posted = Verifier /\ DOMAIN slots = Verifier
  BY SMTT(40), ZenonT(40) DEF NInv, NetShapes, WInv, Shapes
<1>15. /\ slots'[v] = now /\ pc'[v] = "open" /\ posted'[v] = q.posted /\ pos'[v] = r.pos
  <2>1. v \in Party /\ v \in Verifier
    BY <1>2
  <2>2. slots'[v] = now /\ pc'[v] = "open"
    BY ONLY <1>12, <1>14, <2>1
  <2>3. posted'[v] = Append(posted[v], Opened(r))
    BY ONLY <1>12, <1>13, <1>14, <2>1
  <2>4. posted'[v] = q.posted /\ pos'[v] = r.pos
    BY ONLY <1>4, <1>6, <1>7, <1>12, <2>3, SMTT(40), ZenonT(40)
  <2> QED
    BY ONLY <2>2, <2>4
<1>16. Len(q.posted) = meshed'[v] + 1
  <2>1. IsSeq(r.posted)
    BY <1>2, GoodSeqs
  <2>2. Len(q.posted) = Len(r.posted) + 1
    BY <1>6, <2>1, SeqAppend
  <2> QED
    BY <1>7, <1>12, <2>2
<1>17. Upto(q) = Upto(r)
  <2>1. r.pos \in Nat
    BY <1>2, GoodMeans, SMTT(40), ZenonT(40) DEF StateType
  <2> QED
    BY <1>4, <1>6, <2>1 DEF Upto
<1>18. \E f \in 0 .. q.done :
         /\ checked'[v] = Products(q.made, 0, f) /\ triples'[v] = Products(q.made, f, q.done)
         /\ IF pc'[v] = "mesh" THEN q.from = q.done ELSE f = q.from
  <2>1. r.from \in 0 .. q.done
    BY <1>6, <1>7
  <2>2. checked'[v] = Products(q.made, 0, r.from) /\ triples'[v] = Products(q.made, r.from, q.done)
    BY ONLY <1>6, <1>7, <1>12
  <2>3. pc'[v] # "mesh" /\ r.from = q.from
    BY ONLY <1>6, <1>15
  <2> QED
    BY ONLY <2>1, <2>2, <2>3, SMTT(40), ZenonT(40)
<1>19. VerifierComes(v, r, q)
  <2>1. pending'[v] = q.pending /\ batches'[v] = q.batches /\ dim'[v] = q.dim /\ ptr'[v] = q.ptr
    BY ONLY <1>2, <1>6, <1>12
  <2>2. q.pool = r.pool /\ q.authPtr = r.authPtr /\ q.entered = r.entered /\ q.extends = r.extends
    BY ONLY <1>6
  <2>3. pc'[v] = "open" /\ q.pc = "next" /\ q.pos = pos'[v] + 1
    BY ONLY <1>2, <1>6, <1>15
  <2>4. (CASE pc'[v] = "open" -> q.pc = "next" /\ q.pos = pos'[v] + 1
             [] pc'[v] = "mesh" -> q.pc = "tail" /\ q.pos = pos'[v]
             [] OTHER           -> q.pc = pc'[v] /\ q.pos = pos'[v])
    BY ONLY <2>3
  <2>5. transcript'[v] = q.trans /\ posted'[v] = q.posted /\ meshed'[v] \in Nat
    BY ONLY <1>6, <1>7, <1>12, <1>15
  <2>6. Len(q.posted) = meshed'[v] + (IF pc'[v] \in {"mesh", "open"} THEN 1 ELSE 0)
    BY ONLY <1>16, <2>3
  <2>7. SlotsRight(slots'[v], Upto(q), ToSet(q.pending))
    BY ONLY <1>6, <1>11, <1>15, <1>17
  <2> QED
    BY ONLY <2>1, <2>2, <2>4, <2>5, <2>6, <2>7, <1>18 DEF VerifierComes
<1>20. Hears(v, r, q)
  <2>1. CASE op.kind = "reveal"
    BY ONLY <1>4, <1>6, <1>9, <2>1 DEF Hears
  <2>2. CASE op.kind # "reveal"
    BY ONLY <1>6, <1>12, <2>2, SMTT(40), ZenonT(40), Z3T(40) DEF Hears
  <2> QED
    BY ONLY <2>1, <2>2
<1>21. VerifierAlone(v)
  BY <1>12 DEF VerifierAlone, OnlyAt
<1> QED
  BY <1>1, <1>4, <1>19, <1>20, <1>21, VerifierDoes

LEMMA VReturnStep ==
  ASSUME NInv, NEW v \in Verifier, VTail(v), Op(v).kind \notin {"reveal", "check"}
  PROVE  \E G, M, d : OnPath(G, M, d)'
<1>1. PICK H, N, c : OnPath(H, N, c)
  BY DEF NInv
<1> PICK r : r = H[c[v]]
  OBVIOUS
<1>2. /\ Good(r) /\ IsState(r) /\ v \in Party /\ SlotsRight(slots[v], Upto(r), ToSet(r.pending))
      /\ pending[v] = r.pending /\ batches[v] = r.batches /\ ptr[v] = r.ptr /\ dim[v] = r.dim /\ ProgOK
  BY <1>1, VerifierHere
<1>3. pc[v] = "tail" /\ ~Starved(v)
  BY DEF VTail, Starved, Need
<1>4. r.pc = "tail" /\ r.got = r.log /\ pos[v] = r.pos /\ r.pos < Len(prog) /\ Succ(r) = TailOf(r)
  BY <1>1, <1>3, VerifierPlain
<1> PICK op : op = prog[r.pos + 1]
  OBVIOUS
<1> PICK q : q = Succ(r)
  OBVIOUS
<1>5. Op(v) = op /\ op.kind \notin {"reveal", "check"} /\ r.pos \in Nat
  BY <1>2, <1>4, GoodMeans DEF Op, StateType
<1>6. /\ q.posted = r.posted /\ q.got = r.got
      /\ q.pending = r.pending /\ q.batches = r.batches /\ q.made = r.made /\ q.done = r.done
      /\ q.from = r.from /\ q.dim = r.dim /\ q.pool = r.pool /\ q.ptr = r.ptr
      /\ q.authPtr = r.authPtr /\ q.entered = r.entered /\ q.extends = r.extends /\ q.trans = r.trans
      /\ IF op.kind = "finalize"
         THEN IF Len(r.made) > r.from THEN q.pos = r.pos /\ q.pc = "com" ELSE q.pos = r.pos + 1 /\ q.pc = "end"
         ELSE q.pos = r.pos + 1 /\ q.pc = "next"
  <2>1. CASE op.kind = "finalize" /\ Len(r.made) > r.from
    <3>1. IsState(r) /\ prog[r.pos + 1].kind = "finalize" /\ Len(r.made) > r.from /\ q = TailOf(r)
      BY <1>2, <1>4, <2>1
    <3> QED
      BY ONLY <2>1, <3>1, FinalFields
  <2>2. CASE op.kind = "finalize" /\ ~(Len(r.made) > r.from)
    <3>1. IsState(r) /\ prog[r.pos + 1].kind = "finalize" /\ ~(Len(r.made) > r.from) /\ q = TailOf(r)
      BY <1>2, <1>4, <2>2
    <3> QED
      BY ONLY <2>2, <3>1, EndFields
  <2>3. CASE op.kind # "finalize"
    <3>1. IsState(r) /\ prog[r.pos + 1].kind \notin {"reveal", "check", "finalize"} /\ q = TailOf(r)
      BY <1>2, <1>4, <1>5, <2>3
    <3> QED
      BY ONLY <2>3, <3>1, ReturnFields
  <2> QED
    BY <2>1, <2>2, <2>3
<1>7. /\ checked[v] = Products(r.made, 0, r.from) /\ triples[v] = Products(r.made, r.from, r.done)
      /\ transcript[v] = r.trans /\ posted[v] = r.posted /\ meshed[v] \in Nat /\ Len(r.posted) = meshed[v]
      /\ r.from \in Nat /\ r.done \in Nat /\ r.from <= r.done /\ r.done <= Len(r.made) /\ Len(r.made) \in Nat
  BY <1>1, <1>3, VerifierKept
<1>8. op.kind = "finalize" => (triples[v] # <<>> <=> Len(r.made) > r.from)
  <2> SUFFICES ASSUME op.kind = "finalize" PROVE triples[v] # <<>> <=> Len(r.made) > r.from
    OBVIOUS
  <2>1. r.pending = <<>>
    <3>1. Drained(r)
      BY <1>2, GoodMeans
    <3> QED
      BY <1>4, <3>1 DEF Drained, IsFlush
  <2>2. r.done = Len(r.made)
    BY <1>2, <2>1, AllDone
  <2> PICK made, i, j : made = r.made /\ i = r.from /\ j = r.done
    OBVIOUS
  <2>3. i \in Nat /\ j \in Nat /\ i <= j
    BY <1>7
  <2>4. Products(made, i, j) # <<>> <=> j > i
    BY ONLY <2>3, ProductsLeft
  <2> QED
    BY <1>7, <2>2, <2>4
<1>9. /\ UNCHANGED <<prog, slots, posted, pending, batches, triples, dim, pool, ptr, authPtr, entered, extends,
                     transcript, meshed, checked, buf, wire>>
      /\ IF op.kind = "finalize" THEN FinalCheck(v) ELSE Finish(v)
  BY <1>5 DEF VTail, poolVars, netVars
<1>10. DOMAIN pc = Party /\ DOMAIN pos = Party
  BY DEF NInv, NetShapes, WInv, Shapes
<1>11. q.pc = pc'[v] /\ q.pos = pos'[v] /\ pc'[v] \notin {"open", "mesh"}
  <2>1. CASE op.kind = "finalize"
    BY <1>2, <1>4, <1>6, <1>8, <1>9, <1>10, <2>1 DEF FinalCheck, Goto
  <2>2. CASE op.kind # "finalize"
    BY <1>2, <1>4, <1>6, <1>9, <1>10, <2>2 DEF Finish, Goto
  <2> QED
    BY <2>1, <2>2
<1>12. Upto(q) = Upto(r)
  <2>1. CASE op.kind = "finalize"
    BY <1>4, <1>5, <1>6, <2>1 DEF Upto
  <2>2. CASE op.kind # "finalize"
    BY <1>4, <1>5, <1>6, <2>2 DEF Upto
  <2> QED
    BY <2>1, <2>2
<1>13. \E f \in 0 .. q.done :
         /\ checked'[v] = Products(q.made, 0, f) /\ triples'[v] = Products(q.made, f, q.done)
         /\ IF pc'[v] = "mesh" THEN q.from = q.done ELSE f = q.from
  <2>1. r.from \in 0 .. q.done
    BY <1>6, <1>7
  <2> QED
    BY <1>6, <1>7, <1>9, <1>11, <2>1
<1>14. VerifierComes(v, r, q)
  BY <1>2, <1>6, <1>7, <1>9, <1>11, <1>12, <1>13 DEF VerifierComes
<1>15. Hears(v, r, q)
  BY <1>6, <1>9 DEF Hears
<1>16. VerifierAlone(v)
  <2>1. OnlyAt(pos, pos', v) /\ OnlyAt(pc, pc', v)
    BY <1>9, SMTT(40), ZenonT(40) DEF OnlyAt, FinalCheck, Finish, Goto
  <2> QED
    BY <1>9, <2>1 DEF VerifierAlone, OnlyAt
<1> QED
  BY <1>1, <1>4, <1>14, <1>15, <1>16, VerifierDoes

LEMMA VTailStep ==
  ASSUME NInv, NEW v \in Verifier, VTail(v)
  PROVE  \E G, M, d : OnPath(G, M, d)'
BY VShowStep, VReturnStep

-----------------------------------------------------------------------------
(* The invariant.                                                          *)

LEMMA PoolShapes == ASSUME NetShapes, NEW p \in Party, Pool(p) PROVE NetShapes'
<1>0. Verifier' = Verifier /\ Party' = Party
  BY DEF Verifier, Party, Prover
<1>1. CASE RandAuthVal(p)
  BY <1>0, <1>1 DEF NetShapes, RandAuthVal, checkVars, netVars
<1>2. CASE EnterExtend(p)
  <2>1. DOMAIN buf' = Verifier /\ DOMAIN wire' = Verifier
    BY <1>2 DEF NetShapes, EnterExtend, SendFlush
  <2> QED
    BY <1>0, <1>2, <2>1 DEF NetShapes, EnterExtend, checkVars
<1>3. CASE LeaveExtend(p)
  <2>1. DOMAIN buf' = Verifier /\ DOMAIN wire' = Verifier
    BY <1>3 DEF NetShapes, LeaveExtend, Receive, netVars
  <2> QED
    BY <1>0, <1>3, <2>1 DEF NetShapes, LeaveExtend, checkVars
<1> QED
  BY <1>1, <1>2, <1>3 DEF Pool

LEMMA ProverShapes == ASSUME NetShapes, PStep PROVE NetShapes'
<1>0. Verifier' = Verifier /\ Party' = Party
  BY DEF Verifier, Party, Prover
<1>1. CASE PCall
  BY <1>0, <1>1 DEF NetShapes, PCall, ProverUnchanged, poolVars, checkVars, netVars
<1>2. CASE PBatch
  BY <1>0, <1>2 DEF NetShapes, PBatch, Send, UseMasks, ProverUnchanged, checkVars
<1>3. CASE PCommit
  BY <1>0, <1>3 DEF NetShapes, PCommit, SendFlush, StartCheck, ProverUnchanged, poolVars, checkVars
<1>4. CASE PRound
  BY <1>0, <1>4 DEF NetShapes, PRound, SendFlush, UseMasks, Fold, ProverUnchanged, checkVars
<1>5. CASE PTail
  <2>1. DOMAIN buf' = Verifier /\ DOMAIN wire' = Verifier
    BY <1>5 DEF NetShapes, PTail, PTailSends, SendFlush, Flush
  <2> QED
    BY <1>0, <1>5, <2>1 DEF NetShapes, PTail, ProverUnchanged, poolVars, checkVars
<1> QED
  BY <1>1, <1>2, <1>3, <1>4, <1>5 DEF PStep

LEMMA VerifierShapes == ASSUME NetShapes, NEW v \in Verifier, VStep(v) PROVE NetShapes'
<1>0. Verifier' = Verifier /\ Party' = Party
  BY DEF Verifier, Party, Prover
<1>1. CASE VCall(v)
  BY <1>0, <1>1 DEF NetShapes, VCall, poolVars, checkVars, netVars
<1>2. CASE VBatch(v)
  BY <1>0, <1>2 DEF NetShapes, VBatch, Receive, UseMasks, checkVars
<1>3. CASE VCommit(v)
  BY <1>0, <1>3 DEF NetShapes, VCommit, Receive, StartCheck, poolVars
<1>4. CASE VRound(v)
  BY <1>0, <1>4 DEF NetShapes, VRound, Receive, Contribute, Fold, UseMasks
<1>5. CASE VTail(v)
  <2>1. DOMAIN buf' = Verifier /\ DOMAIN wire' = Verifier /\ DOMAIN posted' = Verifier
    BY <1>5 DEF NetShapes, VTail, Receive, Contribute, netVars
  <2> QED
    BY <1>0, <1>5, <2>1 DEF NetShapes, VTail, poolVars
<1>6. CASE VMesh(v)
  BY <1>0, <1>6 DEF NetShapes, VMesh, CheckPassed, poolVars, netVars
<1> QED
  BY <1>1, <1>2, <1>3, <1>4, <1>5, <1>6 DEF VStep

LEMMA InitNInv == Init => NInv
<1> SUFFICES ASSUME Init PROVE NInv
  OBVIOUS
<1>1. WInv
  BY InitWInv
<1>2. NetShapes
  BY DEF Init, NetShapes
<1>3. ProgOK /\ Prover \in Party /\ Good(Started)
  BY <1>1, Sizes, StartedGood DEF WInv
<1> PICK r : r = Started
  OBVIOUS
<1>4. /\ r.pos = 0 /\ r.pc = "next" /\ r.pending = <<>> /\ r.batches = 0 /\ r.made = <<>> /\ r.done = 0
      /\ r.from = 0 /\ r.dim = 0 /\ r.pool = <<>> /\ r.ptr = PreAuthSharingNum /\ r.authPtr = Usable
      /\ r.entered = 0 /\ r.extends = 0 /\ r.log = <<>> /\ r.got = <<>> /\ r.trans = <<>> /\ r.posted = <<>>
  BY DEF Started
<1>5. Products(r.made, 0, 0) = <<>>
  <2> PICK made : made = r.made
    OBVIOUS
  <2>1. ~(Products(made, 0, 0) # <<>>)
    <3> PICK z : z = 0
      OBVIOUS
    <3>1. z \in Nat /\ z <= z /\ ~(z > z)
      OBVIOUS
    <3>2. ~(Products(made, z, z) # <<>>)
      BY ONLY <3>1, ProductsLeft
    <3> QED
      BY ONLY <3>2, z = 0
  <2> QED
    BY <2>1
<1>6. ASSUME NEW p \in Party PROVE PartyAs(p, r)
  BY <1>4 DEF PartyAs, Init
<1>7. ProverAs(r)
  BY <1>3, <1>4, <1>5, <1>6, SeqEmpty DEF ProverAs, Init
<1>8. ASSUME NEW v \in Verifier PROVE VerifierAs(v, r)
  <2>1. Stands(v, r)
    BY <1>4, Sizes DEF Stands, Init
  <2>2. Records(v, r)
    <3>1. checked[v] = <<>> /\ triples[v] = <<>> /\ pc[v] = "next" /\ 0 \in 0 .. r.done
      BY <1>4, Sizes DEF Init
    <3>2. Products(r.made, 0, r.done) = <<>>
      BY <1>4, <1>5
    <3>3. /\ checked[v] = Products(r.made, 0, 0) /\ triples[v] = Products(r.made, 0, r.done)
          /\ IF pc[v] = "mesh" THEN r.from = r.done ELSE 0 = r.from
      BY <1>4, <1>5, <3>1, <3>2
    <3> PICK z : z = 0
      OBVIOUS
    <3>4. z \in 0 .. r.done /\ /\ checked[v] = Products(r.made, 0, z) /\ triples[v] = Products(r.made, z, r.done)
                               /\ IF pc[v] = "mesh" THEN r.from = r.done ELSE z = r.from
      BY <3>1, <3>3
    <3>5. \E f \in 0 .. r.done :
            /\ checked[v] = Products(r.made, 0, f) /\ triples[v] = Products(r.made, f, r.done)
            /\ IF pc[v] = "mesh" THEN r.from = r.done ELSE f = r.from
      BY <3>4
    <3> QED
      BY <3>5 DEF Records
  <2>3. Answered(v, r)
    BY <1>4, Sizes, SeqEmpty DEF Answered, Init
  <2>4. SlotsRight(slots[v], Upto(r), ToSet(pending[v]))
    <3>1. slots[v] = [s \in Slot |-> EmptySlot] /\ Upto(r) = 0
      BY <1>4 DEF Init, Upto
    <3>2. \A t \in Slot : ~(t <= 0)
      BY Sizes DEF Slot
    <3> PICK sl, m, S : sl = slots[v] /\ m = Upto(r) /\ S = ToSet(pending[v])
      OBVIOUS
    <3>3. ASSUME NEW t \in Slot PROVE SlotRight(sl, t, m, S)
      <4>1. /\ sl[t] = EmptySlot /\ ~(t <= m) /\ ~sl[t].ready /\ sl[t].lin = <<>>
        BY <3>1, <3>2 DEF EmptySlot
      <4>2. sl[t] = [ready |-> sl[t].ready, sh |-> sl[t].sh, lin |-> sl[t].lin, pub |-> sl[t].pub]
        BY ONLY <4>1 DEF EmptySlot
      <4> QED
        BY ONLY <4>1, <4>2 DEF SlotRight
    <3>4. SlotsRight(sl, m, S)
      BY <3>1, <3>3 DEF SlotsRight
    <3> QED
      BY <3>4
  <2> QED
    BY <1>6, <2>1, <2>2, <2>3, <2>4, Sizes DEF VerifierAs
<1>9. \A p \in Party : As(p, r)
  BY <1>7, <1>8, Sizes DEF As
<1>10. \A v \in Verifier : Delivered(v, r, r)
  BY <1>4, SeqEmpty DEF Delivered, Line, Begins, Init
<1> DEFINE H == [i \in {0} |-> r]
           c == [p \in Party |-> 0]
<1>11. Path(H, 0)
  BY DEF Path
<1>12. OnPath(H, 0, c)
  <2>1. \A p \in Party : H[c[p]] = r
    OBVIOUS
  <2>2. c \in [Party -> 0 .. 0]
    OBVIOUS
  <2> HIDE DEF H, c
  <2>3. \A v \in Verifier : v \in Party
    BY Sizes
  <2> QED
    BY <1>3, <1>9, <1>10, <1>11, <2>1, <2>2, <2>3 DEF OnPath
<1> QED
  BY <1>1, <1>2, <1>12 DEF NInv

LEMMA ProverPath == ASSUME NInv, PStep PROVE \E G, M, d : OnPath(G, M, d)'
BY PCallStep, PBatchStep, PCommitStep, PRoundStep, PTailStep DEF PStep

LEMMA VerifierPath == ASSUME NInv, NEW v \in Verifier, VStep(v) PROVE \E G, M, d : OnPath(G, M, d)'
BY VCallStep, VBatchStep, VCommitStep, VRoundStep, VTailStep, VMeshStep DEF VStep

LEMMA StutterPath == ASSUME NInv, UNCHANGED vars PROVE \E G, M, d : OnPath(G, M, d)'
<1>1. PICK H, N, c : OnPath(H, N, c)
  BY DEF NInv
<1>2. UNCHANGED <<prog, buf, wire>> /\ ProgOK /\ \A o \in Party : Still(o)
  BY DEF vars, netVars, poolVars, slotVars, checkVars, Still, NInv, WInv
<1>3. \A v \in Verifier : Delivered(v, H[c[Prover]], H[c[v]])'
  BY <1>1, <1>2 DEF OnPath, Delivered
<1> QED
  BY <1>1, <1>2, <1>3, Rests

LEMMA NStep == NInv /\ [Next]_vars => NInv'
<1> SUFFICES ASSUME NInv, [Next]_vars PROVE NInv'
  OBVIOUS
<1>1. WInv'
  BY WStep DEF NInv
<1>2. NetShapes
  BY DEF NInv
<1>3. ASSUME NetShapes', \E G, M, d : OnPath(G, M, d)' PROVE NInv'
  BY <1>1, <1>3 DEF NInv
<1>4. ASSUME NEW p \in Party, PartyStep(p) PROVE NInv'
  <2>1. CASE Pool(p)
    <3>1. \E G, M, d : OnPath(G, M, d)'
      BY <2>1, RandStep, EnterStep, LeaveStep DEF Pool
    <3> QED
      BY <1>2, <1>3, <2>1, <3>1, PoolShapes
  <2>2. CASE p = Prover /\ PStep
    BY <1>2, <1>3, <2>2, ProverPath, ProverShapes
  <2>3. CASE p # Prover /\ VStep(p)
    <3>1. p \in Verifier
      BY <2>3, Sizes
    <3> QED
      BY <1>2, <1>3, <2>3, <3>1, VerifierPath, VerifierShapes
  <2> QED
    BY <1>4, <2>1, <2>2, <2>3 DEF PartyStep
<1>5. ASSUME NEW v \in Verifier, SpontaneousWrite(v) PROVE NInv'
  <2>1. NetShapes'
    BY <1>2, <1>5 DEF NetShapes, SpontaneousWrite, poolVars, checkVars, Verifier, Party, Prover
  <2> QED
    BY <1>3, <1>5, <2>1, WriteStep
<1>6. CASE UNCHANGED vars
  <2>1. NetShapes'
    BY <1>2, <1>6 DEF NetShapes, vars, poolVars, checkVars, netVars, Verifier, Party, Prover
  <2> QED
    BY <1>3, <1>6, <2>1, StutterPath
<1> QED
  BY <1>4, <1>5, <1>6 DEF Next, Terminated

\* All parties go through the states of one machine, and every message is what
\* the machine sends there.
THEOREM OneMachine == Spec => []NInv
BY InitNInv, NStep, PTL DEF Spec

-----------------------------------------------------------------------------
(* What follows for the verifiers.                                         *)

LEMMA NobodyFails == NInv => HonestAccepted
<1> SUFFICES ASSUME NInv, NEW p \in Party PROVE pc[p] \notin {"failed", "error"}
  BY DEF HonestAccepted
<1>1. PICK H, N, c : OnPath(H, N, c)
  BY DEF NInv
<1> PICK r : r = H[c[p]]
  OBVIOUS
<1>2. Good(r) /\ As(p, r)
  BY <1>1, PathFacts
<1>3. pc[p] = r.pc \/ pc[p] = "open" \/ pc[p] = "mesh"
  BY <1>2, AsMeans
<1>4. r.pc \in {"next", "batch", "com", "round", "tail", "end"}
  BY <1>2, GoodMeans DEF StateType
<1> QED
  BY <1>3, <1>4

\* An honest proof is accepted by every verifier, for any number of verifiers, any
\* batch size and any program; materialize() (int_fp.h:156) finds no wire unfilled.
THEOREM Accepts == Spec => []HonestAccepted
BY OneMachine, NobodyFails, PTL

LEMMA ReadyRight == NInv => ReadyIsRight
<1> SUFFICES ASSUME NInv, NEW v \in Verifier, NEW s \in Slot, slots[v][s].ready
             PROVE  s \in DOMAIN prog /\ slots[v][s].sh = Meaning[s]
  BY DEF ReadyIsRight
<1>1. PICK H, N, c : OnPath(H, N, c)
  BY DEF NInv
<1> PICK r : r = H[c[v]]
  OBVIOUS
<1>2. Good(r) /\ ProgOK /\ SlotsRight(slots[v], Upto(r), ToSet(r.pending))
  BY <1>1, VerifierHere
<1>3. s <= Upto(r) /\ slots[v][s].sh = Meaning[s]
  BY <1>2 DEF SlotsRight, SlotRight
<1>4. Upto(r) \in 0 .. Len(prog) /\ Len(prog) \in Nat /\ DOMAIN prog = 1 .. Len(prog)
  BY <1>2, UptoIn, SeqFacts DEF ProgOK
<1>5. s \in 1 .. MaxCalls /\ MaxCalls \in Nat
  BY Sizes DEF Slot
<1>6. s \in 1 .. Len(prog)
  BY ONLY <1>3, <1>4, <1>5
<1> QED
  BY <1>3, <1>4, <1>6

\* A wire a verifier regards as filled has the prover's value of that wire, also
\* when it was resolved late (int_fp.h materialize(), verifier.h shareBatch()).
THEOREM ReadyWiresRight == Spec => []ReadyIsRight
BY OneMachine, ReadyRight, PTL

\* The calls of a verifier's products that are recorded are the first done of made.
LEMMA MultipliedIs ==
  ASSUME NInv, NEW v \in Verifier, NEW H, NEW N, NEW c, OnPath(H, N, c), NEW r, r = H[c[v]]
  PROVE  Multiplied(v) = {r.made[l] : l \in 1 .. r.done}
<1>1. /\ Good(r) /\ VerifierAs(v, r) /\ pending[v] = r.pending
  BY VerifierHere
<1>2. /\ Stands(v, r) /\ AllMade(r) /\ r.pc \in {"next", "batch", "com", "round", "tail", "end"} /\ r.pos \in Nat
      /\ r.done \in Nat /\ r.done <= Len(r.made) /\ Len(r.made) \in Nat /\ IsSeq(r.pending)
  BY <1>1, GoodMeans DEF VerifierAs, StateType
<1>3. pos[v] + (IF pc[v] \in {"next", "end"} THEN 0 ELSE 1) = Upto(r)
  <2>1. CASE pc[v] = "open"
    BY <1>2, <2>1 DEF Stands, Upto
  <2>2. CASE pc[v] = "mesh"
    BY <1>2, <2>2 DEF Stands, Upto
  <2>3. CASE pc[v] \notin {"open", "mesh"}
    BY <1>2, <2>3 DEF Stands, Upto
  <2> QED
    BY <2>1, <2>2, <2>3
<1>4. \A s : s \in ToSet(r.pending) <=> Among(s, r.pending)
  <2>1. DOMAIN r.pending = 1 .. Len(r.pending)
    BY <1>2, SeqFacts
  <2> QED
    BY <2>1 DEF ToSet, Among
<1>5. Multiplied(v) = {s \in 1 .. Upto(r) : prog[s].kind = "mult"} \ ToSet(r.pending)
  BY <1>1, <1>3 DEF Multiplied
<1> PICK made, done, m : made = r.made /\ done = r.done /\ m = Upto(r)
  OBVIOUS
<1>6. /\ \A i \in 1 .. Len(made) : made[i] \in 1 .. m /\ prog[made[i]].kind = "mult"
      /\ \A s \in 1 .. m : prog[s].kind = "mult" => Among(s, made)
      /\ \A i \in 1 .. Len(made) : Among(made[i], r.pending) <=> i > done
  BY <1>2 DEF AllMade
<1>7. ASSUME NEW s \in Multiplied(v) PROVE s \in {made[l] : l \in 1 .. done}
  <2>1. s \in 1 .. m /\ prog[s].kind = "mult" /\ ~Among(s, r.pending)
    BY <1>4, <1>5
  <2>2. PICK l \in 1 .. Len(made) : made[l] = s
    BY <1>6, <2>1 DEF Among
  <2>3. ~(l > done)
    BY <1>6, <2>1, <2>2
  <2>4. l \in 1 .. done
    BY <1>2, <2>3
  <2> QED
    BY <2>2, <2>4
<1>8. ASSUME NEW l \in 1 .. done PROVE made[l] \in Multiplied(v)
  <2>1. l \in 1 .. Len(made) /\ ~(l > done)
    BY <1>2
  <2>2. made[l] \in 1 .. m /\ prog[made[l]].kind = "mult" /\ ~Among(made[l], r.pending)
    BY <1>6, <2>1, SMTT(40), ZenonT(40)
  <2> QED
    BY <1>4, <1>5, <2>2
<1> QED
  BY <1>7, <1>8

\* What a verifier has recorded, those of passed checks included.
LEMMA RecordedIs ==
  ASSUME NInv, NEW v \in Verifier, NEW H, NEW N, NEW c, OnPath(H, N, c), NEW r, r = H[c[v]]
  PROVE  /\ checked[v] \o triples[v] = Products(r.made, 0, r.done)
         /\ pc[v] = "end" => triples[v] = <<>>
<1>1. Good(r) /\ VerifierAs(v, r)
  BY VerifierHere
<1>2. r.from \in Nat /\ r.done \in Nat /\ r.from <= r.done /\ r.done <= Len(r.made) /\ Len(r.made) \in Nat
  BY <1>1, GoodMeans DEF StateType
<1>3. PICK f \in 0 .. r.done :
        /\ checked[v] = Products(r.made, 0, f) /\ triples[v] = Products(r.made, f, r.done)
        /\ IF pc[v] = "mesh" THEN r.from = r.done ELSE f = r.from
  BY <1>1 DEF VerifierAs, Records
<1> PICK made, i, j : made = r.made /\ i = f /\ j = r.done
  OBVIOUS
<1>4. i \in Nat /\ j \in Nat /\ i <= j
  BY <1>2, <1>3
<1>5. Products(made, 0, i) \o Products(made, i, j) = Products(made, 0, j)
  BY ONLY <1>4, ProductsJoin
<1>6. ASSUME pc[v] = "end" PROVE triples[v] = <<>>
  <2>1. r.pc = "end" /\ StatePlaced(r)
    BY <1>1, <1>6, GoodMeans DEF VerifierAs, Stands
  <2>2. ~(j > i)
    BY <1>2, <1>3, <1>6, <2>1 DEF StatePlaced
  <2>3. ~(Products(made, i, j) # <<>>)
    BY ONLY <1>4, <2>2, ProductsLeft
  <2> QED
    BY <1>3, <2>3
<1> QED
  BY <1>3, <1>5, <1>6

LEMMA ProductsRecorded == NInv => EachProductOnce
<1> SUFFICES ASSUME NInv, NEW v \in Verifier
             PROVE  LET recorded == checked[v] \o triples[v]
                    IN  /\ ToSet(recorded) = {Triple(s) : s \in Multiplied(v)}
                        /\ \A i, j \in 1 .. Len(recorded) : i < j =>
                             \E s, t \in Multiplied(v) :
                               s < t /\ recorded[i] = Triple(s) /\ recorded[j] = Triple(t)
                        /\ pc[v] = "end" => triples[v] = <<>>
  BY DEF EachProductOnce
<1>1. PICK H, N, c : OnPath(H, N, c)
  BY DEF NInv
<1> PICK r : r = H[c[v]]
  OBVIOUS
<1>2. Good(r) /\ Multiplied(v) = {r.made[l] : l \in 1 .. r.done}
  BY <1>1, VerifierHere, MultipliedIs
<1>3. checked[v] \o triples[v] = Products(r.made, 0, r.done) /\ (pc[v] = "end" => triples[v] = <<>>)
  BY <1>1, RecordedIs, ZenonT(60), SMTT(40), Z3T(40)
<1> PICK made, done, s, M, z : /\ made = r.made /\ done = r.done /\ s = checked[v] \o triples[v]
                               /\ M = Multiplied(v) /\ z = 0
  OBVIOUS
<1>4. done \in Nat /\ done <= Len(made) /\ Len(made) \in Nat /\ \A i, j \in 1 .. Len(made) : i < j => made[i] < made[j]
  BY <1>2, GoodMeans DEF StateType, AllMade
<1>5. IsSeq(s) /\ Len(s) = done - z /\ DOMAIN s = 1 .. done - z /\ \A l \in 1 .. done - z : s[l] = Triple(made[z + l])
  <2>1. z \in Nat /\ done \in Nat /\ z <= done /\ s = Products(made, z, done)
    BY <1>3, <1>4
  <2> QED
    BY ONLY <2>1, ProductsFacts
<1>6. Len(s) = done /\ DOMAIN s = 1 .. done /\ \A l \in 1 .. done : s[l] = Triple(made[l])
  <2>1. done - z = done /\ \A l \in 1 .. done : z + l = l
    BY <1>4
  <2> QED
    BY ONLY <1>5, <2>1
<1>7. M = {made[l] : l \in 1 .. done}
  BY <1>2
<1>8. ToSet(s) = {Triple(t) : t \in M}
  <2>1. ToSet(s) = {s[l] : l \in 1 .. done}
    BY ONLY <1>6 DEF ToSet
  <2> QED
    BY ONLY <1>6, <1>7, <2>1
<1>9. ASSUME NEW i \in 1 .. Len(s), NEW j \in 1 .. Len(s), i < j
      PROVE  \E a, b \in M : a < b /\ s[i] = Triple(a) /\ s[j] = Triple(b)
  <2>1. /\ i \in 1 .. done /\ j \in 1 .. done /\ i \in 1 .. Len(made) /\ j \in 1 .. Len(made)
    BY <1>4, <1>6
  <2>2. made[i] < made[j] /\ made[i] \in M /\ made[j] \in M
    BY ONLY <1>4, <1>7, <1>9, <2>1
  <2>3. s[i] = Triple(made[i]) /\ s[j] = Triple(made[j])
    BY ONLY <1>6, <2>1
  <2> QED
    BY <2>2, <2>3
<1> QED
  BY <1>3, <1>8, <1>9

\* Every product of the program is recorded once, with the inputs the program meant
\* and in the prover's order, and at the end all have been checked.
THEOREM ProductsOnce == Spec => []EachProductOnce
BY OneMachine, ProductsRecorded, PTL

-----------------------------------------------------------------------------
(* No reachable state is stuck.                                            *)

\* At its end and while it waits for an extend the prover holds nothing back.
Flushed == pc[Prover] = "end" \/ entered[Prover] > extends[Prover] =>
             \A v \in Verifier : buf[v] = <<>>

LEMMA FlushedAtStart == Init => Flushed
BY DEF Init, Flushed

LEMMA FlushedKept ==
  ASSUME Flushed, UNCHANGED <<pc[Prover], entered[Prover], extends[Prover], buf>>
  PROVE  Flushed'
BY DEF Flushed, Verifier, Prover

LEMMA FlushedByPool == ASSUME NInv, Flushed, NEW p \in Party, Pool(p) PROVE Flushed'
<1>0. Verifier' = Verifier /\ Prover' = Prover /\ Prover \in Party
  BY Sizes DEF Verifier, Prover
<1>1. DOMAIN entered = Party /\ DOMAIN extends = Party
  BY DEF NInv, NetShapes
<1>2. CASE RandAuthVal(p)
  BY <1>2, FlushedKept DEF RandAuthVal, netVars
<1>3. CASE EnterExtend(p)
  <2>1. CASE p = Prover
    <3>1. \A v \in Verifier : buf'[v] = <<>>
      BY <1>3, <2>1 DEF EnterExtend, SendFlush
    <3> QED
      BY <1>0, <3>1 DEF Flushed
  <2>2. CASE p # Prover
    <3>1. UNCHANGED <<pc[Prover], entered[Prover], extends[Prover], buf>>
      BY <1>0, <1>1, <1>3, <2>2 DEF EnterExtend
    <3> QED
      BY <3>1, FlushedKept
  <2> QED
    BY <2>1, <2>2
<1>4. CASE LeaveExtend(p)
  <2>1. UNCHANGED <<pc, entered, buf>> /\ extends' = [extends EXCEPT ![p] = @ + 1] /\ entered[p] > extends[p]
    BY <1>4 DEF LeaveExtend, Receive, netVars
  <2>2. CASE p = Prover
    <3>1. \A v \in Verifier : buf[v] = <<>>
      BY <2>1, <2>2 DEF Flushed
    <3> QED
      BY <1>0, <2>1, <3>1 DEF Flushed
  <2>3. CASE p # Prover
    <3>1. UNCHANGED <<pc[Prover], entered[Prover], extends[Prover], buf>>
      BY <1>0, <1>1, <2>1, <2>3
    <3> QED
      BY <3>1, FlushedKept
  <2> QED
    BY <2>2, <2>3
<1> QED
  BY <1>2, <1>3, <1>4 DEF Pool

LEMMA FlushedByProver == ASSUME NInv, Flushed, PStep PROVE Flushed'
<1>0. Verifier' = Verifier /\ Prover' = Prover /\ Prover \in Party
  BY Sizes DEF Verifier, Prover
<1>1. PICK H, N, c : OnPath(H, N, c)
  BY DEF NInv
<1> PICK r : r = H[c[Prover]]
  OBVIOUS
<1>2. /\ Good(r) /\ PartyAs(Prover, r) /\ pc[Prover] = r.pc /\ (Starved(Prover) <=> StarvedOf(r))
      /\ DOMAIN pc = Party
  BY <1>1, ProverHere DEF NInv, WInv, Shapes
<1>3. entered[Prover] = r.entered /\ extends[Prover] = r.extends
  BY <1>2 DEF PartyAs
<1>4. ASSUME UNCHANGED <<entered, extends>>, pc'[Prover] # "end", ~Starved(Prover) PROVE Flushed'
  <2>1. ~(r.entered > r.extends)
    <3>1. Extending(r)
      BY <1>2, GoodMeans
    <3> QED
      BY <1>2, <1>4, <3>1 DEF Extending
  <2> QED
    BY <1>0, <1>3, <1>4, <2>1 DEF Flushed
<1>5. ASSUME \A v \in Verifier : buf'[v] = <<>> PROVE Flushed'
  BY <1>0, <1>5 DEF Flushed
<1>6. CASE PCall
  <2>1. UNCHANGED <<entered, extends>> /\ ~Starved(Prover) /\ pc'[Prover] # "end"
    BY <1>0, <1>2, <1>6 DEF PCall, Calling, Starved, Need, Share, Finish, Goto, poolVars
  <2> QED
    BY <1>4, <2>1
<1>7. CASE PBatch
  <2>1. UNCHANGED <<entered, extends>> /\ ~Starved(Prover) /\ pc'[Prover] # "end"
    BY <1>0, <1>2, <1>7 DEF PBatch, UseMasks, BatchDone, Goto
  <2> QED
    BY <1>4, <2>1
<1>8. CASE PCommit
  BY <1>5, <1>8 DEF PCommit, SendFlush
<1>9. CASE PRound
  BY <1>5, <1>9 DEF PRound, SendFlush
<1>10. CASE PTail
  <2>1. CASE Op(Prover).kind \in {"reveal", "check", "finalize"}
    BY <1>5, <1>10, <2>1 DEF PTail, PTailSends, SendFlush, Flush
  <2>2. CASE Op(Prover).kind \notin {"reveal", "check", "finalize"}
    <3>1. UNCHANGED <<entered, extends>> /\ ~Starved(Prover) /\ pc'[Prover] # "end"
      BY <1>0, <1>2, <1>10, <2>2 DEF PTail, Finish, Goto, Starved, Need, poolVars
    <3> QED
      BY <1>4, <3>1
  <2> QED
    BY <2>1, <2>2
<1> QED
  BY <1>6, <1>7, <1>8, <1>9, <1>10 DEF PStep

LEMMA FlushedByVerifier == ASSUME NInv, Flushed, NEW v \in Verifier, VStep(v) PROVE Flushed'
<1>0. Prover # v /\ Prover \in Party /\ DOMAIN pc = Party
  BY Sizes DEF NInv, WInv, Shapes
<1>1. UNCHANGED <<entered, extends, buf>> /\ pc'[Prover] = pc[Prover]
  <2>1. CASE VCall(v)
    BY <1>0, <2>1 DEF VCall, Share, Finish, Goto, poolVars, netVars
  <2>2. CASE VBatch(v)
    BY <1>0, <2>2 DEF VBatch, Receive, UseMasks, BatchDone, Goto
  <2>3. CASE VCommit(v)
    BY <1>0, <2>3 DEF VCommit, Receive, StartCheck, Goto, poolVars
  <2>4. CASE VRound(v)
    BY <1>0, <2>4 DEF VRound, Receive, UseMasks, Goto
  <2>5. CASE VTail(v)
    BY <1>0, <2>5 DEF VTail, Receive, FinalCheck, Finish, Goto, poolVars, netVars
  <2>6. CASE VMesh(v)
    BY <1>0, <2>6 DEF VMesh, Finish, Goto, poolVars, netVars
  <2> QED
    BY <2>1, <2>2, <2>3, <2>4, <2>5, <2>6 DEF VStep
<1> QED
  BY <1>1, FlushedKept

LEMMA FlushedStep == NInv /\ Flushed /\ [Next]_vars => Flushed'
<1> SUFFICES ASSUME NInv, Flushed, [Next]_vars PROVE Flushed'
  OBVIOUS
<1>1. ASSUME NEW p \in Party, PartyStep(p) PROVE Flushed'
  BY <1>1, FlushedByPool, FlushedByProver, FlushedByVerifier, Sizes DEF PartyStep
<1>2. ASSUME NEW v \in Verifier, SpontaneousWrite(v) PROVE Flushed'
  <2>1. UNCHANGED <<pc, entered, extends>> /\ ~(pc[Prover] = "end" \/ entered[Prover] > extends[Prover])
    BY <1>2 DEF SpontaneousWrite, Flushed, poolVars
  <2> QED
    BY <2>1 DEF Flushed, Prover
<1>3. CASE UNCHANGED vars
  BY <1>3, FlushedKept DEF vars, poolVars, netVars
<1> QED
  BY <1>1, <1>2, <1>3 DEF Next, Terminated

\* What the prover holds back it will send.
LEMMA HeldBack ==
  ASSUME NInv, Flushed, NEW v \in Verifier, buf[v] # <<>>
  PROVE  CanGoOn(Prover)
<1>1. PICK H, N, c : OnPath(H, N, c)
  BY DEF NInv
<1> PICK r : r = H[c[Prover]]
  OBVIOUS
<1>2. Good(r) /\ pc[Prover] = r.pc
  BY <1>1, ProverHere
<1>3. pc[Prover] \notin {"error", "failed"}
  BY <1>2, GoodMeans DEF StateType
<1>4. pc[Prover] # "end" /\ ~(entered[Prover] > extends[Prover])
  BY DEF Flushed
<1> QED
  BY <1>3, <1>4 DEF CanGoOn, WaitsInExtend

\* A party that is not at the end, and that no other is behind.
LEMMA LastOne ==
  ASSUME NInv, NEW H, NEW N, NEW c, OnPath(H, N, c), \E p \in Party : pc[p] # "end"
  PROVE  \E p \in Party : pc[p] # "end" /\ \A q \in Party : c[p] <= c[q]
<1> DEFINE S == {c[p] : p \in {o \in Party : pc[o] # "end"}}
<1>1. \A p \in Party : c[p] \in 0 .. N /\ N \in Nat /\ c[p] \in Nat
  BY PathFacts
<1>2. S \subseteq Nat /\ S # {}
  BY <1>1
<1>3. PICK x \in S : \A y \in S : x <= y
  <2> HIDE DEF S
  <2> QED
    BY <1>2, LeastNat
<1>4. PICK p \in Party : pc[p] # "end" /\ c[p] = x
  BY <1>3
<1>5. ASSUME NEW q \in Party PROVE c[p] <= c[q]
  <2>1. CASE pc[q] # "end"
    BY <1>3, <1>4, <2>1
  <2>2. CASE pc[q] = "end"
    <3> PICK r : r = H[c[q]]
      OBVIOUS
    <3>1. Good(r) /\ As(q, r) /\ Path(H, N) /\ ProgOK
      BY PathFacts
    <3>2. r.pc = "end"
      BY <2>2, <3>1, AsMeans
    <3>3. ~(r.pos < Len(prog))
      <4>1. /\ r.pos \in Nat /\ r.pos <= Len(prog) /\ r.pos > 0 /\ prog[r.pos].kind = "finalize"
            /\ Len(prog) \in Nat
        BY <3>1, <3>2, GoodMeans, SeqFacts DEF StatePlaced, StateType, ProgOK
      <4>2. \A i \in 1 .. Len(prog) - 1 : prog[i].kind # "finalize"
        BY <3>1 DEF ProgOK
      <4> QED
        BY ONLY <4>1, <4>2
    <3>4. ~(c[q] < N)
      <4> SUFFICES ASSUME c[q] < N PROVE FALSE
        OBVIOUS
      <4> PICK i : i = c[q] + 1
        OBVIOUS
      <4>1. i \in 1 .. N /\ i - 1 = c[q]
        BY <1>1
      <4>2. H[i - 1].pos < Len(prog)
        BY <3>1, <4>1 DEF Path
      <4> QED
        BY <3>3, <4>1, <4>2
    <3> QED
      BY <1>1, <3>4
  <2> QED
    BY <2>1, <2>2
<1> QED
  BY <1>4, <1>5

\* What has been sent to a verifier that none is behind is on its wire, or held back.
LEMMA Comes ==
  ASSUME NInv, Flushed, NEW H, NEW N, NEW c, OnPath(H, N, c), NEW v \in Verifier,
         NEW r, r = H[c[v]], NEW m, Begins(Append(r.got, m), H[c[Prover]].log)
  PROVE  (wire[v] # <<>> /\ Head(wire[v]) = m) \/ CanGoOn(Prover)
<1> PICK s : s = H[c[Prover]]
  OBVIOUS
<1>1. Good(s) /\ Good(r) /\ Delivered(v, s, r)
  <2>1. Good(s)
    BY ProverHere
  <2>2. Good(r)
    BY VerifierHere
  <2>3. Delivered(v, s, r)
    BY DEF OnPath
  <2> QED
    BY ONLY <2>1, <2>2, <2>3
<1>2. IsSeq(s.log) /\ IsSeq(r.got) /\ Begins(Append(r.got, m), s.log)
  BY <1>1, GoodSeqs
<1>3. CASE wire[v] # <<>>
  BY <1>1, <1>2, <1>3, FirstOnWire
<1>4. CASE wire[v] = <<>>
  <2>1. Len(s.log) = Len(r.got) + Len(wire[v]) + Len(buf[v])
    BY <1>1 DEF Delivered, Line
  <2>2. Len(s.log) >= Len(r.got) + 1 /\ Len(r.got) \in Nat /\ Len(wire[v]) = 0 /\ Len(s.log) \in Nat
    BY <1>2, <1>4, SeqFacts, SeqAppend, SeqEmpty DEF Begins
  <2>3. buf[v] # <<>>
    BY <2>1, <2>2, SeqEmpty
  <2> QED
    BY <2>3, HeldBack
<1> QED
  BY <1>3, <1>4

\* Verifier v, at state r of the path, is owed the message m by the prover, and is not ahead of it.
Owed(H, N, c, v, r, m) ==
  /\ OnPath(H, N, c) /\ r = H[c[v]] /\ c[v] <= c[Prover]
  /\ r.got = r.log /\ r.pc # "end" /\ r.entered = r.extends
  /\ Succ(r).log = Append(r.log, m)

\* The same of the message it waits for within a call.
LEMMA NextComes ==
  ASSUME NInv, Flushed, NEW H, NEW N, NEW c, NEW v \in Verifier, NEW r, NEW m, Owed(H, N, c, v, r, m)
  PROVE  (wire[v] # <<>> /\ Head(wire[v]) = m) \/ CanGoOn(Prover)
<1> SUFFICES ASSUME OnPath(H, N, c), r = H[c[v]], c[v] <= c[Prover], r.got = r.log, r.pc # "end",
                    r.entered = r.extends, Succ(r).log = Append(r.log, m)
             PROVE  (wire[v] # <<>> /\ Head(wire[v]) = m) \/ CanGoOn(Prover)
  BY DEF Owed
<1>1. ProgOK /\ c[v] \in 0 .. N /\ c[Prover] \in 0 .. N /\ N \in Nat
  BY VerifierHere, ProverHere, PathFacts
<1>2. CASE c[v] < c[Prover]
  <2>1. Begins(Append(r.got, m), H[c[Prover]].log)
    BY <1>1, <1>2, SenderBeyond
  <2> QED
    BY <2>1, Comes
<1>3. CASE c[v] = c[Prover]
  <2>1. Good(r) /\ PartyAs(Prover, r) /\ pc[Prover] = r.pc
    BY <1>3, ProverHere
  <2>2. pc[Prover] \notin {"end", "error", "failed"}
    BY <2>1, GoodMeans DEF StateType
  <2>3. ~(entered[Prover] > extends[Prover])
    <3>1. r.entered \in Nat
      BY <2>1, GoodMeans DEF StateType
    <3> QED
      BY <2>1, <3>1 DEF PartyAs
  <2> QED
    BY <2>2, <2>3 DEF CanGoOn, WaitsInExtend
<1> QED
  BY <1>1, <1>2, <1>3

\* A party that none is behind does not wait for an extend.
LEMMA NoWaitInExtend ==
  ASSUME NInv, Flushed, NEW H, NEW N, NEW c, OnPath(H, N, c), NEW p \in Party,
         \A q \in Party : c[p] <= c[q]
  PROVE  ~WaitsInExtend(p) \/ CanGoOn(Prover)
<1> SUFFICES ASSUME entered[p] > extends[p] PROVE ~WaitsInExtend(p) \/ CanGoOn(Prover)
  BY DEF WaitsInExtend
<1> PICK r : r = H[c[p]]
  OBVIOUS
<1>1. /\ Good(r) /\ As(p, r) /\ PartyAs(p, r) /\ ProgOK /\ Path(H, N) /\ N \in Nat /\ c[p] \in 0 .. N
      /\ entered[p] = r.entered /\ extends[p] = r.extends
  BY PathFacts, AsMeans DEF PartyAs
<1>2. r.log = Append(r.got, ExtendMsg) /\ r.entered \in Nat
  BY <1>1, GoodMeans, SMTT(40), ZenonT(40) DEF Extending, StateType
<1>3. ASSUME NEW q \in Party PROVE entered[q] >= entered[p]
  <2> PICK s : s = H[c[q]]
    OBVIOUS
  <2>1. c[q] \in 0 .. N /\ As(q, s) /\ Good(s) /\ c[p] <= c[q]
    BY PathFacts
  <2>2. entered[q] = s.entered /\ s.entered \in Nat
    BY <2>1, AsMeans, GoodMeans DEF PartyAs, StateType
  <2>3. CASE c[q] = c[p]
    BY <1>1, <1>2, <2>2, <2>3
  <2>4. CASE c[q] # c[p]
    <3>1. c[p] \in 0 .. c[q] - 1
      BY <1>1, <2>1, <2>4
    <3>2. Before(r, s)
      BY <1>1, <2>1, <3>1, PathBefore
    <3> QED
      BY <1>1, <1>2, <2>2, <3>2 DEF Before
  <2> QED
    BY <2>3, <2>4
<1>4. \A q \in Party : ~(entered[q] < entered[p])
  <2> TAKE q \in Party
  <2>1. As(q, H[c[q]]) /\ Good(H[c[q]])
    BY PathFacts
  <2>2. entered[q] \in Nat /\ entered[p] \in Nat
    BY <1>1, <1>2, <2>1, AsMeans, GoodMeans, SMTT(40), ZenonT(40), Z3T(40) DEF PartyAs, StateType
  <2> QED
    BY <1>3, <2>2
<1>5. CASE p = Prover
  BY <1>4, <1>5 DEF WaitsInExtend
<1>6. CASE p # Prover
  <2>0. p \in Verifier /\ Prover \in Party
    BY <1>6, Sizes
  <2> PICK s : s = H[c[Prover]]
    OBVIOUS
  <2>1. Good(s) /\ c[Prover] \in 0 .. N /\ c[p] <= c[Prover]
    BY <2>0, PathFacts
  <2>2. IsSeq(s.log) /\ IsSeq(s.got) /\ IsSeq(r.log) /\ IsSeq(r.got)
    BY <1>1, <2>1, GoodSeqs
  <2>3. Begins(r.log, s.log)
    <3>1. CASE c[p] = c[Prover]
      BY <2>2, <3>1, BeginsAppend
    <3>2. CASE c[p] # c[Prover]
      <4>1. c[p] \in 0 .. c[Prover] - 1
        BY <1>1, <2>1, <3>2
      <4>2. Before(r, s) /\ Begins(s.got, s.log)
        BY <1>1, <2>1, <4>1, PathBefore, GotBegins
      <4> QED
        BY <2>2, <4>2, BeginsTrans DEF Before
    <3> QED
      BY <3>1, <3>2
  <2> PICK m : m = ExtendMsg
    OBVIOUS
  <2>4. Begins(Append(r.got, m), H[c[Prover]].log)
    BY <1>2, <2>3
  <2>5. (wire[p] # <<>> /\ Head(wire[p]) = m) \/ CanGoOn(Prover)
    BY <2>0, <2>4, Comes
  <2>6. m.kind = "extend"
    BY DEF ExtendMsg
  <2> QED
    BY <1>4, <2>5, <2>6 DEF WaitsInExtend, Arrived
<1> QED
  BY <1>5, <1>6

\* A verifier that none is behind waits for no message.
LEMMA NoWaitForMessage ==
  ASSUME NInv, Flushed, NEW H, NEW N, NEW c, OnPath(H, N, c), NEW v \in Verifier,
         c[v] <= c[Prover]
  PROVE  ~WaitsForMessage(v) \/ CanGoOn(Prover)
<1> PICK r : r = H[c[v]]
  OBVIOUS
<1>1. Good(r) /\ IsState(r) /\ ProgOK
  BY VerifierHere
<1>2. ASSUME pc[v] \in {"batch", "com", "round", "tail"}, ~Starved(v), NEW m, Succ(r).log = Append(r.log, m)
      PROVE  (wire[v] # <<>> /\ Head(wire[v]) = m) \/ CanGoOn(Prover)
  <2>1. r.pc = pc[v] /\ Act(r) = pc[v] /\ r.got = r.log
    BY <1>2, VerifierPlain
  <2>2. r.entered = r.extends
    <3>1. ~(r.entered > r.extends)
      BY <1>2, <2>1 DEF Act
    <3> QED
      BY <1>1, <3>1, GoodMeans DEF Extending
  <2> QED
    <3>1. Owed(H, N, c, v, r, m)
      BY <1>2, <2>1, <2>2 DEF Owed
    <3> QED
      BY ONLY NInv, Flushed, v \in Verifier, <3>1, NextComes
<1>3. CASE pc[v] = "batch" /\ ~Starved(v)
  <2>1. Succ(r) = BatchOf(r)
    BY <1>3, VerifierPlain
  <2>2. Succ(r).log = Append(r.log, BatchMsg(r))
    BY ONLY <1>1, <2>1, BatchFields
  <2>3. BatchMsg(r).kind = "batch"
    BY DEF BatchMsg
  <2>4. Arrived(v, "batch") \/ CanGoOn(Prover)
    BY <1>2, <1>3, <2>2, <2>3 DEF Arrived
  <2> QED
    BY <1>3, <2>4 DEF WaitsForMessage
<1>4. CASE pc[v] = "com"
  <2>0. ~Starved(v)
    BY <1>4 DEF Starved, Need
  <2>1. Succ(r) = CommitOf(r)
    BY <1>4, <2>0, VerifierPlain
  <2>2. Succ(r).log = Append(r.log, ComMsg(r))
    BY ONLY <1>1, <2>1, CommitFields
  <2>3. ComMsg(r).kind = "com"
    BY DEF ComMsg
  <2>4. Arrived(v, "com") \/ CanGoOn(Prover)
    BY <1>2, <1>4, <2>0, <2>2, <2>3 DEF Arrived
  <2> QED
    BY <1>4, <2>4 DEF WaitsForMessage
<1>5. CASE pc[v] = "round" /\ ~Starved(v)
  <2>1. Succ(r) = RoundOf(r)
    BY <1>5, VerifierPlain
  <2>2. Succ(r).log = Append(r.log, DiffMsg(r))
    <3>1. CASE r.dim <= CompressParam
      BY ONLY <1>1, <2>1, <3>1, LastRoundFields
    <3>2. CASE ~(r.dim <= CompressParam)
      BY ONLY <1>1, <2>1, <3>2, FoldFields
    <3> QED
      BY <3>1, <3>2
  <2>3. DiffMsg(r).kind = "diff"
    BY DEF DiffMsg
  <2>4. Arrived(v, "diff") \/ CanGoOn(Prover)
    BY <1>2, <1>5, <2>2, <2>3 DEF Arrived
  <2> QED
    BY <1>5, <2>4 DEF WaitsForMessage
<1>6. CASE pc[v] = "tail" /\ Op(v).kind = "reveal"
  <2>0. ~Starved(v)
    BY <1>6 DEF Starved, Need
  <2>1. Succ(r) = TailOf(r) /\ pos[v] = r.pos
    BY <1>6, <2>0, VerifierPlain
  <2>2. prog[r.pos + 1].kind = "reveal"
    BY <1>6, <2>1 DEF Op
  <2>3. Succ(r).log = Append(r.log, ValsMsg(r))
    BY ONLY <1>1, <2>1, <2>2, RevealFields
  <2>4. ValsMsg(r).kind = "vals"
    BY DEF ValsMsg
  <2>5. Arrived(v, "vals") \/ CanGoOn(Prover)
    BY <1>2, <1>6, <2>0, <2>3, <2>4 DEF Arrived
  <2> QED
    BY <1>6, <2>5 DEF WaitsForMessage
<1> QED
  BY <1>3, <1>4, <1>5, <1>6 DEF WaitsForMessage

\* A verifier that none is behind waits for no other verifier.
LEMMA NoWaitForVerifiers ==
  ASSUME NInv, NEW H, NEW N, NEW c, OnPath(H, N, c), NEW v \in Verifier,
         \A q \in Party : c[v] <= c[q]
  PROVE  ~WaitsForVerifiers(v)
<1> SUFFICES ASSUME pc[v] \in {"mesh", "open"}, NEW w \in Verifier, Len(posted[w]) <= meshed[v] PROVE FALSE
  BY DEF WaitsForVerifiers
<1> PICK r, s : r = H[c[v]] /\ s = H[c[w]]
  OBVIOUS
<1>1. /\ VerifierAs(v, r) /\ VerifierAs(w, s) /\ Good(r) /\ Good(s) /\ v \in Party /\ w \in Party /\ ProgOK
  BY VerifierHere
<1>2. meshed[v] \in Nat /\ Len(r.posted) = meshed[v] + 1 /\ posted[w] = s.posted
  BY <1>1 DEF VerifierAs, Answered
<1>3. Path(H, N) /\ N \in Nat /\ c[v] \in 0 .. N /\ c[w] \in 0 .. N /\ c[v] <= c[w]
  BY <1>1, PathFacts
<1>4. Len(s.posted) \in Nat
  BY <1>1, GoodSeqs, SeqFacts
<1>5. CASE c[v] = c[w]
  BY <1>2, <1>5
<1>6. CASE c[v] # c[w]
  <2>1. c[v] \in 0 .. c[w] - 1
    BY <1>3, <1>6
  <2>2. Before(r, s)
    BY <1>1, <1>3, <2>1, PathBefore
  <2> QED
    BY <1>2, <1>4, <2>2 DEF Before, Begins
<1> QED
  BY <1>5, <1>6

LEMMA SomebodyGoesOn == NInv /\ Flushed => NobodyStuck
<1> SUFFICES ASSUME NInv, Flushed, \E p \in Party : pc[p] # "end" PROVE \E p \in Party : CanGoOn(p)
  BY DEF NobodyStuck
<1>1. PICK H, N, c : OnPath(H, N, c)
  BY DEF NInv
<1>2. PICK p \in Party : pc[p] # "end" /\ \A q \in Party : c[p] <= c[q]
  BY <1>1, LastOne
<1>3. CanGoOn(Prover) => \E q \in Party : CanGoOn(q)
  BY Sizes
<1> SUFFICES ASSUME ~CanGoOn(Prover) PROVE CanGoOn(p)
  BY <1>3
<1>4. pc[p] \notin {"end", "error", "failed"}
  BY <1>2, NobodyFails DEF HonestAccepted
<1>5. ~WaitsInExtend(p)
  BY <1>1, <1>2, NoWaitInExtend
<1>6. ASSUME p # Prover PROVE ~WaitsForMessage(p) /\ ~WaitsForVerifiers(p)
  <2>1. p \in Verifier /\ c[p] <= c[Prover]
    BY <1>2, <1>6, Sizes
  <2> QED
    BY <1>1, <1>2, <2>1, NoWaitForMessage, NoWaitForVerifiers
<1> QED
  BY <1>4, <1>5, <1>6 DEF CanGoOn

\* Until the end of the program some party has what its next step waits for: no
\* message stays behind in a send buffer, and no two wait for each other.
THEOREM NobodyIsStuck == Spec => []NobodyStuck
<1>1. Init => Flushed
  BY FlushedAtStart
<1>2. NInv /\ Flushed /\ [Next]_vars => Flushed'
  BY FlushedStep
<1>3. NInv /\ Flushed => NobodyStuck
  BY SomebodyGoesOn
<1> QED
  BY <1>1, <1>2, <1>3, OneMachine, PTL DEF Spec
=============================================================================
