---------------------------- MODULE ZkMemoryProofs ----------------------------
(***************************************************************************)
(* Two theorems of ZkMemory, for every number of cells and accesses and    *)
(* all contents: an honest prover is accepted, and what is accepted of any *)
(* prover is a plain memory.                                               *)
(*                                                                         *)
(* The second counts records.  A ledger says of each record how many more  *)
(* accesses have read it than written it; check() accepts when only the    *)
(* final records are left to read.  So each record read was written        *)
(* (ReadWasWritten), one that is written once is read once (ReadOnce), and *)
(* a query of an element outside the set of times would need all versions  *)
(* that a field holds (QueriedMember), more than there are accesses.       *)
(***************************************************************************)
EXTENDS ZkMemory, Functions, FiniteSetTheorems, NaturalsInduction, WellFoundedInduction, TLAPS

-----------------------------------------------------------------------------
(* Records counted.                                                        *)
Net(bag, r)    == IF r \in DOMAIN bag THEN bag[r] ELSE 0
Times(f, L, r) == Cardinality({j \in 1 .. L : f[j] = r})

\* A bag after L accesses that read f[j] and wrote g[j], and the records of
\* start written before.
Ledger(bag, start, L, f, g) ==
  \A r : Net(bag, r) = Times(f, L, r) - Times(g, L, r) - (IF r \in start THEN 1 ELSE 0)

LEMMA CountNet ==
  ASSUME NEW bag, NEW r, NEW k \in Int, \A x : Net(bag, x) \in Int
  PROVE  \A x : Net(Count(bag, r, k), x) = Net(bag, x) + (IF x = r THEN k ELSE 0)
<1> SUFFICES ASSUME NEW x PROVE Net(Count(bag, r, k), x) = Net(bag, x) + (IF x = r THEN k ELSE 0)
  OBVIOUS
<1> DEFINE c == Net(bag, r) + k
           others == DOMAIN bag \ {r}
           d == Count(bag, r, k)
<1>1. c \in Int /\ Net(bag, x) \in Int
  OBVIOUS
<1>2. d = IF c = 0 THEN [y \in others |-> bag[y]]
          ELSE [y \in others \cup {r} |-> IF y = r THEN c ELSE bag[y]]
  BY DEF Count, Net
<1>3. x # r => Net(d, x) = Net(bag, x)
  <2> HIDE DEF c, d
  <2> QED
    BY <1>2 DEF Net
<1>4. Net(d, r) = c
  <2> HIDE DEF c, d
  <2> QED
    BY <1>2 DEF Net
<1> HIDE DEF d
<1> QED
  BY <1>1, <1>3, <1>4 DEF d

LEMMA TimesFacts ==
  ASSUME NEW L \in Nat, NEW f, NEW r
  PROVE  /\ Times(f, L, r) \in Nat
         /\ Times(f, L, r) = 0 <=> \A j \in 1 .. L : f[j] # r
<1> DEFINE S == {j \in 1 .. L : f[j] = r}
<1>1. IsFiniteSet(1 .. L)
  BY FS_Interval
<1>2. IsFiniteSet(S)
  BY <1>1, FS_Subset
<1>3. Cardinality(S) \in Nat /\ (Cardinality(S) = 0 <=> S = {})
  BY <1>2, FS_EmptySet, FS_CardinalityType
<1> QED
  BY <1>3 DEF Times

LEMMA TimesMore ==
  ASSUME NEW L \in Nat, NEW f, NEW g, \A j \in 1 .. L : g[j] = f[j]
  PROVE  \A r : Times(g, L + 1, r) = Times(f, L, r) + (IF g[L + 1] = r THEN 1 ELSE 0)
<1> SUFFICES ASSUME NEW r
             PROVE  Times(g, L + 1, r) = Times(f, L, r) + (IF g[L + 1] = r THEN 1 ELSE 0)
  OBVIOUS
<1> DEFINE S == {j \in 1 .. L : f[j] = r}
           M == {j \in 1 .. L + 1 : g[j] = r}
<1>1. IsFiniteSet(S) /\ Cardinality(S) \in Nat
  <2>1. IsFiniteSet(1 .. L) /\ S \in SUBSET (1 .. L)
    BY FS_Interval
  <2>2. IsFiniteSet(S)
    BY <2>1, FS_Subset
  <2> HIDE DEF S
  <2> QED
    BY <2>2, FS_CardinalityType
<1>2. L + 1 \notin S /\ 1 .. L + 1 = (1 .. L) \cup {L + 1}
  OBVIOUS
<1>3. CASE g[L + 1] = r
  <2>1. M = S \cup {L + 1}
    BY <1>2, <1>3
  <2>2. Cardinality(S \cup {L + 1}) = Cardinality(S) + 1
    BY <1>1, <1>2, FS_AddElement
  <2>3. Times(g, L + 1, r) = Times(f, L, r) + 1
    BY <2>1, <2>2 DEF Times
  <2> QED
    BY <1>3, <2>3
<1>4. CASE g[L + 1] # r
  <2>1. M = S
    BY <1>2, <1>4
  <2>2. Times(g, L + 1, r) = Times(f, L, r) /\ Times(f, L, r) \in Nat
    BY <1>1, <2>1 DEF Times
  <2> QED
    BY <1>4, <2>2
<1> QED
  BY <1>3, <1>4

LEMMA LedgerInt ==
  ASSUME NEW bag, NEW start, NEW L \in Nat, NEW f, NEW g, Ledger(bag, start, L, f, g)
  PROVE  \A r : Net(bag, r) \in Int
<1> SUFFICES ASSUME NEW r PROVE Net(bag, r) \in Int
  OBVIOUS
<1>1. Times(f, L, r) \in Nat /\ Times(g, L, r) \in Nat
  BY TimesFacts
<1>2. Net(bag, r) = Times(f, L, r) - Times(g, L, r) - (IF r \in start THEN 1 ELSE 0)
  BY DEF Ledger
<1> QED
  BY <1>1, <1>2

\* An access reads one record and writes one.
Longer(L, f, f2, x) == f2[L + 1] = x /\ \A j \in 1 .. L : f2[j] = f[j]

LEMMA LedgerStep ==
  ASSUME NEW bag, NEW start, NEW L \in Nat, NEW f, NEW g, Ledger(bag, start, L, f, g),
         NEW f2, NEW g2, NEW x, NEW y, Longer(L, f, f2, x), Longer(L, g, g2, y)
  PROVE  Ledger(AddB(AddA(bag, x), y), start, L + 1, f2, g2)
<1> DEFINE b == AddA(bag, x)
           d == AddB(b, y)
<1>1. \A r : Net(bag, r) \in Int
  BY LedgerInt
<1>2. \A r : Net(b, r) = Net(bag, r) + (IF r = x THEN 1 ELSE 0)
  BY <1>1, CountNet DEF AddA
<1>3. \A r : Net(b, r) \in Int
  BY <1>1, <1>2
<1>4. \A r : Net(d, r) = Net(b, r) + (IF r = y THEN -1 ELSE 0)
  <2> HIDE DEF b
  <2> QED
    BY <1>3, CountNet DEF AddB
<1> HIDE DEF b, d
<1>5. ASSUME NEW r
      PROVE  Net(d, r) = Times(f2, L + 1, r) - Times(g2, L + 1, r) - (IF r \in start THEN 1 ELSE 0)
  <2> DEFINE F == Times(f, L, r)  G == Times(g, L, r)  e == IF r \in start THEN 1 ELSE 0
             F2 == Times(f2, L + 1, r)  G2 == Times(g2, L + 1, r)
  <2>1. F \in Nat /\ G \in Nat /\ e \in Int
    BY TimesFacts
  <2>2. F2 = F + (IF r = x THEN 1 ELSE 0)
    BY TimesMore DEF Longer
  <2>3. G2 = G + (IF r = y THEN 1 ELSE 0)
    BY TimesMore DEF Longer
  <2>4. Net(bag, r) = F - G - e
    BY DEF Ledger
  <2>5. Net(d, r) = (F - G - e) + (IF r = x THEN 1 ELSE 0) + (IF r = y THEN -1 ELSE 0)
    BY <1>2, <1>4, <2>4
  <2> HIDE DEF F, G, e, F2, G2
  <2>6. Net(d, r) = F2 - G2 - e
    BY <2>1, <2>2, <2>3, <2>5
  <2> QED
    BY <2>6 DEF e, F2, G2
<1> QED
  BY <1>5 DEF Ledger, d, b

LEMMA LedgerStart ==
  ASSUME NEW start, NEW f, NEW g
  PROVE  Ledger(Unread(start), start, 0, f, g)
<1> SUFFICES ASSUME NEW r
             PROVE  Net(Unread(start), r) = Times(f, 0, r) - Times(g, 0, r) - (IF r \in start THEN 1 ELSE 0)
  BY DEF Ledger
<1>1. Times(f, 0, r) = 0 /\ Times(g, 0, r) = 0
  BY TimesFacts
<1>2. Net(Unread(start), r) = IF r \in start THEN -1 ELSE 0
  BY DEF Net, Unread
<1> QED
  BY <1>1, <1>2

-----------------------------------------------------------------------------
(* What a settled ledger says.                                             *)

\* Every record read was written before, by an access or at the start.
LEMMA ReadWasWritten ==
  ASSUME NEW bag, NEW start, NEW L \in Nat, NEW f, NEW g, Ledger(bag, start, L, f, g),
         \A r : Net(bag, r) <= 0, NEW j \in 1 .. L
  PROVE  f[j] \in start \/ \E m \in 1 .. L : g[m] = f[j]
<1> DEFINE r == f[j]  F == Times(f, L, r)  G == Times(g, L, r)
<1>1. F \in Nat /\ G \in Nat /\ F # 0 /\ (G = 0 <=> \A m \in 1 .. L : g[m] # r)
  BY TimesFacts
<1>2. Net(bag, r) = F - G - (IF r \in start THEN 1 ELSE 0) /\ Net(bag, r) <= 0
  BY DEF Ledger
<1> HIDE DEF r, F, G
<1>3. r \in start \/ G # 0
  BY <1>1, <1>2
<1> QED
  BY <1>1, <1>3 DEF r

\* A record written once is read once.
LEMMA TwoTimes ==
  ASSUME NEW L \in Nat, NEW f, NEW j \in 1 .. L, NEW k \in 1 .. L, j # k, f[j] = f[k]
  PROVE  Times(f, L, f[j]) >= 2
<1> DEFINE r == f[j]
           S == {i \in 1 .. L : f[i] = r}
<1>1. IsFiniteSet(S) /\ {j, k} \in SUBSET S
  <2>1. IsFiniteSet(1 .. L) /\ S \in SUBSET (1 .. L)
    <3>1. IsFiniteSet(1 .. L)
      BY ONLY L \in Nat, FS_Interval
    <3> QED
      BY <3>1
  <2>2. {j, k} \in SUBSET S
    OBVIOUS
  <2> HIDE DEF S
  <2>3. IsFiniteSet(S)
    BY <2>1, FS_Subset
  <2> QED
    BY <2>2, <2>3
<1>2. Cardinality({j, k}) <= Cardinality(S)
  BY <1>1, FS_Subset
<1>3. Cardinality({j, k}) = 2
  <2>1. IsFiniteSet({j}) /\ Cardinality({j}) = 1
    BY FS_Singleton
  <2>2. {j} \cup {k} = {j, k}
    OBVIOUS
  <2> QED
    BY <2>1, <2>2, FS_AddElement
<1> QED
  BY <1>2, <1>3 DEF Times

LEMMA OnceTimes ==
  ASSUME NEW L \in Nat, NEW g, \A j, k \in 1 .. L : g[j] = g[k] => j = k, NEW r
  PROVE  Times(g, L, r) <= 1
<1> DEFINE S == {i \in 1 .. L : g[i] = r}
<1>1. CASE S = {}
  BY <1>1, FS_EmptySet DEF Times
<1>2. CASE S # {}
  <2>1. PICK i \in S : TRUE
    BY <1>2
  <2>2. S = {i}
    BY <2>1
  <2> QED
    BY <2>2, FS_Singleton DEF Times
<1> QED
  BY <1>1, <1>2

LEMMA ReadOnce ==
  ASSUME NEW bag, NEW start, NEW L \in Nat, NEW f, NEW g, Ledger(bag, start, L, f, g),
         \A r : Net(bag, r) <= 0,
         \A j, k \in 1 .. L : g[j] = g[k] => j = k, \A j \in 1 .. L : g[j] \notin start,
         NEW j \in 1 .. L, NEW k \in 1 .. L, f[j] = f[k]
  PROVE  j = k
<1> SUFFICES ASSUME j # k PROVE FALSE
  OBVIOUS
<1> DEFINE r == f[j]  F == Times(f, L, r)  G == Times(g, L, r)
<1>1. F >= 2 /\ F \in Nat
  BY TwoTimes, TimesFacts
<1>2. G \in Nat /\ G <= 1 /\ (r \in start => G = 0)
  BY OnceTimes, TimesFacts
<1>3. Net(bag, r) = F - G - (IF r \in start THEN 1 ELSE 0) /\ Net(bag, r) <= 0
  BY DEF Ledger
<1> HIDE DEF r, F, G
<1> QED
  BY <1>1, <1>2, <1>3

LEMMA LeastNat ==
  ASSUME NEW S, S \subseteq Nat, S # {}
  PROVE  \E x \in S : \A y \in S : x <= y
<1>1. PICK x \in S : \A y \in S : <<y, x>> \notin OpToRel(<, Nat)
  BY WFMin, NatLessThanWellFounded, Zenon
<1>2. ASSUME NEW y \in S PROVE x <= y
  <2>1. x \in Nat /\ y \in Nat /\ ~(y < x)
    BY <1>1 DEF OpToRel
  <2> QED
    BY <2>1
<1> QED
  BY <1>2

\* Versions read, each followed by the next one, modulo W: if there are any
\* there are W.
LEMMA Upwards ==
  ASSUME NEW W \in Nat, NEW S, \A x \in S : x + 1 < W => x + 1 \in S, NEW x \in Nat, x \in S
  PROVE  \A y \in x .. W - 1 : y \in S
<1> DEFINE U == {y \in x .. W - 1 : y \notin S}
<1> SUFFICES ASSUME U # {} PROVE FALSE
  OBVIOUS
<1>0. U \subseteq Nat
  OBVIOUS
<1>1. PICK y \in U : \A z \in U : y <= z
  <2> HIDE DEF U
  <2> QED
    BY <1>0, LeastNat
<1>2. y \in x .. W - 1 /\ y # x /\ y \notin S
  BY <1>1
<1>3. y - 1 \in x .. W - 1 /\ y - 1 \notin U
  BY <1>1, <1>2
<1>4. y - 1 \in S /\ (y - 1) + 1 = y /\ y < W
  BY <1>2, <1>3
<1> QED
  BY <1>2, <1>4

LEMMA NoCycle ==
  ASSUME NEW W \in Nat, NEW L \in Nat, L < W, NEW J \in SUBSET (1 .. L), NEW v \in [J -> 0 .. W - 1],
         \A j \in J : \E m \in J : v[m] = IF v[j] + 1 = W THEN 0 ELSE v[j] + 1
  PROVE  J = {}
<1> SUFFICES ASSUME J # {} PROVE FALSE
  OBVIOUS
<1> DEFINE S == {v[j] : j \in J}
<1>1. S \subseteq 0 .. W - 1
  OBVIOUS
<1>2. \A x \in S : (x + 1 < W => x + 1 \in S) /\ (x + 1 = W => 0 \in S)
  <2> SUFFICES ASSUME NEW x \in S PROVE (x + 1 < W => x + 1 \in S) /\ (x + 1 = W => 0 \in S)
    OBVIOUS
  <2>1. PICK j \in J : x = v[j]
    OBVIOUS
  <2>2. PICK m \in J : v[m] = IF v[j] + 1 = W THEN 0 ELSE v[j] + 1
    OBVIOUS
  <2> QED
    BY <2>1, <2>2
<1>3. PICK x : x \in 0 .. W - 1 /\ x \in S
  <2>1. PICK j \in J : TRUE
    OBVIOUS
  <2> QED
    BY <2>1
<1> HIDE DEF S
<1> DEFINE Up == \A y \in S : y + 1 < W => y + 1 \in S
<1>0. Up /\ x \in Nat
  BY <1>2, <1>3
<1>4. W - 1 \in S
  <2>1. \A y \in x .. W - 1 : y \in S
    BY ONLY W \in Nat, <1>0, <1>3, Upwards
  <2> QED
    BY <1>3, <2>1
<1>5. 0 \in S
  BY <1>2, <1>4, (W - 1) + 1 = W
<1>6. \A y \in 0 .. W - 1 : y \in S
  BY <1>2, <1>5, Upwards
<1>7. v \in Surjection(J, 0 .. W - 1)
  BY <1>6 DEF Surjection, S
<1>8. IsFiniteSet(J) /\ Cardinality(J) <= L
  <2>1. IsFiniteSet(1 .. L) /\ Cardinality(1 .. L) = L
    <3>1. IsFiniteSet(1 .. L) /\ Cardinality(1 .. L) = IF 1 > L THEN 0 ELSE L - 1 + 1
      BY ONLY L \in Nat, FS_Interval
    <3> QED
      BY <3>1
  <2> QED
    BY <2>1, FS_Subset
<1>9. Cardinality(0 .. W - 1) = W
  <2>1. Cardinality(0 .. W - 1) = IF 0 > W - 1 THEN 0 ELSE (W - 1) - 0 + 1
    BY ONLY W \in Nat, FS_Interval
  <2> QED
    BY <2>1
<1>10. Cardinality(0 .. W - 1) <= Cardinality(J) /\ Cardinality(J) \in Nat
  BY <1>7, <1>8, FS_Surjection, FS_CardinalityType
<1> QED
  BY <1>8, <1>9, <1>10

\* Queries of a version, each of which writes the next one back.
Asked(W, L, key, v, f, g) ==
  \A i \in 1 .. L : /\ v[i] \in 0 .. W - 1 /\ f[i] = <<key[i], v[i]>>
                    /\ g[i] = <<key[i], IF v[i] + 1 = W THEN 0 ELSE v[i] + 1>>

\* Every element queried in a settled set is one of it (prove_member()).
LEMMA QueriedMember ==
  ASSUME NEW bag, NEW start, NEW W \in Nat, NEW L \in Nat, L < W, NEW f, NEW g,
         Ledger(bag, start, L, f, g), NEW K,
         \A r \in DOMAIN bag : r[1] \in K, \A r \in start : r[1] \in K,
         NEW key, NEW v, NEW j \in 1 .. L, Asked(W, L, key, v, f, g)
  PROVE  key[j] \in K
<1>0. \A i \in 1 .. L : /\ v[i] \in 0 .. W - 1 /\ f[i] = <<key[i], v[i]>>
                        /\ g[i] = <<key[i], IF v[i] + 1 = W THEN 0 ELSE v[i] + 1>>
  BY DEF Asked
<1> SUFFICES ASSUME key[j] \notin K PROVE FALSE
  OBVIOUS
<1> DEFINE e == key[j]
           J == {i \in 1 .. L : key[i] = e}
           u == [i \in J |-> v[i]]
<1>1. u \in [J -> 0 .. W - 1] /\ J \in SUBSET (1 .. L)
  BY <1>0
<1>2. ASSUME NEW i \in J
      PROVE  \E m \in J : u[m] = IF u[i] + 1 = W THEN 0 ELSE u[i] + 1
  <2> DEFINE s == IF v[i] + 1 = W THEN 0 ELSE v[i] + 1
             r == <<e, s>>
             F == Times(f, L, r)  G == Times(g, L, r)
  <2>1. r[1] = e /\ g[i] = r /\ i \in 1 .. L
    BY <1>0
  <2>2. Net(bag, r) = 0 /\ r \notin start
    <3> HIDE DEF r, e
    <3> QED
      BY <2>1 DEF Net, e
  <2>3. F \in Nat /\ G \in Nat /\ G # 0
    <3> HIDE DEF r
    <3> QED
      BY <2>1, TimesFacts
  <2>4. Net(bag, r) = F - G - (IF r \in start THEN 1 ELSE 0)
    BY DEF Ledger
  <2>5. F # 0
    <3> HIDE DEF r, F, G
    <3> QED
      BY <2>2, <2>3, <2>4
  <2>6. PICK m \in 1 .. L : f[m] = r
    <3> HIDE DEF r
    <3> QED
      BY <2>5, TimesFacts
  <2>7. key[m] = e /\ v[m] = s
    <3>1. <<key[m], v[m]>> = <<e, s>>
      BY <1>0, <2>6
    <3> HIDE DEF s, e
    <3> QED
      BY <3>1
  <2> QED
    BY <2>7
<1> HIDE DEF u
<1>3. J = {}
  <2> HIDE DEF J
  <2> QED
    BY <1>1, <1>2, NoCycle
<1> QED
  BY <1>3

-----------------------------------------------------------------------------
(* Each access reads the record of the last one to its cell.               *)
Chained(L, tm, idx) ==
  /\ \A j \in 1 .. L : tm[j] \in 0 .. j - 1 /\ (tm[j] # 0 => idx[tm[j]] = idx[j])
  /\ \A j, l \in 1 .. L : idx[j] = idx[l] /\ tm[j] = tm[l] => j = l

LEMMA LastAccess ==
  ASSUME NEW L \in Nat, NEW tm, NEW idx, Chained(L, tm, idx)
  PROVE  \A j, q \in 1 .. L : tm[j] < q /\ q < j => idx[q] # idx[j]
<1>10. \A j \in 1 .. L : tm[j] \in 0 .. j - 1 /\ (tm[j] # 0 => idx[tm[j]] = idx[j])
  BY DEF Chained
<1>11. \A j, l \in 1 .. L : idx[j] = idx[l] /\ tm[j] = tm[l] => j = l
  BY DEF Chained
<1> DEFINE Between(j) == {q \in 1 .. L : tm[j] < q /\ q < j /\ idx[q] = idx[j]}
           B == {j \in 1 .. L : Between(j) # {}}
<1> SUFFICES ASSUME B # {} PROVE FALSE
  OBVIOUS
<1>0. B \subseteq Nat
  OBVIOUS
<1>1. PICK j \in B : \A i \in B : j <= i
  <2> HIDE DEF B
  <2> QED
    BY <1>0, LeastNat
<1>2. j \in 1 .. L /\ Between(j) # {} /\ Between(j) \subseteq Nat
  BY <1>1
<1>3. PICK q \in Between(j) : \A i \in Between(j) : q <= i
  <2> HIDE DEF Between
  <2> QED
    BY <1>2, LeastNat
<1>4. q \in 1 .. L /\ tm[j] < q /\ q < j /\ idx[q] = idx[j]
  BY <1>3
<1>5. Between(q) = {}
  <2>1. q \notin B
    BY <1>1, <1>2, <1>4
  <2> QED
    BY <1>4, <2>1
<1>6. tm[q] \in 0 .. q - 1 /\ tm[j] \in 0 .. j - 1
  BY <1>10, <1>2, <1>4
<1>7. ~(tm[q] < tm[j])
  <2> SUFFICES ASSUME tm[q] < tm[j] PROVE FALSE
    OBVIOUS
  <2>1. tm[j] \in 1 .. L /\ idx[tm[j]] = idx[j]
    BY <1>10, <1>2, <1>6
  <2>2. tm[j] \in Between(q)
    BY <1>4, <2>1
  <2> QED
    BY <1>5, <2>2
<1>8. ~(tm[q] > tm[j])
  <2> SUFFICES ASSUME tm[q] > tm[j] PROVE FALSE
    OBVIOUS
  <2>1. tm[q] \in 1 .. L /\ idx[tm[q]] = idx[q]
    BY <1>10, <1>4, <1>6
  <2>2. tm[q] \in Between(j)
    BY <1>4, <1>6, <2>1
  <2>3. q <= tm[q]
    BY <1>3, <2>2
  <2> QED
    BY <1>4, <1>6, <2>3
<1>9. tm[q] = tm[j]
  BY <1>6, <1>7, <1>8
<1> QED
  BY <1>11, <1>2, <1>4, <1>9

-----------------------------------------------------------------------------
(* The honest prover.                                                     *)
USE TsAssumption, CellsAssumption, ValAssumption, KindsAssumption

(* What is left to read of the records of a set: one of them read, another *)
(* written.                                                                *)
LEMMA ReplaceRecord ==
  ASSUME NEW A, NEW r, NEW w, NEW B,
         r \in A, w \notin A \ {r}, B = (A \ {r}) \cup {w}
  PROVE  AddB(AddA(Unread(A), r), w) = Unread(B)
<1>1. AddA(Unread(A), r) = Unread(A \ {r})
  BY DEF AddA, Count, Unread
<1>2. AddB(Unread(A \ {r}), w) = Unread(B)
  BY DEF AddB, Count, Unread
<1> QED
  BY <1>1, <1>2

TypeOK ==
  /\ T \in Ts /\ kind \in {"ram", "rom"}
  /\ clock \in 1 .. T + 1
  /\ mem \in [Cell -> Val]
  /\ last_t \in [Cell -> Nat] /\ ver \in [0 .. T -> Nat]
  /\ honest \in BOOLEAN
  /\ \A i \in Cell : last_t[i] < clock
  /\ \A e \in 0 .. T : ver[e] < clock

\* The last record of each cell, and of each element of the set of times.
Records  == {<<mem[i], i, Wrap(last_t[i])>> : i \in Cell}
Elements == {<<e, Wrap(ver[e])>> : e \in 1 .. T}

\* All that an honest prover leaves unread is what her copy of the memory holds.
CopyOK ==
  honest => /\ perm = Unread(Records)
            /\ kind = "ram" => diffs = Unread(Elements)

IInv == TypeOK /\ CopyOK /\ HonestAccepted

(* The fields are wide enough for every time and version of a run.         *)
LEMMA Narrow ==
  ASSUME T \in Ts, NEW x \in 0 .. T
  PROVE  Wrap(x) = x /\ T \in Nat \ {0} /\ Width \in Nat /\ Width > T
<1>1. T \in Nat \ {0} /\ Width \in Nat /\ Width > T
  BY BitsAssumption DEF Width
<1>2. \A m \in Nat \ {0}, a \in Nat : a < m => a % m = a
  OBVIOUS
<1> QED
  BY <1>1, <1>2 DEF Wrap

LEMMA InitInv == Init => IInv
<1> SUFFICES ASSUME Init PROVE IInv
  OBVIOUS
<1>1. T \in Nat \ {0} /\ Wrap(0) = 0
  BY Narrow DEF Init
<1>2. TypeOK
  BY <1>1, SMTT(40), ZenonT(40), Z3T(40) DEF Init, TypeOK
<1>3. Records = {<<content[i], i, 0>> : i \in Cell}
  BY <1>1 DEF Init, Records
<1>4. Elements = {<<e, 0>> : e \in 1 .. T}
  BY <1>1 DEF Init, Elements
<1>5. CopyOK
  BY <1>3, <1>4 DEF Init, CopyOK
<1> QED
  BY <1>2, <1>5 DEF Init, IInv, HonestAccepted

(* A set of records with one per cell, before and after the cell's record  *)
(* changes.                                                                *)
LEMMA OneRecordChanges ==
  ASSUME NEW f, NEW g, NEW i \in DOMAIN f, NEW r, NEW w,
         DOMAIN g = DOMAIN f, r = f[i], w = g[i],
         \A j \in DOMAIN f \ {i} : f[j] = g[j] /\ g[j] # w,
         \A j, k \in DOMAIN f : f[j] = f[k] => j = k
  PROVE  AddB(AddA(Unread(Range(f)), r), w) = Unread(Range(g))
<1> DEFINE A == Range(f)
           B == Range(g)
<1>1. r \in A /\ \A x \in A \ {r} : \E j \in DOMAIN f \ {i} : x = f[j]
  BY DEF Range
<1>2. w \notin A \ {r}
  BY <1>1
<1>3. B = (A \ {r}) \cup {w}
  BY DEF Range
<1>4. r \in A
  BY <1>1
<1> QED
  BY <1>2, <1>3, <1>4, ReplaceRecord

(* The honest prover's access keeps her copy and the records in step.      *)
LEMMA HonestAccess ==
  ASSUME IInv, honest, clock <= T,
         NEW i \in Cell, NEW newv,
         perm' = AddB(AddA(perm, <<mem[i], i, Wrap(last_t[i])>>), <<newv, i, Wrap(clock)>>),
         mem' = [mem EXCEPT ![i] = newv], last_t' = [last_t EXCEPT ![i] = clock],
         T' = T
  PROVE  perm' = Unread(Records')
<1> DEFINE f == [j \in Cell |-> <<mem[j], j, Wrap(last_t[j])>>]
           g == [j \in Cell |-> <<mem'[j], j, Wrap(last_t'[j])>>]
           r == <<mem[i], i, Wrap(last_t[i])>>
           w == <<newv, i, Wrap(clock)>>
<1>1. mem \in [Cell -> Val] /\ last_t \in [Cell -> Nat]
  BY DEF IInv, TypeOK
<1>2. Wrap(clock)' = Wrap(clock') /\ \A j \in Cell : Wrap(last_t[j])' = Wrap(last_t'[j])
  BY DEF Wrap, Width
<1>3. /\ i \in DOMAIN f /\ DOMAIN g = DOMAIN f /\ r = f[i] /\ w = g[i]
      /\ \A j \in DOMAIN f \ {i} : f[j] = g[j] /\ g[j] # w
      /\ \A j, k \in DOMAIN f : f[j] = f[k] => j = k
  BY <1>1
<1>4. Records = Range(f) /\ Records' = Range(g)
  BY <1>2 DEF Records, Cell, Range
<1>5. AddB(AddA(Unread(Records), r), w) = Unread(Records')
  <2> DEFINE after == Records'
  <2>1. after = Range(g)
    BY <1>4
  <2> HIDE DEF f, g, r, w, after
  <2>2. AddB(AddA(Unread(Records), r), w) = Unread(after)
    BY <1>3, <1>4, <2>1, OneRecordChanges
  <2> QED
    BY <2>2 DEF after, Unread
<1> QED
  BY <1>5 DEF IInv, CopyOK

(* The same for the set of times: a query of an element that it has.       *)
LEMMA HonestQuery ==
  ASSUME IInv, honest, kind = "ram", clock <= T,
         NEW e \in 1 .. T,
         diffs' = Queries(e, Wrap(ver[e])), ver' = [ver EXCEPT ![e] = @ + 1],
         T' = T
  PROVE  diffs' = Unread(Elements')
<1> DEFINE f == [j \in 1 .. T |-> <<j, Wrap(ver[j])>>]
           g == [j \in 1 .. T |-> <<j, Wrap(ver'[j])>>]
           r == <<e, Wrap(ver[e])>>
           w == <<e, Wrap(Wrap(ver[e]) + 1)>>
<1>1. ver \in [0 .. T -> Nat] /\ ver[e] < clock /\ T \in Nat /\ clock \in Nat /\ T \in Ts
  BY DEF IInv, TypeOK
<1>2. Wrap(ver[e]) = ver[e] /\ Wrap(ver[e] + 1) = ver'[e] /\ Wrap(ver'[e]) = ver'[e]
  <2>1. ver[e] \in 0 .. T /\ ver[e] + 1 \in 0 .. T /\ ver'[e] = ver[e] + 1
    BY <1>1
  <2> QED
    BY <2>1, <1>1, Narrow
<1>3. \A j \in 1 .. T : Wrap(ver[j])' = Wrap(ver'[j])
  BY DEF Wrap, Width
<1>4. /\ e \in DOMAIN f /\ DOMAIN g = DOMAIN f /\ r = f[e] /\ w = g[e]
      /\ \A j \in DOMAIN f \ {e} : f[j] = g[j] /\ g[j] # w
      /\ \A j, k \in DOMAIN f : f[j] = f[k] => j = k
  BY <1>1, <1>2
<1>5. Elements = Range(f) /\ Elements' = Range(g)
  BY <1>3 DEF Elements, Range
<1>6. AddB(AddA(Unread(Elements), r), w) = Unread(Elements')
  <2> DEFINE after == Elements'
  <2>1. after = Range(g)
    BY <1>5
  <2> HIDE DEF f, g, r, w, after
  <2>2. AddB(AddA(Unread(Elements), r), w) = Unread(after)
    BY <1>4, <1>5, <2>1, OneRecordChanges
  <2> QED
    BY <2>2 DEF after, Unread
<1>7. diffs = Unread(Elements)
  BY DEF IInv, CopyOK
<1> QED
  BY <1>6, <1>7 DEF Queries

LEMMA AccessInv ==
  ASSUME IInv, verdict = "open", clock <= T,
         NEW op \in {"read", "write"}, NEW i \in Index, NEW value \in Val,
         NEW old \in Val, NEW time_old \in Field, NEW vv,
         access_(op, i, value, old, time_old, vv),
         UNCHANGED <<T, kind, content, verdict>>
  PROVE  IInv'
<1> DEFINE diff == Wrap(clock - time_old)
           newv == IF op = "write" THEN value ELSE old
<1>1. /\ T \in Nat /\ T \in Ts /\ clock \in 1 .. T /\ kind \in {"ram", "rom"} /\ honest \in BOOLEAN
      /\ mem \in [Cell -> Val] /\ last_t \in [Cell -> Nat] /\ ver \in [0 .. T -> Nat]
      /\ (\A j \in Cell : last_t[j] < clock) /\ (\A e \in 0 .. T : ver[e] < clock)
  BY DEF IInv, TypeOK
<1>2. i < n <=> i \in Cell
  BY DEF Index, Cell
<1>3. /\ perm' = AddB(AddA(perm, <<old, i, time_old>>), <<newv, i, Wrap(clock)>>)
      /\ diffs' = IF kind = "ram" THEN Queries(diff, vv) ELSE diffs
      /\ honest' = (honest /\ i \in Cell
                    /\ (i \in Cell => old = mem[i] /\ time_old = Wrap(last_t[i]))
                    /\ (kind = "ram" => diff \in DOMAIN ver /\ vv = Wrap(ver[diff])))
      /\ mem' = IF i \in Cell /\ op = "write" THEN [mem EXCEPT ![i] = value] ELSE mem
      /\ last_t' = IF i \in Cell THEN [last_t EXCEPT ![i] = clock] ELSE last_t
      /\ ver' = IF kind = "ram" /\ diff \in DOMAIN ver THEN [ver EXCEPT ![diff] = @ + 1] ELSE ver
      /\ clock' = clock + 1
  BY <1>2 DEF access_
<1>4. TypeOK'
  <2>1. mem' \in [Cell -> Val] /\ last_t' \in [Cell -> Nat] /\ \A j \in Cell : last_t'[j] < clock'
    <3>1. last_t' = IF i \in Cell THEN [last_t EXCEPT ![i] = clock] ELSE last_t
      BY <1>3
    <3>2. last_t \in [Cell -> Nat] /\ clock \in Nat /\ \A j \in Cell : last_t[j] < clock
      BY <1>1
    <3>3. last_t' \in [Cell -> Nat] /\ \A j \in Cell : last_t'[j] < clock + 1
      BY ONLY <3>1, <3>2
    <3>4. mem' \in [Cell -> Val]
      <4>1. mem' = IF i \in Cell /\ op = "write" THEN [mem EXCEPT ![i] = value] ELSE mem
        BY <1>3
      <4>2. mem \in [Cell -> Val]
        BY <1>1
      <4> QED
        BY <4>1, <4>2
    <3>5. clock' = clock + 1
      BY <1>3
    <3> QED
      BY <3>3, <3>4, <3>5
  <2>2. ver' \in [0 .. T' -> Nat] /\ \A e \in 0 .. T' : ver'[e] < clock'
    <3> HIDE DEF diff
    <3>1. DOMAIN ver = 0 .. T
      BY <1>1
    <3>2. CASE kind = "ram" /\ diff \in 0 .. T
      <4>1. ver' = [ver EXCEPT ![diff] = ver[diff] + 1]
        BY <1>3, <3>1, <3>2
      <4>2. ver[diff] + 1 \in Nat /\ ver[diff] + 1 < clock + 1
        BY <1>1, <3>2, SMTT(40), ZenonT(40)
      <4> QED
        <5>1. ver \in [0 .. T -> Nat] /\ (\A e \in 0 .. T : ver[e] < clock) /\ clock \in Int
          BY <1>1
        <5>2. ver' \in [0 .. T -> Nat] /\ \A e \in 0 .. T : ver'[e] < clock + 1
          BY ONLY <3>2, <4>1, <4>2, <5>1
        <5>3. clock' = clock + 1 /\ T' = T
          BY <1>3
        <5> QED
          BY ONLY <5>2, <5>3
    <3>3. CASE ~(kind = "ram" /\ diff \in 0 .. T)
      <4>1. ver' = ver
        BY <1>3, <3>1, <3>3
      <4> QED
        <5>1. ver \in [0 .. T -> Nat] /\ (\A e \in 0 .. T : ver[e] < clock) /\ clock \in Int
          BY <1>1
        <5>2. ver' \in [0 .. T -> Nat] /\ \A e \in 0 .. T : ver'[e] < clock + 1
          BY ONLY <4>1, <5>1
        <5>3. clock' = clock + 1 /\ T' = T
          BY <1>3
        <5> QED
          BY ONLY <5>2, <5>3
    <3> QED
      BY <3>2, <3>3
  <2>3. honest' \in BOOLEAN
    BY <1>3
  <2>4. clock' \in 1 .. T' + 1
    BY <1>1, <1>3
  <2> QED
    BY <1>1, <2>1, <2>2, <2>3, <2>4 DEF TypeOK
<1>5. CopyOK'
  <2> SUFFICES ASSUME honest'
               PROVE  perm' = Unread(Records') /\ (kind = "ram" => diffs' = Unread(Elements'))
    BY DEF CopyOK
  <2>1. /\ honest /\ i \in Cell /\ old = mem[i] /\ time_old = Wrap(last_t[i])
        /\ kind = "ram" => diff \in DOMAIN ver /\ vv = Wrap(ver[diff])
    BY <1>3
  <2>2. mem' = [mem EXCEPT ![i] = newv] /\ last_t' = [last_t EXCEPT ![i] = clock]
    BY <1>1, <1>3, <2>1
  <2>3. perm' = Unread(Records')
    BY <1>3, <2>1, <2>2, HonestAccess
  <2>4. diff \in 1 .. T
    <3>1. last_t[i] \in 0 .. T /\ clock - last_t[i] \in 1 .. T
      BY <1>1, <2>1
    <3>2. time_old = last_t[i]
      BY <1>1, <2>1, <3>1, Narrow
    <3>3. Wrap(clock - last_t[i]) = clock - last_t[i]
      BY <1>1, <3>1, Narrow, SMTT(40), ZenonT(40)
    <3> QED
      BY <3>1, <3>2, <3>3
  <2>5. ASSUME kind = "ram" PROVE diffs' = Unread(Elements')
    <3>1. diffs' = Queries(diff, Wrap(ver[diff])) /\ ver' = [ver EXCEPT ![diff] = @ + 1]
      BY <1>3, <2>1, <2>5
    <3> HIDE DEF diff
    <3> QED
      BY <2>1, <2>4, <2>5, <3>1, HonestQuery
  <2> QED
    BY <2>3, <2>5
<1> QED
  BY <1>4, <1>5 DEF IInv, HonestAccepted

LEMMA StepInv == IInv /\ [Next]_vars => IInv'
<1> SUFFICES ASSUME IInv, [Next]_vars PROVE IInv'
  OBVIOUS
<1>1. CASE Access
  <2>1. PICK i \in Index, old \in Val, time_old \in Field, vv \in Versions :
          \/ access_("read", i, old, old, time_old, vv)
          \/ \E value \in Val : access_("write", i, value, old, time_old, vv)
    BY <1>1 DEF Access
  <2>2. verdict = "open" /\ clock <= T /\ UNCHANGED <<T, kind, content, verdict>>
    BY <1>1 DEF Access
  <2> QED
    BY <2>1, <2>2, AccessInv
<1>2. CASE Check
  <2>1. UNCHANGED <<T, kind, content, clock, mem, last_t, ver, perm, diffs>>
    BY <1>2 DEF Check
  <2>2. CASE CheckHonest
    <3>1. perm = Unread({<<mem[i], i, Wrap(last_t[i])>> : i \in Cell})
      BY <2>2 DEF CheckHonest, IInv, CopyOK, Records
    <3>2. kind = "ram" => diffs = Unread({<<e, Wrap(ver[e])>> : e \in 1 .. T})
      BY <2>2 DEF CheckHonest, IInv, CopyOK, Elements
    <3>3. verdict' = "accepted" /\ honest' = honest
      BY <2>2, <3>1, <3>2 DEF CheckHonest
    <3> QED
      BY <2>1, <3>3 DEF IInv, TypeOK, CopyOK, HonestAccepted, Records, Elements, Wrap, Width
  <2>3. CASE CheckAny
    BY <2>1, <2>3 DEF CheckAny, IInv, TypeOK, CopyOK, HonestAccepted
  <2> QED
    BY <1>2, <2>2, <2>3 DEF Check
<1>3. CASE UNCHANGED vars
  BY <1>3 DEF vars, IInv, TypeOK, CopyOK, HonestAccepted, Records, Elements, Wrap, Width
<1> QED
  BY <1>1, <1>2, <1>3 DEF Next, Terminated

(* A prover who commits to what her copy of the memory says is accepted: no *)
(* field is too narrow for the times and versions of a run of at most T     *)
(* accesses, and the two shuffles balance.                                  *)
THEOREM HonestProverAccepted == Spec => []HonestAccepted
<1>1. IInv => HonestAccepted
  BY DEF IInv
<1> QED
  BY InitInv, StepInv, <1>1, PTL DEF Spec

-----------------------------------------------------------------------------
(* Any prover.                                                             *)
(* The accesses with the times and versions the prover committed to.       *)
OpRec == [op : {"read", "write"}, i : Index, val : Val, ret : Val]

LogTypeOK ==
  /\ T \in Ts /\ kind \in {"ram", "rom"} /\ content \in [Cell -> Val]
  /\ clock \in 1 .. T + 1 /\ ops \in Seq(OpRec) /\ Len(ops) = clock - 1

NewVal(j)          == IF ops[j].op = "write" THEN ops[j].val ELSE ops[j].ret
ReadLog(tm)        == [j \in 1 .. Len(ops) |-> <<ops[j].ret, ops[j].i, tm[j]>>]
WriteLog           == [j \in 1 .. Len(ops) |-> <<NewVal(j), ops[j].i, j>>]
QueryLog(tm, vs)   == [j \in 1 .. Len(ops) |-> <<Wrap(j - tm[j]), vs[j]>>]
AnswerLog(tm, vs)  == [j \in 1 .. Len(ops) |-> <<Wrap(j - tm[j]), Wrap(vs[j] + 1)>>]
FirstRecords       == {<<content[i], i, 0>> : i \in Cell}
FirstElements      == {<<e, 0>> : e \in 1 .. T}

Log(tm, vs) ==
  /\ \A j \in 1 .. Len(ops) : tm[j] \in Field /\ vs[j] \in Versions
  /\ Ledger(perm, FirstRecords, Len(ops), ReadLog(tm), WriteLog)
  /\ kind = "ram" => Ledger(diffs, FirstElements, Len(ops), QueryLog(tm, vs), AnswerLog(tm, vs))

\* What the permutation proofs have established.
Settled ==
  /\ \A r \in DOMAIN perm : perm[r] = -1
  /\ kind = "ram" => \A r \in DOMAIN diffs : r[1] \in 1 .. T

LEMMA LogFacts ==
  ASSUME LogTypeOK
  PROVE  /\ T \in Nat \ {0} /\ Width \in Nat /\ Width > T /\ Len(ops) \in 0 .. T
         /\ \A x \in 0 .. T : Wrap(x) = x
         /\ \A j \in 1 .. Len(ops) : ops[j] \in OpRec
         /\ DOMAIN ops = 1 .. Len(ops)
<1>1. T \in Ts /\ 0 \in 0 .. T
  BY TsAssumption DEF LogTypeOK
<1>2. T \in Nat \ {0} /\ Width \in Nat /\ Width > T /\ \A x \in 0 .. T : Wrap(x) = x
  BY <1>1, Narrow
<1> QED
  BY <1>2 DEF LogTypeOK

LEMMA WrapFacts ==
  ASSUME NEW W \in Nat \ {0}
  PROVE  /\ \A x \in 0 .. W - 1 : x % W = x
         /\ W % W = 0
         /\ \A x \in Int : -W < x /\ x < 0 => x % W = x + W
OBVIOUS

\* The queries of a proof that was accepted: every time lies in the past.
LEMMA TimesPast ==
  ASSUME LogTypeOK, kind = "ram", NEW tm, NEW vs, Log(tm, vs), Settled, Width >= 2 * T,
         NEW j \in 1 .. Len(ops)
  PROVE  /\ tm[j] \in 0 .. j - 1
         /\ \/ ReadLog(tm)[j] \in FirstRecords
            \/ \E m \in 1 .. Len(ops) : WriteLog[m] = ReadLog(tm)[j]
<1> DEFINE L == Len(ops)  W == Width
<1>1. /\ T \in Nat \ {0} /\ W \in Nat \ {0} /\ W > T /\ L \in 0 .. T /\ tm[j] \in 0 .. W - 1
      /\ W >= 2 * T /\ j \in 1 .. L
  BY LogFacts DEF Log, Field
<1>2. /\ ReadLog(tm)[j] \in FirstRecords
         \/ \E m \in 1 .. L : WriteLog[m] = ReadLog(tm)[j]
  <2>1. \A r : Net(perm, r) <= 0
    BY DEF Settled, Net
  <2>2. Ledger(perm, FirstRecords, L, ReadLog(tm), WriteLog) /\ L \in Nat
    BY <1>1 DEF Log
  <2> DEFINE f == ReadLog(tm)  g == WriteLog  bag == perm  start == FirstRecords
  <2>3. Ledger(bag, start, L, f, g)
    BY <2>2
  <2>4. \A r : Net(bag, r) <= 0
    BY <2>1
  <2>5. L \in Nat
    BY <1>1
  <2>6. j \in 1 .. L
    BY <1>1
  <2> HIDE DEF L, f, g, bag, start
  <2>7. f[j] \in start \/ \E m \in 1 .. L : g[m] = f[j]
    BY ONLY <2>3, <2>4, <2>5, <2>6, ReadWasWritten, SMTT(40), ZenonT(40), Z3T(40)
  <2> QED
    BY <2>7 DEF L, f, g, start
<1>3. tm[j] <= T
  <2>1. ReadLog(tm)[j] = <<ops[j].ret, ops[j].i, tm[j]>>
    BY DEF ReadLog
  <2>2. CASE ReadLog(tm)[j] \in FirstRecords
    <3>1. PICK i \in Cell : <<ops[j].ret, ops[j].i, tm[j]>> = <<content[i], i, 0>>
      BY <2>1, <2>2 DEF FirstRecords
    <3> QED
      BY <1>1, <3>1
  <2>3. CASE \E m \in 1 .. L : WriteLog[m] = ReadLog(tm)[j]
    <3>1. PICK m \in 1 .. L : WriteLog[m] = ReadLog(tm)[j]
      BY <2>3
    <3>2. WriteLog[m] = <<NewVal(m), ops[m].i, m>>
      BY DEF WriteLog
    <3>3. tm[j] = m
      BY <2>1, <3>1, <3>2
    <3> QED
      BY <1>1, <3>3
  <2> QED
    BY <1>2, <2>2, <2>3
<1>4. Wrap(j - tm[j]) \in 1 .. T
  <2> DEFINE key == [i \in 1 .. L |-> Wrap(i - tm[i])]
             f == QueryLog(tm, vs)  g == AnswerLog(tm, vs)
  <2>1. \A i \in 1 .. L : vs[i] \in 0 .. W - 1
    BY DEF Log, Versions, Field
  <2>2. \A i \in 1 .. L : Wrap(vs[i] + 1) = IF vs[i] + 1 = W THEN 0 ELSE vs[i] + 1
    <3> SUFFICES ASSUME NEW i \in 1 .. L
                 PROVE  Wrap(vs[i] + 1) = IF vs[i] + 1 = W THEN 0 ELSE vs[i] + 1
      OBVIOUS
    <3>1. Wrap(vs[i] + 1) = (vs[i] + 1) % W /\ vs[i] \in 0 .. W - 1
      BY <2>1 DEF Wrap
    <3> DEFINE y == vs[i]
    <3>2. W \in Nat \ {0} /\ y \in 0 .. W - 1 /\ Wrap(y + 1) = (y + 1) % W
      BY <1>1, <3>1
    <3> HIDE DEF W, y
    <3>3. W % W = 0 /\ \A x \in 0 .. W - 1 : x % W = x
      BY ONLY <3>2, WrapFacts, SMTT(40), ZenonT(40), Z3T(40)
    <3>4. CASE y + 1 = W
      BY <3>2, <3>3, <3>4 DEF y
    <3>5. CASE y + 1 # W
      <4>1. y + 1 \in 0 .. W - 1
        BY ONLY <3>2, <3>5
      <4>2. (y + 1) % W = y + 1
        BY ONLY <4>1, <3>3
      <4> QED
        BY <3>2, <3>5, <4>2 DEF y
    <3> QED
      BY <3>4, <3>5
  <2>3. \A i \in 1 .. L : /\ vs[i] \in 0 .. W - 1 /\ f[i] = <<key[i], vs[i]>>
                          /\ g[i] = <<key[i], IF vs[i] + 1 = W THEN 0 ELSE vs[i] + 1>>
    <3> SUFFICES ASSUME NEW i \in 1 .. L
                 PROVE  /\ f[i] = <<key[i], vs[i]>>
                        /\ g[i] = <<key[i], IF vs[i] + 1 = W THEN 0 ELSE vs[i] + 1>>
      BY <2>1
    <3>1. f[i] = <<key[i], vs[i]>> /\ g[i] = <<key[i], Wrap(vs[i] + 1)>>
      BY DEF QueryLog, AnswerLog
    <3> HIDE DEF f, g, key, W
    <3> QED
      BY <2>2, <3>1
  <2>4. Ledger(diffs, FirstElements, L, f, g)
    BY DEF Log
  <2>5. (\A r \in DOMAIN diffs : r[1] \in 1 .. T) /\ \A r \in FirstElements : r[1] \in 1 .. T
    BY DEF Settled, FirstElements
  <2>6. L \in Nat /\ W \in Nat /\ L < W
    BY <1>1
  <2>7. key[j] \in 1 .. T
    <3> HIDE DEF key, f, g, L, W
    <3>1. j \in 1 .. L
      BY <1>1
    <3> DEFINE K == 1 .. T
    <3>2. (\A r \in DOMAIN diffs : r[1] \in K) /\ (\A r \in FirstElements : r[1] \in K)
      BY <2>5
    <3>10. Asked(W, L, key, vs, f, g)
      BY <2>3 DEF Asked
    <3> DEFINE start == FirstElements  bag == diffs
    <3>4. Ledger(bag, start, L, f, g)
      BY <2>4
    <3>5. \A r \in DOMAIN bag : r[1] \in K
      BY <3>2
    <3>6. \A r \in start : r[1] \in K
      BY <3>2
    <3>7. L \in Nat
      BY <2>6
    <3>8. W \in Nat
      BY <2>6
    <3>9. L < W
      BY <2>6
    <3> HIDE DEF K, start, bag
    <3>3. key[j] \in K
      BY ONLY <3>10, <3>1, <3>4, <3>5, <3>6, <3>7, <3>8, <3>9, QueriedMember
    <3> QED
      BY <3>3 DEF K
  <2> QED
    BY <2>7
<1>5. tm[j] < j
  <2> SUFFICES ASSUME tm[j] >= j PROVE FALSE
    BY <1>1
  <2> DEFINE x == j - tm[j]
  <2>1. x \in Int /\ x <= 0 /\ -T < x /\ Wrap(x) = x % W
    BY <1>1, <1>3 DEF Wrap
  <2>2. x % W \in 1 .. T
    BY <1>4, <2>1
  <2>5. T \in Nat /\ W \in Nat \ {0} /\ x \in Int /\ -T < x /\ -W < x
    BY <1>1, <2>1
  <2>6. -W < x /\ -T < x
    BY <2>5
  <2> HIDE DEF x, W
  <2>3. CASE x = 0
    <3>1. 0 % W = 0
      BY <1>1, WrapFacts
    <3> QED
      BY <2>2, <2>3, <3>1
  <2>4. CASE x < 0
    <3>1. x % W = x + W
      BY ONLY <2>5, <2>4, WrapFacts
    <3>2. W - T >= T
      BY ONLY <1>1, <2>5
    <3> QED
      BY ONLY <2>2, <2>5, <3>1, <3>2
  <2> QED
    BY <2>1, <2>3, <2>4
<1> QED
  BY <1>1, <1>2, <1>5

\* Where each access read: the start, or an earlier access to its cell, and no
\* two to the same one.
LEMMA WhereRead ==
  ASSUME LogTypeOK, kind = "ram", NEW tm, NEW vs, Log(tm, vs), Settled, Width >= 2 * T
  PROVE  /\ \A j \in 1 .. Len(ops) :
              /\ tm[j] \in 0 .. j - 1
              /\ tm[j] = 0 => ops[j].i \in Cell /\ ops[j].ret = content[ops[j].i]
              /\ tm[j] # 0 => ops[tm[j]].i = ops[j].i /\ ops[j].ret = NewVal(tm[j])
         /\ \A j, l \in 1 .. Len(ops) : ops[j].i = ops[l].i /\ tm[j] = tm[l] => j = l
<1> DEFINE L == Len(ops)
<1>1. ASSUME NEW j \in 1 .. L
      PROVE  /\ tm[j] \in 0 .. j - 1
             /\ tm[j] = 0 => ops[j].i \in Cell /\ ops[j].ret = content[ops[j].i]
             /\ tm[j] # 0 => ops[tm[j]].i = ops[j].i /\ ops[j].ret = NewVal(tm[j])
  <2>1. /\ tm[j] \in 0 .. j - 1
        /\ ReadLog(tm)[j] \in FirstRecords \/ \E m \in 1 .. L : WriteLog[m] = ReadLog(tm)[j]
    BY TimesPast
  <2>2. ReadLog(tm)[j] = <<ops[j].ret, ops[j].i, tm[j]>>
    BY DEF ReadLog
  <2>3. CASE ReadLog(tm)[j] \in FirstRecords
    <3>1. PICK i \in Cell : <<ops[j].ret, ops[j].i, tm[j]>> = <<content[i], i, 0>>
      BY <2>2, <2>3 DEF FirstRecords
    <3>2. ops[j].ret = content[i] /\ ops[j].i = i /\ tm[j] = 0
      BY <3>1
    <3> QED
      BY <2>1, <3>2
  <2>4. CASE \E m \in 1 .. L : WriteLog[m] = ReadLog(tm)[j]
    <3>1. PICK m \in 1 .. L : WriteLog[m] = ReadLog(tm)[j]
      BY <2>4
    <3>2. WriteLog[m] = <<NewVal(m), ops[m].i, m>>
      BY DEF WriteLog
    <3>3. tm[j] = m /\ ops[j].ret = NewVal(m) /\ ops[j].i = ops[m].i /\ m # 0
      BY <2>2, <3>1, <3>2
    <3> QED
      BY <2>1, <3>3
  <2> QED
    BY <2>1, <2>3, <2>4
<1>2. ASSUME NEW j \in 1 .. L, NEW l \in 1 .. L, ops[j].i = ops[l].i, tm[j] = tm[l]
      PROVE  j = l
  <2> DEFINE f == ReadLog(tm)  g == WriteLog  bag == perm  start == FirstRecords
  <2>1. ops[j].ret = ops[l].ret
    BY <1>1, <1>2
  <2>2. f[j] = f[l]
    BY <1>2, <2>1 DEF ReadLog
  <2>3. \A m \in 1 .. L : g[m] = <<NewVal(m), ops[m].i, m>>
    BY DEF WriteLog
  <2>4. \A m, k \in 1 .. L : g[m] = g[k] => m = k
    BY <2>3
  <2>5. \A m \in 1 .. L : g[m] \notin start
    BY <2>3 DEF FirstRecords
  <2>6. \A r : Net(bag, r) <= 0
    BY DEF Settled, Net
  <2>7. Ledger(bag, start, L, f, g)
    BY DEF Log
  <2>8. L \in Nat
    BY LogFacts
  <2>9. j \in 1 .. L
    OBVIOUS
  <2>10. l \in 1 .. L
    OBVIOUS
  <2> HIDE DEF f, g, bag, start, L
  <2> QED
    BY ONLY <2>2, <2>4, <2>5, <2>6, <2>7, <2>8, <2>9, <2>10, ReadOnce, SMTT(40), ZenonT(40)
<1> QED
  BY <1>1, <1>2

\* A memory each of whose reads got the contents of its cell's last access.
LEMMA PlainMemory ==
  ASSUME LogTypeOK, kind = "ram", NEW tm, NEW vs, Log(tm, vs), Settled, Width >= 2 * T
  PROVE  IsPlainMemory
<1> DEFINE L == Len(ops)
           idx == [j \in 1 .. L |-> ops[j].i]
           Plain(j) == ops[j].i \in Cell /\ ops[j].ret = Latest(j)
           B == {j \in 1 .. L : ~Plain(j)}
<1>1. \A j \in 1 .. L :
        /\ tm[j] \in 0 .. j - 1
        /\ tm[j] = 0 => ops[j].i \in Cell /\ ops[j].ret = content[ops[j].i]
        /\ tm[j] # 0 => ops[tm[j]].i = ops[j].i /\ ops[j].ret = NewVal(tm[j])
  BY WhereRead
<1>2. \A j, l \in 1 .. L : ops[j].i = ops[l].i /\ tm[j] = tm[l] => j = l
  BY WhereRead
<1>3. L \in Nat /\ DOMAIN ops = 1 .. L
  BY LogFacts
<1>4. \A j, q \in 1 .. L : tm[j] < q /\ q < j => ops[q].i # ops[j].i
  <2>1. \A j \in 1 .. L : tm[j] \in 0 .. j - 1 /\ (tm[j] # 0 => idx[tm[j]] = idx[j])
    <3> SUFFICES ASSUME NEW j \in 1 .. L
                 PROVE  tm[j] \in 0 .. j - 1 /\ (tm[j] # 0 => idx[tm[j]] = idx[j])
      OBVIOUS
    <3>1. tm[j] \in 0 .. j - 1 /\ (tm[j] # 0 => ops[tm[j]].i = ops[j].i)
      BY <1>1
    <3>2. tm[j] # 0 => tm[j] \in 1 .. L
      BY <1>3, <3>1
    <3> QED
      BY <3>1, <3>2
  <2>2. \A j, l \in 1 .. L : idx[j] = idx[l] /\ tm[j] = tm[l] => j = l
    BY <1>2
  <2>3. L \in Nat
    BY <1>3
  <2>5. Chained(L, tm, idx)
    BY <2>1, <2>2 DEF Chained
  <2> HIDE DEF idx, L
  <2>4. \A j, q \in 1 .. L : tm[j] < q /\ q < j => idx[q] # idx[j]
    BY ONLY <2>5, <2>3, LastAccess
  <2> QED
    BY <2>4 DEF idx
<1> SUFFICES ASSUME B # {} PROVE FALSE
  BY <1>3 DEF IsPlainMemory
<1>5. B \subseteq Nat
  BY <1>3
<1>6. PICK j \in B : \A k \in B : j <= k
  <2> HIDE DEF B
  <2> QED
    BY <1>5, LeastNat
<1>7. j \in 1 .. L /\ ~Plain(j)
  BY <1>6
<1> DEFINE i == ops[j].i  t == tm[j]  ws == WritesBefore(j, i)
<1>8. \A w \in ws : w \in 1 .. j - 1 /\ w \in 1 .. L /\ ops[w].op = "write" /\ ops[w].i = i /\ w <= t
  <2> SUFFICES ASSUME NEW w \in ws
               PROVE  w \in 1 .. j - 1 /\ w \in 1 .. L /\ ops[w].op = "write" /\ ops[w].i = i /\ w <= t
    OBVIOUS
  <2>1. w \in 1 .. j - 1 /\ w \in 1 .. L /\ ops[w].op = "write" /\ ops[w].i = i
    BY <1>3, <1>7 DEF WritesBefore
  <2>2. ~(t < w)
    BY <1>4, <1>7, <2>1
  <2>3. t \in Int
    BY <1>1, <1>7
  <2> QED
    BY <2>1, <2>2, <2>3
<1>9. CASE t = 0
  <2>1. ws = {}
    BY <1>8, <1>9
  <2>2. Latest(j) = content[i]
    BY <2>1 DEF Latest
  <2> QED
    BY <1>1, <1>7, <1>9, <2>2
<1>10. CASE t # 0
  <2>1. t \in 1 .. j - 1 /\ t \in 1 .. L /\ ops[t].i = i /\ ops[j].ret = NewVal(t)
    BY <1>1, <1>3, <1>7, <1>10
  <2>2. Plain(t)
    <3>1. t \notin B
      BY <1>6, <1>7, <2>1
    <3> HIDE DEF Plain
    <3> QED
      BY <2>1, <3>1
  <2>3. CASE ops[t].op = "write"
    <3>1. t \in ws
      BY <2>1, <2>3 DEF WritesBefore
    <3>2. \A w \in ws : (\A u \in ws : u <= w) <=> w = t
      BY <1>8, <2>1, <3>1
    <3>3. (CHOOSE w \in ws : \A u \in ws : u <= w) = t
      <4> HIDE DEF ws, t
      <4> QED
        BY <3>1, <3>2
    <3>4. Latest(j) = ops[t].val
      BY <3>1, <3>3 DEF Latest
    <3>5. ops[j].ret = ops[t].val
      BY <2>1, <2>3 DEF NewVal
    <3> QED
      BY <1>7, <2>1, <2>2, <3>4, <3>5
  <2>4. CASE ops[t].op # "write"
    <3>1. WritesBefore(t, i) = ws
      <4>1. \A w \in ws : w # t
        BY <1>8, <2>4
      <4>2. \A w \in ws : w \in 1 .. t - 1
        BY <1>8, <2>1, <4>1
      <4>3. 1 .. t - 1 \subseteq 1 .. j - 1
        BY <1>7, <2>1
      <4> QED
        BY <4>2, <4>3 DEF WritesBefore
    <3>2. Latest(t) = Latest(j)
      BY <2>1, <3>1 DEF Latest
    <3>3. ops[j].ret = ops[t].ret
      BY <2>1, <2>4 DEF NewVal
    <3> QED
      BY <1>7, <2>1, <2>2, <3>2, <3>3
  <2> QED
    BY <2>3, <2>4
<1> QED
  BY <1>9, <1>10

LogInv == /\ LogTypeOK
          /\ \E tm, vs : Log(tm, vs)
          /\ verdict = "accepted" => Settled

LEMMA LogStart == Init => LogInv
<1> SUFFICES ASSUME Init PROVE LogInv
  OBVIOUS
<1>1. T \in Ts /\ kind \in {"ram", "rom"} /\ content \in [Cell -> Val] /\ clock = 1 /\ ops = << >>
  BY KindsAssumption DEF Init
<1>2. T \in Nat \ {0} /\ Len(ops) = 0 /\ ops \in Seq(OpRec)
  BY <1>1, TsAssumption
<1>3. LogTypeOK
  BY <1>1, <1>2 DEF LogTypeOK
<1> DEFINE tm == << >>  vs == << >>
<1>4. Ledger(perm, FirstRecords, Len(ops), ReadLog(tm), WriteLog)
  <2>1. perm = Unread(FirstRecords)
    BY DEF Init, FirstRecords
  <2> QED
    BY <1>2, <2>1, LedgerStart
<1>5. kind = "ram" => Ledger(diffs, FirstElements, Len(ops), QueryLog(tm, vs), AnswerLog(tm, vs))
  <2>1. kind = "ram" => diffs = Unread(FirstElements)
    BY DEF Init, FirstElements
  <2> QED
    BY <1>2, <2>1, LedgerStart
<1>6. Log(tm, vs)
  <2>1. \A j \in 1 .. Len(ops) : tm[j] \in Field /\ vs[j] \in Versions
    BY <1>2
  <2> QED
    BY <1>4, <1>5, <2>1 DEF Log
<1> QED
  BY <1>3, <1>6 DEF Init, LogInv

LEMMA LogAccess ==
  ASSUME LogInv, verdict = "open", clock <= T,
         NEW op \in {"read", "write"}, NEW i \in Index, NEW value \in Val,
         NEW old \in Val, NEW time_old \in Field, NEW vv \in Versions,
         op = "read" => value = old,
         access_(op, i, value, old, time_old, vv),
         UNCHANGED <<T, kind, content, verdict>>
  PROVE  LogInv'
<1> DEFINE L == Len(ops)
           rec == [op |-> op, i |-> i, val |-> value, ret |-> old]
           newv == IF op = "write" THEN value ELSE old
           diff == Wrap(clock - time_old)
<1>1. /\ T \in Ts /\ kind \in {"ram", "rom"} /\ content \in [Cell -> Val]
      /\ clock \in 1 .. T + 1 /\ ops \in Seq(OpRec) /\ L = clock - 1
  BY DEF LogInv, LogTypeOK
<1>2. T \in Nat \ {0} /\ clock \in Nat /\ L \in Nat /\ L + 1 = clock /\ clock \in 1 .. T
  BY <1>1, TsAssumption
<1>3. Wrap(clock) = clock
  BY <1>1, <1>2, Narrow
<1>4. ops' = Append(ops, rec) /\ clock' = clock + 1
  BY DEF access_
<1>5. rec \in OpRec
  BY DEF OpRec
<1>6. ops' \in Seq(OpRec) /\ Len(ops') = L + 1
  BY <1>1, <1>4, <1>5
<1>7. (\A j \in 1 .. L : ops'[j] = ops[j]) /\ ops'[clock] = rec
  <2> HIDE DEF rec
  <2> QED
    BY <1>1, <1>2, <1>4, <1>5, SMTT(40), ZenonT(40)
<1>8. LogTypeOK'
  BY <1>1, <1>2, <1>4, <1>6 DEF LogTypeOK, Cell, OpRec, Index
<1>9. PICK tm, vs : Log(tm, vs)
  BY DEF LogInv
<1>10. PICK tm2, vs2 : /\ tm2[clock] = time_old /\ vs2[clock] = vv
                       /\ \A j \in 1 .. L : tm2[j] = tm[j] /\ vs2[j] = vs[j]
  <2> DEFINE a == [j \in 1 .. clock |-> IF j = clock THEN time_old ELSE tm[j]]
             b == [j \in 1 .. clock |-> IF j = clock THEN vv ELSE vs[j]]
  <2>1. /\ a[clock] = time_old /\ b[clock] = vv
        /\ \A j \in 1 .. L : a[j] = tm[j] /\ b[j] = vs[j]
    BY <1>2
  <2> HIDE DEF a, b, L
  <2> QED
    BY ONLY <2>1
<1>11. Field' = Field /\ Versions' = Versions /\ Width' = Width
  BY DEF Field, Versions, Width
<1>12. \A j \in 1 .. Len(ops') : tm2[j] \in Field' /\ vs2[j] \in Versions'
  <2>1. \A j \in 1 .. L : tm[j] \in Field /\ vs[j] \in Versions
    BY <1>9 DEF Log
  <2>2. Len(ops') = clock /\ \A j \in 1 .. clock : j \in 1 .. L \/ j = clock
    BY <1>2, <1>6
  <2> QED
    BY <1>10, <1>11, <2>1, <2>2
<1>13. Ledger(perm', FirstRecords', Len(ops'), ReadLog(tm2)', WriteLog')
  <2> DEFINE f == ReadLog(tm)  g == WriteLog
             f2 == [j \in 1 .. clock |-> <<ops'[j].ret, ops'[j].i, tm2[j]>>]
             g2 == [j \in 1 .. clock |-> <<IF ops'[j].op = "write" THEN ops'[j].val ELSE ops'[j].ret,
                                           ops'[j].i, j>>]
             x == <<old, i, time_old>>  y == <<newv, i, Wrap(clock)>>
             bag == perm  start == FirstRecords
  <2>1. ReadLog(tm2)' = f2 /\ WriteLog' = g2
    BY <1>2, <1>6 DEF ReadLog, WriteLog, NewVal
  <2>2. \A j \in 1 .. L : f2[j] = f[j] /\ g2[j] = g[j]
    <3> SUFFICES ASSUME NEW j \in 1 .. L PROVE f2[j] = f[j] /\ g2[j] = g[j]
      OBVIOUS
    <3>1. ops'[j] = ops[j] /\ tm2[j] = tm[j] /\ j \in 1 .. clock
      BY <1>2, <1>7, <1>10
    <3> QED
      BY <3>1 DEF ReadLog, WriteLog, NewVal
  <2>3. f2[L + 1] = x /\ g2[L + 1] = y
    BY <1>2, <1>3, <1>7, <1>10
  <2>4. perm' = AddB(AddA(bag, x), y)
    BY DEF access_
  <2>5. Ledger(bag, start, L, f, g)
    BY <1>9 DEF Log
  <2>6. FirstRecords' = start /\ Len(ops') = L + 1 /\ L \in Nat
    BY <1>2, <1>6 DEF FirstRecords, Cell
  <2>7. L \in Nat
    BY <1>2
  <2>8. Longer(L, f, f2, x)
    BY <2>2, <2>3 DEF Longer
  <2>9. Longer(L, g, g2, y)
    BY <2>2, <2>3 DEF Longer
  <2> HIDE DEF f, g, f2, g2, x, y, bag, start, L
  <2>10. Ledger(AddB(AddA(bag, x), y), start, L + 1, f2, g2)
    BY ONLY <2>5, <2>7, <2>8, <2>9, LedgerStep
  <2> QED
    BY <2>1, <2>4, <2>6, <2>10
<1>14. ASSUME kind = "ram"
       PROVE  Ledger(diffs', FirstElements', Len(ops'), QueryLog(tm2, vs2)', AnswerLog(tm2, vs2)')
  <2> DEFINE f == QueryLog(tm, vs)  g == AnswerLog(tm, vs)
             f2 == [j \in 1 .. clock |-> <<Wrap(j - tm2[j]), vs2[j]>>]
             g2 == [j \in 1 .. clock |-> <<Wrap(j - tm2[j]), Wrap(vs2[j] + 1)>>]
             x == <<diff, vv>>  y == <<diff, Wrap(vv + 1)>>
             bag == diffs  start == FirstElements
  <2>1. QueryLog(tm2, vs2)' = f2 /\ AnswerLog(tm2, vs2)' = g2
    BY <1>2, <1>6, <1>11 DEF QueryLog, AnswerLog, Wrap
  <2>2. \A j \in 1 .. L : f2[j] = f[j] /\ g2[j] = g[j]
    <3> SUFFICES ASSUME NEW j \in 1 .. L PROVE f2[j] = f[j] /\ g2[j] = g[j]
      BY SMTT(40), ZenonT(40)
    <3>1. vs2[j] = vs[j] /\ tm2[j] = tm[j] /\ j \in 1 .. clock
      BY <1>2, <1>10
    <3> QED
      BY <3>1 DEF QueryLog, AnswerLog
  <2>3. f2[L + 1] = x /\ g2[L + 1] = y
    BY <1>2, <1>10
  <2>4. diffs' = AddB(AddA(bag, x), y)
    BY <1>14 DEF access_, Queries
  <2>5. Ledger(bag, start, L, f, g)
    BY <1>9, <1>14 DEF Log
  <2>6. FirstElements' = start /\ Len(ops') = L + 1
    BY <1>6 DEF FirstElements
  <2>7. L \in Nat
    BY <1>2
  <2>8. Longer(L, f, f2, x)
    BY <2>2, <2>3 DEF Longer
  <2>9. Longer(L, g, g2, y)
    BY <2>2, <2>3 DEF Longer
  <2> HIDE DEF f, g, f2, g2, x, y, bag, start, L
  <2>10. Ledger(AddB(AddA(bag, x), y), start, L + 1, f2, g2)
    BY ONLY <2>5, <2>7, <2>8, <2>9, LedgerStep
  <2> QED
    BY <2>1, <2>4, <2>6, <2>10
<1>15. Log(tm2, vs2)'
  <2>1. kind' = kind
    OBVIOUS
  <2> QED
    BY <1>12, <1>13, <1>14, <2>1 DEF Log
<1>16. \E a, b : Log(a, b)'
  BY <1>15
<1> QED
  BY <1>8, <1>16 DEF LogInv

\* check() of either kind accepts only what leaves nothing to read but one record
\* per cell and, of the set of times, per element.
LEMMA LogCheck ==
  ASSUME LogInv, Check
  PROVE  LogInv'
<1>1. UNCHANGED <<T, kind, content, clock, perm, diffs, ops>>
  BY DEF Check
<1>2. LogTypeOK'
  BY <1>1 DEF LogInv, LogTypeOK, Cell, OpRec, Index
<1>3. \E tm, vs : Log(tm, vs)'
  <2>1. PICK tm, vs : Log(tm, vs)
    BY DEF LogInv
  <2>2. Field' = Field /\ Versions' = Versions /\ Width' = Width
    BY <1>1 DEF Field, Versions, Width
  <2>3. FirstRecords' = FirstRecords /\ FirstElements' = FirstElements
    BY <1>1 DEF FirstRecords, FirstElements, Cell
  <2>4. ReadLog(tm)' = ReadLog(tm) /\ WriteLog' = WriteLog
    BY <1>1 DEF ReadLog, WriteLog, NewVal
  <2>5. QueryLog(tm, vs)' = QueryLog(tm, vs) /\ AnswerLog(tm, vs)' = AnswerLog(tm, vs)
    BY <1>1, <2>2 DEF QueryLog, AnswerLog, Wrap
  <2>6. Log(tm, vs)'
    BY <1>1, <2>1, <2>2, <2>3, <2>4, <2>5 DEF Log
  <2> QED
    BY <2>6
<1>4. ASSUME verdict' = "accepted" PROVE Settled
  <2>1. CASE CheckHonest
    <3>1. /\ perm = Unread({<<mem[i], i, Wrap(last_t[i])>> : i \in Cell})
          /\ kind = "ram" => diffs = Unread({<<e, Wrap(ver[e])>> : e \in 1 .. T})
      BY <1>4, <2>1 DEF CheckHonest
    <3> QED
      BY <3>1 DEF Settled, Unread
  <2>2. CASE CheckAny
    <3>1. Closable(perm, Cell, 2) /\ (kind = "ram" => Closable(diffs, 1 .. T, 1))
      BY <1>4, <2>2 DEF CheckAny
    <3> QED
      BY <3>1 DEF Closable, Settled
  <2> QED
    BY <2>1, <2>2 DEF Check
<1>5. Settled' <=> Settled
  BY <1>1 DEF Settled
<1> QED
  BY <1>2, <1>3, <1>4, <1>5 DEF LogInv

LEMMA LogStep == LogInv /\ [Next]_vars => LogInv'
<1> SUFFICES ASSUME LogInv, [Next]_vars PROVE LogInv'
  OBVIOUS
<1>1. CASE Access
  <2>1. verdict = "open" /\ clock <= T /\ UNCHANGED <<T, kind, content, verdict>>
    BY <1>1 DEF Access
  <2>2. PICK i \in Index, old \in Val, time_old \in Field, vv \in Versions :
          \/ access_("read", i, old, old, time_old, vv)
          \/ \E value \in Val : access_("write", i, value, old, time_old, vv)
    BY <1>1 DEF Access
  <2>3. CASE access_("read", i, old, old, time_old, vv)
    BY <2>1, <2>3, LogAccess
  <2>4. CASE \E value \in Val : access_("write", i, value, old, time_old, vv)
    BY <2>1, <2>4, LogAccess
  <2> QED
    BY <2>2, <2>3, <2>4
<1>2. CASE Check
  BY <1>2, LogCheck
<1>3. CASE UNCHANGED vars
  <2>1. UNCHANGED <<T, kind, content, clock, perm, diffs, ops, verdict>>
    BY <1>3 DEF vars
  <2>2. LogTypeOK'
    BY <2>1 DEF LogInv, LogTypeOK, Cell, OpRec, Index
  <2>3. PICK tm, vs : Log(tm, vs)
    BY DEF LogInv
  <2>4. Log(tm, vs)'
    BY <2>1, <2>3 DEF Log, Field, Versions, Width, FirstRecords, FirstElements, Cell, ReadLog,
                      WriteLog, NewVal, QueryLog, AnswerLog, Wrap
  <2>5. Settled' <=> Settled
    BY <2>1 DEF Settled
  <2>6. \E a, b : Log(a, b)'
    BY <2>4
  <2> QED
    BY <2>1, <2>2, <2>5, <2>6 DEF LogInv
<1> QED
  BY <1>1, <1>2, <1>3 DEF Next, Terminated

(* zk_ram.h:19-24 says that shuffle 2 "pins each read to the most recent   *)
(* write".  It does, whatever contents, times and versions a prover         *)
(* commits to, where the width of a time is at least 2 T: each access of an *)
(* accepted run is to a cell and returns what was written there last.       *)
THEOREM PinsToLatestWrite == Spec => []ReadsLatest
<1>1. LogInv => ReadsLatest
  <2> SUFFICES ASSUME LogInv, Width >= 2 * T, kind = "ram", verdict = "accepted"
               PROVE  IsPlainMemory
    BY DEF ReadsLatest, MemoryIsPlain
  <2>1. PICK tm, vs : Log(tm, vs)
    BY DEF LogInv
  <2> QED
    BY <2>1, PlainMemory DEF LogInv
<1> QED
  BY LogStart, LogStep, <1>1, PTL DEF Spec
=============================================================================
