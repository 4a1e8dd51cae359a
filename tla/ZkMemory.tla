------------------------------- MODULE ZkMemory -------------------------------
(***************************************************************************)
(* The memories of the boolean protocol: ZKRam / ZKROM (zk_ram.h) and the  *)
(* set with membership queries they use (zk_set.h), over the permutation   *)
(* proof (zk_perm_proof.h).                                                *)
(*                                                                         *)
(* The two parties make the same accesses; what the prover commits to      *)
(* besides (old contents, old times, versions) is hers to choose.  An      *)
(* honest prover takes them from her own copy of the memory.  The          *)
(* permutation proof says whether two multisets of records are equal, so   *)
(* that all that counts of them is their difference.  Fields have the      *)
(* width the code gives them and wrap around.                              *)
(***************************************************************************)
EXTENDS Integers, Sequences, FiniteSets

CONSTANTS
  Ts,          \* values of T: the most accesses announced, the set {1 .. T}
  n,           \* number of cells
  MaxIndex,    \* largest index that index_sz bits hold
  Val,         \* contents of a cell
  Kinds,       \* "ram", "rom"
  MaxAccesses  \* accesses before check() (bound of the model)

ASSUME TsAssumption    == Ts \subseteq Nat \ {0}
ASSUME CellsAssumption == n \in Nat \ {0} /\ MaxIndex \in Nat /\ n - 1 <= MaxIndex
ASSUME ValAssumption   == Val # {} /\ Val \subseteq Nat
ASSUME KindsAssumption == Kinds \subseteq {"ram", "rom"}

Cell  == 0 .. n - 1
Index == 0 .. MaxIndex

\* ramzk_bits_for(): the bits that hold 0 .. hi.
ramzk_bits_for(hi) == CHOOSE b \in 1 .. hi + 1 : 2 ^ b > hi /\ (b = 1 \/ 2 ^ (b - 1) <= hi)

\* The provers know nothing of powers; TLC evaluates this on the values of T it
\* is given.
ASSUME BitsAssumption ==
  \A t \in Ts : 2 ^ ramzk_bits_for(t) \in Nat /\ 2 ^ ramzk_bits_for(t) > t

VARIABLES
  T,        \* accesses announced
  kind,     \* "ram", or "rom" (read_only)
  content,  \* the initial contents
  clock,    \* accesses so far, plus one
  mem,      \* ALICE's copy: the contents
  last_t,   \* ALICE's copy: times of the last writes
  ver,      \* ALICE's copy: versions of the set's elements
  perm,     \* shuffle 1: how many more reads than writes of <<value, index, time>>
  diffs,    \* shuffle 2: the same of <<element, version>>
  ops,      \* the accesses and what they returned
  honest,   \* ALICE has committed to what her copy says
  verdict   \* "open", "accepted", "rejected"

vars == <<T, kind, content, clock, mem, last_t, ver, perm, diffs, ops, honest, verdict>>

\* A field of time_sz (= elem_sz, ver_sz) bits.
Width   == 2 ^ ramzk_bits_for(T)
Field   == 0 .. Width - 1
Wrap(x) == x % Width

\* One more read, or write, of a record.
Count(bag, r, k) ==
  LET c == (IF r \in DOMAIN bag THEN bag[r] ELSE 0) + k
      others == DOMAIN bag \ {r}
  IN  IF c = 0 THEN [x \in others |-> bag[x]]
      ELSE [x \in others \cup {r} |-> IF x = r THEN c ELSE bag[x]]
AddA(bag, r) == Count(bag, r, 1)
AddB(bag, r) == Count(bag, r, -1)

\* What check() must read to make both lists equal.
Unread(records) == [r \in records |-> -1]

Init ==
  /\ T \in Ts /\ kind \in Kinds
  /\ content \in [Cell -> Val]
  /\ clock = 1
  /\ mem = content /\ last_t = [i \in Cell |-> 0]
  /\ ver = [e \in 0 .. T |-> 0]
  /\ perm = Unread({<<content[i], i, 0>> : i \in Cell})
  /\ diffs = IF kind = "ram" THEN Unread({<<e, 0>> : e \in 1 .. T}) ELSE << >>
  /\ ops = << >> /\ honest = TRUE /\ verdict = "open"

\* prove_member(): reads version vv of the element and writes the next one.
Queries(e, vv) == AddB(AddA(diffs, <<e, vv>>), <<e, Wrap(vv + 1)>>)

\* Mutant: an access does not prove that the time it reads lies in the past.
access_unproved(op, i, value, old, time_old, vv) ==
  LET inRange == i < n
      newv    == IF op = "write" THEN value ELSE old
  IN  /\ perm' = AddB(AddA(perm, <<old, i, time_old>>), <<newv, i, Wrap(clock)>>)
      /\ honest' = (honest /\ inRange
                    /\ (inRange => old = mem[i] /\ time_old = Wrap(last_t[i])))
      /\ mem' = IF inRange /\ op = "write" THEN [mem EXCEPT ![i] = value] ELSE mem
      /\ last_t' = IF inRange THEN [last_t EXCEPT ![i] = clock] ELSE last_t
      /\ ops' = Append(ops, [op |-> op, i |-> i, val |-> value, ret |-> old])
      /\ clock' = clock + 1
      /\ UNCHANGED <<diffs, ver>>

\* Mutant: ALICE's copy keeps the time of the last write only, although a read
\* writes its record back too.
access_read_untimed(op, i, value, old, time_old, vv) ==
  LET inRange == i < n
      diff    == Wrap(clock - time_old)
      newv    == IF op = "write" THEN value ELSE old
  IN  /\ diffs' = IF kind = "ram" THEN Queries(diff, vv) ELSE diffs
      /\ perm' = AddB(AddA(perm, <<old, i, time_old>>), <<newv, i, Wrap(clock)>>)
      /\ honest' = (honest /\ inRange
                    /\ (inRange => old = mem[i] /\ time_old = Wrap(last_t[i]))
                    /\ (kind = "ram" => diff \in DOMAIN ver /\ vv = Wrap(ver[diff])))
      /\ mem' = IF inRange /\ op = "write" THEN [mem EXCEPT ![i] = value] ELSE mem
      /\ last_t' = IF inRange /\ op = "write" THEN [last_t EXCEPT ![i] = clock] ELSE last_t
      /\ ver' = IF kind = "ram" /\ diff \in DOMAIN ver THEN [ver EXCEPT ![diff] = @ + 1] ELSE ver
      /\ ops' = Append(ops, [op |-> op, i |-> i, val |-> value, ret |-> old])
      /\ clock' = clock + 1

\* access_(): the old contents and their time, committed by the prover; the
\* query that the time lies in the past (read/write memory only); a read of the
\* old record and a write of the new one at the clock's time.
access_(op, i, value, old, time_old, vv) ==
  LET inRange == i < n
      diff    == Wrap(clock - time_old)
      newv    == IF op = "write" THEN value ELSE old
  IN  /\ diffs' = IF kind = "ram" THEN Queries(diff, vv) ELSE diffs
      /\ perm' = AddB(AddA(perm, <<old, i, time_old>>), <<newv, i, Wrap(clock)>>)
      /\ honest' = (honest /\ inRange
                    /\ (inRange => old = mem[i] /\ time_old = Wrap(last_t[i]))
                    /\ (kind = "ram" => diff \in DOMAIN ver /\ vv = Wrap(ver[diff])))
      /\ mem' = IF inRange /\ op = "write" THEN [mem EXCEPT ![i] = value] ELSE mem
      /\ last_t' = IF inRange THEN [last_t EXCEPT ![i] = clock] ELSE last_t
      /\ ver' = IF kind = "ram" /\ diff \in DOMAIN ver THEN [ver EXCEPT ![diff] = @ + 1] ELSE ver
      /\ ops' = Append(ops, [op |-> op, i |-> i, val |-> value, ret |-> old])
      /\ clock' = clock + 1

Versions == IF kind = "ram" THEN Field ELSE {0}

\* read(), and write() where it is legal.
Access ==
  /\ verdict = "open" /\ clock <= MaxAccesses /\ clock <= T
  /\ \E i \in Index, old \in Val, time_old \in Field, vv \in Versions :
       \/ access_("read", i, old, old, time_old, vv)
       \/ kind = "ram" /\ \E value \in Val : access_("write", i, value, old, time_old, vv)
  /\ UNCHANGED <<T, kind, content, verdict>>

\* One record per key is left to read, each once: some final contents, times
\* and versions make the lists equal.  at is the key's place in a record.
Closable(bag, keys, at) ==
  /\ \A r \in DOMAIN bag : bag[r] = -1 /\ r[at] \in keys
  /\ \A k \in keys : Cardinality({r \in DOMAIN bag : r[at] = k}) = 1

\* check(): reads the final state of every cell and of every element of the
\* set; the permutation proofs decide.  An honest prover reads from her copy.
CheckHonest ==
  /\ honest
  /\ verdict' =
       IF /\ perm = Unread({<<mem[i], i, Wrap(last_t[i])>> : i \in Cell})
          /\ kind = "ram" => diffs = Unread({<<e, Wrap(ver[e])>> : e \in 1 .. T})
       THEN "accepted" ELSE "rejected"
  /\ UNCHANGED honest

CheckAny ==
  /\ verdict' =
       IF /\ Closable(perm, Cell, 2)
          /\ kind = "ram" => Closable(diffs, 1 .. T, 1)
       THEN "accepted" ELSE "rejected"
  /\ honest' = FALSE

Check ==
  /\ verdict = "open"
  /\ CheckHonest \/ CheckAny
  /\ UNCHANGED <<T, kind, content, clock, mem, last_t, ver, perm, diffs, ops>>

Terminated == verdict # "open" /\ UNCHANGED vars

Next == Access \/ Check \/ Terminated

Spec == Init /\ [][Next]_vars

-----------------------------------------------------------------------------
(* Properties.                                                             *)

\* What a plain memory returns for the j-th access.
WritesBefore(j, i) == {w \in 1 .. j - 1 : ops[w].op = "write" /\ ops[w].i = i}
Latest(j) ==
  LET i  == ops[j].i
      ws == WritesBefore(j, i)
  IN  IF ws = {} THEN content[i] ELSE ops[CHOOSE w \in ws : \A u \in ws : u <= w].val

\* The memory is one: each access is to a cell and returns what was written
\* there last.
IsPlainMemory == \A j \in DOMAIN ops : ops[j].i \in Cell /\ ops[j].ret = Latest(j)

\* What zk_ram.h:19-24 says of a read/write memory whose proof the verifier
\* accepts, whatever contents, times and versions the prover committed to:
\* "shuffle 2: clock - t in {1, ..., T} (that write happened in the past)", which
\* "pins each read to the most recent write".
MemoryIsPlain == kind = "ram" /\ verdict = "accepted" => IsPlainMemory

\* The same where the times have room for it: a time yet to come must not give a
\* difference in 1 .. T again once it has wrapped around (T a power of two).
ReadsLatest == Width >= 2 * T => MemoryIsPlain

\* A prover that commits to her copy's contents, times and versions passes, up
\* to the T accesses announced: no field is too narrow for an honest run.
HonestAccepted == honest /\ verdict # "open" => verdict = "accepted"
=============================================================================
