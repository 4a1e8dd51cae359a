--------------------------- MODULE AbortGuardProofs ---------------------------
(***************************************************************************)
(* What the parties of AbortGuard learn of each other is true, for every   *)
(* number of parties, of crashes and of failing checks.                    *)
(***************************************************************************)
EXTENDS AbortGuard, TLAPS

USE PAssumption

Why     == {"alive", "ok", "aborted", "socket", "crashed", "peer_aborted", "peer_closed"}
Outcome == [why : Why, peer : Int]

TypeOK ==
  /\ main \in [Party -> {"run", "abort", "done", "returned"}]
  /\ next \in [Party -> Nat]
  /\ dog \in [Party -> {"poll", "scan", "leave", "ended"}]
  /\ pfds \in [Party -> SUBSET Party] /\ ready \in [Party -> SUBSET Party]
  /\ wire \in [Party -> [Party -> Seq({"DONE", "ABORT"})]]
  /\ verdict \in [Party -> Outcome] /\ exit \in [Party -> Outcome]
  /\ aborting \in [Party -> BOOLEAN]

\* One party's own state: who aborts, and what its threads have come to.
LocalOK ==
  \A i \in Party :
    /\ aborting[i] <=> main[i] = "abort"
    /\ main[i] = "run" => next[i] = 0
    /\ ready[i] \subseteq pfds[i] /\ i \notin pfds[i]
    /\ dog[i] = "ended" => aborting[i] \/ pfds[i] = {}
    /\ exit[i].why = "alive" => Running(i)
    /\ exit[i].why = "ok" => main[i] = "returned"
    /\ main[i] = "returned" => pfds[i] = {} /\ next[i] >= P
    /\ exit[i].why = "aborted" => main[i] = "abort" /\ next[i] >= P

Passed(j) == main[j] \in {"done", "returned"}

\* What j has sent i, and what i made of it.
SentOK ==
  \A i, j \in Party : i # j =>
    /\ next[j] <= i => wire[j][i] = << >>
    /\ j \notin pfds[i] => Passed(j) /\ next[j] > i
    /\ Passed(j) /\ next[j] > i =>
         wire[j][i] = IF j \in pfds[i] THEN <<"DONE">> ELSE << >>
    /\ main[j] = "abort" /\ next[j] > i =>
         wire[j][i] = <<"ABORT">> \/ (wire[j][i] = << >> /\ dog[i] \in {"leave", "ended"})

Disturbed == \E i \in Party : aborting[i] \/ exit[i].why = "crashed"
Blamed == {"peer_aborted", "peer_closed"}

\* A watchdog concludes only what is so, and only if something is wrong.
BlameOK ==
  \A i \in Party :
    /\ verdict[i].why \in Blamed \cup {"alive"}
    /\ dog[i] = "leave" => verdict[i].why \in Blamed
    /\ verdict[i].why \in Blamed => verdict[i].peer \in Party
    /\ verdict[i].why = "peer_aborted" => aborting[verdict[i].peer]
    /\ verdict[i].why = "peer_closed" =>
         exit[verdict[i].peer].why \notin {"alive", "ok", "aborted"}
    /\ exit[i].why \notin {"alive", "ok"} => Disturbed

IInv == TypeOK /\ LocalOK /\ SentOK /\ BlameOK

-----------------------------------------------------------------------------
LEMMA PartyIsNat == Party \subseteq Nat /\ -1 \notin Party /\ \A i \in Party : i < P
BY DEF Party

LEMMA InitInv == Init => IInv
<1> SUFFICES ASSUME Init PROVE IInv
  OBVIOUS
<1>1. TypeOK
  BY DEF Init, TypeOK, Peers, Alive, Ended, Outcome, Why
<1>2. LocalOK
  BY PartyIsNat DEF Init, LocalOK, Peers, Running, Alive, Ended
<1>3. SentOK
  BY PartyIsNat DEF Init, SentOK, Passed, Peers
<1>4. BlameOK
  BY DEF Init, BlameOK, Alive, Ended, Blamed
<1> QED
  BY <1>1, <1>2, <1>3, <1>4 DEF IInv

(* The main thread leaves "run": nothing is sent yet.                      *)
LEMMA FailStep ==
  ASSUME IInv, NEW i \in Party, Fail(i)
  PROVE  IInv'
<1> USE PartyIsNat DEF IInv, Fail
<1>1. TypeOK'
  BY SMTT(40), ZenonT(40) DEF TypeOK, FirstPeer
<1>2. LocalOK'
  BY DEF LocalOK, Running, TypeOK
<1>3. SentOK'
  BY SMTT(40), ZenonT(40), Z3T(40) DEF SentOK, LocalOK, TypeOK, Passed, FirstPeer
<1>4. BlameOK'
  BY DEF BlameOK, Disturbed, TypeOK
<1> QED
  BY <1>1, <1>2, <1>3, <1>4

LEMMA StopStep ==
  ASSUME IInv, NEW i \in Party, Stop(i)
  PROVE  IInv'
<1> USE PartyIsNat DEF IInv, Stop
<1>1. TypeOK'
  BY SMTT(40), ZenonT(40) DEF TypeOK, FirstPeer
<1>2. LocalOK'
  BY DEF LocalOK, Running, TypeOK
<1>3. SentOK'
  BY SMTT(40), ZenonT(40) DEF SentOK, LocalOK, TypeOK, Passed, FirstPeer
<1>4. BlameOK'
  BY DEF BlameOK, Disturbed, TypeOK
<1> QED
  BY <1>1, <1>2, <1>3, <1>4

(* fail() and stop() write to one peer after the other.                    *)
LEMMA SendStep ==
  ASSUME IInv, NEW i \in Party, NEW m,
         Send(i, m),
         (main[i] = "abort" /\ m = "ABORT") \/ (main[i] = "done" /\ m = "DONE"),
         UNCHANGED <<main, dog, pfds, ready, exit, aborting, verdict>>
  PROVE  IInv'
<1> USE PartyIsNat DEF IInv
<1>2. next[i] \in Nat /\ i \in Nat /\ i < P /\ m \in {"DONE", "ABORT"}
  BY DEF TypeOK
<1>3. next[i] \in Party
  BY <1>2, PAssumption DEF Send, Party
<1>4. PICK k \in Party : k = next[i]
  BY <1>3
<1>5. /\ wire' = [wire EXCEPT ![i][k] = Append(@, m)]
      /\ next' = [next EXCEPT ![i] = IF k + 1 = i THEN k + 2 ELSE k + 1]
  <2>1. k \in Nat
    OBVIOUS
  <2>2. FirstPeer(i, k + 1) = IF k + 1 = i THEN k + 2 ELSE k + 1
    BY <2>1 DEF FirstPeer
  <2> QED
    BY <1>4, <2>2 DEF Send
<1>6. TypeOK'
  <2>1. next' \in [Party -> Nat]
    BY <1>5 DEF TypeOK
  <2>2. wire' \in [Party -> [Party -> Seq({"DONE", "ABORT"})]]
    BY <1>5, <1>2, SMTT(40), ZenonT(40) DEF TypeOK
  <2> QED
    BY <2>1, <2>2 DEF TypeOK
<1>7. LocalOK'
  <2> SUFFICES ASSUME NEW a \in Party
               PROVE  /\ main[a] = "run" => next'[a] = 0
                      /\ main[a] = "returned" => next'[a] >= P
                      /\ exit[a].why = "aborted" => next'[a] >= P
    BY DEF LocalOK, Running
  <2>1. CASE a # i
    BY <2>1, <1>5, ZenonT(60), SMTT(40) DEF LocalOK, TypeOK
  <2>2. CASE a = i
    <3>1. main[i] \notin {"run", "returned"} /\ k < P
      OBVIOUS
    <3>2. exit[i].why # "aborted"
      BY <3>1, <1>4 DEF LocalOK
    <3> QED
      BY <3>1, <3>2, <2>2
  <2> QED
    BY <2>1, <2>2
<1>8. SentOK'
  <2> SUFFICES ASSUME NEW a \in Party, NEW b \in Party, a # b
               PROVE  /\ next'[b] <= a => wire'[b][a] = << >>
                      /\ b \notin pfds[a] => Passed(b) /\ next'[b] > a
                      /\ Passed(b) /\ next'[b] > a =>
                           wire'[b][a] = IF b \in pfds[a] THEN <<"DONE">> ELSE << >>
                      /\ main[b] = "abort" /\ next'[b] > a =>
                           \/ wire'[b][a] = <<"ABORT">>
                           \/ wire'[b][a] = << >> /\ dog[a] \in {"leave", "ended"}
    BY DEF SentOK, Passed
  <2>0. /\ a \in Nat /\ k \in Nat /\ i \in Nat /\ next[b] \in Nat
        /\ (next[b] <= a => wire[b][a] = << >>)
        /\ (b \notin pfds[a] => Passed(b) /\ next[b] > a)
        /\ (Passed(b) /\ next[b] > a =>
              wire[b][a] = IF b \in pfds[a] THEN <<"DONE">> ELSE << >>)
        /\ (main[b] = "abort" /\ next[b] > a =>
              wire[b][a] = <<"ABORT">> \/ (wire[b][a] = << >> /\ dog[a] \in {"leave", "ended"}))
    BY DEF SentOK, TypeOK
  <2>1. CASE b # i
    <3>1. next'[b] = next[b] /\ wire'[b] = wire[b]
      BY <2>1, <1>5 DEF TypeOK
    <3> QED
      BY <3>1, <2>0
  <2>2. CASE b = i /\ a # k
    <3>1. next'[b] = (IF k + 1 = i THEN k + 2 ELSE k + 1) /\ wire'[b][a] = wire[b][a]
      BY <2>2, <1>5 DEF TypeOK
    <3>2. next'[b] > a <=> next[b] > a
      BY <3>1, <2>2, <2>0, <1>4
    <3>3. next'[b] \in Nat
      BY <3>1, <2>0
    <3> QED
      BY <3>1, <3>2, <3>3, <2>0
  <2>3. CASE b = i /\ a = k
    <3>1. next'[b] = (IF k + 1 = i THEN k + 2 ELSE k + 1) /\ wire'[b][a] = Append(wire[b][a], m)
      BY <2>3, <1>5 DEF TypeOK
    <3>2. next'[b] > a /\ next[b] = a /\ next'[b] \in Nat
      BY <3>1, <2>3, <2>0, <1>4
    <3>3. wire[b][a] = << >> /\ b \in pfds[a]
      BY <3>2, <2>0
    <3>4. wire'[b][a] = <<m>>
      BY <3>1, <3>3
    <3> QED
      BY <3>2, <3>3, <3>4, <2>3 DEF Passed
  <2> QED
    BY <2>1, <2>2, <2>3
<1>9. BlameOK'
  BY DEF BlameOK, Disturbed, TypeOK
<1> QED
  BY <1>6, <1>7, <1>8, <1>9

(* The process ends, for a reason that is so.                              *)
LEMMA ExitStep ==
  ASSUME IInv, NEW i \in Party, Running(i), NEW why \in Why \ {"alive", "ok"}, NEW j \in Int,
         Exit(i, why, j), why = "aborted" => main[i] = "abort" /\ next[i] >= P,
         Disturbed \/ why = "crashed",
         UNCHANGED <<main, next, dog, pfds, ready, wire, aborting, verdict>>
  PROVE  IInv'
<1> USE PartyIsNat DEF IInv
<1>1. exit' = [exit EXCEPT ![i] = [why |-> why, peer |-> j]] /\ exit[i].why = "alive"
  BY DEF Exit, Ended, Running, Alive
<1>2. TypeOK'
  BY <1>1, SMTT(40), ZenonT(40) DEF TypeOK, Outcome
<1>3. LocalOK'
  BY <1>1 DEF LocalOK, Running, TypeOK, Alive, Ended
<1>4. SentOK'
  BY DEF SentOK, Passed
<1>5. Disturbed'
  BY <1>1 DEF Disturbed, TypeOK
<1>6. BlameOK'
  BY <1>1, <1>5 DEF BlameOK, TypeOK, Blamed
<1> QED
  BY <1>2, <1>3, <1>4, <1>6

(* stop() returns.                                                         *)
LEMMA ReturnStep ==
  ASSUME IInv, NEW i \in Party, Return(i)
  PROVE  IInv'
<1> USE PartyIsNat DEF IInv, Return
<1>1. exit' = [exit EXCEPT ![i] = [why |-> "ok", peer |-> -1]] /\ exit[i].why = "alive"
  BY DEF Exit, Ended, Running, Alive
<1>2. TypeOK'
  <2>1. exit' \in [Party -> Outcome]
    <3>1. exit \in [Party -> Outcome] /\ [why |-> "ok", peer |-> -1] \in Outcome
      BY DEF TypeOK, Outcome, Why
    <3> QED
      BY ONLY <1>1, <3>1
  <2>2. main' \in [Party -> {"run", "abort", "done", "returned"}]
    <3>1. main \in [Party -> {"run", "abort", "done", "returned"}]
      BY DEF TypeOK
    <3> QED
      BY <3>1
  <2>3. UNCHANGED <<next, dog, pfds, ready, wire, aborting, verdict>>
    OBVIOUS
  <2> QED
    BY <2>1, <2>2, <2>3 DEF TypeOK
<1>3. LocalOK'
  BY <1>1 DEF LocalOK, Running, TypeOK, Alive, Ended
<1>4. SentOK'
  BY SMTT(40), ZenonT(40), Z3T(40) DEF SentOK, Passed, TypeOK
<1>5. Disturbed => Disturbed'
  BY <1>1 DEF Disturbed, TypeOK
<1>6. BlameOK'
  BY <1>1, <1>5 DEF BlameOK, TypeOK, Blamed
<1> QED
  BY <1>2, <1>3, <1>4, <1>6

-----------------------------------------------------------------------------
(* The watchdog.                                                           *)

LEMMA ScanStep ==
  ASSUME IInv, NEW i \in Party, dog[i] \in {"poll", "scan"},
         NEW d \in {"poll", "scan", "ended"}, NEW R \in SUBSET pfds[i],
         d = "ended" => pfds[i] = {},
         dog' = [dog EXCEPT ![i] = d], ready' = [ready EXCEPT ![i] = R],
         UNCHANGED <<main, next, pfds, wire, exit, aborting, verdict>>
  PROVE  IInv'
<1> USE PartyIsNat DEF IInv
<1>1. TypeOK'
  BY DEF TypeOK
<1>2. LocalOK'
  BY ZenonT(60), SMTT(40) DEF LocalOK, Running, TypeOK
<1>3. SentOK'
  BY SMTT(40), ZenonT(40) DEF SentOK, TypeOK, Passed
<1>4. BlameOK'
  BY SMTT(40), ZenonT(40) DEF BlameOK, Disturbed, TypeOK
<1> QED
  BY <1>1, <1>2, <1>3, <1>4

LEMMA PollStep ==
  ASSUME IInv, NEW i \in Party, Poll(i)
  PROVE  IInv'
<1> USE DEF IInv
<1>1. CASE pfds[i] = {}
  <2>1. ready' = [ready EXCEPT ![i] = {}]
    BY <1>1 DEF Poll, TypeOK, LocalOK
  <2>2. dog' = [dog EXCEPT ![i] = "ended"]
    BY <1>1 DEF Poll
  <2> QED
    BY <1>1, <2>1, <2>2, ScanStep DEF Poll
<1>2. CASE pfds[i] # {}
  <2>1. ready' = [ready EXCEPT ![i] = {j \in pfds[i] : Readable(i, j)}]
    BY <1>2 DEF Poll
  <2>2. dog' = [dog EXCEPT ![i] = "scan"]
    BY <1>2 DEF Poll
  <2>3. {j \in pfds[i] : Readable(i, j)} \in SUBSET pfds[i]
    OBVIOUS
  <2> QED
    BY <2>1, <2>2, <2>3, ScanStep DEF Poll
<1> QED
  BY <1>1, <1>2

LEMMA EndScanStep ==
  ASSUME IInv, NEW i \in Party, EndScan(i)
  PROVE  IInv'
<1>1. ready' = [ready EXCEPT ![i] = {}]
  BY DEF EndScan, IInv, TypeOK
<1> QED
  BY <1>1, ScanStep DEF EndScan

LEMMA ReadDoneStep ==
  ASSUME IInv, NEW i \in Party, NEW j \in Peers(i), ReadDone(i, j)
  PROVE  IInv'
<1> USE PartyIsNat DEF IInv
<1>1. /\ j \in Party /\ i # j /\ j \in pfds[i]
      /\ wire[j][i] # << >> /\ Head(wire[j][i]) = "DONE"
      /\ wire' = [wire EXCEPT ![j][i] = Tail(@)]
      /\ pfds' = [pfds EXCEPT ![i] = @ \ {j}]
      /\ ready' = [ready EXCEPT ![i] = @ \ {j}]
      /\ UNCHANGED <<main, next, dog, exit, aborting, verdict>>
  BY DEF ReadDone, NextReady, Peers, LocalOK
<1>2. next[j] > i /\ main[j] # "run"
  BY <1>1 DEF SentOK, LocalOK, TypeOK
<1>3. Passed(j) /\ wire[j][i] = <<"DONE">>
  <2>1. Passed(j)
    BY <1>1, <1>2 DEF SentOK, TypeOK, Passed
  <2>2. next[j] > i /\ j \in pfds[i] /\ i \in Party /\ j \in Party /\ i # j
    BY <1>1, <1>2
  <2>3. wire[j][i] = IF j \in pfds[i] THEN <<"DONE">> ELSE << >>
    BY <2>1, <2>2, Zenon DEF SentOK
  <2> QED
    BY <2>1, <2>2, <2>3
<1>4. wire'[j][i] = << >>
  BY <1>1, <1>3 DEF TypeOK
<1>5. TypeOK'
  <2>1. wire' \in [Party -> [Party -> Seq({"DONE", "ABORT"})]]
    BY <1>1, <1>4 DEF TypeOK
  <2> QED
    BY <1>1, <2>1 DEF TypeOK
<1>6. LocalOK'
  BY <1>1, ZenonT(60), SMTT(40) DEF LocalOK, Running, TypeOK
<1>7. SentOK'
  <2> SUFFICES ASSUME NEW a \in Party, NEW b \in Party, a # b
               PROVE  /\ next[b] <= a => wire'[b][a] = << >>
                      /\ b \notin pfds'[a] => Passed(b) /\ next[b] > a
                      /\ Passed(b) /\ next[b] > a =>
                           wire'[b][a] = IF b \in pfds'[a] THEN <<"DONE">> ELSE << >>
                      /\ main[b] = "abort" /\ next[b] > a =>
                           \/ wire'[b][a] = <<"ABORT">>
                           \/ wire'[b][a] = << >> /\ dog[a] \in {"leave", "ended"}
    BY <1>1 DEF SentOK, Passed
  <2>1. CASE a = i /\ b = j
    <3>1. b \notin pfds'[a]
      BY <2>1, <1>1 DEF TypeOK
    <3> QED
      BY <2>1, <3>1, <1>2, <1>3, <1>4 DEF Passed, TypeOK
  <2>2. CASE ~(a = i /\ b = j)
    <3>1. wire'[b][a] = wire[b][a] /\ (b \in pfds'[a] <=> b \in pfds[a])
      BY <2>2, <1>1 DEF TypeOK
    <3> QED
      BY <3>1 DEF SentOK
  <2> QED
    BY <2>1, <2>2
<1>8. BlameOK'
  BY <1>1 DEF BlameOK, Disturbed
<1> QED
  BY <1>5, <1>6, <1>7, <1>8

(* What the watchdog concludes is so when it reads it.                     *)
LEMMA ConcludeStep ==
  ASSUME IInv, NEW i \in Party, NEW j \in Party, NEW why, Conclude(i, why, j), dog[i] = "scan",
         \/ why = "peer_aborted" /\ aborting[j]
         \/ why = "peer_closed" /\ exit[j].why \notin {"alive", "ok", "aborted"},
         UNCHANGED <<main, next, pfds, ready, exit, aborting>>
  PROVE  /\ LocalOK' /\ BlameOK' /\ verdict' \in [Party -> Outcome]
         /\ dog' \in [Party -> {"poll", "scan", "leave", "ended"}]
         /\ \A a \in Party : dog[a] \in {"leave", "ended"} \/ a = i => dog'[a] \in {"leave", "ended"}
<1> USE PartyIsNat DEF IInv
<1>1. PICK d \in {"leave", "ended"}, v \in Outcome :
        /\ dog' = [dog EXCEPT ![i] = d] /\ verdict' = [verdict EXCEPT ![i] = v]
        /\ d = "ended" => aborting[i]
        /\ (d = "ended" /\ v = verdict[i]) \/ v = [why |-> why, peer |-> j]
  <2>1. CASE aborting[i]
    <3>1. verdict' = [verdict EXCEPT ![i] = verdict[i]] /\ verdict[i] \in Outcome
      BY <2>1 DEF Conclude, TypeOK
    <3> QED
      BY <2>1, <3>1 DEF Conclude
  <2>2. CASE ~aborting[i]
    <3>1. [why |-> why, peer |-> j] \in Outcome
      BY DEF Outcome, Why
    <3> QED
      BY <2>2, <3>1 DEF Conclude, Ended
  <2> QED
    BY <2>1, <2>2
<1>2. LocalOK'
  BY <1>1, ZenonT(60), SMTT(40) DEF LocalOK, Running, TypeOK
<1>3. verdict' \in [Party -> Outcome]
  BY <1>1 DEF TypeOK
<1>4. BlameOK'
  <2>1. v.why \in Blamed \cup {"alive"} /\ (v.why \in Blamed => v.peer \in Party)
    BY <1>1 DEF BlameOK, Blamed
  <2>2. v.why = "peer_aborted" => aborting[v.peer]
    BY <1>1 DEF BlameOK
  <2>3. v.why = "peer_closed" => exit[v.peer].why \notin {"alive", "ok", "aborted"}
    BY <1>1 DEF BlameOK
  <2>4. d = "leave" => v.why \in Blamed
    BY <1>1 DEF Blamed
  <2> SUFFICES ASSUME NEW a \in Party
               PROVE  /\ verdict'[a].why \in Blamed \cup {"alive"}
                      /\ dog'[a] = "leave" => verdict'[a].why \in Blamed
                      /\ verdict'[a].why \in Blamed => verdict'[a].peer \in Party
                      /\ verdict'[a].why = "peer_aborted" => aborting[verdict'[a].peer]
                      /\ verdict'[a].why = "peer_closed" =>
                           exit[verdict'[a].peer].why \notin {"alive", "ok", "aborted"}
    BY DEF BlameOK, Disturbed
  <2>5. CASE a = i
    <3>1. verdict'[a] = v /\ dog'[a] = d
      BY <2>5, <1>1 DEF TypeOK
    <3> QED
      BY <3>1, <2>1, <2>2, <2>3, <2>4
  <2>6. CASE a # i
    <3>1. verdict'[a] = verdict[a] /\ dog'[a] = dog[a]
      BY <2>6, <1>1 DEF TypeOK
    <3> QED
      BY <3>1 DEF BlameOK
  <2> QED
    BY <2>5, <2>6
<1>5. /\ dog' \in [Party -> {"poll", "scan", "leave", "ended"}]
      /\ \A a \in Party : dog[a] \in {"leave", "ended"} \/ a = i => dog'[a] \in {"leave", "ended"}
  BY <1>1 DEF TypeOK
<1> QED
  BY <1>2, <1>3, <1>4, <1>5

LEMMA ReadAbortStep ==
  ASSUME IInv, NEW i \in Party, NEW j \in Peers(i), ReadAbort(i, j)
  PROVE  IInv'
<1> USE PartyIsNat DEF IInv
<1>1. /\ j \in Party /\ i # j /\ dog[i] = "scan"
      /\ wire[j][i] # << >> /\ Head(wire[j][i]) = "ABORT"
      /\ wire' = [wire EXCEPT ![j][i] = Tail(@)]
      /\ UNCHANGED <<main, next, pfds, ready, exit, aborting>>
  BY DEF ReadAbort, Peers
<1>2. next[j] > i /\ main[j] # "run"
  BY <1>1 DEF SentOK, LocalOK, TypeOK
<1>3. ~Passed(j)
  BY <1>1, <1>2 DEF SentOK, Passed
<1>4. main[j] = "abort" /\ aborting[j] /\ wire[j][i] = <<"ABORT">>
  BY <1>1, <1>2, <1>3 DEF SentOK, Passed, LocalOK, TypeOK
<1>5. wire'[j][i] = << >>
  BY <1>1, <1>4 DEF TypeOK
<1>6. /\ LocalOK' /\ BlameOK' /\ verdict' \in [Party -> Outcome]
      /\ dog' \in [Party -> {"poll", "scan", "leave", "ended"}]
      /\ \A a \in Party : dog[a] \in {"leave", "ended"} \/ a = i => dog'[a] \in {"leave", "ended"}
  BY <1>1, <1>4, ConcludeStep DEF ReadAbort
<1>7. TypeOK'
  <2>1. wire' \in [Party -> [Party -> Seq({"DONE", "ABORT"})]]
    BY <1>1, <1>5 DEF TypeOK
  <2> QED
    BY <1>1, <1>6, <2>1 DEF TypeOK
<1>8. SentOK'
  <2> SUFFICES ASSUME NEW a \in Party, NEW b \in Party, a # b
               PROVE  /\ next[b] <= a => wire'[b][a] = << >>
                      /\ b \notin pfds[a] => Passed(b) /\ next[b] > a
                      /\ Passed(b) /\ next[b] > a =>
                           wire'[b][a] = IF b \in pfds[a] THEN <<"DONE">> ELSE << >>
                      /\ main[b] = "abort" /\ next[b] > a =>
                           \/ wire'[b][a] = <<"ABORT">>
                           \/ wire'[b][a] = << >> /\ dog'[a] \in {"leave", "ended"}
    BY <1>1 DEF SentOK, Passed
  <2>1. CASE a = i /\ b = j
    BY <2>1, <1>2, <1>3, <1>5, <1>6 DEF SentOK
  <2>2. CASE ~(a = i /\ b = j)
    <3>1. wire'[b][a] = wire[b][a]
      BY <2>2, <1>1 DEF TypeOK
    <3> QED
      BY <3>1, <1>6 DEF SentOK
  <2> QED
    BY <2>1, <2>2
<1> QED
  BY <1>6, <1>7, <1>8

(* A socket that is closed and empty belongs to one that neither finished  *)
(* nor completed its abort: DONE or ABORT would still be there to read.    *)
LEMMA ReadClosedStep ==
  ASSUME IInv, NEW i \in Party, NEW j \in Peers(i), ReadClosed(i, j)
  PROVE  IInv'
<1> USE PartyIsNat DEF IInv
<1>1. /\ j \in Party /\ i # j /\ dog[i] = "scan" /\ j \in pfds[i]
      /\ wire[j][i] = << >> /\ ~Running(j)
      /\ UNCHANGED <<main, next, pfds, ready, wire, exit, aborting>>
  BY DEF ReadClosed, NextReady, Closed, Peers, LocalOK
<1>2. exit[j].why # "alive"
  BY <1>1 DEF LocalOK
<1>3. ASSUME exit[j].why = "ok" PROVE FALSE
  <2>1. Passed(j) /\ next[j] > i
    BY <1>1, <1>3, PAssumption DEF LocalOK, Passed, TypeOK
  <2> QED
    BY <2>1, <1>1, SMTT(40), ZenonT(40) DEF SentOK
<1>4. ASSUME exit[j].why = "aborted" PROVE FALSE
  <2>1. main[j] = "abort" /\ next[j] > i
    BY <1>1, <1>4, PAssumption DEF LocalOK, TypeOK
  <2>2. <<"ABORT">> # << >>
    OBVIOUS
  <2>3. wire[j][i] = <<"ABORT">> \/ dog[i] \in {"leave", "ended"}
    BY <2>1, <1>1 DEF SentOK
  <2> QED
    BY <2>2, <2>3, <1>1
<1>5. /\ LocalOK' /\ BlameOK' /\ verdict' \in [Party -> Outcome]
      /\ dog' \in [Party -> {"poll", "scan", "leave", "ended"}]
      /\ \A a \in Party : dog[a] \in {"leave", "ended"} \/ a = i => dog'[a] \in {"leave", "ended"}
  BY <1>1, <1>2, <1>3, <1>4, ConcludeStep DEF ReadClosed
<1>6. TypeOK'
  BY <1>1, <1>5, SMTT(40), ZenonT(40) DEF TypeOK
<1>7. SentOK'
  BY <1>1, <1>5 DEF SentOK, Passed
<1> QED
  BY <1>5, <1>6, <1>7

-----------------------------------------------------------------------------
LEMMA LeaveStep ==
  ASSUME IInv, NEW i \in Party, Leave(i)
  PROVE  IInv'
<1> USE DEF IInv
<1>1. exit' = [exit EXCEPT ![i] = [why |-> verdict[i].why, peer |-> verdict[i].peer]]
  BY DEF Leave, Exit, Ended
<1>2. verdict[i] \in Outcome /\ verdict[i].why \in Blamed \cup {"alive"}
  BY DEF TypeOK, BlameOK
<1>3. Disturbed
  BY DEF Leave, BlameOK, Disturbed, Blamed
<1> QED
  BY <1>2, <1>3, ExitStep DEF Leave, Blamed, Why, Outcome, BlameOK

(* A socket error means that the peer's process has ended.  It has not     *)
(* returned: this party is still to pass.                                  *)
LEMMA SocketErrorStep ==
  ASSUME IInv, NEW i \in Party, SocketError(i)
  PROVE  IInv'
<1> USE DEF IInv
<1>1. PICK j \in Peers(i) : ~Running(j) /\ Exit(i, "socket", j)
  BY DEF SocketError
<1>2. j \in Party /\ i # j /\ main[i] = "run"
  BY DEF SocketError, Peers
<1>3. exit[j].why \notin {"alive", "ok"}
  BY <1>1, <1>2 DEF LocalOK, SentOK, Passed
<1>4. Disturbed
  BY <1>2, <1>3 DEF BlameOK
<1> QED
  BY <1>1, <1>2, <1>4, ExitStep DEF SocketError, Why, Party

LEMMA StepInv == IInv /\ [Next]_vars => IInv'
<1> SUFFICES ASSUME IInv, [Next]_vars PROVE IInv'
  OBVIOUS
<1>1. ASSUME NEW i \in Party, MainStep(i) PROVE IInv'
  <2>1. CASE SendAbort(i)
    BY <2>1, SendStep DEF SendAbort
  <2>2. CASE ExitAbort(i)
    <3>1. Disturbed
      BY <2>2 DEF ExitAbort, Disturbed, IInv, LocalOK
    <3> QED
      BY <2>2, <3>1, ExitStep DEF ExitAbort, Why
  <2>3. CASE SendDone(i)
    BY <2>3, SendStep DEF SendDone
  <2> QED
    BY <1>1, <2>1, <2>2, <2>3, ReturnStep DEF MainStep
<1>2. ASSUME NEW i \in Party, DogStep(i) PROVE IInv'
  BY <1>2, PollStep, EndScanStep, LeaveStep, ReadDoneStep, ReadAbortStep, ReadClosedStep
     DEF DogStep
<1>3. ASSUME NEW i \in Party, Crash(i) PROVE IInv'
  BY <1>3, ExitStep DEF Crash, Why
<1>4. CASE UNCHANGED vars
  BY <1>4 DEF vars, IInv, TypeOK, LocalOK, SentOK, BlameOK, Running, Passed, Disturbed
<1> QED
  BY <1>1, <1>2, <1>3, <1>4, FailStep, StopStep, SocketErrorStep DEF Next, Terminated

\* Every variable stays in its type, for every number of parties and crashes.
THEOREM TypeCorrect == Spec => []TypeOK
<1>1. IInv => TypeOK
  BY DEF IInv
<1> QED
  BY InitInv, StepInv, <1>1, PTL DEF Spec

\* finalize() returns on a party only when all the others have passed their
\* checks (abort.h:54-60), for every number of parties and of crashes.
THEOREM VerdictIsKnown == Spec => []VerdictKnown
<1>1. IInv => VerdictKnown
  <2> SUFFICES ASSUME IInv, NEW i \in Party, exit[i].why = "ok", NEW j \in Party
               PROVE  ~aborting[j] /\ main[j] # "run"
    BY DEF VerdictKnown
  <2>1. main[i] = "returned" /\ pfds[i] = {}
    BY DEF IInv, LocalOK
  <2>2. CASE j = i
    BY <2>1, <2>2 DEF IInv, LocalOK
  <2>3. CASE j # i
    <3>1. Passed(j)
      BY <2>1, <2>3 DEF IInv, SentOK
    <3> QED
      BY <3>1 DEF IInv, LocalOK, Passed
  <2> QED
    BY <2>2, <2>3
<1> QED
  BY InitInv, StepInv, <1>1, PTL DEF Spec

\* What a watchdog prints of a peer is so, and without a failed check or a crash
\* nobody exits because of a peer, for every number of parties and of crashes.
THEOREM BlameTrue == Spec => []BlameIsTrue
<1>1. IInv => BlameIsTrue
  BY DEF IInv, BlameOK, BlameIsTrue, Disturbed
<1> QED
  BY InitInv, StepInv, <1>1, PTL DEF Spec
=============================================================================
