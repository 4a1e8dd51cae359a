------------------------------ MODULE MvzkNVole ------------------------------
(***************************************************************************)
(* The n-party VOLE of the multi-verifier protocol (mvzk/nvole.h): setup   *)
(* and a sequence of extends, each ended by the exchange of fresh nonces   *)
(* (Auth::refill in mvzk/zk/auth.h, nonces() in mvzk/mesh.h).              *)
(*                                                                         *)
(* In every round the prover publishes one message to each verifier, and   *)
(* every pair of verifiers runs its two committed VOLEs back to back: a    *)
(* task of each one's thread pool, queued in the order of the peers' ids   *)
(* and run by at most peer_par threads.  A direction of a pair needs both  *)
(* tasks: what deadlock-freedom asks is that the tasks the pools choose to *)
(* run always include two of the same pair.                                *)
(*                                                                         *)
(* The committed VOLE itself (vole's CVoleFp) is external: a direction is  *)
(* an exchange in which the committer finishes first and the verifier, who *)
(* checks what the committer sent, after it.                               *)
(***************************************************************************)
EXTENDS MvzkVolePairs

meshVars == <<queued, running, step, secrets>>
kingVars == <<king, kround, kat, sent, relayed>>
vars == <<main, round, queued, running, step, secrets,
          king, kround, kat, sent, nonced, relayed>>

Init ==
  /\ main = [i \in Verifier |-> "wait"] /\ round = [i \in Verifier |-> 0]
  /\ queued = [i \in Verifier |-> {}] /\ running = [i \in Verifier |-> {}]
  /\ step = [i \in Verifier |-> [j \in Verifier |-> 0]]
  /\ secrets = [i \in Verifier |-> 0]
  /\ king = "publish" /\ kround = 0 /\ kat = 0
  /\ sent = [i \in Verifier |-> 0] /\ nonced = [i \in Verifier |-> 0]
  /\ relayed = [i \in Verifier |-> 0]

-----------------------------------------------------------------------------
(* The prover.                                                             *)

\* Serve verifier kat, then the next one; after the last, change to pc.
NextVerifier(pc) ==
  IF kat = n - 1 THEN king' = pc /\ kat' = 0 ELSE king' = king /\ kat' = kat + 1

\* setup(): the programming seed; extend_prover(): all commitments.
Publish ==
  /\ king = "publish"
  /\ sent' = [sent EXCEPT ![kat] = @ + 1]
  /\ NextVerifier("collect")
  /\ UNCHANGED <<main, round, meshVars, kround, nonced, relayed>>

\* nonces(): one from every verifier, in the order of their ids ...
Collect ==
  /\ king = "collect"
  /\ nonced[kat] > kround
  /\ NextVerifier("relay")
  /\ UNCHANGED <<main, round, meshVars, kround, sent, nonced, relayed>>

\* ... and the whole vector to each.
Relay ==
  /\ king = "relay"
  /\ relayed' = [relayed EXCEPT ![kat] = @ + 1]
  /\ NextVerifier(IF kround = Extends THEN "done" ELSE "publish")
  /\ kround' = IF kat = n - 1 /\ kround < Extends THEN kround + 1 ELSE kround
  /\ UNCHANGED <<main, round, meshVars, sent, nonced>>

-----------------------------------------------------------------------------
(* Verifier i.                                                             *)

\* The prover's message arrives; for_each_peer() queues one task per peer.
Receive(i) ==
  /\ main[i] = "wait"
  /\ sent[i] > round[i]
  /\ main' = [main EXCEPT ![i] = "mesh"]
  /\ queued' = [queued EXCEPT ![i] = Peers(i)]
  /\ UNCHANGED <<round, running, step, secrets, kingVars, nonced>>

\* Mutant: peers are served in ring order, as exchange_all() does.
RingNext(i, j) == j = CHOOSE k \in queued[i] :
  \A l \in queued[i] : (k + n - i) % n <= (l + n - i) % n

\* The pool runs its tasks in the order they were queued.
NextTask(i, j) == \A k \in queued[i] : j <= k

StartTask(i) ==
  /\ Cardinality(running[i]) < peer_par[i]
  /\ \E j \in queued[i] :
       /\ NextTask(i, j)
       /\ queued' = [queued EXCEPT ![i] = @ \ {j}]
       /\ running' = [running EXCEPT ![i] = @ \cup {j}]
  /\ UNCHANGED <<main, round, step, secrets, kingVars, nonced>>

\* Both directions of the round are done.
PairDone(i, j) == step[i][j] = 2 * round[i] + 1

\* Mutant: party 0 waits for itself to fill `secrets`.
SecretsWriterZero(i) == 0

\* One designated peer's commit_round() writes the values.
SecretsWriter(i) == IF i = 0 THEN 1 ELSE 0

Advance(i, j) ==
  /\ step' = [step EXCEPT ![i][j] = @ + 1]
  /\ running' = [running EXCEPT ![i] = IF PairDone(i, j) THEN @ \ {j} ELSE @]

\* commit_round(): with the peer's verify_round() of the same direction.
Commit(i, j) ==
  /\ j \in running[i] /\ Commits(i, j)
  /\ i \in running[j] /\ step[j][i] = step[i][j] /\ ~Commits(j, i)
  /\ Advance(i, j)
  /\ secrets' = IF j = SecretsWriter(i) THEN [secrets EXCEPT ![i] = round[i]] ELSE secrets
  /\ UNCHANGED <<main, round, queued, kingVars, nonced>>

\* verify_round(): done once the committer's hash has been checked.
Verify(i, j) ==
  /\ j \in running[i] /\ ~Commits(i, j)
  /\ step[j][i] > step[i][j]
  /\ Advance(i, j)
  /\ UNCHANGED <<main, round, queued, secrets, kingVars, nonced>>

\* All tasks are joined; the nonce goes to the prover.
EndMesh(i) ==
  /\ main[i] = "mesh"
  /\ queued[i] = {} /\ running[i] = {}
  /\ main' = [main EXCEPT ![i] = "nonces"]
  /\ nonced' = [nonced EXCEPT ![i] = @ + 1]
  /\ UNCHANGED <<round, meshVars, kingVars>>

\* The nonce vector arrives: the round is over.
EndRound(i) ==
  /\ main[i] = "nonces"
  /\ relayed[i] > round[i]
  /\ IF round[i] = Extends
     THEN main' = [main EXCEPT ![i] = "done"] /\ UNCHANGED round
     ELSE /\ main' = [main EXCEPT ![i] = "wait"]
          /\ round' = [round EXCEPT ![i] = @ + 1]
  /\ UNCHANGED <<meshVars, kingVars, nonced>>

-----------------------------------------------------------------------------
Terminated == AllDone /\ UNCHANGED vars

KingStep == Publish \/ Collect \/ Relay
MainStep(i) == Receive(i) \/ StartTask(i) \/ EndMesh(i) \/ EndRound(i)
PairStep(i, j) == Commit(i, j) \/ Verify(i, j)

Next ==
  \/ KingStep
  \/ \E i \in Verifier : MainStep(i)
  \/ \E i \in Verifier : \E j \in Verifier : PairStep(i, j)
  \/ Terminated

Spec == Init /\ [][Next]_vars

-----------------------------------------------------------------------------
(* Types.                                                                  *)

TypeOK ==
  /\ main \in [Verifier -> {"wait", "mesh", "nonces", "done"}]
  /\ round \in [Verifier -> 0 .. Extends]
  /\ queued \in [Verifier -> SUBSET Verifier]
  /\ running \in [Verifier -> SUBSET Verifier]
  /\ step \in [Verifier -> [Verifier -> Nat]]
  /\ secrets \in [Verifier -> Nat]
  /\ king \in {"publish", "collect", "relay", "done"}
  /\ kround \in 0 .. Extends /\ kat \in Verifier
  /\ sent \in [Verifier -> Nat] /\ nonced \in [Verifier -> Nat]
  /\ relayed \in [Verifier -> Nat]

-----------------------------------------------------------------------------
(* The inductive invariant behind PairsGoOn.                                 *)

\* Peers whose task of this round is not done.
Unfinished(i) == queued[i] \cup running[i]

TasksWellFormed ==
  \A i \in Verifier :
    /\ queued[i] \subseteq Peers(i) /\ running[i] \subseteq Peers(i)
    /\ queued[i] \cap running[i] = {}
    /\ main[i] # "mesh" => Unfinished(i) = {}

\* Tasks start in the order of the peers' ids.
TasksOrdered ==
  \A i \in Verifier : \A j \in queued[i] : \A k \in Peers(i) : k > j => k \in queued[i]

StepsOfRound ==
  \A i \in Verifier : \A j \in Peers(i) :
    /\ main[i] = "wait" \/ j \in queued[i] => step[i][j] = 2 * round[i]
    /\ j \in running[i] => step[i][j] \in {2 * round[i], 2 * round[i] + 1}
    /\ main[i] # "wait" /\ j \notin Unfinished(i) => step[i][j] = 2 * round[i] + 2

\* The two ends of a pair differ by one direction at most, in which the one
\* behind verifies.
CommitterAhead ==
  \A i \in Verifier : \A j \in Peers(i) :
    step[i][j] > step[j][i] => step[i][j] = step[j][i] + 1 /\ ~Commits(j, i)

KingInStep ==
  /\ \A i \in Verifier :
       /\ sent[i] = IF king # "publish" \/ i < kat THEN kround + 1 ELSE kround
       /\ relayed[i] = IF king = "done" \/ (king = "relay" /\ i < kat)
                       THEN kround + 1 ELSE kround
       /\ nonced[i] = IF main[i] \in {"nonces", "done"} THEN round[i] + 1 ELSE round[i]
       /\ main[i] \in {"wait", "mesh"} => relayed[i] = round[i]
       /\ main[i] = "nonces" => relayed[i] \in {round[i], round[i] + 1}
       /\ main[i] = "done" => relayed[i] = round[i] + 1 /\ round[i] = Extends
       /\ main[i] = "mesh" => sent[i] > round[i]
       /\ king = "relay" \/ (king = "collect" /\ i < kat) => nonced[i] > kround
  /\ king = "done" => kround = Extends /\ kat = 0

IInv ==
  /\ TypeOK
  /\ TasksWellFormed
  /\ TasksOrdered
  /\ StepsOfRound
  /\ CommitterAhead
  /\ KingInStep
=============================================================================
