---------------------------- MODULE MvzkVolePairs ----------------------------
(***************************************************************************)
(* What the prover and the verifiers of the n-party VOLE keep, and what a  *)
(* run of it promises them.  MvzkNVole holds its steps.                    *)
(***************************************************************************)
EXTENDS MvzkParties, FiniteSets

CONSTANTS
  peer_par,  \* peer_par[i]: peers verifier i serves concurrently
  Extends    \* extends after the setup (bound of the model)

ASSUME PeerParAssumption == peer_par \in [Verifier -> Nat \ {0}]
ASSUME ExtendsAssumption == Extends \in Nat

VARIABLES
  main,     \* verifier's main thread: "wait", "mesh", "nonces", "done"
  round,    \* round it is in: 0 is the setup
  queued,   \* queued[i]: peers whose task has not started
  running,  \* running[i]: peers whose task is in progress
  step,     \* step[i][j]: directions verifier i has completed with peer j
  secrets,  \* secrets[i]: the last round whose values u^i were written out
  king,     \* the prover: "publish", "collect", "relay", "done"
  kround,   \* the round it is in
  kat,      \* the verifier it serves next
  sent,     \* sent[i]: rounds it has published to verifier i
  nonced,   \* nonced[i]: nonces verifier i has sent
  relayed   \* relayed[i]: nonce vectors the prover has sent to verifier i

\* setup_with(), extend_with(): the lower id of a pair verifies first.
Commits(i, j) == step[i][j] % 2 = 0 <=> i > j

-----------------------------------------------------------------------------
(* Properties.                                                             *)

AllDone == king = "done" /\ \A i \in Verifier : main[i] = "done"

\* No state of the protocol is stuck, whatever number of peers each verifier
\* serves at a time: some thread of some party can go on ("every pair is
\* independent", nvole.h:22-25; peer_par may be as small as 1).
CanStep ==
  \/ king \in {"publish", "relay"}
  \/ king = "collect" /\ nonced[kat] > kround
  \/ \E i \in Verifier :
       \/ main[i] = "wait" /\ sent[i] > round[i]
       \/ queued[i] # {} /\ Cardinality(running[i]) < peer_par[i]
       \/ \E j \in running[i] :
            \/ /\ Commits(i, j) /\ ~Commits(j, i)
               /\ i \in running[j] /\ step[j][i] = step[i][j]
            \/ ~Commits(i, j) /\ step[j][i] > step[i][j]
       \/ main[i] = "mesh" /\ queued[i] = {} /\ running[i] = {}
       \/ main[i] = "nonces" /\ relayed[i] > round[i]

PairsGoOn == AllDone \/ CanStep

\* The values u^i an extend returns were written in that extend, and before the
\* futures of its tasks were joined.
SecretsFilled ==
  \A i \in Verifier : main[i] \in {"nonces", "done"} => secrets[i] = round[i]
=============================================================================
