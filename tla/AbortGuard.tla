----------------------------- MODULE AbortGuard -----------------------------
(***************************************************************************)
(* Cooperative abort and joint completion of the multi-verifier protocol   *)
(* (mvzk/abort.h).  Every party runs its protocol on a main thread and     *)
(* watches one control socket per peer on a watchdog thread.  The main     *)
(* thread ends in fail() (a check failed: ABORT to every peer, exit) or in *)
(* stop() (DONE to every peer, wait for the watchdog); the watchdog ends   *)
(* the whole process when a peer aborted, or closed its socket before DONE.*)
(*                                                                         *)
(* Control sockets deliver in order, and the end of a process is seen on   *)
(* each of its sockets after what it wrote there; nothing orders different *)
(* sockets.  A message cut off by the end of its sender counts as unsent:  *)
(* its reader takes both for a closed socket.                              *)
(***************************************************************************)
EXTENDS Integers, Sequences, FiniteSets

CONSTANTS
  P,          \* parties: n verifiers and the prover
  MaxCrashes  \* processes that die outside fail() and stop() (bound of the model)

Party == 0 .. P - 1

ASSUME PAssumption       == P \in Nat \ {0, 1}
ASSUME CrashesAssumption == MaxCrashes \in Nat

VARIABLES
  main,      \* main thread: "run", "abort", "done", "returned"
  next,      \* the peer fail() or stop() writes to next
  dog,       \* watchdog: "poll", "scan", "leave", "ended"
  pfds,      \* peers whose control socket it watches
  ready,     \* peers poll() reported, still to be read in this scan
  wire,      \* wire[i][j]: messages from i that j has not read
  verdict,   \* what a watchdog in "leave" prints before it ends the process
  exit,      \* how the process ended: [why, peer], or Alive
  aborting,  \* set by fail()
  crashes    \* processes that have crashed

vars == <<main, next, dog, pfds, ready, wire, verdict, exit, aborting, crashes>>

Peers(i) == Party \ {i}
Ended(why, j) == [why |-> why, peer |-> j]
Alive == Ended("alive", -1)
Running(i) == exit[i] = Alive

Init ==
  /\ main = [i \in Party |-> "run"] /\ next = [i \in Party |-> 0]
  /\ dog = [i \in Party |-> "poll"]
  /\ pfds = [i \in Party |-> Peers(i)] /\ ready = [i \in Party |-> {}]
  /\ wire = [i \in Party |-> [j \in Party |-> << >>]]
  /\ verdict = [i \in Party |-> Alive] /\ exit = [i \in Party |-> Alive]
  /\ aborting = [i \in Party |-> FALSE]
  /\ crashes = 0

Exit(i, why, j) == exit' = [exit EXCEPT ![i] = Ended(why, j)]

\* The first peer of i from j on, P if there is none.
FirstPeer(i, j) == IF j = i THEN j + 1 ELSE j

-----------------------------------------------------------------------------
(* Main thread.                                                            *)

\* A check fails: fail() is called.
Fail(i) ==
  /\ Running(i) /\ main[i] = "run"
  /\ aborting' = [aborting EXCEPT ![i] = TRUE]
  /\ main' = [main EXCEPT ![i] = "abort"]
  /\ next' = [next EXCEPT ![i] = FirstPeer(i, 0)]
  /\ UNCHANGED <<dog, pfds, ready, wire, exit, crashes, verdict>>

\* The protocol completed: stop() is called.
Stop(i) ==
  /\ Running(i) /\ main[i] = "run"
  /\ main' = [main EXCEPT ![i] = "done"]
  /\ next' = [next EXCEPT ![i] = FirstPeer(i, 0)]
  /\ UNCHANGED <<dog, pfds, ready, wire, exit, aborting, crashes, verdict>>

Send(i, m) ==
  /\ next[i] < P
  /\ wire' = [wire EXCEPT ![i][next[i]] = Append(@, m)]
  /\ next' = [next EXCEPT ![i] = FirstPeer(i, @ + 1)]

\* fail(): ABORT to every peer ...
SendAbort(i) ==
  /\ Running(i) /\ main[i] = "abort"
  /\ Send(i, "ABORT")
  /\ UNCHANGED <<main, dog, pfds, ready, exit, aborting, crashes, verdict>>

\* ... and _Exit(1).
ExitAbort(i) ==
  /\ Running(i) /\ main[i] = "abort" /\ next[i] >= P
  /\ Exit(i, "aborted", -1)
  /\ UNCHANGED <<main, next, dog, pfds, ready, wire, aborting, crashes, verdict>>

\* stop(): DONE to every peer ...
SendDone(i) ==
  /\ Running(i) /\ main[i] = "done"
  /\ Send(i, "DONE")
  /\ UNCHANGED <<main, dog, pfds, ready, exit, aborting, crashes, verdict>>

\* Mutant: stop() does not wait for the watchdog.
ReturnAtOnce(i) ==
  /\ Running(i) /\ main[i] = "done" /\ next[i] >= P
  /\ main' = [main EXCEPT ![i] = "returned"]
  /\ Exit(i, "ok", -1)
  /\ UNCHANGED <<next, dog, pfds, ready, wire, aborting, crashes, verdict>>

\* ... and the watchdog is joined; finalize() returns and the process ends.
Return(i) ==
  /\ Running(i) /\ main[i] = "done" /\ next[i] >= P
  /\ dog[i] = "ended"
  /\ main' = [main EXCEPT ![i] = "returned"]
  /\ Exit(i, "ok", -1)
  /\ UNCHANGED <<next, dog, pfds, ready, wire, aborting, crashes, verdict>>

\* A read or write on a data socket whose other end is gone: error().
SocketError(i) ==
  /\ Running(i) /\ main[i] = "run"
  /\ \E j \in Peers(i) : ~Running(j) /\ Exit(i, "socket", j)
  /\ UNCHANGED <<main, next, dog, pfds, ready, wire, aborting, crashes, verdict>>

\* The process dies.
Crash(i) ==
  /\ crashes < MaxCrashes
  /\ Running(i)
  /\ Exit(i, "crashed", -1)
  /\ crashes' = crashes + 1
  /\ UNCHANGED <<main, next, dog, pfds, ready, wire, aborting, verdict>>

-----------------------------------------------------------------------------
(* Watchdog thread: run().                                                 *)

\* What poll() reports: a message, or the end of the peer.
Readable(i, j) == wire[j][i] # << >> \/ ~Running(j)

Poll(i) ==
  /\ Running(i) /\ dog[i] = "poll"
  /\ IF pfds[i] = {}
     THEN dog' = [dog EXCEPT ![i] = "ended"] /\ UNCHANGED ready
     ELSE /\ \E j \in pfds[i] : Readable(i, j)
          /\ ready' = [ready EXCEPT ![i] = {j \in pfds[i] : Readable(i, j)}]
          /\ dog' = [dog EXCEPT ![i] = "scan"]
  /\ UNCHANGED <<main, next, pfds, wire, exit, aborting, crashes, verdict>>

\* The scan reads the reported sockets in the order of their parties.
NextReady(i, j) == j \in ready[i] /\ \A k \in ready[i] : j <= k

\* The watchdog of an aborting process ends; any other one will print its
\* verdict and _Exit(2).  The main thread may call fail() in between.
Conclude(i, why, j) ==
  IF aborting[i]
  THEN dog' = [dog EXCEPT ![i] = "ended"] /\ UNCHANGED verdict
  ELSE /\ dog' = [dog EXCEPT ![i] = "leave"]
       /\ verdict' = [verdict EXCEPT ![i] = Ended(why, j)]

\* Mutant: DONE leaves the peer on the watch list.
ReadDoneKeeps(i, j) ==
  /\ Running(i) /\ dog[i] = "scan" /\ NextReady(i, j)
  /\ wire[j][i] # << >> /\ Head(wire[j][i]) = "DONE"
  /\ wire' = [wire EXCEPT ![j][i] = Tail(@)]
  /\ ready' = [ready EXCEPT ![i] = @ \ {j}]
  /\ UNCHANGED <<main, next, dog, pfds, exit, aborting, crashes, verdict>>

\* DONE: the peer is not watched any longer.
ReadDone(i, j) ==
  /\ Running(i) /\ dog[i] = "scan" /\ NextReady(i, j)
  /\ wire[j][i] # << >> /\ Head(wire[j][i]) = "DONE"
  /\ wire' = [wire EXCEPT ![j][i] = Tail(@)]
  /\ pfds' = [pfds EXCEPT ![i] = @ \ {j}]
  /\ ready' = [ready EXCEPT ![i] = @ \ {j}]
  /\ UNCHANGED <<main, next, dog, exit, aborting, crashes, verdict>>

\* Mutant: the watchdog ends, the process does not.
ReadAbortIgnored(i, j) ==
  /\ Running(i) /\ dog[i] = "scan" /\ NextReady(i, j)
  /\ wire[j][i] # << >> /\ Head(wire[j][i]) = "ABORT"
  /\ wire' = [wire EXCEPT ![j][i] = Tail(@)]
  /\ dog' = [dog EXCEPT ![i] = "ended"]
  /\ UNCHANGED <<main, next, pfds, ready, exit, aborting, crashes, verdict>>

\* ABORT: "peer j aborted: <reason>", exit code 2.
ReadAbort(i, j) ==
  /\ Running(i) /\ dog[i] = "scan" /\ NextReady(i, j)
  /\ wire[j][i] # << >> /\ Head(wire[j][i]) = "ABORT"
  /\ wire' = [wire EXCEPT ![j][i] = Tail(@)]
  /\ Conclude(i, "peer_aborted", j)
  /\ UNCHANGED <<main, next, pfds, ready, exit, aborting, crashes>>

Closed(i, j) == wire[j][i] = << >> /\ ~Running(j)

\* Mutant: the code of a header that was never read is taken for ABORT.
ReadClosedAsAbort(i, j) ==
  /\ Running(i) /\ dog[i] = "scan" /\ NextReady(i, j)
  /\ Closed(i, j)
  /\ Conclude(i, "peer_aborted", j)
  /\ UNCHANGED <<main, next, pfds, ready, wire, exit, aborting, crashes>>

\* The socket is closed: "closed its control channel without finishing
\* (crashed?)", exit code 2.
ReadClosed(i, j) ==
  /\ Running(i) /\ dog[i] = "scan" /\ NextReady(i, j)
  /\ Closed(i, j)
  /\ Conclude(i, "peer_closed", j)
  /\ UNCHANGED <<main, next, pfds, ready, wire, exit, aborting, crashes>>

\* The verdict is printed and the watchdog ends the process.
Leave(i) ==
  /\ Running(i) /\ dog[i] = "leave"
  /\ Exit(i, verdict[i].why, verdict[i].peer)
  /\ UNCHANGED <<main, next, dog, pfds, ready, wire, aborting, crashes, verdict>>

EndScan(i) ==
  /\ Running(i) /\ dog[i] = "scan" /\ ready[i] = {}
  /\ dog' = [dog EXCEPT ![i] = "poll"]
  /\ UNCHANGED <<main, next, pfds, ready, wire, exit, aborting, crashes, verdict>>

-----------------------------------------------------------------------------
AllEnded == \A i \in Party : ~Running(i)
Terminated == AllEnded /\ UNCHANGED vars

MainStep(i) == SendAbort(i) \/ ExitAbort(i) \/ SendDone(i) \/ Return(i)

DogStep(i) ==
  \/ Poll(i) \/ EndScan(i) \/ Leave(i)
  \/ \E j \in Peers(i) : ReadDone(i, j) \/ ReadAbort(i, j) \/ ReadClosed(i, j)

Next ==
  \/ \E i \in Party :
       Fail(i) \/ Stop(i) \/ MainStep(i) \/ DogStep(i) \/ SocketError(i) \/ Crash(i)
  \/ Terminated

\* No check has failed and no process has died.
Undisturbed == \A i \in Party : ~aborting[i] /\ exit[i].why \in {"alive", "ok"}

\* Both threads of a live process are scheduled.  The protocol reaches stop()
\* while nothing disturbs it; afterwards a main thread may block forever on a
\* data socket, and no failure and no socket error is ever owed.
Fairness ==
  \A i \in Party : /\ WF_vars(MainStep(i)) /\ WF_vars(DogStep(i))
                   /\ WF_vars(Undisturbed /\ Stop(i))

Spec == Init /\ [][Next]_vars /\ Fairness

-----------------------------------------------------------------------------
(* Properties.                                                             *)

\* finalize returns on a party only after every party has passed all its
\* checks: whoever returns "learns the verdict" (README.md:178-179).
VerdictKnown ==
  \A i \in Party : exit[i].why = "ok" => \A j \in Party : ~aborting[j] /\ main[j] # "run"

\* What a watchdog prints of a peer is so: "aborted" of a party whose check
\* failed, "closed without finishing (crashed?)" of one that neither finished
\* nor completed its own abort.  And unless a check failed or a process died no
\* party exits because of a peer: the sockets that close after a normal finish
\* alarm nobody.
BlameIsTrue ==
  /\ \A i \in Party :
       LET j == verdict[i].peer IN
         /\ verdict[i].why = "peer_aborted" => aborting[j]
         /\ verdict[i].why = "peer_closed" => exit[j].why \notin {"alive", "ok", "aborted"}
  /\ (\A i \in Party : ~aborting[i] /\ exit[i].why # "crashed") =>
       \A i \in Party : exit[i].why \in {"alive", "ok"}

\* Once a check has failed, no process is left blocking ("so nobody is left
\* blocking on a data socket", abort.h:7-8).
AbortReachesAll == (\E i \in Party : aborting[i]) ~> AllEnded

\* With nothing in the way all parties finish together: no cycle of stop()
\* calls waiting for each other.
FinishTogether == <>(AllEnded \/ ~Undisturbed)
=============================================================================
