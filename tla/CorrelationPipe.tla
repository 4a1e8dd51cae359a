--------------------------- MODULE CorrelationPipe ---------------------------
(***************************************************************************)
(* The hand-off of background correlations inside one party: the bounded   *)
(* ring `CorrelationPipe` (emp-zk-arith/correlation_pipe.h), the producer  *)
(* thread that fills it one extension round at a time, and the engine      *)
(* thread that draws from it and tears it down (draw_vole_, the            *)
(* constructor's producer lambda and the destructor of FpOSTriple in       *)
(* emp-zk-arith/ostriple.h; ZKBoolBase in emp-zk-bool/zk_bool_base.h holds *)
(* the same three pieces of code for COTs).                                *)
(*                                                                         *)
(* Every critical section of the mutex `m` is one step.  What happens      *)
(* outside the mutex is a step of its own: filling a slot, copying out of  *)
(* a slot, and each notification, which the code issues after unlocking.   *)
(* A thread blocked on a condition variable is asleep until it is notified *)
(* or wakes spuriously, and then evaluates its predicate again.            *)
(*                                                                         *)
(* A correlation is its index in the party's stream: round r of the sVOLE  *)
(* yields the indices r*Batch .. r*Batch+Batch-1.                          *)
(***************************************************************************)
EXTENDS Integers, Sequences

CONSTANTS
  N,        \* slots of the ring (BG_SLOTS)
  Batch,    \* correlations in a slot: one extension round (bg_batch_)
  MaxDraw   \* correlations the proof draws at most (bound of the model)

ASSUME NAssumption       == N \in Nat \ {0}
ASSUME BatchAssumption   == Batch \in Nat \ {0}
ASSUME MaxDrawAssumption == MaxDraw \in Nat

VARIABLES
  slot,     \* the ring's buffers: slot[i][k] is a correlation
  head,     \* next slot to consume
  tail,     \* next slot to fill
  count,    \* published slots not yet released
  done,     \* set by finish()
  ppc,      \* producer thread's control point
  pslot,    \* the slot index acquire_free() returned to the producer
  rounds,   \* rounds the sVOLE has produced
  cpc,      \* engine thread's control point
  cur,      \* the slot being drained, None between slots (cur_slot_)
  off,      \* consume offset in it (cur_off_)
  want,     \* correlations the running draw still owes its caller
  closing,  \* the engine is in its destructor
  out       \* every correlation delivered to the engine, in order

ring == <<slot, head, tail, count, done>>
producer == <<ppc, pslot, rounds>>
consumer == <<cpc, cur, off, want, closing, out>>
vars == <<slot, head, tail, count, done, ppc, pslot, rounds,
          cpc, cur, off, want, closing, out>>

None == -1
Index == 0 .. N - 1
Lesser(a, b) == IF a < b THEN a ELSE b

\* The correlations of round r, as the sVOLE writes them into a slot.
Round(r) == [k \in 0 .. Batch - 1 |-> r * Batch + k]

\* The first n correlations of slot s from offset o on: one memcpy.
Segment(s, o, n) == [k \in 1 .. n |-> s[o + k - 1]]

Init ==
  /\ slot = [i \in Index |-> [k \in 0 .. Batch - 1 |-> None]]
  /\ head = 0 /\ tail = 0 /\ count = 0
  /\ done = FALSE
  /\ ppc = "acquire" /\ pslot = None /\ rounds = 0
  /\ cpc = "idle" /\ cur = None /\ off = 0 /\ want = 0
  /\ closing = FALSE
  /\ out = << >>

-----------------------------------------------------------------------------
(* Producer thread: for (i; (i = acquire_free()) >= 0;) { next_n; publish; } *)
\* Mutant: acquire_free() lets the producer in when every slot is taken.
AcquireFreeOffByOne ==
  /\ ppc = "acquire"
  /\ \/ done /\ ppc' = "exited" /\ UNCHANGED pslot
     \/ ~done /\ count <= N /\ ppc' = "fill" /\ pslot' = tail
     \/ ~done /\ count > N /\ ppc' = "sleeping" /\ UNCHANGED pslot
  /\ UNCHANGED <<ring, rounds, consumer>>

\* acquire_free(): a free slot, -1 after finish(), or sleep on cv_free.
AcquireFree ==
  /\ ppc = "acquire"
  /\ \/ /\ done
        /\ ppc' = "exited"
        /\ UNCHANGED pslot
     \/ /\ ~done /\ count < N
        /\ ppc' = "fill"
        /\ pslot' = tail
     \/ /\ ~done /\ count >= N
        /\ ppc' = "sleeping"
        /\ UNCHANGED pslot
  /\ UNCHANGED <<ring, rounds, consumer>>

\* The sVOLE writes one round into the acquired slot, without the lock.
Fill ==
  /\ ppc = "fill"
  /\ slot' = [slot EXCEPT ![pslot] = Round(rounds)]
  /\ rounds' = rounds + 1
  /\ ppc' = "publish"
  /\ UNCHANGED <<head, tail, count, done, pslot, consumer>>

\* Mutant: publish() forgets the notification.
PublishSilently ==
  /\ ppc = "publish"
  /\ tail' = (tail + 1) % N /\ count' = count + 1
  /\ ppc' = "acquire"
  /\ UNCHANGED <<slot, head, done, pslot, rounds, consumer>>

\* publish(), the locked part.
Publish ==
  /\ ppc = "publish"
  /\ tail' = (tail + 1) % N
  /\ count' = count + 1
  /\ ppc' = "notify"
  /\ UNCHANGED <<slot, head, done, pslot, rounds, consumer>>

\* publish() after the unlock: cv_ready.notify_one().
NotifyReady ==
  /\ ppc = "notify"
  /\ ppc' = "acquire"
  /\ cpc' = IF cpc = "sleeping" THEN "draw" ELSE cpc
  /\ UNCHANGED <<ring, pslot, rounds, cur, off, want, closing, out>>

-----------------------------------------------------------------------------
(* Engine thread.                                                          *)

\* draw_vole_(out, n) is called.
Draw(n) ==
  /\ cpc = "idle" /\ ~closing
  /\ want' = n
  /\ cpc' = "draw"
  /\ UNCHANGED <<ring, producer, cur, off, closing, out>>

\* acquire_ready(): the oldest published slot, -1 once closed and empty (the
\* engine calls error()), or sleep on cv_ready.
AcquireReady ==
  /\ cpc = "draw" /\ cur = None
  /\ \/ /\ count > 0
        /\ cur' = head /\ off' = 0
        /\ UNCHANGED cpc
     \/ /\ count = 0 /\ done
        /\ cpc' = "error"
        /\ UNCHANGED <<cur, off>>
     \/ /\ count = 0 /\ ~done
        /\ cpc' = "sleeping"
        /\ UNCHANGED <<cur, off>>
  /\ UNCHANGED <<ring, producer, want, closing, out>>
\* Mutant: a draw that ends inside a slot does not advance the offset.
CopyKeepsOffset ==
  /\ cpc = "draw" /\ cur # None
  /\ LET take == Lesser(want, Batch - off)
     IN  /\ out' = out \o Segment(slot[cur], off, take)
         /\ off' = IF off + take = Batch THEN Batch ELSE off
         /\ want' = want - take
  /\ cpc' = IF off' = Batch THEN "release" ELSE "idle"
  /\ UNCHANGED <<ring, producer, cur, closing>>

\* Copy min(n - done, bg_batch_ - cur_off_) correlations out of the held slot;
\* a drained slot is released next, a satisfied draw returns.
Copy ==
  /\ cpc = "draw" /\ cur # None
  /\ LET take == Lesser(want, Batch - off)
     IN  /\ out' = out \o Segment(slot[cur], off, take)
         /\ off' = off + take
         /\ want' = want - take
  /\ cpc' = IF off' = Batch THEN "release" ELSE "idle"
  /\ UNCHANGED <<ring, producer, cur, closing>>
\* release(), the locked part: by draw_vole_ for a drained slot, by the
\* destructor for the slot it still holds.
Release ==
  /\ cpc = "release"
  /\ head' = (head + 1) % N
  /\ count' = count - 1
  /\ cur' = None
  /\ cpc' = "notify"
  /\ UNCHANGED <<slot, tail, done, producer, off, want, closing, out>>

\* Whoever sleeps on cv_free evaluates its predicate again.
WakeProducer == ppc' = IF ppc = "sleeping" THEN "acquire" ELSE ppc

\* release() after the unlock: cv_free.notify_one().
NotifyFree ==
  /\ cpc = "notify"
  /\ WakeProducer
  /\ cpc' = IF closing THEN "finish" ELSE IF want > 0 THEN "draw" ELSE "idle"
  /\ UNCHANGED <<ring, pslot, rounds, cur, off, want, closing, out>>

\* The destructor: the held slot, if any, is released before finish().
Close ==
  /\ cpc = "idle" /\ ~closing
  /\ closing' = TRUE
  /\ cpc' = IF cur # None THEN "release" ELSE "finish"
  /\ UNCHANGED <<ring, producer, cur, off, want, out>>
\* Mutant: finish() forgets the notifications.
FinishSilently ==
  /\ cpc = "finish"
  /\ done' = TRUE
  /\ cpc' = "join"
  /\ UNCHANGED <<slot, head, tail, count, producer, cur, off, want, closing, out>>

\* finish(), the locked part.
Finish ==
  /\ cpc = "finish"
  /\ done' = TRUE
  /\ cpc' = "notify_all"
  /\ UNCHANGED <<slot, head, tail, count, producer, cur, off, want, closing, out>>

\* finish() after the unlock.  The engine itself never sleeps here, so only
\* cv_free can have a waiter.
NotifyAll ==
  /\ cpc = "notify_all"
  /\ WakeProducer
  /\ cpc' = "join"
  /\ UNCHANGED <<ring, pslot, rounds, cur, off, want, closing, out>>

\* producer_.join() returns.
Join ==
  /\ cpc = "join" /\ ppc = "exited"
  /\ cpc' = "closed"
  /\ UNCHANGED <<ring, producer, cur, off, want, closing, out>>

-----------------------------------------------------------------------------
\* A condition variable may wake its waiter without a notification.
SpuriousWake ==
  \/ /\ ppc = "sleeping" /\ ppc' = "acquire"
     /\ UNCHANGED <<ring, pslot, rounds, consumer>>
  \/ /\ cpc = "sleeping" /\ cpc' = "draw"
     /\ UNCHANGED <<ring, producer, cur, off, want, closing, out>>

\* The proof has run to completion: both threads are gone.
Terminated ==
  /\ cpc = "closed" /\ ppc = "exited"
  /\ UNCHANGED vars

ProducerStep == AcquireFree \/ Fill \/ Publish \/ NotifyReady

ConsumerStep ==
  \/ AcquireReady \/ Copy \/ Release \/ NotifyFree
  \/ Close \/ Finish \/ NotifyAll \/ Join

Next ==
  \/ ProducerStep
  \/ \E n \in 1 .. MaxDraw - Len(out) : Draw(n)
  \/ ConsumerStep
  \/ SpuriousWake
  \/ Terminated

\* Both threads are scheduled; a spurious wake-up is never owed, and neither
\* is a further draw: the engine may go straight to its destructor.
Fairness == WF_vars(ProducerStep) /\ WF_vars(ConsumerStep)

Spec == Init /\ [][Next]_vars /\ Fairness

-----------------------------------------------------------------------------
(* Properties.                                                             *)

ProducerPC == {"acquire", "fill", "publish", "notify", "sleeping", "exited"}
ConsumerPC == {"idle", "draw", "release", "notify", "sleeping", "error",
               "finish", "notify_all", "join", "closed"}

TypeOK ==
  /\ slot \in [Index -> [0 .. Batch - 1 -> Int]]
  /\ head \in Index /\ tail \in Index /\ count \in 0 .. N
  /\ done \in BOOLEAN /\ closing \in BOOLEAN
  /\ ppc \in ProducerPC /\ pslot \in Index \cup {None} /\ rounds \in Nat
  /\ cpc \in ConsumerPC /\ cur \in Index \cup {None}
  /\ off \in 0 .. Batch /\ want \in 0 .. MaxDraw
  /\ out \in Seq(Int)

\* Index of the k-th slot from head on, counting from 0.
Ahead(k) == IF head + k < N THEN head + k ELSE head + k - N

\* Correlations are handed to the engine in stream order, each exactly once,
\* however the two threads interleave and however the draws fall across the
\* slot boundaries (draw_vole_: "same deterministic correlation stream in the
\* same order").
DeliveredInOrder == \A i \in 1 .. Len(out) : out[i] = i - 1

\* The producer never writes a slot that holds a published round or that the
\* engine is copying from: both accesses run without the mutex.
SlotExclusive ==
  ppc \in {"fill", "publish"} =>
    /\ pslot # cur
    /\ \A k \in 0 .. count - 1 : pslot # Ahead(k)

\* A thread that sleeps on a condition variable whose predicate already holds
\* has a notification coming: no wake-up is lost between the unlock and the
\* notify (publish, release, finish).
SleeperHasWaker ==
  /\ cpc = "sleeping" => count = 0 \/ ppc = "notify"
  /\ ppc = "sleeping" => \/ count = N /\ ~done
                         \/ cpc \in {"notify", "notify_all"}

\* The engine never finds the pipe closed during a draw (the error() call in
\* draw_vole_: "producer only stops at teardown; never mid-proof").
NeverClosedMidDraw == cpc # "error"

\* The ring never lets the sVOLE run more than N rounds ahead of the rounds
\* the engine has begun to use (the slot the destructor gives back included).
LookaheadBounded ==
  rounds * Batch <= Len(out) + (IF closing THEN Batch - 1 ELSE 0) + N * Batch

\* The destructor ends: join() is never stuck on a producer asleep in
\* acquire_free() ("finish() wakes both so neither deadlocks at shutdown").
CloseCompletes == closing ~> (cpc = "closed")

-----------------------------------------------------------------------------
(* The inductive invariant behind the safety properties.                   *)

\* Rounds published, and rounds the engine has given back.
Published == IF ppc = "publish" THEN rounds - 1 ELSE rounds
Released  == Published - count

RingShape ==
  /\ tail = Ahead(count)
  /\ ppc \in {"fill", "publish"} => pslot = tail /\ count < N

EngineHoldsHead ==
  /\ cur # None => /\ cur = head /\ count > 0
                   /\ cpc \in {"idle", "draw", "release"}
  /\ cur # None /\ cpc # "release" => off < Batch
  /\ cur # None /\ cpc # "draw" => off > 0
  /\ cpc = "release" => cur # None /\ (closing \/ off = Batch)

RingContents ==
  /\ \A k \in 0 .. count - 1 : slot[Ahead(k)] = Round(Released + k)
  /\ ppc = "publish" => slot[pslot] = Round(rounds - 1)

Position ==
  /\ Released >= 0
  /\ cur # None => Len(out) = Released * Batch + off
  /\ cur = None /\ ~closing => Len(out) = Released * Batch
  /\ cur = None /\ closing => Released * Batch <= Len(out) + Batch - 1

Phases ==
  /\ closing => cpc \in {"release", "notify", "finish", "notify_all", "join", "closed"}
  /\ cpc \in {"finish", "notify_all", "join", "closed"} => closing
  /\ done <=> cpc \in {"notify_all", "join", "closed"}
  /\ ppc = "exited" => done
  /\ cpc = "closed" => ppc = "exited"
  /\ want + Len(out) <= MaxDraw
  /\ cpc \in {"draw", "sleeping"} => want > 0
  /\ cpc = "idle" \/ closing => want = 0

\* What every step preserves: the shape of the ring, who owns which slot, the
\* contents of the published slots, and the engine's place in the stream.
IInv ==
  /\ TypeOK
  /\ RingShape
  /\ EngineHoldsHead
  /\ RingContents
  /\ Position
  /\ Phases
  /\ DeliveredInOrder
  /\ SleeperHasWaker
  /\ NeverClosedMidDraw

Phase == IF cpc = "closed" THEN "closed" ELSE IF closing THEN "closing" ELSE "open"

\* The pipe and its two threads implement the stream.
Stream == INSTANCE CorrelationStream WITH
  published <- Published,
  owed      <- want,
  given     <- out,
  phase     <- Phase

ImplementsStream == Stream!StreamSpec

=============================================================================
