# TLA+ models of emp-zk

This directory holds a formal model of the parts of emp-zk (`src/`) whose
correctness depends on the order in which several threads or several parties do
things: modules translated from the C++ headers, TLC configurations that check
them on small instances, and theorems about them that TLAPS checks for every
value of their constants. File and line references are to `src/`.

- [Inventory](#inventory): the system's parts
- [Modules](#modules): what models what, and how
- [Runs](#runs): what TLC checks, within which bounds
- [Fairness](#fairness)
- [Proofs](#proofs)
- [Disagreements with the documentation](#disagreements-with-the-documentation)
- [Not modelled](#not-modelled)
- [Plan](#plan)

## Inventory

emp-zk is three zero-knowledge systems built on vector oblivious linear
evaluation (VOLE). In the boolean and the arithmetic one a prover (`ALICE`) and a
verifier (`BOB`) run the same program over two-party VOLE; in the third, `mvzk`,
one prover convinces `n` verifiers that are parties of an n-party VOLE. All
parties execute the same program, so that nothing in the messages says which
call they belong to: every party computes for itself how many correlations
have been used, when a batch is full and when a check is due. What is hard is
everything that could make two parties count differently, or wait for each other.

| component | state | operations | interacts with | what makes it correct |
|---|---|---|---|---|
| Correlation pipe, `emp-zk-arith/correlation_pipe.h` | ring of `N` slots, `head`, `tail`, `count`, `done`, two condition variables | `acquire_free`, `publish`, `acquire_ready`, `release`, `finish` | producer thread (sVOLE) and engine thread of one party | slots exclusive, stream in order, no lost wake-up, shutdown ends |
| Arithmetic engine, `emp-zk-arith/ostriple.h`, `triple_auth.h` | pre-drawn `andgate_*_buffer`, `check_cnt`, slot in use, hash of opened MACs | input, multiply (scalar, vector), batch check, reveal, zero check, destructor | pipe; main socket (`BoolIO`); peer's engine; EdaBits and polynomial proofs draw through it | both parties draw the same positions, no mask twice, all products checked, no deadlock between sockets |
| Bit/byte channel, `emp-zk-bool/bool_io.h` | staging block, `ptr` | `send_bit`, `recv_bit`, byte sends and receives, `flush` | both two-party engines; inner channel with Fiat-Shamir transcript | bits and bytes stay ordered, transcripts agree, nobody waits for staged bits |
| Boolean engine, `emp-zk-bool/zk_bool_base.h`, `zk_bool_prover.h`, `zk_bool_verifier.h` | AND-gate buffers, `check_cnt`, F_2^k buffers, digests, the same background ring | input, AND, reveal, batch checks, F_2^k products | `BoolIO`, Ferret, polynomial proofs, session | as the arithmetic engine; F_2^k counters in step |
| Polynomial proofs, `emp-zk-bool/polynomial.h`, `emp-zk-arith/polynomial.h` | accumulated coefficients, `num` | `zkp_poly_deg2`, `zkp_inner_prdt`, `batch_check` | engines' correlations and transcripts | every statement accumulated is checked |
| Session and values, `zk_session.h`, `zk_context.h`, `zk_types.h` | owns the engine | construction, circuits, finalize | boolean engine | checks run before the streams close |
| Permutation, set and RAM proofs, `zk_perm_proof.h`, `zk_set.h`, `zk_ram.h` | access lists, logical `clock` | `access`, `read`, `write`, `check` | typed values, F_2^k products | a read returns the last write; the code does not refuse accesses beyond `T` |
| Conversion, `edabit/*.h` | pool of edabits, its use count | generate, convert, flush | both engines | every edabit used once, bucketing covers all |
| VOLE streams, `vole_stream.h` | whole rounds buffered, sibling connections | `next_n`, handshake | external VOLE library | requests of any size are consecutive pieces of the stream |
| Abort guard, `mvzk/abort.h` | control sockets, watchdog thread, `aborting`, `stopped` | `fail`, `stop`, `run` | every mvzk process, its main thread | a failed check ends everybody, nobody returns before all have passed |
| VOLE mesh, `mvzk/nvole.h` | seeds, pairwise committed VOLEs, a thread pool per party | `setup`, `extend_prover`, `extend_verifier` | `Auth`, pool threads, all pairs of verifiers | no cyclic wait for any pool size, values complete when returned |
| Packed values, `mvzk/zk/auth.h` | `ptr`, `usable`, nonces | `randAuthVal`, `refill` | mesh, nonces | all parties refill at the same request |
| Wires and checks, `mvzk/zk/prover.h`, `verifier.h`, `backend.h`, `compress.h` | wire slots, preprocessed sharings, triple buffers, transcripts | `share`, `mult`, `shareBatch`, `verifyAuthTriple`, reveal | `Auth`, mesh, IntFp | batches and checks at the same point, every triple checked |
| User values, `mvzk/int_fp.h`, `int_fp_vec.h` | reference-counted slots with pending linear forms | arithmetic, reveal | backend | a slot is resolved before it is used, and lives until it is |
| Verifier mesh, `mvzk/mesh.h` | one channel per direction, one pool thread | `exchange_all`, `echo_check`, `coin`, `zero_shares`, `nonces` | all verifiers, prover; called by the checks of `verifier.h` | the ring exchange cannot deadlock, a message belongs to its exchange, nothing is shown before all are committed, all come to one verdict |
| Fields, `mvzk/fields`, `mvzk/utils` | none | arithmetic, interpolation | all of mvzk | values of the integer operations |

**Threads and processes.** Each two-party process has the thread that executes
the program and, in background mode, a producer thread that runs the sVOLE with
the peer's producer on a second socket. Each mvzk process has the main thread,
a watchdog thread, and the threads of its pools. Worker pools that split a loop
and are joined before the call returns (`run_parallel_`) do not interleave with
anything and are not modelled.

**Failures.** Within a two-party proof there is no recovery: `error()` ends the
process. In mvzk a failed check calls `mvzk_fail()`, and a process that dies is
seen by its peers' watchdogs. Nothing is persisted, and TCP neither loses nor
reorders what it delivers.

## Modules

`Mutant:` operators in the modules are plausible slips of the code, kept next
to the definition they would replace; `PROJECT.json` says which property each
one breaks. They are not part of any specification.

### CorrelationPipe, CorrelationStream

One party of the background mode: the producer's loop (`ostriple.h:267-275`),
`draw_vole_()` and the destructor's shutdown, over the ring of
`correlation_pipe.h`. A locked section is one action; a copy into or out of a
slot is an action outside it; a notification is a third action, since `publish`
and `release` notify after the lock is gone. A thread that waits sleeps
(`ppc` or `cpc` is "sleeping") until a notification or a spurious wake-up, then
tests its condition again. Correlations are numbered; a slot
holds the numbers of its round. The code's `head`, `tail` and `count` are the
variables of the same names, `cur_slot_` and `cur_off_` are `cur` and `off`.

`CorrelationStream` is what the pipe promises the engine: rounds become
available, a request of `n` takes the next `n` numbers, and after a close
nothing else is delivered. `CorrelationPipe` implements it (`ImplementsStream`,
checked by TLC with liveness, and the safety part proved).

### FpOSTriple

The two engines, the two producers, and the main socket. Both parties run the
same program, a sequence of inputs, multiplications, openings and zero checks.
Each call is a list of steps (draw, send, receive, flush) built by the operator
named after the method; every step is one action, so that parties interleave
between any two messages. A correlation is its index in the stream. A message
carries the call it belongs to and the correlations that mask it, which is what
a receiver implicitly relies on: `StreamsAligned` compares them with the
receiver's own. The hand-off from the producer is the one `CorrelationPipe`
implements, seen from outside (rounds `made`, `used`, the slot held). The
channel delivers what was flushed; before that it may or may not.

### BoolIO

The two ends of one channel. Each call either party makes is chosen freely, and
the other makes the same one in its turn. `stage` is what is in the staging
buffer (`buf[0 .. ptr-1]` at the sender, `buf[ptr ..]` at the receiver). A bit
carries the number of the call that sent it, so that a received value tells
whether it is the right one. `log` is the inner channel's transcript in wire
order and a challenge records it, as `io->io->get_digest()` does. `BitChannel` declares
that state and what is promised of it, `BoolIO` holds the steps.

### AbortGuard

Every mvzk process has a main thread (running, in `fail()`, in `stop()`, returned)
and a watchdog (polling, reading the sockets `poll()` reported one after the
other, about to exit, ended). Writing to one peer is one action, so that a
process can be half way through its ABORTs or DONEs when another acts. The end
of a process closes its sockets: readers see what it wrote, then the end. The
test of `aborting` and the `_Exit` after it are two actions (`Conclude`, `Leave`)
since nothing makes them one in the code.

### MvzkNVole

The prover, the verifiers' main threads, their pools. `for_each_peer()` queues
one task per peer; the pool starts them in that order as threads become free;
each task is two directions in the order `extend_with()` gives them. A
direction is an exchange of the two tasks of the pair; the committer finishes
first, and the verifier once it has checked the committer's hash. The nonce
exchange closes a round (`Auth::refill`). `MvzkVolePairs` declares that state and what
is promised of it, `MvzkNVole` holds the steps; `MvzkParties` declares the verifiers,
for this model and for `MvzkMesh`.

### MvzkWires

The program of an mvzk proof, on the prover and every verifier: `feed`, public
values, `+`, `+` with a constant, `*`, giving up a handle, `reveal`, a check
against an expected value, and `finalize`. The first party to reach a position
chooses the call, the others make the same one; a call is an entry of `prog`, and
the wire slot it makes has the entry's index. A value is a linear form over fed
and multiplied wires, so that a forgotten term or constant is visible; a
preprocessed sharing is its position in the stream of correlations, so that a
message unmasked with the wrong one becomes `Junk`.

A call is broken where the code may wait: sharing a batch of `k` wires
(`shareBatch`), a commitment and its rounds of compression (`verifyAuthTriple`,
`compress.h`), the refill of the pool those need (`ensurePreAuth`,
`Auth::randAuthVal`, `Auth::refill`), the rest of the call. `pc` says which comes
next. The verifiers' part of `shareBatch` resolves the inputs of a product before
it records the triple (`FillSlot`, `Materialize`); `Linear` decides, as
`int_fp.h` does, between a value computed at once and one kept as terms; `hold` and
`AfterOp` are the keep-alive list of `backend.h`, and `Alive` is what the
reference counts leave valid. An n-party extend (`MvzkNVole`) is a barrier of all
parties here, and an exchange of the verifiers (`MvzkMesh`) a barrier of theirs.
A check compares what must agree for the real one to pass: the products, the
masks, the number of batches and of nonces, and what the verifiers saw.

### MvzkMesh

The verifiers among themselves: the exchanges of a triple check (the end of
`verifyAuthTriple()`, `openAndCheck()`) and of the check of an opened value
(`checkPublic()`), both ending in `macCheckZero()`. `Exchanges` is their order. Each
verifier has a pool thread that writes to its peers up the ring (`to`, `part`) and a
main thread that reads from them down the ring (`from`, `have`), one piece of a message
at a time: writing blocks when the channel holds `Cap` pieces. `Judge` is what follows
`fut.get()`: the comparison or sum the exchange was for, and either the end or
the next exchange with its fresh random values. A piece says which exchange it belongs
to, which the receiver never looks at. A commitment is the value it hides; `CommittedFirst`
says that what it hides is not shown too early. The triple is one number per
verifier, their errors in the MACs another: what matters is what all of them
sum to. An exchange is not a barrier: a verifier may be one ahead of another.

The watchdogs are not part of this module. After a failed check they may end a
process before it comes to its own verdict; `NobodyCut` says that the exchanges do
not depend on them.

### BoolEngine

`ZKBoolProver` and `ZKBoolVerifier` from constructor to destructor, with the
polynomial proofs (`polynomial.h`) and the permutation proof (`zk_perm_proof.h`)
that run on them. As in `FpOSTriple`, a call becomes a list of steps that each
party computes from its own counters when it gets there (`Steps`), and each step is
an action; a call can also make others, which come before the rest of the
program (`Inner`): `eval_()` is a list of products, and a vectorized AND goes on with
the gates left after each batch. COTs come in the code's three ways: a streaming session that meets
the peer once per Ferret round, a prepaid one that never does, or a producer
thread per party with its ring.

`staged` holds the bits ALICE has not sent: unlike `FpOSTriple`'s channel this one
has two layers, and `log` is the transcript of the inner one, from which challenges
are derived. `cuts` are the places at which each end cut a block of bits short:
`BoolIO` proves nothing unless both cut alike, and here that follows, or not, from
the engines' calls. `f2k` has the two VOLE buffers with their cursors; `outs` are
the gates that took `f2k_auth_buffer`'s slots so far, so that `OutputOf` can find
the slot of `f2k_check`'s `omac_base + i`.

A challenge is derived from the transcript's digest and nothing else, but for the
evaluation point `r` of a permutation, whose digest is XORed with a constant
(`Tweak`); `Input` is the pair of the two. What a challenge is for (`use`) is recorded
beside it and is no part of its input. `compress()` sends nothing, so what is derived next may have
its digest: `check_eq()`'s own `r`, which is tweaked, another `compress()`, or the
check that the first product of `eval_()` makes when the F_2^k buffer is full.
`ChallengesBind` allows the last two and no other. The check that shares its
digest with a coefficient vector is not what the code's comments speak of;
it still covers every message before it.

### ZkMemory

`ZKRam` and `ZKROM` with `ZKSet`, on top of what a permutation proof decides: whether
two multisets of records are equal. `perm` and `diffs` are the difference of the
two multisets. What the prover commits to at an access (old contents, old time,
version) is any value of the field's width; `honest` says whether it was what her
copy holds. `CheckAny` accepts when some final state would balance the lists,
`CheckHonest` when her copy does. Arithmetic on times wraps at `2^time_sz`.

### EdaBits

`edabits_gen_backend()` with its circular buffer of `F_p` values, random point and
bucketing, the conversions in chunks, and the digests of what is opened. Both
parties run the same code on the same public counters, so that one copy of them
stands for both; what differs is what ALICE commits to (`First`, `Later`) and sends
(`lie`). 62-bit integers modulo the 61-bit prime are numbers mod `2 * PR + 2` for any
prime `PR`. A random point near the end of its range opens positions behind the
batch (the code's "TODO overflow", `edabits.h:118`): there the outcome is
left open.

### Proof modules and MC modules

`ChannelProofs` (of `CorrelationPipe` and `BoolIO`), `FpOSTripleProofs`, `BoolEngineProofs`,
`MvzkMeshProofs` (of `MvzkMesh` and `MvzkNVole`), `MvzkWiresProofs`, `AbortGuardProofs`,
`EdaBitsProofs` and `ZkMemoryProofs` hold the theorems. Each
`MC...` module defines the constants' values for one configuration.

## Runs

| run | instance | states | shows |
|---|---|---|---|
| `pipe` | 3 slots of 2, draws of 1 to 9 in all | 2,338 | `SlotExclusive`, `SleeperHasWaker`, `CloseCompletes`, `ImplementsStream` |
| `arith_engine` | 2 slots of 2, checks of 2 products, four programs of up to 3 calls | 13,600 | `StreamsAligned`, `MasksFresh`, `AllChecked`, `DriftBounded`, `ProofCompletes` |
| `bool_engine` | three sources of COTs in pieces of 3, all buffers of 2 (permutation products 1), six programs | 94,023 | `StreamsAligned`, `CutsAgree`, `ChallengesBind`, `AllChecked`, `ProofCompletes` |
| `bool_io` | blocks of 3 bits, any 6 calls | 301,320 | `StreamsOrdered`, `SeedsAgree` |
| `memory` | 2 cells, `T` of 1 and 2, bits as contents, any prover | 609,184 | `ReadsLatest`, `HonestAccepted` |
| `edabits` | prime 3, batches of 2 edabits in buckets of 3 with 2 opened, 3 conversions of 1 or 3 values | 286,055 | `WrongByBuckets`, `MasksFresh`, `ConversionsExact`, `HonestPasses` |
| `abort` | 3 parties, any checks fail, one crash | 639,412 | `VerdictKnown`, `BlameIsTrue`, `AbortReachesAll`, `FinishTogether` |
| `nvole` | 4 verifiers with pools of 1, 2, 2, 1; setup and one extend | 7,420 | `PairsGoOn`, `SecretsFilled` |
| `mesh` | 3 verifiers, channels of 1 piece, messages of 1 and 2, six cases of a check, one crash | 360,038 | `NoStall`, `SameExchange`, `CommittedFirst`, `VerdictExact`, `NobodyCut` |
| `wires` | 2 verifiers, batches of 2, any 3 calls of every kind and up to 5 of some (see below) | 1,273,577 | `ReadyIsRight`, `PendingAlive`, `NobodyStuck`, `HonestAccepted`, `EachProductOnce`, `MasksFresh`, `BufferSuffices` |
| `arith_teardown`, `ram` | | | [disagreements](#disagreements-with-the-documentation) |

Why the bounds are enough to be interesting:

- `pipe`: more than one lap of the ring with draws that end inside, at, and
  beyond the end of a slot; close at any moment, with the producer in any
  state. The theorems remove the bounds for safety.
- `arith_engine`: each program crosses a batch check inside a vectorized
  multiplication and a round boundary inside a draw; the constructor's own
  draws already use more than one round. Two slots are the fewest with which
  producer and engine overlap. The system really can stop at teardown (see
  below), so deadlock is not checked in this run; `ProofCompletes` says that
  everything up to the close of the pipe is reached.
- `bool_io`: with 6 calls a block can be filled, cut short by bytes from
  either side, by a flush or by a challenge, and started again; the parties can
  be any number of calls apart as the channel permits.
- `abort`: with three parties a verdict can travel directly and second-hand,
  two parties can fail at once, and a crash can fall at any point of either.
- `nvole`: four is the least number of verifiers with disjoint pairs, and the
  two ends of the id range have the smallest pools. The theorems remove the
  bounds.
- `mesh`: three is the least number of verifiers with two directions around the ring;
  messages that are longer than the channel make a writer wait in the middle of one;
  inputs are right, wrong, and wrong in a way that cancels, and any one process may
  die at any moment. The theorems remove the bounds for all five properties.
- `bool_engine`: one program crosses a batch of gates inside a vectorized call and
  opens a bit between; one commits to more bits than the ring holds, so that a
  draw spans rounds; one goes over the ends of both VOLE buffers and of the
  polynomial buffer; one alternates F_2^k products and gates, so that both checks
  draw from one stream; one is a permutation of wide elements, with products
  of five factors, followed by a second one; the last folds twice, the second time at
  a full F_2^k buffer, so that two folds and a check share a digest. Each runs with
  every source of COTs.
  The theorems remove the bounds, and take any program, for all but `ProofCompletes`.
- `memory`: two accesses and two cells are the fewest with a read of another
  cell's write, a time not yet past and a version read twice; an index beyond the
  cells is among the inputs. The theorem removes the bounds for `HonestAccepted`.
- `edabits`: a buffer of two batches is refilled by the third, three values meet
  the end of a batch of two, buckets of three are filled with candidates whose
  errors cancel in some sums and not in others, or whose booleans are another number
  congruent to the value. The theorems remove the bounds for all four properties.
- `wires`: with batches of two, a batch ends inside
  a product's inputs, at a flush, and padded at the end. A check is due after two
  products, needs a compression round of one sharing and a last one of three, and the
  pool of four or the extend of five correlations ends before, between
  and inside them. Five calls are the fewest with a check that is due in the
  middle of the program and a further product for `finalize`; four the fewest
  in which a linear wire of an unresolved linear wire is read by a product. The
  constraint `Longest` keeps programs of four calls to those that leave wires
  unresolved and programs of five to inputs and products, since all calls together
  give too many programs; it looks at the program only.

Deadlock is checked in every run but the `arith_` ones and `bool_engine`, which end in
the teardown described below; each of the others has an explicit `Terminated` step for
its end.

## Fairness

Weak fairness of threads only: an enabled step of a thread that stays enabled is
taken. The operating system schedules runnable threads, `notify` is a step of the
thread that calls it, and a blocked thread becomes enabled when what it waits for
is there. No fairness is assumed of

- `SpontaneousWrite`: a channel's send buffer may keep what was not flushed
  forever;
- spurious wake-ups, crashes, failures, socket errors;
- the calls of the program: `CorrelationPipe` owes no draw and no close.

`BoolIO`, `MvzkNVole`, `MvzkMesh` and `MvzkWires` state no fairness. Every step of
the last three takes a thread further through a bounded program, so that only
waiting can keep it from its end: `PairsGoOn`, `NoStall` and `NobodyStuck` say that somebody can
always go on, and spell out what each thread waits for, so that a message still in
a send buffer does not count as there. `BoolIO` has safety properties only: a peer
left waiting for staged bits is the business of `ProofCompletes` in `BoolEngine`.

In `AbortGuard` reaching `stop()` is owed only while no check has failed and no
process has died (`Undisturbed`): afterwards a main thread may wait on a data
socket forever, and ending it is the watchdog's task. That is what makes
`AbortReachesAll` a statement about the watchdog.

## Proofs

Assumptions are those of the modules' constants: at least one slot, rounds of
at least one correlation (`CorrelationPipe`, `FpOSTriple`); at least two verifiers, each with
at least one pool thread (`MvzkNVole`); at least two verifiers, batches of at least one wire,
compression by at least two, a pool that suffices for one round (`MvzkWires`); at least two
verifiers, channels that hold at least one piece, messages of at least one, a modulus of at least
two, coins and deals of field elements (`MvzkMesh`); buffers, slots and checks of at least
one entry, programs of the engine's calls on at least one value (`BoolEngine`); blocks of at least one bit, any number
of calls (`BoolIO`); at least two parties, any number of crashes (`AbortGuard`); a positive modulus, batches and
buckets that are not empty, an opened part that fits the buffer, conversions of field
elements (`EdaBits`); at least one cell, indices that reach every cell, numbers of accesses
that are positive and fit their field (`ZkMemory`).

**CorrelationPipe.** `IInv` is inductive. It consists of the type invariant; the
position of both threads (`tail`, `head` and `count` are functions of the rounds
published and released, the offsets and what is delivered follow from them);
the contents of the slots (every slot published and not released holds its
round); the phase of each thread with the slot it holds; and the wait condition
(a sleeping thread's predicate is false or a notification is on its way).
The positions are needed because
`DeliveredInOrder` alone says nothing of rounds still in the ring; the contents
need the phases, because a slot is written outside the lock and only the phase
says that the writer still owns it. `Invariance` proves `Spec => []IInv`;
`TypeCorrect`, `InOrder`, `NoLostWakeup`, `Exclusion` and `Lookahead` follow from
it. `StreamSafety` proves that `Init` and every step map to `CorrelationStream`'s
`Init` and to a step or stutter, under the refinement mapping of the module.

**FpOSTriple.** What an engine does depends on the program and on how far it has come,
never on what it receives. So both engines are described by one deterministic machine
(`Engine`, `Started`, `Succ`), which names the phase of a call (a transfer, a draw, a
block of multiplications) where the model has a list of steps left to do. `Sim` says
that an engine is in a state of the machine; its list is then the one the phase calls
for, with up to two flushes in front (`TodoOK`). `EngineInv` says that each engine is in
some state of the machine, and that the state is one its phase allows (`PhaseOK`: how many
multiplications of the buffer are made and how many checked). A step of an engine is
the machine's next step, or leaves its state as it is (`EngineMoves`), and the machine keeps
`PhaseOK` (`SuccPhase`); `ChecksComplete` is `PhaseOK` in the last phase.

For `Aligned` the two engines are two places on one path of the machine, and each
channel holds the messages of the transfers that lie between the sender's place and
the receiver's, in their order, and nothing else (`Line`, `Shadow`, `NetInv`). The first of
them is what the receiver computes when it comes there, because it is then in the
state the sender was in. For `NoMaskTwice`, `MaskInv` adds where the prover's correlations
are: not yet drawn, in the buffer, drawn by the running call, or used as a mask, and no one
in two of these places (`Apart`); and that the slots the next multiplications take are
not spent (`Ready`). The producers, the ring and the send buffers are free to do as they
please in all three: only the offsets in the round in use count.

`DriftBounded` is about the producers. It relates the two engines, which no single step
keeps in relation. `RoundsInStep` with the
counters' types is inductive: an engine holds or has used no more than its
producer published, which is no more than the peer's producer entered, which is
at most `N` more than the peer's engine released. `InStep` and `Drift` follow, for
any program.

**MvzkNVole.** `PairsGoOn` is not inductive: it speaks of the present tasks only.
`IInv` adds that tasks start in the order of the peers' ids (so what is still
queued is an upper part of them), that a pair's ends differ by at most one
direction in which the one behind verifies, that steps belong to the current
round, and that the prover's counters are in step with the verifiers'.
`PairsNeverStall` then takes, among verifiers that are all in the mesh of one round
or past it, the least id with an unfinished pair and its least unfinished peer:
both ends have the pair's task running, or their pools run nothing and can start
it, for a smaller unfinished peer would be a smaller choice (`LeastCanStart`);
if only one end has still to finish, it verifies and can go on
(`BehindCanVerify`); if both run the task, the committer of the direction or the
verifier that is behind can (`PairCanStep`). The least elements exist by the
well-ordering of the naturals (`LeastVerifier`).
For `ValuesFilled`, `SecretsOK` says that a verifier's values are this extend's as soon as
the pair with its designated peer has passed the step that writes them (`Threshold`); with
`IInv` it is inductive, and when the pool has joined, that pair is finished.

**MvzkMesh.** None of the five properties is inductive. `IInv` says for each pair
what is on the channel, from how far its writer and its reader are (`ChannelIs`): in
the same exchange, what is written and not yet read; with the writer one ahead, the rest
of the reader's message and then the writer's next; with the reader ahead, nothing.
`HeardOK` says that what was read in an exchange is what the peer says in it, which
it could not have said without having come there, and what is said does not change
afterwards (`PieceStays`). `VerdictOK` says who ends and why: at the echo if
digests differ, which all find out, or at the last exchange. `Delivered` follows from
`HeardOK`. For `NobodyIsCut`, a verifier that failed has written and read all of
its exchange, and everybody else is in that exchange too (`CutOff`). For `NeverStalls`, take
among the verifiers not done those in the earliest exchange, and of these the one
whose writing or reading is at the least distance: the peer it waits for is at the
same distance in the same exchange, and either its reading or its writing can go on.
`BoundFirst` follows from `ChannelIs` and the readers' progress: what is on a channel of an
exchange that opens something is of its writer's present exchange or the one before
(`OnTheWire`), the commitments are exchanged right before (`OpenFollowsCom`), and a verifier enters an
exchange when it has read all of the one before (`ReadBehind`).

`OneVerdict` is about sums over all verifiers. Two invariants are added: the deals and coins are
field elements and no verifier keeps a share of its own deal (`DrawnOK`), and a verdict says what
the errors, values and digests of the case say (`Judged`). A verifier at the end of a check has
heard from every other what that one says (`EndSums`, from `HeardOK`), so that it sums what all
masked; that this is the sum of the errors is `ZeroSharesCancel`: what verifier `j` puts in for
itself is minus the sum of its deal mod `q` (`KeptShare`), what it adds is the sum of a column of the
deals, and the sums of the rows and of the columns are the same (`PartSwap`). For these sums
`SumMod`, a fold over the set of verifiers, is shown to be a recursion over its subsets
(`SumIsTotal`), and what would be proved by induction is proved on a subset with the least
number of members for which it fails (`Minimal`).

**MvzkWires.** `MasksFresh` only looks at the messages sent. `MInv` says why it
lasts: the pool is the last piece of the correlations consumed so far
(`PoolIsTail`), whether a refill is complete or has stopped at the end of an extend;
messages were masked with sharings below what is left of the pool
(`MasksBelow`), each above the one before (`MasksRise`). A message takes the next
sharings of the pool (`UsingMasks`), a refill drops the rest and continues behind
the correlations consumed (`Refilling`), and a new extend starts where the last
ended, because a party enters it only when it has consumed all of the last
(`Leaving`). Steps of verifiers and calls of the program do not touch the
prover's pool. `MasksNeverReused` follows for every program.

`BufferNeverOverflows` and `BatchStaysAlive` are about a party's place in the program. `WInv` says that the program is well
formed (`ProgOK`: each call has the arguments `CallOK` allows, and only the last is a `finalize`), that
each party is in a call of it, or between two (`Placed`), how many products it has recorded and
wires in its batch (`Recorded`), and who holds those wires (`Held`). The prover records a product when
it is called, a verifier when its batch arrives; so the bound of the prover's buffer counts its wires in the
batch, and that of a verifier needs that a batch adds one product per wire at most (`FillRecords`).
`FillBatch` is a recursive function over the wires of the batch: it exists and has the values
its definition says, or there would be a least number of wires for which it has not (`FillBatchIs`).
`BatchStaysAlive` needs the other half of `Held`: nothing is let go between batches, since `seen` is
the number of batches whenever a wire waits at the end of a call; and that what a root of `Alive` is, is
alive, which needs that its recursion exists (`ReachExists`).

The remaining four follow from one fact: what a party does depends on the program and on how far it has
come in it, never on when messages arrive. So there is one machine (`Started`, `Succ`: place, products
recorded, batch, pool, batches and values of the slots), and `OneMachine` proves that each party
is at a place of its path through the program so far (`OnPath`, `As`). A verifier that waits for
others in an exchange counts as past it already (`Stands`), since what it adds to the mesh is
decided when it arrives. A channel then holds what the machine sends between the receiver's place and
the prover's (`Delivered`, `Line`), so that what arrives first is what the receiver expects
(`NextMessage`), and the verifiers who post to an exchange post the same (`PostedAgree`). Slots are right
whether they were computed at once or wait for their terms (`SlotsRight`, `MaterializeRight`), a call
added to the program lengthens the path and changes nothing of what is behind (`Moves`, `PathGrows`).
From this: checks of a prover that follows the program find what they compare equal (`Accepts`), slots said
to be ready hold the program's value (`ReadyWiresRight`), and the products recorded, being checked and
already checked are those of the calls passed, each once (`ProductsOnce`). `NobodyIsStuck` takes a
party that is not at the end and behind which no other is (`LastOne`): a message it waits for has
been sent (`Comes`), and it is only still in the prover's buffer while the prover can go on, which flushes
before it waits (`Flushed`, `HeldBack`); an extend or an exchange it waits in is complete when all others
are there too.

**BoolEngine.** As in `FpOSTriple`, what a party does next depends on its program and its
own buffers, and never on what it receives. Here the machine (`Succ`) keeps both
directions of the connection: its place has the messages either party has sent when both
are there, the transcript with what ALICE has still staged, and the places where blocks were
cut. `TwoInv` says that both parties are at places of one path of the machine (`OnOnePath`):
what a party has in its lists and buffers is what the place has (`Matches`), except that it may
have flushed for a wait already (`Flushing`). A step of a party is the machine's step from its
place, and lengthens the path when the party is the first there; the producers and the send
buffers change nothing of it. A place of the path leads to every later one (`Leads`): no
message, challenge or cut behind it changes. `Aligned` and `CutsInStep` follow by comparing
the two places.

What the machine does on its own, `Good`, has six parts. `Sound`: types, the gates of a wave fit their batch, and the list of
steps has the shape a call gives it (a challenge is taken right after a flush, so that
nothing is staged then; a check is followed by its fold). `Binding`: the transcript has all that was transferred;
after the challenge of a check something is transferred before any challenge that the digest
alone would make the same, and after a permutation's point before the next point, which
is the permutation's opening (`Parted`, `Opened`); so of two challenges with one input the
earlier is a coefficient vector, and the later no point, whose tweak differs (`Once`). `Books`: the gates checked and those buffered are `1 .. issued`, in order and
each once. `F2kFine`: the outputs in `f2k_auth_buffer` end with those of the products that
wait for their check, since a VOLE run is preceded by the check that empties them.
`Lasts`: nothing is called after the destructor. `Accounted`: what is buffered is folded
before the session ends; for the products of a permutation that is the `batch_check()` at its
end, with which `open_eq_()` leaves none. These talk about lists of steps and calls by
what precedes or follows what (`Preceded`, `Followed`, `Some`), which is why the calls are
concatenations and the repetitions of `eval_()` are functions on an interval: no recursion over the list is needed.
`ChallengesCover` and `EveryGateChecked` follow from `Binding` and from `Books` with `Accounted`.

**BoolIO.** What an end does depends on the calls made and on how many of them it
has made, never on when the other makes its own. So one machine is enough for both: `Path` is
its state after each call (the transcript, the block that is open, the challenges), and a call added to the program changes nothing of what is behind it. `IOInv` puts each end at a place of
that path, says that what the sender has logged and the receiver has not is on the
channel, and that nobody has passed a call that receives before the other has made it. `BothFollow` is that invariant;
`StreamsInOrder` (a bit is taken by the call that sent it) and `SameTranscripts` (equal challenges) follow
for blocks of any size and any number of calls.

**AbortGuard.** What a watchdog says of a peer depends on what is in the socket
between them, which outlives the peer. `IInv` adds to the types the state of each process
by itself (`LocalOK`: who aborts, how far `fail()` or `stop()` has got, what the watchdog still
polls, how the process ended); what is on the wire from one party to another
(`SentOK`: nothing before the writer's turn comes to that peer, then its ABORT
or its DONE until it is read); and that a watchdog's verdict is true of the peer it
names and is only reached when a check failed or a process died (`BlameOK`).
`VerdictIsKnown` and `BlameTrue` follow for any number of parties and of crashes: in
particular no normal finish is reported as a crash.

**EdaBits.** `BoolToArith` and `ArithToBool` are the arithmetic of one conversion for
every prime: the masked value wraps at `2 * PR + 2`, is corrected by the sign bit, opened
and unmasked modulo `PR`. `IInv` carries them over a chunk: each edabit of the chunk
under way was masked with the candidates that are in the batch now (`CallOK`),
because a chunk is no longer than the edabits left, or than a fresh batch when there
are none. `ExactConversions` follows for every batch size and any conversions.

The other three rest on where the indices go. The loops over the partners are recursive
functions; both are given in closed form, `Place(At(rand, j, i))`, a walk that goes around
the candidates behind the kept ones once at most (`PartnerAt`), and a recursive function has one
value only, or there would be a least index where two differ (`LoopIs`). The walk meets no
candidate twice and no opened one (`PartnersApart`), so that buckets have `B` members and are
apart (`BucketFacts`). `RightPartner` and `RightSum` say what a bucket's sum tells.
`CutInv` adds to `IInv` that the batch at hand passed its checks (`BatchOK`) and that all masks so far lie
below the next one, and what was shown behind the kept edabits of its batch (`MaskOK`), which is what a
refill of the buffer could break. `CutAndChoose`, `MasksNeverShown` and `HonestFailsRarely` follow.

The attempt to prove `RightPartner` showed the first form of `WrongByBuckets` too strong: a
kept boolean of `value + PR` or `value - PR` passes with right partners, since nothing bounds the 62-bit
inputs (`edabits.h:104-112`) and the sums are corrected by a multiple of `PR`. The property now names
the two numbers, and the run has batches with them.

**ZkMemory.** `HonestProverAccepted` rests on an equation: what an honest prover has left
unread is one record per cell and, for read/write memories, one per element of the
set, those of her copy (`CopyOK`). An access replaces one record by another
(`OneRecordChanges`), which needs the time and version read to be what the fields of
`time_sz` bits hold of them (`Narrow`). That `2 ^ ramzk_bits_for(T)` exceeds `T` is an
assumption (`BitsAssumption`) since the provers know nothing of powers; TLC evaluates
it for the values of `T` that it is given, and it is what `ramzk_bits_for()` loops for.

`PinsToLatestWrite` is about any prover, and counts records. `LogInv` says that there are times
and versions, one of each per access, of which the two bags are the ledger (`Ledger`): of
each record, how many more accesses read it than wrote it, less one for a record of
the start. What `check()` accepts leaves nothing to be read but records written (`Settled`).
So each record read was written, by an access or at the start (`ReadWasWritten`), and no record twice,
because the clock makes each one written different (`ReadOnce`). An element queried
that is not in `1 .. T` was not there at the start either: each version read of it was written by
another query of it, so that all `2^time_sz` versions would have been read, by at most `T` accesses
(`NoCycle`, `QueriedMember`). With `Width >= 2T` a time that is not in the past gives no difference in `1 .. T`
(`TimesPast`). Then no access to a cell lies between an access and the one whose record it reads, for
the first that skipped one would share a record with the one it skipped (`LastAccess`), and the contents follow by taking
the first access that returns anything else (`PlainMemory`).

**Only model-checked.** All liveness properties (`CloseCompletes`, `ProofCompletes`,
`AbortReachesAll`, `FinishTogether`, the
fairness part of `ImplementsStream`), which need reasoning about ENABLED. Every invariant
of a passing run is proved.

## Disagreements with the documentation

Two runs check a sentence of a comment, and TLC refutes it.

- `arith_teardown`: "`finish()` wakes both so neither deadlocks at shutdown"
  (`correlation_pipe.h:14`), "both parties reach here after consuming
  identically, so their producers are at the same round" (`ostriple.h:297-298`).
  With a free slot on both sides one producer may enter its next cross-party
  round just before its engine calls `finish()`, while the other sees `done` and
  exits; the first waits for a partner that has left, and `join()` for it. The
  closing sequence of the boolean engine (`zk_bool_base.h:346-353`) is the same.
  What would help is closing the second socket, or agreeing on a last round.
  The pipe itself is not to blame: `CloseCompletes` holds when a round always
  ends.
- `ram`: "shuffle 2: clock - t in {1, ..., T} (that write happened in the past)",
  which "pins each read to the most recent write" (`zk_ram.h:19-24`). The difference
  has the width of `T` itself (`zk_perm_proof.h:381-386`), so that for a time `t` after
  the clock it wraps around, and with `T = 3` and two bits it is in `1 .. 3` again.
  What holds is `ReadsLatest`: the sentence is right when `2^time_sz >= 2T`, one more bit
  at most.

Four more comments say what the models do not confirm, without a run of their own:

- "bounds the drift to <= 2 rounds, exactly the double buffer's capacity"
  (`ostriple.h:258-259`) dates from a ring of two; what is proved is a bound by the
  number of slots, four by default (`DriftBounded`).
- "the others print `peer j aborted: <reason>`" (`README.md:177`): a party may read the
  closed socket of another that has already left because of the ABORT before
  it reads the ABORT itself, and then names that one. What holds is
  `BlameIsTrue`: a party reported as crashed did end without finishing.
- "the monotone clock forbids cycles" (`zk_ram.h:21`) of read-only memories, for which
  shuffle 2 is skipped: in the model a record whose time is not before the access
  balances the first shuffle too. `ReadsLatest` is stated for read/write memories only.
- "Each compress() draws a FRESH coefficient by Fiat-Shamir at compress time", and
  "elements folded in different compress() calls collapse under different
  coefficients" (`zk_perm_proof.h:180-184`; "each fold draws its own coefficient",
  `test/bool/perm_proof.cpp:29-30`): the seed is the digest of the transcript
  (`zk_perm_proof.h:227`) and `compress()` sends nothing, so two calls with nothing
  sent between draw the same coefficients, as in that test's periodic mode, which
  makes all wires before it folds. The last program of `bool_engine` does the like.
  What holds is `ChallengesBind`: what is folded is bound, and no evaluation
  point is derived from the input of a coefficient vector. A digest is taken to depend on the transcript alone, as the
  comment at `zk_perm_proof.h:245-247` does.

## Not modelled

- Cryptography: VOLE, commitments, hashes, field arithmetic of the checks. A check
  is modelled by what it covers and by what must agree for it to pass.
- `mark_producer_done()` (`correlation_pipe.h:40`) and `stop(false)`
  (`abort.h:47`), which nothing calls; a second `fail()` while the first is
  under way, which ends the process like the first.
- Of the multi-verifier backend: the algebra of packing and of the compression rounds
  (a check is what it covers), MAC keys and their sharing, the variants of a call that
  take raw pointers or vectors, and `int_fp_vec.h`.
- The single-socket mode of the engines: draws go straight to the sVOLE on the
  main socket and there is one thread per party.
- External libraries (emp-tool's `NetIO` and thread pools, emp-ot's Ferret, the VOLE
  library), modelled only as far as the code's use of them: an ordered channel
  with a send buffer, a pool that runs tasks in the order they were queued,
  exchanges that need both parties.
- The verifiers' exchanges together with their watchdogs: `MvzkMesh` and `AbortGuard`
  are not composed.
- The handshake of sibling connections in `vole_stream.h`: sockets of the operating
  system opened one after the other; that both parties ask for as many is up to their
  callers.
- `fp59.h`, `fp59x2.h`, `ntt.h`, `lagrange.h`, `poly.h`: products of 118 bits are beyond TLC's
  integers, interpolation is out of its reach.
- The engines' worker pools: they split the arithmetic of one step among threads and
  join before the next message.
- The other components with status `not_modelled` in `PROJECT.json`, with the reason
  for each.

## Plan

Done: `CorrelationPipe` with its refinement and proofs, `FpOSTriple` with
the proofs of its safety properties, `BoolIO`, `BoolEngine`, `ZkMemory` and `EdaBits`
with their proofs, `AbortGuard` with its proofs, `MvzkNVole` and `MvzkMesh` with their proofs,
`MvzkWires` with the proofs of its safety properties.

What would come next: the background producers of `BoolEngine` shown to implement
`CorrelationStream`; the arithmetic polynomial proofs as calls of `FpOSTriple`, with the
draws `EdaBits` makes there; `MvzkMesh` with the watchdogs of `AbortGuard`; the lifecycle of the
singletons of `emp-zk-arith.h` (a second setup and finalize without conversions, which no
program here makes, would delete `EdaBits::conv` twice).
Theorems: `BoolIO` and `BoolEngine` joined, the cuts of the engine (`CutsAgree`) giving the
premise of the channel (`StreamsOrdered`).
