# The Consuma Audio Engine in TLA+

The engine turns a manuscript into an audio drama: `POST /jobs` stores it, workers
split it into blocks, synthesise each block under a global concurrency limit, count
the blocks down in a fan-in barrier and stitch the chunks together. This directory
models that pipeline, its semaphore and its content cache, model-checks small
instances with TLC and proves the main safety properties for all instances with TLAPS.

Paths below are relative to `src/`: *core* is `packages/core/src/core`, *gateway* is
`services/gateway/src/gateway`, *worker* is `services/worker/src/worker`.

## The system and its parts

| part | code | state | module |
|---|---|---|---|
| job state machine | core/domain/state.py | - | JobState |
| events, queues, retry ladder | core/domain/events.py, core/infra/broker.py | RabbitMQ queues | Broker |
| ingestion | gateway/main.py `create_job` | one request per job | Pipeline |
| sweeper | gateway/sweeper.py | ids of a pass in progress | Pipeline |
| barrier and transitions | core/infra/queries.py, db.py | `jobs`, `tasks` rows | Pipeline |
| delivery wrapper | worker/handlers/_base.py | one unacknowledged message per handler | Pipeline |
| parse, tts, stitch, dlq | worker/handlers/*.py | the handlers' locals | Pipeline |
| object store | core/infra/storage.py | manuscripts, assets | Pipeline |
| TTS semaphore | core/infra/redis.py `Semaphore` | pool, leases, heartbeats | Semaphore |
| reaper, reseeder | worker/maintenance.py | - | Semaphore |
| content cache, in-flight lock | core/infra/redis.py `Cache`, tts.py `_synthesize` | Redis keys, stored audio | TtsCache |
| TTL, waits, ladder delays | redis.py, tts.py, broker.py `RETRY_DELAYS` | seconds left | TtsLadder |
| block splitting | core/domain/text.py | - | SplitBlocks |

The parts meet in three places. The gateway and every handler meet in the database
and in the queues. The tts handlers meet each other in the semaphore, and those with
identical text also in the cache and the in-flight lock. Handlers commit first, publish
second and acknowledge last, so every crash repeats work, and the conditional UPDATEs
of queries.py have to make repetition harmless.

## Modules

* **JobState** - the status enum, `LEGAL`, and `expected_for`, from which every
  compare-and-set gets its WHERE clause.
* **Broker** - a message is an event, a queue family (`live`, `retry`, `dlq`) and the
  `x-retry-count` header. The queues are a bag, so no delivery order is assumed.
  `route_retry_or_dlq` computes the copy that replaces a failing message.
* **Pipeline** - gateway, sweeper, handlers and database. A `Handler` is a delivery in
  progress; `pc[h]` names the call it is about to make. Every await on shared state is
  one action and so is every transaction: its first UPDATE locks the claimed row and
  the later ones the job's row. `Raise` is an exception inside `do_work`, `Route` the
  publish of the retry copy, `RouteFails` that publish failing (aio-pika's `process()`
  then rejects without requeue), `Nack` the resolver's requeue, `Crash` the loss of a
  worker, after which RabbitMQ delivers again. A step that raises has done nothing; a
  commit that took effect although its reply was lost is the commit followed by a raise
  of the next step or, where only the acknowledgement is left, by a crash before it and a
  raise of the redelivery. So the theorems, which hold for all steps that may raise and
  any number of crashes, cover it, and `Steady` (see `NoWorkLost`) excludes it.
  `reclaimed` and `notified` are history.
* **JobContract** - what a client of the engine may rely on, without queues, retries or
  counters: each block is resolved once, assembly starts when none is left, the drama
  is exactly the blocks that were not lost, finished jobs do not change.
* **PipelineInv** - the inductive strengthenings used by the proofs.
* **Semaphore** - one action per Redis command or Lua script of `acquire`, `release`,
  `reap` and `ensure_slots`. A process has at most one *registered* heartbeat per
  token (the `_heartbeats` dictionary) and possibly *leaked* ones, whose entry was
  overwritten. `Expire`, `Stall`, `Fail`, `HeartbeatFails`, `CrashProcess` and `Wipe` are what
  the lease and the two loops exist for. `extra` is history: how many live holders a
  token was given out past.
* **TtsCache** - the inside of Pipeline's one audio step: one action per command of
  `cache_get`, `acquire_inflight`, `wait_for_cache`, `cache_set` and `release_inflight`,
  the slot and the upload. `pc[d]` is the next call of the handler of message `d`; the
  steps with `!` are those of an exception passing through the `finally` blocks. A
  command that raises may have been executed. `passed` is history: how often a lock
  ended while somebody was synthesising under it.
* **TtsLadder** - TtsCache with durations. Each action is one of TtsCache with a guard
  on, and a new value for, the seconds that are left; `Tick` lets a second pass when
  nothing is due. A behaviour belongs to one *scenario*: which messages are sent, the
  four durations, how long a winner may take, and what may go wrong.
* **SplitBlocks** - `split_blocks` as a recursion over lines, next to the rule of its
  docstring stated without a loop.
* **MCPipeline**, **MCEdges**, **MCSemaphore**, **MCTts** - values of the constants for
  TLC; MCEdges puts SplitBlocks and Pipeline together.
* **PipelineProofs**, **ContractProofs**, **DrivenProofs**, **SemaphoreProofs**,
  **TtsProofs**, **LadderProofs**, **SplitProofs** - the theorems; **Recursion** -
  induction and recursive functions over the natural numbers, for the last three.

Operators whose comment begins "Mutation" are deliberately wrong variants of the
definition that follows them. No specification uses them; each shows that a property
notices that mistake.

### What is abstracted

A manuscript is its number of blocks and whether it holds the poison marker; an asset
is its set of blocks (the chunk query orders by `block_index`, so the set determines
the bytes); an event is its job and block. Except in TtsLadder time does not appear: a
delay, a lease, a key or the sweeper's cutoff may end at any moment the code does not
rule out, except that a lease with a running heartbeat ends only by a `Stall`, and those
are counted. In Pipeline, fetching or synthesising a block's audio is one step that
succeeds or raises; TtsCache is what happens inside it, and there the semaphore is two
numbers, tokens to pop and tokens the reaper or the reseeder has yet to return, which is
what Semaphore promises as long as no heartbeat leaks. A text is its content hash,
without collisions. The lock's value is left out because no command reads it: `release_inflight` is a plain DEL. In
TtsLadder waiting for a slot and synthesising share one allowance (`patience`), and
steps that wait for nothing are closer together than a second.

## Properties

Safety of the pipeline:

* `TypeInv` - types, and each handler's message fits its step.
* `BarrierCount` - the counter equals the blocks minus the resolved ones; a block
  completed after it was FAILED counts twice.
* `WholeDrama` - a COMPLETED job has no unresolved block and its asset is its DONE
  blocks, unless a FAILED block was completed later.
* `NotifiedOnce` - at most one webhook, and only for a COMPLETED job.
* `NoResurrection` - no step raises a seeded counter or leaves a terminal status.
* `Driven` - a job in progress has an event on its way that moves it on.
* `ImplementsContract` - every step is a step of JobContract or leaves it unchanged.
* `FollowsContract` - the same where blocks are dead-lettered, until a FAILED block is
  completed.

Liveness: `JobTerminates` (a committed job ends) and `PoisonFails` (an unparsable one
ends FAILED).

Semaphore: `Circulation` (the soft limit), `WorkersLeased` (a working client keeps its
lease until a heartbeat is late or the keys are lost) and `Served` (nobody waits for a
slot for ever, unless a heartbeat has leaked; `NoStarvation` without the exception is
the violated one). `Circulation` is exact about the excess: a token given out past a
live holder is pushed back by both, so `extra` only ever grows, where redis.py:136-137
calls the excess brief.

Cache:

* `HitHasAudio` - whatever is cached or recorded has its audio in the store.
* `SingleFlight` - one synthesiser per text, plus one for each time its lock ended under
  a live one, although a late owner deletes the next owner's lock.
* `WaitersOutlastWinner` - if nothing goes wrong, no waiter is dead-lettered while the
  winner keeps to the lock's TTL: the ladder is longer than the lock.
* `OldLockHarmless` - the lock left by one crash costs a block only if the block met it
  with at least the length of the whole ladder left on it. With a second crash this is
  false: a block that has climbed half the ladder past one abandoned lock may meet the
  next one, and has only the other half left.
* `Settled` - every message is claimed or dead-lettered, whatever of the scenario goes
  wrong, provided the tokens of crashed handlers come back. They do unless a leaked
  heartbeat keeps one leased, which is the exception in `Served`.

Splitting: `SplitsParagraphs` - `split_blocks` returns exactly the stripped paragraphs,
in order. `KeepsWords` - the lines with a word are, one to one, in order and word by
word, the lines of the blocks it returns. Neither mentions state, so TLC evaluates both for
short manuscripts as the assumption `SplitChecked` of MCEdges when it starts the run
`edges`; `SplitCorrect` and `NoLineLost` prove them for all manuscripts.

The exceptions in `BarrierCount` and `WholeDrama` are not conveniences: without them
the properties are false, which is what the run `incomplete_drama` shows. `BarrierCount`
speaks of jobs whose counter was seeded and that have not FAILED: a JobCreated copy
handled after the job FAILED from PENDING inserts rows and fans out without a seed.

## Runs

`tlc -config <cfg> <module>`; the configurations Pipeline_* belong to MCPipeline
(Pipeline_edges to MCEdges), Semaphore_* to MCSemaphore and Tts_* to MCTts.

| run | instance | result |
|---|---|---|
| redelivery | 2 handlers, 2 blocks, sweeper copies up to 2, 1 crash | all seven safety properties hold, 311,011 states |
| failures | 2 handlers, 1 block, 1 retry, every step may raise, routing included | `BarrierCount`, `NotifiedOnce`, `NoResurrection`, `FollowsContract` hold, 322,673 states |
| termination | 2 handlers, 1 block, 1 crash, parse, stitch and resolver fail | `JobTerminates` holds, 91,737 states |
| partial | 2 handlers, 2 blocks, tts and resolver fail, a sweeper copy | `WholeDrama`, `Driven`, `FollowsContract`, `JobTerminates` hold, 346,544 states |
| edges | 2 jobs with a blank manuscript, one poison, 1 retry | `PoisonFails`, `JobTerminates` hold, 31,905 states; `SplitsParagraphs` and `KeepsWords` for all manuscripts of up to 4 lines |
| soft_limit | 1 token, 3 clients in 2 processes, 1 stall, 2 faults, 1 wipe | `Circulation`, `WorkersLeased`, `Served` hold, 117,474 states |
| tts_ladder | 3 messages, 2 of them identical, 1 slot, prefetch 2, seven scenarios | all five cache properties hold, 342,555 states |
| incomplete_drama, lost_message, stalled_job, slot_lost, orphan_lock | see the next section | violated |

**Bounds.** Two handlers are the smallest number with races; a second block makes
"early" completion possible; one crash puts a failure at every step; a ladder of none
or one retry has both of its branches. `MaxCopies` bounds only how many JobCreated the
sweeper adds, since the gateway's own publish and redeliveries are extra. Three
clients over two processes give a token two holders in one process and a competitor
in another; every step but seeding, wiping and crashing concerns one token, and those
three treat all alike, so one token is enough and leaves room for more faults. Two of
the scenarios of `tts_ladder` (`Real`) have the durations of the code: 60 s lock, 10 s
wait, delays of 1, 4 and 16 s, once with a crash and once with a winner that takes as
long as its lock. The others (`Brief`) have a shorter ladder that is still longer than
the lock, and spend the states on a crash, two failing commands, a lost entry or wipe,
and a third message. Four lines of two words, each with or without
space around it, give a manuscript blank lines, with spaces and without, before, between
and after two paragraphs. Handlers are interchangeable and a symmetry set in the safety
runs only. Deadlock checking is off where the system
may stop: all jobs ended, or a fault used up.

## Where code and documentation disagree

1. **incomplete_drama.** `complete_task_and_decrement` claims any row that is not DONE
   (queries.py:50), a FAILED one included. A block dead-lettered from one copy of its
   request and completed from another is counted twice, and the job completes while
   another block is pending: the very "incomplete drama wrongly marked COMPLETED" of
   queries.py:37.
2. **lost_message.** If the retry publish itself fails while the channel stays open (a
   negative publisher confirm), the delivery is rejected without requeue;
   _base.py:20-21 says "the message is never lost".
3. **stalled_job.** The last claim is committed, the worker dies before StitchReady,
   the redelivery exhausts its retries, the resolver finds the block DONE and emits
   nothing: the job stays GENERATING, which queries.py:75 rules out. No crash is needed if
   the resolver itself brings the counter to zero, commits, and fails to publish
   StitchReady: its delivery is requeued, finds the block FAILED and emits nothing.
4. **slot_lost.** Two clients of one process with the same token leave a heartbeat
   that nobody can cancel (redis.py:190). It renews the lease of a dead holder, and the
   slot is gone until that process ends; redis.py:134-135 says the lease expires.
5. **orphan_lock.** A worker that dies within 9 s of taking the in-flight lock leaves it
   behind for the rest of its 60 s (redis.py:38). The redelivered block loses the race at
   0, 11, 25 and 51 s, waits 10 s each time for a synthesiser that is gone, and is
   dead-lettered at 61 s, so the job completes without it; test_crash_recovery.py:5-6
   says it converges "to COMPLETED with its full asset".

Two more sentences of the documentation are stronger than the code. maintenance.py:23
says the reaper "only ever reclaims genuinely-dead ones", yet between BLPOP and SET a
live client's token is neither in the pool nor leased. README.md:25 says "identical
blocks are only synthesised once", yet a message that read the cache before the winner
filled it and asks for the lock after the winner released it synthesises again:
`SingleFlight` is about synthesising at the same time, which is what the lock promises.

## Fairness

Pipeline (`Fairness`): weak fairness of delay expiry (a queue TTL), of deliveries to a
free consumer and of the work of live handlers taken together (an event loop runs what
is ready). Strong fairness of the resolver, which requeues whenever it raises: a
database that fails for ever would defeat it. Weak fairness of the sweeper's select
and strong fairness of its publish: `run_sweeper` swallows a failing pass and goes on.
Nothing is assumed of a client's request, and no other step that may raise is assumed
ever to succeed: retries may all fail.

Semaphore (`SemFairness`): the reaper and the reseeder outlive any failing pass, an
unrenewed lease expires, work in a slot ends, and BLPOP serves blocked clients in
order, which is strong fairness of `Pop`. Every process restarts.

Cache (`LadderFairSpec`): weak fairness of the whole next-state relation. As long as
something can happen something does, which includes time passing; no retry, no command
and no token is singled out.

## Proofs

`tlapm <module>` checks them. Assumptions: `BrokerAssumption`, `PipelineAssumption`,
`SemaphoreAssumption`, `TtsAssumption`, `LadderAssumption` - constants have their types,
`Client` and `Delivery` are finite. Numbers of jobs, handlers, retries, copies and
crashes, and the blocks of each job, are arbitrary.

* `TypeCorrect` (PipelineProofs): `Spec => []TypeInv`. `TypeOK` alone is not inductive;
  `HandlerOK` says which message a handler can have at each step.
* `BarrierHolds`, `BarrierExact` (PipelineProofs): `BarrierInv` adds to `BarrierCount`
  which rows exist in which status (`RowsOK`), that the row appears with the request's
  commit (`RequestOK`) and that a parse handler has seen it (`LoadedOK`). Each claim
  moves one block into the resolved set and subtracts one; a repeated parse inserts
  nothing because the rows are there and seeds nothing because the status has moved.
* `CounterNeverResurrected`, `GateHolds` (PipelineProofs): a step-by-step argument from
  the same invariant. `GateInv` follows each StitchReady, in a queue or in a handler's
  hand, back to a counter that had reached zero, and hence so does STITCHING.
* `DramaIsWhole`, `WebhookOnce` (ContractProofs): past the gate and without a reclaimed
  block every block is resolved, so the DONE blocks no longer change and every stitch
  handler, early or late, holds the same bytes (`AssetInv`). Only one handler wins
  `finalize_job` (`NotifyInv`).
* `ContractFollowed`, `ContractImplemented` (ContractProofs): the refinement of
  JobContract. The steps of the database are the same five kinds the barrier proof
  distinguishes (accept, start, advance, claim, nothing), and each is one step of the
  contract or leaves its view of the job alone: seeding needs `RowsOK` (all rows are
  PENDING then), assembling needs `GateInv` (nothing left to do), completing needs
  `AssetInv` (the asset is the blocks that were not lost). A claim of a FAILED row is
  the one step the contract does not have; `FollowsContract` speaks of the steps before
  it, and a behaviour without one implements the contract as a whole.
* `RequestsKept` (DrivenProofs): `RoutingHolds /\ Spec => []WorkInv`. If only the publish
  of the retry copy never fails, then whatever raises and whoever crashes, every
  unresolved block of a GENERATING job has its request queued or held unless the parse
  is to be repeated, and a job being stitched has its StitchReady (`JobDriven`).
  `WorkInv` adds what each handler has established for its job at each step
  (`ProgressOK`: a parse handler in its publish loop has sent every earlier block) and
  that requests and StitchReady exist only for a job past PARSING (`EventOK`). An event
  stays live until some handler ends its work on it (`LiveStays`), so the proof goes
  through those endings: each has published the next event, has left the job
  terminal, or has found the block counted.
* `NoWorkLost` (DrivenProofs): `Reliable /\ Spec => []Driven`. What `RequestsKept` leaves
  open is the StitchReady of the last block. `Reliable` says that routing does not fail
  and that either no step of the tts handler raises (`Smooth`), or no handler crashes
  and neither emit step raises (`Steady`). In the first case no block is given up
  (`SmoothInv`), so `BarrierCount` makes the counter exactly zero at the last claim, and
  should its handler die, another one rereads that zero. In the second the counter may
  run past zero, when a block is counted twice, but it goes down one at a time, and
  whoever brings it to zero publishes (`LastKept`). None of its parts
  can simply be dropped: TLC finds `Driven` violated when routing fails after another
  step has (run lost_message), when one handler crashes and any one tts step may raise
  (run stalled_job shows such a job), and without crashes when `tts:emit` may raise, or
  `dlq:emit` together with `tts:audio` or `tts:claim`.
* `SemTypes`, `SoftLimit` (SemaphoreProofs): `SemTypeOK` and `Circulation`, together with
  the fact that a client has a token exactly while it will return it. Each push is paid for by a
  holder, each reclaim by a raised `extra`.
* `LeaseProtects` (SemaphoreProofs): `SemSpec => []WorkersLeased`. By `SoftLimit`, a token
  that was never given out twice has one holder, so nobody else's release, crash or
  expiry can touch its lease.
* `TtsTypes`, `CacheHits` (TtsProofs): `HitHasAudio` is strengthened by the handlers
  between the upload and the SET, which have stored the object as well. No step removes
  an object.
* `OneSynthesiser` (TtsProofs): `SingleFlight` is inductive together with the types. A
  handler begins only without a lock and takes it; a release removes the lock along with
  a synthesiser; an expiry under one is counted in `passed`.
* `LadderImplementsTts` (TtsProofs): every step with durations is a step of TtsCache or a
  stutter, so the two theorems above hold for any TTL, wait and ladder.
* `LadderTypes` (TtsProofs): timers and TTLs stay natural numbers. A retry raises the
  count by one, so every delay that is asked for exists.
* `LadderOutlastsWinner` (LadderProofs): `LongLadder` implies
  `LadderSpec => []WaitersOutlastWinner`. `LongLadder` says of the constants that the TTL
  is shorter than the waits and delays up to and including the last wait; TLC evaluates it
  for the durations of the code (60 < 61) and of `Brief`. `CalmInv` says what holds while
  nothing raises or is lost: a lock has a synthesiser, and one that releases it has
  cached its audio. `OutlastInv` follows the audio: at its k-th retry a message has behind it the
  k waits and delays of `Climb`, and the winner it waits for has been working all that
  time. So in its last wait the winner's time is over first, and the poll finds the
  audio. What is proved is a little more: the winner may take anything short of the
  ladder, even longer than its lock lives.
* `OldLocksHarmless` (LadderProofs): `LadderSpec => []OldLockHarmless`, without an
  assumption about the durations. `OrphanInv` measures the abandoned lock with the clock
  of the message that waits for it: at its k-th retry the lock has lost what `Climb`
  gives for k since the message met it. A message whose winner is alive is safe, since
  the winner is faster than one wait; when that winner crashes in the middle of the
  message's first wait, the lock is the one the message met (`Facing`) or another
  synthesiser is left (`Twofold`). The invariant also has to say that before the crash
  nobody has retried at all (`Unharmed`).
* `SplitCorrect`, `NoLineLost`, `BlankHasNoBlocks` (SplitProofs): for every manuscript.
  After k lines the loop has listed the paragraphs that end before the one it is reading
  (`Found`); a blank line, or the end, adds that one, and it is the only paragraph that
  ends there (`NextParagraph`). `NoLineLost` is about what
  `split_blocks` returns: the paragraph around a line is found with the least element of
  two sets of line numbers (`LineInParagraph`), a block has the words of its paragraph line
  by line (`BlockLines`), and paragraphs do not overlap, so each line has one place in the
  blocks and the places are in the order of the lines (`HomesInOrder`).

`Climb` and `Scanned` are recursive functions. That they satisfy their own equations is
proved from `PrimitiveRecursion` and `RunExists` (Recursion), and those by induction in
the form "a set with 0 and all successors", which needs no operator as a parameter.

Only model-checked: all liveness (`JobTerminates`, `PoisonFails`, `Served`, `Settled`),
because the prover does not reason about fairness. Every invariant and every action
property that a passing run checks is also proved.

## Not modelled

Logging, configuration, HTTP schemas and the request-size guard, status and statistics
reads, and the callback allowlist (its verdict is the constant `Callback`): none has
shared state. `mark_event`, `seen_once` and the inbox purge: on no message's path. A
worker's shutdown or lost connection: its deliveries in progress are cancelled and
delivered again, which is a crash. The audio format: an asset is its set of blocks. The
hash function: assumed free of collisions. RabbitMQ, Postgres, Redis and MinIO
themselves: modelled by what the code asks of them. Pipeline, TtsCache and Semaphore are
not run as one state machine: each takes from the next what its properties establish
(TtsAudio succeeds or raises; tokens come back unless a heartbeat leaks), and the product is out of TLC's reach.
