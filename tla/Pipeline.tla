------------------------------ MODULE Pipeline ------------------------------
(***************************************************************************)
(* The job pipeline: the gateway's POST /jobs, the pending-job sweeper,    *)
(* the parse, tts, stitch and dead-letter handlers, the ack-last delivery  *)
(* wrapper, the retry ladder and worker crashes, over Postgres (status,    *)
(* pending, task), MinIO (raw, asset) and RabbitMQ (queue).                *)
(*                                                                         *)
(* A Handler is one delivery being processed.  Every await that reads or   *)
(* writes shared state is one action; a database transaction is one        *)
(* action, because its first UPDATE locks the row it claims and every      *)
(* later statement of it locks the job's row.  A worker process runs many  *)
(* deliveries; losing it is the Crash of each of them in turn.             *)
(***************************************************************************)
EXTENDS Broker, JobState, FiniteSets

CONSTANTS
  Handler,      \* deliveries that can be in progress at once
  NBlocks,      \* [Job -> Nat]: how many blocks split_blocks finds
  Poison,       \* the jobs whose manuscript holds the POISON token
  Callback,     \* the jobs whose callback the allowlist lets through
  Faulty,       \* the steps whose I/O may raise
  MaxCopies,    \* bound: sweeper publishes up to this many JobCreated copies
  MaxCrashes,   \* bound: worker crashes
  NoMsg         \* what an idle handler holds

Min2(a, b) == IF a < b THEN a ELSE b

\* paragraphs[:MAX_BLOCKS], as the indices of the tasks.
Count(j) == Min2(NBlocks[j], MAX_BLOCKS)
Blocks(j) == 0 .. (Count(j) - 1)

\* The steps of the four handlers, named after the call each one makes.
ParseStep == {"parse:load", "parse:begin", "parse:advance", "parse:publish"}
TtsStep == {"tts:audio", "tts:claim", "tts:reread", "tts:emit"}
StitchStep == {"stitch:job", "stitch:chunks", "stitch:advance", "stitch:put",
               "stitch:finalize", "stitch:notify"}
DlqStep == {"dlq:resolve", "dlq:emit"}
WorkStep == ParseStep \cup TtsStep \cup StitchStep
Step == WorkStep \cup DlqStep \cup {"idle", "route", "ack"}

ASSUME PipelineAssumption ==
  /\ NBlocks \in [Job -> Nat]
  /\ Poison \subseteq Job
  /\ Callback \subseteq Job
  /\ Faulty \subseteq WorkStep \cup DlqStep \cup {"route"}
  /\ MaxCopies \in Nat
  /\ MaxCrashes \in Nat
  /\ NoMsg \notin Message

VARIABLES
  gw,        \* gw[j]: how far the POST /jobs request of j is
  stale,     \* the ids the sweeper has selected and not yet published
  status,    \* jobs.status, or "ABSENT" while there is no row
  pending,   \* jobs.pending_count, the fan-in counter
  task,      \* task[j][i]: tasks.status of block i, or "ABSENT"
  raw,       \* the jobs whose raw/<job>.txt is stored
  asset,     \* the blocks in out/<job>.mp3, {} while there is no object
  queue,     \* the broker's content
  pc,        \* pc[h]: the step handler h is at
  held,      \* the unacknowledged message of h
  cur,       \* cur[h]: the parse handler's position in its publish loop
  chunks,    \* chunks[h]: the stitch handler's chunk_keys
  crashes,   \* worker crashes so far
  reclaimed, \* history: the blocks completed after they had been FAILED
  notified   \* history: webhook POSTs per job

db == <<status, pending, task, reclaimed>>
store == <<raw, asset>>
gateway == <<gw, stale>>
local == <<pc, held, cur, chunks>>
vars == <<gateway, db, store, queue, local, crashes, notified>>

TaskStatus == {"ABSENT", "PENDING", "DONE", "FAILED"}

\* The type of every variable.
TypeOK ==
  /\ gw \in [Job -> {"new", "stored", "committed", "done", "lost"}]
  /\ stale \subseteq Job
  /\ status \in [Job -> JobStatus \cup {"ABSENT"}]
  /\ pending \in [Job -> Int]
  /\ task \in [Job -> [Index -> TaskStatus]]
  /\ raw \subseteq Job
  /\ asset \in [Job -> SUBSET Index]
  /\ queue \in [Message -> Nat]
  /\ pc \in [Handler -> Step]
  /\ held \in [Handler -> Message \cup {NoMsg}]
  /\ cur \in [Handler -> Nat]
  /\ chunks \in [Handler -> SUBSET Index]
  /\ crashes \in Nat
  /\ reclaimed \in [Job -> SUBSET Index]
  /\ notified \in [Job -> Nat]

Init ==
  /\ gw = [j \in Job |-> "new"]
  /\ stale = {}
  /\ status = [j \in Job |-> "ABSENT"]
  /\ pending = [j \in Job |-> 0]
  /\ task = [j \in Job |-> [i \in Index |-> "ABSENT"]]
  /\ raw = {}
  /\ asset = [j \in Job |-> {}]
  /\ queue = EmptyQueues
  /\ pc = [h \in Handler |-> "idle"]
  /\ held = [h \in Handler |-> NoMsg]
  /\ cur = [h \in Handler |-> 0]
  /\ chunks = [h \in Handler |-> {}]
  /\ crashes = 0
  /\ reclaimed = [j \in Job |-> {}]
  /\ notified = [j \in Job |-> 0]

-----------------------------------------------------------------------------
(* core/infra/queries.py: the conditional UPDATEs.                         *)

\* Mutation: ON CONFLICT DO UPDATE, which resets the rows already counted.
InsertTasks_Overwrite(j) ==
  task' = [task EXCEPT ![j] =
             [i \in Index |-> IF i \in Blocks(j) THEN "PENDING" ELSE @[i]]]

\* Insert the missing task rows of j (ON CONFLICT DO NOTHING).
InsertTasks(j) ==
  task' = [task EXCEPT ![j] =
             [i \in Index |-> IF i \in Blocks(j) /\ @[i] = "ABSENT"
                                THEN "PENDING" ELSE @[i]]]

\* Mutation: the seed without WHERE status = 'PENDING'.
begin_parse_Reseed(j, n) ==
  /\ status' = IF status[j] = "PENDING" THEN [status EXCEPT ![j] = "PARSING"]
                                         ELSE status
  /\ pending' = [pending EXCEPT ![j] = n]

\* Mutation: WHERE status <> 'COMPLETED', which opens a FAILED job again.
begin_parse_Reopen(j, n) ==
  IF status[j] # "COMPLETED"
    THEN /\ status' = [status EXCEPT ![j] = "PARSING"]
         /\ pending' = [pending EXCEPT ![j] = n]
    ELSE UNCHANGED <<status, pending>>

\* PENDING -> PARSING and the counter's seed, in one UPDATE.
begin_parse(j, n) ==
  IF status[j] = "PENDING"
    THEN /\ status' = [status EXCEPT ![j] = "PARSING"]
         /\ pending' = [pending EXCEPT ![j] = n]
    ELSE UNCHANGED <<status, pending>>

\* Mutation: the transition without WHERE status IN (expected).
advance_status_Unguarded(j, to) == status' = [status EXCEPT ![j] = to]

\* The compare-and-set transition; a no-op from any other status.
advance_status(j, to) ==
  status' = IF status[j] \in expected_for(to)
              THEN [status EXCEPT ![j] = to] ELSE status

\* The same for COMPLETED, which also stamps the one final_key a job can have.
finalize_job(j) == advance_status(j, "COMPLETED")

\* Mutations: the claims without their condition on the task's status.
CanComplete_Unguarded(j, i) == task[j][i] # "ABSENT"
CanFail_Unguarded(j, i) == task[j][i] # "ABSENT"

\* Does the UPDATE of complete_task_and_decrement (status != 'DONE') find the
\* row?  The one of fail_task_and_decrement (NOT IN ('DONE', 'FAILED'))?
CanComplete(j, i) == task[j][i] \notin {"ABSENT", "DONE"}
CanFail(j, i) == task[j][i] \notin {"ABSENT", "DONE", "FAILED"}

\* Mutation: the claim writes a job status into the task's row.
complete_task_WrongStatus(j, i) ==
  /\ task' = [task EXCEPT ![j][i] = "COMPLETED"]
  /\ pending' = [pending EXCEPT ![j] = @ - 1]
  /\ UNCHANGED <<status, reclaimed>>

complete_task_and_decrement(j, i) ==
  /\ task' = [task EXCEPT ![j][i] = "DONE"]
  /\ pending' = [pending EXCEPT ![j] = @ - 1]
  /\ reclaimed' = IF task[j][i] = "FAILED"
                    THEN [reclaimed EXCEPT ![j] = @ \cup {i}] ELSE reclaimed
  /\ UNCHANGED status

fail_task_and_decrement(j, i) ==
  /\ task' = [task EXCEPT ![j][i] = "FAILED"]
  /\ pending' = [pending EXCEPT ![j] = @ - 1]
  /\ UNCHANGED <<status, reclaimed>>

-----------------------------------------------------------------------------
(* gateway/main.py, create_job: store, commit, publish.                    *)

\* put_text(raw/<job>.txt)
CreatePut(j) ==
  /\ gw[j] = "new"
  /\ gw' = [gw EXCEPT ![j] = "stored"]
  /\ raw' = raw \cup {j}
  /\ UNCHANGED <<stale, db, asset, queue, local, crashes, notified>>

\* INSERT the PENDING row and commit.
CreateCommit(j) ==
  /\ gw[j] = "stored"
  /\ gw' = [gw EXCEPT ![j] = "committed"]
  /\ status' = [status EXCEPT ![j] = "PENDING"]
  /\ UNCHANGED <<stale, pending, task, reclaimed, store, queue, local, crashes,
                 notified>>

\* Publish JobCreated and answer 202.
CreatePublish(j) ==
  /\ gw[j] = "committed"
  /\ gw' = [gw EXCEPT ![j] = "done"]
  /\ queue' = Put(queue, Fresh(JobCreated(j)))
  /\ UNCHANGED <<stale, db, store, local, crashes, notified>>

\* The request dies between two of its steps (an error, or the gateway crashes).
CreateAbort(j) ==
  /\ gw[j] \in {"stored", "committed"}
  /\ gw' = [gw EXCEPT ![j] = "lost"]
  /\ UNCHANGED <<stale, db, store, queue, local, crashes, notified>>

(* gateway/sweeper.py, sweep_once.                                         *)

\* SELECT the stale PENDING jobs.  Time is not modelled: any PENDING job may
\* have passed the cutoff.
SweepSelect ==
  /\ stale = {}
  /\ stale' \in (SUBSET {j \in Job : status[j] = "PENDING"}) \ {{}}
  /\ UNCHANGED <<gw, db, store, queue, local, crashes, notified>>

\* How many JobCreated messages of j the broker holds, delivered ones included.
Copies(j) ==
  LET queued == {m \in Message : m.event = JobCreated(j)} \X (1 .. MaxCopies)
  IN  Cardinality({c \in queued : queue[c[1]] >= c[2]})
        + Cardinality({h \in Handler : held[h] # NoMsg
                                         /\ held[h].event = JobCreated(j)})

\* Publish JobCreated for the next selected id, whatever its status is by now.
SweepPublish(j) ==
  /\ j \in stale
  /\ Copies(j) < MaxCopies
  /\ stale' = stale \ {j}
  /\ queue' = Put(queue, Fresh(JobCreated(j)))
  /\ UNCHANGED <<gw, db, store, local, crashes, notified>>

\* The pass raises (run_sweeper swallows it) or the gateway restarts.
SweepAbort ==
  /\ stale # {}
  /\ stale' = {}
  /\ UNCHANGED <<gw, db, store, queue, local, crashes, notified>>

-----------------------------------------------------------------------------
(* Delivery: consume, ack_last, the retry ladder and crashes.              *)

Jb(h) == held[h].event.job
Tk(h) == held[h].event.task

\* The first step of the consumer of the queue m is in.
Entry(m) ==
  IF m.at = "dlq" THEN "dlq:resolve"
  ELSE CASE m.event.type = "JobCreated" -> "parse:load"
         [] m.event.type = "TtsRequested" -> "tts:audio"
         [] m.event.type = "StitchReady" -> "stitch:job"

\* Handler h is at step from and goes on to step to.
Goto(h, from, to) ==
  /\ pc[h] = from
  /\ pc' = [pc EXCEPT ![h] = to]
  /\ UNCHANGED <<gateway, held, crashes>>

\* The handler's frame is gone.
Finish(h) ==
  /\ pc' = [pc EXCEPT ![h] = "idle"]
  /\ held' = [held EXCEPT ![h] = NoMsg]
  /\ cur' = [cur EXCEPT ![h] = 0]
  /\ chunks' = [chunks EXCEPT ![h] = {}]

Deliver(h, m) ==
  /\ pc[h] = "idle"
  /\ m.at # "retry"
  /\ queue[m] > 0
  /\ queue' = Take(queue, m)
  /\ held' = [held EXCEPT ![h] = m]
  /\ pc' = [pc EXCEPT ![h] = Entry(m)]
  /\ UNCHANGED <<gateway, db, store, cur, chunks, crashes, notified>>

DelayExpires(m) ==
  /\ m.at = "retry"
  /\ queue[m] > 0
  /\ queue' = Put(Take(queue, m), Expired(m))
  /\ UNCHANGED <<gateway, db, store, local, crashes, notified>>

\* The steps that raise whatever the I/O does: no such row or object, or a
\* manuscript for which simulate_parse raises every time.
ParseRaises(h) ==
  /\ pc[h] = "parse:load"
  /\ status[Jb(h)] = "ABSENT" \/ Jb(h) \notin raw \/ Jb(h) \in Poison
TtsRaises(h) == pc[h] = "tts:audio" /\ task[Jb(h)][Tk(h)] = "ABSENT"
StitchRaises(h) == pc[h] = "stitch:job" /\ status[Jb(h)] = "ABSENT"
AlwaysRaises(h) == ParseRaises(h) \/ TtsRaises(h) \/ StitchRaises(h)

\* A step raises inside do_work, with nothing done: ack_last catches it.  A commit
\* that is executed and reported to fail is the commit and a raise of the next step or,
\* where only the ack is left, a crash before it and a raise of the redelivery.
Raise(h) ==
  /\ pc[h] \in WorkStep
  /\ pc[h] \in Faulty \/ AlwaysRaises(h)
  /\ Goto(h, pc[h], "route")
  /\ UNCHANGED <<db, store, queue, cur, chunks, notified>>

\* ack_last publishes the copy with the next retry count, to the ladder or to
\* the dead-letter queue, before it acknowledges the original.
Route(h) ==
  /\ Goto(h, "route", "ack")
  /\ queue' = Put(queue, route_retry_or_dlq(held[h]))
  /\ UNCHANGED <<db, store, cur, chunks, notified>>

\* That publish raises: message.process rejects the delivery without requeue.
RouteFails(h) ==
  /\ pc[h] = "route"
  /\ "route" \in Faulty
  /\ Finish(h)
  /\ UNCHANGED <<gateway, db, store, queue, crashes, notified>>

Ack(h) ==
  /\ pc[h] = "ack"
  /\ Finish(h)
  /\ UNCHANGED <<gateway, db, store, queue, crashes, notified>>

\* The dead-letter handler raises, with nothing done: nack with requeue.  After an
\* executed commit it is the Nack of dlq:emit, or a crash before the ack.
Nack(h) ==
  /\ pc[h] \in DlqStep \cap Faulty
  /\ queue' = Put(queue, held[h])
  /\ Finish(h)
  /\ UNCHANGED <<gateway, db, store, crashes, notified>>

\* The worker dies: the broker takes the unacknowledged delivery back.
Crash(h) ==
  /\ pc[h] # "idle"
  /\ crashes < MaxCrashes
  /\ crashes' = crashes + 1
  /\ queue' = Put(queue, held[h])
  /\ Finish(h)
  /\ UNCHANGED <<gateway, db, store, notified>>

-----------------------------------------------------------------------------
(* worker/handlers/parse.py, handle_parse.                                 *)

\* session.get, get_text and simulate_parse succeed.
ParseLoad(h) ==
  /\ Goto(h, "parse:load", "parse:begin")
  /\ ~AlwaysRaises(h)
  /\ UNCHANGED <<db, store, queue, cur, chunks, notified>>

\* One transaction: the task rows, the status and the counter.
ParseBegin(h) ==
  /\ Goto(h, "parse:begin", "parse:advance")
  /\ InsertTasks(Jb(h))
  /\ begin_parse(Jb(h), Count(Jb(h)))
  /\ UNCHANGED <<reclaimed, store, queue, cur, chunks, notified>>

ParseAdvance(h) ==
  /\ Goto(h, "parse:advance", "parse:publish")
  /\ advance_status(Jb(h), "GENERATING")
  /\ UNCHANGED <<pending, task, reclaimed, store, queue, cur, chunks, notified>>

\* Mutation: the fan-out loop alone, which publishes nothing without a block.
ParsePublish_NoEmptyJob(h) ==
  LET j == Jb(h) IN
  /\ Goto(h, "parse:publish",
          IF cur[h] + 1 < Count(j) THEN "parse:publish" ELSE "ack")
  /\ IF Count(j) = 0
       THEN UNCHANGED <<queue, cur>>
       ELSE /\ queue' = Put(queue, Fresh(TtsRequested(j, cur[h])))
            /\ cur' = [cur EXCEPT ![h] = @ + 1]
  /\ UNCHANGED <<db, store, chunks, notified>>

\* Always publish: one TtsRequested per block, or StitchReady if there is none.
ParsePublish(h) ==
  LET j == Jb(h) IN
  /\ Goto(h, "parse:publish",
          IF cur[h] + 1 < Count(j) THEN "parse:publish" ELSE "ack")
  /\ IF Count(j) = 0
       THEN /\ queue' = Put(queue, Fresh(StitchReady(j)))
            /\ UNCHANGED cur
       ELSE /\ queue' = Put(queue, Fresh(TtsRequested(j, cur[h])))
            /\ cur' = [cur EXCEPT ![h] = @ + 1]
  /\ UNCHANGED <<db, store, chunks, notified>>

-----------------------------------------------------------------------------
(* worker/handlers/tts.py, handle_tts.                                     *)

\* _load_block_text, then the cache or _synthesize yields the audio key.
TtsAudio(h) ==
  /\ Goto(h, "tts:audio", "tts:claim")
  /\ ~AlwaysRaises(h)
  /\ UNCHANGED <<db, store, queue, cur, chunks, notified>>

\* complete_task_and_decrement: None if the claim matched no row.
TtsClaim(h) ==
  LET j == Jb(h)
      i == Tk(h)
  IN
  /\ Goto(h, "tts:claim", IF ~CanComplete(j, i) THEN "tts:reread"
                          ELSE IF pending[j] - 1 = 0 THEN "tts:emit" ELSE "ack")
  /\ IF CanComplete(j, i) THEN complete_task_and_decrement(j, i)
                          ELSE UNCHANGED db
  /\ UNCHANGED <<store, queue, cur, chunks, notified>>

\* Mutations: a redelivery emits without reading the counter, or never.
TtsReread_AlwaysEmit(h) ==
  /\ Goto(h, "tts:reread", "tts:emit")
  /\ UNCHANGED <<db, store, queue, cur, chunks, notified>>

TtsReread_NeverEmit(h) ==
  /\ Goto(h, "tts:reread", "ack")
  /\ UNCHANGED <<db, store, queue, cur, chunks, notified>>

\* A redelivery reads the counter and emits again if it is zero.
TtsReread(h) ==
  /\ Goto(h, "tts:reread", IF pending[Jb(h)] = 0 THEN "tts:emit" ELSE "ack")
  /\ UNCHANGED <<db, store, queue, cur, chunks, notified>>

TtsEmit(h) ==
  /\ Goto(h, "tts:emit", "ack")
  /\ queue' = Put(queue, Fresh(StitchReady(Jb(h))))
  /\ UNCHANGED <<db, store, cur, chunks, notified>>

-----------------------------------------------------------------------------
(* worker/handlers/stitch.py, handle_stitch.                               *)

\* A finished job is left alone.
StitchJob(h) ==
  /\ Goto(h, "stitch:job", IF status[Jb(h)] = "COMPLETED" THEN "ack"
                                                           ELSE "stitch:chunks")
  /\ ~AlwaysRaises(h)
  /\ UNCHANGED <<db, store, queue, cur, chunks, notified>>

\* The keys of the DONE blocks.  They are ordered by block_index, so the set
\* says it all.  None of them is None: the UPDATE that writes DONE writes audio_key.
StitchChunks(h) ==
  /\ Goto(h, "stitch:chunks", "stitch:advance")
  /\ chunks' = [chunks EXCEPT ![h] =
                  {i \in Index : task[Jb(h)][i] = "DONE"}]
  /\ UNCHANGED <<db, store, queue, cur, notified>>

StitchAdvance(h) ==
  /\ Goto(h, "stitch:advance", "stitch:put")
  /\ advance_status(Jb(h), "STITCHING")
  /\ UNCHANGED <<pending, task, reclaimed, store, queue, cur, chunks, notified>>

\* Concatenate the chunks and put_bytes(out/<job>.mp3).
StitchPut(h) ==
  /\ Goto(h, "stitch:put", "stitch:finalize")
  /\ asset' = [asset EXCEPT ![Jb(h)] = chunks[h]]
  /\ UNCHANGED <<db, raw, queue, cur, chunks, notified>>

\* Mutation: the result of finalize_job is ignored.
StitchFinalize_AnyoneNotifies(h) ==
  /\ Goto(h, "stitch:finalize", "stitch:notify")
  /\ finalize_job(Jb(h))
  /\ UNCHANGED <<pending, task, reclaimed, store, queue, cur, chunks, notified>>

\* finalize_job: only the winner of the compare-and-set notifies.
StitchFinalize(h) ==
  /\ Goto(h, "stitch:finalize",
          IF status[Jb(h)] \in expected_for("COMPLETED") THEN "stitch:notify"
                                                         ELSE "ack")
  /\ finalize_job(Jb(h))
  /\ UNCHANGED <<pending, task, reclaimed, store, queue, cur, chunks, notified>>

\* _notify: POST if the callback is allowed; its failure is swallowed.
StitchNotify(h) ==
  /\ Goto(h, "stitch:notify", "ack")
  /\ notified' = IF Jb(h) \in Callback
                   THEN [notified EXCEPT ![Jb(h)] = @ + 1] ELSE notified
  /\ UNCHANGED <<db, store, queue, cur, chunks>>

-----------------------------------------------------------------------------
(* worker/handlers/dlq.py, handle_dlq.                                     *)

\* Mutations: the barrier is resolved but StitchReady is not emitted; a
\* dead-lettered job is only acknowledged.
DlqResolve_NoEmit(h) ==
  LET j == Jb(h)
      i == Tk(h)
  IN
  /\ Goto(h, "dlq:resolve", "ack")
  /\ CASE i # NoTask /\ CanFail(j, i) -> fail_task_and_decrement(j, i)
       [] i # NoTask /\ ~CanFail(j, i) -> UNCHANGED db
       [] i = NoTask -> /\ advance_status(j, "FAILED")
                        /\ UNCHANGED <<pending, task, reclaimed>>
  /\ UNCHANGED <<store, queue, cur, chunks, notified>>

DlqResolve_JobsIgnored(h) ==
  LET j == Jb(h)
      i == Tk(h)
      claimed == i # NoTask /\ CanFail(j, i)
  IN
  /\ Goto(h, "dlq:resolve",
          IF claimed /\ pending[j] - 1 = 0 THEN "dlq:emit" ELSE "ack")
  /\ IF claimed THEN fail_task_and_decrement(j, i) ELSE UNCHANGED db
  /\ UNCHANGED <<store, queue, cur, chunks, notified>>

\* A dead-lettered block is FAILED and counted; a dead-lettered job is FAILED.
DlqResolve(h) ==
  LET j == Jb(h)
      i == Tk(h)
      claimed == i # NoTask /\ CanFail(j, i)
  IN
  /\ Goto(h, "dlq:resolve",
          IF claimed /\ pending[j] - 1 = 0 THEN "dlq:emit" ELSE "ack")
  /\ CASE claimed -> fail_task_and_decrement(j, i)
       [] i # NoTask /\ ~claimed -> UNCHANGED db
       [] i = NoTask -> /\ advance_status(j, "FAILED")
                        /\ UNCHANGED <<pending, task, reclaimed>>
  /\ UNCHANGED <<store, queue, cur, chunks, notified>>

DlqEmit(h) ==
  /\ Goto(h, "dlq:emit", "ack")
  /\ queue' = Put(queue, Fresh(StitchReady(Jb(h))))
  /\ UNCHANGED <<db, store, cur, chunks, notified>>

-----------------------------------------------------------------------------
Gateway ==
  \/ \E j \in Job : \/ CreatePut(j) \/ CreateCommit(j) \/ CreatePublish(j)
                    \/ CreateAbort(j) \/ SweepPublish(j)
  \/ SweepSelect
  \/ SweepAbort

Parse(h) == ParseLoad(h) \/ ParseBegin(h) \/ ParseAdvance(h) \/ ParsePublish(h)
Tts(h) == TtsAudio(h) \/ TtsClaim(h) \/ TtsReread(h) \/ TtsEmit(h)
Stitch(h) == \/ StitchJob(h) \/ StitchChunks(h) \/ StitchAdvance(h)
             \/ StitchPut(h) \/ StitchFinalize(h) \/ StitchNotify(h)
Dlq(h) == DlqResolve(h) \/ DlqEmit(h)

\* What a live worker does with the delivery it holds.
Work(h) == \/ Parse(h) \/ Tts(h) \/ Stitch(h) \/ Dlq(h)
           \/ Raise(h) \/ Route(h) \/ RouteFails(h) \/ Ack(h) \/ Nack(h)

Next ==
  \/ Gateway
  \/ \E m \in Message : DelayExpires(m)
  \/ \E h \in Handler : \/ \E m \in Message : Deliver(h, m)
                        \/ Work(h)
                        \/ Crash(h)

Spec == Init /\ [][Next]_vars

\* Fairness.  Delays expire, a consumer with a free slot is sent what is queued
\* and a live worker goes on with what it holds; the dead-letter handler does
\* not fail for ever, the gateway process restarts, and its sweeper keeps
\* making passes some of which reach their publish.  Requests and workers may
\* still die, and no other step that can raise is assumed ever to succeed.
Fairness ==
  /\ WF_vars(\E m \in Message : DelayExpires(m))
  /\ WF_vars(\E h \in Handler, m \in Message : Deliver(h, m))
  /\ WF_vars(\E h \in Handler : Work(h))
  /\ SF_vars(\E h \in Handler : Dlq(h))
  /\ WF_vars(SweepSelect)
  /\ SF_vars(\E j \in Job : SweepPublish(j))

FairSpec == Spec /\ Fairness

-----------------------------------------------------------------------------
(* Properties.                                                             *)

\* The statuses of a job whose counter has been seeded by begin_parse.
Seeded == {"PARSING", "GENERATING", "STITCHING", "COMPLETED"}

\* The blocks the DLQ resolver or the tts handler has counted.
Resolved(j) == {i \in Blocks(j) : task[j][i] \in {"DONE", "FAILED"}}

\* The fan-in barrier: pending_count is the number of blocks minus one for each
\* resolved block, however often events are redelivered, handlers crash or
\* parses repeat (queries.py) - except that a block completed after it was
\* FAILED has been counted twice.
BarrierCount ==
  \A j \in Job : status[j] \in Seeded =>
    pending[j] = Count(j) - Cardinality(Resolved(j)) - Cardinality(reclaimed[j])

\* A COMPLETED job has no unresolved block and its asset is exactly its DONE
\* blocks (handle_stitch), provided no FAILED block was completed later.
WholeDrama ==
  \A j \in Job : status[j] = "COMPLETED" /\ reclaimed[j] = {} =>
    /\ Resolved(j) = Blocks(j)
    /\ asset[j] = {i \in Blocks(j) : task[j][i] = "DONE"}

\* The webhook is sent at most once per job, and only for a COMPLETED one
\* (finalize_job's single winner), however many StitchReady are processed.
NotifiedOnce ==
  \A j \in Job : /\ notified[j] <= 1
                 /\ notified[j] = 1 => status[j] = "COMPLETED"

\* Once begin_parse has seeded the counter no parse, late or repeated, raises
\* it again; and no handler moves a job out of a terminal status.
NoResurrection ==
  [][\A j \in Job :
       /\ status[j] \in Seeded => pending'[j] <= pending[j]
       /\ status[j] \in Terminal => status'[j] = status[j]]_vars

\* An event that some handler will still act on.
Live(e) ==
  \/ \E m \in Message : m.event = e /\ queue[m] > 0
  \/ \E h \in Handler : pc[h] \notin {"idle", "ack"} /\ held[h].event = e

\* At-least-once delivery loses no work: a job that is neither PENDING (the
\* sweeper's) nor terminal has an event on its way that moves it on, for each
\* unresolved block one of its own unless the parse itself is to be repeated.
Driven ==
  \A j \in Job :
    /\ status[j] = "PARSING" => Live(JobCreated(j))
    /\ status[j] = "GENERATING" =>
         \/ Live(JobCreated(j))
         \/ /\ Resolved(j) # Blocks(j)
            /\ \A i \in Blocks(j) \ Resolved(j) : Live(TtsRequested(j, i))
         \/ /\ Resolved(j) = Blocks(j)
            /\ \/ Live(StitchReady(j))
               \/ \E i \in Blocks(j) : Live(TtsRequested(j, i))
    /\ status[j] = "STITCHING" => Live(StitchReady(j))

\* How the database shows the state of the contract.
PhaseOf ==
  [ABSENT |-> "none", PENDING |-> "accepted", PARSING |-> "running",
   GENERATING |-> "running", STITCHING |-> "assembling",
   COMPLETED |-> "completed", FAILED |-> "failed"]

phaseBar == [j \in Job |-> PhaseOf[status[j]]]

InStatus(j, s) ==
  IF status[j] \in Seeded THEN {i \in Blocks(j) : task[j][i] = s} ELSE {}

Contract ==
  INSTANCE JobContract WITH
    Part  <- [j \in Job |-> Blocks(j)],
    phase <- phaseBar,
    todo  <- [j \in Job |-> InStatus(j, "PENDING")],
    lost  <- [j \in Job |-> InStatus(j, "FAILED")],
    drama <- [j \in Job |-> IF status[j] = "COMPLETED" THEN asset[j] ELSE {}]

\* The pipeline implements the contract: every transaction is one step of it or
\* none, whatever is repeated or crashes.
ImplementsContract == Contract!Spec

\* With dead-lettered blocks the same is true until some block is completed after
\* fail_task_and_decrement has counted it.
FollowsContract ==
  [][(\A j \in Job : reclaimed'[j] = {}) => Contract!Next]_(Contract!cvars)

\* No job whose row is committed stays in progress for ever: it reaches COMPLETED or
\* FAILED (commit then publish, the sweeper, ack-last, the ladder and the DLQ resolver
\* together).  A committed row never becomes ABSENT again.
JobTerminates ==
  \A j \in Job : []<>(status[j] \in {"ABSENT"} \cup Terminal)

\* A job whose manuscript the vendor never parses ends FAILED: its message
\* climbs the ladder and the DLQ resolver fails the job.
PoisonFails ==
  \A j \in Poison : status[j] = "PENDING" ~> status[j] = "FAILED"

\* No COMPLETED job has an unresolved block ("an incomplete drama wrongly marked
\* COMPLETED", complete_task_and_decrement).
NoIncompleteDrama ==
  \A j \in Job : status[j] = "COMPLETED" => Resolved(j) = Blocks(j)
=============================================================================
