---------------------------- MODULE DrivenProofs ----------------------------
(***************************************************************************)
(* No work is lost: where routing does not fail, every job in progress has *)
(* an event on its way, whatever raises and is delivered twice and         *)
(* whenever workers crash, as long as no block is given up or no handler   *)
(* dies between the last claim and its StitchReady.                        *)
(***************************************************************************)
EXTENDS PipelineProofs

InProgress(k) == status[k] \in {"PARSING", "GENERATING", "STITCHING"}

-----------------------------------------------------------------------------
(* Messages and events.                                                    *)

\* Putting a copy removes none; taking one leaves the other messages alone.
LEMMA BagKeeps ==
  ASSUME NEW q \in [Message -> Nat], NEW m \in Message
  PROVE  /\ Put(q, m)[m] > 0
         /\ \A x \in Message : q[x] > 0 => Put(q, m)[x] > 0
         /\ \A x \in Message \ {m} : q[x] > 0 => Take(q, m)[x] > 0
BY DEF Put, Take

\* The type, the job and the block of an event determine it.
LEMMA EventNames ==
  ASSUME NEW m \in Message
  PROVE  /\ m.event.type = "JobCreated" => m.event = JobCreated(m.event.job)
         /\ m.event.type = "StitchReady" => m.event = StitchReady(m.event.job)
         /\ m.event.type = "TtsRequested"
              => m.event = TtsRequested(m.event.job, m.event.task)
<1>1. m.event \in Event
  BY MessageFields, Zenon
<1>. QED BY <1>1 DEF Event, JobCreated, StitchReady, TtsRequested, NoTask

\* A message that is put is live, and a message that was queued stays so or its event
\* does: an expired delay and a delivery keep it.
LEMMA QueuedStays ==
  ASSUME TypeInv, [Next]_vars, NEW m \in Message, queue[m] > 0
  PROVE  Live(m.event)'
<1>. USE DEF gateway, db, store, local
<1>0. queue \in [Message -> Nat] /\ TypeOK
  BY Zenon DEF TypeInv, TypeOK
<1>1. ASSUME queue'[m] > 0 PROVE Live(m.event)'
  BY <1>1, Zenon DEF Live
<1>2. ASSUME NEW x \in Message, queue' = Put(queue, x) PROVE queue'[m] > 0
  BY <1>0, <1>2, BagKeeps, Zenon
<1>3. ASSUME NEW x \in Message, DelayExpires(x) PROVE Live(m.event)'
  <2>1. /\ Expired(x) \in Message /\ Expired(x).event = x.event /\ queue[x] > 0
        /\ queue' = Put(Take(queue, x), Expired(x))
    BY <1>3, RoutedMessage, Zenon DEF DelayExpires
  <2>2. Take(queue, x) \in [Message -> Nat]
    BY <1>0, <2>1, BagOps, Zenon
  <2>3. CASE m = x
    <3>1. queue'[Expired(x)] > 0
      BY <2>1, <2>2, BagKeeps, Zenon
    <3>. QED BY <2>1, <2>3, <3>1, Zenon DEF Live
  <2>4. CASE m # x
    <3>1. Take(queue, x)[m] > 0
      BY <1>0, <2>4, BagKeeps, Zenon
    <3>2. queue'[m] > 0
      BY <2>1, <2>2, <3>1, BagKeeps, Zenon
    <3>. QED BY <1>1, <3>2, Zenon
  <2>. QED BY <2>3, <2>4, Zenon
<1>4. ASSUME NEW h \in Handler, NEW x \in Message, Deliver(h, x)
      PROVE  Live(m.event)'
  <2>1. CASE m = x
    <3>1. /\ held'[h] = m /\ pc'[h] = Entry(m) /\ m.at # "retry"
      BY <1>0, <1>4, <2>1, Zenon DEF Deliver, TypeOK
    <3>2. pc'[h] \notin {"idle", "ack"}
      BY <3>1, EntryStep, Zenon
    <3>. QED BY <3>1, <3>2, Zenon DEF Live
  <2>2. CASE m # x
    <3>1. queue' = Take(queue, x)
      BY <1>4, Zenon DEF Deliver
    <3>. QED BY <1>0, <1>1, <2>2, <3>1, BagKeeps, Zenon
  <2>. QED BY <2>1, <2>2, Zenon
<1>5. ASSUME NEW j \in Job, CreatePublish(j) \/ SweepPublish(j)
      PROVE  \E x \in Message : queue' = Put(queue, x)
  BY <1>5, FreshMessage, Zenon DEF CreatePublish, SweepPublish
<1>6. ASSUME NEW h \in Handler, \/ Crash(h) \/ Nack(h) \/ Route(h) \/ TtsEmit(h)
                                \/ DlqEmit(h) \/ ParsePublish(h)
      PROVE  \E x \in Message : queue' = Put(queue, x)
  <2>1. held[h] \in Message /\ Jb(h) \in Job
    BY <1>6, BusyHolds, Zenon DEF Crash, Nack, Route, TtsEmit, DlqEmit, ParsePublish,
       Goto, DlqStep
  <2>2. CASE Crash(h) \/ Nack(h)
    BY <2>1, <2>2, Zenon DEF Crash, Nack
  <2>3. CASE Route(h)
    <3>1. held[h].at = "live"
      BY <2>3, Zenon DEF Route, Goto, TypeInv, HandlerOK
    <3>. QED BY <2>1, <2>3, <3>1, RoutedMessage, Zenon DEF Route
  <2>4. CASE TtsEmit(h) \/ DlqEmit(h)
    BY <2>1, <2>4, FreshMessage, Zenon DEF TtsEmit, DlqEmit
  <2>5. CASE ParsePublish(h)
    <3>1. /\ Count(Jb(h)) \in Nat /\ cur[h] \in Nat
          /\ cur[h] = 0 \/ cur[h] < Count(Jb(h))
      BY <1>0, <2>1, <2>5, CountFacts, Zenon DEF ParsePublish, Goto, TypeInv, TypeOK,
         HandlerOK
    <3>2. Count(Jb(h)) # 0 => cur[h] \in Index
      BY <2>1, <3>1, CountFacts, SMTT(40)
    <3>. QED BY <2>1, <2>5, <3>2, FreshMessage, Zenon DEF ParsePublish
  <2>. QED BY <1>6, <2>2, <2>3, <2>4, <2>5, Zenon
<1>7. ASSUME NEW j \in Job, CreatePut(j) \/ CreateCommit(j) \/ CreateAbort(j)
      PROVE  UNCHANGED queue
  BY <1>7, Zenon DEF CreatePut, CreateCommit, CreateAbort
<1>8. ASSUME NEW h \in Handler,
             \/ Raise(h) \/ RouteFails(h) \/ Ack(h)
             \/ ParseLoad(h) \/ ParseBegin(h) \/ ParseAdvance(h)
             \/ TtsAudio(h) \/ TtsClaim(h) \/ TtsReread(h) \/ Stitch(h)
             \/ DlqResolve(h)
      PROVE  UNCHANGED queue
  BY <1>8, ZenonT(60) DEF Raise, RouteFails, Ack, ParseLoad, ParseBegin, ParseAdvance,
     TtsAudio, TtsClaim, TtsReread, Stitch, StitchJob, StitchChunks, StitchAdvance,
     StitchPut, StitchFinalize, StitchNotify, DlqResolve
<1>9. ASSUME SweepSelect \/ SweepAbort \/ UNCHANGED vars PROVE UNCHANGED queue
  BY <1>9, Zenon DEF SweepSelect, SweepAbort, vars
<1>. QED BY <1>1, <1>2, <1>3, <1>4, <1>5, <1>6, <1>7, <1>8, <1>9, Zenon
         DEF Next, Gateway, Work, Parse, Tts, Dlq

\* The steps after which a handler has nothing left to do with its message.
Ends(h) ==
  /\ pc'[h] = "ack"
  /\ \/ ParsePublish(h) \/ TtsClaim(h) \/ TtsReread(h) \/ TtsEmit(h)
     \/ StitchJob(h) \/ StitchFinalize(h) \/ StitchNotify(h) \/ Dlq(h)

\* An event stays live until a handler ends its work on it: raising, routing,
\* crashing, redelivery and the resolver's requeue all keep it.
LEMMA LiveStays ==
  ASSUME TypeInv, [Next]_vars, "route" \notin Faulty, NEW e, Live(e)
  PROVE  \/ Live(e)'
         \/ \E h \in Handler : pc[h] # "idle" /\ held[h].event = e /\ Ends(h)
<1>. USE DEF gateway, db, store, local
<1>0. TypeOK /\ queue \in [Message -> Nat]
  BY Zenon DEF TypeInv, TypeOK
<1>1. CASE \E m \in Message : m.event = e /\ queue[m] > 0
  BY <1>1, QueuedStays, Zenon
<1>2. ASSUME NEW h \in Handler, pc[h] \notin {"idle", "ack"}, held[h].event = e
      PROVE  Live(e)' \/ Ends(h)
  <2>1. held[h] \in Message
    BY <1>2, BusyHolds, Zenon
  <2>2. ASSUME held'[h] = held[h], pc'[h] \notin {"idle", "ack"} PROVE Live(e)'
    BY <1>2, <2>2, Zenon DEF Live
  <2>3. ASSUME NEW m \in Message, m.event = e, queue' = Put(queue, m) PROVE Live(e)'
    <3>1. queue'[m] > 0
      BY <1>0, <2>3, BagKeeps, Zenon
    <3>. QED BY <2>3, <3>1, Zenon DEF Live
  <2>4. CASE Crash(h) \/ Nack(h)
    BY <1>2, <2>1, <2>3, <2>4, Zenon DEF Crash, Nack
  <2>5. CASE Route(h)
    <3>1. held[h].at = "live"
      BY <2>5, Zenon DEF Route, Goto, TypeInv, HandlerOK
    <3>. QED BY <1>2, <2>1, <2>3, <2>5, <3>1, RoutedMessage, Zenon DEF Route
  <2>6. CASE RouteFails(h) \/ Ack(h) \/ \E m \in Message : Deliver(h, m)
    BY <1>2, <2>6, Zenon DEF RouteFails, Ack, Deliver
  <2>7. CASE \/ Raise(h) \/ ParseLoad(h) \/ ParseBegin(h) \/ ParseAdvance(h)
             \/ TtsAudio(h) \/ StitchChunks(h) \/ StitchAdvance(h) \/ StitchPut(h)
    <3>1. held'[h] = held[h] /\ pc'[h] \notin {"idle", "ack"}
      BY <1>0, <2>7, Zenon DEF Raise, ParseLoad, ParseBegin, ParseAdvance, TtsAudio,
         StitchChunks, StitchAdvance, StitchPut, Goto, TypeOK
    <3>. QED BY <2>2, <3>1, Zenon
  <2>8. CASE \/ ParsePublish(h) \/ TtsClaim(h) \/ TtsReread(h) \/ TtsEmit(h)
             \/ StitchJob(h) \/ StitchFinalize(h) \/ StitchNotify(h) \/ Dlq(h)
    <3>1. held'[h] = held[h] /\ pc'[h] # "idle"
      BY <1>0, <2>8, ZenonT(60) DEF ParsePublish, TtsClaim, TtsReread, TtsEmit,
         StitchJob, StitchFinalize, StitchNotify, Dlq, DlqResolve, DlqEmit, Goto, TypeOK
    <3>. QED BY <2>2, <2>8, <3>1, Zenon DEF Ends
  <2>9. CASE pc'[h] = pc[h] /\ held'[h] = held[h]
    BY <1>2, <2>2, <2>9, Zenon
  <2>. QED BY Actor, <2>4, <2>5, <2>6, <2>7, <2>8, <2>9, Zenon
           DEF Work, Parse, Tts, Stitch
<1>. QED BY <1>1, <1>2, Zenon DEF Live

-----------------------------------------------------------------------------
(* What a step does to a job.                                              *)

\* The resolver gives up the block of its request and counts it.
GivesUp(h) ==
  /\ held[h].event.type = "TtsRequested"
  /\ Tk(h) \in Blocks(Jb(h)) /\ Tk(h) \in Index
  /\ UNCHANGED status
  /\ task[Jb(h)][Tk(h)] = "PENDING" /\ task'[Jb(h)][Tk(h)] = "FAILED"
  /\ \A k \in Job, i \in Index : k # Jb(h) \/ i # Tk(h) => task'[k][i] = task[k][i]
  /\ pending'[Jb(h)] = pending[Jb(h)] - 1
  /\ \A k \in Job \ {Jb(h)} : pending'[k] = pending[k]
  /\ pc'[h] = IF pending[Jb(h)] - 1 = 0 THEN "dlq:emit" ELSE "ack"

\* The resolver fails a whole job, or the block of a request unless it is resolved.
LEMMA ResolverStep ==
  ASSUME TypeInv, WorkInv, NEW h \in Handler, DlqResolve(h)
  PROVE  /\ Jb(h) \in Job /\ UNCHANGED <<held, reclaimed>>
         /\ pc[h] = "dlq:resolve" /\ pc'[h] \in {"ack", "dlq:emit"}
         /\ \/ /\ held[h].event.type # "TtsRequested" /\ pc'[h] = "ack"
               /\ advance_status(Jb(h), "FAILED") /\ UNCHANGED <<pending, task>>
            \/ /\ held[h].event.type = "TtsRequested"
               /\ Tk(h) \in Blocks(Jb(h)) /\ Tk(h) \in Index
               /\ task[Jb(h)][Tk(h)] \in {"DONE", "FAILED"}
               /\ UNCHANGED db /\ pc'[h] = "ack"
            \/ GivesUp(h)
<1>. DEFINE j == Jb(h)
            i == Tk(h)
<1>0. TypeOK /\ ProgressOK(h)
  BY Zenon DEF TypeInv, WorkInv
<1>1. pc[h] = "dlq:resolve" /\ held[h] \in Message /\ j \in Job /\ held' = held
  BY BusyHolds, Zenon DEF DlqResolve, Goto
<1>2. EventOK(held[h])
  BY <1>0, <1>1, Zenon DEF ProgressOK
<1>3. held[h].event.type = "TtsRequested" <=> i # NoTask
  BY <1>1, MessageFields, Zenon DEF Tk
<1>4. i # NoTask => i \in Blocks(j) /\ i \in Index /\ task[j][i] # "ABSENT"
  <2>1. i # NoTask => i \in Blocks(j) /\ task[j][i] # "ABSENT"
    BY <1>2, <1>3, Zenon DEF EventOK, Jb, Tk
  <2>. QED BY <1>1, <2>1, CountFacts, Zenon
<1>. HIDE DEF i, j
<1>5. CASE i = NoTask
  <2>1. /\ advance_status(j, "FAILED") /\ UNCHANGED <<pending, task, reclaimed>>
    BY <1>5, Zenon DEF DlqResolve, i, j
  <2>2. pc'[h] = "ack"
    BY <1>0, <1>5, Zenon DEF DlqResolve, Goto, TypeOK, i
  <2>. QED BY <1>1, <1>3, <1>5, <2>1, <2>2, Zenon DEF i, j
<1>6. CASE i # NoTask /\ ~CanFail(j, i)
  <2>1. UNCHANGED db
    BY <1>6, Zenon DEF DlqResolve, i, j
  <2>2. pc'[h] = "ack"
    BY <1>0, <1>6, Zenon DEF DlqResolve, Goto, TypeOK, i, j
  <2>3. task[j][i] \in {"DONE", "FAILED"}
    BY <1>4, <1>6, Zenon DEF CanFail
  <2>. QED BY <1>1, <1>3, <1>4, <1>6, <2>1, <2>2, <2>3, Zenon DEF db, i, j
<1>7. CASE i # NoTask /\ CanFail(j, i)
  <2>1. fail_task_and_decrement(j, i)
    BY <1>7, Zenon DEF DlqResolve, i, j
  <2>2. pc'[h] = IF pending[j] - 1 = 0 THEN "dlq:emit" ELSE "ack"
    BY <1>0, <1>7, Zenon DEF DlqResolve, Goto, TypeOK, i, j
  <2>3. task[j][i] = "PENDING"
    <3>1. task[j] \in [Index -> TaskStatus]
      BY <1>0, <1>1, Zenon DEF TypeOK
    <3>2. task[j][i] \in TaskStatus
      BY <1>4, <1>7, <3>1, Zenon
    <3>. QED BY <1>7, <3>2, Zenon DEF CanFail, TaskStatus
  <2>4. /\ UNCHANGED status
        /\ pending'[j] = pending[j] - 1
        /\ task'[j][i] = "FAILED"
        /\ \A x \in Index \ {i} : task'[j][x] = task[j][x]
        /\ \A k \in Job \ {j} : task'[k] = task[k] /\ pending'[k] = pending[k]
    BY <1>0, <1>1, <1>4, <1>7, <2>1, ClaimEffect, Zenon
  <2>5. UNCHANGED reclaimed
    BY <2>1, Zenon DEF fail_task_and_decrement
  <2>6. \A k \in Job, x \in Index : k # j \/ x # i => task'[k][x] = task[k][x]
    BY <2>4, Zenon
  <2>7. pc'[h] \in {"ack", "dlq:emit"}
    BY <2>2, Zenon
  <2>. QED BY <1>1, <1>3, <1>4, <1>7, <2>2, <2>3, <2>4, <2>5, <2>6, <2>7, Zenon DEF GivesUp, i, j
<1>. QED BY <1>5, <1>6, <1>7, Zenon

\* A claim completes the block of its request, once.
LEMMA ClaimDone ==
  ASSUME TypeInv, WorkInv, NEW h \in Handler, TtsClaim(h)
  PROVE  /\ Jb(h) \in Job /\ Tk(h) \in Index /\ Tk(h) \in Blocks(Jb(h))
         /\ UNCHANGED status
         /\ task'[Jb(h)][Tk(h)] = "DONE" /\ task[Jb(h)][Tk(h)] # "ABSENT"
         /\ task[Jb(h)][Tk(h)] = "DONE" => UNCHANGED db /\ pc'[h] = "tts:reread"
         /\ task[Jb(h)][Tk(h)] # "DONE" =>
              /\ pending'[Jb(h)] = pending[Jb(h)] - 1
              /\ \A k \in Job \ {Jb(h)} : pending'[k] = pending[k]
              /\ pc'[h] = IF pending[Jb(h)] - 1 = 0 THEN "tts:emit" ELSE "ack"
         /\ task[Jb(h)][Tk(h)] # "FAILED" => UNCHANGED reclaimed
         /\ \A k \in Job, i \in Index : k # Jb(h) \/ i # Tk(h) => task'[k][i] = task[k][i]
<1>. DEFINE j == Jb(h)
            i == Tk(h)
<1>0. TypeOK /\ ProgressOK(h)
  BY Zenon DEF TypeInv, WorkInv
<1>1. pc[h] = "tts:claim" /\ held[h] \in Message /\ j \in Job
  BY BusyHolds, Zenon DEF TtsClaim, Goto
<1>2. held[h].event.type = "TtsRequested"
  BY <1>1, Zenon DEF TypeInv, HandlerOK, TtsStep
<1>3. i \in Blocks(j) /\ task[j][i] # "ABSENT"
  BY <1>0, <1>1, <1>2, Zenon DEF ProgressOK, EventOK, Jb, Tk
<1>4. i \in Index
  BY <1>1, <1>3, CountFacts, Zenon
<1>. HIDE DEF i, j
<1>5. CASE task[j][i] = "DONE"
  <2>1. ~CanComplete(j, i)
    BY <1>5, Zenon DEF CanComplete
  <2>2. UNCHANGED db /\ pc'[h] = "tts:reread"
    BY <1>0, <2>1, Zenon DEF TtsClaim, Goto, TypeOK, i, j
  <2>. QED BY <1>1, <1>3, <1>4, <1>5, <2>2, Zenon DEF db, i, j
<1>6. CASE task[j][i] # "DONE"
  <2>1. CanComplete(j, i)
    BY <1>3, <1>6, Zenon DEF CanComplete
  <2>2. complete_task_and_decrement(j, i)
    BY <2>1, Zenon DEF TtsClaim, i, j
  <2>3. /\ UNCHANGED status
        /\ pending'[j] = pending[j] - 1
        /\ \A x \in Index \ {i} : task'[j][x] = task[j][x]
        /\ \A k \in Job \ {j} : task'[k] = task[k] /\ pending'[k] = pending[k]
    BY <1>0, <1>1, <1>4, <2>2, ClaimEffect, Zenon
  <2>4. task'[j][i] = "DONE"
    <3>1. task[j] \in [Index -> TaskStatus] /\ task \in [Job -> [Index -> TaskStatus]]
      BY <1>0, <1>1, Zenon DEF TypeOK
    <3>2. task'[j] = [task[j] EXCEPT ![i] = "DONE"]
      BY <1>1, <2>2, <3>1, Zenon DEF complete_task_and_decrement
    <3>. QED BY <1>4, <3>1, <3>2, Zenon
  <2>5. task[j][i] # "FAILED" => UNCHANGED reclaimed
    BY <2>2, Zenon DEF complete_task_and_decrement
  <2>6. pc'[h] = IF pending[j] - 1 = 0 THEN "tts:emit" ELSE "ack"
    BY <1>0, <2>1, Zenon DEF TtsClaim, Goto, TypeOK, i, j
  <2>7. \A k \in Job, x \in Index : k # j \/ x # i => task'[k][x] = task[k][x]
    BY <2>3, Zenon
  <2>. QED BY <1>1, <1>3, <1>4, <1>6, <2>3, <2>4, <2>5, <2>6, <2>7, Zenon DEF i, j
<1>. QED BY <1>5, <1>6, Zenon

\* A row is inserted, or resolved by the step of a handler with its request, or stays.
LEMMA RowMoves ==
  ASSUME TypeInv, WorkInv, [Next]_vars, NEW k \in Job, NEW i \in Index
  PROVE  \/ task'[k][i] = task[k][i]
         \/ task[k][i] = "ABSENT" /\ task'[k][i] = "PENDING"
         \/ /\ task[k][i] # "ABSENT" /\ task'[k][i] = "DONE"
            /\ \E h \in Handler : TtsClaim(h) /\ Jb(h) = k /\ Tk(h) = i
         \/ /\ task[k][i] = "PENDING" /\ task'[k][i] = "FAILED"
            /\ \E h \in Handler : DlqResolve(h) /\ held[h].event.type = "TtsRequested"
                                  /\ Jb(h) = k /\ Tk(h) = i
<1>0. TypeOK
  BY Zenon DEF TypeInv
<1>1. CASE UNCHANGED task
  BY <1>1, Zenon
<1>2. ASSUME NEW h \in Handler, ParseBegin(h)
      PROVE  \/ task'[k][i] = task[k][i]
             \/ task[k][i] = "ABSENT" /\ task'[k][i] = "PENDING"
  <2>1. Jb(h) \in Job /\ InsertTasks(Jb(h))
    BY <1>2, BusyHolds, Zenon DEF ParseBegin, Goto
  <2>2. CASE k = Jb(h)
    <3>1. task'[k] = [x \in Index |-> IF x \in Blocks(k) /\ task[k][x] = "ABSENT"
                                        THEN "PENDING" ELSE task[k][x]]
      BY <1>0, <2>1, <2>2, Zenon DEF InsertTasks, TypeOK
    <3>. QED BY <2>1, <3>1, Zenon
  <2>3. CASE k # Jb(h)
    <3>1. task'[k] = task[k]
      BY <1>0, <2>1, <2>3, Zenon DEF InsertTasks, TypeOK
    <3>. QED BY <2>1, <3>1, Zenon
  <2>. QED BY <2>2, <2>3, Zenon
<1>3. ASSUME NEW h \in Handler, TtsClaim(h)
      PROVE  \/ task'[k][i] = task[k][i]
             \/ task[k][i] # "ABSENT" /\ task'[k][i] = "DONE" /\ Jb(h) = k /\ Tk(h) = i
  <2>1. /\ task'[Jb(h)][Tk(h)] = "DONE" /\ task[Jb(h)][Tk(h)] # "ABSENT"
        /\ \A j \in Job, x \in Index : j # Jb(h) \/ x # Tk(h) => task'[j][x] = task[j][x]
    BY <1>3, ClaimDone, ZenonT(30)
  <2>. QED BY <2>1, Zenon
<1>4. ASSUME NEW h \in Handler, DlqResolve(h)
      PROVE  \/ task'[k][i] = task[k][i]
             \/ /\ task[k][i] = "PENDING" /\ task'[k][i] = "FAILED"
                /\ held[h].event.type = "TtsRequested" /\ Jb(h) = k /\ Tk(h) = i
  <2>1. \/ UNCHANGED task
        \/ /\ held[h].event.type = "TtsRequested"
           /\ task[Jb(h)][Tk(h)] = "PENDING" /\ task'[Jb(h)][Tk(h)] = "FAILED"
           /\ \A j \in Job, x \in Index : j # Jb(h) \/ x # Tk(h) => task'[j][x] = task[j][x]
    BY <1>4, ResolverStep, ZenonT(30) DEF db, GivesUp
  <2>. QED BY <2>1, Zenon
<1>5. ASSUME NEW h \in Handler, ParseAdvance(h) \/ StitchAdvance(h) \/ StitchFinalize(h)
      PROVE  UNCHANGED task
  BY <1>5, Zenon DEF ParseAdvance, StitchAdvance, StitchFinalize
<1>6. ASSUME NEW j \in Job, CreateCommit(j) PROVE UNCHANGED task
  BY <1>6, Zenon DEF CreateCommit
<1>. QED BY DbSteps, <1>1, <1>2, <1>3, <1>4, <1>5, <1>6, Zenon DEF db

\* The status of a job moves on by the step of a handler that has an event of it.
LEMMA StatusMoves ==
  ASSUME TypeInv, BarrierInv, WorkInv, [Next]_vars, NEW k \in Job
  PROVE  \/ status'[k] = status[k]
         \/ status[k] = "ABSENT" /\ status'[k] = "PENDING"
         \/ /\ status[k] = "PENDING" /\ status'[k] = "PARSING"
            /\ \E h \in Handler : ParseBegin(h) /\ Jb(h) = k
         \/ /\ status[k] = "PARSING" /\ status'[k] = "GENERATING"
            /\ \E h \in Handler : ParseAdvance(h) /\ Jb(h) = k
         \/ /\ status[k] = "GENERATING" /\ status'[k] = "STITCHING"
            /\ \E h \in Handler : StitchAdvance(h) /\ Jb(h) = k
         \/ status[k] = "STITCHING" /\ status'[k] = "COMPLETED"
         \/ status[k] # "ABSENT" /\ status'[k] = "FAILED"
<1>0. TypeOK
  BY Zenon DEF TypeInv
<1>1. CASE UNCHANGED status
  BY <1>1, Zenon
<1>2. ASSUME NEW j \in Job, CreateCommit(j)
      PROVE  status'[k] = status[k] \/ (status[k] = "ABSENT" /\ status'[k] = "PENDING")
  BY <1>0, <1>2, Zenon DEF CreateCommit, BarrierInv, RequestOK, TypeOK
<1>3. ASSUME NEW h \in Handler, ParseBegin(h)
      PROVE  \/ status'[k] = status[k]
             \/ status[k] = "PENDING" /\ status'[k] = "PARSING" /\ Jb(h) = k
  BY <1>0, <1>3, ZenonT(60) DEF ParseBegin, begin_parse, TypeOK
<1>4. ASSUME NEW j \in Job, NEW to \in {"GENERATING", "STITCHING", "COMPLETED", "FAILED"},
             advance_status(j, to)
      PROVE  \/ status'[k] = status[k]
             \/ status[k] \in expected_for(to) /\ status'[k] = to /\ j = k
  BY <1>0, <1>4, Zenon DEF advance_status, TypeOK
<1>5. ASSUME NEW h \in Handler, ParseAdvance(h)
      PROVE  \/ status'[k] = status[k]
             \/ status[k] = "PARSING" /\ status'[k] = "GENERATING" /\ Jb(h) = k
  BY <1>4, <1>5, BusyHolds, Predecessors, Zenon DEF ParseAdvance, Goto
<1>6. ASSUME NEW h \in Handler, StitchAdvance(h)
      PROVE  \/ status'[k] = status[k]
             \/ status[k] = "GENERATING" /\ status'[k] = "STITCHING" /\ Jb(h) = k
  BY <1>4, <1>6, BusyHolds, Predecessors, Zenon DEF StitchAdvance, Goto
<1>7. ASSUME NEW h \in Handler, StitchFinalize(h)
      PROVE  \/ status'[k] = status[k]
             \/ status[k] = "STITCHING" /\ status'[k] = "COMPLETED"
  BY <1>4, <1>7, BusyHolds, Predecessors, Zenon DEF StitchFinalize, finalize_job, Goto
<1>8. ASSUME NEW h \in Handler, TtsClaim(h) PROVE UNCHANGED status
  BY <1>8, ClaimDone, Zenon
<1>9. ASSUME NEW h \in Handler, DlqResolve(h)
      PROVE  \/ status'[k] = status[k]
             \/ status[k] # "ABSENT" /\ status'[k] = "FAILED"
  <2>1. Jb(h) \in Job /\ (advance_status(Jb(h), "FAILED") \/ UNCHANGED status)
    BY <1>9, ResolverStep, Zenon DEF db, GivesUp
  <2>. QED BY <1>4, <2>1, Predecessors, Zenon
<1>. QED BY DbSteps, <1>1, <1>2, <1>3, <1>5, <1>6, <1>7, <1>8, <1>9, Zenon DEF db

\* What has been established about a job stays true.
LEMMA StaysTrue ==
  ASSUME TypeInv, BarrierInv, WorkInv, [Next]_vars, NEW k \in Job
  PROVE  /\ Advanced(k) => Advanced(k)'
         /\ Advanced(k) /\ status[k] # "GENERATING" => status'[k] # "GENERATING"
         /\ status[k] = "COMPLETED" => status'[k] = "COMPLETED"
         /\ \A i \in Index :
              /\ task[k][i] # "ABSENT" => task'[k][i] # "ABSENT"
              /\ task[k][i] = "DONE" => task'[k][i] = "DONE"
              /\ task[k][i] \in {"DONE", "FAILED"} => task'[k][i] \in {"DONE", "FAILED"}
         /\ Resolved(k) \subseteq Resolved(k)'
<1>1. \A i \in Index : /\ task[k][i] # "ABSENT" => task'[k][i] # "ABSENT"
                       /\ task[k][i] = "DONE" => task'[k][i] = "DONE"
                       /\ task[k][i] \in {"DONE", "FAILED"}
                            => task'[k][i] \in {"DONE", "FAILED"}
  BY RowMoves, Zenon
<1>3. /\ Advanced(k) => status'[k] \notin {"ABSENT", "PENDING", "PARSING"}
      /\ Advanced(k) /\ status[k] # "GENERATING" => status'[k] # "GENERATING"
  BY StatusMoves, Zenon DEF Advanced
<1>4. status[k] = "COMPLETED" => status'[k] = "COMPLETED"
  BY RowMonotone, Zenon
<1>5. Resolved(k) \subseteq Resolved(k)'
  BY <1>1, CountFacts, Zenon DEF Resolved
<1>. QED BY <1>1, <1>3, <1>4, <1>5, Zenon DEF Advanced

-----------------------------------------------------------------------------
(* What stays live.                                                        *)

\* The fields of the events about a whole job.
LEMMA EventFields ==
  /\ \A k : JobCreated(k).type = "JobCreated" /\ JobCreated(k).job = k
  /\ \A k : StitchReady(k).type = "StitchReady" /\ StitchReady(k).job = k
BY Zenon DEF JobCreated, StitchReady

\* The step of a handler tells its event, and the event the handler.
LEMMA StepEvent ==
  ASSUME TypeInv, NEW h \in Handler, pc[h] # "idle"
  PROVE  /\ pc[h] \in ParseStep => held[h].event = JobCreated(Jb(h))
         /\ pc[h] \in TtsStep => held[h].event = TtsRequested(Jb(h), Tk(h))
         /\ pc[h] \in StitchStep => held[h].event = StitchReady(Jb(h))
         /\ \A k : held[h].event = JobCreated(k) =>
              Jb(h) = k /\ pc[h] \notin TtsStep /\ pc[h] \notin StitchStep
         /\ \A k : held[h].event = StitchReady(k) =>
              Jb(h) = k /\ pc[h] \notin TtsStep /\ pc[h] \notin ParseStep
         /\ \A k, i : held[h].event = TtsRequested(k, i) =>
              /\ Jb(h) = k /\ Tk(h) = i
              /\ pc[h] \notin ParseStep /\ pc[h] \notin StitchStep
<1>1. held[h] \in Message
  BY BusyHolds, Zenon
<1>2. /\ pc[h] \in ParseStep => held[h].event.type = "JobCreated"
      /\ pc[h] \in TtsStep => held[h].event.type = "TtsRequested"
      /\ pc[h] \in StitchStep => held[h].event.type = "StitchReady"
  BY Zenon DEF TypeInv, HandlerOK
<1>3. /\ pc[h] \in ParseStep => held[h].event = JobCreated(Jb(h))
      /\ pc[h] \in TtsStep => held[h].event = TtsRequested(Jb(h), Tk(h))
      /\ pc[h] \in StitchStep => held[h].event = StitchReady(Jb(h))
  BY <1>1, <1>2, EventNames, Zenon DEF Jb, Tk
<1>4. ASSUME NEW k, held[h].event = JobCreated(k)
      PROVE  Jb(h) = k /\ pc[h] \notin TtsStep /\ pc[h] \notin StitchStep
  <2>1. held[h].event.type = "JobCreated" /\ held[h].event.job = k
    BY <1>4, EventFields, Zenon
  <2>. QED BY <1>2, <2>1, Zenon DEF Jb
<1>5. ASSUME NEW k, held[h].event = StitchReady(k)
      PROVE  Jb(h) = k /\ pc[h] \notin TtsStep /\ pc[h] \notin ParseStep
  <2>1. held[h].event.type = "StitchReady" /\ held[h].event.job = k
    BY <1>5, EventFields, Zenon
  <2>. QED BY <1>2, <2>1, Zenon DEF Jb
<1>6. ASSUME NEW k, NEW i, held[h].event = TtsRequested(k, i)
      PROVE  /\ Jb(h) = k /\ Tk(h) = i
             /\ pc[h] \notin ParseStep /\ pc[h] \notin StitchStep
  <2>1. /\ held[h].event.type = "TtsRequested"
        /\ held[h].event.job = k /\ held[h].event.task = i
    <3>1. /\ TtsRequested(k, i).type = "TtsRequested"
          /\ TtsRequested(k, i).job = k /\ TtsRequested(k, i).task = i
      BY DEF TtsRequested
    <3>. QED BY <1>6, <3>1, Zenon
  <2>. QED BY <1>2, <2>1, Zenon DEF Jb, Tk
<1>. QED BY <1>3, <1>4, <1>5, <1>6, Zenon

\* The resolver leaves no job in progress unless it has one of its requests.
LEMMA ResolverFails ==
  ASSUME TypeInv, WorkInv, NEW h \in Handler, Dlq(h), held[h].event.type # "TtsRequested"
  PROVE  ~(status'[Jb(h)] \in {"PARSING", "GENERATING", "STITCHING"})
<1>1. DlqResolve(h)
  BY Zenon DEF Dlq, DlqEmit, Goto, WorkInv, ProgressOK
<1>2. Jb(h) \in Job /\ advance_status(Jb(h), "FAILED")
  BY <1>1, ResolverStep, Zenon DEF GivesUp
<1>. QED BY <1>2, Predecessors, Zenon DEF advance_status, TypeInv, TypeOK

\* JobCreated stays live until a parse of it has published everything.
LEMMA CreatedStays ==
  ASSUME TypeInv, WorkInv, [Next]_vars, NEW k \in Job,
         Live(JobCreated(k)), InProgress(k)'
  PROVE  \/ Live(JobCreated(k))'
         \/ \E h \in Handler : ParsePublish(h) /\ Jb(h) = k /\ pc'[h] = "ack"
<1>1. "route" \notin Faulty
  BY Zenon DEF WorkInv, RoutingHolds
<1>2. ASSUME NEW h \in Handler, pc[h] # "idle", held[h].event = JobCreated(k), Ends(h)
      PROVE  ParsePublish(h) /\ Jb(h) = k /\ pc'[h] = "ack"
  <2>1. Jb(h) = k /\ pc[h] \notin TtsStep /\ pc[h] \notin StitchStep
    BY <1>2, StepEvent, Zenon
  <2>2. ~Dlq(h)
    <3>1. held[h].event.type # "TtsRequested"
      BY <1>2, EventFields, Zenon
    <3>. QED BY <2>1, <3>1, ResolverFails, Zenon DEF InProgress
  <2>. QED BY <1>2, <2>1, <2>2, Zenon DEF Ends, TtsClaim, TtsReread, TtsEmit, StitchJob,
           StitchFinalize, StitchNotify, Goto, TtsStep, StitchStep
<1>. QED BY <1>1, <1>2, LiveStays, Zenon

\* StitchReady stays live as long as the job is in progress.
LEMMA ReadyStays ==
  ASSUME TypeInv, BarrierInv, WorkInv, [Next]_vars, NEW k \in Job,
         Live(StitchReady(k)), InProgress(k)'
  PROVE  Live(StitchReady(k))'
<1>1. "route" \notin Faulty
  BY Zenon DEF WorkInv, RoutingHolds
<1>2. ASSUME NEW h \in Handler, pc[h] # "idle", held[h].event = StitchReady(k), Ends(h)
      PROVE  FALSE
  <2>1. Jb(h) = k /\ pc[h] \notin TtsStep /\ pc[h] \notin ParseStep
    BY <1>2, StepEvent, Zenon
  <2>2. ~Dlq(h)
    <3>1. held[h].event.type # "TtsRequested"
      BY <1>2, EventFields, Zenon
    <3>. QED BY <2>1, <3>1, ResolverFails, Zenon DEF InProgress
  <2>3. ProgressOK(h) /\ TypeOK
    BY Zenon DEF WorkInv, TypeInv
  <2>4. Advanced(k)
    <3>1. EventOK(held[h]) /\ held[h] \in Message
      BY <1>2, <2>3, BusyHolds, Zenon DEF ProgressOK
    <3>2. held[h].event.type = "StitchReady"
      BY <1>2, EventFields, Zenon
    <3>. QED BY <2>1, <3>1, <3>2, Zenon DEF EventOK, Jb
  <2>5. status'[k] \in {"PARSING", "GENERATING", "STITCHING"}
    BY Zenon DEF InProgress
  <2>6. ASSUME StitchJob(h) \/ StitchNotify(h) PROVE FALSE
    <3>1. status[k] = "COMPLETED"
      BY <1>2, <2>1, <2>3, <2>6, Zenon DEF StitchJob, StitchNotify, Goto, Ends, TypeOK,
         ProgressOK
    <3>. QED BY <2>5, <3>1, StaysTrue, Zenon
  <2>7. ASSUME StitchFinalize(h) PROVE FALSE
    <3>1. pc[h] = "stitch:finalize" /\ status[k] \notin {"STITCHING"}
      BY <1>2, <2>1, <2>3, <2>7, Predecessors, Zenon DEF StitchFinalize, Goto, Ends, TypeOK
    <3>2. status[k] # "GENERATING"
      BY <2>1, <2>3, <3>1, Zenon DEF ProgressOK
    <3>3. status'[k] = status[k]
      BY <2>1, <2>7, <3>1, Predecessors, Zenon DEF StitchFinalize, finalize_job, advance_status
    <3>. QED BY <2>4, <2>5, <3>1, <3>2, <3>3, Zenon DEF Advanced
  <2>. QED BY <1>2, <2>1, <2>2, <2>6, <2>7, Zenon DEF Ends, TtsClaim, TtsReread, TtsEmit,
           ParsePublish, Goto, TtsStep, ParseStep
<1>. QED BY <1>1, <1>2, LiveStays, Zenon

\* A request stays live until a tts handler or the resolver is through with it.
LEMMA RequestStays ==
  ASSUME TypeInv, WorkInv, [Next]_vars, NEW k \in Job, NEW i \in Blocks(k),
         Live(TtsRequested(k, i))
  PROVE  \/ Live(TtsRequested(k, i))'
         \/ \E h \in Handler : /\ TtsClaim(h) \/ TtsReread(h) \/ TtsEmit(h) \/ Dlq(h)
                               /\ Jb(h) = k /\ Tk(h) = i /\ pc'[h] = "ack"
<1>1. "route" \notin Faulty
  BY Zenon DEF WorkInv, RoutingHolds
<1>2. ASSUME NEW h \in Handler, pc[h] # "idle", held[h].event = TtsRequested(k, i), Ends(h)
      PROVE  /\ TtsClaim(h) \/ TtsReread(h) \/ TtsEmit(h) \/ Dlq(h)
             /\ Jb(h) = k /\ Tk(h) = i /\ pc'[h] = "ack"
  <2>1. Jb(h) = k /\ Tk(h) = i /\ pc[h] \notin ParseStep /\ pc[h] \notin StitchStep
    BY <1>2, StepEvent, Zenon
  <2>. QED BY <1>2, <2>1, Zenon DEF Ends, ParsePublish, StitchJob,
           StitchFinalize, StitchNotify, Goto, ParseStep, StitchStep
<1>. QED BY <1>1, <1>2, LiveStays, Zenon

\* A block that was sent is resolved or still on its way.
LEMMA SentStays ==
  ASSUME TypeInv, BarrierInv, WorkInv, [Next]_vars, NEW k \in Job,
         NEW i \in Blocks(k), Sent(k, i)
  PROVE  Sent(k, i)'
<1>1. CASE i \in Resolved(k)
  BY <1>1, StaysTrue, Zenon DEF Sent
<1>2. CASE Live(TtsRequested(k, i))
  <2>1. ASSUME NEW h \in Handler, TtsClaim(h) \/ TtsReread(h) \/ TtsEmit(h) \/ Dlq(h),
               Jb(h) = k, Tk(h) = i
        PROVE  task'[k][i] \in {"DONE", "FAILED"}
    <3>1. CASE TtsClaim(h)
      BY <2>1, <3>1, ClaimDone, Zenon
    <3>2. CASE TtsReread(h) \/ TtsEmit(h)
      <4>1. task[k][i] = "DONE"
        BY <2>1, <3>2, Zenon DEF TtsReread, TtsEmit, Goto, WorkInv, ProgressOK
      <4>. QED BY <4>1, CountFacts, StaysTrue, Zenon
    <3>3. CASE DlqResolve(h)
      <4>1. i # NoTask
        BY CountFacts DEF Blocks, NoTask
      <4>2. held[h].event.type = "TtsRequested"
        BY <2>1, <3>3, <4>1, BusyHolds, MessageFields, Zenon DEF DlqResolve, Goto, Tk
      <4>. QED BY <2>1, <3>3, <4>2, ResolverStep, ZenonT(30) DEF db, GivesUp
    <3>4. CASE DlqEmit(h)
      <4>1. task[k][i] \in {"DONE", "FAILED"}
        BY <2>1, <3>4, Zenon DEF DlqEmit, Goto, WorkInv, ProgressOK
      <4>. QED BY <4>1, CountFacts, StaysTrue, Zenon
    <3>. QED BY <2>1, <3>1, <3>2, <3>3, <3>4, Zenon DEF Dlq
  <2>2. task'[k][i] \in {"DONE", "FAILED"} => Sent(k, i)'
    BY Zenon DEF Sent, Resolved
  <2>. QED BY <1>2, <2>1, <2>2, RequestStays, Zenon DEF Sent
<1>. QED BY <1>1, <1>2, Zenon DEF Sent

-----------------------------------------------------------------------------
(* The messages and the handlers.                                          *)

\* What is known of the event of a message stays true.
LEMMA EventStays ==
  ASSUME TypeInv, BarrierInv, WorkInv, [Next]_vars, NEW m \in Message, EventOK(m)
  PROVE  EventOK(m)'
<1>. DEFINE j == m.event.job
            i == m.event.task
<1>1. j \in Job
  BY MessageFields, Zenon
<1>2. Advanced(j) => Advanced(j)'
  BY <1>1, StaysTrue, Zenon
<1>3. i \in Blocks(j) /\ task[j][i] # "ABSENT" => task'[j][i] # "ABSENT"
  <2>1. i \in Blocks(j) => i \in Index
    BY <1>1, CountFacts, Zenon
  <2>2. \A x \in Index : task[j][x] # "ABSENT" => task'[j][x] # "ABSENT"
    BY <1>1, RowMonotone, Zenon
  <2>. QED BY <2>1, <2>2, Zenon
<1>. QED BY <1>2, <1>3, Zenon DEF EventOK

\* A parse handler that publishes requests is at one of its blocks.
LEMMA LoopBlock ==
  ASSUME TypeInv, NEW h \in Handler, pc[h] = "parse:publish", Count(Jb(h)) # 0
  PROVE  cur[h] \in Blocks(Jb(h)) /\ cur[h] \in Index /\ Jb(h) \in Job
<1>1. Jb(h) \in Job
  BY BusyHolds, Zenon
<1>2. /\ Count(Jb(h)) \in Nat /\ cur[h] \in Nat
      /\ cur[h] = 0 \/ cur[h] < Count(Jb(h))
  BY <1>1, CountFacts, Zenon DEF TypeInv, TypeOK, HandlerOK
<1>3. cur[h] \in Blocks(Jb(h))
  BY <1>2, SMTT(40) DEF Blocks
<1>. QED BY <1>1, <1>3, CountFacts, Zenon

\* What is published fits the state of the job.
LEMMA QueueNext ==
  ASSUME TypeInv, BarrierInv, WorkInv, [Next]_vars, NEW x \in Message, queue'[x] > 0
  PROVE  EventOK(x)'
<1>0. /\ \A m \in Message : queue[m] > 0 => EventOK(m)
      /\ \A h \in Handler : ProgressOK(h)
  BY Zenon DEF WorkInv
<1>1. CASE queue[x] > 0
  BY <1>0, <1>1, EventStays, Zenon
<1>2. ASSUME NEW m \in Message, EventOK(m), x.event = m.event
      PROVE  EventOK(x)
  BY <1>2, Zenon DEF EventOK
<1>3. ASSUME NEW h \in Handler, pc[h] # "idle", x = held[h] PROVE EventOK(x)
  BY <1>0, <1>3, Zenon DEF ProgressOK
<1>4. ASSUME NEW h \in Handler, pc[h] = "route", x.event = held[h].event PROVE EventOK(x)
  <2>1. held[h] \in Message
    BY <1>4, BusyHolds, Zenon
  <2>2. EventOK(held[h])
    BY <1>0, <1>4, Zenon DEF ProgressOK
  <2>. QED BY <1>2, <1>4, <2>1, <2>2, Zenon
<1>5. CASE x.event.type = "JobCreated"
  BY <1>5, Zenon DEF EventOK
<1>6. ASSUME NEW h \in Handler, x = Fresh(StitchReady(Jb(h))),
             \/ pc[h] \in {"tts:emit", "dlq:emit"}
             \/ pc[h] = "parse:publish" /\ Count(Jb(h)) = 0
      PROVE  EventOK(x)
  <2>1. Advanced(Jb(h))
    <3>1. CASE pc[h] = "tts:emit"
      <4>1. EventOK(held[h]) /\ held[h].event.type = "TtsRequested"
        BY <1>0, <3>1, Zenon DEF ProgressOK, TypeInv, HandlerOK, TtsStep
      <4>. QED BY <4>1, Zenon DEF EventOK, Jb
    <3>2. CASE pc[h] = "parse:publish"
      BY <1>0, <3>2, Zenon DEF ProgressOK
    <3>3. CASE pc[h] = "dlq:emit"
      BY <1>0, <3>3, Zenon DEF ProgressOK, EventOK, Jb
    <3>. QED BY <1>6, <3>1, <3>2, <3>3, Zenon
  <2>2. x.event = StitchReady(Jb(h))
    BY <1>6 DEF Fresh
  <2>3. x.event.type = "StitchReady" /\ x.event.job = Jb(h)
    BY <2>2, EventFields, Zenon
  <2>. QED BY <2>1, <2>3, Zenon DEF EventOK
<1>7. ASSUME NEW h \in Handler, x = Fresh(TtsRequested(Jb(h), cur[h])),
             pc[h] = "parse:publish", Count(Jb(h)) # 0
      PROVE  EventOK(x)
  <2>1. Advanced(Jb(h)) /\ \A i \in Blocks(Jb(h)) : task[Jb(h)][i] # "ABSENT"
    BY <1>0, <1>7, Zenon DEF ProgressOK
  <2>2. cur[h] \in Blocks(Jb(h))
    BY <1>7, LoopBlock, Zenon
  <2>3. /\ x.event.type = "TtsRequested" /\ x.event.job = Jb(h)
        /\ x.event.task = cur[h]
    BY <1>7 DEF Fresh, TtsRequested
  <2>. QED BY <2>1, <2>2, <2>3, Zenon DEF EventOK
<1>8. EventOK(x) => EventOK(x)'
  BY EventStays, Zenon
<1>. QED BY MessageOrigin, <1>0, <1>1, <1>2, <1>3, <1>4, <1>5, <1>6, <1>7, <1>8, Zenon

\* Each step of the publish loop sends one more block.
LEMMA LoopSends ==
  ASSUME TypeInv, BarrierInv, WorkInv, [Next]_vars, NEW h \in Handler, ParsePublish(h),
         NEW k \in Job, Jb(h) = k, NEW i \in Blocks(k), i <= cur[h]
  PROVE  Sent(k, i)'
<1>1. pc[h] = "parse:publish" /\ ProgressOK(h)
  BY Zenon DEF ParsePublish, Goto, WorkInv
<1>2. Count(k) # 0
  BY CountFacts, SMTT(40) DEF Blocks
<1>3. cur[h] \in Index /\ queue' = Put(queue, Fresh(TtsRequested(k, cur[h])))
  BY <1>1, <1>2, LoopBlock, Zenon DEF ParsePublish
<1>4. CASE i = cur[h]
  <2>0. Fresh(TtsRequested(k, i)).event = TtsRequested(k, i)
    BY DEF Fresh
  <2>1. Fresh(TtsRequested(k, i)) \in Message
    BY <1>3, <1>4, FreshMessage, Zenon
  <2>2. queue' = Put(queue, Fresh(TtsRequested(k, i)))
    BY <1>3, <1>4, Zenon
  <2>3. Live(TtsRequested(k, i))'
    <3>. DEFINE m == Fresh(TtsRequested(k, i))
    <3>1. queue'[m] > 0
      BY <2>1, <2>2, BagKeeps, Zenon DEF TypeInv, TypeOK
    <3>. QED BY <2>0, <2>1, <3>1, Zenon DEF Live
  <2>. QED BY <2>3, Zenon DEF Sent
<1>5. CASE i < cur[h]
  BY <1>1, <1>5, SentStays, Zenon DEF ProgressOK
<1>6. i \in Nat /\ cur[h] \in Nat
  BY <1>3, CountFacts, SMTT(40) DEF Blocks, Index
<1>. QED BY <1>4, <1>5, <1>6, SMTT(40)

\* What a handler has established stays true while it works, and each of its steps
\* establishes what the next one relies on.
LEMMA ProgressNext ==
  ASSUME TypeInv, TypeInv', BarrierInv, GateInv, WorkInv, [Next]_vars, NEW g \in Handler
  PROVE  ProgressOK(g)'
<1>. USE DEF gateway, db, store, local
<1>0. TypeOK /\ ProgressOK(g)
  BY Zenon DEF TypeInv, WorkInv
<1>1. CASE pc'[g] = "idle"
  BY <1>1, Zenon DEF ProgressOK
<1>2. ASSUME NEW m \in Message, Deliver(g, m) PROVE ProgressOK(g)'
  <2>1. held'[g] = m /\ pc'[g] = Entry(m) /\ m.at # "retry" /\ queue[m] > 0
    BY <1>0, <1>2, Zenon DEF Deliver, TypeOK
  <2>2. EventOK(m)'
    BY <2>1, EventStays, Zenon DEF WorkInv
  <2>3. EventOK(held[g])'
    BY <2>1, <2>2, Zenon DEF EventOK, Advanced
  <2>4. pc'[g] \in {"parse:load", "tts:audio", "stitch:job", "dlq:resolve"}
    BY <2>1, EntryStep, Zenon
  <2>. QED BY <2>3, <2>4, Zenon DEF ProgressOK
<1>3. ASSUME pc[g] # "idle", held'[g] = held[g] PROVE ProgressOK(g)'
  <2>. DEFINE j == Jb(g)
  <2>1. held[g] \in Message /\ j \in Job /\ EventOK(held[g])
    BY <1>0, <1>3, BusyHolds, Zenon DEF ProgressOK
  <2>. PICK k \in Job : k = Jb(g)
    BY <2>1, Zenon
  <2>2. EventOK(held[g])'
    <3>. PICK m \in Message : m = held[g]
      BY <2>1, Zenon
    <3>1. EventOK(m)'
      BY <2>1, EventStays, Zenon
    <3>. QED BY <1>3, <3>1, Zenon DEF EventOK, Advanced
  <2>3. Jb(g)' = k /\ Tk(g)' = Tk(g)
    BY <1>3, Zenon DEF Jb, Tk
  <2>. HIDE DEF j
  <2>4. CASE pc'[g] \in {"ack", "route", "parse:begin", "tts:claim", "stitch:chunks",
                        "stitch:advance"}
    BY <2>2, <2>4, Zenon DEF ProgressOK
  <2>5. /\ Advanced(k) => Advanced(k)'
        /\ \A i \in Blocks(k) : task[k][i] # "ABSENT" => task'[k][i] # "ABSENT"
        /\ \A i \in Blocks(k) : Sent(k, i) => Sent(k, i)'
    BY CountFacts, StaysTrue, SentStays, Zenon
  <2>6. pc[g] \in TtsStep \/ pc[g] = "dlq:emit" => Tk(g) \in Index
    <3>1. pc[g] \in TtsStep \/ pc[g] = "dlq:emit" => held[g].event.type = "TtsRequested"
      BY <1>0, Zenon DEF TypeInv, HandlerOK, ProgressOK
    <3>2. pc[g] \in TtsStep \/ pc[g] = "dlq:emit" => Tk(g) \in Blocks(k)
      BY <2>1, <3>1, Zenon DEF EventOK, Jb, Tk
    <3>. QED BY <3>2, CountFacts, Zenon
  <2>7. pc[g] \in StitchStep => Advanced(k)
    <3>1. pc[g] \in StitchStep => held[g].event.type = "StitchReady"
      BY Zenon DEF TypeInv, HandlerOK
    <3>. QED BY <2>1, <3>1, Zenon DEF EventOK, Jb
  <2>8. CASE pc'[g] \in {"tts:reread", "tts:emit"} /\ task'[k][Tk(g)] = "DONE"
    BY <2>2, <2>3, <2>8, Zenon DEF ProgressOK
  <2>9. CASE pc'[g] \in {"stitch:put", "stitch:finalize"} /\ status'[k] # "GENERATING"
    BY <2>2, <2>3, <2>9, Zenon DEF ProgressOK
  <2>10. CASE pc'[g] = "stitch:notify" /\ status'[k] = "COMPLETED"
    BY <2>2, <2>3, <2>10, Zenon DEF ProgressOK
  <2>11. CASE /\ pc'[g] = "dlq:emit" /\ held[g].event.type = "TtsRequested"
              /\ task'[k][Tk(g)] \in {"DONE", "FAILED"}
    BY <1>3, <2>2, <2>3, <2>11, Zenon DEF ProgressOK
  <2>12. CASE /\ pc'[g] = "parse:advance"
              /\ \A i \in Blocks(k) : task'[k][i] # "ABSENT"
    BY <2>2, <2>3, <2>12, Zenon DEF ProgressOK
  <2>13. CASE /\ pc'[g] = "parse:publish" /\ Advanced(k)'
              /\ \A i \in Blocks(k) : task'[k][i] # "ABSENT"
              /\ \A i \in Blocks(k) : i < cur'[g] => Sent(k, i)'
    <3>1. Advanced(Jb(g))' /\ \A i \in Blocks(k) : Sent(Jb(g), i)' <=> Sent(k, i)'
      BY <2>3, <2>13, Zenon DEF Advanced, Sent, Resolved, Live
    <3>. QED BY <2>2, <2>3, <2>13, <3>1, Zenon DEF ProgressOK
  <2>15. CASE pc'[g] \in {"parse:load", "tts:audio", "stitch:job", "dlq:resolve"}
    BY <2>2, <2>15, Zenon DEF ProgressOK
  \* The step is another handler's.
  <2>16. CASE pc'[g] = pc[g] /\ cur'[g] = cur[g]
    <3>1. CASE pc[g] \in {"tts:reread", "tts:emit"}
      <4>1. task[k][Tk(g)] = "DONE" /\ Tk(g) \in Index
        BY <1>0, <2>6, <3>1, Zenon DEF ProgressOK, TtsStep
      <4>. QED BY <2>8, <2>16, <3>1, <4>1, StaysTrue, Zenon
    <3>2. CASE pc[g] \in {"stitch:put", "stitch:finalize"}
      <4>1. status[k] # "GENERATING" /\ Advanced(k)
        BY <1>0, <2>7, <3>2, Zenon DEF ProgressOK, StitchStep
      <4>. QED BY <2>9, <2>16, <3>2, <4>1, StaysTrue, Zenon
    <3>3. CASE pc[g] = "stitch:notify"
      <4>1. status[k] = "COMPLETED"
        BY <1>0, <3>3, Zenon DEF ProgressOK
      <4>. QED BY <2>10, <2>16, <3>3, <4>1, StaysTrue, Zenon
    <3>4. CASE pc[g] = "dlq:emit"
      <4>1. /\ task[k][Tk(g)] \in {"DONE", "FAILED"} /\ Tk(g) \in Index
            /\ held[g].event.type = "TtsRequested"
        BY <1>0, <2>6, <3>4, Zenon DEF ProgressOK
      <4>. QED BY <2>11, <2>16, <3>4, <4>1, StaysTrue, Zenon
    <3>5. CASE pc[g] = "parse:advance"
      BY <1>0, <2>5, <2>12, <2>16, <3>5, Zenon DEF ProgressOK
    <3>6. CASE pc[g] = "parse:publish"
      BY <1>0, <2>5, <2>13, <2>16, <3>6, Zenon DEF ProgressOK
    <3>8. pc[g] \in Step
      BY <1>0, Zenon DEF TypeOK
    <3>. QED BY <1>3, <2>4, <2>15, <2>16, <3>1, <3>2, <3>3, <3>4, <3>5, <3>6, <3>8,
             Zenon DEF Step, WorkStep, ParseStep, TtsStep, StitchStep, DlqStep
  <2>17. CASE Raise(g)
    BY <1>0, <2>4, <2>17, Zenon DEF Raise, Goto, TypeOK
  <2>18. CASE TtsClaim(g)
    <3>1. task'[k][Tk(g)] = "DONE" /\ pc'[g] \in {"tts:reread", "tts:emit", "ack"}
      <4>1. task'[k][Tk(g)] = "DONE"
        BY <2>18, ClaimDone, Zenon
      <4>2. pc'[g] \in {"tts:reread", "tts:emit", "ack"}
        BY <1>0, <2>18, Zenon DEF TtsClaim, Goto, TypeOK
      <4>. QED BY <4>1, <4>2, Zenon
    <3>. QED BY <2>4, <2>8, <3>1, Zenon
  <2>19. CASE TtsReread(g)
    <3>1. pc[g] = "tts:reread" /\ pc'[g] \in {"tts:emit", "ack"} /\ UNCHANGED task
      BY <1>0, <2>19, Zenon DEF TtsReread, Goto, TypeOK
    <3>2. task'[k][Tk(g)] = "DONE"
      BY <1>0, <3>1, Zenon DEF ProgressOK
    <3>. QED BY <2>4, <2>8, <3>1, <3>2, Zenon
  <2>20. CASE StitchAdvance(g)
    <3>1. pc'[g] = "stitch:put" /\ advance_status(k, "STITCHING")
      BY <1>0, <2>20, Zenon DEF StitchAdvance, Goto, TypeOK
    <3>2. status'[k] # "GENERATING"
      BY <1>0, <3>1, Predecessors, Zenon DEF advance_status, TypeOK
    <3>. QED BY <2>9, <3>1, <3>2, Zenon
  <2>21. CASE StitchPut(g)
    <3>1. pc[g] = "stitch:put" /\ pc'[g] = "stitch:finalize" /\ UNCHANGED status
      BY <1>0, <2>21, Zenon DEF StitchPut, Goto, TypeOK
    <3>2. status'[k] # "GENERATING"
      BY <1>0, <3>1, Zenon DEF ProgressOK
    <3>. QED BY <2>9, <3>1, <3>2, Zenon
  <2>22. CASE StitchFinalize(g)
    <3>1. CASE status[k] \in expected_for("COMPLETED")
      <4>1. pc'[g] = "stitch:notify" /\ status'[k] = "COMPLETED"
        BY <1>0, <2>22, <3>1, Zenon DEF StitchFinalize, finalize_job, advance_status, Goto,
           TypeOK
      <4>. QED BY <2>10, <4>1, Zenon
    <3>2. CASE status[k] \notin expected_for("COMPLETED")
      BY <1>0, <2>4, <2>22, <3>2, Zenon DEF StitchFinalize, Goto, TypeOK
    <3>. QED BY <3>1, <3>2, Zenon
  <2>23. CASE ParseBegin(g)
    <3>1. pc'[g] = "parse:advance" /\ InsertTasks(k)
      BY <1>0, <2>23, Zenon DEF ParseBegin, Goto, TypeOK
    <3>2. task'[k] = [i \in Index |-> IF i \in Blocks(k) /\ task[k][i] = "ABSENT"
                                        THEN "PENDING" ELSE task[k][i]]
      BY <1>0, <3>1, Zenon DEF InsertTasks, TypeOK
    <3>3. ASSUME NEW i \in Blocks(k) PROVE task'[k][i] # "ABSENT"
      <4>1. i \in Index
        BY CountFacts, Zenon
      <4>. QED BY <3>2, <4>1, Zenon
    <3>. QED BY <2>12, <3>1, <3>3, Zenon
  <2>24. CASE ParseAdvance(g)
    <3>1. /\ pc[g] = "parse:advance" /\ pc'[g] = "parse:publish"
          /\ cur'[g] = cur[g] /\ advance_status(k, "GENERATING") /\ UNCHANGED task
      BY <1>0, <2>24, Zenon DEF ParseAdvance, Goto, TypeOK
    <3>2. Started(k) /\ cur[g] = 0
      BY <3>1, Zenon DEF GateInv, HandlerGate, TypeInv, HandlerOK
    <3>3. Advanced(k)'
      BY <1>0, <3>1, <3>2, Predecessors, Zenon DEF advance_status, Started, Advanced, TypeOK
    <3>4. \A i \in Blocks(k) : task'[k][i] # "ABSENT"
      BY <1>0, <3>1, Zenon DEF ProgressOK
    <3>5. \A i \in Blocks(k) : ~(i < cur'[g])
      BY <3>1, <3>2, CountFacts, SMTT(40) DEF Blocks
    <3>. QED BY <2>13, <3>1, <3>3, <3>4, <3>5, Zenon
  <2>25. CASE ParsePublish(g)
    <3>1. /\ pc[g] = "parse:publish" /\ pc'[g] \in {"parse:publish", "ack"} /\ UNCHANGED task
      BY <1>0, <2>25, Zenon DEF ParsePublish, Goto, TypeOK
    <3>2. \A i \in Blocks(k) : task'[k][i] # "ABSENT"
      BY <1>0, <3>1, Zenon DEF ProgressOK
    <3>3. Advanced(k)'
      BY <1>0, <2>5, <3>1, Zenon DEF ProgressOK
    <3>4. ASSUME NEW i \in Blocks(k), i < cur'[g] PROVE Sent(k, i)'
      <4>1. Count(k) # 0
        BY CountFacts, SMTT(40) DEF Blocks
      <4>2. cur'[g] = cur[g] + 1 /\ cur[g] \in Nat
        BY <1>0, <2>25, <4>1, Zenon DEF ParsePublish, TypeOK
      <4>3. i <= cur[g]
        BY <3>4, <4>2, CountFacts, SMTT(40) DEF Blocks
      <4>. QED BY <2>25, <4>3, LoopSends, Zenon
    <3>. QED BY <2>4, <2>13, <3>1, <3>2, <3>3, <3>4, Zenon
  <2>26. CASE \/ ParseLoad(g) \/ TtsAudio(g) \/ TtsEmit(g) \/ StitchJob(g) \/ StitchChunks(g)
              \/ StitchNotify(g) \/ Route(g) \/ DlqEmit(g)
    <3>1. pc'[g] \in {"ack", "parse:begin", "tts:claim", "stitch:chunks", "stitch:advance"}
      BY <1>0, <2>26, Zenon DEF ParseLoad, TtsAudio, TtsEmit, StitchJob, StitchChunks,
         StitchNotify, Route, DlqEmit, Goto, TypeOK
    <3>. QED BY <2>4, <3>1, Zenon
  <2>27. CASE DlqResolve(g)
    <3>1. \/ pc'[g] = "ack"
          \/ /\ pc'[g] = "dlq:emit" /\ held[g].event.type = "TtsRequested"
             /\ task'[k][Tk(g)] = "FAILED"
      BY <2>27, ResolverStep, ZenonT(30) DEF GivesUp
    <3>. QED BY <2>4, <2>11, <3>1, Zenon
  <2>28. CASE (\E m \in Message : Deliver(g, m)) \/ Crash(g) \/ RouteFails(g) \/ Ack(g) \/ Nack(g)
    BY <1>0, <1>1, <1>3, <2>28, Zenon DEF Deliver, Crash, RouteFails, Ack, Nack, Finish, TypeOK
  <2>. QED BY Actor, <2>16, <2>17, <2>18, <2>19, <2>20, <2>21, <2>22, <2>23, <2>24, <2>25,
           <2>26, <2>27, <2>28, ZenonT(60) DEF Work, Parse, Tts, Stitch, Dlq
<1>4. \/ pc'[g] = "idle"
      \/ \E m \in Message : Deliver(g, m)
      \/ pc[g] # "idle" /\ held'[g] = held[g]
  <2>1. CASE Crash(g) \/ RouteFails(g) \/ Ack(g) \/ Nack(g)
    BY <1>0, <2>1, Zenon DEF Crash, RouteFails, Ack, Nack, Finish, TypeOK
  <2>2. CASE Raise(g) \/ Route(g) \/ Dlq(g)
    BY <2>2, Zenon DEF Raise, Route, Dlq, DlqResolve, DlqEmit, Goto, WorkStep, ParseStep,
       TtsStep, StitchStep
  <2>3. CASE Parse(g)
    BY <2>3, Zenon DEF Parse, ParseLoad, ParseBegin, ParseAdvance, ParsePublish, Goto
  <2>4. CASE Tts(g)
    BY <2>4, Zenon DEF Tts, TtsAudio, TtsClaim, TtsReread, TtsEmit, Goto
  <2>5. CASE Stitch(g)
    BY <2>5, Zenon DEF Stitch, StitchJob, StitchChunks, StitchAdvance, StitchPut,
       StitchFinalize, StitchNotify, Goto
  <2>6. CASE pc'[g] = pc[g] /\ held'[g] = held[g]
    BY <2>6, Zenon
  <2>. QED BY Actor, <2>1, <2>2, <2>3, <2>4, <2>5, <2>6, Zenon DEF Work
<1>. QED BY <1>1, <1>2, <1>3, <1>4, Zenon

-----------------------------------------------------------------------------
(* The jobs.                                                               *)

\* A handler that goes on with its message keeps the event live.
LEMMA StaysHeld ==
  ASSUME NEW h \in Handler, NEW e, held[h].event = e, held'[h] = held[h],
         pc'[h] \notin {"idle", "ack"}
  PROVE  Live(e)'
BY Zenon DEF Live

\* While a job is PARSING its JobCreated is live and no block is resolved.
LEMMA ParsingNext ==
  ASSUME TypeInv, BarrierInv, WorkInv, [Next]_vars, NEW k \in Job,
         status'[k] = "PARSING"
  PROVE  Live(JobCreated(k))' /\ Resolved(k)' = {}
<1>0. TypeOK /\ JobDriven(k) /\ RowOK(k) /\ \A h \in Handler : ProgressOK(h)
  BY Zenon DEF TypeInv, WorkInv, BarrierInv, RowsOK
<1>1. CASE status[k] = "PARSING"
  <2>1. Live(JobCreated(k)) /\ Resolved(k) = {} /\ InProgress(k)' /\ ~Advanced(k)
    BY <1>0, <1>1, Zenon DEF JobDriven, InProgress, Advanced
  <2>2. ASSUME NEW h \in Handler, ParsePublish(h), Jb(h) = k PROVE FALSE
    BY <1>0, <2>1, <2>2, Zenon DEF ParsePublish, Goto, ProgressOK
  <2>3. ASSUME NEW h \in Handler, TtsClaim(h), Jb(h) = k PROVE FALSE
    <3>1. pc[h] = "tts:claim" /\ EventOK(held[h])
      BY <1>0, <2>3, Zenon DEF TtsClaim, Goto, ProgressOK
    <3>2. held[h].event.type = "TtsRequested"
      BY <3>1, Zenon DEF TypeInv, HandlerOK, TtsStep
    <3>. QED BY <2>1, <2>3, <3>1, <3>2, Zenon DEF EventOK, Jb
  <2>6. ASSUME NEW h \in Handler, DlqResolve(h), held[h].event.type = "TtsRequested",
               Jb(h) = k
        PROVE  FALSE
    <3>1. EventOK(held[h])
      BY <1>0, <2>6, Zenon DEF DlqResolve, Goto, ProgressOK
    <3>. QED BY <2>1, <2>6, <3>1, Zenon DEF EventOK, Jb
  <2>4. \A i \in Blocks(k) : task'[k][i] \notin {"DONE", "FAILED"}
    <3>1. \A i \in Blocks(k) : task[k][i] \notin {"DONE", "FAILED"} /\ i \in Index
      BY <2>1, CountFacts, Zenon DEF Resolved
    <3>. QED BY <2>3, <2>6, <3>1, RowMoves, Zenon
  <2>5. Live(JobCreated(k))'
    BY <2>1, <2>2, CreatedStays, Zenon
  <2>. QED BY <2>4, <2>5, Zenon DEF Resolved
<1>2. CASE status[k] # "PARSING"
  <2>1. status[k] = "PENDING" /\ \E h \in Handler : ParseBegin(h) /\ Jb(h) = k
    BY <1>2, StatusMoves, Zenon
  <2>. PICK h \in Handler : ParseBegin(h) /\ Jb(h) = k
    BY <2>1, Zenon
  <2>2. /\ pc[h] = "parse:begin" /\ pc'[h] = "parse:advance" /\ held'[h] = held[h]
    BY <1>0, Zenon DEF ParseBegin, Goto, TypeOK
  <2>3. held[h].event = JobCreated(k)
    BY <2>2, StepEvent, Zenon DEF ParseStep
  <2>4. Live(JobCreated(k))'
    BY <2>2, <2>3, StaysHeld, Zenon
  <2>5. \A i \in Blocks(k) : task[k][i] = "ABSENT" /\ i \in Index
    BY <1>0, <2>1, CountFacts, Zenon DEF RowOK
  <2>6. \A i \in Blocks(k) : task'[k][i] \notin {"DONE", "FAILED"}
    BY <2>5, RowMoves, Zenon
  <2>. QED BY <2>4, <2>6, Zenon DEF Resolved
<1>. QED BY <1>1, <1>2, Zenon

\* While a job is GENERATING its parse is to be repeated or everything is sent.
LEMMA FanOutNext ==
  ASSUME TypeInv, BarrierInv, WorkInv, [Next]_vars, NEW k \in Job,
         status[k] = "GENERATING", status'[k] = "GENERATING"
  PROVE  \/ Live(JobCreated(k))'
         \/ Blocks(k) = {} /\ Live(StitchReady(k))'
         \/ Blocks(k) # {} /\ \A i \in Blocks(k) : Sent(k, i)'
<1>0. TypeOK /\ JobDriven(k) /\ InProgress(k)'
  BY Zenon DEF TypeInv, WorkInv, InProgress
<1>1. ASSUME NEW h \in Handler, ParsePublish(h), Jb(h) = k, pc'[h] = "ack"
      PROVE  \/ Blocks(k) = {} /\ Live(StitchReady(k))'
             \/ Blocks(k) # {} /\ \A i \in Blocks(k) : Sent(k, i)'
  <2>1. CASE Count(k) = 0
    <3>1. Blocks(k) = {}
      BY <2>1, SMTT(40) DEF Blocks
    <3>. DEFINE m == Fresh(StitchReady(k))
    <3>2. m \in Message /\ queue' = Put(queue, m)
      BY <1>1, <2>1, FreshMessage, Zenon DEF ParsePublish
    <3>3. m.event = StitchReady(k)
      BY DEF Fresh
    <3>4. Live(StitchReady(k))'
      <4>1. queue'[m] > 0
        BY <1>0, <3>2, BagKeeps, Zenon DEF TypeOK
      <4>. QED BY <3>2, <3>3, <4>1, Zenon DEF Live
    <3>. QED BY <3>1, <3>4, Zenon
  <2>2. CASE Count(k) # 0
    <3>1. ~(cur[h] + 1 < Count(k)) /\ cur[h] \in Nat
      BY <1>0, <1>1, Zenon DEF ParsePublish, Goto, TypeOK
    <3>2. Blocks(k) # {} /\ \A i \in Blocks(k) : i <= cur[h]
      BY <2>2, <3>1, CountFacts, SMTT(40) DEF Blocks
    <3>. QED BY <1>1, <3>2, LoopSends, Zenon
  <2>. QED BY <2>1, <2>2, Zenon
<1>2. CASE Live(JobCreated(k))
  BY <1>0, <1>1, <1>2, CreatedStays, Zenon
<1>3. CASE Blocks(k) = {} /\ Live(StitchReady(k))
  BY <1>0, <1>3, ReadyStays, Zenon
<1>4. CASE Blocks(k) # {} /\ \A i \in Blocks(k) : Sent(k, i)
  BY <1>4, SentStays, Zenon
<1>. QED BY <1>0, <1>2, <1>3, <1>4, Zenon DEF JobDriven

\* Every job stays driven.
LEMMA JobDrivenNext ==
  ASSUME TypeInv, TypeInv', BarrierInv, WorkInv, [Next]_vars, NEW k \in Job
  PROVE  JobDriven(k)'
<1>0. TypeOK /\ JobDriven(k)
  BY Zenon DEF TypeInv, WorkInv
<1>1. status'[k] = "PARSING" => Live(JobCreated(k))' /\ Resolved(k)' = {}
  BY ParsingNext, Zenon
<1>2. ASSUME status'[k] = "STITCHING" PROVE Live(StitchReady(k))'
  <2>1. CASE status[k] = "STITCHING"
    BY <1>0, <1>2, <2>1, ReadyStays, Zenon DEF JobDriven, InProgress
  <2>2. CASE status[k] # "STITCHING"
    <3>. PICK h \in Handler : StitchAdvance(h) /\ Jb(h) = k
      BY <1>2, <2>2, StatusMoves, Zenon
    <3>1. pc[h] = "stitch:advance" /\ pc'[h] = "stitch:put" /\ held'[h] = held[h]
      BY <1>0, Zenon DEF StitchAdvance, Goto, TypeOK
    <3>2. held[h].event = StitchReady(k)
      BY <3>1, StepEvent, Zenon DEF StitchStep
    <3>. QED BY <3>1, <3>2, StaysHeld, Zenon
  <2>. QED BY <2>1, <2>2, Zenon
<1>3. ASSUME status'[k] = "GENERATING", status[k] # "GENERATING"
      PROVE  Live(JobCreated(k))'
  <2>. PICK h \in Handler : ParseAdvance(h) /\ Jb(h) = k
    BY <1>3, StatusMoves, Zenon
  <2>1. /\ pc[h] = "parse:advance" /\ pc'[h] = "parse:publish" /\ held'[h] = held[h]
    BY <1>0, Zenon DEF ParseAdvance, Goto, TypeOK
  <2>2. held[h].event = JobCreated(k)
    BY <2>1, StepEvent, Zenon DEF ParseStep
  <2>. QED BY <2>1, <2>2, StaysHeld, Zenon
<1>. QED BY <1>1, <1>2, <1>3, FanOutNext, Zenon DEF JobDriven

\* Where routing does not fail, whatever else raises and whoever crashes: until it is
\* resolved every block of a GENERATING job has its request queued or held, unless
\* the parse is to be repeated, and a job that is stitched has its StitchReady
\* (handle_parse, handle_tts, handle_dlq: publish before ack).
THEOREM RequestsKept == RoutingHolds /\ Spec => []WorkInv
<1>1. RoutingHolds /\ Init => WorkInv
  <2>. SUFFICES ASSUME RoutingHolds, Init PROVE WorkInv
    BY Zenon
  <2>1. ASSUME NEW m \in Message PROVE ~(queue[m] > 0)
    <3>1. queue[m] = 0
      BY Zenon DEF Init, EmptyQueues
    <3>. QED BY <3>1
  <2>2. ASSUME NEW h \in Handler PROVE ProgressOK(h)
    BY Zenon DEF Init, ProgressOK
  <2>3. ASSUME NEW k \in Job PROVE JobDriven(k)
    BY Zenon DEF Init, JobDriven
  <2>. QED BY <2>1, <2>2, <2>3, Zenon DEF WorkInv
<1>2. TypeInv /\ TypeInv' /\ BarrierInv /\ GateInv /\ WorkInv /\ [Next]_vars => WorkInv'
  <2>. SUFFICES ASSUME TypeInv, TypeInv', BarrierInv, GateInv, WorkInv, [Next]_vars
                PROVE  WorkInv'
    BY Zenon
  <2>1. RoutingHolds
    BY Zenon DEF WorkInv
  <2>2. \A k \in Job : JobDriven(k)'
    BY JobDrivenNext, Zenon
  <2>3. \A m \in Message : queue'[m] > 0 => EventOK(m)'
    BY QueueNext, Zenon
  <2>4. \A h \in Handler : ProgressOK(h)'
    BY ProgressNext, Zenon
  <2>. QED BY <2>1, <2>2, <2>3, <2>4, Zenon DEF WorkInv, RoutingHolds
<1>. QED BY <1>1, <1>2, TypeCorrect, BarrierHolds, GateHolds, PTL DEF Spec

-----------------------------------------------------------------------------
(* Where no step of the tts handler raises.                                *)

\* No request reaches the resolver.
LEMMA OnlyJobsFail ==
  ASSUME TypeInv, WorkInv, SmoothInv, Smooth, NEW h \in Handler, Dlq(h)
  PROVE  /\ DlqResolve(h) /\ held[h].event.type # "TtsRequested"
         /\ pc'[h] = "ack" /\ UNCHANGED <<pending, task, reclaimed>>
<1>1. pc[h] \in DlqStep /\ pc[h] # "idle"
  BY Zenon DEF Dlq, DlqResolve, DlqEmit, Goto, DlqStep
<1>2. pc[h] = "dlq:resolve" /\ held[h].at = "dlq" /\ Unrouted(held[h])
  BY <1>1, Zenon DEF SmoothInv, SmoothHandler
<1>3. held[h].event.type # "TtsRequested"
  BY <1>2, Zenon DEF Unrouted
<1>4. DlqResolve(h)
  BY <1>2, Zenon DEF Dlq, DlqEmit, Goto
<1>. QED BY <1>3, <1>4, ResolverStep, Zenon DEF GivesUp

\* No block is given up, and so none is completed afterwards.
LEMMA SmoothRows ==
  ASSUME TypeInv, WorkInv, SmoothInv, Smooth, [Next]_vars, NEW k \in Job
  PROVE  reclaimed'[k] = {} /\ \A i \in Index : task'[k][i] # "FAILED"
<1>1. /\ \A j \in Job : reclaimed[j] = {} /\ \A i \in Index : task[j][i] # "FAILED"
  BY Zenon DEF SmoothInv
<1>2. ASSUME NEW h \in Handler, TtsClaim(h) PROVE UNCHANGED reclaimed
  <2>1. /\ Jb(h) \in Job /\ Tk(h) \in Index
        /\ task[Jb(h)][Tk(h)] # "FAILED" => UNCHANGED reclaimed
    BY <1>2, ClaimDone, ZenonT(30)
  <2>. QED BY <1>1, <2>1, Zenon
<1>3. ASSUME NEW h \in Handler, DlqResolve(h)
      PROVE  held[h].event.type # "TtsRequested" /\ UNCHANGED reclaimed
  BY <1>3, OnlyJobsFail, Zenon DEF Dlq
<1>4. ASSUME NEW h \in Handler, ParseAdvance(h) \/ StitchAdvance(h) \/ StitchFinalize(h)
      PROVE  UNCHANGED reclaimed
  BY <1>4, Zenon DEF ParseAdvance, StitchAdvance, StitchFinalize
<1>5. ASSUME NEW h \in Handler, ParseBegin(h) PROVE UNCHANGED reclaimed
  BY <1>5, Zenon DEF ParseBegin
<1>8. ASSUME NEW j \in Job, CreateCommit(j) PROVE UNCHANGED reclaimed
  BY <1>8, Zenon DEF CreateCommit
<1>9. UNCHANGED db => UNCHANGED reclaimed
  BY Zenon DEF db
<1>6. reclaimed' = reclaimed
  BY DbSteps, <1>2, <1>3, <1>4, <1>5, <1>8, <1>9, Zenon
<1>7. ASSUME NEW i \in Index PROVE task'[k][i] # "FAILED"
  <2>1. \/ task'[k][i] = task[k][i]
        \/ task'[k][i] \in {"PENDING", "DONE"}
        \/ \E h \in Handler : DlqResolve(h) /\ held[h].event.type = "TtsRequested"
    BY RowMoves, Zenon
  <2>. QED BY <1>1, <1>3, <2>1, Zenon
<1>. QED BY <1>1, <1>6, <1>7, Zenon

\* No request is put on the ladder or dead-lettered.
LEMMA SmoothMessages ==
  ASSUME TypeInv, WorkInv, SmoothInv, Smooth, [Next]_vars, NEW x \in Message,
         queue'[x] > 0
  PROVE  Unrouted(x)
<1>0. /\ \A m \in Message : queue[m] > 0 => Unrouted(m)
      /\ \A h \in Handler : SmoothHandler(h)
  BY Zenon DEF SmoothInv
<1>1. ASSUME NEW m \in Message, queue[m] > 0, m.at = "retry", x.event = m.event
      PROVE  Unrouted(x)
  <2>1. "retry" # "live"
    OBVIOUS
  <2>. QED BY <1>0, <1>1, <2>1, Zenon DEF Unrouted
<1>2. ASSUME NEW h \in Handler, pc[h] # "idle", x = held[h] PROVE Unrouted(x)
  BY <1>0, <1>2, Zenon DEF SmoothHandler
<1>3. ASSUME NEW h \in Handler, pc[h] = "route", x.event = held[h].event PROVE Unrouted(x)
  BY <1>0, <1>3, Zenon DEF SmoothHandler, Unrouted
<1>4. CASE x.event.type = "JobCreated"
  BY <1>4, Zenon DEF Unrouted
<1>5. ASSUME NEW h \in Handler, x = Fresh(StitchReady(Jb(h))) PROVE Unrouted(x)
  <2>1. x.event = StitchReady(Jb(h))
    BY <1>5 DEF Fresh
  <2>2. x.event.type = "StitchReady"
    BY <2>1, EventFields, Zenon
  <2>. QED BY <2>2, Zenon DEF Unrouted
<1>6. ASSUME NEW h \in Handler, x = Fresh(TtsRequested(Jb(h), cur[h])) PROVE Unrouted(x)
  <2>1. x.at = "live"
    BY <1>6 DEF Fresh
  <2>. QED BY <2>1, Zenon DEF Unrouted
<1>. QED BY MessageOrigin, <1>0, <1>1, <1>2, <1>3, <1>4, <1>5, <1>6, Zenon

\* No handler of a request raises.
LEMMA SmoothHandlers ==
  ASSUME TypeInv, WorkInv, SmoothInv, Smooth, [Next]_vars, NEW g \in Handler
  PROVE  SmoothHandler(g)'
<1>0. /\ TypeOK /\ ProgressOK(g) /\ SmoothHandler(g)
      /\ \A m \in Message : queue[m] > 0 => Unrouted(m)
  BY Zenon DEF TypeInv, WorkInv, SmoothInv
<1>1. CASE pc'[g] = "idle"
  BY <1>1, Zenon DEF SmoothHandler, DlqStep
<1>2. ASSUME NEW m \in Message, Deliver(g, m) PROVE SmoothHandler(g)'
  <2>1. held'[g] = m /\ pc'[g] = Entry(m) /\ m.at # "retry" /\ queue[m] > 0
    BY <1>0, <1>2, Zenon DEF Deliver, TypeOK
  <2>2. /\ pc'[g] \in {"parse:load", "tts:audio", "stitch:job", "dlq:resolve"}
        /\ pc'[g] = "dlq:resolve" => m.at = "dlq"
    BY <2>1, EntryStep, Zenon
  <2>. QED BY <1>0, <2>1, <2>2, Zenon DEF SmoothHandler, Unrouted, DlqStep
<1>3. ASSUME pc[g] # "idle", held'[g] = held[g],
             pc'[g] \notin DlqStep \cup {"route"} \/ pc'[g] = pc[g]
      PROVE  SmoothHandler(g)'
  BY <1>0, <1>3, Zenon DEF SmoothHandler, Unrouted, DlqStep
<1>4. CASE Raise(g)
  <2>1. /\ pc[g] \in Faulty \/ AlwaysRaises(g)
        /\ pc'[g] = "route" /\ held'[g] = held[g] /\ pc[g] # "idle"
    BY <1>0, <1>4, StepNames, Zenon DEF Raise, Goto, TypeOK
  <2>2. pc[g] \in TtsStep => pc[g] \notin Faulty
    BY Zenon DEF Smooth
  <2>3. pc[g] \in TtsStep => ~AlwaysRaises(g)
    <3>1. pc[g] \in TtsStep => held[g].event.type = "TtsRequested"
      BY Zenon DEF TypeInv, HandlerOK
    <3>2. pc[g] \in TtsStep => task[Jb(g)][Tk(g)] # "ABSENT"
      BY <1>0, <2>1, <3>1, Zenon DEF ProgressOK, EventOK, Jb, Tk
    <3>. QED BY <3>2, Zenon DEF AlwaysRaises, ParseRaises, TtsRaises, StitchRaises, TtsStep
  <2>4. pc[g] \in ParseStep \cup StitchStep
    BY <1>4, <2>2, <2>3, Zenon DEF Raise, WorkStep
  <2>5. held[g].event.type # "TtsRequested"
    BY <2>4, Zenon DEF TypeInv, HandlerOK
  <2>. QED BY <1>0, <2>1, <2>5, Zenon DEF SmoothHandler, Unrouted, DlqStep
<1>5. CASE Dlq(g)
  <2>1. pc'[g] = "ack" /\ DlqResolve(g)
    BY <1>5, OnlyJobsFail, Zenon
  <2>. QED BY <1>3, <2>1, Zenon DEF DlqResolve, Goto, DlqStep
<1>6. CASE Crash(g) \/ RouteFails(g) \/ Ack(g) \/ Nack(g)
  BY <1>0, <1>1, <1>6, Zenon DEF Crash, RouteFails, Ack, Nack, Finish, TypeOK
<1>7. CASE Route(g) \/ Parse(g)
  <2>1. /\ pc[g] # "idle" /\ held'[g] = held[g]
        /\ pc'[g] \in {"ack", "parse:begin", "parse:advance", "parse:publish"}
    BY <1>0, <1>7, Zenon DEF Route, Parse, ParseLoad, ParseBegin, ParseAdvance,
       ParsePublish, Goto, TypeOK
  <2>. QED BY <1>3, <2>1, Zenon DEF DlqStep
<1>8. CASE Tts(g)
  <2>1. /\ pc[g] # "idle" /\ held'[g] = held[g]
        /\ pc'[g] \in {"ack", "tts:claim", "tts:reread", "tts:emit"}
    BY <1>0, <1>8, Zenon DEF Tts, TtsAudio, TtsClaim, TtsReread, TtsEmit, Goto, TypeOK
  <2>. QED BY <1>3, <2>1, Zenon DEF DlqStep
<1>9. CASE Stitch(g)
  <2>1. /\ pc[g] # "idle" /\ held'[g] = held[g]
        /\ pc'[g] \in {"ack", "stitch:chunks", "stitch:advance", "stitch:put",
                       "stitch:finalize", "stitch:notify"}
    BY <1>0, <1>9, Zenon DEF Stitch, StitchJob, StitchChunks, StitchAdvance, StitchPut,
       StitchFinalize, StitchNotify, Goto, TypeOK
  <2>. QED BY <1>3, <2>1, Zenon DEF DlqStep
<1>10. CASE pc'[g] = pc[g] /\ held'[g] = held[g]
  BY <1>0, <1>10, Zenon DEF SmoothHandler, Unrouted
<1>. QED BY Actor, <1>2, <1>4, <1>5, <1>6, <1>7, <1>8, <1>9, <1>10, Zenon DEF Work

LEMMA SmoothNext ==
  ASSUME TypeInv, WorkInv, SmoothInv, [Next]_vars
  PROVE  SmoothInv'
<1>1. Smooth => \A j \in Job : reclaimed'[j] = {} /\ \A i \in Index : task'[j][i] # "FAILED"
  BY SmoothRows, Zenon
<1>2. Smooth => \A m \in Message : queue'[m] > 0 => Unrouted(m)
  BY SmoothMessages, Zenon
<1>3. Smooth => \A h \in Handler : SmoothHandler(h)'
  BY SmoothHandlers, Zenon
<1>. QED BY <1>1, <1>2, <1>3, Zenon DEF SmoothInv, Smooth, Unrouted

-----------------------------------------------------------------------------
(* The last block.                                                         *)

\* A handler that emits StitchReady makes it live.
LEMMA EmitsReady ==
  ASSUME TypeInv, NEW h \in Handler, TtsEmit(h) \/ DlqEmit(h), NEW k \in Job, Jb(h) = k
  PROVE  Live(StitchReady(k))'
<1>. DEFINE m == Fresh(StitchReady(k))
<1>1. m \in Message /\ queue' = Put(queue, m)
  BY FreshMessage, Zenon DEF TtsEmit, DlqEmit
<1>2. m.event = StitchReady(k)
  BY DEF Fresh
<1>3. queue'[m] > 0
  BY <1>1, BagKeeps, Zenon DEF TypeInv, TypeOK
<1>. QED BY <1>1, <1>2, <1>3, Zenon DEF Live

\* The counter of a job whose blocks are all resolved has reached zero.
LEMMA AllCounted ==
  ASSUME TypeOK, BarrierCount, NEW k \in Job, status[k] = "GENERATING",
         Resolved(k) = Blocks(k)
  PROVE  pending[k] <= 0 /\ (reclaimed[k] = {} => pending[k] = 0)
<1>1. pending[k] = Count(k) - Cardinality(Resolved(k)) - Cardinality(reclaimed[k])
  BY Zenon DEF BarrierCount, Seeded
<1>2. /\ Cardinality(Resolved(k)) = Count(k) /\ Count(k) \in Nat
      /\ Cardinality(reclaimed[k]) \in Nat
  BY FiniteBlocks, CountFacts, Zenon
<1>3. reclaimed[k] = {} => Cardinality(reclaimed[k]) = 0
  BY FS_EmptySet, Zenon
<1>. QED BY <1>1, <1>2, <1>3, SMTT(40)

\* Nothing of a PARSING job has been counted.
LEMMA NoneCounted ==
  ASSUME TypeInv, BarrierInv, WorkInv, NEW k \in Job, status[k] = "PARSING", Blocks(k) # {}
  PROVE  ~(pending[k] <= 0)
<1>0. TypeOK /\ RowOK(k) /\ JobDriven(k) /\ BarrierCount
  BY Zenon DEF TypeInv, BarrierInv, RowsOK, WorkInv
<1>1. Resolved(k) = {}
  BY <1>0, Zenon DEF JobDriven
<1>2. reclaimed[k] = {}
  <2>1. reclaimed[k] \in SUBSET Index
    BY <1>0, Zenon DEF TypeOK
  <2>2. ASSUME NEW i \in reclaimed[k] PROVE i \in Resolved(k)
    <3>1. i \in Index /\ task[k][i] = "DONE"
      BY <1>0, <2>1, <2>2, Zenon DEF RowOK
    <3>. QED BY <1>0, <3>1, Zenon DEF RowOK, Resolved
  <2>. QED BY <1>1, <2>2, Zenon
<1>3. pending[k] = Count(k) - Cardinality(Resolved(k)) - Cardinality(reclaimed[k])
  BY <1>0, Zenon DEF BarrierCount, Seeded
<1>4. Cardinality(Resolved(k)) = 0 /\ Cardinality(reclaimed[k]) = 0
  BY <1>1, <1>2, FS_EmptySet, Zenon
<1>5. Count(k) \in Nat /\ Count(k) # 0
  <2>1. Count(k) \in Nat
    BY CountFacts, Zenon
  <2>2. Count(k) = 0 => Blocks(k) = {}
    BY SMTT(40) DEF Blocks
  <2>. QED BY <2>1, <2>2, Zenon
<1>. QED BY <1>3, <1>4, <1>5, SMTT(40)

\* Where no block is given up: when the last block is resolved its request, or
\* StitchReady, is live.
LEMMA LastBlockNext ==
  ASSUME TypeInv, TypeInv', BarrierInv, BarrierInv', WorkInv, SmoothInv, Smooth,
         [Next]_vars, NEW k \in Job, LastKept(k),
         status[k] = "GENERATING", status'[k] = "GENERATING",
         Blocks(k) # {}, Resolved(k)' = Blocks(k)
  PROVE  \/ Live(StitchReady(k))'
         \/ \E i \in Blocks(k) : Live(TtsRequested(k, i))'
<1>0. /\ TypeOK /\ TypeOK' /\ InProgress(k)'
      /\ BarrierCount /\ BarrierCount' /\ reclaimed[k] = {}
      /\ \A i \in Index : task[k][i] # "FAILED"
  BY Zenon DEF TypeInv, SmoothInv, InProgress, BarrierInv
<1>1. CASE Resolved(k) = Blocks(k)
  <2>1. pending[k] = 0
    BY <1>0, <1>1, AllCounted, Zenon
  <2>2. CASE Live(StitchReady(k))
    BY <1>0, <2>2, ReadyStays, Zenon
  <2>3. ASSUME NEW i \in Blocks(k), Live(TtsRequested(k, i))
        PROVE  Live(TtsRequested(k, i))' \/ Live(StitchReady(k))'
    <3>1. task[k][i] = "DONE"
      BY <1>0, <1>1, CountFacts, Zenon DEF Resolved
    <3>2. ASSUME NEW h \in Handler, TtsClaim(h), Jb(h) = k, Tk(h) = i, pc'[h] = "ack"
          PROVE  FALSE
      <4>1. pc'[h] = "tts:reread"
        BY <3>1, <3>2, ClaimDone, ZenonT(30)
      <4>. QED BY <3>2, <4>1, Zenon
    <3>3. ASSUME NEW h \in Handler, TtsReread(h), Jb(h) = k, pc'[h] = "ack"
          PROVE  FALSE
      BY <1>0, <2>1, <3>3, Zenon DEF TtsReread, Goto, TypeOK
    <3>4. ASSUME NEW h \in Handler, TtsEmit(h), Jb(h) = k PROVE Live(StitchReady(k))'
      BY <3>4, EmitsReady, Zenon
    <3>5. ASSUME NEW h \in Handler, Dlq(h), Tk(h) = i PROVE FALSE
      <4>1. /\ held[h].event.type # "TtsRequested" /\ held[h] \in Message
        BY <3>5, OnlyJobsFail, BusyHolds, Zenon DEF DlqResolve, Goto
      <4>2. Tk(h) = NoTask
        BY <4>1, MessageFields, Zenon DEF Tk
      <4>3. i # NoTask
        BY CountFacts DEF Blocks, NoTask
      <4>. QED BY <3>5, <4>2, <4>3, Zenon
    <3>. QED BY <2>3, <3>2, <3>3, <3>4, <3>5, RequestStays, Zenon
  <2>. QED BY <1>1, <2>2, <2>3, Zenon DEF LastKept
<1>2. CASE Resolved(k) # Blocks(k)
  <2>1. PICK i \in Blocks(k) : i \notin Resolved(k)
    BY <1>2, Zenon DEF Resolved
  <2>2. i \in Index /\ task[k][i] # "DONE" /\ task'[k][i] = "DONE"
    <3>1. i \in Index /\ task[k][i] # "DONE" /\ task'[k][i] \in {"DONE", "FAILED"}
      BY <2>1, CountFacts, Zenon DEF Resolved
    <3>. QED BY <3>1, SmoothRows, Zenon
  <2>. PICK h \in Handler : TtsClaim(h) /\ Jb(h) = k /\ Tk(h) = i
    BY <2>2, RowMoves, Zenon
  <2>4. /\ pending'[k] = pending[k] - 1
        /\ pc'[h] = IF pending[k] - 1 = 0 THEN "tts:emit" ELSE "ack"
    BY <2>2, ClaimDone, ZenonT(30)
  <2>5. pending'[k] = 0
    <3>1. reclaimed'[k] = {}
      BY SmoothRows, Zenon
    <3>2. Cardinality(Resolved(k)') = Count(k) /\ Count(k) \in Nat
      BY <1>0, FiniteBlocks, CountFacts, Zenon
    <3>3. pending'[k] = Count(k) - Cardinality(Resolved(k)') - Cardinality(reclaimed'[k])
      BY <1>0, Zenon DEF BarrierCount, Seeded
    <3>4. Cardinality(reclaimed'[k]) = 0
      BY <3>1, FS_EmptySet, Zenon
    <3>. QED BY <3>2, <3>3, <3>4, SMTT(40)
  <2>6. pc'[h] = "tts:emit"
    BY <2>4, <2>5, Zenon
  <2>7. pc[h] = "tts:claim" /\ held'[h] = held[h]
    BY Zenon DEF TtsClaim, Goto
  <2>8. held[h].event = TtsRequested(k, i)
    BY <2>7, StepEvent, Zenon DEF TtsStep
  <2>9. Live(TtsRequested(k, i))'
    BY <2>6, <2>7, <2>8, StaysHeld, Zenon
  <2>. QED BY <2>9, Zenon
<1>. QED BY <1>1, <1>2, Zenon

\* Where no handler dies before it emits: whoever brings the counter to zero goes on to
\* publish StitchReady.
LEMMA ZeroNext ==
  ASSUME TypeInv, TypeInv', BarrierInv, WorkInv, Steady, [Next]_vars, NEW k \in Job,
         LastKept(k), status[k] = "GENERATING", status'[k] = "GENERATING",
         Blocks(k) # {}, pending'[k] <= 0
  PROVE  Live(StitchReady(k))' \/ Emitting(k)'
<1>0. TypeOK /\ InProgress(k)'
  BY Zenon DEF TypeInv, InProgress
<1>1. CASE pending[k] <= 0
  <2>1. CASE Live(StitchReady(k))
    BY <1>0, <2>1, ReadyStays, Zenon
  <2>2. ASSUME NEW h \in Handler, pc[h] \in {"tts:emit", "dlq:emit"}, Jb(h) = k
        PROVE  Live(StitchReady(k))' \/ Emitting(k)'
    <3>1. CASE TtsEmit(h) \/ DlqEmit(h)
      BY <2>2, <3>1, EmitsReady, Zenon
    <3>2. CASE pc'[h] = pc[h] /\ held'[h] = held[h]
      BY <2>2, <3>2, Zenon DEF Emitting, Jb
    <3>3. ~Crash(h)
      <4>1. ~(crashes < MaxCrashes)
        BY <1>0, SMTT(40) DEF TypeOK, Steady
      <4>. QED BY <4>1, Zenon DEF Crash
    <3>4. ~Raise(h) /\ ~Nack(h)
      <4>1. pc[h] \notin Faulty
        BY <2>2, Zenon DEF Steady
      <4>. QED BY <2>2, <4>1, Zenon DEF Raise, Nack, AlwaysRaises, ParseRaises, TtsRaises,
               StitchRaises
    <3>5. /\ ~Parse(h) /\ ~Stitch(h) /\ ~Route(h) /\ ~RouteFails(h) /\ ~Ack(h)
          /\ \A m \in Message : ~Deliver(h, m)
      BY <2>2, Zenon DEF Parse, ParseLoad, ParseBegin, ParseAdvance, ParsePublish, Stitch,
         StitchJob, StitchChunks, StitchAdvance, StitchPut, StitchFinalize, StitchNotify,
         Route, RouteFails, Ack, Deliver, Goto
    <3>6. ~TtsAudio(h) /\ ~TtsClaim(h) /\ ~TtsReread(h) /\ ~DlqResolve(h)
      BY <2>2, Zenon DEF TtsAudio, TtsClaim, TtsReread, DlqResolve, Goto
    <3>. QED BY Actor, <3>1, <3>2, <3>3, <3>4, <3>5, <3>6, Zenon DEF Work, Tts, Dlq
  <2>. QED BY <1>1, <2>1, <2>2, Zenon DEF LastKept, Emitting
<1>2. CASE ~(pending[k] <= 0)
  <2>0. pending[k] \in Int
    BY <1>0, Zenon DEF TypeOK
  <2>1. pending'[k] # pending[k]
    BY <1>2, Zenon
  <2>2. pending'[k] = pending[k] - 1 => pending[k] - 1 = 0
    BY <1>2, <2>0, SMTT(40)
  <2>3. ASSUME NEW h \in Handler, TtsClaim(h) PROVE Emitting(k)'
    <3>1. /\ Jb(h) = k /\ pending'[k] = pending[k] - 1
          /\ pc'[h] = IF pending[k] - 1 = 0 THEN "tts:emit" ELSE "ack"
      <4>1. ~UNCHANGED db
        BY <2>1, Zenon DEF db
      <4>2. task[Jb(h)][Tk(h)] # "DONE"
        BY <2>3, <4>1, ClaimDone, ZenonT(30)
      <4>3. /\ pending'[Jb(h)] = pending[Jb(h)] - 1
            /\ \A j \in Job \ {Jb(h)} : pending'[j] = pending[j]
            /\ pc'[h] = IF pending[Jb(h)] - 1 = 0 THEN "tts:emit" ELSE "ack"
        BY <2>3, <4>2, ClaimDone, ZenonT(30)
      <4>4. Jb(h) = k
        BY <2>1, <4>3, Zenon
      <4>. QED BY <4>3, <4>4, Zenon
    <3>2. pc'[h] = "tts:emit"
      BY <2>2, <3>1, Zenon
    <3>3. held' = held
      BY <2>3, Zenon DEF TtsClaim, Goto
    <3>. QED BY <3>1, <3>2, <3>3, Zenon DEF Emitting, Jb
  <2>4. ASSUME NEW h \in Handler, DlqResolve(h) PROVE Emitting(k)'
    <3>1. /\ Jb(h) = k /\ pending'[k] = pending[k] - 1 /\ held' = held
          /\ pc'[h] = IF pending[k] - 1 = 0 THEN "dlq:emit" ELSE "ack"
      <4>1. pending' # pending
        BY <2>1, Zenon
      <4>2. /\ pending'[Jb(h)] = pending[Jb(h)] - 1
            /\ \A j \in Job \ {Jb(h)} : pending'[j] = pending[j]
            /\ pc'[h] = IF pending[Jb(h)] - 1 = 0 THEN "dlq:emit" ELSE "ack"
        <5>1. pending' = pending \/ GivesUp(h)
          BY <2>4, ResolverStep, Zenon DEF db
        <5>. QED BY <4>1, <5>1, Zenon DEF GivesUp
      <4>3. held' = held
        BY <2>4, Zenon DEF DlqResolve, Goto
      <4>4. Jb(h) = k
        BY <2>1, <4>2, Zenon
      <4>. QED BY <4>2, <4>3, <4>4, Zenon
    <3>2. pc'[h] = "dlq:emit"
      BY <2>2, <3>1, Zenon
    <3>. QED BY <3>1, <3>2, Zenon DEF Emitting, Jb
  <2>5. ASSUME NEW h \in Handler, ParseBegin(h) PROVE FALSE
    <3>1. Jb(h) \in Job /\ begin_parse(Jb(h), Count(Jb(h)))
      BY <2>5, BusyHolds, Zenon DEF ParseBegin, Goto
    <3>2. pending'[k] = pending[k]
      BY <1>0, <3>1, Zenon DEF begin_parse, TypeOK
    <3>. QED BY <2>1, <3>2, Zenon
  <2>6. ASSUME NEW h \in Handler, ParseAdvance(h) \/ StitchAdvance(h) \/ StitchFinalize(h)
        PROVE  FALSE
    BY <2>1, <2>6, Zenon DEF ParseAdvance, StitchAdvance, StitchFinalize
  <2>7. ASSUME NEW j \in Job, CreateCommit(j) PROVE FALSE
    BY <2>1, <2>7, Zenon DEF CreateCommit
  <2>. QED BY DbSteps, <2>1, <2>3, <2>4, <2>5, <2>6, <2>7, Zenon DEF db
<1>. QED BY <1>1, <1>2, Zenon

LEMMA LastKeptNext ==
  ASSUME TypeInv, TypeInv', BarrierInv, BarrierInv', WorkInv, SmoothInv, [Next]_vars,
         NEW k \in Job, LastKept(k)
  PROVE  LastKept(k)'
<1>1. ASSUME status'[k] = "GENERATING", status[k] # "GENERATING", Blocks(k) # {}
      PROVE  ~(pending'[k] <= 0) /\ Resolved(k)' # Blocks(k)
  <2>1. status[k] = "PARSING" /\ \E h \in Handler : ParseAdvance(h) /\ Jb(h) = k
    BY <1>1, StatusMoves, Zenon
  <2>2. UNCHANGED <<pending, task>>
    BY <2>1, Zenon DEF ParseAdvance
  <2>3. ~(pending'[k] <= 0)
    BY <1>1, <2>1, <2>2, NoneCounted, Zenon
  <2>4. Resolved(k)' = {}
    BY <2>1, <2>2, Zenon DEF WorkInv, JobDriven, Resolved
  <2>. QED BY <1>1, <2>3, <2>4, Zenon
<1>2. ASSUME Smooth, status'[k] = "GENERATING", Blocks(k) # {}, Resolved(k)' = Blocks(k)
      PROVE  Live(StitchReady(k))' \/ \E i \in Blocks(k) : Live(TtsRequested(k, i))'
  BY <1>1, <1>2, LastBlockNext, Zenon
<1>3. ASSUME Steady, status'[k] = "GENERATING", Blocks(k) # {}, pending'[k] <= 0
      PROVE  Live(StitchReady(k))' \/ Emitting(k)'
  BY <1>1, <1>3, ZeroNext, Zenon
<1>. QED BY <1>2, <1>3, Zenon DEF LastKept, Smooth, Steady

\* Driven follows: every unresolved block is sent, and when none is left the last
\* one's request or StitchReady is still live.
LEMMA DrivenFollows ==
  ASSUME TypeInv, BarrierInv, DrivenInv, Reliable PROVE Driven
<1>. SUFFICES ASSUME NEW k \in Job
     PROVE  /\ status[k] = "PARSING" => Live(JobCreated(k))
            /\ status[k] = "GENERATING" =>
                 \/ Live(JobCreated(k))
                 \/ /\ Resolved(k) # Blocks(k)
                    /\ \A i \in Blocks(k) \ Resolved(k) : Live(TtsRequested(k, i))
                 \/ /\ Resolved(k) = Blocks(k)
                    /\ \/ Live(StitchReady(k))
                       \/ \E i \in Blocks(k) : Live(TtsRequested(k, i))
            /\ status[k] = "STITCHING" => Live(StitchReady(k))
  BY Zenon DEF Driven
<1>1. JobDriven(k) /\ LastKept(k)
  BY Zenon DEF DrivenInv, WorkInv, LastInv
<1>2. Blocks(k) = {} => Resolved(k) = Blocks(k)
  BY Zenon DEF Resolved
<1>3. \A i \in Blocks(k) : Sent(k, i) /\ i \notin Resolved(k) => Live(TtsRequested(k, i))
  BY Zenon DEF Sent
<1>4. ASSUME status[k] = "GENERATING", Blocks(k) # {}, Resolved(k) = Blocks(k)
      PROVE  Live(StitchReady(k)) \/ \E i \in Blocks(k) : Live(TtsRequested(k, i))
  <2>1. CASE Smooth
    BY <1>1, <1>4, <2>1, Zenon DEF LastKept
  <2>2. CASE Steady
    <3>1. pending[k] <= 0
      BY <1>4, AllCounted, Zenon DEF TypeInv, BarrierInv
    <3>2. ASSUME NEW h \in Handler, pc[h] \in {"tts:emit", "dlq:emit"}, Jb(h) = k
          PROVE  \E i \in Blocks(k) : Live(TtsRequested(k, i))
      <4>1. ProgressOK(h) /\ held[h] \in Message
        BY <3>2, BusyHolds, Zenon DEF DrivenInv, WorkInv
      <4>2. held[h].event.type = "TtsRequested"
        BY <3>2, <4>1, Zenon DEF ProgressOK, TypeInv, HandlerOK, TtsStep
      <4>3. Tk(h) \in Blocks(k)
        BY <3>2, <4>1, <4>2, Zenon DEF ProgressOK, EventOK, Jb, Tk
      <4>4. held[h].event = TtsRequested(k, Tk(h))
        BY <3>2, <4>1, <4>2, EventNames, Zenon DEF Jb, Tk
      <4>. QED BY <3>2, <4>3, <4>4, Zenon DEF Live
    <3>. QED BY <1>1, <1>4, <2>2, <3>1, <3>2, Zenon DEF LastKept, Emitting
  <2>. QED BY <2>1, <2>2, Zenon DEF Reliable
<1>. QED BY <1>1, <1>2, <1>3, <1>4, ZenonT(30) DEF JobDriven

\* Where routing does not fail, and either no step of the tts handler raises or no
\* handler dies and no emit of a StitchReady raises, no delivery,
\* crash, repetition or raise loses the work of a job: until it is terminal the event
\* that moves it on is queued or held (ack_last acknowledges after the work, and each
\* handler publishes before it is acknowledged).
THEOREM NoWorkLost == Reliable /\ Spec => []Driven
<1>1. Reliable /\ Spec => [](WorkInv /\ Reliable)
  <2>1. Reliable => RoutingHolds
    BY Zenon DEF Reliable
  <2>2. Reliable /\ [Next]_vars => Reliable'
    BY Zenon DEF Reliable, RoutingHolds, Smooth, Steady
  <2>. QED BY <2>1, <2>2, RequestsKept, PTL DEF Spec
<1>2. Init => SmoothInv /\ LastInv
  <2>. SUFFICES ASSUME Init PROVE SmoothInv /\ LastInv
    BY Zenon
  <2>1. ASSUME NEW m \in Message PROVE ~(queue[m] > 0)
    <3>1. queue[m] = 0
      BY Zenon DEF Init, EmptyQueues
    <3>. QED BY <3>1
  <2>2. ASSUME NEW h \in Handler PROVE SmoothHandler(h)
    BY Zenon DEF Init, SmoothHandler, DlqStep
  <2>3. ASSUME NEW k \in Job PROVE LastKept(k)
    BY Zenon DEF Init, LastKept
  <2>4. \A j \in Job : reclaimed[j] = {} /\ \A i \in Index : task[j][i] # "FAILED"
    BY Zenon DEF Init
  <2>. QED BY <2>1, <2>2, <2>3, <2>4, Zenon DEF SmoothInv, LastInv
<1>3. TypeInv /\ TypeInv' /\ BarrierInv /\ BarrierInv' /\ WorkInv
        /\ SmoothInv /\ LastInv /\ [Next]_vars
        => SmoothInv' /\ LastInv'
  <2>. SUFFICES ASSUME TypeInv, TypeInv', BarrierInv, BarrierInv', WorkInv, SmoothInv,
                       LastInv, [Next]_vars
                PROVE  SmoothInv' /\ LastInv'
    BY Zenon
  <2>1. SmoothInv'
    BY SmoothNext, Zenon
  <2>2. \A j \in Job : LastKept(j)'
    BY LastKeptNext, Zenon DEF LastInv
  <2>. QED BY <2>1, <2>2, Zenon DEF LastInv
<1>4. TypeInv /\ BarrierInv /\ WorkInv /\ SmoothInv /\ LastInv /\ Reliable => Driven
  BY DrivenFollows, Zenon DEF DrivenInv
<1>. QED BY <1>1, <1>2, <1>3, <1>4, TypeCorrect, BarrierHolds, PTL DEF Spec
=============================================================================
