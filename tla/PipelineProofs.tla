--------------------------- MODULE PipelineProofs ---------------------------
(***************************************************************************)
(* Theorems about Pipeline, for any jobs, blocks, handlers, retry budget,  *)
(* crash budget and set of faulty steps: its types; the fan-in barrier,    *)
(* what the transactions do to the rows of a job and the value of          *)
(* pending_count; and that StitchReady exists only for a job whose barrier *)
(* has been crossed.                                                       *)
(***************************************************************************)
EXTENDS PipelineInv, FiniteSetTheorems, TLAPS

-----------------------------------------------------------------------------
(* The broker's operators.                                                 *)

\* What the fields of an event and of a message are.
LEMMA MessageFields ==
  ASSUME NEW m \in Message
  PROVE  /\ m.event \in Event
         /\ m.event.job \in Job
         /\ m.event.type \in {"JobCreated", "TtsRequested", "StitchReady"}
         /\ m.event.task \in Index \cup {NoTask}
         /\ m.event.type = "TtsRequested" <=> m.event.task # NoTask
         /\ m.at \in {"live", "retry", "dlq"}
BY BrokerAssumption DEF Message, Event, Index, NoTask

\* publish creates a well-formed message of each event.
LEMMA FreshMessage ==
  /\ \A j \in Job : /\ Fresh(JobCreated(j)) \in Message
                    /\ Fresh(StitchReady(j)) \in Message
  /\ \A j \in Job : \A i \in Index : Fresh(TtsRequested(j, i)) \in Message
<1>1. \A e \in Event : Fresh(e) \in Message
  BY BrokerAssumption DEF Fresh, Message
<1>2. /\ \A j \in Job : JobCreated(j) \in Event /\ StitchReady(j) \in Event
      /\ \A j \in Job : \A i \in Index : TtsRequested(j, i) \in Event
  BY Zenon DEF JobCreated, StitchReady, TtsRequested, Event
<1>. QED BY <1>1, <1>2, Zenon

\* Routing a live message, and expiring a delayed one, keeps the event and
\* yields a message.
LEMMA RoutedMessage ==
  ASSUME NEW m \in Message
  PROVE  /\ m.at = "live" => /\ route_retry_or_dlq(m) \in Message
                             /\ route_retry_or_dlq(m).event = m.event
         /\ m.at = "retry" => /\ Expired(m) \in Message
                              /\ Expired(m).event = m.event
<1>1. CASE m.at = "live"
  <2>1. m.event \in Event /\ m.retry \in 0 .. MAX_RETRIES
    BY <1>1, BrokerAssumption, Zenon DEF Message
  <2>. QED BY <1>1, <2>1, BrokerAssumption DEF route_retry_or_dlq, Message
<1>2. CASE m.at = "retry"
  <2>1. m \in [event : Event, at : {"retry"}, retry : 1 .. MAX_RETRIES]
    BY <1>2, Zenon DEF Message
  <2>2. Expired(m) \in [event : Event, at : {"live"}, retry : 0 .. MAX_RETRIES]
    BY <2>1, BrokerAssumption DEF Expired
  <2>3. Expired(m).event = m.event
    BY <2>1, Zenon DEF Expired
  <2>. QED BY <1>2, <2>2, <2>3, Zenon DEF Message
<1>. QED BY <1>1, <1>2, Zenon

\* Putting and taking copies keeps the content a bag, and only Put adds.
LEMMA BagOps ==
  ASSUME NEW q \in [Message -> Nat], NEW m \in Message
  PROVE  /\ Put(q, m) \in [Message -> Nat]
         /\ \A x \in Message : Put(q, m)[x] > 0 => x = m \/ q[x] > 0
         /\ q[m] > 0 => /\ Take(q, m) \in [Message -> Nat]
                        /\ \A x \in Message : Take(q, m)[x] > 0 => q[x] > 0
BY DEF Put, Take
-----------------------------------------------------------------------------
(* Type correctness.                                                       *)

\* The steps of the handlers, as plain sets of names.
LEMMA StepNames ==
  /\ WorkStep \subseteq Step
  /\ \A s \in WorkStep : s \notin {"idle", "route", "ack"} /\ s \notin DlqStep
  /\ "parse:load" \in ParseStep /\ "tts:audio" \in TtsStep
  /\ "stitch:job" \in StitchStep
  /\ \A s \in ParseStep : s \notin TtsStep /\ s \notin StitchStep
  /\ \A s \in TtsStep : s \notin StitchStep
BY Zenon DEF WorkStep, ParseStep, TtsStep, StitchStep, DlqStep, Step

\* The number of blocks is a natural number within the cap.
LEMMA CountFacts ==
  ASSUME NEW j \in Job
  PROVE  /\ Count(j) \in Nat
         /\ Count(j) <= MAX_BLOCKS
         /\ Blocks(j) \subseteq Index
         /\ \A i \in Nat : i < Count(j) => i \in Index
BY PipelineAssumption, BrokerAssumption DEF Count, Min2, Blocks, Index

\* An advance of the status is a legal status.
LEMMA AdvanceType ==
  ASSUME TypeOK, NEW j \in Job, NEW to \in JobStatus, advance_status(j, to)
  PROVE  status' \in [Job -> JobStatus \cup {"ABSENT"}]
BY Zenon DEF TypeOK, advance_status

\* The two claims write a status into one task row and take one off the counter.
LEMMA ClaimType ==
  ASSUME TypeOK, NEW j \in Job, NEW i \in Index,
         complete_task_and_decrement(j, i) \/ fail_task_and_decrement(j, i)
  PROVE  /\ task' \in [Job -> [Index -> TaskStatus]]
         /\ pending' \in [Job -> Int]
         /\ reclaimed' \in [Job -> SUBSET Index]
         /\ UNCHANGED status
<1>1. PICK s \in TaskStatus :
        task' = [task EXCEPT ![j] = [task[j] EXCEPT ![i] = s]]
  BY Zenon DEF complete_task_and_decrement, fail_task_and_decrement, TaskStatus, TypeOK
<1>2. task' \in [Job -> [Index -> TaskStatus]]
  <2>1. [task[j] EXCEPT ![i] = s] \in [Index -> TaskStatus]
    BY Zenon DEF TypeOK
  <2>. QED BY <1>1, <2>1, Zenon DEF TypeOK
<1>3. pending' \in [Job -> Int] /\ UNCHANGED status
  BY DEF complete_task_and_decrement, fail_task_and_decrement, TypeOK
<1>4. reclaimed' \in [Job -> SUBSET Index]
  BY SMTT(40) DEF complete_task_and_decrement, fail_task_and_decrement, TypeOK
<1>. QED BY <1>2, <1>3, <1>4, Zenon

\* A delivered message starts its handler at the right step.
LEMMA EntryStep ==
  ASSUME NEW m \in Message, m.at # "retry"
  PROVE  /\ Entry(m) \in {"parse:load", "tts:audio", "stitch:job", "dlq:resolve"}
         /\ Entry(m) = "dlq:resolve" <=> m.at = "dlq"
         /\ Entry(m) = "parse:load" => m.event.type = "JobCreated"
         /\ Entry(m) = "tts:audio" => m.event.type = "TtsRequested"
         /\ Entry(m) = "stitch:job" => m.event.type = "StitchReady"
BY MessageFields, Zenon DEF Entry

\* A handler that goes from one step to the next with its message and its loop
\* variable untouched stays well formed.
LEMMA GotoOK ==
  ASSUME TypeInv, NEW h \in Handler, NEW from \in Step, NEW to \in Step,
         Goto(h, from, to), UNCHANGED cur,
         from # "idle", to # "idle",
         to \in WorkStep \cup {"route"} => from \in WorkStep \cup {"route"},
         to \in ParseStep => from \in ParseStep,
         to \in TtsStep => from \in TtsStep,
         to \in StitchStep => from \in StitchStep,
         to \in {"parse:load", "parse:begin", "parse:advance", "parse:publish"}
           => from \in {"parse:load", "parse:begin", "parse:advance"}
  PROVE  /\ HandlerOK'
         /\ pc' \in [Handler -> Step]
         /\ gw' \in [Job -> {"new", "stored", "committed", "done", "lost"}]
         /\ stale' \subseteq Job
         /\ held' \in [Handler -> Message \cup {NoMsg}]
         /\ crashes' \in Nat
<1>1. /\ pc' = [pc EXCEPT ![h] = to] /\ pc[h] = from
      /\ UNCHANGED <<gw, stale, held, cur, crashes>>
  BY Zenon DEF Goto, gateway
<1>2. pc' \in [Handler -> Step]
  BY <1>1, Zenon DEF TypeInv, TypeOK
<1>3. HandlerOK'
  <2>1. ASSUME NEW g \in Handler, g # h
        PROVE  pc'[g] = pc[g] /\ held'[g] = held[g] /\ cur'[g] = cur[g]
    BY <1>1, <2>1, Zenon DEF TypeInv, TypeOK
  <2>2. pc'[h] = to /\ held'[h] = held[h] /\ cur'[h] = cur[h]
    BY <1>1, Zenon DEF TypeInv, TypeOK
  <2>. QED BY <1>1, <2>1, <2>2 DEF TypeInv, HandlerOK, Jb
<1>. QED BY <1>1, <1>2, <1>3, Zenon DEF TypeInv, TypeOK

\* A handler that returns to idle leaves the others as they were.
LEMMA FinishOK ==
  ASSUME TypeInv, NEW h \in Handler, Finish(h)
  PROVE  /\ HandlerOK'
         /\ pc' \in [Handler -> Step]
         /\ held' \in [Handler -> Message \cup {NoMsg}]
         /\ cur' \in [Handler -> Nat]
         /\ chunks' \in [Handler -> SUBSET Index]
<1>1. /\ pc' \in [Handler -> Step]
      /\ held' \in [Handler -> Message \cup {NoMsg}]
      /\ cur' \in [Handler -> Nat]
      /\ chunks' \in [Handler -> SUBSET Index]
  BY Zenon DEF TypeInv, TypeOK, Finish, Step
<1>2. ASSUME NEW g \in Handler, g # h
      PROVE  pc'[g] = pc[g] /\ held'[g] = held[g] /\ cur'[g] = cur[g]
  BY <1>2, Zenon DEF TypeInv, TypeOK, Finish
<1>3. pc'[h] = "idle" /\ held'[h] = NoMsg /\ cur'[h] = 0
  BY Zenon DEF TypeInv, TypeOK, Finish
<1>4. HandlerOK'
  BY <1>2, <1>3, StepNames DEF TypeInv, HandlerOK, Jb,
     WorkStep, ParseStep, TtsStep, StitchStep
<1>. QED BY <1>1, <1>4, Zenon

\* The message of a busy handler is a message.
LEMMA BusyHolds ==
  ASSUME TypeInv, NEW h \in Handler, pc[h] # "idle"
  PROVE  held[h] \in Message /\ Jb(h) \in Job /\ Tk(h) \in Index \cup {NoTask}
BY MessageFields DEF TypeInv, TypeOK, HandlerOK, Jb, Tk

\* Nothing about the handlers changes.
LEMMA SameHandlers ==
  ASSUME TypeInv, UNCHANGED <<pc, held, cur>>
  PROVE  HandlerOK'
BY ZenonT(60) DEF TypeInv, HandlerOK, Jb

\* Every step keeps the types and the handlers' well-formedness.
LEMMA TypeInvNext ==
  ASSUME TypeInv, [Next]_vars
  PROVE  TypeInv'
<1>. USE DEF gateway, db, store, local
<1>1. ASSUME NEW j \in Job, CreatePut(j) \/ CreateCommit(j) \/ CreateAbort(j)
      PROVE  TypeInv'
  BY <1>1, SameHandlers, ZenonT(60) DEF CreatePut, CreateCommit, CreateAbort, TypeInv,
     TypeOK, JobStatus
<1>2. ASSUME NEW j \in Job, CreatePublish(j) \/ SweepPublish(j)
      PROVE  TypeInv'
  <2>1. queue' \in [Message -> Nat]
    BY <1>2, FreshMessage, BagOps DEF CreatePublish, SweepPublish, TypeInv, TypeOK
  <2>2. CASE CreatePublish(j)
    BY <2>1, <2>2, SameHandlers, Zenon DEF CreatePublish, TypeInv, TypeOK
  <2>3. CASE SweepPublish(j)
    BY <2>1, <2>3, SameHandlers, Zenon DEF SweepPublish, TypeInv, TypeOK
  <2>. QED BY <1>2, <2>2, <2>3, Zenon
<1>3. ASSUME SweepSelect \/ SweepAbort
      PROVE  TypeInv'
  BY <1>3, SameHandlers, Zenon DEF SweepSelect, SweepAbort, TypeInv, TypeOK
<1>4. ASSUME NEW m \in Message, DelayExpires(m)
      PROVE  TypeInv'
  <2>1. Take(queue, m) \in [Message -> Nat] /\ Expired(m) \in Message
    BY <1>4, BagOps, RoutedMessage, Zenon DEF DelayExpires, TypeInv, TypeOK
  <2>. QED BY <1>4, <2>1, SameHandlers, BagOps, Zenon DEF DelayExpires, TypeInv, TypeOK
<1>5. ASSUME NEW h \in Handler, NEW m \in Message, Deliver(h, m)
      PROVE  TypeInv'
  <2>1. queue' \in [Message -> Nat]
    BY <1>5, BagOps, Zenon DEF Deliver, TypeInv, TypeOK
  <2>2. Entry(m) \in Step
    BY <1>5, EntryStep, Zenon DEF Deliver, Step, WorkStep, ParseStep, TtsStep, StitchStep,
       DlqStep
  <2>3. TypeOK'
    BY <1>5, <2>1, <2>2, Zenon DEF Deliver, TypeInv, TypeOK
  <2>4. /\ pc'[h] = Entry(m) /\ held'[h] = m /\ cur'[h] = 0
        /\ \A g \in Handler \ {h} : /\ pc'[g] = pc[g] /\ held'[g] = held[g]
                                    /\ cur'[g] = cur[g]
    BY <1>5, ZenonT(60) DEF Deliver, TypeInv, TypeOK, HandlerOK
  <2>5. HandlerOK'
    <3>1. m # NoMsg
      BY PipelineAssumption, Zenon
    <3>2. /\ m.at # "retry" /\ m.at \in {"live", "retry", "dlq"}
          /\ Entry(m) \in WorkStep \cup {"route"} => m.at # "dlq"
      BY <1>5, EntryStep, StepNames, MessageFields, Zenon DEF Deliver, DlqStep
    <3>3. /\ Entry(m) # "idle" /\ Entry(m) # "parse:publish"
          /\ Entry(m) \in ParseStep => m.event.type = "JobCreated"
          /\ Entry(m) \in TtsStep => m.event.type = "TtsRequested"
          /\ Entry(m) \in StitchStep => m.event.type = "StitchReady"
      BY <1>5, EntryStep, Zenon DEF Deliver, ParseStep, TtsStep, StitchStep
    <3>. QED BY <2>4, <3>1, <3>2, <3>3, SMTT(30) DEF TypeInv, HandlerOK, Jb
  <2>. QED BY <2>3, <2>5, Zenon DEF TypeInv
<1>6. ASSUME NEW h \in Handler, Raise(h)
      PROVE  TypeInv'
  <2>1. pc[h] \in WorkStep /\ pc[h] \in Step /\ "route" \in Step
    BY <1>6, Zenon DEF Raise, Step, WorkStep
  <2>. QED BY <1>6, <2>1, GotoOK, StepNames, ZenonT(60) DEF Raise, TypeInv, TypeOK,
           WorkStep, ParseStep, TtsStep, StitchStep
<1>7. ASSUME NEW h \in Handler, Route(h)
      PROVE  TypeInv'
  <2>1. held[h] \in Message /\ held[h].at = "live"
    BY <1>7, BusyHolds, Zenon DEF Route, Goto, TypeInv, HandlerOK
  <2>2. queue' \in [Message -> Nat]
    BY <1>7, <2>1, RoutedMessage, BagOps, Zenon DEF Route, TypeInv, TypeOK
  <2>. QED BY <1>7, <2>2, GotoOK, StepNames, ZenonT(60) DEF Route, TypeInv, TypeOK, Step,
           WorkStep, ParseStep, TtsStep, StitchStep
<1>8. ASSUME NEW h \in Handler, RouteFails(h) \/ Ack(h)
      PROVE  TypeInv'
  BY <1>8, FinishOK, Zenon DEF RouteFails, Ack, TypeInv, TypeOK
<1>9. ASSUME NEW h \in Handler, Nack(h) \/ Crash(h)
      PROVE  TypeInv'
  <2>1. held[h] \in Message
    BY <1>9, BusyHolds, Zenon DEF Nack, Crash, DlqStep
  <2>2. queue' \in [Message -> Nat] /\ crashes' \in Nat
    BY <1>9, <2>1, BagOps DEF Nack, Crash, TypeInv, TypeOK
  <2>. QED BY <1>9, <2>2, FinishOK, Zenon DEF Nack, Crash, TypeInv, TypeOK
<1>10. ASSUME NEW h \in Handler, ParseLoad(h)
      PROVE  TypeInv'
  BY <1>10, GotoOK, ZenonT(60) DEF ParseLoad, TypeInv, TypeOK,
     Step, WorkStep, ParseStep, TtsStep, StitchStep, DlqStep
<1>11. ASSUME NEW h \in Handler, ParseBegin(h)
      PROVE  TypeInv'
  <2>1. Jb(h) \in Job /\ Count(Jb(h)) \in Nat
    BY <1>11, BusyHolds, CountFacts, Zenon DEF ParseBegin, Goto
  <2>2. task' \in [Job -> [Index -> TaskStatus]]
    BY <1>11, <2>1, ZenonT(60) DEF ParseBegin, InsertTasks, TypeInv, TypeOK, TaskStatus
  <2>3. /\ status' \in [Job -> JobStatus \cup {"ABSENT"}]
        /\ pending' \in [Job -> Int]
    <3>1. status' \in {status, [status EXCEPT ![Jb(h)] = "PARSING"]}
      BY <1>11, Zenon DEF ParseBegin, begin_parse
    <3>2. pending' \in {pending, [pending EXCEPT ![Jb(h)] = Count(Jb(h))]}
      BY <1>11, Zenon DEF ParseBegin, begin_parse
    <3>3. status' \in [Job -> JobStatus \cup {"ABSENT"}]
      BY <2>1, <3>1, Zenon DEF TypeInv, TypeOK, JobStatus
    <3>4. pending' \in [Job -> Int]
      BY <2>1, <3>2 DEF TypeInv, TypeOK
    <3>. QED BY <3>3, <3>4, Zenon
  <2>. QED BY <1>11, <2>2, <2>3, GotoOK, ZenonT(60) DEF ParseBegin, TypeInv, TypeOK,
           Step, WorkStep, ParseStep, TtsStep, StitchStep, DlqStep
<1>12. ASSUME NEW h \in Handler, ParseAdvance(h)
      PROVE  TypeInv'
  <2>1. status' \in [Job -> JobStatus \cup {"ABSENT"}]
    BY <1>12, BusyHolds, AdvanceType, Zenon DEF ParseAdvance, Goto, TypeInv, JobStatus
  <2>. QED BY <1>12, <2>1, GotoOK, ZenonT(60) DEF ParseAdvance, TypeInv, TypeOK,
           Step, WorkStep, ParseStep, TtsStep, StitchStep, DlqStep
<1>13. ASSUME NEW h \in Handler, StitchAdvance(h)
      PROVE  TypeInv'
  <2>1. status' \in [Job -> JobStatus \cup {"ABSENT"}]
    BY <1>13, BusyHolds, AdvanceType, Zenon DEF StitchAdvance, Goto, TypeInv, JobStatus
  <2>. QED BY <1>13, <2>1, GotoOK, ZenonT(60) DEF StitchAdvance, TypeInv, TypeOK,
           Step, WorkStep, ParseStep, TtsStep, StitchStep, DlqStep
<1>14. ASSUME NEW h \in Handler, ParsePublish(h)
      PROVE  TypeInv'
  <2>. DEFINE j == Jb(h)
  <2>1. /\ pc[h] = "parse:publish" /\ j \in Job /\ held[h] \in Message
        /\ Count(j) \in Nat /\ cur[h] \in Nat
        /\ cur[h] = 0 \/ cur[h] < Count(j)
    BY <1>14, BusyHolds, CountFacts, ZenonT(60) DEF ParsePublish, Goto, TypeInv, TypeOK, HandlerOK
  <2>2. queue' \in [Message -> Nat] /\ cur' \in [Handler -> Nat]
    <3>1. CASE Count(j) = 0
      BY <1>14, <2>1, <3>1, FreshMessage, BagOps, ZenonT(60) DEF ParsePublish, TypeInv, TypeOK
    <3>2. CASE Count(j) # 0
      <4>1. cur[h] \in Index
        BY <2>1, <3>2, CountFacts, SMTT(30)
      <4>2. /\ queue' = Put(queue, Fresh(TtsRequested(j, cur[h])))
            /\ cur' = [cur EXCEPT ![h] = @ + 1]
        BY <1>14, <3>2, Zenon DEF ParsePublish
      <4>3. Fresh(TtsRequested(j, cur[h])) \in Message
        BY <2>1, <4>1, FreshMessage, Zenon
      <4>. QED BY <4>2, <4>3, BagOps DEF TypeInv, TypeOK
    <3>. QED BY <3>1, <3>2, Zenon
  <2>3. /\ pc' \in [Handler -> Step] /\ UNCHANGED <<gw, stale, held, crashes>>
        /\ UNCHANGED <<status, pending, task, reclaimed, raw, asset, chunks, notified>>
    BY <1>14, Zenon DEF ParsePublish, Goto, TypeInv, TypeOK, Step, WorkStep, ParseStep, TtsStep, StitchStep, DlqStep
  <2>4. TypeOK'
    BY <2>2, <2>3, Zenon DEF TypeInv, TypeOK
  <2>5. /\ \A g \in Handler \ {h} : pc'[g] = pc[g] /\ cur'[g] = cur[g]
        /\ \/ pc'[h] = "ack"
           \/ pc'[h] = "parse:publish" /\ cur'[h] < Count(j)
    <3>1. \/ UNCHANGED cur
          \/ cur' = [cur EXCEPT ![h] = cur[h] + 1]
      BY <1>14, Zenon DEF ParsePublish
    <3>2. pc' = [pc EXCEPT ![h] = IF cur[h] + 1 < Count(j) THEN "parse:publish"
                                                           ELSE "ack"]
      BY <1>14, Zenon DEF ParsePublish, Goto
    <3>3. cur[h] \in Nat /\ Count(j) \in Nat
      BY <2>1, CountFacts, Zenon DEF TypeInv, TypeOK
    <3>. QED BY <3>1, <3>2, <3>3 DEF TypeInv, TypeOK
  <2>6. HandlerOK'
    <3>1. ASSUME NEW g \in Handler, g # h
          PROVE  pc'[g] = pc[g] /\ cur'[g] = cur[g] /\ held'[g] = held[g]
      BY <3>1, <2>3, <2>5, Zenon
    <3>2. held'[h] = held[h] /\ held[h] # NoMsg /\ held[h].at = "live"
          /\ held[h].event.type = "JobCreated"
      BY <2>1, <2>3, Zenon DEF TypeInv, HandlerOK, WorkStep, ParseStep
    <3>. QED BY <2>3, <2>5, <3>1, <3>2, ZenonT(60) DEF TypeInv, HandlerOK, Jb,
             WorkStep, ParseStep, TtsStep, StitchStep
  <2>. QED BY <2>4, <2>6, Zenon DEF TypeInv
<1>15. ASSUME NEW h \in Handler, TtsAudio(h)
      PROVE  TypeInv'
  BY <1>15, GotoOK, ZenonT(60) DEF TtsAudio, TypeInv, TypeOK,
     Step, WorkStep, ParseStep, TtsStep, StitchStep, DlqStep
<1>16. ASSUME NEW h \in Handler, TtsClaim(h)
      PROVE  TypeInv'
  <2>1. Jb(h) \in Job /\ Tk(h) \in Index
    BY <1>16, BusyHolds, MessageFields, Zenon DEF TtsClaim, Goto, TypeInv, HandlerOK, TtsStep,
       Tk
  <2>2. /\ task' \in [Job -> [Index -> TaskStatus]]
        /\ pending' \in [Job -> Int]
        /\ reclaimed' \in [Job -> SUBSET Index]
        /\ UNCHANGED status
    BY <1>16, <2>1, ClaimType, Zenon DEF TtsClaim, TypeInv, TypeOK
  <2>3. PICK to \in {"tts:reread", "tts:emit", "ack"} : Goto(h, "tts:claim", to)
    BY <1>16, Zenon DEF TtsClaim
  <2>. QED BY <1>16, <2>2, <2>3, GotoOK, ZenonT(60) DEF TtsClaim, TypeInv, TypeOK,
           Step, WorkStep, ParseStep, TtsStep, StitchStep, DlqStep
<1>17. ASSUME NEW h \in Handler, TtsReread(h)
      PROVE  TypeInv'
  <2>1. PICK to \in {"tts:emit", "ack"} : Goto(h, "tts:reread", to)
    BY <1>17, Zenon DEF TtsReread
  <2>. QED BY <1>17, <2>1, GotoOK, ZenonT(60) DEF TtsReread, TypeInv, TypeOK,
           Step, WorkStep, ParseStep, TtsStep, StitchStep, DlqStep
<1>18. ASSUME NEW h \in Handler, TtsEmit(h)
      PROVE  TypeInv'
  <2>1. queue' \in [Message -> Nat]
    BY <1>18, BusyHolds, FreshMessage, BagOps, Zenon DEF TtsEmit, Goto, TypeInv, TypeOK
  <2>. QED BY <1>18, <2>1, GotoOK, ZenonT(60) DEF TtsEmit, TypeInv, TypeOK,
           Step, WorkStep, ParseStep, TtsStep, StitchStep, DlqStep
<1>19. ASSUME NEW h \in Handler, StitchJob(h)
      PROVE  TypeInv'
  <2>1. PICK to \in {"stitch:chunks", "ack"} : Goto(h, "stitch:job", to)
    BY <1>19, Zenon DEF StitchJob
  <2>. QED BY <1>19, <2>1, GotoOK, ZenonT(60) DEF StitchJob, TypeInv, TypeOK,
           Step, WorkStep, ParseStep, TtsStep, StitchStep, DlqStep
<1>20. ASSUME NEW h \in Handler, StitchChunks(h)
      PROVE  TypeInv'
  BY <1>20, GotoOK, ZenonT(60) DEF StitchChunks, TypeInv, TypeOK,
     Step, WorkStep, ParseStep, TtsStep, StitchStep, DlqStep
<1>21. ASSUME NEW h \in Handler, StitchPut(h)
      PROVE  TypeInv'
  BY <1>21, GotoOK, ZenonT(60) DEF StitchPut, TypeInv, TypeOK,
     Step, WorkStep, ParseStep, TtsStep, StitchStep, DlqStep
<1>22. ASSUME NEW h \in Handler, StitchFinalize(h)
      PROVE  TypeInv'
  <2>1. status' \in [Job -> JobStatus \cup {"ABSENT"}]
    BY <1>22, BusyHolds, AdvanceType, Zenon DEF StitchFinalize, Goto, TypeInv, JobStatus, finalize_job
  <2>2. PICK to \in {"stitch:notify", "ack"} : Goto(h, "stitch:finalize", to)
    BY <1>22, Zenon DEF StitchFinalize
  <2>. QED BY <1>22, <2>1, <2>2, GotoOK, ZenonT(60) DEF StitchFinalize, TypeInv, TypeOK,
           Step, WorkStep, ParseStep, TtsStep, StitchStep, DlqStep
<1>23. ASSUME NEW h \in Handler, StitchNotify(h)
      PROVE  TypeInv'
  <2>1. notified' \in [Job -> Nat]
    <3>1. Jb(h) \in Job
      BY <1>23, BusyHolds, ZenonT(60) DEF StitchNotify, Goto
    <3>2. notified' \in {notified, [notified EXCEPT ![Jb(h)] = notified[Jb(h)] + 1]}
      BY <1>23, Zenon DEF StitchNotify
    <3>. QED BY <3>1, <3>2, SMTT(40) DEF TypeInv, TypeOK
  <2>. QED BY <1>23, <2>1, GotoOK, ZenonT(60) DEF StitchNotify, TypeInv, TypeOK,
           Step, WorkStep, ParseStep, TtsStep, StitchStep, DlqStep
<1>24. ASSUME NEW h \in Handler, DlqResolve(h)
      PROVE  TypeInv'
  <2>1. Jb(h) \in Job /\ Tk(h) \in Index \cup {NoTask}
    BY <1>24, BusyHolds, Zenon DEF DlqResolve, Goto
  <2>2. /\ task' \in [Job -> [Index -> TaskStatus]]
        /\ pending' \in [Job -> Int]
        /\ status' \in [Job -> JobStatus \cup {"ABSENT"}]
        /\ UNCHANGED reclaimed
    <3>1. CASE Tk(h) = NoTask
      BY <1>24, <2>1, <3>1, AdvanceType, Zenon DEF DlqResolve, TypeInv, TypeOK, JobStatus
    <3>2. CASE Tk(h) # NoTask
      <4>1. CASE CanFail(Jb(h), Tk(h))
        <5>1. fail_task_and_decrement(Jb(h), Tk(h))
          BY <1>24, <3>2, <4>1, ZenonT(60) DEF DlqResolve
        <5>2. UNCHANGED <<status, reclaimed>>
          BY <5>1, Zenon DEF fail_task_and_decrement
        <5>3. TypeOK /\ status \in [Job -> JobStatus \cup {"ABSENT"}]
          BY Zenon DEF TypeInv, TypeOK
        <5>. QED BY <2>1, <3>2, <5>1, <5>2, <5>3, ClaimType, Zenon
      <4>2. CASE ~CanFail(Jb(h), Tk(h))
        BY <1>24, <3>2, <4>2, ZenonT(60) DEF DlqResolve, TypeInv, TypeOK
      <4>. QED BY <4>1, <4>2, Zenon
    <3>. QED BY <3>1, <3>2, Zenon
  <2>3. PICK to \in {"dlq:emit", "ack"} : Goto(h, "dlq:resolve", to)
    BY <1>24, Zenon DEF DlqResolve
  <2>. QED BY <1>24, <2>2, <2>3, GotoOK, ZenonT(60) DEF DlqResolve, TypeInv, TypeOK,
           Step, WorkStep, ParseStep, TtsStep, StitchStep, DlqStep
<1>25. ASSUME NEW h \in Handler, DlqEmit(h)
      PROVE  TypeInv'
  <2>1. queue' \in [Message -> Nat]
    BY <1>25, BusyHolds, FreshMessage, BagOps, ZenonT(60) DEF DlqEmit, Goto, TypeInv, TypeOK
  <2>. QED BY <1>25, <2>1, GotoOK, ZenonT(60) DEF DlqEmit, TypeInv, TypeOK,
           Step, WorkStep, ParseStep, TtsStep, StitchStep, DlqStep
<1>26. CASE UNCHANGED vars
  BY <1>26, SameHandlers, Zenon DEF vars, TypeInv, TypeOK
<1>. QED
  BY <1>1, <1>2, <1>3, <1>4, <1>5, <1>6, <1>7, <1>8, <1>9, <1>10, <1>11,
     <1>12, <1>13, <1>14, <1>15, <1>16, <1>17, <1>18, <1>19, <1>20,
     <1>21, <1>22, <1>23, <1>24, <1>25, <1>26, Zenon
  DEF Next, Gateway, Work, Parse, Tts, Stitch, Dlq

\* The types hold initially, and so for ever, whatever is delivered, raised or
\* crashed: in particular no handler publishes a message of the wrong shape and
\* none works on a message of another queue.
THEOREM TypeCorrect == Spec => []TypeInv
<1>1. Init => TypeInv
  <2>1. Init => TypeOK
    BY DEF Init, TypeOK, EmptyQueues, JobStatus, TaskStatus, Step
  <2>2. Init => HandlerOK
    BY ZenonT(60) DEF Init, HandlerOK, WorkStep, ParseStep, TtsStep, StitchStep
  <2>. QED BY <2>1, <2>2, Zenon DEF TypeInv
<1>2. TypeInv /\ [Next]_vars => TypeInv'
  BY TypeInvNext, Zenon
<1>. QED BY <1>1, <1>2, PTL DEF Spec

-----------------------------------------------------------------------------
(* Finite sets of blocks.                                                  *)

\* The blocks, the resolved blocks and the reclaimed blocks are finite.
LEMMA FiniteBlocks ==
  ASSUME TypeOK, NEW j \in Job
  PROVE  /\ IsFiniteSet(Blocks(j)) /\ Cardinality(Blocks(j)) = Count(j)
         /\ IsFiniteSet(Resolved(j)) /\ Cardinality(Resolved(j)) \in Nat
         /\ IsFiniteSet(reclaimed[j]) /\ Cardinality(reclaimed[j]) \in Nat
         /\ Resolved(j) \in SUBSET Blocks(j)
<1>1. Count(j) \in Nat
  BY CountFacts, Zenon
<1>2. IsFiniteSet(Blocks(j)) /\ Cardinality(Blocks(j)) = Count(j)
  <2>. DEFINE n == Count(j) - 1
  <2>1. n \in Int
    BY <1>1
  <2>2. /\ IsFiniteSet(0 .. n)
        /\ Cardinality(0 .. n) = IF 0 > n THEN 0 ELSE n - 0 + 1
    <3>. HIDE DEF n
    <3>. QED BY <2>1, FS_Interval
  <2>. QED BY <1>1, <2>2 DEF Blocks
<1>3. Resolved(j) \in SUBSET Blocks(j)
  BY Zenon DEF Resolved
<1>4. IsFiniteSet(Index)
  BY BrokerAssumption, FS_Interval DEF Index
<1>5. reclaimed[j] \in SUBSET Index
  BY Zenon DEF TypeOK
<1>6. IsFiniteSet(Resolved(j)) /\ IsFiniteSet(reclaimed[j])
  BY <1>2, <1>3, <1>4, <1>5, FS_Subset, Zenon
<1>. QED BY <1>2, <1>3, <1>6, FS_CardinalityType, Zenon

-----------------------------------------------------------------------------
(* What a step does to the database.                                       *)

\* The predecessor sets that the compare-and-set UPDATEs derive from LEGAL.
LEMMA Predecessors ==
  /\ expected_for("GENERATING") = {"PARSING"}
  /\ expected_for("STITCHING") = {"GENERATING"}
  /\ expected_for("COMPLETED") = {"STITCHING"}
  /\ expected_for("FAILED") = {"PENDING", "PARSING", "GENERATING", "STITCHING"}
BY DEF expected_for, LEGAL, JobStatus

\* Only the seven database transactions change the rows.
LEMMA DbSteps ==
  ASSUME TypeInv, [Next]_vars
  PROVE  \/ UNCHANGED db
         \/ \E j \in Job : CreateCommit(j)
         \/ \E h \in Handler : ParseBegin(h)
         \/ \E h \in Handler : ParseAdvance(h) \/ StitchAdvance(h)
                                 \/ StitchFinalize(h)
         \/ \E h \in Handler : TtsClaim(h)
         \/ \E h \in Handler : DlqResolve(h)
<1>1. CASE Gateway
  BY <1>1, Zenon DEF Gateway, CreatePut, CreatePublish, CreateAbort, SweepPublish,
     SweepSelect, SweepAbort
<1>2. ASSUME NEW m \in Message, DelayExpires(m)
      PROVE  UNCHANGED db
  BY <1>2, Zenon DEF DelayExpires
<1>3. ASSUME NEW h \in Handler, (\E m \in Message : Deliver(h, m)) \/ Crash(h)
      PROVE  UNCHANGED db
  BY <1>3, Zenon DEF Deliver, Crash
<1>4. ASSUME NEW h \in Handler, \/ Raise(h) \/ Route(h) \/ RouteFails(h)
                                \/ Ack(h) \/ Nack(h)
      PROVE  UNCHANGED db
  BY <1>4, Zenon DEF Raise, Route, RouteFails, Ack, Nack
<1>5. ASSUME NEW h \in Handler,
             \/ ParseLoad(h) \/ ParsePublish(h) \/ TtsAudio(h) \/ TtsReread(h)
             \/ TtsEmit(h) \/ StitchJob(h) \/ StitchChunks(h) \/ StitchPut(h)
             \/ StitchNotify(h) \/ DlqEmit(h)
      PROVE  UNCHANGED db
  BY <1>5, Zenon DEF ParseLoad, ParsePublish, TtsAudio, TtsReread, TtsEmit, StitchJob,
     StitchChunks, StitchPut, StitchNotify, DlqEmit
<1>6. CASE UNCHANGED vars
  BY <1>6, Zenon DEF vars
<1>. QED BY <1>1, <1>2, <1>3, <1>4, <1>5, <1>6, Zenon
         DEF Next, Work, Parse, Tts, Stitch, Dlq

\* The row-level effect of the step: one job's row is created, seeded, moved on
\* or failed, or one block is claimed.
LEMMA RowSteps ==
  ASSUME TypeInv, BarrierInv, [Next]_vars
  PROVE  \/ UNCHANGED db
         \/ \E j \in Job : /\ status[j] = "ABSENT"
                           /\ status' = [status EXCEPT ![j] = "PENDING"]
                           /\ UNCHANGED <<pending, task, reclaimed>>
         \/ \E j \in Job : /\ status[j] # "ABSENT"
                           /\ InsertTasks(j) /\ begin_parse(j, Count(j))
                           /\ UNCHANGED reclaimed
         \/ \E j \in Job :
              /\ \E to \in {"GENERATING", "STITCHING", "COMPLETED", "FAILED"} :
                   /\ status[j] \in expected_for(to)
                   /\ status' = [status EXCEPT ![j] = to]
              /\ UNCHANGED <<pending, task, reclaimed>>
         \/ \E j \in Job, i \in Index : /\ CanComplete(j, i)
                                        /\ complete_task_and_decrement(j, i)
         \/ \E j \in Job, i \in Index : /\ CanFail(j, i)
                                        /\ fail_task_and_decrement(j, i)
<1>1. ASSUME NEW j \in Job, CreateCommit(j)
      PROVE  /\ status[j] = "ABSENT"
             /\ status' = [status EXCEPT ![j] = "PENDING"]
             /\ UNCHANGED <<pending, task, reclaimed>>
  BY <1>1, Zenon DEF CreateCommit, BarrierInv, RequestOK
<1>2. ASSUME NEW h \in Handler, ParseBegin(h)
      PROVE  /\ Jb(h) \in Job /\ status[Jb(h)] # "ABSENT"
             /\ InsertTasks(Jb(h)) /\ begin_parse(Jb(h), Count(Jb(h)))
             /\ UNCHANGED reclaimed
  BY <1>2, BusyHolds, Zenon DEF ParseBegin, Goto, BarrierInv, LoadedOK
<1>3. ASSUME NEW h \in Handler,
             ParseAdvance(h) \/ StitchAdvance(h) \/ StitchFinalize(h)
      PROVE  /\ Jb(h) \in Job
             /\ \E to \in {"GENERATING", "STITCHING", "COMPLETED", "FAILED"} :
                  advance_status(Jb(h), to)
             /\ UNCHANGED <<pending, task, reclaimed>>
  BY <1>3, BusyHolds, Zenon DEF ParseAdvance, StitchAdvance, StitchFinalize, finalize_job, Goto
<1>4. ASSUME NEW h \in Handler, TtsClaim(h)
      PROVE  /\ Jb(h) \in Job /\ Tk(h) \in Index
             /\ \/ UNCHANGED db
                \/ /\ CanComplete(Jb(h), Tk(h))
                   /\ complete_task_and_decrement(Jb(h), Tk(h))
  BY <1>4, BusyHolds, MessageFields, Zenon DEF TtsClaim, Goto, TypeInv, HandlerOK, TtsStep, Tk
<1>5. ASSUME NEW h \in Handler, DlqResolve(h)
      PROVE  /\ Jb(h) \in Job
             /\ \/ UNCHANGED db
                \/ /\ Tk(h) \in Index /\ CanFail(Jb(h), Tk(h))
                   /\ fail_task_and_decrement(Jb(h), Tk(h))
                \/ /\ advance_status(Jb(h), "FAILED")
                   /\ UNCHANGED <<pending, task, reclaimed>>
  <2>1. Jb(h) \in Job /\ Tk(h) \in Index \cup {NoTask}
    BY <1>5, BusyHolds, Zenon DEF DlqResolve, Goto
  <2>2. CASE Tk(h) = NoTask
    BY <1>5, <2>1, <2>2, Zenon DEF DlqResolve
  <2>3. CASE Tk(h) # NoTask
    BY <1>5, <2>1, <2>3, ZenonT(60) DEF DlqResolve
  <2>. QED BY <2>2, <2>3, Zenon
<1>6. ASSUME NEW j \in Job, UNCHANGED <<pending, task, reclaimed>>,
             NEW to \in {"GENERATING", "STITCHING", "COMPLETED", "FAILED"},
             advance_status(j, to)
      PROVE  \/ UNCHANGED db
             \/ /\ status[j] \in expected_for(to)
                /\ status' = [status EXCEPT ![j] = to]
  BY <1>6, Zenon DEF advance_status, db
<1>. QED BY DbSteps, <1>1, <1>2, <1>3, <1>4, <1>5, <1>6

-----------------------------------------------------------------------------
(* The barrier invariant.                                                  *)

\* Claiming block i of j changes that row and the counter only.
LEMMA ClaimEffect ==
  ASSUME TypeOK, NEW j \in Job, NEW i \in Index,
         complete_task_and_decrement(j, i) \/ fail_task_and_decrement(j, i)
  PROVE  /\ UNCHANGED status
         /\ pending'[j] = pending[j] - 1
         /\ task'[j][i] \in {"DONE", "FAILED"}
         /\ task'[j][i] = "FAILED" <=> fail_task_and_decrement(j, i)
         /\ \A x \in Index \ {i} : task'[j][x] = task[j][x]
         /\ \A k \in Job \ {j} : /\ task'[k] = task[k]
                                 /\ pending'[k] = pending[k]
                                 /\ reclaimed'[k] = reclaimed[k]
         /\ reclaimed'[j] = IF complete_task_and_decrement(j, i)
                               /\ task[j][i] = "FAILED"
                               THEN reclaimed[j] \cup {i} ELSE reclaimed[j]
<1>1. CASE complete_task_and_decrement(j, i)
  <2>1. task' = [task EXCEPT ![j] = [task[j] EXCEPT ![i] = "DONE"]]
    BY <1>1, Zenon DEF complete_task_and_decrement, TypeOK
  <2>2. /\ task'[j] = [task[j] EXCEPT ![i] = "DONE"]
        /\ \A k \in Job \ {j} : task'[k] = task[k]
    BY <2>1, Zenon DEF TypeOK
  <2>3. /\ task'[j][i] = "DONE"
        /\ \A x \in Index \ {i} : task'[j][x] = task[j][x]
    BY <2>2, ZenonT(60) DEF TypeOK
  <2>4. ~fail_task_and_decrement(j, i)
    <3>1. SUFFICES ASSUME fail_task_and_decrement(j, i) PROVE FALSE
      BY Zenon
    <3>2. task' = [task EXCEPT ![j] = [task[j] EXCEPT ![i] = "FAILED"]]
      BY <3>1, Zenon DEF fail_task_and_decrement, TypeOK
    <3>3. task'[j] = [task[j] EXCEPT ![i] = "FAILED"]
      BY <3>2, Zenon DEF TypeOK
    <3>4. task'[j][i] = "FAILED"
      BY <3>3, Zenon DEF TypeOK
    <3>. QED BY <2>3, <3>4, Zenon
  <2>5. /\ UNCHANGED status
        /\ pending' = [pending EXCEPT ![j] = @ - 1]
        /\ reclaimed' = IF task[j][i] = "FAILED"
                          THEN [reclaimed EXCEPT ![j] = @ \cup {i}] ELSE reclaimed
    BY <1>1, Zenon DEF complete_task_and_decrement
  <2>. QED BY <1>1, <2>2, <2>3, <2>4, <2>5, Zenon DEF TypeOK
<1>2. CASE fail_task_and_decrement(j, i) /\ ~complete_task_and_decrement(j, i)
  <2>1. task' = [task EXCEPT ![j] = [task[j] EXCEPT ![i] = "FAILED"]]
    BY <1>2, Zenon DEF fail_task_and_decrement, TypeOK
  <2>2. /\ task'[j] = [task[j] EXCEPT ![i] = "FAILED"]
        /\ \A k \in Job \ {j} : task'[k] = task[k]
    BY <2>1, Zenon DEF TypeOK
  <2>3. /\ task'[j][i] = "FAILED"
        /\ \A x \in Index \ {i} : task'[j][x] = task[j][x]
    BY <2>2, ZenonT(60) DEF TypeOK
  <2>4. /\ UNCHANGED <<status, reclaimed>>
        /\ pending' = [pending EXCEPT ![j] = @ - 1]
    BY <1>2, Zenon DEF fail_task_and_decrement
  <2>. QED BY <1>2, <2>2, <2>3, <2>4, Zenon DEF TypeOK
<1>. QED BY <1>1, <1>2, Zenon

\* A claim counts its block once more: the block is newly resolved, or it was
\* FAILED and is reclaimed.
LEMMA ClaimCounts ==
  ASSUME TypeInv, TypeInv', BarrierInv, NEW j \in Job, NEW i \in Index,
         \/ CanComplete(j, i) /\ complete_task_and_decrement(j, i)
         \/ CanFail(j, i) /\ fail_task_and_decrement(j, i)
  PROVE  Cardinality(Resolved(j)') + Cardinality(reclaimed'[j])
           = Cardinality(Resolved(j)) + Cardinality(reclaimed[j]) + 1
<1>. USE DEF TypeInv
<1>1. /\ TypeOK /\ TypeOK'
      /\ complete_task_and_decrement(j, i) \/ fail_task_and_decrement(j, i)
      /\ task[j][i] \in {"PENDING", "FAILED"}
      /\ task[j][i] = "FAILED" => complete_task_and_decrement(j, i)
  BY DEF CanComplete, CanFail, TypeOK, TaskStatus
<1>2. i \in Blocks(j)
  BY <1>1, Zenon DEF BarrierInv, RowsOK, RowOK
<1>3. Resolved(j)' = Resolved(j) \cup {i}
  <2>1. Resolved(j)' = {x \in Blocks(j) : task'[j][x] \in {"DONE", "FAILED"}}
    BY Zenon DEF Resolved
  <2>2. /\ task'[j][i] \in {"DONE", "FAILED"}
        /\ \A x \in Blocks(j) \ {i} : task'[j][x] = task[j][x]
    BY <1>1, ClaimEffect, CountFacts, ZenonT(60)
  <2>. QED BY <1>2, <2>1, <2>2, Zenon DEF Resolved
<1>4. /\ IsFiniteSet(Resolved(j)) /\ Cardinality(Resolved(j)) \in Nat
      /\ IsFiniteSet(reclaimed[j]) /\ Cardinality(reclaimed[j]) \in Nat
  BY <1>1, FiniteBlocks, Zenon
<1>5. CASE task[j][i] = "PENDING"
  <2>1. i \notin Resolved(j)
    BY <1>5, Zenon DEF Resolved
  <2>2. reclaimed'[j] = reclaimed[j]
    BY <1>1, <1>5, ClaimEffect, ZenonT(60)
  <2>3. Cardinality(Resolved(j) \cup {i}) = Cardinality(Resolved(j)) + 1
    BY <1>4, <2>1, FS_AddElement, ZenonT(60)
  <2>. QED BY <1>3, <1>4, <2>2, <2>3
<1>6. CASE task[j][i] = "FAILED"
  <2>1. Resolved(j) \cup {i} = Resolved(j)
    BY <1>2, <1>6, Zenon DEF Resolved
  <2>2. i \notin reclaimed[j]
    BY <1>6, Zenon DEF BarrierInv, RowsOK, RowOK
  <2>3. reclaimed'[j] = reclaimed[j] \cup {i}
    BY <1>1, <1>6, ClaimEffect, ZenonT(60)
  <2>4. Cardinality(reclaimed[j] \cup {i}) = Cardinality(reclaimed[j]) + 1
    BY <1>4, <2>2, FS_AddElement, ZenonT(60)
  <2>5. Resolved(j)' = Resolved(j)
    BY <1>3, <2>1, Zenon
  <2>. QED BY <1>4, <2>3, <2>4, <2>5
<1>. QED BY <1>1, <1>5, <1>6, Zenon

\* A job's row stays as it is, apart from moves that keep the barrier's facts.
LEMMA SameRow ==
  ASSUME BarrierInv, NEW k \in Job, task'[k] = task[k],
         reclaimed'[k] = reclaimed[k], pending'[k] = pending[k],
         status'[k] \in Seeded => status[k] \in Seeded,
         status'[k] \in {"ABSENT", "PENDING"} => status[k] \in {"ABSENT", "PENDING"}
  PROVE  /\ RowOK(k)'
         /\ status'[k] \in Seeded =>
              pending'[k] = Count(k) - Cardinality(Resolved(k)')
                              - Cardinality(reclaimed'[k])
<1>1. Resolved(k)' = Resolved(k)
  BY Zenon DEF Resolved
<1>2. RowOK(k) /\ (status[k] \in Seeded =>
              pending[k] = Count(k) - Cardinality(Resolved(k))
                              - Cardinality(reclaimed[k]))
  BY Zenon DEF BarrierInv, RowsOK, BarrierCount
<1>. QED BY <1>1, <1>2, Zenon DEF RowOK

\* Every step keeps the rows consistent and the counter equal to the number of
\* blocks not yet counted.
LEMMA RowsNext ==
  ASSUME TypeInv, TypeInv', BarrierInv, [Next]_vars
  PROVE  RowsOK' /\ BarrierCount'
<1>. DEFINE CountOK(k) == status'[k] \in Seeded =>
              pending'[k] = Count(k) - Cardinality(Resolved(k)')
                              - Cardinality(reclaimed'[k])
<1>. SUFFICES ASSUME NEW k \in Job PROVE RowOK(k)' /\ CountOK(k)
  BY Zenon DEF RowsOK, BarrierCount
<1>. HIDE DEF CountOK
<1>0. TypeOK /\ TypeOK' /\ RowOK(k)
  BY Zenon DEF TypeInv, BarrierInv, RowsOK
<1>1. CASE UNCHANGED db
  BY <1>1, SameRow, Zenon DEF db, CountOK
<1>2. ASSUME NEW j \in Job, status[j] = "ABSENT",
             status' = [status EXCEPT ![j] = "PENDING"],
             UNCHANGED <<pending, task, reclaimed>>
      PROVE  RowOK(k)' /\ CountOK(k)
  <2>1. /\ k = j => status'[k] = "PENDING" /\ status[k] = "ABSENT"
        /\ k # j => status'[k] = status[k]
    BY <1>0, <1>2, Zenon DEF TypeOK
  <2>. QED BY <1>2, <2>1, SameRow, Zenon DEF Seeded, CountOK
<1>3. ASSUME NEW j \in Job, status[j] # "ABSENT", InsertTasks(j),
             begin_parse(j, Count(j)), UNCHANGED reclaimed
      PROVE  RowOK(k)' /\ CountOK(k)
  <2>1. CASE k # j
    <3>1. /\ task'[k] = task[k] /\ status'[k] = status[k]
          /\ pending'[k] = pending[k] /\ reclaimed'[k] = reclaimed[k]
      BY <1>0, <1>3, <2>1 DEF InsertTasks, begin_parse, TypeOK
    <3>. QED BY <3>1, SameRow, Zenon DEF CountOK
  <2>2. CASE k = j
    <3>1. \A i \in Index :
            task'[j][i] = IF i \in Blocks(j) /\ task[j][i] = "ABSENT"
                            THEN "PENDING" ELSE task[j][i]
      BY <1>0, <1>3, Zenon DEF InsertTasks, TypeOK
    <3>2. Blocks(j) \subseteq Index
      BY CountFacts, Zenon
    <3>3. CASE status[j] = "PENDING"
      <4>1. status'[j] = "PARSING" /\ pending'[j] = Count(j)
        BY <1>0, <1>3, <3>3, ZenonT(60) DEF begin_parse, TypeOK
      <4>2. reclaimed'[j] = {}
        BY <1>0, <1>3, <2>2, <3>3, Zenon DEF RowOK
      <4>3. \A i \in Index : task'[j][i] = IF i \in Blocks(j) THEN "PENDING"
                                                             ELSE "ABSENT"
        BY <1>0, <2>2, <3>1, <3>3, Zenon DEF RowOK
      <4>4. Resolved(j)' = {}
        BY <3>2, <4>3, Zenon DEF Resolved
      <4>5. CountOK(k)
        BY <2>2, <4>1, <4>2, <4>4, FS_EmptySet, CountFacts DEF CountOK
      <4>6. RowOK(k)'
        BY <2>2, <3>2, <4>1, <4>2, <4>3, Zenon DEF RowOK
      <4>. QED BY <4>5, <4>6, Zenon
    <3>4. CASE status[j] # "PENDING"
      <4>1. UNCHANGED <<status, pending>>
        BY <1>3, <3>4, Zenon DEF begin_parse
      <4>2. CASE status[j] \in Seeded
        <5>1. \A i \in Index : task'[j][i] = task[j][i]
          BY <1>0, <2>2, <3>1, <4>2, Zenon DEF RowOK
        <5>2. task'[j] = task[j]
          <6>1. task[j] \in [Index -> TaskStatus] /\ task'[j] \in [Index -> TaskStatus]
            BY <1>0, Zenon DEF TypeOK
          <6>. QED BY <5>1, <6>1
        <5>. QED BY <1>3, <2>2, <4>1, <5>2, SameRow, Zenon DEF CountOK
      <4>3. CASE status[j] \notin Seeded
        <5>1. status[j] \notin {"ABSENT", "PENDING"}
          BY <1>3, <3>4, Zenon
        <5>2. RowOK(k)'
          BY <1>0, <1>3, <2>2, <3>1, <4>1, <4>3, <5>1, ZenonT(60) DEF RowOK, TypeOK
        <5>. QED BY <2>2, <4>1, <4>3, <5>2, Zenon DEF CountOK
      <4>. QED BY <4>2, <4>3, Zenon
    <3>. QED BY <3>3, <3>4, Zenon
  <2>. QED BY <2>1, <2>2, Zenon
<1>4. ASSUME NEW j \in Job,
             NEW to \in {"GENERATING", "STITCHING", "COMPLETED", "FAILED"},
             status[j] \in expected_for(to),
             status' = [status EXCEPT ![j] = to],
             UNCHANGED <<pending, task, reclaimed>>
      PROVE  RowOK(k)' /\ CountOK(k)
  <2>1. /\ k # j => status'[k] = status[k]
        /\ k = j => /\ status'[k] \notin {"ABSENT", "PENDING"}
                    /\ status'[k] \in Seeded => status[k] \in Seeded
    BY <1>0, <1>4, Predecessors, Zenon DEF TypeOK, Seeded
  <2>. QED BY <1>4, <2>1, SameRow, Zenon DEF CountOK
<1>5. ASSUME NEW j \in Job, NEW i \in Index,
             \/ CanComplete(j, i) /\ complete_task_and_decrement(j, i)
             \/ CanFail(j, i) /\ fail_task_and_decrement(j, i)
      PROVE  RowOK(k)' /\ CountOK(k)
  <2>0. complete_task_and_decrement(j, i) \/ fail_task_and_decrement(j, i)
    BY <1>5, Zenon
  <2>1. CASE k # j
    <3>1. /\ UNCHANGED status
          /\ \A x \in Job \ {j} : /\ task'[x] = task[x]
                                  /\ pending'[x] = pending[x]
                                  /\ reclaimed'[x] = reclaimed[x]
      BY <1>0, <2>0, ClaimEffect, ZenonT(60)
    <3>2. /\ task'[k] = task[k] /\ status'[k] = status[k]
          /\ pending'[k] = pending[k] /\ reclaimed'[k] = reclaimed[k]
      BY <2>1, <3>1, Zenon
    <3>. QED BY <3>2, SameRow, Zenon DEF CountOK
  <2>2. CASE k = j
    <3>1. CountOK(k)
      <4>1. status'[j] = status[j] /\ pending'[j] = pending[j] - 1
        BY <1>0, <2>0, ClaimEffect, ZenonT(60)
      <4>2. Cardinality(Resolved(j)') + Cardinality(reclaimed'[j])
              = Cardinality(Resolved(j)) + Cardinality(reclaimed[j]) + 1
        BY <1>5, ClaimCounts, Zenon
      <4>3. /\ Cardinality(Resolved(j)) \in Nat /\ Cardinality(reclaimed[j]) \in Nat
            /\ Count(j) \in Nat
        BY <1>0, FiniteBlocks, CountFacts, Zenon
      <4>4. Cardinality(Resolved(j)') \in Nat /\ Cardinality(reclaimed'[j]) \in Nat
        <5>1. Resolved(j)' \in SUBSET Blocks(j) /\ reclaimed'[j] \in SUBSET Index
          BY <1>0, Zenon DEF Resolved, TypeOK
        <5>2. IsFiniteSet(Blocks(j)) /\ IsFiniteSet(Index)
          BY <1>0, FiniteBlocks, FS_Interval, BrokerAssumption DEF Index
        <5>. QED BY <5>1, <5>2, FS_Subset, FS_CardinalityType, Zenon
      <4>5. status[j] \in Seeded => pending[j] = Count(j)
               - Cardinality(Resolved(j)) - Cardinality(reclaimed[j])
        BY Zenon DEF BarrierInv, BarrierCount
      <4>. QED BY <2>2, <4>1, <4>2, <4>3, <4>4, <4>5 DEF CountOK
    <3>2. RowOK(k)'
      <4>1. i \in Blocks(j) /\ status[j] \notin {"ABSENT", "PENDING"}
        BY <1>0, <1>5, <2>2, Zenon DEF RowOK, CanComplete, CanFail
      <4>2. \A x \in reclaimed'[j] : x \in Index /\ task'[j][x] = "DONE"
        <5>1. CASE CanComplete(j, i) /\ complete_task_and_decrement(j, i)
          <6>1. task'[j][i] = "DONE"
            <7>1. task' = [task EXCEPT ![j] = [task[j] EXCEPT ![i] = "DONE"]]
              BY <5>1, <1>0, Zenon DEF complete_task_and_decrement, TypeOK
            <7>2. task'[j] = [task[j] EXCEPT ![i] = "DONE"]
              BY <7>1, <1>0, Zenon DEF TypeOK
            <7>. QED BY <7>2, <1>0, ZenonT(60) DEF TypeOK
          <6>2. reclaimed'[j] \subseteq reclaimed[j] \cup {i}
            BY <1>0, <2>0, ClaimEffect, ZenonT(60)
          <6>3. \A x \in reclaimed[j] : x \in Index /\ task[j][x] = "DONE"
            BY <1>0, <2>2, Zenon DEF RowOK, TypeOK
          <6>4. \A x \in Index \ {i} : task'[j][x] = task[j][x]
            BY <1>0, <2>0, ClaimEffect, ZenonT(60)
          <6>. QED BY <6>1, <6>2, <6>3, <6>4, Zenon
        <5>2. CASE CanFail(j, i) /\ fail_task_and_decrement(j, i)
          <6>1. reclaimed' = reclaimed
            BY <5>2, Zenon DEF fail_task_and_decrement
          <6>2. i \notin reclaimed[j]
            BY <1>0, <2>2, <5>2, Zenon DEF RowOK, CanFail
          <6>3. \A x \in Index \ {i} : task'[j][x] = task[j][x]
            BY <1>0, <2>0, ClaimEffect, ZenonT(60)
          <6>4. \A x \in reclaimed[j] : x \in Index /\ task[j][x] = "DONE"
            BY <1>0, <2>2, Zenon DEF RowOK, TypeOK
          <6>. QED BY <6>1, <6>2, <6>3, <6>4, Zenon
        <5>. QED BY <1>5, <5>1, <5>2, Zenon
      <4>3. /\ status'[j] = status[j] /\ task'[j][i] # "ABSENT"
            /\ \A x \in Index \ {i} : task'[j][x] = task[j][x]
        BY <1>0, <2>0, ClaimEffect, ZenonT(60)
      <4>. QED BY <1>0, <2>2, <4>1, <4>2, <4>3, CountFacts, Zenon DEF RowOK
    <3>. QED BY <3>1, <3>2, Zenon
  <2>. QED BY <2>1, <2>2, Zenon
<1>. QED BY RowSteps, <1>1, <1>2, <1>3, <1>4, <1>5, Zenon

\* The row of a job, once there, is never removed.
LEMMA RowStays ==
  ASSUME TypeInv, BarrierInv, [Next]_vars, NEW k \in Job
  PROVE  status[k] # "ABSENT" => status'[k] # "ABSENT"
<1>1. TypeOK
  BY Zenon DEF TypeInv
<1>2. CASE UNCHANGED db
  BY <1>2, Zenon DEF db
<1>3. ASSUME NEW j \in Job,
             NEW to \in JobStatus, status' = [status EXCEPT ![j] = to]
      PROVE  status[k] # "ABSENT" => status'[k] # "ABSENT"
  BY <1>1, <1>3, Zenon DEF TypeOK, JobStatus
<1>4. ASSUME NEW j \in Job, begin_parse(j, Count(j))
      PROVE  status[k] # "ABSENT" => status'[k] # "ABSENT"
  BY <1>1, <1>4, ZenonT(60) DEF begin_parse, TypeOK
<1>5. ASSUME NEW j \in Job, NEW i \in Index,
             complete_task_and_decrement(j, i) \/ fail_task_and_decrement(j, i)
      PROVE  status[k] # "ABSENT" => status'[k] # "ABSENT"
  BY <1>5, Zenon DEF complete_task_and_decrement, fail_task_and_decrement
<1>. QED BY RowSteps, <1>2, <1>3, <1>4, <1>5, Zenon DEF JobStatus

\* Which steps bring a handler to parse:begin, and what they find.
LEMMA LoadedNext ==
  ASSUME TypeInv, BarrierInv, [Next]_vars, NEW g \in Handler,
         pc'[g] = "parse:begin"
  PROVE  status'[held'[g].event.job] # "ABSENT"
<1>. USE DEF gateway, db, store, local
<1>1. TypeOK /\ (pc[g] = "parse:begin" => status[Jb(g)] # "ABSENT")
  BY Zenon DEF TypeInv, BarrierInv, LoadedOK
<1>2. \/ pc[g] = "parse:begin" /\ held'[g] = held[g]
      \/ ParseLoad(g)
  <2>1. CASE Gateway
    BY <2>1, Zenon DEF Gateway, CreatePut, CreateCommit, CreatePublish, CreateAbort,
       SweepPublish, SweepSelect, SweepAbort
  <2>2. ASSUME NEW m \in Message, DelayExpires(m)
        PROVE  pc[g] = "parse:begin" /\ held'[g] = held[g]
    BY <2>2, Zenon DEF DelayExpires
  <2>3. ASSUME NEW h \in Handler, NEW m \in Message, Deliver(h, m)
        PROVE  pc[g] = "parse:begin" /\ held'[g] = held[g]
    BY <1>1, <2>3, EntryStep, Zenon DEF Deliver, TypeOK
  <2>4. ASSUME NEW h \in Handler, Finish(h)
        PROVE  pc[g] = "parse:begin" /\ held'[g] = held[g]
    BY <1>1, <2>4, Zenon DEF Finish, TypeOK
  <2>5. ASSUME NEW h \in Handler, ParseLoad(h), h # g
        PROVE  pc[g] = "parse:begin" /\ held'[g] = held[g]
    BY <1>1, <2>5, Zenon DEF ParseLoad, Goto, TypeOK
  <2>6. ASSUME NEW h \in Handler,
               \/ ParseBegin(h) \/ ParseAdvance(h) \/ ParsePublish(h) \/ Tts(h)
        PROVE  pc[g] = "parse:begin" /\ held'[g] = held[g]
    BY <1>1, <2>6, ZenonT(60) DEF ParseBegin, ParseAdvance, ParsePublish, Tts, TtsAudio,
       TtsClaim, TtsReread, TtsEmit, Goto, TypeOK
  <2>7. ASSUME NEW h \in Handler, Stitch(h) \/ Dlq(h)
        PROVE  pc[g] = "parse:begin" /\ held'[g] = held[g]
    BY <1>1, <2>7, ZenonT(60) DEF Stitch, Dlq, StitchJob, StitchChunks, StitchAdvance,
       StitchPut, StitchFinalize, StitchNotify, DlqResolve, DlqEmit, Goto, TypeOK
  <2>8. ASSUME NEW h \in Handler, Raise(h) \/ Route(h)
        PROVE  pc[g] = "parse:begin" /\ held'[g] = held[g]
    BY <1>1, <2>8, Zenon DEF Raise, Route, Goto, TypeOK
  <2>9. ASSUME NEW h \in Handler, \/ RouteFails(h) \/ Ack(h) \/ Nack(h) \/ Crash(h)
        PROVE  Finish(h)
    BY <2>9, ZenonT(60) DEF RouteFails, Ack, Nack, Crash
  <2>10. CASE UNCHANGED vars
    BY <2>10, ZenonT(60) DEF vars
  <2>. QED BY <2>1, <2>2, <2>3, <2>4, <2>5, <2>6, <2>7, <2>8, <2>9, <2>10, Zenon
           DEF Next, Work, Parse
<1>3. CASE pc[g] = "parse:begin" /\ held'[g] = held[g]
  BY <1>1, <1>3, BusyHolds, RowStays, ZenonT(60) DEF Jb
<1>4. CASE ParseLoad(g)
  <2>1. pc[g] = "parse:load" /\ status[Jb(g)] # "ABSENT" /\ held' = held
    BY <1>4, Zenon DEF ParseLoad, Goto, AlwaysRaises, ParseRaises
  <2>. QED BY <2>1, BusyHolds, RowStays, Zenon DEF Jb
<1>. QED BY <1>2, <1>3, <1>4, Zenon

\* Before the commit there is no row.
LEMMA RequestNext ==
  ASSUME TypeInv, BarrierInv, [Next]_vars
  PROVE  RequestOK'
<1>. USE DEF gateway, db, store, local
<1>1. TypeOK /\ RequestOK /\ RowsOK
  BY Zenon DEF TypeInv, BarrierInv
<1>2. ASSUME NEW j \in Job, \/ CreatePut(j) \/ CreateCommit(j) \/ CreatePublish(j)
                            \/ CreateAbort(j) \/ SweepPublish(j)
                            \/ SweepSelect \/ SweepAbort
      PROVE  RequestOK'
  BY <1>1, <1>2, ZenonT(60) DEF CreatePut, CreateCommit, CreatePublish, CreateAbort,
     SweepPublish, SweepSelect, SweepAbort, RequestOK, TypeOK
<1>3. CASE ~Gateway /\ UNCHANGED gw
  <2>1. ASSUME NEW k \in Job, status[k] = "ABSENT" PROVE status'[k] = "ABSENT"
    <3>1. ~\E j \in Job : CreateCommit(j)
      BY <1>3, Zenon DEF Gateway
    <3>2. ASSUME NEW h \in Handler, ParseBegin(h) PROVE status'[k] = "ABSENT"
      BY <1>1, <2>1, <3>2, Zenon DEF ParseBegin, begin_parse, TypeOK
    <3>3. ASSUME NEW h \in Handler, \/ ParseAdvance(h) \/ StitchAdvance(h)
                                    \/ StitchFinalize(h)
          PROVE  status'[k] = "ABSENT"
      BY <1>1, <2>1, <3>3, Predecessors, Zenon DEF ParseAdvance, StitchAdvance,
         StitchFinalize, finalize_job, advance_status, TypeOK
    <3>4. ASSUME NEW h \in Handler, TtsClaim(h) PROVE status'[k] = "ABSENT"
      BY <2>1, <3>4, Zenon DEF TtsClaim, complete_task_and_decrement
    <3>5. ASSUME NEW h \in Handler, DlqResolve(h) PROVE status'[k] = "ABSENT"
      BY <1>1, <2>1, <3>5, Predecessors, ZenonT(60) DEF DlqResolve, advance_status,
         fail_task_and_decrement, TypeOK
    <3>6. CASE UNCHANGED db
      BY <2>1, <3>6, Zenon
    <3>. QED BY DbSteps, <3>1, <3>2, <3>3, <3>4, <3>5, <3>6, Zenon
  <2>. QED BY <1>1, <1>3, <2>1, Zenon DEF RequestOK
<1>4. Gateway \/ UNCHANGED gw
  <2>1. ASSUME NEW h \in Handler, Work(h) PROVE UNCHANGED gw
    <3>1. CASE Parse(h) \/ Tts(h) \/ Stitch(h) \/ Dlq(h)
      BY <3>1, ZenonT(60) DEF Parse, Tts, Stitch, Dlq, ParseLoad, ParseBegin, ParseAdvance,
         ParsePublish, TtsAudio, TtsClaim, TtsReread, TtsEmit, StitchJob,
         StitchChunks, StitchAdvance, StitchPut, StitchFinalize, StitchNotify,
         DlqResolve, DlqEmit, Goto
    <3>2. CASE \/ Raise(h) \/ Route(h) \/ RouteFails(h) \/ Ack(h) \/ Nack(h)
      BY <3>2, ZenonT(60) DEF Raise, Route, RouteFails, Ack, Nack, Goto
    <3>. QED BY <2>1, <3>1, <3>2, Zenon DEF Work
  <2>. QED BY <2>1, Zenon DEF Next, DelayExpires, Deliver, Crash, vars
<1>5. Gateway => \/ \E j \in Job : \/ CreatePut(j) \/ CreateCommit(j)
                                   \/ CreatePublish(j) \/ CreateAbort(j)
                                   \/ SweepPublish(j)
                 \/ UNCHANGED <<gw, status>>
  BY Zenon DEF Gateway, SweepSelect, SweepAbort
<1>6. UNCHANGED <<gw, status>> => RequestOK'
  BY <1>1, Zenon DEF RequestOK
<1>. QED BY <1>2, <1>3, <1>4, <1>5, <1>6, Zenon

\* The barrier invariant, and with it the value of pending_count: for any number
\* of blocks, handlers, duplicates, failures and crashes the fan-in counter is
\* the number of blocks not yet counted, a block completed after its failure
\* being counted twice.
THEOREM BarrierHolds == Spec => []BarrierInv
<1>1. Init => BarrierInv
  BY SMTT(30) DEF Init, BarrierInv, RowsOK, RowOK, RequestOK, LoadedOK, BarrierCount, Seeded
<1>2. TypeInv /\ TypeInv' /\ BarrierInv /\ [Next]_vars => BarrierInv'
  BY RowsNext, RequestNext, LoadedNext, Zenon DEF BarrierInv, LoadedOK, Jb
<1>. QED BY <1>1, <1>2, TypeCorrect, PTL DEF Spec

\* The fan-in counter of a seeded job is the number of its blocks minus one for
\* each resolved block and one more for each block that was completed after it had
\* FAILED: complete_task_and_decrement and fail_task_and_decrement count no block
\* otherwise twice and begin_parse seeds only once.
THEOREM BarrierExact == Spec => []BarrierCount
<1>1. BarrierInv => BarrierCount
  BY Zenon DEF BarrierInv
<1>. QED BY <1>1, BarrierHolds, PTL

-----------------------------------------------------------------------------
(* What never goes back.                                                   *)

\* A started job stays started; a crossed barrier stays crossed; a task row is
\* never deleted; a seeded counter never goes up; a terminal status is final.
LEMMA RowMonotone ==
  ASSUME TypeInv, BarrierInv, [Next]_vars, NEW k \in Job
  PROVE  /\ Started(k) => Started(k)'
         /\ Crossed(k) => Crossed(k)'
         /\ \A i \in Index : task[k][i] # "ABSENT" => task'[k][i] # "ABSENT"
         /\ status[k] \in Seeded => /\ pending'[k] <= pending[k]
                                    /\ status'[k] \in Seeded \cup {"FAILED"}
         /\ status[k] \in {"COMPLETED", "FAILED"} => status'[k] = status[k]
<1>. DEFINE Mono ==
         /\ status[k] \in Seeded => /\ pending'[k] <= pending[k]
                                    /\ status'[k] \in Seeded \cup {"FAILED"}
         /\ status[k] \in {"COMPLETED", "FAILED"} => status'[k] = status[k]
         /\ \A i \in Index : task[k][i] # "ABSENT" => task'[k][i] # "ABSENT"
<1>0. TypeOK /\ status[k] \in JobStatus \cup {"ABSENT"} /\ pending[k] \in Int
  BY Zenon DEF TypeInv, TypeOK
<1>1. ASSUME UNCHANGED db PROVE Mono
  BY <1>0, <1>1 DEF db
<1>2. ASSUME NEW j \in Job, status[j] = "ABSENT",
             status' = [status EXCEPT ![j] = "PENDING"],
             UNCHANGED <<pending, task, reclaimed>>
      PROVE  Mono
  BY <1>0, <1>2 DEF TypeOK, Seeded
<1>3. ASSUME NEW j \in Job, status[j] # "ABSENT", InsertTasks(j),
             begin_parse(j, Count(j)), UNCHANGED reclaimed
      PROVE  Mono
  <2>1. \A i \in Index : task[k][i] # "ABSENT" => task'[k][i] # "ABSENT"
    BY <1>0, <1>3, Zenon DEF InsertTasks, TypeOK
  <2>2. /\ status[k] # "PENDING" => status'[k] = status[k] /\ pending'[k] = pending[k]
    BY <1>0, <1>3, Zenon DEF begin_parse, TypeOK
  <2>. QED BY <1>0, <2>1, <2>2 DEF Seeded
<1>4. ASSUME NEW j \in Job,
             NEW to \in {"GENERATING", "STITCHING", "COMPLETED", "FAILED"},
             status[j] \in expected_for(to),
             status' = [status EXCEPT ![j] = to],
             UNCHANGED <<pending, task, reclaimed>>
      PROVE  Mono
  <2>1. CASE j # k
    BY <1>0, <1>4, <2>1 DEF TypeOK, Seeded
  <2>2. CASE j = k
    <3>1. status'[k] = to /\ pending'[k] = pending[k] /\ task' = task
      BY <1>0, <1>4, <2>2, Zenon DEF TypeOK
    <3>2. status[k] \in expected_for(to)
      BY <1>4, <2>2, Zenon
    <3>. QED BY <1>0, <3>1, <3>2, Predecessors DEF Seeded
  <2>. QED BY <2>1, <2>2, Zenon
<1>5. ASSUME NEW j \in Job, NEW i \in Index,
             complete_task_and_decrement(j, i) \/ fail_task_and_decrement(j, i)
      PROVE  Mono
  <2>1. /\ UNCHANGED status
        /\ pending'[k] <= pending[k]
    <3>1. UNCHANGED status /\ pending' = [pending EXCEPT ![j] = pending[j] - 1]
      BY <1>5, Zenon DEF complete_task_and_decrement, fail_task_and_decrement
    <3>. QED BY <1>0, <3>1 DEF TypeOK
  <2>2. \A x \in Index : task[k][x] # "ABSENT" => task'[k][x] # "ABSENT"
    <3>1. CASE k = j
      <4>1. /\ task'[j][i] \in {"DONE", "FAILED"}
            /\ \A x \in Index \ {i} : task'[j][x] = task[j][x]
        BY <1>0, <1>5, ClaimEffect, ZenonT(60)
      <4>. QED BY <3>1, <4>1, Zenon
    <3>2. CASE k # j
      <4>1. \A x \in Job \ {j} : task'[x] = task[x]
        BY <1>0, <1>5, ClaimEffect, ZenonT(60)
      <4>. QED BY <3>2, <4>1, Zenon
    <3>. QED BY <3>1, <3>2, Zenon
  <2>. QED BY <2>1, <2>2, Zenon
<1>6. Mono
  BY RowSteps, <1>1, <1>2, <1>3, <1>4, <1>5, Zenon
<1>7. TypeOK'
  BY TypeInvNext, Zenon DEF TypeInv
<1>8. status'[k] \in JobStatus \cup {"ABSENT"} /\ pending'[k] \in Int
  BY <1>7, Zenon DEF TypeOK
<1>9. Started(k) <=> status[k] \in Seeded \cup {"FAILED"}
  BY <1>0, Zenon DEF Started, Seeded, JobStatus
<1>10. Started(k)' <=> status'[k] \in Seeded \cup {"FAILED"}
  BY <1>8, Zenon DEF Started, Seeded, JobStatus
<1>. QED BY <1>0, <1>6, <1>8, <1>9, <1>10 DEF Crossed

\* Once begin_parse has seeded the fan-in counter, nothing raises it again, and
\* a COMPLETED or FAILED job keeps its status, for any instance.
THEOREM CounterNeverResurrected == Spec => NoResurrection
<1>1. TypeInv /\ BarrierInv /\ [Next]_vars =>
        [\A j \in Job :
           /\ status[j] \in Seeded => pending'[j] <= pending[j]
           /\ status[j] \in Terminal => status'[j] = status[j]]_vars
  <2>1. Terminal = {"COMPLETED", "FAILED"}
    BY SMTT(40) DEF Terminal, LEGAL, JobStatus
  <2>. QED BY <2>1, RowMonotone, Zenon
<1>. QED BY <1>1, TypeCorrect, BarrierHolds, PTL DEF Spec, NoResurrection

-----------------------------------------------------------------------------
(* Who acts, and what is published.                                        *)

\* Each handler is left alone by the step or is the one that takes it.
LEMMA Actor ==
  ASSUME TypeInv, [Next]_vars, NEW g \in Handler
  PROVE  \/ /\ pc'[g] = pc[g] /\ held'[g] = held[g]
            /\ cur'[g] = cur[g] /\ chunks'[g] = chunks[g]
         \/ \E m \in Message : Deliver(g, m)
         \/ Work(g)
         \/ Crash(g)
<1>. USE DEF gateway, db, store, local
<1>. DEFINE Same == /\ pc'[g] = pc[g] /\ held'[g] = held[g]
                    /\ cur'[g] = cur[g] /\ chunks'[g] = chunks[g]
<1>0. TypeOK
  BY Zenon DEF TypeInv
<1>1. CASE Gateway
  BY <1>1, Zenon DEF Gateway, CreatePut, CreateCommit, CreatePublish, CreateAbort,
     SweepPublish, SweepSelect, SweepAbort
<1>2. ASSUME NEW m \in Message, DelayExpires(m) PROVE Same
  BY <1>2, Zenon DEF DelayExpires
<1>3. ASSUME NEW h \in Handler, NEW m \in Message, Deliver(h, m), h # g PROVE Same
  BY <1>0, <1>3, Zenon DEF Deliver, TypeOK
<1>4. ASSUME NEW h \in Handler, h # g,
             Crash(h) \/ RouteFails(h) \/ Ack(h) \/ Nack(h)
      PROVE  Same
  BY <1>0, <1>4, Zenon DEF Crash, RouteFails, Ack, Nack, Finish, TypeOK
<1>5. ASSUME NEW h \in Handler, h # g, Parse(h) \/ Tts(h) PROVE Same
  BY <1>0, <1>5, Zenon DEF Parse, ParseLoad, ParseBegin, ParseAdvance, ParsePublish, Tts,
     TtsAudio, TtsClaim, TtsReread, TtsEmit, Goto, TypeOK
<1>6. ASSUME NEW h \in Handler, h # g, Stitch(h) \/ Dlq(h) PROVE Same
  BY <1>0, <1>6, ZenonT(60) DEF Stitch, Dlq, StitchJob, StitchChunks, StitchAdvance,
     StitchPut, StitchFinalize, StitchNotify, DlqResolve, DlqEmit, Goto, TypeOK
<1>7. ASSUME NEW h \in Handler, h # g, Raise(h) \/ Route(h) PROVE Same
  BY <1>0, <1>7, Zenon DEF Raise, Route, Goto, TypeOK
<1>8. CASE UNCHANGED vars
  BY <1>8, Zenon DEF vars
<1>. QED BY <1>1, <1>2, <1>3, <1>4, <1>5, <1>6, <1>7, <1>8, Zenon DEF Next, Work

\* Where a message in the broker comes from: it was there, its delay has expired, a
\* handler gave it back or routed it, or it was published by the gateway, by a
\* handler about to emit StitchReady or by a parse.
LEMMA MessageOrigin ==
  ASSUME TypeInv, [Next]_vars, NEW x \in Message, queue'[x] > 0
  PROVE  \/ queue[x] > 0
         \/ \E m \in Message : queue[m] > 0 /\ m.at = "retry" /\ x.event = m.event
         \/ \E h \in Handler : pc[h] # "idle" /\ x = held[h]
         \/ \E h \in Handler : pc[h] = "route" /\ x.event = held[h].event
         \/ x.event.type = "JobCreated"
         \/ \E h \in Handler :
              /\ x = Fresh(StitchReady(Jb(h)))
              /\ \/ pc[h] \in {"tts:emit", "dlq:emit"}
                 \/ pc[h] = "parse:publish" /\ Count(Jb(h)) = 0
         \/ \E h \in Handler :
              /\ x = Fresh(TtsRequested(Jb(h), cur[h]))
              /\ pc[h] = "parse:publish" /\ Count(Jb(h)) # 0
<1>. USE DEF gateway, db, store, local
<1>. DEFINE Origin ==
         \/ queue[x] > 0
         \/ \E m \in Message : queue[m] > 0 /\ m.at = "retry" /\ x.event = m.event
         \/ \E h \in Handler : pc[h] # "idle" /\ x = held[h]
         \/ \E h \in Handler : pc[h] = "route" /\ x.event = held[h].event
         \/ x.event.type = "JobCreated"
         \/ \E h \in Handler :
              /\ x = Fresh(StitchReady(Jb(h)))
              /\ \/ pc[h] \in {"tts:emit", "dlq:emit"}
                 \/ pc[h] = "parse:publish" /\ Count(Jb(h)) = 0
         \/ \E h \in Handler :
              /\ x = Fresh(TtsRequested(Jb(h), cur[h]))
              /\ pc[h] = "parse:publish" /\ Count(Jb(h)) # 0
<1>0. queue \in [Message -> Nat]
  BY Zenon DEF TypeInv, TypeOK
<1>1. ASSUME UNCHANGED queue PROVE Origin
  BY <1>1, Zenon
<1>2. ASSUME NEW m \in Message, queue' = Put(queue, m) PROVE x = m \/ queue[x] > 0
  BY <1>0, <1>2, BagOps, Zenon
<1>3. ASSUME NEW j \in Job, CreatePublish(j) \/ SweepPublish(j) PROVE Origin
  <2>1. queue' = Put(queue, Fresh(JobCreated(j))) /\ Fresh(JobCreated(j)) \in Message
    BY <1>3, FreshMessage, Zenon DEF CreatePublish, SweepPublish
  <2>2. Fresh(JobCreated(j)).event.type = "JobCreated"
    BY Zenon DEF Fresh, JobCreated
  <2>. QED BY <1>2, <2>1, <2>2, Zenon
<1>4. ASSUME NEW m \in Message, DelayExpires(m) PROVE Origin
  <2>1. /\ Expired(m) \in Message /\ Expired(m).event = m.event /\ queue[m] > 0
        /\ m.at = "retry" /\ queue' = Put(Take(queue, m), Expired(m))
    BY <1>4, RoutedMessage, Zenon DEF DelayExpires
  <2>2. /\ Take(queue, m) \in [Message -> Nat]
        /\ \A y \in Message : Take(queue, m)[y] > 0 => queue[y] > 0
    BY <1>0, <2>1, BagOps, Zenon
  <2>3. x = Expired(m) \/ Take(queue, m)[x] > 0
    BY <2>1, <2>2, BagOps, Zenon
  <2>. QED BY <2>1, <2>2, <2>3, Zenon
<1>5. ASSUME NEW h \in Handler, NEW m \in Message, Deliver(h, m) PROVE Origin
  <2>1. queue[m] > 0 /\ queue' = Take(queue, m)
    BY <1>5, Zenon DEF Deliver
  <2>2. queue[x] > 0
    BY <1>0, <2>1, BagOps, Zenon
  <2>. QED BY <2>2, Zenon
<1>6. ASSUME NEW h \in Handler, Crash(h) \/ Nack(h) PROVE Origin
  <2>1. pc[h] # "idle" /\ held[h] \in Message /\ queue' = Put(queue, held[h])
    BY <1>6, BusyHolds, Zenon DEF Crash, Nack, DlqStep
  <2>. QED BY <1>2, <2>1, Zenon
<1>7. ASSUME NEW h \in Handler, Route(h) PROVE Origin
  <2>1. /\ held[h] \in Message /\ held[h].at = "live" /\ pc[h] = "route"
        /\ queue' = Put(queue, route_retry_or_dlq(held[h]))
    BY <1>7, BusyHolds, Zenon DEF Route, Goto, TypeInv, HandlerOK
  <2>2. /\ route_retry_or_dlq(held[h]) \in Message
        /\ route_retry_or_dlq(held[h]).event = held[h].event
    BY <2>1, RoutedMessage, Zenon
  <2>. QED BY <1>2, <2>1, <2>2, Zenon
<1>8. ASSUME NEW h \in Handler, TtsEmit(h) \/ DlqEmit(h) PROVE Origin
  <2>1. /\ Fresh(StitchReady(Jb(h))) \in Message
        /\ queue' = Put(queue, Fresh(StitchReady(Jb(h))))
        /\ pc[h] \in {"tts:emit", "dlq:emit"}
    BY <1>8, BusyHolds, FreshMessage, Zenon DEF TtsEmit, DlqEmit, Goto
  <2>. QED BY <1>2, <2>1, Zenon
<1>9. ASSUME NEW h \in Handler, ParsePublish(h) PROVE Origin
  <2>1. /\ pc[h] = "parse:publish" /\ Jb(h) \in Job /\ Count(Jb(h)) \in Nat
        /\ cur[h] \in Nat /\ (cur[h] = 0 \/ cur[h] < Count(Jb(h)))
    BY <1>9, BusyHolds, CountFacts, Zenon DEF ParsePublish, Goto, TypeInv, TypeOK, HandlerOK
  <2>2. CASE Count(Jb(h)) = 0
    <3>1. /\ Fresh(StitchReady(Jb(h))) \in Message
          /\ queue' = Put(queue, Fresh(StitchReady(Jb(h))))
      BY <1>9, <2>1, <2>2, FreshMessage, Zenon DEF ParsePublish
    <3>. QED BY <1>2, <2>1, <2>2, <3>1, Zenon
  <2>3. CASE Count(Jb(h)) # 0
    <3>1. cur[h] \in Index
      BY <2>1, <2>3, CountFacts, SMTT(40)
    <3>2. /\ Fresh(TtsRequested(Jb(h), cur[h])) \in Message
          /\ queue' = Put(queue, Fresh(TtsRequested(Jb(h), cur[h])))
      BY <1>9, <2>1, <2>3, <3>1, FreshMessage, Zenon DEF ParsePublish
    <3>. QED BY <1>2, <2>1, <2>3, <3>2, Zenon
  <2>. QED BY <2>2, <2>3, Zenon
<1>10. ASSUME NEW j \in Job, CreatePut(j) \/ CreateCommit(j) \/ CreateAbort(j)
       PROVE  UNCHANGED queue
  BY <1>10, Zenon DEF CreatePut, CreateCommit, CreateAbort
<1>11. ASSUME NEW h \in Handler, Raise(h) \/ RouteFails(h) \/ Ack(h)
       PROVE  UNCHANGED queue
  BY <1>11, Zenon DEF Raise, RouteFails, Ack
<1>12. ASSUME NEW h \in Handler,
              \/ ParseLoad(h) \/ ParseBegin(h) \/ ParseAdvance(h)
              \/ TtsAudio(h) \/ TtsClaim(h) \/ TtsReread(h) \/ Stitch(h)
              \/ DlqResolve(h)
       PROVE  UNCHANGED queue
  BY <1>12, ZenonT(60) DEF ParseLoad, ParseBegin, ParseAdvance, TtsAudio, TtsClaim, TtsReread,
     Stitch, StitchJob, StitchChunks, StitchAdvance, StitchPut, StitchFinalize,
     StitchNotify, DlqResolve
<1>13. ASSUME SweepSelect \/ SweepAbort \/ UNCHANGED vars PROVE UNCHANGED queue
  BY <1>13, Zenon DEF SweepSelect, SweepAbort, vars
<1>. HIDE DEF Origin
<1>14. Origin
  BY <1>1, <1>3, <1>4, <1>5, <1>6, <1>7, <1>8, <1>9, <1>10, <1>11, <1>12, <1>13, Zenon
     DEF Next, Gateway, Work, Parse, Tts, Dlq
<1>. QED BY <1>14, Zenon DEF Origin

-----------------------------------------------------------------------------
(* The gate before the stitch.                                             *)

\* StitchReady is in the broker only for a crossed job.
LEMMA QueueGateNext ==
  ASSUME TypeInv, BarrierInv, GateInv, [Next]_vars
  PROVE  QueueGate'
<1>. SUFFICES ASSUME NEW x \in Message, queue'[x] > 0, x.event.type = "StitchReady"
              PROVE  Crossed(x.event.job)'
  BY Zenon DEF QueueGate
<1>0. x.event.job \in Job
  BY MessageFields, Zenon
<1>. SUFFICES Crossed(x.event.job)
  BY <1>0, RowMonotone, Zenon
<1>1. ASSUME NEW m \in Message, queue[m] > 0, x.event = m.event
      PROVE  Crossed(x.event.job)
  BY <1>1, Zenon DEF GateInv, QueueGate
<1>2. ASSUME NEW h \in Handler, pc[h] # "idle", x.event = held[h].event
      PROVE  Crossed(x.event.job)
  BY <1>2, Zenon DEF GateInv, HandlerGate, Jb, TypeInv, HandlerOK
<1>3. ASSUME NEW h \in Handler, x = Fresh(StitchReady(Jb(h))),
             \/ pc[h] \in {"tts:emit", "dlq:emit"}
             \/ pc[h] = "parse:publish" /\ Count(Jb(h)) = 0
      PROVE  Crossed(x.event.job)
  <2>0. x.event.job = Jb(h) /\ Jb(h) \in Job
    BY <1>3, BusyHolds, Zenon DEF Fresh, StitchReady
  <2>1. CASE pc[h] \in {"tts:emit", "dlq:emit"}
    BY <2>0, <2>1, Zenon DEF GateInv, HandlerGate
  <2>2. CASE pc[h] = "parse:publish" /\ Count(Jb(h)) = 0
    <3>1. Started(Jb(h))
      BY <2>2, Zenon DEF GateInv, HandlerGate
    <3>2. status[Jb(h)] \in Seeded \cup {"FAILED"}
      BY <2>0, <3>1, Zenon DEF Started, Seeded, TypeInv, TypeOK, JobStatus
    <3>3. status[Jb(h)] \in Seeded => pending[Jb(h)] <= 0
      <4>1. /\ Cardinality(Resolved(Jb(h))) \in Nat
            /\ Cardinality(reclaimed[Jb(h)]) \in Nat
        BY <2>0, FiniteBlocks, Zenon DEF TypeInv
      <4>. QED BY <2>0, <2>2, <4>1 DEF BarrierInv, BarrierCount
    <3>. QED BY <2>0, <3>2, <3>3, Zenon DEF Crossed
  <2>. QED BY <1>3, <2>1, <2>2, Zenon
<1>4. ASSUME NEW h \in Handler, x = Fresh(TtsRequested(Jb(h), cur[h])) PROVE FALSE
  <2>1. Fresh(TtsRequested(Jb(h), cur[h])).event.type = "TtsRequested"
    BY DEF Fresh, TtsRequested
  <2>. QED BY <1>4, <2>1, Zenon
<1>. QED BY MessageOrigin, <1>1, <1>2, <1>3, <1>4, Zenon

\* A row that can be claimed belongs to a started job.
LEMMA ClaimableStarted ==
  ASSUME TypeInv, BarrierInv, NEW j \in Job, NEW i \in Index,
         task[j][i] # "ABSENT"
  PROVE  /\ Started(j)
         /\ \/ status[j] = "FAILED"
            \/ status[j] \in Seeded
BY Zenon DEF BarrierInv, RowsOK, RowOK, Started, Seeded, TypeInv, TypeOK, JobStatus

\* A handler publishes StitchReady only for a crossed job.
LEMMA HandlerGateNext ==
  ASSUME TypeInv, BarrierInv, GateInv, [Next]_vars, NEW g \in Handler
  PROVE  HandlerGate(g)'
<1>. USE DEF gateway, db, store, local
<1>0. TypeOK /\ TypeOK' /\ HandlerGate(g) /\ HandlerOK'
  BY TypeInvNext, Zenon DEF TypeInv, GateInv
<1>1. CASE pc'[g] = pc[g] /\ held'[g] = held[g]
  <2>1. CASE held[g] = NoMsg
    <3>1. pc[g] = "idle"
      BY <2>1, Zenon DEF TypeInv, HandlerOK
    <3>. QED BY <1>1, <2>1, <3>1, Zenon DEF HandlerGate
  <2>2. CASE held[g] # NoMsg
    <3>1. Jb(g) \in Job /\ Tk(g) \in Index \cup {NoTask} /\ Jb(g)' = Jb(g) /\ Tk(g)' = Tk(g)
      BY <1>1, <2>2, BusyHolds, Zenon DEF TypeInv, HandlerOK, Jb, Tk
    <3>2. pc[g] \in {"tts:claim", "tts:reread"} => Tk(g) \in Index
      BY <2>2, <3>1, MessageFields, BusyHolds, Zenon DEF TypeInv, HandlerOK, TtsStep, Tk
    <3>3. /\ Crossed(Jb(g)) => Crossed(Jb(g))'
          /\ Started(Jb(g)) => Started(Jb(g))'
          /\ \A i \in Index : task[Jb(g)][i] # "ABSENT" => task'[Jb(g)][i] # "ABSENT"
      BY <3>1, RowMonotone, Zenon
    <3>. QED BY <1>0, <1>1, <3>1, <3>2, <3>3, ZenonT(60) DEF HandlerGate, Jb, Tk, Crossed, Started
  <2>. QED BY <2>1, <2>2, Zenon
<1>2. ASSUME NEW m \in Message, Deliver(g, m)
      PROVE  HandlerGate(g)'
  <2>1. queue[m] > 0 /\ held'[g] = m /\ pc'[g] = Entry(m) /\ m.at # "retry"
    BY <1>0, <1>2, Zenon DEF Deliver, TypeOK
  <2>2. m.event.type = "StitchReady" => Crossed(m.event.job)'
    BY <2>1, MessageFields, RowMonotone, Zenon DEF GateInv, QueueGate
  <2>3. Entry(m) \in {"parse:load", "tts:audio", "stitch:job", "dlq:resolve"}
    BY <2>1, EntryStep, Zenon
  <2>. QED BY <2>1, <2>2, <2>3, Zenon DEF HandlerGate, Jb, Crossed
<1>3. ASSUME Finish(g)
      PROVE  HandlerGate(g)'
  BY <1>0, <1>3, ZenonT(60) DEF Finish, HandlerGate, TypeOK
<1>4. ASSUME held'[g] = held[g], pc[g] # "idle",
             pc'[g] \in {"tts:emit", "dlq:emit"} => Crossed(Jb(g))',
             pc'[g] \in {"parse:advance", "parse:publish"} => Started(Jb(g))',
             pc'[g] \in {"tts:claim", "tts:reread"} => task[Jb(g)][Tk(g)] # "ABSENT"
                                                       /\ Tk(g) \in Index
      PROVE  HandlerGate(g)'
  <2>1. Jb(g) \in Job /\ Jb(g)' = Jb(g) /\ Tk(g)' = Tk(g)
    BY <1>4, BusyHolds, Zenon DEF Jb, Tk
  <2>2. held[g].event.type = "StitchReady" => Crossed(Jb(g))'
    BY <1>0, <1>4, <2>1, RowMonotone, ZenonT(60) DEF HandlerGate, TypeInv, HandlerOK
  <2>3. pc'[g] \in {"tts:claim", "tts:reread"} => task'[Jb(g)][Tk(g)] # "ABSENT"
    BY <1>4, <2>1, RowMonotone, Zenon
  <2>. QED BY <1>4, <2>1, <2>2, <2>3, Zenon DEF HandlerGate
<1>5. ASSUME \/ Stitch(g) \/ DlqEmit(g) \/ TtsEmit(g) \/ ParseLoad(g)
             \/ Raise(g) \/ Route(g)
      PROVE  /\ held'[g] = held[g] /\ pc[g] # "idle"
             /\ pc'[g] \notin {"tts:emit", "dlq:emit", "parse:advance",
                               "parse:publish", "tts:claim", "tts:reread"}
  <2>1. CASE Stitch(g)
    <3>1. \E from \in StitchStep, to \in StitchStep \cup {"ack"} : Goto(g, from, to)
      BY <2>1, Zenon DEF Stitch, StitchJob, StitchChunks, StitchAdvance, StitchPut,
         StitchFinalize, StitchNotify, StitchStep
    <3>. QED BY <1>0, <3>1, Zenon DEF Goto, TypeOK, StitchStep
  <2>2. CASE DlqEmit(g) \/ TtsEmit(g) \/ ParseLoad(g)
    BY <1>0, <2>2, Zenon DEF DlqEmit, TtsEmit, ParseLoad, Goto, TypeOK
  <2>3. CASE Raise(g) \/ Route(g)
    BY <1>0, <2>3, Zenon DEF Raise, Route, Goto, TypeOK, WorkStep, ParseStep, TtsStep,
       StitchStep
  <2>. QED BY <1>5, <2>1, <2>2, <2>3, Zenon
<1>6. ASSUME ParseBegin(g)
      PROVE  HandlerGate(g)'
  <2>1. /\ pc[g] = "parse:begin" /\ pc'[g] = "parse:advance" /\ held'[g] = held[g]
        /\ Jb(g) \in Job /\ status[Jb(g)] # "ABSENT"
    BY <1>0, <1>6, BusyHolds, Zenon DEF ParseBegin, Goto, TypeOK, BarrierInv, LoadedOK
  <2>2. status'[Jb(g)] \notin {"ABSENT", "PENDING"}
    BY <1>0, <1>6, <2>1, Zenon DEF ParseBegin, begin_parse, TypeOK
  <2>3. Jb(g)' = Jb(g)
    BY <2>1, Zenon DEF Jb
  <2>. QED BY <1>4, <2>1, <2>2, <2>3, Zenon DEF Started
<1>7. ASSUME ParseAdvance(g) \/ ParsePublish(g)
      PROVE  HandlerGate(g)'
  <2>1. /\ pc[g] \in {"parse:advance", "parse:publish"}
        /\ pc'[g] \in {"parse:publish", "ack"} /\ held'[g] = held[g]
        /\ Jb(g) \in Job
    BY <1>0, <1>7, BusyHolds, Zenon DEF ParseAdvance, ParsePublish, Goto, TypeOK
  <2>2. Started(Jb(g))'
    <3>1. Started(Jb(g))
      BY <1>0, <2>1, ZenonT(60) DEF HandlerGate
    <3>2. status'[Jb(g)] \notin {"ABSENT", "PENDING"}
      BY <2>1, <3>1, RowMonotone, ZenonT(60) DEF Started
    <3>3. Jb(g)' = Jb(g)
      BY <2>1, Zenon DEF Jb
    <3>. QED BY <3>2, <3>3, Zenon DEF Started
  <2>. QED BY <1>4, <2>1, <2>2, Zenon
<1>8. ASSUME TtsAudio(g)
      PROVE  HandlerGate(g)'
  <2>1. /\ pc[g] = "tts:audio" /\ pc'[g] = "tts:claim" /\ held'[g] = held[g]
        /\ task[Jb(g)][Tk(g)] # "ABSENT"
    BY <1>0, <1>8, Zenon DEF TtsAudio, Goto, TypeOK, AlwaysRaises, TtsRaises
  <2>2. Tk(g) \in Index
    BY <2>1, BusyHolds, MessageFields, Zenon DEF TypeInv, HandlerOK, TtsStep, Tk
  <2>. QED BY <1>4, <2>1, <2>2, ZenonT(60)
<1>9. ASSUME NEW j \in Job, NEW i \in Index, task[j][i] # "ABSENT",
             \/ /\ complete_task_and_decrement(j, i) \/ fail_task_and_decrement(j, i)
                /\ pending[j] - 1 = 0
             \/ UNCHANGED db /\ pending[j] = 0
      PROVE  status'[j] = "FAILED" \/ (status'[j] \in Seeded /\ pending'[j] <= 0)
  <2>1. status'[j] = status[j] /\ pending'[j] = 0
    <3>1. pending[j] \in Int
      BY <1>0, Zenon DEF TypeOK
    <3>. QED BY <1>0, <1>9, <3>1, ClaimEffect, ZenonT(60)
  <2>2. status[j] = "FAILED" \/ status[j] \in Seeded
    BY <1>9, ClaimableStarted, Zenon
  <2>. QED BY <2>1, <2>2
<1>10. ASSUME TtsClaim(g) \/ TtsReread(g)
       PROVE  HandlerGate(g)'
  <2>1. /\ pc[g] \in {"tts:claim", "tts:reread"} /\ held'[g] = held[g]
        /\ pc'[g] \in {"tts:reread", "tts:emit", "ack"}
    BY <1>0, <1>10, Zenon DEF TtsClaim, TtsReread, Goto, TypeOK
  <2>2. Jb(g) \in Job /\ Tk(g) \in Index /\ task[Jb(g)][Tk(g)] # "ABSENT"
    BY <1>0, <2>1, BusyHolds, MessageFields, Zenon DEF TypeInv, HandlerOK, HandlerGate,
       TtsStep, Tk
  <2>3. pc'[g] = "tts:emit" =>
          \/ complete_task_and_decrement(Jb(g), Tk(g)) /\ pending[Jb(g)] - 1 = 0
          \/ UNCHANGED db /\ pending[Jb(g)] = 0
    BY <1>0, <1>10, Zenon DEF TtsClaim, TtsReread, Goto, TypeOK
  <2>4. Jb(g)' = Jb(g)
    BY <2>1, Zenon DEF Jb
  <2>5. pc'[g] = "tts:emit" => Crossed(Jb(g))'
    BY <1>9, <2>2, <2>3, <2>4, Zenon DEF Crossed
  <2>. QED BY <1>4, <2>1, <2>2, <2>5, Zenon
<1>11. ASSUME DlqResolve(g)
       PROVE  HandlerGate(g)'
  <2>1. /\ pc[g] = "dlq:resolve" /\ held'[g] = held[g]
        /\ pc'[g] \in {"dlq:emit", "ack"}
        /\ Jb(g) \in Job /\ Tk(g) \in Index \cup {NoTask}
    BY <1>0, <1>11, BusyHolds, Zenon DEF DlqResolve, Goto, TypeOK
  <2>2. pc'[g] = "dlq:emit" => /\ Tk(g) # NoTask /\ CanFail(Jb(g), Tk(g))
                              /\ fail_task_and_decrement(Jb(g), Tk(g))
                              /\ pending[Jb(g)] - 1 = 0
    BY <1>0, <1>11, ZenonT(60) DEF DlqResolve, Goto, TypeOK
  <2>3. Jb(g)' = Jb(g)
    BY <2>1, Zenon DEF Jb
  <2>4. pc'[g] = "dlq:emit" => Crossed(Jb(g))'
    BY <1>9, <2>1, <2>2, <2>3, Zenon DEF Crossed, CanFail
  <2>. QED BY <1>4, <2>1, <2>4, ZenonT(60)
<1>12. ASSUME RouteFails(g) \/ Ack(g) \/ Nack(g) \/ Crash(g)
       PROVE  Finish(g)
  BY <1>12, ZenonT(60) DEF RouteFails, Ack, Nack, Crash
<1>. QED BY Actor, <1>1, <1>2, <1>3, <1>4, <1>5, <1>6, <1>7, <1>8, <1>10, <1>11, <1>12, ZenonT(60)
         DEF Work, Parse, Tts, Dlq

\* Only a crossed job is stitched.
LEMMA StatusGateNext ==
  ASSUME TypeInv, BarrierInv, GateInv, [Next]_vars
  PROVE  StatusGate'
<1>. SUFFICES ASSUME NEW k \in Job, status'[k] \in {"STITCHING", "COMPLETED"}
              PROVE  pending'[k] <= 0
  BY Zenon DEF StatusGate
<1>0. TypeOK /\ TypeOK' /\ pending[k] \in Int /\ pending'[k] \in Int
  BY TypeInvNext, Zenon DEF TypeInv, TypeOK
<1>1. CASE status[k] \in {"STITCHING", "COMPLETED"}
  <2>1. pending[k] <= 0
    BY <1>1, Zenon DEF GateInv, StatusGate
  <2>2. pending'[k] <= pending[k]
    BY <1>1, RowMonotone, ZenonT(60) DEF Seeded
  <2>. QED BY <1>0, <2>1, <2>2, SMTT(40)
<1>2. CASE status[k] \notin {"STITCHING", "COMPLETED"}
  <2>1. PICK h \in Handler : StitchAdvance(h) /\ Jb(h) = k /\ status[k] = "GENERATING"
    <3>1. ASSUME NEW j \in Job, CreateCommit(j) PROVE FALSE
      BY <1>0, <1>2, <3>1, Zenon DEF CreateCommit, TypeOK
    <3>2. ASSUME NEW h \in Handler, ParseBegin(h) PROVE FALSE
      BY <1>0, <1>2, <3>2, ZenonT(60) DEF ParseBegin, begin_parse, TypeOK
    <3>3. ASSUME NEW h \in Handler,
                 ParseAdvance(h) \/ StitchAdvance(h) \/ StitchFinalize(h)
          PROVE  StitchAdvance(h) /\ Jb(h) = k /\ status[k] = "GENERATING"
      <4>1. CASE ParseAdvance(h)
        BY <1>0, <1>2, <4>1, Zenon DEF ParseAdvance, advance_status, TypeOK
      <4>2. CASE StitchAdvance(h)
        BY <1>0, <1>2, <4>2, Predecessors, Zenon DEF StitchAdvance, advance_status, TypeOK
      <4>3. CASE StitchFinalize(h)
        BY <1>0, <1>2, <4>3, Predecessors, Zenon DEF StitchFinalize, finalize_job,
           advance_status, TypeOK
      <4>. QED BY <3>3, <4>1, <4>2, <4>3, Zenon
    <3>4. ASSUME NEW h \in Handler, TtsClaim(h) PROVE FALSE
      BY <1>2, <3>4, Zenon DEF TtsClaim, complete_task_and_decrement, db
    <3>5. ASSUME NEW h \in Handler, DlqResolve(h) PROVE FALSE
      BY <1>0, <1>2, <3>5, ZenonT(60) DEF DlqResolve, advance_status, fail_task_and_decrement,
         TypeOK, db
    <3>6. ASSUME UNCHANGED db PROVE FALSE
      BY <1>2, <3>6, Zenon DEF db
    <3>. QED BY DbSteps, <3>1, <3>2, <3>3, <3>4, <3>5, <3>6, Zenon
  <2>2. held[h] # NoMsg /\ held[h].event.type = "StitchReady"
    BY <2>1, Zenon DEF StitchAdvance, Goto, TypeInv, HandlerOK, StitchStep
  <2>3. Crossed(k)
    BY <2>1, <2>2, ZenonT(60) DEF GateInv, HandlerGate
  <2>4. pending' = pending
    BY <2>1, Zenon DEF StitchAdvance
  <2>. QED BY <2>1, <2>3, <2>4, Zenon DEF Crossed
<1>. QED BY <1>1, <1>2, Zenon

\* StitchReady is published, and a job is stitched, only when its fan-in counter
\* has reached zero, for any instance.
THEOREM GateHolds == Spec => []GateInv
<1>1. Init => GateInv
  <2>1. Init => StatusGate
    BY Zenon DEF Init, StatusGate
  <2>2. Init => QueueGate
    <3>. SUFFICES ASSUME Init, NEW m \in Message PROVE ~(queue[m] > 0)
      BY Zenon DEF QueueGate
    <3>1. queue[m] = 0
      BY Zenon DEF Init, EmptyQueues
    <3>. QED BY <3>1
  <2>3. Init => \A h \in Handler : HandlerGate(h)
    BY Zenon DEF Init, HandlerGate
  <2>. QED BY <2>1, <2>2, <2>3, Zenon DEF GateInv
<1>2. TypeInv /\ BarrierInv /\ GateInv /\ [Next]_vars => GateInv'
  BY StatusGateNext, QueueGateNext, HandlerGateNext, Zenon DEF GateInv
<1>. QED BY <1>1, <1>2, TypeCorrect, BarrierHolds, PTL DEF Spec
=============================================================================
