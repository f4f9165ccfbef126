--------------------------- MODULE ContractProofs ---------------------------
(***************************************************************************)
(* What a COMPLETED job consists of and who announces it; and the pipeline *)
(* implements JobContract as long as no FAILED block is completed.         *)
(***************************************************************************)
EXTENDS PipelineProofs

-----------------------------------------------------------------------------
(* A settled job: its barrier is crossed and no block was reclaimed.       *)

\* When the counter of a seeded job is zero and no block was counted twice, every
\* block is resolved.
LEMMA AllResolved ==
  ASSUME TypeInv, BarrierInv, NEW j \in Job, status[j] \in Seeded,
         pending[j] <= 0, reclaimed[j] = {}
  PROVE  Resolved(j) = Blocks(j)
<1>1. /\ IsFiniteSet(Blocks(j)) /\ Cardinality(Blocks(j)) = Count(j)
      /\ Resolved(j) \in SUBSET Blocks(j) /\ Cardinality(Resolved(j)) \in Nat
  BY FiniteBlocks, Zenon DEF TypeInv
<1>2. pending[j] = Count(j) - Cardinality(Resolved(j)) - Cardinality(reclaimed[j])
  BY Zenon DEF BarrierInv, BarrierCount
<1>3. Cardinality(reclaimed[j]) = 0 /\ Count(j) \in Nat
  BY FS_EmptySet, CountFacts, Zenon
<1>4. Cardinality(Resolved(j)) <= Cardinality(Blocks(j))
  BY <1>1, FS_Subset, Zenon
<1>5. Cardinality(Resolved(j)) = Cardinality(Blocks(j))
  BY <1>1, <1>2, <1>3, <1>4
<1>. QED BY <1>1, <1>5, FS_Subset, Zenon

\* The set of reclaimed blocks only grows; and the DONE blocks of a settled job
\* stay as they are as long as none is reclaimed.
LEMMA SettledStays ==
  ASSUME TypeInv, BarrierInv, [Next]_vars, NEW k \in Job, reclaimed'[k] = {}
  PROVE  /\ reclaimed[k] = {}
         /\ status[k] \in Seeded /\ pending[k] <= 0 => Done(k)' = Done(k)
<1>0. TypeOK /\ Blocks(k) \subseteq Index
  BY CountFacts, Zenon DEF TypeInv
<1>. DEFINE Frozen == status[k] \in Seeded /\ pending[k] <= 0
                        => \A i \in Blocks(k) : task'[k][i] = task[k][i]
<1>1. CASE task'[k] = task[k] /\ reclaimed'[k] = reclaimed[k]
  BY <1>1, Zenon DEF Done
<1>2. ASSUME NEW j \in Job, InsertTasks(j), UNCHANGED reclaimed
      PROVE  reclaimed[k] = {} /\ Frozen
  <2>1. status[k] \in Seeded => \A i \in Blocks(k) : task[k][i] # "ABSENT"
    BY Zenon DEF BarrierInv, RowsOK, RowOK
  <2>2. \A i \in Index : task[k][i] # "ABSENT" => task'[k][i] = task[k][i]
    BY <1>0, <1>2, Zenon DEF InsertTasks, TypeOK
  <2>. QED BY <1>0, <1>2, <2>1, <2>2, Zenon
<1>3. ASSUME NEW j \in Job, NEW i \in Index,
             \/ CanComplete(j, i) /\ complete_task_and_decrement(j, i)
             \/ CanFail(j, i) /\ fail_task_and_decrement(j, i)
      PROVE  reclaimed[k] = {} /\ Frozen
  <2>0. complete_task_and_decrement(j, i) \/ fail_task_and_decrement(j, i)
    BY <1>3, Zenon
  <2>1. CASE k # j
    <3>1. \A x \in Job \ {j} : task'[x] = task[x] /\ reclaimed'[x] = reclaimed[x]
      BY <1>0, <2>0, ClaimEffect, ZenonT(60)
    <3>. QED BY <2>1, <3>1, Zenon
  <2>2. CASE k = j
    <3>1. reclaimed'[j] = IF complete_task_and_decrement(j, i)
                            /\ task[j][i] = "FAILED"
                            THEN reclaimed[j] \cup {i} ELSE reclaimed[j]
      BY <1>0, <2>0, ClaimEffect, ZenonT(60)
    <3>2. /\ reclaimed[j] = {}
          /\ ~(complete_task_and_decrement(j, i) /\ task[j][i] = "FAILED")
      BY <2>2, <3>1, Zenon
    <3>3. task[j][i] = "PENDING"
      BY <1>0, <1>3, <3>2 DEF CanComplete, CanFail, TypeOK, TaskStatus
    <3>4. i \in Blocks(j)
      BY <3>3, Zenon DEF BarrierInv, RowsOK, RowOK
    <3>5. ~(status[j] \in Seeded /\ pending[j] <= 0)
      BY <3>2, <3>3, <3>4, AllResolved, Zenon DEF Resolved
    <3>. QED BY <2>2, <3>2, <3>5, Zenon
  <2>. QED BY <2>1, <2>2, Zenon
<1>4. Frozen /\ status[k] \in Seeded /\ pending[k] <= 0 => Done(k)' = Done(k)
  BY Zenon DEF Done
<1>. HIDE DEF Frozen
<1>. QED BY RowSteps, <1>1, <1>2, <1>3, <1>4, Zenon DEF db

\* Only a stitch handler writes the asset, with the chunks it has read.
LEMMA AssetWriter ==
  ASSUME TypeInv, [Next]_vars, NEW j \in Job
  PROVE  \/ asset'[j] = asset[j]
         \/ \E h \in Handler : /\ pc[h] = "stitch:put" /\ Jb(h) = j
                               /\ asset'[j] = chunks[h] /\ UNCHANGED db
<1>. USE DEF gateway, db, store, local
<1>1. ASSUME NEW h \in Handler, StitchPut(h)
      PROVE  \/ asset'[j] = asset[j]
             \/ /\ pc[h] = "stitch:put" /\ Jb(h) = j
                /\ asset'[j] = chunks[h] /\ UNCHANGED db
  BY <1>1, Zenon DEF StitchPut, Goto, TypeInv, TypeOK
<1>2. ASSUME NEW h \in Handler, Work(h), ~StitchPut(h)
      PROVE  UNCHANGED asset
  <2>1. CASE Parse(h) \/ Tts(h)
    BY <2>1, Zenon DEF Parse, Tts, ParseLoad, ParseBegin, ParseAdvance, ParsePublish,
       TtsAudio, TtsClaim, TtsReread, TtsEmit
  <2>2. CASE Stitch(h) \/ Dlq(h)
    BY <1>2, <2>2, ZenonT(60) DEF Stitch, Dlq, StitchJob, StitchChunks, StitchAdvance,
       StitchFinalize, StitchNotify, DlqResolve, DlqEmit
  <2>3. CASE \/ Raise(h) \/ Route(h) \/ RouteFails(h) \/ Ack(h) \/ Nack(h)
    BY <2>3, Zenon DEF Raise, Route, RouteFails, Ack, Nack
  <2>. QED BY <1>2, <2>1, <2>2, <2>3, Zenon DEF Work
<1>3. ASSUME Gateway PROVE UNCHANGED asset
  BY <1>3, Zenon DEF Gateway, CreatePut, CreateCommit, CreatePublish, CreateAbort,
     SweepPublish, SweepSelect, SweepAbort
<1>. QED BY <1>1, <1>2, <1>3, Zenon DEF Next, DelayExpires, Deliver, Crash, vars

-----------------------------------------------------------------------------
(* The asset.                                                              *)

\* A stitch handler of a job that is still seeded after the step works for a
\* settled job.
LEMMA StitchSettled ==
  ASSUME TypeInv, BarrierInv, GateInv, [Next]_vars, NEW h \in Handler,
         pc[h] \in StitchStep, status'[Jb(h)] \in Seeded
  PROVE  Jb(h) \in Job /\ status[Jb(h)] \in Seeded /\ pending[Jb(h)] <= 0
<1>1. Jb(h) \in Job /\ held[h] # NoMsg /\ held[h].event.type = "StitchReady"
  BY BusyHolds, Zenon DEF TypeInv, HandlerOK, StitchStep
<1>2. Crossed(Jb(h))
  BY <1>1, Zenon DEF GateInv, HandlerGate
<1>3. status[Jb(h)] # "FAILED"
  BY <1>1, RowMonotone, Zenon DEF Seeded
<1>. QED BY <1>1, <1>2, <1>3, Zenon DEF Crossed

\* The chunks a stitch handler carries are the DONE blocks.
LEMMA ChunksNext ==
  ASSUME TypeInv, BarrierInv, GateInv, AssetInv, [Next]_vars, NEW j \in Job,
         status'[j] \in Seeded, reclaimed'[j] = {}, NEW g \in Handler, Jb(g)' = j,
         pc'[g] \in {"stitch:advance", "stitch:put", "stitch:finalize"}
  PROVE  /\ pc[g] \in StitchStep /\ Jb(g) = j
         /\ chunks'[g] = Done(j)'
<1>. USE DEF gateway, db, store, local
<1>0. TypeOK /\ reclaimed[j] = {}
  BY SettledStays, Zenon DEF TypeInv
<1>1. \/ /\ pc[g] \in {"stitch:advance", "stitch:put", "stitch:finalize"}
         /\ held'[g] = held[g] /\ chunks'[g] = chunks[g]
      \/ StitchChunks(g)
  <2>1. ASSUME NEW m \in Message, Deliver(g, m) PROVE FALSE
    BY <1>0, <2>1, EntryStep, ZenonT(60) DEF Deliver, TypeOK
  <2>2. ASSUME \/ Crash(g) \/ RouteFails(g) \/ Ack(g) \/ Nack(g) PROVE FALSE
    BY <1>0, <2>2, Zenon DEF Crash, RouteFails, Ack, Nack, Finish, TypeOK
  <2>3. ASSUME Parse(g) \/ Tts(g) PROVE FALSE
    BY <1>0, <2>3, ZenonT(60) DEF Parse, Tts, ParseLoad, ParseBegin, ParseAdvance, ParsePublish,
       TtsAudio, TtsClaim, TtsReread, TtsEmit, Goto, TypeOK
  <2>4. ASSUME Dlq(g) \/ Raise(g) \/ Route(g) PROVE FALSE
    BY <1>0, <2>4, ZenonT(60) DEF Dlq, DlqResolve, DlqEmit, Raise, Route, Goto, TypeOK
  <2>5. ASSUME Stitch(g), ~StitchChunks(g)
        PROVE  /\ pc[g] \in {"stitch:advance", "stitch:put", "stitch:finalize"}
               /\ held'[g] = held[g] /\ chunks'[g] = chunks[g]
    BY <1>0, <2>5, Zenon DEF Stitch, StitchJob, StitchAdvance, StitchPut, StitchFinalize,
       StitchNotify, Goto, TypeOK
  <2>. QED BY Actor, <2>1, <2>2, <2>3, <2>4, <2>5, Zenon DEF Work
<1>2. CASE /\ pc[g] \in {"stitch:advance", "stitch:put", "stitch:finalize"}
           /\ held'[g] = held[g] /\ chunks'[g] = chunks[g]
  <2>1. pc[g] \in StitchStep /\ Jb(g) = j
    BY <1>2, Zenon DEF StitchStep, Jb
  <2>2. status[j] \in Seeded /\ pending[j] <= 0
    BY <2>1, StitchSettled, Zenon
  <2>3. Done(j)' = Done(j)
    BY <2>2, SettledStays, Zenon
  <2>4. chunks[g] = Done(j)
    BY <1>0, <1>2, <2>1, <2>2, Zenon DEF AssetInv
  <2>. QED BY <1>2, <2>1, <2>3, <2>4, Zenon
<1>3. CASE StitchChunks(g)
  <2>1. /\ pc[g] = "stitch:chunks" /\ held' = held /\ task' = task
        /\ chunks'[g] = {i \in Index : task[Jb(g)][i] = "DONE"}
    BY <1>0, <1>3, Zenon DEF StitchChunks, Goto, TypeOK
  <2>2. pc[g] \in StitchStep /\ Jb(g) = j
    BY <2>1, Zenon DEF StitchStep, Jb
  <2>3. {i \in Index : task[j][i] = "DONE"} = Done(j)
    BY CountFacts, Zenon DEF Done, BarrierInv, RowsOK, RowOK
  <2>4. Done(j)' = Done(j)
    BY <2>1, Zenon DEF Done
  <2>. QED BY <2>1, <2>2, <2>3, <2>4, Zenon
<1>. QED BY <1>1, <1>2, <1>3, Zenon

\* The stored asset stays the DONE blocks once a handler is about to finalise it.
LEMMA StoredNext ==
  ASSUME TypeInv, BarrierInv, GateInv, AssetInv, [Next]_vars, NEW j \in Job,
         status'[j] \in Seeded, reclaimed'[j] = {},
         status[j] \in Seeded, pending[j] <= 0, asset[j] = Done(j)
  PROVE  asset'[j] = Done(j)'
<1>1. reclaimed[j] = {} /\ Done(j)' = Done(j)
  BY SettledStays, Zenon
<1>2. ASSUME NEW h \in Handler, pc[h] = "stitch:put", Jb(h) = j,
             asset'[j] = chunks[h]
      PROVE  asset'[j] = Done(j)
  BY <1>1, <1>2, Zenon DEF AssetInv
<1>. QED BY <1>1, <1>2, AssetWriter, Zenon

\* A handler at stitch:finalize has stored the DONE blocks.
LEMMA FinalizeNext ==
  ASSUME TypeInv, BarrierInv, GateInv, AssetInv, [Next]_vars, NEW j \in Job,
         status'[j] \in Seeded, reclaimed'[j] = {}, NEW g \in Handler, Jb(g)' = j,
         pc'[g] = "stitch:finalize"
  PROVE  asset'[j] = Done(j)'
<1>. USE DEF gateway, db, store, local
<1>0. TypeOK /\ reclaimed[j] = {} /\ pc[g] \in StitchStep /\ Jb(g) = j
      /\ chunks'[g] = Done(j)'
  BY SettledStays, ChunksNext, Zenon DEF TypeInv
<1>1. status[j] \in Seeded /\ pending[j] <= 0
  BY <1>0, StitchSettled, Zenon
<1>2. CASE pc[g] = "stitch:finalize"
  <2>1. asset[j] = Done(j)
    BY <1>0, <1>1, <1>2, Zenon DEF AssetInv
  <2>. QED BY <1>1, <2>1, StoredNext, Zenon
<1>3. CASE pc[g] # "stitch:finalize"
  <2>1. StitchPut(g)
    <3>1. ASSUME NEW m \in Message, Deliver(g, m) PROVE FALSE
      BY <1>0, <3>1, EntryStep, Zenon DEF Deliver, TypeOK
    <3>2. ASSUME \/ Crash(g) \/ RouteFails(g) \/ Ack(g) \/ Nack(g) PROVE FALSE
      BY <1>0, <3>2, Zenon DEF Crash, RouteFails, Ack, Nack, Finish, TypeOK
    <3>3. ASSUME Parse(g) \/ Tts(g) PROVE FALSE
      BY <1>0, <3>3, Zenon DEF Parse, Tts, ParseLoad, ParseBegin, ParseAdvance,
         ParsePublish, TtsAudio, TtsClaim, TtsReread, TtsEmit, Goto, TypeOK
    <3>4. ASSUME Dlq(g) \/ Raise(g) \/ Route(g) PROVE FALSE
      BY <1>0, <3>4, ZenonT(60) DEF Dlq, DlqResolve, DlqEmit, Raise, Route, Goto, TypeOK
    <3>5. ASSUME Stitch(g) PROVE StitchPut(g)
      BY <1>0, <3>5, Zenon DEF Stitch, StitchJob, StitchChunks, StitchAdvance,
         StitchFinalize, StitchNotify, Goto, TypeOK
    <3>. QED BY Actor, <1>3, <3>1, <3>2, <3>3, <3>4, <3>5, Zenon DEF Work
  <2>2. asset'[j] = chunks'[g]
    BY <1>0, <2>1, Zenon DEF StitchPut, TypeOK
  <2>. QED BY <1>0, <2>2, Zenon
<1>. QED BY <1>2, <1>3, Zenon

\* The asset of a COMPLETED job is its DONE blocks.
LEMMA CompletedNext ==
  ASSUME TypeInv, BarrierInv, GateInv, AssetInv, [Next]_vars, NEW j \in Job,
         status'[j] = "COMPLETED", reclaimed'[j] = {}
  PROVE  asset'[j] = Done(j)'
<1>. USE DEF gateway, db, store, local
<1>0. TypeOK /\ reclaimed[j] = {} /\ status'[j] \in Seeded
  BY SettledStays, Zenon DEF TypeInv, Seeded
<1>1. CASE status[j] = "COMPLETED"
  <2>1. status[j] \in Seeded /\ pending[j] <= 0
    BY <1>1, Zenon DEF GateInv, StatusGate, Seeded
  <2>2. asset[j] = Done(j)
    BY <1>0, <1>1, <2>1, Zenon DEF AssetInv
  <2>. QED BY <1>0, <2>1, <2>2, StoredNext, Zenon
<1>2. CASE status[j] # "COMPLETED"
  <2>1. PICK h \in Handler : StitchFinalize(h) /\ Jb(h) = j
    <3>1. ASSUME NEW k \in Job, CreateCommit(k) PROVE FALSE
      BY <1>0, <1>2, <3>1, Zenon DEF CreateCommit, TypeOK
    <3>2. ASSUME NEW h \in Handler, ParseBegin(h) PROVE FALSE
      BY <1>0, <1>2, <3>2, Zenon DEF ParseBegin, begin_parse, TypeOK
    <3>3. ASSUME NEW h \in Handler,
                 ParseAdvance(h) \/ StitchAdvance(h) \/ StitchFinalize(h)
          PROVE  StitchFinalize(h) /\ Jb(h) = j
      BY <1>0, <1>2, <3>3, Zenon DEF ParseAdvance, StitchAdvance, StitchFinalize,
         finalize_job, advance_status, TypeOK
    <3>4. ASSUME NEW h \in Handler, TtsClaim(h) PROVE FALSE
      BY <1>2, <3>4, Zenon DEF TtsClaim, complete_task_and_decrement
    <3>5. ASSUME NEW h \in Handler, DlqResolve(h) PROVE FALSE
      BY <1>0, <1>2, <3>5, ZenonT(60) DEF DlqResolve, advance_status, fail_task_and_decrement,
         TypeOK
    <3>6. ASSUME UNCHANGED db PROVE FALSE
      BY <1>2, <3>6, Zenon
    <3>. QED BY DbSteps, <3>1, <3>2, <3>3, <3>4, <3>5, <3>6, Zenon
  <2>2. pc[h] = "stitch:finalize" /\ asset' = asset /\ task' = task
    BY <2>1, Zenon DEF StitchFinalize, Goto
  <2>3. status[j] \in Seeded
    BY <1>0, <2>1, <2>2, StitchSettled, Zenon DEF StitchStep
  <2>4. asset[j] = Done(j)
    BY <1>0, <2>1, <2>2, <2>3, Zenon DEF AssetInv
  <2>. QED BY <2>2, <2>4, Zenon DEF Done
<1>. QED BY <1>1, <1>2, Zenon

\* What every stitch handler holds, and what a COMPLETED job stores, are the DONE
\* blocks of the job.
THEOREM AssetHolds == Spec => []AssetInv
<1>1. Init => AssetInv
  BY Zenon DEF Init, AssetInv, Seeded
<1>2. TypeInv /\ BarrierInv /\ GateInv /\ AssetInv /\ [Next]_vars => AssetInv'
  <2>. SUFFICES ASSUME TypeInv, BarrierInv, GateInv, AssetInv, [Next]_vars,
                       NEW j \in Job, status'[j] \in Seeded, reclaimed'[j] = {}
                PROVE
    /\ \A h \in Handler :
         pc'[h] \in {"stitch:advance", "stitch:put", "stitch:finalize"}
           /\ Jb(h)' = j => chunks'[h] = Done(j)'
    /\ \A h \in Handler : pc'[h] = "stitch:finalize" /\ Jb(h)' = j
                            => asset'[j] = Done(j)'
    /\ status'[j] = "COMPLETED" => asset'[j] = Done(j)'
    BY Zenon DEF AssetInv
  <2>. QED BY ChunksNext, FinalizeNext, CompletedNext, Zenon
<1>. QED BY <1>1, <1>2, TypeCorrect, BarrierHolds, GateHolds, PTL DEF Spec

\* A job that is COMPLETED without a reclaimed block has no unresolved block and
\* its asset is exactly its DONE blocks, for any number of blocks, handlers,
\* duplicate deliveries, failures and crashes.
THEOREM DramaIsWhole == Spec => []WholeDrama
<1>1. TypeInv /\ BarrierInv /\ GateInv /\ AssetInv => WholeDrama
  <2>. SUFFICES ASSUME TypeInv, BarrierInv, GateInv, AssetInv, NEW j \in Job,
                       status[j] = "COMPLETED", reclaimed[j] = {}
                PROVE  Resolved(j) = Blocks(j) /\ asset[j] = Done(j)
    BY Zenon DEF WholeDrama, Done
  <2>1. status[j] \in Seeded /\ pending[j] <= 0
    BY Zenon DEF GateInv, StatusGate, Seeded
  <2>. QED BY <2>1, AllResolved, Zenon DEF AssetInv
<1>. QED BY <1>1, TypeCorrect, BarrierHolds, GateHolds, AssetHolds, PTL

-----------------------------------------------------------------------------
(* The webhook.                                                            *)

\* Only StitchNotify posts; only a won StitchFinalize leads to it.
LEMMA NotifySteps ==
  ASSUME TypeInv, [Next]_vars
  PROVE  /\ \/ notified' = notified
            \/ \E h \in Handler : StitchNotify(h)
         /\ \A g \in Handler : pc'[g] = "stitch:notify" =>
              \/ pc[g] = "stitch:notify" /\ held'[g] = held[g]
              \/ StitchFinalize(g) /\ status[Jb(g)] = "STITCHING"
<1>. USE DEF gateway, db, store, local
<1>0. TypeOK
  BY Zenon DEF TypeInv
<1>1. \/ notified' = notified
      \/ \E h \in Handler : StitchNotify(h)
  <2>1. ASSUME Gateway PROVE notified' = notified
    BY <2>1, Zenon DEF Gateway, CreatePut, CreateCommit, CreatePublish, CreateAbort,
       SweepSelect, SweepPublish, SweepAbort
  <2>2. ASSUME NEW h \in Handler,
               \/ Parse(h) \/ Tts(h) \/ Dlq(h) \/ Raise(h) \/ Route(h)
               \/ RouteFails(h) \/ Ack(h) \/ Nack(h) \/ Crash(h)
        PROVE  notified' = notified
    BY <2>2, ZenonT(60) DEF Parse, Tts, Dlq, ParseLoad, ParseBegin, ParseAdvance, ParsePublish,
       TtsAudio, TtsClaim, TtsReread, TtsEmit, DlqResolve, DlqEmit, Raise, Route,
       RouteFails, Ack, Nack, Crash
  <2>3. ASSUME NEW h \in Handler, Stitch(h)
        PROVE  notified' = notified \/ StitchNotify(h)
    BY <2>3, Zenon DEF Stitch, StitchJob, StitchChunks, StitchAdvance, StitchPut,
       StitchFinalize
  <2>4. ASSUME NEW m \in Message, DelayExpires(m) PROVE notified' = notified
    BY <2>4, Zenon DEF DelayExpires
  <2>5. ASSUME NEW m \in Message, NEW h \in Handler, Deliver(h, m)
        PROVE  notified' = notified
    BY <2>5, Zenon DEF Deliver
  <2>6. ASSUME UNCHANGED vars PROVE notified' = notified
    BY <2>6, Zenon DEF vars
  <2>. QED BY <2>1, <2>2, <2>3, <2>4, <2>5, <2>6, Zenon DEF Next, Work
<1>2. ASSUME NEW g \in Handler, pc'[g] = "stitch:notify"
      PROVE  \/ pc[g] = "stitch:notify" /\ held'[g] = held[g]
             \/ StitchFinalize(g) /\ status[Jb(g)] = "STITCHING"
  <2>1. ASSUME NEW m \in Message, Deliver(g, m) PROVE FALSE
    BY <1>0, <1>2, <2>1, EntryStep, Zenon DEF Deliver, TypeOK
  <2>2. ASSUME \/ Crash(g) \/ RouteFails(g) \/ Ack(g) \/ Nack(g) PROVE FALSE
    BY <1>0, <1>2, <2>2, Zenon DEF Crash, RouteFails, Ack, Nack, Finish, TypeOK
  <2>3. ASSUME Parse(g) \/ Tts(g) PROVE FALSE
    BY <1>0, <1>2, <2>3, Zenon DEF Parse, Tts, ParseLoad, ParseBegin, ParseAdvance,
       ParsePublish, TtsAudio, TtsClaim, TtsReread, TtsEmit, Goto, TypeOK
  <2>4. ASSUME Dlq(g) \/ Raise(g) \/ Route(g) PROVE FALSE
    BY <1>0, <1>2, <2>4, ZenonT(60) DEF Dlq, DlqResolve, DlqEmit, Raise, Route, Goto, TypeOK
  <2>5. ASSUME Stitch(g) PROVE StitchFinalize(g) /\ status[Jb(g)] = "STITCHING"
    <3>1. StitchFinalize(g)
      BY <1>0, <1>2, <2>5, Zenon DEF Stitch, StitchJob, StitchChunks, StitchAdvance,
         StitchPut, StitchNotify, Goto, TypeOK
    <3>2. status[Jb(g)] \in expected_for("COMPLETED")
      BY <1>0, <1>2, <3>1, Zenon DEF StitchFinalize, Goto, TypeOK
    <3>. QED BY <3>1, <3>2, Predecessors, Zenon
  <2>. QED BY Actor, <1>2, <2>1, <2>2, <2>3, <2>4, <2>5, ZenonT(60) DEF Work
<1>. QED BY <1>1, <1>2, Zenon

\* The webhook of a job is posted at most once, and only when the job is
\* COMPLETED: finalize_job's compare-and-set has one winner, for any number of
\* StitchReady deliveries, retries and crashes.
THEOREM WebhookOnce == Spec => []NotifiedOnce
<1>1. Init => NotifyInv
  BY DEF Init, NotifyInv
<1>2. TypeInv /\ BarrierInv /\ NotifyInv /\ [Next]_vars => NotifyInv'
  <2>. SUFFICES ASSUME TypeInv, BarrierInv, NotifyInv, [Next]_vars
                PROVE  NotifyInv'
    BY Zenon
  <2>. USE DEF gateway, db, store, local
  <2>0. TypeOK
    BY Zenon DEF TypeInv
  <2>1. ASSUME NEW h \in Handler, pc[h] = "stitch:notify" \/ StitchFinalize(h)
        PROVE  Jb(h) \in Job
    BY <2>1, BusyHolds, Zenon DEF StitchFinalize, Goto, TypeInv, HandlerOK
  <2>2. CASE \E h \in Handler : StitchNotify(h)
    <3>1. PICK h \in Handler : StitchNotify(h)
      BY <2>2, Zenon
    <3>2. /\ pc[h] = "stitch:notify" /\ status' = status /\ held' = held
          /\ pc' = [pc EXCEPT ![h] = "ack"]
          /\ notified' \in {notified, [notified EXCEPT ![Jb(h)] = @ + 1]}
      BY <3>1, Zenon DEF StitchNotify, Goto
    <3>3. Jb(h) \in Job /\ notified[Jb(h)] = 0 /\ status[Jb(h)] = "COMPLETED"
      BY <2>1, <3>2, Zenon DEF NotifyInv
    <3>4. \A j \in Job : notified'[j] = notified[j] \/ (j = Jb(h) /\ notified'[j] = 1)
      <4>1. CASE notified' = notified
        BY <4>1, Zenon
      <4>2. CASE notified' = [notified EXCEPT ![Jb(h)] = @ + 1]
        BY <2>0, <3>3, <4>2 DEF TypeOK
      <4>. QED BY <3>2, <4>1, <4>2, Zenon
    <3>5. ASSUME NEW g \in Handler, pc'[g] = "stitch:notify"
          PROVE  pc[g] = "stitch:notify" /\ g # h /\ Jb(g)' = Jb(g) /\ Jb(g) \in Job
      BY <2>0, <2>1, <3>2, <3>5, Zenon DEF TypeOK, Jb
    <3>6. ASSUME NEW g \in Handler, pc'[g] = "stitch:notify"
          PROVE  /\ status'[Jb(g)'] = "COMPLETED" /\ notified'[Jb(g)'] = 0
                 /\ \A f \in Handler :
                      pc'[f] = "stitch:notify" /\ Jb(f)' = Jb(g)' => f = g
      <4>1. pc[g] = "stitch:notify" /\ Jb(g) # Jb(h) /\ Jb(g)' = Jb(g) /\ Jb(g) \in Job
        BY <3>2, <3>5, <3>6, Zenon DEF NotifyInv
      <4>. QED BY <3>2, <3>4, <3>5, <4>1, SMTT(30) DEF NotifyInv
    <3>. QED BY <3>2, <3>3, <3>4, <3>6 DEF NotifyInv
  <2>3. CASE notified' = notified
    <3>1. \A j \in Job : status[j] = "COMPLETED" => status'[j] = "COMPLETED"
      BY RowMonotone, Zenon
    <3>2. \A j \in Job : status'[j] # "COMPLETED" => notified'[j] = 0
      BY <2>3, <3>1, Zenon DEF NotifyInv
    <3>3. ASSUME NEW g \in Handler, pc'[g] = "stitch:notify"
          PROVE  /\ Jb(g) \in Job /\ Jb(g)' = Jb(g)
                 /\ \/ pc[g] = "stitch:notify"
                    \/ StitchFinalize(g) /\ status[Jb(g)] = "STITCHING"
      <4>1. CASE pc[g] = "stitch:notify" /\ held'[g] = held[g]
        BY <2>1, <4>1, Zenon DEF Jb
      <4>2. CASE StitchFinalize(g) /\ status[Jb(g)] = "STITCHING"
        BY <2>1, <4>2, ZenonT(60) DEF StitchFinalize, Goto, Jb
      <4>. QED BY <3>3, <4>1, <4>2, NotifySteps, Zenon
    <3>4. ASSUME NEW g \in Handler, pc'[g] = "stitch:notify"
          PROVE  status'[Jb(g)'] = "COMPLETED" /\ notified'[Jb(g)'] = 0
      <4>1. CASE pc[g] = "stitch:notify"
        BY <2>3, <3>1, <3>3, <3>4, <4>1, ZenonT(60) DEF NotifyInv
      <4>2. CASE StitchFinalize(g) /\ status[Jb(g)] = "STITCHING"
        <5>1. status'[Jb(g)] = "COMPLETED"
          BY <2>0, <2>1, <4>2, Predecessors, ZenonT(60) DEF StitchFinalize, finalize_job,
             advance_status, TypeOK
        <5>. QED BY <2>3, <3>3, <3>4, <4>2, <5>1, Zenon DEF NotifyInv
      <4>. QED BY <3>3, <3>4, <4>1, <4>2, Zenon
    <3>5. ASSUME NEW g \in Handler, pc'[g] = "stitch:notify",
                 NEW f \in Handler, pc'[f] = "stitch:notify", Jb(f)' = Jb(g)', f # g
          PROVE  FALSE
      <4>1. Jb(f) = Jb(g)
        BY <3>3, <3>5, Zenon
      <4>2. pc[g] # "stitch:notify" => StitchFinalize(g) /\ status[Jb(g)] = "STITCHING"
        BY <3>3, <3>5, Zenon
      <4>3. pc[f] # "stitch:notify" => StitchFinalize(f) /\ status[Jb(f)] = "STITCHING"
        BY <3>3, <3>5, Zenon
      <4>4. CASE pc[g] = "stitch:notify" /\ pc[f] = "stitch:notify"
        BY <3>5, <4>1, <4>4, Zenon DEF NotifyInv
      <4>5. CASE pc[g] = "stitch:notify" /\ pc[f] # "stitch:notify"
        BY <4>1, <4>3, <4>5, Zenon DEF NotifyInv
      <4>6. CASE pc[g] # "stitch:notify" /\ pc[f] = "stitch:notify"
        BY <4>1, <4>2, <4>6, Zenon DEF NotifyInv
      <4>7. CASE pc[g] # "stitch:notify" /\ pc[f] # "stitch:notify"
        <5>1. pc' = [pc EXCEPT ![g] = "stitch:notify"]
          BY <2>0, <3>5, <4>2, <4>7, Zenon DEF StitchFinalize, Goto, TypeOK
        <5>. QED BY <2>0, <3>5, <4>7, <5>1, Zenon DEF TypeOK
      <4>. QED BY <4>4, <4>5, <4>6, <4>7, Zenon
    <3>. QED BY <2>3, <3>2, <3>4, <3>5, Zenon DEF NotifyInv
  <2>. QED BY <2>2, <2>3, NotifySteps, Zenon
<1>3. NotifyInv => NotifiedOnce
  <2>. SUFFICES ASSUME NotifyInv, NEW j \in Job
                PROVE  notified[j] <= 1 /\ (notified[j] = 1 => status[j] = "COMPLETED")
    BY ZenonT(60) DEF NotifiedOnce
  <2>1. notified[j] <= 1 /\ (status[j] # "COMPLETED" => notified[j] = 0)
    BY Zenon DEF NotifyInv
  <2>. QED BY <2>1
<1>. QED BY <1>1, <1>2, <1>3, TypeCorrect, BarrierHolds, PTL DEF Spec

-----------------------------------------------------------------------------
(* The contract's state, job by job.                                       *)

todoBar(k) == InStatus(k, "PENDING")
lostBar(k) == InStatus(k, "FAILED")
dramaBar(k) == IF status[k] = "COMPLETED" THEN asset[k] ELSE {}

SameTodo(k) == todoBar(k)' = todoBar(k)
SameLost(k) == lostBar(k)' = lostBar(k)
SameDrama(k) == dramaBar(k)' = dramaBar(k)
SameView(k) ==
  phaseBar'[k] = phaseBar[k] /\ SameTodo(k) /\ SameLost(k) /\ SameDrama(k)

\* The phase of a job in each of its statuses.
LEMMA PhaseAt ==
  ASSUME NEW k \in Job
  PROVE  /\ status[k] = "ABSENT" => phaseBar[k] = "none"
         /\ status[k] = "PENDING" => phaseBar[k] = "accepted"
         /\ status[k] \in {"PARSING", "GENERATING"} => phaseBar[k] = "running"
         /\ status[k] = "STITCHING" => phaseBar[k] = "assembling"
         /\ status[k] = "COMPLETED" => phaseBar[k] = "completed"
         /\ status[k] = "FAILED" => phaseBar[k] = "failed"
         /\ status'[k] = "PENDING" => phaseBar'[k] = "accepted"
         /\ status'[k] \in {"PARSING", "GENERATING"} => phaseBar'[k] = "running"
         /\ status'[k] = "STITCHING" => phaseBar'[k] = "assembling"
         /\ status'[k] = "COMPLETED" => phaseBar'[k] = "completed"
         /\ status'[k] = "FAILED" => phaseBar'[k] = "failed"
BY DEF phaseBar, PhaseOf

\* The blocks of a job that is not seeded are no business of the contract.
LEMMA Unseeded ==
  ASSUME NEW k \in Job
  PROVE  /\ status[k] \notin Seeded =>
              todoBar(k) = {} /\ lostBar(k) = {} /\ dramaBar(k) = {}
         /\ status'[k] \notin Seeded =>
              todoBar(k)' = {} /\ lostBar(k)' = {} /\ dramaBar(k)' = {}
         /\ status[k] # "COMPLETED" => dramaBar(k) = {}
         /\ status'[k] # "COMPLETED" => dramaBar(k)' = {}
BY Zenon DEF todoBar, lostBar, dramaBar, InStatus, Seeded

\* Steps of the contract that concern job j only.
LEMMA ContractStep ==
  ASSUME NEW j \in Job, \A k \in Job \ {j} : SameView(k),
         \/ SameView(j)
         \/ /\ phaseBar[j] = "none" /\ phaseBar'[j] = "accepted"
            /\ SameTodo(j) /\ SameLost(j) /\ SameDrama(j)
         \/ /\ phaseBar[j] = "accepted" /\ phaseBar'[j] = "running"
            /\ todoBar(j)' = Blocks(j) /\ SameLost(j) /\ SameDrama(j)
         \/ /\ phaseBar[j] = "running" /\ phaseBar'[j] = "running"
            /\ SameDrama(j)
            /\ \E i \in Blocks(j) :
                 /\ i \in todoBar(j) /\ todoBar(j)' = todoBar(j) \ {i}
                 /\ SameLost(j) \/ lostBar(j)' = lostBar(j) \cup {i}
         \/ /\ phaseBar[j] = "running" /\ phaseBar'[j] = "assembling"
            /\ todoBar(j) = {} /\ SameTodo(j) /\ SameLost(j) /\ SameDrama(j)
         \/ /\ phaseBar[j] = "assembling" /\ phaseBar'[j] = "completed"
            /\ SameTodo(j) /\ SameLost(j) /\ dramaBar(j)' = Blocks(j) \ lostBar(j)
         \/ /\ phaseBar[j] \in {"accepted", "running", "assembling"}
            /\ phaseBar'[j] = "failed"
            /\ todoBar(j)' = {} /\ lostBar(j)' = {} /\ SameDrama(j)
  PROVE  Contract!Next \/ UNCHANGED Contract!cvars
<1>. USE DEF SameView, SameTodo, SameLost, SameDrama
<1>. DEFINE ph == phaseBar
            td == [k \in Job |-> todoBar(k)]
            ls == [k \in Job |-> lostBar(k)]
            dr == [k \in Job |-> dramaBar(k)]
<1>1. /\ ph = [k \in Job |-> ph[k]] /\ ph' = [k \in Job |-> ph'[k]]
      /\ \A k \in Job \ {j} : /\ ph'[k] = ph[k] /\ td'[k] = td[k]
                              /\ ls'[k] = ls[k] /\ dr'[k] = dr[k]
      /\ td[j] = todoBar(j) /\ td'[j] = todoBar(j)'
      /\ ls[j] = lostBar(j) /\ ls'[j] = lostBar(j)'
      /\ dr[j] = dramaBar(j) /\ dr'[j] = dramaBar(j)'
  BY Zenon DEF phaseBar
<1>2. CASE SameView(j)
  <2>1. ph' = ph /\ td' = td /\ ls' = ls /\ dr' = dr
    BY <1>1, <1>2, Zenon
  <2>. QED BY <2>1, Zenon DEF Contract!cvars, todoBar, lostBar, dramaBar
<1>3. CASE /\ phaseBar[j] = "none" /\ phaseBar'[j] = "accepted"
           /\ SameTodo(j) /\ SameLost(j) /\ SameDrama(j)
  <2>1. /\ ph[j] = "none" /\ ph' = [ph EXCEPT ![j] = "accepted"]
        /\ td' = td /\ ls' = ls /\ dr' = dr
    BY <1>1, <1>3, Zenon
  <2>2. Contract!Accept(j)
    BY <2>1, Zenon DEF Contract!Accept, Contract!Move, todoBar, lostBar, dramaBar
  <2>. QED BY <2>2, Zenon DEF Contract!Next
<1>4. CASE /\ phaseBar[j] = "accepted" /\ phaseBar'[j] = "running"
           /\ todoBar(j)' = Blocks(j) /\ SameLost(j) /\ SameDrama(j)
  <2>1. /\ ph[j] = "accepted" /\ ph' = [ph EXCEPT ![j] = "running"]
        /\ td' = [td EXCEPT ![j] = [k \in Job |-> Blocks(k)][j]]
        /\ ls' = ls /\ dr' = dr
    BY <1>1, <1>4, Zenon
  <2>2. Contract!Start(j)
    BY <2>1, Zenon DEF Contract!Start, Contract!Move, todoBar, lostBar, dramaBar
  <2>. QED BY <2>2, Zenon DEF Contract!Next
<1>5. CASE /\ phaseBar[j] = "running" /\ phaseBar'[j] = "running"
           /\ SameDrama(j)
           /\ \E i \in Blocks(j) :
                /\ i \in todoBar(j) /\ todoBar(j)' = todoBar(j) \ {i}
                /\ SameLost(j) \/ lostBar(j)' = lostBar(j) \cup {i}
  <2>1. PICK i \in Blocks(j) :
          /\ i \in todoBar(j) /\ todoBar(j)' = todoBar(j) \ {i}
          /\ SameLost(j) \/ lostBar(j)' = lostBar(j) \cup {i}
    BY <1>5, Zenon
  <2>2. /\ ph[j] = "running" /\ ph' = ph /\ i \in td[j]
        /\ td' = [td EXCEPT ![j] = @ \ {i}] /\ dr' = dr
    BY <1>1, <1>5, <2>1, Zenon
  <2>3. CASE SameLost(j)
    <3>1. ls' = ls
      BY <1>1, <2>3, Zenon
    <3>2. Contract!Produce(j, i)
      BY <2>2, <3>1, Zenon DEF Contract!Produce, todoBar, lostBar, dramaBar
    <3>. QED BY <2>1, <3>2, Zenon DEF Contract!Next
  <2>4. CASE lostBar(j)' = lostBar(j) \cup {i}
    <3>1. ls' = [ls EXCEPT ![j] = @ \cup {i}]
      BY <1>1, <2>4, Zenon
    <3>2. Contract!Lose(j, i)
      BY <2>2, <3>1, Zenon DEF Contract!Lose, todoBar, lostBar, dramaBar
    <3>. QED BY <2>1, <3>2, Zenon DEF Contract!Next
  <2>. QED BY <2>1, <2>3, <2>4, Zenon
<1>6. CASE /\ phaseBar[j] = "running" /\ phaseBar'[j] = "assembling"
           /\ todoBar(j) = {} /\ SameTodo(j) /\ SameLost(j) /\ SameDrama(j)
  <2>1. /\ ph[j] = "running" /\ ph' = [ph EXCEPT ![j] = "assembling"]
        /\ td[j] = {} /\ td' = td /\ ls' = ls /\ dr' = dr
    BY <1>1, <1>6, Zenon
  <2>2. Contract!Assemble(j)
    BY <2>1, Zenon DEF Contract!Assemble, Contract!Move, todoBar, lostBar, dramaBar
  <2>. QED BY <2>2, Zenon DEF Contract!Next
<1>7. CASE /\ phaseBar[j] = "assembling" /\ phaseBar'[j] = "completed"
           /\ SameTodo(j) /\ SameLost(j) /\ dramaBar(j)' = Blocks(j) \ lostBar(j)
  <2>1. /\ ph[j] = "assembling" /\ ph' = [ph EXCEPT ![j] = "completed"]
        /\ td' = td /\ ls' = ls
        /\ dr' = [dr EXCEPT ![j] = [k \in Job |-> Blocks(k)][j] \ ls[j]]
    BY <1>1, <1>7, Zenon
  <2>2. Contract!Complete(j)
    BY <2>1, Zenon DEF Contract!Complete, Contract!Move, todoBar, lostBar, dramaBar
  <2>. QED BY <2>2, Zenon DEF Contract!Next
<1>8. CASE /\ phaseBar[j] \in {"accepted", "running", "assembling"}
           /\ phaseBar'[j] = "failed"
           /\ todoBar(j)' = {} /\ lostBar(j)' = {} /\ SameDrama(j)
  <2>1. /\ ph[j] \in {"accepted", "running", "assembling"}
        /\ ph' = [ph EXCEPT ![j] = "failed"]
        /\ td' = [td EXCEPT ![j] = {}] /\ ls' = [ls EXCEPT ![j] = {}] /\ dr' = dr
    BY <1>1, <1>8, Zenon
  <2>2. Contract!Abandon(j)
    BY <2>1, Zenon DEF Contract!Abandon, todoBar, lostBar, dramaBar
  <2>. QED BY <2>2, Zenon DEF Contract!Next
<1>. QED BY <1>2, <1>3, <1>4, <1>5, <1>6, <1>7, <1>8, Zenon

-----------------------------------------------------------------------------
(* Every step of the pipeline.                                             *)

\* The invariants the argument rests on.
AllInv == TypeInv /\ BarrierInv /\ GateInv /\ AssetInv

\* No block has been completed after it was dead-lettered.
NoneReclaimed == \A k \in Job : reclaimed[k] = {}

\* A step that leaves the status and the rows of a job alone leaves its view alone:
\* a late stitch can only write the same asset again.
LEMMA ViewKept ==
  ASSUME AllInv, AllInv', [Next]_vars, NEW k \in Job, reclaimed'[k] = {},
         status'[k] = status[k],
         status[k] \in Seeded => \A i \in Blocks(k) : task'[k][i] = task[k][i]
  PROVE  SameView(k)
<1>1. phaseBar'[k] = phaseBar[k]
  BY Zenon DEF phaseBar
<1>2. SameTodo(k) /\ SameLost(k)
  BY Zenon DEF SameTodo, SameLost, todoBar, lostBar, InStatus
<1>3. CASE status[k] # "COMPLETED"
  <2>1. SameDrama(k)
    BY <1>3, Zenon DEF SameDrama, dramaBar
  <2>. QED BY <1>1, <1>2, <2>1, Zenon DEF SameView
<1>4. CASE status[k] = "COMPLETED"
  <2>1. status[k] \in Seeded /\ pending[k] <= 0
    BY <1>4, Zenon DEF Seeded, AllInv, GateInv, StatusGate
  <2>2. reclaimed[k] = {} /\ Done(k)' = Done(k)
    BY <2>1, SettledStays, Zenon DEF AllInv
  <2>3. asset[k] = Done(k)
    BY <1>4, <2>1, <2>2, Zenon DEF AllInv, AssetInv
  <2>4. asset'[k] = Done(k)'
    BY <1>4, <2>1, Zenon DEF AllInv, AssetInv
  <2>5. SameDrama(k)
    BY <2>2, <2>3, <2>4, Zenon DEF SameDrama, dramaBar
  <2>. QED BY <1>1, <1>2, <2>5, Zenon DEF SameView
<1>. QED BY <1>3, <1>4, Zenon

\* create_job's commit is Accept.
LEMMA AcceptStep ==
  ASSUME AllInv, AllInv', [Next]_vars, NoneReclaimed', NEW j \in Job,
         status[j] = "ABSENT", status' = [status EXCEPT ![j] = "PENDING"],
         UNCHANGED <<pending, task, reclaimed>>
  PROVE  Contract!Next \/ UNCHANGED Contract!cvars
<1>1. /\ status'[j] = "PENDING"
      /\ \A k \in Job \ {j} : status'[k] = status[k]
  BY Zenon DEF AllInv, TypeInv, TypeOK
<1>2. \A k \in Job \ {j} : SameView(k)
  BY <1>1, ViewKept, Zenon DEF NoneReclaimed
<1>3. status[j] \notin Seeded /\ status'[j] \notin Seeded
  BY <1>1, Zenon DEF Seeded
<1>4. SameTodo(j) /\ SameLost(j) /\ SameDrama(j)
  BY <1>3, Unseeded, Zenon DEF SameTodo, SameLost, SameDrama
<1>5. phaseBar[j] = "none" /\ phaseBar'[j] = "accepted"
  BY <1>1, PhaseAt, Zenon
<1>. QED BY <1>2, <1>4, <1>5, ContractStep, Zenon

\* The first begin_parse is Start; a repeated one is nothing.
LEMMA StartStep ==
  ASSUME AllInv, AllInv', [Next]_vars, NoneReclaimed', NEW j \in Job,
         status[j] # "ABSENT", InsertTasks(j), begin_parse(j, Count(j)),
         UNCHANGED reclaimed
  PROVE  Contract!Next \/ UNCHANGED Contract!cvars
<1>0. TypeOK /\ RowOK(j) /\ Blocks(j) \subseteq Index
  BY CountFacts, Zenon DEF AllInv, TypeInv, BarrierInv, RowsOK
<1>1. /\ \A k \in Job \ {j} : status'[k] = status[k] /\ task'[k] = task[k]
      /\ status[j] # "PENDING" => status'[j] = status[j]
      /\ status[j] = "PENDING" => status'[j] = "PARSING"
  BY <1>0, Zenon DEF TypeOK, InsertTasks, begin_parse
<1>2. \A k \in Job \ {j} : SameView(k)
  BY <1>1, ViewKept, Zenon DEF NoneReclaimed
<1>3. CASE status[j] # "PENDING"
  <2>1. status[j] \in Seeded => \A i \in Blocks(j) : task'[j][i] = task[j][i]
    BY <1>0, Zenon DEF RowOK, InsertTasks, TypeOK
  <2>2. SameView(j)
    BY <1>1, <1>3, <2>1, ViewKept, Zenon DEF NoneReclaimed
  <2>. QED BY <1>2, <2>2, ContractStep, Zenon
<1>4. CASE status[j] = "PENDING"
  <2>1. \A i \in Blocks(j) : task'[j][i] = "PENDING"
    BY <1>0, <1>4, Zenon DEF RowOK, InsertTasks, TypeOK
  <2>2. status'[j] = "PARSING" /\ status'[j] \in Seeded /\ status[j] \notin Seeded
    BY <1>1, <1>4, Zenon DEF Seeded
  <2>3. todoBar(j)' = Blocks(j) /\ lostBar(j)' = {}
    BY <2>1, <2>2, Zenon DEF todoBar, lostBar, InStatus
  <2>4. SameLost(j) /\ SameDrama(j)
    BY <2>2, <2>3, Unseeded, Zenon DEF SameLost, SameDrama
  <2>5. phaseBar[j] = "accepted" /\ phaseBar'[j] = "running"
    BY <1>4, <2>2, PhaseAt, Zenon
  <2>. QED BY <1>2, <2>3, <2>4, <2>5, ContractStep, Zenon
<1>. QED BY <1>3, <1>4, Zenon

\* STITCHING is Assemble, COMPLETED is Complete and FAILED is Abandon.
LEMMA AdvanceStep ==
  ASSUME AllInv, AllInv', [Next]_vars, NoneReclaimed', NEW j \in Job,
         NEW to \in {"GENERATING", "STITCHING", "COMPLETED", "FAILED"},
         status[j] \in expected_for(to), status' = [status EXCEPT ![j] = to],
         UNCHANGED <<pending, task, reclaimed>>
  PROVE  Contract!Next \/ UNCHANGED Contract!cvars
<1>1. /\ status'[j] = to /\ \A k \in Job \ {j} : status'[k] = status[k]
      /\ reclaimed[j] = {} /\ reclaimed'[j] = {}
  BY Zenon DEF AllInv, TypeInv, TypeOK, NoneReclaimed
<1>2. \A k \in Job \ {j} : SameView(k)
  BY <1>1, ViewKept, Zenon DEF NoneReclaimed
<1>3. ASSUME status[j] \in Seeded, status'[j] \in Seeded
      PROVE  SameTodo(j) /\ SameLost(j)
  BY <1>3, Zenon DEF SameTodo, SameLost, todoBar, lostBar, InStatus
<1>4. CASE to = "GENERATING"
  <2>1. status[j] = "PARSING" /\ status'[j] = "GENERATING"
    BY <1>1, <1>4, Predecessors, Zenon
  <2>2. phaseBar[j] = "running" /\ phaseBar'[j] = "running"
    BY <2>1, PhaseAt, Zenon
  <2>3. SameTodo(j) /\ SameLost(j) /\ SameDrama(j)
    BY <1>3, <2>1, Unseeded, Zenon DEF Seeded, SameDrama
  <2>4. SameView(j)
    BY <2>2, <2>3, Zenon DEF SameView
  <2>. QED BY <1>2, <2>4, ContractStep, Zenon
<1>5. CASE to = "STITCHING"
  <2>1. status[j] = "GENERATING" /\ status'[j] = "STITCHING"
    BY <1>1, <1>5, Predecessors, Zenon
  <2>2. phaseBar[j] = "running" /\ phaseBar'[j] = "assembling"
    BY <2>1, PhaseAt, Zenon
  <2>3. SameTodo(j) /\ SameLost(j) /\ SameDrama(j)
    BY <1>3, <2>1, Unseeded, Zenon DEF Seeded, SameDrama
  <2>4. status[j] \in Seeded /\ pending[j] <= 0
    BY <2>1, Zenon DEF Seeded, AllInv, GateInv, StatusGate
  <2>5. Resolved(j) = Blocks(j)
    BY <1>1, <2>4, AllResolved, Zenon DEF AllInv
  <2>6. todoBar(j) = {}
    BY <2>5, Zenon DEF todoBar, InStatus, Resolved
  <2>. QED BY <1>2, <2>2, <2>3, <2>6, ContractStep, Zenon
<1>6. CASE to = "COMPLETED"
  <2>1. status[j] = "STITCHING" /\ status'[j] = "COMPLETED"
    BY <1>1, <1>6, Predecessors, Zenon
  <2>2. phaseBar[j] = "assembling" /\ phaseBar'[j] = "completed"
    BY <2>1, PhaseAt, Zenon
  <2>3. status[j] \in Seeded /\ status'[j] \in Seeded /\ pending[j] <= 0
    BY <2>1, Zenon DEF Seeded, AllInv, GateInv, StatusGate
  <2>4. SameTodo(j) /\ SameLost(j)
    BY <1>3, <2>3, Zenon
  <2>5. Resolved(j) = Blocks(j)
    BY <1>1, <2>3, AllResolved, Zenon DEF AllInv
  <2>6. Done(j) = Blocks(j) \ lostBar(j)
    BY <2>3, <2>5, Zenon DEF Done, lostBar, InStatus, Resolved
  <2>7. asset'[j] = Done(j)' /\ Done(j)' = Done(j)
    BY <1>1, <2>1, <2>3, Zenon DEF AllInv, AssetInv, Done
  <2>8. dramaBar(j)' = Blocks(j) \ lostBar(j)
    BY <2>1, <2>6, <2>7, Zenon DEF dramaBar
  <2>. QED BY <1>2, <2>2, <2>4, <2>8, ContractStep, Zenon
<1>7. CASE to = "FAILED"
  <2>1. /\ status[j] \in {"PENDING", "PARSING", "GENERATING", "STITCHING"}
        /\ status'[j] = "FAILED"
    BY <1>1, <1>7, Predecessors, Zenon
  <2>2. /\ phaseBar[j] \in {"accepted", "running", "assembling"}
        /\ phaseBar'[j] = "failed"
    BY <2>1, PhaseAt, Zenon
  <2>3. todoBar(j)' = {} /\ lostBar(j)' = {} /\ SameDrama(j)
    BY <2>1, Unseeded, Zenon DEF Seeded, SameDrama
  <2>. QED BY <1>2, <2>2, <2>3, ContractStep, Zenon
<1>. QED BY <1>4, <1>5, <1>6, <1>7, Zenon

\* A claim is Produce or Lose.
LEMMA ClaimStep ==
  ASSUME AllInv, AllInv', [Next]_vars, NoneReclaimed',
         NEW j \in Job, NEW i \in Index,
         \/ CanComplete(j, i) /\ complete_task_and_decrement(j, i)
         \/ CanFail(j, i) /\ fail_task_and_decrement(j, i)
  PROVE  Contract!Next \/ UNCHANGED Contract!cvars
<1>0. TypeInv /\ BarrierInv /\ TypeOK /\ reclaimed'[j] = {} /\ reclaimed[j] = {}
  BY SettledStays, Zenon DEF AllInv, TypeInv, NoneReclaimed
<1>1. complete_task_and_decrement(j, i) \/ fail_task_and_decrement(j, i)
  BY Zenon
<1>2. /\ status' = status
      /\ \A k \in Job \ {j} : task'[k] = task[k]
      /\ \A x \in Index \ {i} : task'[j][x] = task[j][x]
      /\ task'[j][i] \in {"DONE", "FAILED"}
  BY <1>0, <1>1, ClaimEffect, ZenonT(60)
<1>3. \A k \in Job \ {j} : SameView(k)
  BY <1>2, ViewKept, Zenon DEF NoneReclaimed
<1>4. task[j][i] = "PENDING" /\ i \in Blocks(j) /\ Blocks(j) \subseteq Index
  <2>1. reclaimed'[j] = IF complete_task_and_decrement(j, i)
                          /\ task[j][i] = "FAILED"
                          THEN reclaimed[j] \cup {i} ELSE reclaimed[j]
    BY <1>0, <1>1, ClaimEffect, ZenonT(60)
  <2>2. ~(complete_task_and_decrement(j, i) /\ task[j][i] = "FAILED")
    BY <1>0, <2>1, Zenon
  <2>3. task[j][i] = "PENDING"
    BY <1>0, <2>2 DEF CanComplete, CanFail, TypeOK, TaskStatus
  <2>. QED BY <1>0, <2>3, CountFacts, Zenon DEF BarrierInv, RowsOK, RowOK
<1>5. CASE status[j] \notin Seeded
  <2>1. SameView(j)
    BY <1>0, <1>2, <1>5, ViewKept, Zenon
  <2>. QED BY <1>3, <2>1, ContractStep, Zenon
<1>6. CASE status[j] \in Seeded
  <2>1. ~(pending[j] <= 0)
    BY <1>0, <1>4, <1>6, AllResolved, Zenon DEF Resolved
  <2>2. status[j] \in {"PARSING", "GENERATING"} /\ status'[j] = status[j]
    BY <1>2, <1>6, <2>1, Zenon DEF Seeded, AllInv, GateInv, StatusGate
  <2>3. phaseBar[j] = "running" /\ phaseBar'[j] = "running"
    BY <2>2, PhaseAt, Zenon
  <2>4. SameDrama(j)
    BY <2>2, Unseeded, Zenon DEF SameDrama
  <2>5. i \in todoBar(j) /\ todoBar(j)' = todoBar(j) \ {i}
    BY <1>2, <1>4, <1>6, <2>2, Zenon DEF todoBar, InStatus
  <2>6. SameLost(j) \/ lostBar(j)' = lostBar(j) \cup {i}
    <3>1. CASE task'[j][i] = "DONE"
      BY <1>2, <1>4, <1>6, <2>2, <3>1, Zenon DEF SameLost, lostBar, InStatus
    <3>2. CASE task'[j][i] = "FAILED"
      BY <1>2, <1>4, <1>6, <2>2, <3>2, Zenon DEF lostBar, InStatus
    <3>. QED BY <1>2, <3>1, <3>2, Zenon
  <2>. QED BY <1>3, <1>4, <2>3, <2>4, <2>5, <2>6, ContractStep, Zenon
<1>. QED BY <1>5, <1>6, Zenon

\* Every step is a step of the contract or leaves its state alone.
LEMMA EveryStep ==
  ASSUME AllInv, AllInv', [Next]_vars, NoneReclaimed'
  PROVE  Contract!Next \/ UNCHANGED Contract!cvars
<1>1. CASE UNCHANGED db
  <2>1. \A k \in Job : SameView(k)
    BY <1>1, ViewKept, Zenon DEF db, NoneReclaimed
  <2>2. CASE Job = {}
    BY <2>2 DEF Contract!cvars, phaseBar
  <2>3. CASE Job # {}
    <3>1. PICK j \in Job : TRUE
      BY <2>3, Zenon
    <3>. QED BY <2>1, <3>1, ContractStep, Zenon
  <2>. QED BY <2>2, <2>3, Zenon
<1>. QED
  BY <1>1, AcceptStep, StartStep, AdvanceStep, ClaimStep, RowSteps, Zenon DEF AllInv

\* As long as no FAILED block is completed, every step of the pipeline is a step of
\* the contract or none, for any number of jobs, blocks, handlers, duplicate
\* deliveries, failures and crashes.
THEOREM ContractFollowed == Spec => FollowsContract
<1>1. AllInv /\ AllInv' /\ [Next]_vars =>
        [(\A j \in Job : reclaimed'[j] = {}) => Contract!Next]_(Contract!cvars)
  BY EveryStep, Zenon DEF NoneReclaimed
<1>2. Spec => []AllInv
  BY TypeCorrect, BarrierHolds, GateHolds, AssetHolds, PTL DEF AllInv
<1>. QED BY <1>1, <1>2, PTL DEF Spec, FollowsContract

\* The refinement itself: a behaviour in which no dead-lettered block is completed
\* later is a behaviour of the contract.
THEOREM ContractImplemented == Spec /\ []NoneReclaimed => ImplementsContract
<1>1. Init => Contract!Init
  <2>. SUFFICES ASSUME Init PROVE Contract!Init
    BY Zenon
  <2>1. \A j \in Job : status[j] = "ABSENT"
    BY Zenon DEF Init
  <2>2. phaseBar = [j \in Job |-> "none"]
    BY <2>1, PhaseAt DEF phaseBar
  <2>3. \A j \in Job : status[j] \notin Seeded /\ status[j] # "COMPLETED"
    BY <2>1, Zenon DEF Seeded
  <2>. QED BY <2>2, <2>3, Zenon DEF Contract!Init, InStatus
<1>2. AllInv /\ AllInv' /\ [Next]_vars /\ NoneReclaimed' =>
        [Contract!Next]_(Contract!cvars)
  BY EveryStep, Zenon
<1>3. Spec => []AllInv
  BY TypeCorrect, BarrierHolds, GateHolds, AssetHolds, PTL DEF AllInv
<1>. QED BY <1>1, <1>2, <1>3, PTL DEF Spec, ImplementsContract, Contract!Spec
=============================================================================
