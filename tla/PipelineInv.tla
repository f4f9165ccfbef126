---------------------------- MODULE PipelineInv -----------------------------
(***************************************************************************)
(* The inductive strengthenings of Pipeline's invariants.                  *)
(***************************************************************************)
EXTENDS Pipeline

\* Every handler's message fits the step it is at, and a parse handler's loop
\* variable stays within its blocks.
HandlerOK ==
  \A h \in Handler :
    /\ pc[h] = "idle" <=> held[h] = NoMsg
    /\ pc[h] \in WorkStep \cup {"route"} => held[h].at = "live"
    /\ pc[h] \in ParseStep => held[h].event.type = "JobCreated"
    /\ pc[h] \in TtsStep => held[h].event.type = "TtsRequested"
    /\ pc[h] \in StitchStep => held[h].event.type = "StitchReady"
    /\ pc[h] \in {"idle", "parse:load", "parse:begin", "parse:advance"}
         => cur[h] = 0
    /\ pc[h] = "parse:publish" => cur[h] = 0 \/ cur[h] < Count(Jb(h))

TypeInv == TypeOK /\ HandlerOK

\* What the rows of a job look like: none before begin_parse, all of them once
\* it has run, and no row beyond its blocks; only a DONE block is reclaimed.
RowOK(j) ==
  /\ status[j] \in {"ABSENT", "PENDING"} =>
       /\ reclaimed[j] = {}
       /\ \A i \in Index : task[j][i] = "ABSENT"
  /\ status[j] \in Seeded => \A i \in Blocks(j) : task[j][i] # "ABSENT"
  /\ \A i \in Index : task[j][i] # "ABSENT" => i \in Blocks(j)
  /\ \A i \in reclaimed[j] : task[j][i] = "DONE"

RowsOK == \A j \in Job : RowOK(j)

\* The row is only inserted by the request's commit.
RequestOK ==
  \A j \in Job : gw[j] \in {"new", "stored"} => status[j] = "ABSENT"

\* A parse handler that has loaded the job has found its row.
LoadedOK ==
  \A h \in Handler : pc[h] = "parse:begin" => status[Jb(h)] # "ABSENT"

BarrierInv == RowsOK /\ RequestOK /\ LoadedOK /\ BarrierCount

\* The fan-in counter of j has been seeded and has reached zero, or the job has
\* FAILED.
Crossed(j) ==
  \/ status[j] = "FAILED"
  \/ status[j] \in Seeded /\ pending[j] <= 0

\* The job has left PENDING, so its task rows have been inserted.
Started(j) == status[j] \notin {"ABSENT", "PENDING"}

\* StitchReady is published, and about to be published, only for a crossed job;
\* a parse handler past begin_parse works for a started job, a tts handler past
\* _load_block_text for an existing row.
HandlerGate(h) ==
  /\ held[h] # NoMsg /\ held[h].event.type = "StitchReady" => Crossed(Jb(h))
  /\ pc[h] \in {"tts:emit", "dlq:emit"} => Crossed(Jb(h))
  /\ pc[h] \in {"parse:advance", "parse:publish"} => Started(Jb(h))
  /\ pc[h] \in {"tts:claim", "tts:reread"} => task[Jb(h)][Tk(h)] # "ABSENT"

QueueGate ==
  \A m \in Message : queue[m] > 0 /\ m.event.type = "StitchReady"
                       => Crossed(m.event.job)

StatusGate ==
  \A j \in Job : status[j] \in {"STITCHING", "COMPLETED"} => pending[j] <= 0

GateInv == StatusGate /\ QueueGate /\ \A h \in Handler : HandlerGate(h)

Done(j) == {i \in Blocks(j) : task[j][i] = "DONE"}

\* The bytes a stitch handler works with, and the asset it finalises, are the
\* DONE blocks of the job.
AssetInv ==
  \A j \in Job : status[j] \in Seeded /\ reclaimed[j] = {} =>
    /\ \A h \in Handler :
         pc[h] \in {"stitch:advance", "stitch:put", "stitch:finalize"}
           /\ Jb(h) = j => chunks[h] = Done(j)
    /\ \A h \in Handler : pc[h] = "stitch:finalize" /\ Jb(h) = j
                            => asset[j] = Done(j)
    /\ status[j] = "COMPLETED" => asset[j] = Done(j)

\* One handler at most is between its won finalize_job and its webhook.
NotifyInv ==
  /\ \A j \in Job : status[j] # "COMPLETED" => notified[j] = 0
  /\ \A j \in Job : notified[j] <= 1
  /\ \A h \in Handler : pc[h] = "stitch:notify"
       => /\ status[Jb(h)] = "COMPLETED"
          /\ notified[Jb(h)] = 0
          /\ \A g \in Handler : pc[g] = "stitch:notify" /\ Jb(g) = Jb(h) => g = h

\* Where the publish of a retry copy does not fail.
RoutingHolds == "route" \notin Faulty

\* Where no step of the tts handler raises, so that no request is dead-lettered.
Smooth == Faulty \cap TtsStep = {}

\* Where no handler dies and no emit of a StitchReady raises.
Steady == MaxCrashes = 0 /\ Faulty \cap {"tts:emit", "dlq:emit"} = {}

Reliable == RoutingHolds /\ (Smooth \/ Steady)

\* begin_parse and the advance to GENERATING are behind the job.
Advanced(j) == status[j] \notin {"ABSENT", "PENDING", "PARSING"}

\* Requests and StitchReady exist only for advanced jobs, and the row of a request
\* exists.
EventOK(m) ==
  /\ m.event.type # "JobCreated" => Advanced(m.event.job)
  /\ m.event.type = "TtsRequested" =>
       /\ m.event.task \in Blocks(m.event.job)
       /\ task[m.event.job][m.event.task] # "ABSENT"

\* Block i of j is resolved or will be.
Sent(j, i) == i \in Resolved(j) \/ Live(TtsRequested(j, i))

\* What a handler has established for its job at each step.
ProgressOK(h) ==
  /\ pc[h] # "idle" => EventOK(held[h])
  /\ pc[h] \in {"parse:advance", "parse:publish"} =>
       \A i \in Blocks(Jb(h)) : task[Jb(h)][i] # "ABSENT"
  /\ pc[h] = "parse:publish" => /\ Advanced(Jb(h))
                                /\ \A i \in Blocks(Jb(h)) : i < cur[h] => Sent(Jb(h), i)
  /\ pc[h] \in {"tts:reread", "tts:emit"} => task[Jb(h)][Tk(h)] = "DONE"
  /\ pc[h] = "dlq:emit" => /\ held[h].event.type = "TtsRequested"
                           /\ task[Jb(h)][Tk(h)] \in {"DONE", "FAILED"}
  /\ pc[h] \in {"stitch:put", "stitch:finalize"} => status[Jb(h)] # "GENERATING"
  /\ pc[h] = "stitch:notify" => status[Jb(h)] = "COMPLETED"

\* Why a job in progress moves on: while it is PARSING no block is resolved; when it
\* is GENERATING the parse is to be repeated or everything has been sent.
JobDriven(j) ==
  /\ status[j] = "PARSING" => Live(JobCreated(j)) /\ Resolved(j) = {}
  /\ status[j] = "GENERATING" =>
       \/ Live(JobCreated(j))
       \/ Blocks(j) = {} /\ Live(StitchReady(j))
       \/ Blocks(j) # {} /\ \A i \in Blocks(j) : Sent(j, i)
  /\ status[j] = "STITCHING" => Live(StitchReady(j))

WorkInv ==
  /\ RoutingHolds
  /\ \A j \in Job : JobDriven(j)
  /\ \A m \in Message : queue[m] > 0 => EventOK(m)
  /\ \A h \in Handler : ProgressOK(h)

\* A request is neither on the ladder nor dead-lettered.
Unrouted(m) == m.event.type = "TtsRequested" => m.at = "live"

\* Where no step of the tts handler raises, no block is given up.
SmoothHandler(h) ==
  /\ pc[h] # "idle" => Unrouted(held[h])
  /\ pc[h] = "route" => held[h].event.type # "TtsRequested"
  /\ pc[h] \in DlqStep => pc[h] = "dlq:resolve" /\ held[h].at = "dlq"

SmoothInv ==
  Smooth =>
    /\ \A j \in Job : reclaimed[j] = {} /\ \A i \in Index : task[j][i] # "FAILED"
    /\ \A m \in Message : queue[m] > 0 => Unrouted(m)
    /\ \A h \in Handler : SmoothHandler(h)

\* Some handler has counted the last block of j and is about to say so.
Emitting(j) == \E h \in Handler : pc[h] \in {"tts:emit", "dlq:emit"} /\ Jb(h) = j

\* Why StitchReady is published.  Where no request is dead-lettered, the request that
\* resolved the last block is not finished before StitchReady is out, and if its
\* handler dies another one rereads the counter.  Where no handler dies in between,
\* the one that brought the counter to zero publishes it, even if blocks have been
\* counted twice and are still open.
LastKept(j) ==
  status[j] = "GENERATING" /\ Blocks(j) # {} =>
    /\ Smooth /\ Resolved(j) = Blocks(j) =>
         \/ Live(StitchReady(j))
         \/ \E i \in Blocks(j) : Live(TtsRequested(j, i))
    /\ Steady /\ pending[j] <= 0 => Live(StitchReady(j)) \/ Emitting(j)

LastInv == \A j \in Job : LastKept(j)

DrivenInv == WorkInv /\ SmoothInv /\ LastInv
=============================================================================
