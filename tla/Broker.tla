------------------------------- MODULE Broker -------------------------------
(***************************************************************************)
(* The RabbitMQ topology of core/infra/broker.py and the three events of   *)
(* core/domain/events.py.                                                  *)
(*                                                                         *)
(* A message is an event (pointers only: the job, and for TtsRequested the *)
(* block index that task_id = "<job>-<i>" carries), the queue family it is *)
(* in, and its x-retry-count header.  The live queue of an event (q.parse, *)
(* q.tts or q.stitch) is a function of its type, so "live" stands for all  *)
(* three and "retry" for the delay queues q.retry.<live>.<delay>s, whose   *)
(* delay is a function of the retry count.  event_id is left out: no       *)
(* consumer reads it.                                                      *)
(*                                                                         *)
(* The broker's content is a bag: a function from messages to the number   *)
(* of copies.  No order is assumed between the messages of a queue, which  *)
(* covers redelivery and several consumers.                                *)
(***************************************************************************)
EXTENDS Integers

CONSTANTS
  Job,          \* the job ids
  MAX_BLOCKS,   \* cap on the blocks of one job (Settings.MAX_BLOCKS)
  MAX_RETRIES   \* retries before the dead-letter queue (Settings.MAX_RETRIES)

ASSUME BrokerAssumption ==
  /\ MAX_BLOCKS \in Nat
  /\ MAX_RETRIES \in Nat

Index == 0 .. (MAX_BLOCKS - 1)
NoTask == -1

\* JobCreated and StitchReady have the same fields; only TtsRequested has task_id.
JobCreated(j) == [type |-> "JobCreated", job |-> j, task |-> NoTask]
TtsRequested(j, i) == [type |-> "TtsRequested", job |-> j, task |-> i]
StitchReady(j) == [type |-> "StitchReady", job |-> j, task |-> NoTask]

Event ==
  [type : {"JobCreated", "StitchReady"}, job : Job, task : {NoTask}]
    \cup [type : {"TtsRequested"}, job : Job, task : Index]

\* Every message the three publishing paths can create.
Message ==
  [event : Event, at : {"live"}, retry : 0 .. MAX_RETRIES]
    \cup [event : Event, at : {"retry"}, retry : 1 .. MAX_RETRIES]
    \cup [event : Event, at : {"dlq"}, retry : {MAX_RETRIES + 1}]

EmptyQueues == [m \in Message |-> 0]

\* publish: a fresh persistent message without the retry header.
Fresh(e) == [event |-> e, at |-> "live", retry |-> 0]

\* Mutation: the count is capped, so the ladder has no end.
route_retry_Forever(m) ==
  [event |-> m.event,
   at    |-> "retry",
   retry |-> IF m.retry < MAX_RETRIES THEN m.retry + 1 ELSE MAX_RETRIES]

\* route_retry_or_dlq: the copy that replaces a failing message.  Every
\* exception the handlers raise is transient (PoisonError is never raised), so
\* max_retries is always MAX_RETRIES.
route_retry_or_dlq(m) ==
  LET count == m.retry + 1
  IN  [event |-> m.event,
       at    |-> IF count > MAX_RETRIES THEN "dlq" ELSE "retry",
       retry |-> count]

\* The delay queue's TTL runs out: it dead-letters to the live queue and the
\* header stays.
Expired(m) == [m EXCEPT !.at = "live"]

\* One copy more, one copy fewer.
Put(q, m) == [q EXCEPT ![m] = @ + 1]
Take(q, m) == [q EXCEPT ![m] = @ - 1]
=============================================================================
