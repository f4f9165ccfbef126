------------------------------ MODULE TtsCache ------------------------------
(***************************************************************************)
(* How a tts handler gets the audio of its block: the content cache and    *)
(* the in-flight lock of core/infra/redis.py, _synthesize of               *)
(* worker/handlers/tts.py, the object store and the retry ladder.  This is *)
(* the inside of the one step TtsAudio of Pipeline.                        *)
(*                                                                         *)
(* A Delivery is one TtsRequested message; several may be for identical    *)
(* text, which is one Content (one content_hash).  The value of the lock   *)
(* (the owner) is left out: no command reads it.  The semaphore's pool is  *)
(* two numbers here: tokens to pop, and tokens that the reaper or the      *)
(* reseeder has yet to return (module Semaphore).  There is no time: a key *)
(* may be gone at any moment (TtsLadder adds the durations).               *)
(***************************************************************************)
EXTENDS Integers, FiniteSets

CONSTANTS
  Delivery,     \* the TtsRequested messages
  Content,      \* the distinct block texts, by content_hash
  Text,         \* [Delivery -> Content]: the text of the message's block
  Slots,        \* tokens of the semaphore
  Prefetch,     \* TTS deliveries the workers hold at once
  MAX_RETRIES,  \* retries before the dead-letter queue
  MaxCrashes,   \* bound: handlers lost with their worker
  MaxFaults,    \* bound: commands that raise
  MaxLosses     \* bound: cache entries or all keys lost

ASSUME TtsAssumption ==
  /\ IsFiniteSet(Delivery)
  /\ Text \in [Delivery -> Content]
  /\ {Slots, Prefetch, MAX_RETRIES, MaxCrashes, MaxFaults, MaxLosses}
       \subseteq Nat

VARIABLES
  pc,       \* pc[d]: the call the handler of d is about to make
  retry,    \* retry[d]: the x-retry-count header of d
  cache,    \* the contents c whose tts:cache:<c> exists
  lock,     \* the contents c whose tts:inflight:<c> exists
  object,   \* the contents c whose tts/<c>.wav is stored
  free,     \* tokens in tts:slots
  orphans,  \* tokens to be returned by the reaper or the reseeder
  passed,   \* history: how often the lock of c ended under a live synthesiser
  crashes, faults, losses

keys == <<cache, lock>>
pool == <<free, orphans>>
bounds == <<crashes, faults, losses>>
ttsvars == <<pc, retry, keys, object, pool, passed, bounds>>

\* Inside slot(); between acquire_inflight and release_inflight.  The steps with
\* "!" are those of an exception on its way out.
InSlot == {"synth", "exit", "exit!"}
Synthesising == InSlot \cup {"slot", "set", "unlock", "unlock!"}
Active == Synthesising \cup {"get", "lock", "wait", "claim"}

Synths(c) == {d \in Delivery : Text[d] = c /\ pc[d] \in Synthesising}

\* The type of every variable.
TtsTypeOK ==
  /\ pc \in [Delivery -> Active \cup {"queued", "done", "dead"}]
  /\ retry \in [Delivery -> Nat]
  /\ cache \subseteq Content
  /\ lock \subseteq Content
  /\ object \subseteq Content
  /\ {free, orphans, crashes, faults, losses} \subseteq Nat
  /\ passed \in [Content -> Nat]

TtsInit ==
  /\ pc = [d \in Delivery |-> "queued"]
  /\ retry = [d \in Delivery |-> 0]
  /\ cache = {} /\ lock = {} /\ object = {}
  /\ free = Slots /\ orphans = 0
  /\ passed = [c \in Content |-> 0]
  /\ crashes = 0 /\ faults = 0 /\ losses = 0

-----------------------------------------------------------------------------
Goto(d, from, to) ==
  /\ pc[d] = from
  /\ pc' = [pc EXCEPT ![d] = to]

\* Mutation: the last retry is not made.
Routed_Early(d, from) ==
  /\ Goto(d, from, IF retry[d] + 1 >= MAX_RETRIES THEN "dead" ELSE "queued")
  /\ retry' = [retry EXCEPT ![d] = @ + 1]

\* The handler raises: ack_last routes the message to the ladder, or to the
\* dead-letter queue.
Routed(d, from) ==
  /\ Goto(d, from, IF retry[d] + 1 > MAX_RETRIES THEN "dead" ELSE "queued")
  /\ retry' = [retry EXCEPT ![d] = @ + 1]

Fault == faults < MaxFaults /\ faults' = faults + 1

\* prefetch_for(q.tts): the broker sends no more unacknowledged messages.
Room == Cardinality({d \in Delivery : pc[d] \in Active}) < Prefetch

\* A consumer with room takes the message; _load_block_text finds the text.
Begin(d) ==
  /\ Room
  /\ Goto(d, "queued", "get")
  /\ UNCHANGED <<retry, keys, object, pool, passed, bounds>>

\* A read or the claim's transaction raises.
Raises(d) ==
  /\ \E step \in {"get", "wait", "claim"} : Routed(d, step)
  /\ Fault
  /\ UNCHANGED <<keys, object, pool, passed, crashes, losses>>

cache_get(d) ==
  /\ Goto(d, "get", IF Text[d] \in cache THEN "claim" ELSE "lock")
  /\ UNCHANGED <<retry, keys, object, pool, passed, bounds>>

\* Mutation: SET without NX.
acquire_inflight_Always(d) ==
  /\ Goto(d, "lock", "slot")
  /\ lock' = lock \cup {Text[d]}
  /\ UNCHANGED <<retry, cache, object, pool, passed, bounds>>

\* SET NX: the winner synthesises, the others wait.
acquire_inflight(d) ==
  /\ Goto(d, "lock", IF Text[d] \in lock THEN "wait" ELSE "slot")
  /\ lock' = lock \cup {Text[d]}
  /\ UNCHANGED <<retry, cache, object, pool, passed, bounds>>

\* SET raises, executed or not, before the try whose finally would release it.
AcquireFails(d) ==
  /\ Routed(d, "lock")
  /\ Fault
  /\ lock' \in {lock, lock \cup {Text[d]}}
  /\ UNCHANGED <<cache, object, pool, passed, crashes, losses>>

\* slot() is entered with a token.
EnterSlot(d) ==
  /\ Goto(d, "slot", "synth")
  /\ free > 0
  /\ free' = free - 1
  /\ UNCHANGED <<retry, keys, object, orphans, passed, bounds>>

\* acquire or release of the semaphore raises: a token it had taken stays out for
\* the reaper, one that it had returned is back.
SlotFails(d) ==
  /\ Fault
  /\ \/ Goto(d, "slot", "unlock!") /\ UNCHANGED pool
     \/ /\ Goto(d, "slot", "unlock!")
        /\ free > 0 /\ free' = free - 1 /\ orphans' = orphans + 1
     \/ /\ \E step \in {"exit", "exit!"} : Goto(d, step, "unlock!")
        /\ \/ free' = free + 1 /\ UNCHANGED orphans
           \/ orphans' = orphans + 1 /\ UNCHANGED free
  /\ UNCHANGED <<retry, keys, object, passed, crashes, losses>>

\* tts_fake_audio, then put_bytes(tts/<hash>.wav).
StoreAudio(d) ==
  /\ Goto(d, "synth", "exit")
  /\ object' = object \cup {Text[d]}
  /\ UNCHANGED <<retry, keys, pool, passed, bounds>>

\* Mutation: the upload's exception is swallowed.
StoreFails_Swallowed(d) ==
  /\ Goto(d, "synth", "exit")
  /\ Fault
  /\ UNCHANGED <<retry, keys, object, pool, passed, crashes, losses>>

\* put_bytes raises; the object may be stored nevertheless.
StoreFails(d) ==
  /\ Goto(d, "synth", "exit!")
  /\ Fault
  /\ object' \in {object, object \cup {Text[d]}}
  /\ UNCHANGED <<retry, keys, pool, passed, crashes, losses>>

\* Mutation: no finally; an exception leaves the slot without returning it.
ExitSlot_Leak(d) ==
  /\ \/ Goto(d, "exit", "set") /\ free' = free + 1
     \/ Goto(d, "exit!", "unlock!") /\ UNCHANGED free
  /\ UNCHANGED <<retry, keys, object, orphans, passed, bounds>>

\* The token is returned, also when an exception leaves the slot.
ExitSlot(d) ==
  /\ Goto(d, "exit", "set") \/ Goto(d, "exit!", "unlock!")
  /\ free' = free + 1
  /\ UNCHANGED <<retry, keys, object, orphans, passed, bounds>>

cache_set(d) ==
  /\ Goto(d, "set", "unlock")
  /\ cache' = cache \cup {Text[d]}
  /\ UNCHANGED <<retry, lock, object, pool, passed, bounds>>

\* SET raises; it may have been executed.
CacheSetFails(d) ==
  /\ Goto(d, "set", "unlock!")
  /\ Fault
  /\ cache' \in {cache, cache \cup {Text[d]}}
  /\ UNCHANGED <<retry, lock, object, pool, passed, crashes, losses>>

\* The finally of _synthesize: DEL, whoever owns the lock by now.
release_inflight(d) ==
  /\ \/ Goto(d, "unlock", "claim") /\ UNCHANGED retry
     \/ Routed(d, "unlock!")
  /\ lock' = lock \ {Text[d]}
  /\ UNCHANGED <<cache, object, pool, passed, bounds>>

\* DEL raises, executed or not: so does the handler.
ReleaseFails(d) ==
  /\ Routed(d, "unlock") \/ Routed(d, "unlock!")
  /\ Fault
  /\ lock' \in {lock, lock \ {Text[d]}}
  /\ UNCHANGED <<cache, object, pool, passed, crashes, losses>>

\* wait_for_cache: a poll finds the winner's entry.
Poll(d) ==
  /\ Goto(d, "wait", "claim")
  /\ Text[d] \in cache
  /\ UNCHANGED <<retry, keys, object, pool, passed, bounds>>

\* The last poll has found nothing: TransientError.
WaitTimeout(d) ==
  /\ Routed(d, "wait")
  /\ UNCHANGED <<keys, object, pool, passed, bounds>>

\* complete_task_and_decrement records the audio key.
Claim(d) ==
  /\ Goto(d, "claim", "done")
  /\ UNCHANGED <<retry, keys, object, pool, passed, bounds>>

-----------------------------------------------------------------------------
(* The environment.                                                        *)

\* The worker of d dies: the broker delivers d again, the lock stays and a token
\* waits for the reaper.
Crash(d) ==
  /\ pc[d] \in Active
  /\ Goto(d, pc[d], "queued")
  /\ crashes < MaxCrashes
  /\ crashes' = crashes + 1
  /\ orphans' = IF pc[d] \in InSlot THEN orphans + 1 ELSE orphans
  /\ UNCHANGED <<retry, keys, object, free, passed, faults, losses>>

\* run_reaper or run_reseeder returns a token, one that no leaked heartbeat keeps
\* leased (Semaphore: Served).
ReturnToken ==
  /\ orphans > 0
  /\ orphans' = orphans - 1
  /\ free' = free + 1
  /\ UNCHANGED <<pc, retry, keys, object, passed, bounds>>

\* The locks of C end; passed counts those with a synthesiser under them.
Unlocked(C) ==
  /\ lock' = lock \ C
  /\ passed' = [c \in Content |-> IF c \in C \cap lock /\ Synths(c) # {}
                                    THEN passed[c] + 1 ELSE passed[c]]

\* The lock's EX runs out.
LockExpires(c) ==
  /\ c \in lock
  /\ Unlocked({c})
  /\ UNCHANGED <<pc, retry, cache, object, pool, bounds>>

Loss == losses < MaxLosses /\ losses' = losses + 1

\* The entry's EX runs out.
CacheExpires(c) ==
  /\ c \in cache
  /\ cache' = cache \ {c}
  /\ Loss
  /\ UNCHANGED <<pc, retry, lock, object, pool, passed, crashes, faults>>

\* Redis loses every key; run_reseeder will seed the pool again.
Wipe ==
  /\ Loss
  /\ cache' = {}
  /\ Unlocked(Content)
  /\ free' = 0
  /\ orphans' = Slots
  /\ UNCHANGED <<pc, retry, object, crashes, faults>>

\* _synthesize of the handler that won the lock, and what of it can raise.
Synthesise(d) ==
  \/ EnterSlot(d) \/ StoreAudio(d) \/ ExitSlot(d) \/ cache_set(d)
  \/ release_inflight(d)
  \/ SlotFails(d) \/ StoreFails(d) \/ CacheSetFails(d) \/ ReleaseFails(d)

TtsNext ==
  \/ \E d \in Delivery :
       \/ Begin(d) \/ cache_get(d) \/ acquire_inflight(d) \/ AcquireFails(d)
       \/ Synthesise(d) \/ Poll(d) \/ WaitTimeout(d) \/ Claim(d)
       \/ Raises(d) \/ Crash(d)
  \/ \E c \in Content : LockExpires(c) \/ CacheExpires(c)
  \/ ReturnToken
  \/ Wipe

TtsSpec == TtsInit /\ [][TtsNext]_ttsvars

-----------------------------------------------------------------------------
(* Properties.                                                             *)

\* A cache hit never returns a dangling key (storage.py): whatever is cached, and
\* every key a handler goes on to record, has its object in the store, whichever
\* uploads and SETs fail.
HitHasAudio ==
  /\ cache \subseteq object
  /\ \A d \in Delivery : pc[d] \in {"claim", "done"} => Text[d] \in object

\* "Try to become the single synthesiser" (acquire_inflight): identical text is
\* synthesised by at most one handler at a time, plus one for each time its lock
\* ended under a live synthesiser.  A handler that outlived its lock deletes the
\* next one's, and yet one lost lock lets in only one handler more.
SingleFlight ==
  \A c \in Content :
    Cardinality(Synths(c)) <= (IF c \in lock THEN 1 ELSE 0) + passed[c]
=============================================================================
