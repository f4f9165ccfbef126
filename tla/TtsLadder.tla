----------------------------- MODULE TtsLadder ------------------------------
(***************************************************************************)
(* TtsCache in seconds: the in-flight lock's TTL, the waits of             *)
(* wait_for_cache, the delays of the retry queues, and how long the        *)
(* handler that won the lock takes.  Time passes one second at a time and  *)
(* never past the end of a wait, of the winner's time or of a key.  What   *)
(* takes time is waiting for a slot, synthesising, waiting for the cache   *)
(* and the queues; a message may first arrive at any time, and the other   *)
(* steps, polls included, are closer together than a second.               *)
(***************************************************************************)
EXTENDS TtsCache, Sequences

CONSTANTS
  Scenario  \* the scenarios, one for each behaviour: the messages that are sent; the
            \* lock's TTL, the length of wait_for_cache and the ladder's delays;
            \* how long a winner may take; bounds on crashes, faults and losses

ASSUME LadderAssumption ==
  \A s \in Scenario :
    /\ s.sent \subseteq Delivery
    /\ {s.ttl, s.wait} \subseteq Nat \ {0} /\ s.patience \in Nat
    /\ s.delays \in Seq(Nat) /\ s.delays # <<>>
    /\ {s.crashes, s.faults, s.losses} \subseteq Nat

VARIABLES
  ttl,      \* ttl[c]: seconds the lock of c has left
  timer,    \* timer[d]: seconds left of the delay, the wait or the synthesis of d
  arrived,  \* the messages that have been delivered before
  sc,       \* the scenario of this behaviour
  met       \* history: met[d] is ttl[c] when d first lost the race for its lock

ladder == <<ttl, timer, arrived, sc, met>>
laddervars == <<ttsvars, ladder>>

LadderTypeOK ==
  /\ ttl \in [Content -> Nat]
  /\ timer \in [Delivery -> Nat]
  /\ arrived \subseteq Delivery
  /\ met \in [Delivery -> Nat]
  /\ sc \in Scenario

LadderInit ==
  /\ TtsInit
  /\ ttl = [c \in Content |-> 0]
  /\ timer = [d \in Delivery |-> 0]
  /\ arrived = {}
  /\ sc \in Scenario
  /\ met = [d \in Delivery |-> 0]

Permitted ==
  /\ crashes' <= sc.crashes
  /\ faults' <= sc.faults
  /\ losses' <= sc.losses
  /\ UNCHANGED sc

\* retry_delays[min(count - 1, len(retry_delays) - 1)]
Delay(s, count) ==
  s.delays[IF count < Len(s.delays) THEN count ELSE Len(s.delays)]

\* The timer a step of d leaves it with.
Timer(d) ==
  CASE pc'[d] = "queued" /\ retry'[d] # retry[d] -> Delay(sc, retry'[d])
    [] pc'[d] = "wait" -> sc.wait
    [] pc'[d] = "slot" -> sc.patience
    [] pc'[d] = "synth" -> timer[d]
    [] OTHER -> 0

\* Mutation: a failed attempt at the lock sets its EX anew.
Timed_Renew(d) ==
  /\ timer' = [timer EXCEPT ![d] = Timer(d)]
  /\ ttl' = [c \in Content |-> CASE c \notin lock' -> 0
                                 [] c \in lock /\ ~(c = Text[d] /\ pc[d] = "lock")
                                      -> ttl[c]
                                 [] OTHER -> sc.ttl]
  /\ Permitted

\* A lock that a step takes is SET with EX.
Timed(d) ==
  /\ timer' = [timer EXCEPT ![d] = Timer(d)]
  /\ ttl' = [c \in Content |-> CASE c \notin lock' -> 0
                                 [] c \in lock -> ttl[c]
                                 [] OTHER -> sc.ttl]
  /\ Permitted

\* The ladder's delay is over before the message is delivered again.
TimedBegin(d) ==
  /\ d \in sc.sent
  /\ timer[d] = 0
  /\ Begin(d)
  /\ Timed(d)
  /\ arrived' = arrived \cup {d}
  /\ UNCHANGED met

TimedAcquire(d) ==
  /\ acquire_inflight(d)
  /\ Timed(d)
  /\ met' = IF Text[d] \in lock /\ retry[d] = 0
              THEN [met EXCEPT ![d] = ttl[Text[d]]] ELSE met
  /\ UNCHANGED arrived

\* wait_for_cache returns None when its time is over.
TimedWaitTimeout(d) ==
  /\ timer[d] = 0
  /\ WaitTimeout(d)
  /\ Timed(d)
  /\ UNCHANGED <<arrived, met>>

\* The steps that wait for nothing but a slot.
TimedStep(d) ==
  /\ \/ cache_get(d) \/ AcquireFails(d) \/ Synthesise(d) \/ Poll(d) \/ Claim(d)
     \/ Raises(d) \/ Crash(d)
  /\ Timed(d)
  /\ UNCHANGED <<arrived, met>>

TimedLockExpires(c) == ttl[c] = 0 /\ LockExpires(c) /\ UNCHANGED ladder

TimedReturn == ReturnToken /\ UNCHANGED ladder

TimedLoss ==
  /\ Wipe \/ \E c \in Content : CacheExpires(c)
  /\ ttl' = [c \in Content |-> IF c \in lock' THEN ttl[c] ELSE 0]
  /\ Permitted
  /\ UNCHANGED <<timer, arrived, met>>

\* The steps that may take a while.
Lasting == {"slot", "synth", "wait"}

\* What has to happen before time goes on: a wait or the winner's time is over, a
\* key expires, a step that takes no time, or a message that is back in its queue
\* and for which there is room.
Due ==
  \/ \E d \in Delivery :
       \/ pc[d] \in Lasting /\ timer[d] = 0
       \/ pc[d] = "wait" /\ Text[d] \in cache
       \/ pc[d] \in Active \ Lasting
       \/ pc[d] = "queued" /\ d \in arrived /\ timer[d] = 0 /\ Room
  \/ \E c \in lock : ttl[c] = 0

Less(n) == IF n > 0 THEN n - 1 ELSE 0

Tick ==
  /\ ~Due
  /\ \/ \E d \in Delivery : timer[d] > 0
     \/ \E c \in Content : ttl[c] > 0
  /\ timer' = [d \in Delivery |-> Less(timer[d])]
  /\ ttl' = [c \in Content |-> Less(ttl[c])]
  /\ UNCHANGED <<ttsvars, arrived, sc, met>>

LadderNext ==
  \/ \E d \in Delivery : \/ TimedBegin(d) \/ TimedAcquire(d)
                         \/ TimedWaitTimeout(d) \/ TimedStep(d)
  \/ \E c \in Content : TimedLockExpires(c)
  \/ TimedReturn
  \/ TimedLoss
  \/ Tick

LadderSpec == LadderInit /\ [][LadderNext]_laddervars

\* Fairness: as long as something can happen, something does: time passes, keys
\* expire, tokens are returned, queued messages are delivered and live handlers
\* run.  Nothing more is needed, since every attempt, wait and delay is finite.
LadderFairSpec == LadderSpec /\ WF_laddervars(LadderNext)

-----------------------------------------------------------------------------
(* Properties.                                                             *)

Dead == {d \in Delivery : pc[d] = "dead"}

\* How much of the ladder of s is behind a message at its n-th retry.
Climb(s) ==
  LET climb[n \in Nat] == IF n = 0 THEN 0 ELSE climb[n - 1] + s.wait + Delay(s, n)
  IN  climb

\* What INFLIGHT_TTL, the timeout of wait_for_cache, RETRY_DELAYS and MAX_RETRIES
\* are chosen for: the last attempt of a waiter ends after the lock it has met.
LongLadder == \A s \in Scenario : s.ttl < Climb(s)[MAX_RETRIES] + s.wait

\* The ladder is longer than the lock: if nothing crashes, raises or is lost, no
\* handler that waits for a winner is dead-lettered, however long the winner takes
\* up to the TTL of its lock (wait_for_cache, RETRY_DELAYS).
WaitersOutlastWinner ==
  /\ crashes = 0 /\ faults = 0 /\ losses = 0
  /\ sc.patience <= sc.ttl
  => Dead = {}

\* "The TTL bounds the lock so a crashed synthesiser cannot wedge the burst forever"
\* (acquire_inflight): a message is dead-lettered because of the lock that one crash
\* has left behind only if it met that lock with at least as much of its TTL left as
\* the ladder takes to its last attempt.
OldLockHarmless ==
  crashes <= 1 /\ faults = 0 /\ losses = 0 /\ sc.patience < sc.wait =>
    \A d \in Dead : met[d] >= Climb(sc)[MAX_RETRIES]

\* Every message is settled: claimed or dead-lettered, whatever of the scenario
\* crashes or raises, as long as the tokens of crashed handlers come back (ReturnToken).
Settled == <>(\A d \in sc.sent : pc[d] \in {"done", "dead"})

\* "a worker crash loses no message ... The job must still converge to COMPLETED with
\* its full asset" (tests/e2e/test_crash_recovery.py): no block is dead-lettered.
FullAsset == Dead = {}
=============================================================================
