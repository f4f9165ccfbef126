---------------------------- MODULE LadderProofs ----------------------------
(***************************************************************************)
(* The in-flight lock against the retry ladder, for any durations, any     *)
(* number of messages and any retry budget: no waiter is dead-lettered     *)
(* while a winner takes less than the ladder, and the lock that one crash  *)
(* leaves behind harms only a message that has met it early.               *)
(***************************************************************************)
EXTENDS TtsProofs

-----------------------------------------------------------------------------
(* Waiting for a live winner.                                              *)

\* The audio that d waits for is cached, or comes from a synthesiser that has spent
\* n seconds, less what is left of d's own delay or wait.
Coming(d, n) ==
  \/ Text[d] \in cache
  \/ \E s \in Synths(Text[d]) :
       pc[s] \in Timing => timer[s] + n <= sc.patience + timer[d]

\* Nothing goes wrong, and a winner takes less than the ladder.
Patient ==
  /\ Calm /\ crashes = 0
  /\ sc.patience < Climb(sc)[MAX_RETRIES] + sc.wait

\* At its k-th retry a message has seen its winner work for the k waits and delays
\* behind it, so at the last one the winner is done before the wait is over.
Outlasts(d) ==
  /\ pc[d] # "dead"
  /\ pc[d] \in {"queued", "get", "lock"} /\ retry[d] > 0
       => Coming(d, Climb(sc)[retry[d]])
  /\ pc[d] = "wait" =>
       /\ Coming(d, Climb(sc)[retry[d]] + sc.wait)
       /\ sc.patience < Climb(sc)[retry[d]] + sc.wait => timer[d] > 0

OutlastInv == Patient => \A d \in Delivery : Outlasts(d)

\* What d waits for keeps coming, as d's time goes by.
LEMMA ComingKept ==
  ASSUME LadderTypeOK, LadderTypeOK', NEW d \in Delivery, NEW n \in Nat, NEW m \in Nat,
         Coming(d, n), GoOn, KeysKept, m + timer[d] = n + timer'[d]
  PROVE  Coming(d, m)'
<1>1. cache \subseteq cache' /\ sc' = sc
  BY Zenon DEF KeysKept
<1>2. CASE Text[d] \in cache
  BY <1>1, <1>2, Zenon DEF Coming
<1>3. ASSUME NEW s \in Synths(Text[d]),
             pc[s] \in Timing => timer[s] + n <= sc.patience + timer[d]
      PROVE  Coming(d, m)'
  <2>1. s \in Delivery /\ Text[s] = Text[d] /\ pc[s] \in Synthesising
    BY Zenon DEF Synths
  <2>2. CASE Text[s] \in cache'
    BY <2>1, <2>2, Zenon DEF Coming
  <2>3. CASE /\ pc'[s] \in Synthesising
             /\ pc'[s] \in Timing => pc[s] \in Timing /\ timer'[s] = timer[s]
    <3>1. s \in Synths(Text[d])'
      BY <2>1, <2>3, Zenon DEF Synths
    <3>2. ASSUME pc'[s] \in Timing
          PROVE  timer'[s] + m <= sc'.patience + timer'[d]
      <4>1. timer'[s] = timer[s] /\ timer[s] + n <= sc.patience + timer[d]
        BY <1>3, <2>3, <3>2, Zenon
      <4>2. /\ timer[s] \in Nat /\ timer[d] \in Nat /\ timer'[d] \in Nat
            /\ sc.patience \in Nat
        BY <2>1, ScenarioTypes, Zenon DEF LadderTypeOK
      <4>3. timer'[s] + m <= sc.patience + timer'[d]
        BY <4>1, <4>2, SMT
      <4> QED
        BY <1>1, <4>3, Zenon
    <3> QED
      BY <3>1, <3>2, Zenon DEF Coming
  <2> QED
    BY <2>1, <2>2, <2>3, Zenon DEF GoOn
<1> QED
  BY <1>2, <1>3, Zenon DEF Coming

\* A second brings the audio at least as much nearer as the end of d's time.
LEMMA ComingTick ==
  ASSUME TtsTypeOK, LadderTypeOK, NEW d \in Delivery, NEW n \in Nat,
         Coming(d, n), Tick
  PROVE  /\ Coming(d, n)'
         /\ pc[d] = "wait" /\ sc.patience < n => timer'[d] > 0
<1>1. /\ pc' = pc /\ cache' = cache /\ sc' = sc
      /\ \A e \in Delivery :
           /\ timer'[e] \in Nat /\ timer[e] <= timer'[e] + 1
           /\ pc[e] \in Timing => timer[e] = timer'[e] + 1
           /\ pc[e] \in Synthesising => pc[e] \in Timing
           /\ pc[e] = "wait" => Text[e] \notin cache
  BY TickStep, Zenon
<1>2. CASE Text[d] \in cache
  BY <1>1, <1>2, Zenon DEF Coming
<1>3. ASSUME NEW s \in Synths(Text[d]),
             pc[s] \in Timing => timer[s] + n <= sc.patience + timer[d]
      PROVE  /\ Coming(d, n)'
             /\ sc.patience < n => timer'[d] > 0
  <2>1. s \in Delivery /\ pc[s] \in Timing /\ timer[s] + n <= sc.patience + timer[d]
    BY <1>1, <1>3, Zenon DEF Synths
  <2>2. /\ timer[s] = timer'[s] + 1 /\ timer[d] <= timer'[d] + 1
        /\ timer'[s] \in Nat /\ timer'[d] \in Nat /\ timer[d] \in Nat
        /\ sc.patience \in Nat
    BY <1>1, <2>1, ScenarioTypes, Zenon DEF LadderTypeOK
  <2>3. timer'[s] + n <= sc.patience + timer'[d]
    BY <2>1, <2>2, SMT
  <2>4. sc.patience < n => timer'[d] > 0
    BY <2>2, <2>3, SMT
  <2>5. Synths(Text[d])' = Synths(Text[d])
    BY <1>1, Zenon DEF Synths
  <2>6. Coming(d, n)'
    BY <1>1, <2>3, <2>5, Zenon DEF Coming
  <2> QED
    BY <2>4, <2>6, Zenon
<1> QED
  BY <1>1, <1>2, <1>3, Zenon DEF Coming

\* If nothing crashes, raises or is lost, a message outlasts a winner that takes less
\* than the whole ladder.
LEMMA OutlastStep ==
  ASSUME TtsAssumption, TtsTypeOK, TtsTypeOK', LadderTypeOK, LadderTypeOK', CalmInv,
         OutlastInv, Patient', [LadderNext]_laddervars, NEW e \in Delivery
  PROVE  Outlasts(e)'
<1>1. /\ Calm /\ sc' = sc /\ crashes = 0
      /\ Still \/ Tick \/ \E d \in Delivery : Moves(d) \/ Dies(d)
  BY CalmCases, Zenon DEF Patient
<1>2. Patient /\ Outlasts(e) /\ Tame(e)
  BY <1>1, Zenon DEF Patient, OutlastInv, CalmInv
<1>3. retry[e] \in Nat /\ retry'[e] \in Nat /\ timer[e] \in Nat /\ timer'[e] \in Nat
  BY Zenon DEF TtsTypeOK, LadderTypeOK
<1>4. PICK k \in Nat : k = retry[e]
  BY <1>3, Zenon
<1>5. PICK n \in Nat : n = Climb(sc)[k]
  BY ClimbSteps, Zenon DEF LadderTypeOK
<1>6. PICK w \in Nat : w = sc.wait /\ w > 0
  <2>1. sc.wait \in Nat /\ sc.wait > 0
    BY ScenarioTypes, SMT DEF LadderTypeOK
  <2> QED
    BY <2>1, Zenon
<1>7. /\ pc[e] # "dead"
      /\ pc[e] \in {"queued", "get", "lock"} /\ k > 0 => Coming(e, n)
      /\ pc[e] = "wait" =>
           /\ Coming(e, n + w)
           /\ sc.patience < n + w => timer[e] > 0
  BY <1>2, <1>4, <1>5, <1>6, Zenon DEF Outlasts
<1>8. n + w \in Nat
  BY SMT
<1>9. ASSUME Same(e), GoOn, KeysKept
      PROVE  Outlasts(e)'
  <2>1. timer'[e] = timer[e] /\ pc'[e] = pc[e] /\ retry'[e] = k
    BY <1>4, <1>9, Zenon DEF Same
  <2>2. /\ Coming(e, n) => Coming(e, n)'
        /\ Coming(e, n + w) => Coming(e, n + w)'
    BY <1>8, <1>9, <2>1, ComingKept, Zenon
  <2> QED
    BY <1>1, <1>5, <1>6, <1>7, <2>1, <2>2, Zenon DEF Outlasts
<1>10. CASE Still
  BY <1>9, <1>10, Zenon DEF Still
<1>11. CASE Tick
  <2>1. pc' = pc /\ retry'[e] = k
    BY <1>4, <1>11, TickStep, Zenon
  <2>2. /\ Coming(e, n) => Coming(e, n)'
        /\ Coming(e, n + w) => Coming(e, n + w)'
        /\ Coming(e, n + w) /\ pc[e] = "wait" /\ sc.patience < n + w => timer'[e] > 0
    BY <1>8, <1>11, ComingTick, Zenon
  <2> QED
    BY <1>1, <1>5, <1>6, <1>7, <2>1, <2>2, Zenon DEF Outlasts
<1>12. ASSUME NEW d \in Delivery, Dies(d)
       PROVE  FALSE
  BY <1>1, <1>12, SMT DEF Dies, Patient
<1>13. ASSUME NEW d \in Delivery, Moves(d), d # e
       PROVE  Outlasts(e)'
  BY <1>9, <1>13, Zenon DEF Moves, Others
<1>14. CASE Moves(e) /\ Elsewhere(e)
  BY <1>14, Zenon DEF Elsewhere, Outlasts
<1>15. CASE Moves(e) /\ Nears(e)
  <2>1. /\ timer'[e] = timer[e] /\ pc'[e] \in {"get", "lock"} /\ retry'[e] = k
        /\ pc[e] \in {"queued", "get"} /\ GoOn /\ KeysKept
    BY <1>4, <1>15, Zenon DEF Nears, Moves
  <2>2. Coming(e, n) => Coming(e, n)'
    BY <1>8, <2>1, ComingKept, Zenon
  <2> QED
    BY <1>1, <1>5, <1>7, <2>1, <2>2, Zenon DEF Outlasts
<1>16. CASE Moves(e) /\ Loses(e)
  <2>1. /\ timer[e] = 0 /\ timer'[e] = w /\ pc'[e] = "wait" /\ retry'[e] = k
        /\ pc[e] = "lock" /\ Text[e] \in lock /\ GoOn /\ KeysKept
    BY <1>4, <1>6, <1>16, Zenon DEF Loses, Moves
  <2>2. Coming(e, n)
    <3>1. CASE k > 0
      BY <1>7, <2>1, <3>1, Zenon
    <3>2. CASE k = 0
      <4>1. n = 0
        BY <1>5, <3>2, ClimbSteps, Zenon DEF LadderTypeOK
      <4>2. PICK s \in Synths(Text[e]) : TRUE
        BY <1>1, <2>1, Zenon DEF CalmInv
      <4>3. s \in Delivery
        BY <4>2, Zenon DEF Synths
      <4>4. pc[s] \in Timing => timer[s] <= sc.patience
        BY <1>1, <4>3, Zenon DEF CalmInv, Tame
      <4>5. timer[s] \in Nat /\ sc.patience \in Nat
        BY <4>3, ScenarioTypes, Zenon DEF LadderTypeOK
      <4>6. pc[s] \in Timing => timer[s] + n <= sc.patience + timer[e]
        BY <2>1, <4>1, <4>4, <4>5, SMT
      <4> QED
        BY <4>6, Zenon DEF Coming
    <3> QED
      BY <3>1, <3>2, SMT
  <2>3. (n + w) + timer[e] = n + timer'[e]
    BY <2>1, SMT
  <2>4. Coming(e, n + w)'
    BY <1>8, <2>1, <2>2, <2>3, ComingKept, Zenon
  <2> QED
    BY <1>1, <1>5, <1>6, <2>1, <2>4, Zenon DEF Outlasts
<1>17. CASE Moves(e) /\ Tires(e)
  <2>1. /\ pc[e] = "wait" /\ timer[e] = 0 /\ retry'[e] = k + 1 /\ GoOn /\ KeysKept
        /\ pc'[e] = IF k + 1 > MAX_RETRIES THEN "dead" ELSE "queued"
        /\ pc'[e] = "queued" => timer'[e] = Delay(sc, k + 1)
    BY <1>4, <1>17, Zenon DEF Tires, Moves
  <2>2. Coming(e, n + w) /\ ~(sc.patience < n + w)
    <3>1. ~(timer[e] > 0)
      BY <2>1, SMT
    <3> QED
      BY <1>7, <2>1, <3>1, Zenon
  <2>3. k # MAX_RETRIES
    BY <1>2, <1>5, <1>6, <2>2, Zenon DEF Patient
  <2>4. pc'[e] = "queued"
    <3>1. k <= MAX_RETRIES
      BY <1>2, <1>4, <2>1, Zenon DEF Tame
    <3>2. ~(k + 1 > MAX_RETRIES)
      BY <2>3, <3>1, SMT DEF TtsAssumption
    <3> QED
      BY <2>1, <3>2, Zenon
  <2>5. PICK m \in Nat : m = Climb(sc)[k + 1]
    <3>1. k + 1 \in Nat
      BY SMT
    <3> QED
      BY <3>1, ClimbSteps, Zenon DEF LadderTypeOK
  <2>6. m = n + w + timer'[e]
    <3>1. m = Climb(sc)[k] + sc.wait + Delay(sc, k + 1)
      BY <2>5, ClimbSteps, Zenon DEF LadderTypeOK
    <3> QED
      BY <1>5, <1>6, <2>1, <2>4, <3>1, Zenon
  <2>7. m + timer[e] = (n + w) + timer'[e]
    BY <1>3, <2>1, <2>6, SMT
  <2>8. Coming(e, m)'
    BY <1>8, <2>1, <2>2, <2>7, ComingKept, Zenon
  <2> QED
    BY <1>1, <2>1, <2>4, <2>5, <2>8, Zenon DEF Outlasts
<1> QED
  BY <1>1, <1>10, <1>11, <1>12, <1>13, <1>14, <1>15, <1>16, <1>17, Zenon DEF Moves

\* The inductive invariant behind LadderOutlastsWinner.
THEOREM OutlastHolds == LadderSpec => []OutlastInv
<1>1. LadderInit => OutlastInv
  <2> SUFFICES ASSUME LadderInit, NEW d \in Delivery
               PROVE  Outlasts(d)
    BY Zenon DEF OutlastInv
  <2>1. pc[d] = "queued" /\ retry[d] = 0
    BY Zenon DEF LadderInit, TtsInit
  <2>2. ~(retry[d] > 0)
    BY <2>1, SMT
  <2> QED
    BY <2>1, <2>2, Zenon DEF Outlasts
<1>2. /\ TtsTypeOK /\ TtsTypeOK' /\ LadderTypeOK /\ LadderTypeOK' /\ CalmInv
      /\ OutlastInv /\ [LadderNext]_laddervars
      => OutlastInv'
  BY TtsAssumption, OutlastStep, Zenon DEF OutlastInv
<1> QED
  BY <1>1, <1>2, TtsTypes, LadderTypes, CalmHolds, LadderImplementsTts, PTL
  DEF LadderSpec

\* A ladder longer than the lock's TTL (INFLIGHT_TTL, RETRY_DELAYS, MAX_RETRIES, the
\* timeout of wait_for_cache): if nothing crashes, raises or is lost, no message that
\* waits for another handler's audio is dead-lettered.
THEOREM LadderOutlastsWinner ==
  ASSUME LongLadder
  PROVE  LadderSpec => []WaitersOutlastWinner
<1>1. LadderTypeOK /\ OutlastInv => WaitersOutlastWinner
  <2> SUFFICES ASSUME LadderTypeOK, OutlastInv, Calm, crashes = 0,
                      sc.patience <= sc.ttl
               PROVE  Dead = {}
    BY Zenon DEF WaitersOutlastWinner, Calm
  <2>1. sc \in Scenario /\ MAX_RETRIES \in Nat
    BY TtsAssumption, Zenon DEF LadderTypeOK, TtsAssumption
  <2>2. sc.ttl < Climb(sc)[MAX_RETRIES] + sc.wait
    BY <2>1, Zenon DEF LongLadder
  <2>3. /\ sc.ttl \in Nat /\ sc.wait \in Nat /\ sc.patience \in Nat
        /\ Climb(sc)[MAX_RETRIES] \in Nat
    BY <2>1, ScenarioTypes, ClimbSteps, Zenon
  <2>4. sc.patience < Climb(sc)[MAX_RETRIES] + sc.wait
    BY <2>2, <2>3, SMT
  <2>5. \A d \in Delivery : pc[d] # "dead"
    BY <2>4, Zenon DEF OutlastInv, Patient, Outlasts
  <2> QED
    BY <2>5, Zenon DEF Dead
<1> QED
  BY <1>1, LadderTypes, OutlastHolds, PTL

-----------------------------------------------------------------------------
(* A lock left behind by a crash.                                          *)

\* The audio of c is cached, or someone synthesises it.
Saved(c) == c \in cache \/ Synths(c) # {}

\* d waits for someone who is done before d's wait is over.
Safe(d) ==
  /\ timer[d] > 0
  /\ \/ Text[d] \in cache
     \/ \E s \in Synths(Text[d]) : pc[s] \in Timing => timer[s] < timer[d]

\* A lock without a synthesiser has lost n seconds, less what is left of d's own delay
\* or wait, since d met it.
Spent(d, n) ==
  \/ Text[d] \notin lock
  \/ Saved(Text[d])
  \/ ttl[Text[d]] + n <= met[d] + timer[d]

\* Two handlers synthesise c: a lock of a slow one has expired.
Twofold(c) == \E s \in Synths(c), t \in Synths(c) : s # t

\* In its first wait d still faces the lock it met, should its owner crash, unless
\* another synthesiser is left then.
Facing(d) ==
  \/ Text[d] \notin lock
  \/ Text[d] \in cache
  \/ Twofold(Text[d])
  \/ ttl[Text[d]] + sc.wait <= met[d] + timer[d]

\* At most one crash, and a winner takes less than a wait.
Brisk == Calm /\ crashes <= 1 /\ sc.patience < sc.wait

\* At its k-th retry a message has seen a lock without a synthesiser lose the k waits
\* and delays behind it; it waits in vain only if the lock it met had them to lose.
Harmless(d) ==
  /\ pc[d] \in {"queued", "get", "lock"} /\ retry[d] > 0
       => Spent(d, Climb(sc)[retry[d]])
  /\ pc[d] = "wait" =>
       \/ Safe(d)
       \/ Climb(sc)[retry[d]] <= met[d] /\ Spent(d, Climb(sc)[retry[d]] + sc.wait)
  /\ pc[d] = "dead" => Climb(sc)[MAX_RETRIES] <= met[d]

\* Before the crash nobody has waited in vain.
Unharmed(d) ==
  /\ retry[d] = 0
  /\ pc[d] = "wait" => Safe(d) /\ Facing(d)

OrphanInv ==
  Brisk => \A d \in Delivery : Harmless(d) /\ (crashes = 0 => Unharmed(d))

\* A synthesiser goes on, or its audio is cached.
LEMMA SynthGoesOn ==
  ASSUME NEW c, NEW s \in Synths(c), GoOn
  PROVE  \/ c \in cache'
         \/ /\ s \in Synths(c)'
            /\ pc'[s] \in Timing => pc[s] \in Timing /\ timer'[s] = timer[s]
<1>1. s \in Delivery /\ Text[s] = c /\ pc[s] \in Synthesising
  BY Zenon DEF Synths
<1>2. CASE Text[s] \in cache'
  BY <1>1, <1>2, Zenon
<1>3. CASE /\ pc'[s] \in Synthesising
           /\ pc'[s] \in Timing => pc[s] \in Timing /\ timer'[s] = timer[s]
  <2>1. s \in Synths(c)'
    BY <1>1, <1>3, Zenon DEF Synths
  <2> QED
    BY <1>3, <2>1, Zenon
<1> QED
  BY <1>1, <1>2, <1>3, Zenon DEF GoOn

\* No step but a crash loses the audio that is cached or coming.
LEMMA SavedKept ==
  ASSUME NEW c, Saved(c), GoOn, KeysKept
  PROVE  Saved(c)'
<1>1. cache \subseteq cache'
  BY Zenon DEF KeysKept
<1> QED
  BY <1>1, SynthGoesOn, Zenon DEF Saved

\* ... or the synthesiser that d waits for.
LEMMA SafeKept ==
  ASSUME NEW d \in Delivery, Safe(d), GoOn, KeysKept, timer'[d] = timer[d]
  PROVE  Safe(d)'
<1>1. cache \subseteq cache' /\ timer'[d] > 0
  BY Zenon DEF KeysKept, Safe
<1>2. CASE Text[d] \in cache
  BY <1>1, <1>2, Zenon DEF Safe
<1>3. ASSUME NEW s \in Synths(Text[d]), pc[s] \in Timing => timer[s] < timer[d]
      PROVE  Safe(d)'
  BY <1>1, <1>3, SynthGoesOn, Zenon DEF Safe
<1> QED
  BY <1>2, <1>3, Zenon DEF Safe

\* What the lock has lost stays lost, as d's time goes by.
LEMMA SpentKept ==
  ASSUME TtsAssumption, LadderTypeOK, LadderTypeOK', NEW d \in Delivery,
         NEW n \in Nat, NEW m \in Nat,
         Spent(d, n), GoOn, KeysKept, met'[d] = met[d], m + timer[d] = n + timer'[d]
  PROVE  Spent(d, m)'
<1> SUFFICES ASSUME Text[d] \in lock', ~Saved(Text[d])'
             PROVE  ttl'[Text[d]] + m <= met'[d] + timer'[d]
  BY Zenon DEF Spent
<1>1. \/ Text[d] \in lock /\ ttl'[Text[d]] = ttl[Text[d]]
      \/ \E s \in Synths(Text[d])' : pc[s] = "lock"
  BY Zenon DEF KeysKept
<1>2. Text[d] \in lock /\ ttl'[Text[d]] = ttl[Text[d]]
  BY <1>1, Zenon DEF Saved
<1>3. ttl[Text[d]] + n <= met[d] + timer[d]
  BY <1>2, SavedKept, Zenon DEF Spent
<1>4. /\ ttl[Text[d]] \in Nat /\ met[d] \in Nat /\ timer[d] \in Nat /\ timer'[d] \in Nat
  BY Zenon DEF LadderTypeOK, TtsAssumption
<1> QED
  BY <1>2, <1>3, <1>4, SMT

\* A lock that replaces the one that d met has a synthesiser of its own.
LEMMA FacingKept ==
  ASSUME NEW d \in Delivery, Safe(d), Facing(d), GoOn, KeysKept, Same(d)
  PROVE  Facing(d)'
<1> DEFINE c == Text[d]
<1> SUFFICES ASSUME c \in lock', c \notin cache'
             PROVE  \/ Twofold(c)'
                    \/ ttl'[c] + sc'.wait <= met'[d] + timer'[d]
  BY Zenon DEF Facing
<1>0. cache \subseteq cache' /\ sc' = sc
  BY Zenon DEF KeysKept
<1>1. c \notin cache
  BY <1>0, Zenon
<1>2. CASE c \in lock /\ ttl'[c] = ttl[c]
  <2>1. CASE Twofold(c)
    <3>1. PICK s \in Synths(c), t \in Synths(c) : s # t
      BY <2>1, Zenon DEF Twofold
    <3>2. s \in Synths(c)' /\ t \in Synths(c)'
      BY <3>1, SynthGoesOn, Zenon
    <3> QED
      BY <3>1, <3>2, Zenon DEF Twofold
  <2>2. CASE ttl[c] + sc.wait <= met[d] + timer[d]
    BY <1>0, <1>2, <2>2, Zenon DEF Same
  <2> QED
    BY <1>1, <1>2, <2>1, <2>2, Zenon DEF Facing
<1>3. ASSUME NEW t \in Synths(c)', pc[t] = "lock"
      PROVE  Twofold(c)'
  <2>1. PICK s \in Synths(c) : TRUE
    BY <1>1, Zenon DEF Safe
  <2>2. s \in Synths(c)'
    BY <2>1, SynthGoesOn, Zenon
  <2>3. s # t
    <3>1. pc[s] \in Synthesising
      BY <2>1, Zenon DEF Synths
    <3> QED
      BY <1>3, <3>1, Zenon DEF Synthesising, InSlot
  <2> QED
    BY <2>2, <2>3, Zenon DEF Twofold
<1> QED
  BY <1>2, <1>3, Zenon DEF KeysKept

\* The same when a second passes.
LEMMA OrphanTick ==
  ASSUME TtsAssumption, TtsTypeOK, LadderTypeOK, Tick, NEW d \in Delivery
  PROVE  /\ pc[d] = "wait" /\ Safe(d) => Safe(d)'
         /\ \A n \in Nat : Spent(d, n) => Spent(d, n)'
         /\ pc[d] = "wait" /\ Facing(d) => Facing(d)'
<1>1. /\ pc' = pc /\ cache' = cache /\ lock' = lock /\ sc' = sc /\ met' = met
      /\ \A e \in Delivery :
           /\ timer'[e] \in Nat /\ timer[e] <= timer'[e] + 1
           /\ pc[e] \in Timing \cup {"wait"} => timer[e] = timer'[e] + 1
           /\ pc[e] \in Synthesising => pc[e] \in Timing
           /\ pc[e] = "wait" => Text[e] \notin cache
      /\ \A c \in lock : ttl[c] = ttl'[c] + 1
  BY TickStep, Zenon
<1>2. \A c : Synths(c)' = Synths(c)
  BY <1>1, Zenon DEF Synths
<1>3. ASSUME pc[d] = "wait", Safe(d)
      PROVE  Safe(d)'
  <2>1. PICK s \in Synths(Text[d]) : pc[s] \in Timing => timer[s] < timer[d]
    BY <1>1, <1>3, Zenon DEF Safe
  <2>2. s \in Delivery /\ pc[s] \in Timing /\ timer[s] < timer[d]
    BY <1>1, <2>1, Zenon DEF Synths
  <2>3. /\ timer[s] = timer'[s] + 1 /\ timer[d] = timer'[d] + 1
        /\ timer'[s] \in Nat /\ timer'[d] \in Nat
    BY <1>1, <1>3, <2>2, Zenon
  <2>4. timer'[s] < timer'[d] /\ timer'[d] > 0
    BY <2>2, <2>3, SMT
  <2>5. s \in Synths(Text[d])'
    BY <1>2, <2>1, Zenon
  <2> QED
    BY <2>4, <2>5, Zenon DEF Safe
<1>4. /\ met[d] \in Nat /\ timer'[d] \in Nat /\ timer[d] <= timer'[d] + 1
      /\ sc.wait \in Nat /\ timer[d] \in Nat
  BY <1>1, ScenarioTypes, Zenon DEF LadderTypeOK
<1>5. ASSUME NEW n \in Nat, Text[d] \in lock, ttl[Text[d]] + n <= met[d] + timer[d]
      PROVE  ttl'[Text[d]] + n <= met'[d] + timer'[d]
  <2>1. ttl[Text[d]] = ttl'[Text[d]] + 1 /\ met'[d] = met[d]
    BY <1>1, <1>5, Zenon
  <2>2. ttl[Text[d]] \in Nat
    BY Zenon DEF LadderTypeOK, TtsAssumption
  <2>3. ttl'[Text[d]] \in Int
    <3>1. Text[d] \in Content /\ ttl'[Text[d]] = Less(ttl[Text[d]])
      BY Zenon DEF Tick, TtsAssumption
    <3> QED
      BY <2>2, <3>1, SMT DEF Less
  <2> QED
    BY <1>4, <1>5, <2>1, <2>2, <2>3, SMT
<1>6. ASSUME NEW n \in Nat, Spent(d, n)
      PROVE  Spent(d, n)'
  <2>1. CASE Text[d] \notin lock \/ Saved(Text[d])
    BY <1>1, <1>2, <2>1, Zenon DEF Spent, Saved
  <2>2. CASE Text[d] \in lock /\ ttl[Text[d]] + n <= met[d] + timer[d]
    BY <1>5, <2>2, Zenon DEF Spent
  <2> QED
    BY <1>6, <2>1, <2>2, Zenon DEF Spent
<1>7. ASSUME Facing(d)
      PROVE  Facing(d)'
  <2>1. CASE Text[d] \notin lock \/ Text[d] \in cache \/ Twofold(Text[d])
    BY <1>1, <1>2, <2>1, Zenon DEF Facing, Twofold
  <2>2. CASE Text[d] \in lock /\ ttl[Text[d]] + sc.wait <= met[d] + timer[d]
    BY <1>1, <1>4, <1>5, <2>2, Zenon DEF Facing
  <2> QED
    BY <1>7, <2>1, <2>2, Zenon DEF Facing
<1> QED
  BY <1>3, <1>6, <1>7, Zenon

\* A handler that starts to wait for a live synthesiser outlasts it.
LEMMA LosesSafely ==
  ASSUME TtsTypeOK, LadderTypeOK, CalmInv, Calm, sc.patience < sc.wait,
         NEW d \in Delivery, Others(d), GoOn, KeysKept, Loses(d), Saved(Text[d])
  PROVE  Safe(d)'
<1>1. /\ timer'[d] = sc.wait /\ pc[d] = "lock" /\ cache' = cache
  BY Zenon DEF Loses
<1>2. timer'[d] > 0
  BY <1>1, ScenarioTypes, SMT DEF LadderTypeOK
<1>3. CASE Text[d] \in cache
  BY <1>1, <1>2, <1>3, Zenon DEF Safe
<1>4. ASSUME NEW s \in Synths(Text[d])
      PROVE  Safe(d)'
  <2>1. s \in Delivery /\ pc[s] \in Synthesising
    BY Zenon DEF Synths
  <2>2. s # d
    BY <1>1, <2>1, Zenon DEF Synthesising, InSlot
  <2>3. timer'[s] = timer[s] /\ pc'[s] = pc[s]
    BY <2>1, <2>2, Zenon DEF Others, Same
  <2>4. s \in Synths(Text[d])'
    BY <2>1, <2>3, Zenon DEF Synths
  <2>5. ASSUME pc'[s] \in Timing
        PROVE  timer'[s] < timer'[d]
    <3>1. timer[s] <= sc.patience
      BY <2>1, <2>3, <2>5, Zenon DEF CalmInv, Tame
    <3>2. timer[s] \in Nat /\ sc.patience \in Nat /\ sc.wait \in Nat
      BY <2>1, ScenarioTypes, Zenon DEF LadderTypeOK
    <3> QED
      BY <1>1, <2>3, <3>1, <3>2, SMT
  <2> QED
    BY <1>2, <2>4, <2>5, Zenon DEF Safe
<1> QED
  BY <1>3, <1>4, Zenon DEF Saved

\* One lock left behind harms only a message that met it early.
LEMMA OrphanStep ==
  ASSUME TtsAssumption, TtsTypeOK, TtsTypeOK', LadderTypeOK, LadderTypeOK', CalmInv,
         OrphanInv, Brisk', [LadderNext]_laddervars, NEW e \in Delivery
  PROVE  Harmless(e)' /\ (crashes' = 0 => Unharmed(e)')
<1>1. /\ Calm /\ sc' = sc /\ (crashes' = 0 => crashes = 0)
      /\ Still \/ Tick \/ \E d \in Delivery : Moves(d) \/ Dies(d)
  BY CalmCases, Zenon DEF Brisk
<1>2. Brisk
  BY <1>1, CalmCases, Zenon DEF Brisk
<1>3. Harmless(e) /\ Tame(e) /\ (crashes = 0 => Unharmed(e))
  BY <1>1, <1>2, Zenon DEF OrphanInv, CalmInv
<1>4. /\ retry[e] \in Nat /\ timer[e] \in Nat /\ timer'[e] \in Nat
      /\ met[e] \in Nat /\ met'[e] \in Nat /\ crashes \in Nat /\ MAX_RETRIES \in Nat
  BY Zenon DEF TtsTypeOK, LadderTypeOK, TtsAssumption
<1>5. PICK k \in Nat : k = retry[e]
  BY <1>4, Zenon
<1>6. PICK n \in Nat : n = Climb(sc)[k]
  BY ClimbSteps, Zenon DEF LadderTypeOK
<1>7. PICK w \in Nat : w = sc.wait
  BY ScenarioTypes, Zenon DEF LadderTypeOK
<1>8. PICK top \in Nat : top = Climb(sc)[MAX_RETRIES]
  BY <1>4, ClimbSteps, Zenon DEF LadderTypeOK
<1>9. /\ pc[e] \in {"queued", "get", "lock"} /\ k > 0 => Spent(e, n)
      /\ pc[e] = "wait" => Safe(e) \/ (n <= met[e] /\ Spent(e, n + w))
      /\ pc[e] = "dead" => top <= met[e]
  <2>1. pc[e] \in {"queued", "get", "lock"} /\ k > 0 => Spent(e, n)
    BY <1>3, <1>5, <1>6, Zenon DEF Harmless
  <2>2. pc[e] = "wait" => Safe(e) \/ (n <= met[e] /\ Spent(e, n + w))
    BY <1>3, <1>5, <1>6, <1>7, Zenon DEF Harmless
  <2>3. pc[e] = "dead" => top <= met[e]
    BY <1>3, <1>8, Zenon DEF Harmless
  <2> QED
    BY <2>1, <2>2, <2>3, Zenon
<1>10. crashes' = 0 =>
         k = 0 /\ (pc[e] = "wait" => Safe(e) /\ Facing(e))
  BY <1>1, <1>3, <1>5, Zenon DEF Unharmed
<1>11. n + w \in Nat
  BY SMT
<1>12. ASSUME retry'[e] = k,
              /\ pc'[e] \in {"queued", "get", "lock"} /\ k > 0 => Spent(e, n)'
              /\ pc'[e] = "wait" => Safe(e)' \/ (n <= met'[e] /\ Spent(e, n + w)')
              /\ pc'[e] = "dead" => top <= met'[e],
              crashes' = 0 => (pc'[e] = "wait" => Safe(e)' /\ Facing(e)')
       PROVE  Harmless(e)' /\ (crashes' = 0 => Unharmed(e)')
  <2>1. Harmless(e)'
    BY <1>1, <1>6, <1>7, <1>8, <1>12, Zenon DEF Harmless
  <2>2. crashes' = 0 => Unharmed(e)'
    BY <1>10, <1>12, Zenon DEF Unharmed
  <2> QED
    BY <2>1, <2>2, Zenon
<1>13. ASSUME Same(e), GoOn, KeysKept
       PROVE  Harmless(e)' /\ (crashes' = 0 => Unharmed(e)')
  <2>1. timer'[e] = timer[e] /\ pc'[e] = pc[e] /\ retry'[e] = k /\ met'[e] = met[e]
    BY <1>5, <1>13, Zenon DEF Same
  <2>2. /\ Spent(e, n) => Spent(e, n)'
        /\ Spent(e, n + w) => Spent(e, n + w)'
    BY <1>11, <1>13, <2>1, SpentKept, Zenon
  <2>3. Safe(e) => Safe(e)'
    BY <1>13, <2>1, SafeKept, Zenon
  <2>4. Safe(e) /\ Facing(e) => Facing(e)'
    BY <1>13, FacingKept, Zenon
  <2> QED
    BY <1>9, <1>10, <1>12, <2>1, <2>2, <2>3, <2>4, Zenon
<1>14. CASE Still
  BY <1>13, <1>14, Zenon DEF Still
<1>15. CASE Tick
  <2>1. pc' = pc /\ retry'[e] = k /\ met'[e] = met[e]
    BY <1>5, <1>15, TickStep, Zenon
  <2>2. /\ pc[e] = "wait" /\ Safe(e) => Safe(e)'
        /\ Spent(e, n) => Spent(e, n)'
        /\ Spent(e, n + w) => Spent(e, n + w)'
        /\ pc[e] = "wait" /\ Facing(e) => Facing(e)'
    BY <1>11, <1>15, OrphanTick, Zenon
  <2> QED
    BY <1>9, <1>10, <1>12, <2>1, <2>2, Zenon
<1>16. ASSUME NEW d \in Delivery, Moves(d), d # e
       PROVE  Harmless(e)' /\ (crashes' = 0 => Unharmed(e)')
  BY <1>13, <1>16, Zenon DEF Moves, Others
<1>17. ASSUME NEW d \in Delivery, Dies(d)
       PROVE  Harmless(e)' /\ (crashes' = 0 => Unharmed(e)')
  <2>1. crashes = 0 /\ crashes' # 0
    BY <1>4, <1>17, SMT DEF Dies, Brisk
  <2>2. k = 0 /\ (pc[e] = "wait" => Facing(e))
    BY <1>3, <1>5, <2>1, Zenon DEF Unharmed
  <2>3. n = 0 /\ n <= met[e] /\ ~(k > 0)
    <3>1. n = 0
      BY <1>6, <2>2, ClimbSteps, Zenon DEF LadderTypeOK
    <3> QED
      BY <1>4, <2>2, <3>1, SMT
  <2>4. CASE e = d
    <3>1. pc'[e] = "queued" /\ retry'[e] = k
      BY <1>5, <1>17, <2>4, Zenon DEF Dies
    <3> QED
      BY <1>12, <2>1, <2>3, <3>1, Zenon
  <2>5. CASE e # d
    <3>1. timer'[e] = timer[e] /\ pc'[e] = pc[e] /\ retry'[e] = k /\ met'[e] = met[e]
      BY <1>5, <1>17, <2>5, Zenon DEF Dies, Others, Same
    <3>2. cache' = cache /\ lock' = lock /\ \A c \in lock : ttl'[c] = ttl[c]
      BY <1>17, Zenon DEF Dies
    <3>3. ASSUME pc[e] = "wait"
          PROVE  Spent(e, n + w)'
      <4>1. CASE Text[e] \notin lock \/ Text[e] \in cache
        BY <3>2, <4>1, Zenon DEF Spent, Saved
      <4>2. CASE Twofold(Text[e])
        <5>1. PICK s \in Synths(Text[e]) : s # d
          BY <4>2, Zenon DEF Twofold
        <5>2. s \in Delivery /\ pc'[s] = pc[s]
          BY <1>17, <5>1, Zenon DEF Synths, Dies, Others, Same
        <5>3. s \in Synths(Text[e])'
          BY <5>1, <5>2, Zenon DEF Synths
        <5> QED
          BY <5>3, Zenon DEF Spent, Saved
      <4>3. CASE Text[e] \in lock /\ ttl[Text[e]] + sc.wait <= met[e] + timer[e]
        <5>1. ttl'[Text[e]] + w <= met'[e] + timer'[e]
          BY <1>7, <3>1, <3>2, <4>3, Zenon
        <5>2. n + w = w
          BY <2>3, SMT
        <5> QED
          BY <5>1, <5>2, Zenon DEF Spent
      <4> QED
        BY <2>2, <3>3, <4>1, <4>2, <4>3, Zenon DEF Facing
    <3> QED
      BY <1>9, <1>12, <2>1, <2>3, <3>1, <3>3, Zenon
  <2> QED
    BY <2>4, <2>5, Zenon
<1>18. CASE Moves(e) /\ Elsewhere(e)
  <2>1. /\ retry'[e] = k
        /\ pc'[e] \notin {"queued", "get", "lock", "wait", "dead"}
    BY <1>5, <1>18, Zenon DEF Elsewhere
  <2> QED
    BY <1>12, <2>1, Zenon
<1>19. CASE Moves(e) /\ Nears(e)
  <2>1. /\ timer'[e] = timer[e] /\ pc'[e] \in {"get", "lock"} /\ retry'[e] = k
        /\ met'[e] = met[e] /\ pc[e] \in {"queued", "get"} /\ GoOn /\ KeysKept
    BY <1>5, <1>19, Zenon DEF Nears, Moves
  <2>2. Spent(e, n) => Spent(e, n)'
    BY <1>11, <2>1, SpentKept, Zenon
  <2> QED
    BY <1>9, <1>12, <2>1, <2>2, Zenon
<1>20. CASE Moves(e) /\ Loses(e)
  <2>1. /\ timer[e] = 0 /\ timer'[e] = w /\ pc'[e] = "wait" /\ retry'[e] = k
        /\ pc[e] = "lock" /\ Text[e] \in lock /\ lock' = lock
        /\ met'[e] = IF k = 0 THEN ttl[Text[e]] ELSE met[e]
        /\ Others(e) /\ GoOn /\ KeysKept
    BY <1>5, <1>7, <1>20, Zenon DEF Loses, Moves
  <2>2. Saved(Text[e]) => Safe(e)'
    BY <1>1, <1>2, <1>20, <2>1, LosesSafely, Zenon DEF Brisk
  <2>3. ttl'[Text[e]] = ttl[Text[e]] /\ ttl[Text[e]] \in Nat
    <3>1. \/ ttl'[Text[e]] = ttl[Text[e]]
          \/ \E s \in Synths(Text[e])' : pc[s] = "lock"
      BY <2>1, Zenon DEF KeysKept
    <3>2. ASSUME NEW s \in Synths(Text[e])', pc[s] = "lock"
          PROVE  FALSE
      <4>1. s \in Delivery /\ pc'[s] \in Synthesising
        BY <3>2, Zenon DEF Synths
      <4>2. pc'[s] \in {"lock", "wait"}
        BY <2>1, <3>2, <4>1, Zenon DEF Others, Same
      <4> QED
        BY <4>1, <4>2, Zenon DEF Synthesising, InSlot
    <3> QED
      BY <3>1, <3>2, Zenon DEF LadderTypeOK, TtsAssumption
  <2>4. CASE k = 0
    <3>1. n = 0
      BY <1>6, <2>4, ClimbSteps, Zenon DEF LadderTypeOK
    <3>2. met'[e] = ttl[Text[e]]
      BY <2>1, <2>4, Zenon
    <3>3. n <= met'[e] /\ ttl'[Text[e]] + (n + w) <= met'[e] + timer'[e]
          /\ ttl'[Text[e]] + w <= met'[e] + timer'[e]
      BY <2>1, <2>3, <3>1, <3>2, SMT
    <3>4. Spent(e, n + w)' /\ Facing(e)'
      BY <1>1, <1>7, <3>3, Zenon DEF Spent, Facing
    <3>5. crashes' = 0 => Saved(Text[e])
      BY <1>1, <2>1, Zenon DEF CalmInv, Saved
    <3> QED
      <4>1. crashes' = 0 => Safe(e)'
        BY <2>2, <3>5, Zenon
      <4> QED
        BY <1>12, <2>1, <3>3, <3>4, <4>1, Zenon
  <2>5. CASE k > 0
    <3>1. crashes' # 0 /\ k # 0
      BY <1>10, <2>5, SMT
    <3>2. met'[e] = met[e] /\ Spent(e, n)
      BY <1>9, <2>1, <2>5, <3>1, Zenon
    <3>3. CASE ttl[Text[e]] + n <= met[e] + timer[e]
      <4>1. n <= met'[e] /\ (n + w) + timer[e] = n + timer'[e]
        BY <1>4, <2>1, <2>3, <3>2, <3>3, SMT
      <4>2. Spent(e, n + w)'
        BY <1>11, <2>1, <3>2, <4>1, SpentKept, Zenon
      <4> QED
        BY <1>12, <2>1, <3>1, <4>1, <4>2, Zenon
    <3>4. CASE Saved(Text[e])
      <4>1. Safe(e)'
        BY <2>2, <3>4, Zenon
      <4>2. /\ pc'[e] \in {"queued", "get", "lock"} /\ k > 0 => Spent(e, n)'
            /\ pc'[e] = "wait" => Safe(e)' \/ (n <= met'[e] /\ Spent(e, n + w)')
            /\ pc'[e] = "dead" => top <= met'[e]
        BY <2>1, <4>1, Zenon
      <4>3. retry'[e] = k
        BY <2>1, Zenon
      <4> QED
        BY <1>12, <3>1, <4>2, <4>3, Zenon
    <3> QED
      BY <2>1, <3>2, <3>3, <3>4, Zenon DEF Spent
  <2>6. k = 0 \/ k > 0
    BY SMT
  <2> QED
    BY <2>4, <2>5, <2>6, Zenon
<1>21. CASE Moves(e) /\ Tires(e)
  <2>1. /\ pc[e] = "wait" /\ timer[e] = 0 /\ retry'[e] = k + 1 /\ met'[e] = met[e]
        /\ pc'[e] = IF k + 1 > MAX_RETRIES THEN "dead" ELSE "queued"
        /\ pc'[e] = "queued" => timer'[e] = Delay(sc, k + 1)
        /\ GoOn /\ KeysKept
    BY <1>5, <1>21, Zenon DEF Tires, Moves
  <2>2. ~Safe(e)
    <3>1. ~(timer[e] > 0)
      BY <2>1, SMT
    <3> QED
      BY <3>1, Zenon DEF Safe
  <2>3. crashes' # 0 /\ n <= met[e] /\ Spent(e, n + w)
    BY <1>9, <1>10, <2>1, <2>2, Zenon
  <2>4. CASE pc'[e] = "dead"
    <3>1. k <= MAX_RETRIES
      BY <1>3, <1>5, <2>1, Zenon DEF Tame
    <3>2. k + 1 > MAX_RETRIES
      BY <2>1, <2>4, Zenon
    <3>3. k = MAX_RETRIES
      BY <1>4, <3>1, <3>2, SMT
    <3>4. Climb(sc')[MAX_RETRIES] <= met'[e]
      BY <1>1, <1>6, <2>1, <2>3, <3>3, Zenon
    <3>5. Harmless(e)'
      BY <2>4, <3>4, Zenon DEF Harmless
    <3> QED
      BY <2>3, <3>5, Zenon
  <2>5. CASE pc'[e] = "queued"
    <3>1. PICK m \in Nat : m = Climb(sc)[k + 1]
      <4>1. k + 1 \in Nat
        BY SMT
      <4> QED
        BY <4>1, ClimbSteps, Zenon DEF LadderTypeOK
    <3>2. m = n + w + timer'[e]
      <4>1. m = Climb(sc)[k] + sc.wait + Delay(sc, k + 1)
        BY <3>1, ClimbSteps, Zenon DEF LadderTypeOK
      <4> QED
        BY <1>6, <1>7, <2>1, <2>5, <4>1, Zenon
    <3>3. m + timer[e] = (n + w) + timer'[e]
      BY <1>4, <2>1, <3>2, SMT
    <3>4. Spent(e, m)'
      BY <1>11, <2>1, <2>3, <3>3, SpentKept, Zenon
    <3>5. Harmless(e)'
      BY <1>1, <2>1, <2>5, <3>1, <3>4, Zenon DEF Harmless
    <3> QED
      BY <2>3, <3>5, Zenon
  <2> QED
    BY <2>1, <2>4, <2>5, Zenon
<1> QED
  BY <1>1, <1>14, <1>15, <1>16, <1>17, <1>18, <1>19, <1>20, <1>21, Zenon DEF Moves

\* The inductive invariant behind OldLocksHarmless.
THEOREM OrphanHolds == LadderSpec => []OrphanInv
<1>1. LadderInit => OrphanInv
  <2> SUFFICES ASSUME LadderInit, NEW d \in Delivery
               PROVE  Harmless(d) /\ Unharmed(d)
    BY Zenon DEF OrphanInv
  <2>1. pc[d] = "queued" /\ retry[d] = 0
    BY Zenon DEF LadderInit, TtsInit
  <2>2. ~(retry[d] > 0)
    BY <2>1, SMT
  <2> QED
    BY <2>1, <2>2, Zenon DEF Harmless, Unharmed
<1>2. /\ TtsTypeOK /\ TtsTypeOK' /\ LadderTypeOK /\ LadderTypeOK' /\ CalmInv
      /\ OrphanInv /\ [LadderNext]_laddervars
      => OrphanInv'
  BY TtsAssumption, OrphanStep, Zenon DEF OrphanInv
<1> QED
  BY <1>1, <1>2, TtsTypes, LadderTypes, CalmHolds, LadderImplementsTts, PTL
  DEF LadderSpec

\* acquire_inflight's promise about a crashed synthesiser, in seconds: a message ends
\* in the dead-letter queue because of the one lock left behind only if that lock had
\* at least the whole ladder to live when the message met it.
THEOREM OldLocksHarmless == LadderSpec => []OldLockHarmless
<1>1. LadderTypeOK /\ OrphanInv => OldLockHarmless
  <2> SUFFICES ASSUME LadderTypeOK, OrphanInv, Brisk, NEW d \in Dead
               PROVE  met[d] >= Climb(sc)[MAX_RETRIES]
    BY Zenon DEF OldLockHarmless, Brisk, Calm
  <2>1. Climb(sc)[MAX_RETRIES] <= met[d]
    BY Zenon DEF Dead, OrphanInv, Harmless
  <2>2. met[d] \in Nat /\ Climb(sc)[MAX_RETRIES] \in Nat
    BY TtsAssumption, ClimbSteps, Zenon DEF Dead, LadderTypeOK, TtsAssumption
  <2> QED
    BY <2>1, <2>2, SMT
<1> QED
  BY <1>1, LadderTypes, OrphanHolds, PTL
=============================================================================
