------------------------------ MODULE TtsProofs -----------------------------
(***************************************************************************)
(* For any number of deliveries, contents, slots, crashes, faults and      *)
(* losses: a cache hit has its audio, and identical text is synthesised by *)
(* at most one handler for each lock that is held or was lost.  The timed  *)
(* specification implements the untimed one, so both hold of it too; and   *)
(* its steps are sorted by what they do to timers and locks as long as     *)
(* nothing raises and nothing is lost, for LadderProofs.                   *)
(***************************************************************************)
EXTENDS TtsLadder, Recursion, FiniteSetTheorems, TLAPS

-----------------------------------------------------------------------------
(* Type correctness.                                                       *)

LEMMA GotoType ==
  ASSUME TtsTypeOK, NEW d \in Delivery, NEW from,
         NEW to \in Active \cup {"queued", "done", "dead"}, Goto(d, from, to)
  PROVE  pc' \in [Delivery -> Active \cup {"queued", "done", "dead"}]
BY Zenon DEF TtsTypeOK, Goto

\* An exception changes pc and retry, and their types hold.
LEMMA RoutedType ==
  ASSUME TtsTypeOK, NEW d \in Delivery, NEW from, Routed(d, from)
  PROVE  /\ pc' \in [Delivery -> Active \cup {"queued", "done", "dead"}]
         /\ retry' \in [Delivery -> Nat]
<1>1. (IF retry[d] + 1 > MAX_RETRIES THEN "dead" ELSE "queued")
        \in Active \cup {"queued", "done", "dead"}
  BY Zenon
<1>2. pc' \in [Delivery -> Active \cup {"queued", "done", "dead"}]
  BY <1>1, GotoType, Zenon DEF Routed
<1>3. retry[d] + 1 \in Nat
  BY SMT DEF TtsTypeOK
<1>4. retry' = [retry EXCEPT ![d] = retry[d] + 1]
  BY Zenon DEF Routed
<1>5. retry' \in [Delivery -> Nat]
  BY <1>3, <1>4, Zenon DEF TtsTypeOK
<1> QED
  BY <1>2, <1>5, Zenon

\* Every step of a handler keeps the types.
LEMMA HandlerTypes ==
  ASSUME TtsTypeOK, NEW d \in Delivery, Text \in [Delivery -> Content],
         \/ Begin(d) \/ cache_get(d) \/ acquire_inflight(d) \/ AcquireFails(d)
         \/ Synthesise(d) \/ Poll(d) \/ WaitTimeout(d) \/ Claim(d)
         \/ Raises(d) \/ Crash(d)
  PROVE  TtsTypeOK'
<1> DEFINE PC == Active \cup {"queued", "done", "dead"}
<1>0. Text[d] \in Content
  BY Zenon
<1>1. CASE Begin(d) \/ Poll(d) \/ Claim(d) \/ cache_get(d)
  <2>1. pc' \in [Delivery -> PC]
    BY <1>1, Zenon DEF TtsTypeOK, Goto, Begin, Poll, Claim, cache_get, Active
  <2> QED
    BY <1>1, <2>1, Zenon
    DEF TtsTypeOK, Begin, Poll, Claim, cache_get, keys, pool, bounds
<1>2. CASE WaitTimeout(d)
  BY <1>2, RoutedType, Zenon DEF TtsTypeOK, WaitTimeout, keys, pool, bounds
<1>3. CASE Raises(d)
  <2>1. pc' \in [Delivery -> PC] /\ retry' \in [Delivery -> Nat]
    BY <1>3, RoutedType, Zenon DEF Raises
  <2>2. faults' \in Nat
    BY <1>3, SMT DEF TtsTypeOK, Raises, Fault
  <2> QED
    BY <1>3, <2>1, <2>2, Zenon DEF TtsTypeOK, Raises, keys, pool
<1>4. CASE acquire_inflight(d)
  <2>1. pc' \in [Delivery -> PC]
    BY <1>4, Zenon DEF TtsTypeOK, Goto, acquire_inflight, Active, Synthesising
  <2> QED
    BY <1>4, <2>1, Zenon DEF TtsTypeOK, acquire_inflight, pool, bounds
<1>5. CASE AcquireFails(d)
  <2>1. pc' \in [Delivery -> PC] /\ retry' \in [Delivery -> Nat]
    BY <1>5, RoutedType, Zenon DEF AcquireFails
  <2>2. faults' \in Nat
    BY <1>5, SMT DEF TtsTypeOK, AcquireFails, Fault
  <2>3. lock' \subseteq Content
    BY <1>5, <1>0, SMT DEF TtsTypeOK, AcquireFails
  <2> QED
    BY <1>5, <2>1, <2>2, <2>3, Zenon DEF TtsTypeOK, AcquireFails, pool
<1>6. CASE EnterSlot(d)
  BY <1>6, SMT DEF TtsTypeOK, EnterSlot, Goto, Active, Synthesising, InSlot,
       keys, bounds
<1>7. CASE SlotFails(d)
  <2>1. pc' \in [Delivery -> PC]
    BY <1>7, Zenon DEF TtsTypeOK, SlotFails, Goto, Active, Synthesising
  <2>2. free' \in Nat /\ orphans' \in Nat /\ faults' \in Nat
    BY <1>7, SMT DEF TtsTypeOK, SlotFails, Fault, pool
  <2> QED
    BY <1>7, <2>1, <2>2, Zenon DEF TtsTypeOK, SlotFails, keys
<1>8. CASE StoreAudio(d)
  <2>1. pc' \in [Delivery -> PC]
    BY <1>8, Zenon DEF TtsTypeOK, StoreAudio, Goto, Active, Synthesising, InSlot
  <2> QED
    BY <1>8, <2>1, Zenon DEF TtsTypeOK, StoreAudio, keys, pool, bounds
<1>9. CASE StoreFails(d)
  <2>1. pc' \in [Delivery -> PC]
    BY <1>9, Zenon DEF TtsTypeOK, StoreFails, Goto, Active, Synthesising, InSlot
  <2>2. faults' \in Nat
    BY <1>9, SMT DEF TtsTypeOK, StoreFails, Fault
  <2>3. object' \subseteq Content
    BY <1>9, <1>0, SMT DEF TtsTypeOK, StoreFails
  <2> QED
    BY <1>9, <2>1, <2>2, <2>3, Zenon DEF TtsTypeOK, StoreFails, keys, pool
<1>10. CASE ExitSlot(d)
  <2>1. pc' \in [Delivery -> PC]
    BY <1>10, Zenon DEF TtsTypeOK, ExitSlot, Goto, Active, Synthesising
  <2>2. free' \in Nat
    BY <1>10, SMT DEF TtsTypeOK, ExitSlot
  <2> QED
    BY <1>10, <2>1, <2>2, Zenon DEF TtsTypeOK, ExitSlot, keys, bounds
<1>11. CASE cache_set(d)
  <2>1. pc' \in [Delivery -> PC]
    BY <1>11, Zenon DEF TtsTypeOK, cache_set, Goto, Active, Synthesising
  <2> QED
    BY <1>11, <2>1, Zenon DEF TtsTypeOK, cache_set, pool, bounds
<1>12. CASE CacheSetFails(d)
  <2>1. pc' \in [Delivery -> PC]
    BY <1>12, Zenon DEF TtsTypeOK, CacheSetFails, Goto, Active, Synthesising
  <2>2. faults' \in Nat
    BY <1>12, SMT DEF TtsTypeOK, CacheSetFails, Fault
  <2>3. cache' \subseteq Content
    BY <1>12, <1>0, SMT DEF TtsTypeOK, CacheSetFails
  <2> QED
    BY <1>12, <2>1, <2>2, <2>3, Zenon DEF TtsTypeOK, CacheSetFails, pool
<1>13. CASE release_inflight(d)
  <2>1. pc' \in [Delivery -> PC] /\ retry' \in [Delivery -> Nat]
    <3>1. CASE Goto(d, "unlock", "claim") /\ UNCHANGED retry
      BY <3>1, Zenon DEF TtsTypeOK, Goto, Active
    <3> QED
      BY <1>13, <3>1, RoutedType, Zenon DEF release_inflight
  <2> QED
    BY <1>13, <2>1, Zenon DEF TtsTypeOK, release_inflight, pool, bounds
<1>14. CASE ReleaseFails(d)
  <2>1. pc' \in [Delivery -> PC] /\ retry' \in [Delivery -> Nat]
    BY <1>14, RoutedType, Zenon DEF ReleaseFails
  <2>2. faults' \in Nat
    BY <1>14, SMT DEF TtsTypeOK, ReleaseFails, Fault
  <2>3. lock' \subseteq Content
    BY <1>14, Zenon DEF TtsTypeOK, ReleaseFails
  <2> QED
    BY <1>14, <2>1, <2>2, <2>3, Zenon DEF TtsTypeOK, ReleaseFails, pool
<1>15. CASE Crash(d)
  <2>1. pc' \in [Delivery -> PC]
    BY <1>15, Zenon DEF TtsTypeOK, Crash, Goto
  <2>2. orphans' \in Nat /\ crashes' \in Nat
    BY <1>15, SMT DEF TtsTypeOK, Crash
  <2> QED
    BY <1>15, <2>1, <2>2, Zenon DEF TtsTypeOK, Crash, keys
<1> QED
  BY <1>1, <1>2, <1>3, <1>4, <1>5, <1>6, <1>7, <1>8, <1>9, <1>10, <1>11, <1>12,
     <1>13, <1>14, <1>15, Zenon DEF Synthesise

\* So does the environment.
LEMMA EnvironmentTypes ==
  ASSUME TtsTypeOK, TtsAssumption,
         \/ ReturnToken \/ Wipe
         \/ \E c \in Content : LockExpires(c) \/ CacheExpires(c)
  PROVE  TtsTypeOK'
<1>1. CASE ReturnToken
  <2>1. free' \in Nat /\ orphans' \in Nat
    BY <1>1, SMT DEF TtsTypeOK, ReturnToken
  <2> QED
    BY <1>1, <2>1, Zenon DEF TtsTypeOK, ReturnToken, keys, bounds
<1>2. ASSUME NEW C, Unlocked(C)
      PROVE  lock' \subseteq Content /\ passed' \in [Content -> Nat]
  <2>1. lock' \subseteq Content
    BY <1>2, Zenon DEF TtsTypeOK, Unlocked
  <2>2. \A c \in Content : passed[c] \in Nat /\ passed[c] + 1 \in Nat
    BY SMT DEF TtsTypeOK
  <2>3. passed' \in [Content -> Nat]
    BY <1>2, <2>2, SMT DEF Unlocked
  <2> QED
    BY <2>1, <2>3, Zenon
<1>3. CASE Wipe
  <2>1. losses' \in Nat /\ free' \in Nat /\ orphans' \in Nat
    BY <1>3, SMT DEF TtsTypeOK, Wipe, Loss, TtsAssumption
  <2> QED
    BY <1>2, <1>3, <2>1, Zenon DEF TtsTypeOK, Wipe
<1>4. ASSUME NEW c \in Content, LockExpires(c)
      PROVE  TtsTypeOK'
  BY <1>2, <1>4, Zenon DEF TtsTypeOK, LockExpires, pool, bounds
<1>5. ASSUME NEW c \in Content, CacheExpires(c)
      PROVE  TtsTypeOK'
  <2>1. losses' \in Nat
    BY <1>5, SMT DEF TtsTypeOK, CacheExpires, Loss
  <2> QED
    BY <1>5, <2>1, Zenon DEF TtsTypeOK, CacheExpires, pool
<1> QED
  BY <1>1, <1>3, <1>4, <1>5, Zenon

\* Every variable keeps its type.
THEOREM TtsTypes == TtsSpec => []TtsTypeOK
<1>1. TtsInit => TtsTypeOK
  BY TtsAssumption, SMT DEF TtsAssumption, TtsInit, TtsTypeOK
<1>2. TtsTypeOK /\ [TtsNext]_ttsvars => TtsTypeOK'
  <2>1. CASE UNCHANGED ttsvars
    BY <2>1, Zenon DEF TtsTypeOK, ttsvars, keys, pool, bounds
  <2>2. Text \in [Delivery -> Content]
    BY TtsAssumption, Zenon DEF TtsAssumption
  <2> QED
    BY <2>1, <2>2, TtsAssumption, HandlerTypes, EnvironmentTypes, Zenon DEF TtsNext
<1> QED
  BY <1>1, <1>2, PTL DEF TtsSpec

-----------------------------------------------------------------------------
(* HitHasAudio.                                                            *)

\* The audio is stored before its handler leaves the slot, and stays.
HitInv ==
  /\ cache \subseteq object
  /\ \A d \in Delivery :
       pc[d] \in {"exit", "set", "unlock", "claim", "done"} => Text[d] \in object

\* A handler that goes to a step with audio has it, or had it at the step before.
LEMMA HitGoto ==
  ASSUME TtsTypeOK, HitInv, NEW d \in Delivery, NEW from, NEW to,
         Goto(d, from, to),
         object \subseteq object', cache' \subseteq object',
         to \in {"exit", "set", "unlock", "claim", "done"} => Text[d] \in object'
  PROVE  HitInv'
<1> SUFFICES ASSUME NEW e \in Delivery,
                    pc'[e] \in {"exit", "set", "unlock", "claim", "done"}
             PROVE  Text[e] \in object'
  BY Zenon DEF HitInv
<1>1. CASE e = d
  BY <1>1, Zenon DEF TtsTypeOK, Goto
<1>2. CASE e # d
  <2>1. pc'[e] = pc[e]
    BY <1>2, Zenon DEF TtsTypeOK, Goto
  <2> QED
    BY <2>1, Zenon DEF HitInv
<1> QED
  BY <1>1, <1>2, Zenon

\* An exception leads to no step with audio.
LEMMA HitRouted ==
  ASSUME TtsTypeOK, HitInv, NEW d \in Delivery, NEW from, Routed(d, from),
         object \subseteq object', cache' \subseteq object'
  PROVE  HitInv'
<1>1. (IF retry[d] + 1 > MAX_RETRIES THEN "dead" ELSE "queued")
        \notin {"exit", "set", "unlock", "claim", "done"}
  BY Zenon
<1> QED
  BY <1>1, HitGoto, Zenon DEF Routed

LEMMA HandlerKeepsHit ==
  ASSUME TtsTypeOK, HitInv, NEW d \in Delivery,
         \/ Begin(d) \/ cache_get(d) \/ acquire_inflight(d) \/ AcquireFails(d)
         \/ Synthesise(d) \/ Poll(d) \/ WaitTimeout(d) \/ Claim(d)
         \/ Raises(d) \/ Crash(d)
  PROVE  HitInv'
<1>1. cache \subseteq object
  BY Zenon DEF HitInv
<1>2. ASSUME UNCHANGED <<cache, object>>
      PROVE  object \subseteq object' /\ cache' \subseteq object'
  BY <1>1, <1>2, Zenon
<1>3. CASE Begin(d)
  BY <1>2, <1>3, HitGoto, Zenon DEF Begin, keys
<1>4. CASE cache_get(d)
  BY <1>1, <1>2, <1>4, HitGoto, Zenon DEF cache_get, keys
<1>5. CASE acquire_inflight(d)
  BY <1>2, <1>5, HitGoto, Zenon DEF acquire_inflight
<1>6. CASE AcquireFails(d) \/ WaitTimeout(d) \/ Raises(d) \/ ReleaseFails(d)
  BY <1>2, <1>6, HitRouted, Zenon
  DEF AcquireFails, WaitTimeout, Raises, ReleaseFails, keys
<1>7. CASE Poll(d)
  BY <1>1, <1>2, <1>7, HitGoto, Zenon DEF Poll, keys
<1>8. CASE Claim(d)
  BY <1>2, <1>8, HitGoto, Zenon DEF Claim, HitInv, Goto, keys
<1>9. CASE Crash(d)
  BY <1>2, <1>9, HitGoto, Zenon DEF Crash, keys
<1>10. CASE EnterSlot(d)
  BY <1>2, <1>10, HitGoto, Zenon DEF EnterSlot, keys
<1>11. CASE SlotFails(d)
  BY <1>2, <1>11, HitGoto, Zenon DEF SlotFails, keys
<1>12. CASE StoreAudio(d)
  <2>1. object \subseteq object' /\ cache' \subseteq object' /\ Text[d] \in object'
    BY <1>1, <1>12, Zenon DEF StoreAudio, keys
  <2> QED
    BY <1>12, <2>1, HitGoto, Zenon DEF StoreAudio
<1>13. CASE StoreFails(d)
  <2>1. object \subseteq object' /\ cache' \subseteq object'
    BY <1>1, <1>13, SMT DEF StoreFails, keys
  <2> QED
    BY <1>13, <2>1, HitGoto, Zenon DEF StoreFails
<1>14. CASE ExitSlot(d)
  BY <1>2, <1>14, HitGoto, Zenon DEF ExitSlot, HitInv, Goto, keys
<1>15. CASE cache_set(d)
  <2>1. Text[d] \in object
    BY <1>15, Zenon DEF cache_set, Goto, HitInv
  <2>2. object \subseteq object' /\ cache' \subseteq object' /\ Text[d] \in object'
    BY <1>1, <1>15, <2>1, Zenon DEF cache_set
  <2> QED
    BY <1>15, <2>2, HitGoto, Zenon DEF cache_set
<1>16. CASE CacheSetFails(d)
  <2>1. Text[d] \in object
    BY <1>16, Zenon DEF CacheSetFails, Goto, HitInv
  <2>2. object \subseteq object' /\ cache' \subseteq object'
    BY <1>1, <1>16, <2>1, SMT DEF CacheSetFails
  <2> QED
    BY <1>16, <2>2, HitGoto, Zenon DEF CacheSetFails
<1>17. CASE release_inflight(d)
  <2>1. CASE Routed(d, "unlock!")
    BY <1>2, <1>17, <2>1, HitRouted, Zenon DEF release_inflight
  <2>2. CASE Goto(d, "unlock", "claim")
    <3>1. Text[d] \in object'
      BY <1>17, <2>2, Zenon DEF release_inflight, Goto, HitInv
    <3> QED
      BY <1>2, <1>17, <2>2, <3>1, HitGoto, Zenon DEF release_inflight
  <2> QED
    BY <1>17, <2>1, <2>2, Zenon DEF release_inflight
<1> QED
  BY <1>3, <1>4, <1>5, <1>6, <1>7, <1>8, <1>9, <1>10, <1>11, <1>12, <1>13, <1>14,
     <1>15, <1>16, <1>17, Zenon DEF Synthesise

\* Whatever is cached, and every key a handler records, has its object in the store
\* (cache_set comes after put_bytes, and both end the handler when they raise).
THEOREM CacheHits == TtsSpec => []HitHasAudio
<1>1. TtsInit => HitInv
  BY Zenon DEF TtsInit, HitInv
<1>2. TtsTypeOK /\ HitInv /\ [TtsNext]_ttsvars => HitInv'
  <2> SUFFICES ASSUME TtsTypeOK, HitInv, [TtsNext]_ttsvars
               PROVE  HitInv'
    OBVIOUS
  <2>1. ASSUME UNCHANGED <<pc, object>>, cache' \subseteq cache
        PROVE  HitInv'
    BY <2>1, Zenon DEF HitInv
  <2>2. CASE UNCHANGED ttsvars
    BY <2>1, <2>2, Zenon DEF ttsvars, keys
  <2>3. CASE ReturnToken \/ Wipe
    BY <2>1, <2>3, Zenon DEF ReturnToken, Wipe, keys
  <2>4. ASSUME NEW c \in Content, LockExpires(c) \/ CacheExpires(c)
        PROVE  HitInv'
    BY <2>1, <2>4, Zenon DEF LockExpires, CacheExpires
  <2> QED
    BY <2>2, <2>3, <2>4, HandlerKeepsHit, Zenon DEF TtsNext
<1>3. HitInv => HitHasAudio
  BY Zenon DEF HitInv, HitHasAudio
<1> QED
  BY <1>1, <1>2, <1>3, TtsTypes, PTL DEF TtsSpec

-----------------------------------------------------------------------------
(* SingleFlight.                                                           *)

\* What SingleFlight says of one content.
Flight(c) == Cardinality(Synths(c)) <= (IF c \in lock THEN 1 ELSE 0) + passed[c]

LEMMA SynthsFinite ==
  ASSUME TtsAssumption, NEW c
  PROVE  /\ IsFiniteSet(Synths(c)) /\ Cardinality(Synths(c)) \in Nat
         /\ IsFiniteSet(Synths(c)') /\ Cardinality(Synths(c))' \in Nat
<1>1. Synths(c) \subseteq Delivery /\ Synths(c)' \subseteq Delivery
  BY Zenon DEF Synths
<1>2. IsFiniteSet(Synths(c)) /\ IsFiniteSet(Synths(c)')
  BY <1>1, FS_Subset, Zenon DEF TtsAssumption
<1> QED
  BY <1>2, FS_CardinalityType, Zenon

\* A step that adds no synthesiser and ends no lock.
LEMMA QuietFlight ==
  ASSUME TtsAssumption, TtsTypeOK, NEW c \in Content, Flight(c),
         Synths(c)' \subseteq Synths(c),
         c \in lock => c \in lock', passed' = passed
  PROVE  Flight(c)'
<1>1. Cardinality(Synths(c)') <= Cardinality(Synths(c))
  BY SynthsFinite, FS_Subset, Zenon
<1>2. passed[c] \in Nat
  BY Zenon DEF TtsTypeOK
<1>3. /\ Cardinality(Synths(c)) \in Nat /\ Cardinality(Synths(c)') \in Nat
  BY SynthsFinite, Zenon
<1> QED
  BY <1>1, <1>2, <1>3, SMT DEF Flight

\* A synthesiser leaves, and may take the lock with it.
LEMMA LastFlight ==
  ASSUME TtsAssumption, TtsTypeOK, NEW c \in Content, Flight(c),
         NEW d \in Synths(c), Synths(c)' = Synths(c) \ {d}, passed' = passed
  PROVE  Flight(c)'
<1>1. Cardinality(Synths(c)') = Cardinality(Synths(c)) - 1
  BY SynthsFinite, FS_RemoveElement, Zenon
<1>2. passed[c] \in Nat
  BY Zenon DEF TtsTypeOK
<1>3. /\ Cardinality(Synths(c)) \in Nat /\ Cardinality(Synths(c)') \in Nat
  BY SynthsFinite, Zenon
<1> QED
  BY <1>1, <1>2, <1>3, SMT DEF Flight

\* A handler that finds no lock takes it and joins the synthesisers.
LEMMA FirstFlight ==
  ASSUME TtsAssumption, TtsTypeOK, NEW c \in Content, Flight(c),
         NEW d, Synths(c)' \subseteq Synths(c) \cup {d},
         c \notin lock, c \in lock', passed' = passed
  PROVE  Flight(c)'
<1>1. /\ IsFiniteSet(Synths(c) \cup {d})
      /\ Cardinality(Synths(c) \cup {d}) \in Nat
      /\ Cardinality(Synths(c) \cup {d}) <= Cardinality(Synths(c)) + 1
  <2>1. Cardinality(Synths(c)) \in Nat /\ IsFiniteSet(Synths(c))
    BY SynthsFinite, Zenon
  <2>2. /\ IsFiniteSet(Synths(c) \cup {d})
        /\ Cardinality(Synths(c) \cup {d}) = IF d \in Synths(c)
                 THEN Cardinality(Synths(c)) ELSE Cardinality(Synths(c)) + 1
    BY <2>1, FS_AddElement, Zenon
  <2> QED
    BY <2>1, <2>2, SMT
<1>2. Cardinality(Synths(c)') <= Cardinality(Synths(c) \cup {d})
  BY <1>1, FS_Subset, Zenon
<1>3. passed[c] \in Nat
  BY Zenon DEF TtsTypeOK
<1>4. /\ Cardinality(Synths(c)) \in Nat /\ Cardinality(Synths(c)') \in Nat
  BY SynthsFinite, Zenon
<1> QED
  BY <1>1, <1>2, <1>3, <1>4, SMT DEF Flight

\* A lock that ends under a synthesiser is counted.
LEMMA LostFlight ==
  ASSUME TtsAssumption, TtsTypeOK, NEW c \in Content, Flight(c), NEW C,
         UNCHANGED pc, Unlocked(C)
  PROVE  Flight(c)'
<1>1. Synths(c)' = Synths(c)
  BY Zenon DEF Synths
<1>2. passed[c] \in Nat /\ Cardinality(Synths(c)) \in Nat
  BY SynthsFinite, Zenon DEF TtsTypeOK
<1>3. passed'[c] = IF c \in C \cap lock /\ Synths(c) # {}
                     THEN passed[c] + 1 ELSE passed[c]
  BY Zenon DEF Unlocked
<1>4. lock' = lock \ C
  BY Zenon DEF Unlocked
<1>5. CASE Synths(c) = {}
  <2>1. Cardinality(Synths(c)) = 0
    BY <1>5, FS_EmptySet, Zenon
  <2> QED
    BY <1>1, <1>2, <1>3, <1>4, <2>1, SMT DEF Flight
<1>6. CASE Synths(c) # {}
  <2>1. CASE c \in C \cap lock
    BY <1>1, <1>2, <1>3, <1>4, <1>6, <2>1, SMT DEF Flight
  <2>2. CASE c \notin C \cap lock
    BY <1>1, <1>2, <1>3, <1>4, <1>6, <2>2, SMT DEF Flight
  <2> QED
    BY <2>1, <2>2
<1> QED
  BY <1>5, <1>6, Zenon

\* Only a step from outside into the synthesis adds a synthesiser ...
LEMMA StaysOut ==
  ASSUME TtsTypeOK, NEW c, NEW d \in Delivery, NEW from, NEW to,
         Goto(d, from, to), to \in Synthesising => from \in Synthesising
  PROVE  Synths(c)' \subseteq Synths(c)
<1> SUFFICES ASSUME NEW e \in Delivery, Text[e] = c, pc'[e] \in Synthesising
             PROVE  pc[e] \in Synthesising
  BY Zenon DEF Synths
<1>1. CASE e = d
  BY <1>1, Zenon DEF TtsTypeOK, Goto
<1>2. CASE e # d
  BY <1>2, Zenon DEF TtsTypeOK, Goto
<1> QED
  BY <1>1, <1>2, Zenon

\* ... and a step out of it removes one, of its own content.
LEMMA Leaves ==
  ASSUME TtsTypeOK, NEW d \in Delivery, NEW from \in Synthesising, NEW to,
         Goto(d, from, to), to \notin Synthesising
  PROVE  d \in Synths(Text[d]) /\ Synths(Text[d])' = Synths(Text[d]) \ {d}
<1>1. d \in Synths(Text[d])
  BY Zenon DEF Synths, Goto
<1>2. ASSUME NEW e \in Delivery
      PROVE  pc'[e] = IF e = d THEN to ELSE pc[e]
  BY Zenon DEF TtsTypeOK, Goto
<1>3. Synths(Text[d])' = Synths(Text[d]) \ {d}
  BY <1>2, Zenon DEF Synths
<1> QED
  BY <1>1, <1>3, Zenon

\* The handlers' steps other than the ones on the lock.
LEMMA HandlerKeepsFlight ==
  ASSUME TtsAssumption, TtsTypeOK, NEW c \in Content, Flight(c), NEW d \in Delivery,
         \/ Begin(d) \/ cache_get(d) \/ AcquireFails(d) \/ Poll(d)
         \/ WaitTimeout(d) \/ Claim(d) \/ Raises(d) \/ Crash(d)
         \/ EnterSlot(d) \/ StoreAudio(d) \/ ExitSlot(d) \/ cache_set(d)
         \/ SlotFails(d) \/ StoreFails(d) \/ CacheSetFails(d)
  PROVE  Flight(c)'
<1>1. ASSUME NEW from, Routed(d, from)
      PROVE  Synths(c)' \subseteq Synths(c)
  <2>1. (IF retry[d] + 1 > MAX_RETRIES THEN "dead" ELSE "queued") \notin Synthesising
    BY Zenon DEF Synthesising, InSlot
  <2> QED
    BY <1>1, <2>1, StaysOut, Zenon DEF Routed
<1>2. CASE AcquireFails(d)
  BY <1>1, <1>2, QuietFlight, SMT DEF AcquireFails
<1>3. CASE WaitTimeout(d) \/ Raises(d)
  BY <1>1, <1>3, QuietFlight, Zenon DEF WaitTimeout, Raises, keys
<1>4. CASE Begin(d) \/ Poll(d) \/ Claim(d) \/ Crash(d)
  <2>1. \/ Goto(d, "queued", "get") \/ Goto(d, "wait", "claim")
        \/ Goto(d, "claim", "done") \/ Goto(d, pc[d], "queued")
    BY <1>4, Zenon DEF Begin, Poll, Claim, Crash
  <2>2. Synths(c)' \subseteq Synths(c)
    BY <2>1, StaysOut, Zenon DEF Synthesising, InSlot
  <2> QED
    BY <1>4, <2>2, QuietFlight, Zenon DEF Begin, Poll, Claim, Crash, keys
<1>5. CASE cache_get(d)
  <2>1. (IF Text[d] \in cache THEN "claim" ELSE "lock") \notin Synthesising
    BY Zenon DEF Synthesising, InSlot
  <2> QED
    BY <1>5, <2>1, StaysOut, QuietFlight, Zenon DEF cache_get, keys
<1>6. CASE \/ EnterSlot(d) \/ StoreAudio(d) \/ ExitSlot(d) \/ cache_set(d)
           \/ SlotFails(d) \/ StoreFails(d) \/ CacheSetFails(d)
  <2>1. PICK from \in Synthesising, to \in Synthesising : Goto(d, from, to)
    BY <1>6, Zenon
    DEF EnterSlot, StoreAudio, ExitSlot, cache_set, SlotFails, StoreFails,
        CacheSetFails, Synthesising, InSlot
  <2>2. Synths(c)' \subseteq Synths(c)
    BY <2>1, StaysOut, Zenon
  <2> QED
    BY <1>6, <2>2, QuietFlight, Zenon
    DEF EnterSlot, StoreAudio, ExitSlot, cache_set, SlotFails, StoreFails,
        CacheSetFails, keys
<1> QED
  BY <1>2, <1>3, <1>4, <1>5, <1>6, Zenon

\* The steps on the lock: one handler comes in with a lock, one goes out with it.
LEMMA LockKeepsFlight ==
  ASSUME TtsAssumption, TtsTypeOK, NEW c \in Content, Flight(c), NEW d \in Delivery,
         acquire_inflight(d) \/ release_inflight(d) \/ ReleaseFails(d)
  PROVE  Flight(c)'
<1>1. CASE acquire_inflight(d) /\ (Text[d] \in lock \/ Text[d] # c)
  <2>1. Synths(c)' \subseteq Synths(c)
    <3>1. CASE Text[d] \in lock
      BY <1>1, <3>1, StaysOut, Zenon DEF acquire_inflight, Synthesising, InSlot
    <3>2. CASE Text[d] # c
      <4>1. ASSUME NEW e \in Delivery, e # d
            PROVE  pc'[e] = pc[e]
        BY <1>1, <4>1, Zenon DEF TtsTypeOK, acquire_inflight, Goto
      <4> QED
        BY <3>2, <4>1, Zenon DEF Synths
    <3> QED
      BY <1>1, <3>1, <3>2, Zenon
  <2> QED
    BY <1>1, <2>1, QuietFlight, Zenon DEF acquire_inflight
<1>2. CASE acquire_inflight(d) /\ Text[d] \notin lock /\ Text[d] = c
  <2>1. ASSUME NEW e \in Delivery, e # d
        PROVE  pc'[e] = pc[e]
    BY <1>2, <2>1, Zenon DEF TtsTypeOK, acquire_inflight, Goto
  <2>2. Synths(c)' \subseteq Synths(c) \cup {d}
    BY <2>1, Zenon DEF Synths
  <2> QED
    BY <1>2, <2>2, FirstFlight, Zenon DEF acquire_inflight
<1>3. CASE release_inflight(d) \/ ReleaseFails(d)
  <2>1. PICK from \in {"unlock", "unlock!"}, to \in {"claim", "dead", "queued"} :
          Goto(d, from, to)
    <3>1. (IF retry[d] + 1 > MAX_RETRIES THEN "dead" ELSE "queued")
            \in {"claim", "dead", "queued"}
      BY Zenon
    <3> QED
      BY <1>3, <3>1, Zenon DEF release_inflight, ReleaseFails, Routed
  <2>2. from \in Synthesising /\ to \notin Synthesising
    BY <2>1, Zenon DEF Synthesising, InSlot
  <2>3. passed' = passed
    BY <1>3, Zenon DEF release_inflight, ReleaseFails
  <2>4. CASE Text[d] = c
    BY <2>1, <2>2, <2>3, <2>4, Leaves, LastFlight, Zenon
  <2>5. CASE Text[d] # c
    <3>1. c \in lock => c \in lock'
      BY <1>3, <2>5, SMT DEF release_inflight, ReleaseFails
    <3> QED
      BY <2>1, <2>2, <2>3, <3>1, StaysOut, QuietFlight, Zenon
  <2> QED
    BY <2>4, <2>5, Zenon
<1> QED
  BY <1>1, <1>2, <1>3, Zenon

\* Identical text is synthesised by at most one handler at a time, plus one for each
\* time its lock ended under a live synthesiser (acquire_inflight, and the
\* unconditional DEL of release_inflight).
THEOREM OneSynthesiser == TtsSpec => []SingleFlight
<1> USE TtsAssumption
<1>1. TtsInit => SingleFlight
  <2> SUFFICES ASSUME TtsInit, NEW c \in Content
               PROVE  Cardinality(Synths(c))
                        <= (IF c \in lock THEN 1 ELSE 0) + passed[c]
    BY Zenon DEF SingleFlight
  <2>1. Synths(c) = {}
    BY Zenon DEF TtsInit, Synths, Synthesising, InSlot
  <2>2. Cardinality(Synths(c)) = 0
    BY <2>1, FS_EmptySet, Zenon
  <2>3. passed[c] = 0 /\ c \notin lock
    BY Zenon DEF TtsInit
  <2> QED
    BY <2>2, <2>3, SMT
<1>2. TtsTypeOK /\ SingleFlight /\ [TtsNext]_ttsvars => SingleFlight'
  <2> SUFFICES ASSUME TtsTypeOK, [TtsNext]_ttsvars, NEW c \in Content, Flight(c)
               PROVE  Flight(c)'
    BY Zenon DEF SingleFlight, Flight
  <2>1. ASSUME UNCHANGED <<pc, lock, passed>>
        PROVE  Flight(c)'
    BY <2>1, QuietFlight, Zenon DEF Synths
  <2>2. CASE UNCHANGED ttsvars
    BY <2>1, <2>2, Zenon DEF ttsvars, keys
  <2>3. CASE ReturnToken
    BY <2>1, <2>3, Zenon DEF ReturnToken, keys
  <2>4. CASE Wipe
    BY <2>4, LostFlight, Zenon DEF Wipe
  <2>5. ASSUME NEW e \in Content, LockExpires(e)
        PROVE  Flight(c)'
    BY <2>5, LostFlight, Zenon DEF LockExpires
  <2>6. ASSUME NEW e \in Content, CacheExpires(e)
        PROVE  Flight(c)'
    BY <2>1, <2>6, Zenon DEF CacheExpires
  <2> QED
    BY <2>2, <2>3, <2>4, <2>5, <2>6, HandlerKeepsFlight, LockKeepsFlight, Zenon
    DEF TtsNext, Synthesise
<1> QED
  BY <1>1, <1>2, TtsTypes, PTL DEF TtsSpec

-----------------------------------------------------------------------------
(* The timed specification.                                                *)

\* With durations, TTLs and the ladder's delays the handlers take only steps that
\* they take without, so both theorems hold of TtsLadder.
THEOREM LadderImplementsTts == LadderSpec => TtsSpec
<1>1. LadderInit => TtsInit
  BY Zenon DEF LadderInit
<1>2. [LadderNext]_laddervars => [TtsNext]_ttsvars
  <2>1. ASSUME NEW d \in Delivery,
               \/ TimedBegin(d) \/ TimedAcquire(d)
               \/ TimedWaitTimeout(d) \/ TimedStep(d)
        PROVE  TtsNext
    BY <2>1, Zenon
    DEF TimedBegin, TimedAcquire, TimedWaitTimeout, TimedStep, TtsNext
  <2>2. CASE TimedReturn \/ TimedLoss \/ \E c \in Content : TimedLockExpires(c)
    BY <2>2, Zenon DEF TimedReturn, TimedLoss, TimedLockExpires, TtsNext
  <2>3. CASE Tick \/ UNCHANGED laddervars
    BY <2>3, Zenon DEF Tick, laddervars
  <2> QED
    BY <2>1, <2>2, <2>3, Zenon DEF LadderNext
<1> QED
  BY <1>1, <1>2, PTL DEF LadderSpec, TtsSpec

-----------------------------------------------------------------------------
(* Seconds: the types of TtsLadder.                                        *)

\* A delay of the ladder is a number of seconds, whatever the retry.
LEMMA DelayType ==
  ASSUME NEW s \in Scenario, NEW n \in Nat, n # 0
  PROVE  Delay(s, n) \in Nat
<1>1. s.delays \in Seq(Nat) /\ s.delays # <<>>
  BY LadderAssumption, Zenon DEF LadderAssumption
<1> DEFINE i == IF n < Len(s.delays) THEN n ELSE Len(s.delays)
<1>2. i \in 1..Len(s.delays)
  BY <1>1, SMT
<1>3. s.delays[i] \in Nat
  BY <1>1, <1>2, SMT
<1> QED
  BY <1>3, Zenon DEF Delay

\* Climb is the function its recursive definition describes.
LEMMA ClimbSteps ==
  ASSUME NEW s \in Scenario
  PROVE  /\ Climb(s) \in [Nat -> Nat]
         /\ Climb(s)[0] = 0
         /\ \A n \in Nat : Climb(s)[n + 1] = Climb(s)[n] + s.wait + Delay(s, n + 1)
<1> DEFINE step == [p \in Nat \X Nat |-> p[2] + s.wait + Delay(s, p[1] + 1)]
           rhs(f) == [n \in Nat |-> IF n = 0 THEN 0
                                     ELSE f[n - 1] + s.wait + Delay(s, n)]
<1>1. s.wait \in Nat /\ 0 \in Nat
  BY LadderAssumption, SMT DEF LadderAssumption
<1>2. ASSUME NEW n \in Nat
      PROVE  Delay(s, n + 1) \in Nat
  <2>1. n + 1 \in Nat /\ n + 1 # 0
    BY SMT
  <2> QED
    BY <2>1, DelayType, Zenon
<1>3. step \in [Nat \X Nat -> Nat]
  <2>1. ASSUME NEW p \in Nat \X Nat
        PROVE  p[2] + s.wait + Delay(s, p[1] + 1) \in Nat
    <3>1. p[1] \in Nat /\ p[2] \in Nat
      BY SMT
    <3>2. Delay(s, p[1] + 1) \in Nat
      BY <1>2, <3>1, Zenon
    <3> QED
      BY <1>1, <3>1, <3>2, SMT
  <2> QED
    BY <2>1, Zenon
<1>4. PICK f : IsRecursive(f, 0, step, Nat)
  <2> HIDE DEF step
  <2> QED
    BY <1>1, <1>3, PrimitiveRecursion, Zenon
<1>5. f = rhs(f)
  <2>1. ASSUME NEW n \in Nat, n # 0
        PROVE  step[<<n - 1, f[n - 1]>>] = f[n - 1] + s.wait + Delay(s, n)
    <3>0. n - 1 \in Nat /\ (n - 1) + 1 = n
      BY <2>1, SMT
    <3>1. f[n - 1] \in Nat
      BY <1>4, <3>0, Zenon DEF IsRecursive
    <3>2. <<n - 1, f[n - 1]>> \in Nat \X Nat
      BY <3>0, <3>1, Zenon
    <3> QED
      BY <3>0, <3>2, Zenon
  <2> HIDE DEF step
  <2>2. \A n \in Nat : f[n] = IF n = 0 THEN 0 ELSE step[<<n - 1, f[n - 1]>>]
    BY <1>4, Zenon DEF IsRecursive
  <2>3. \A n \in Nat : f[n] = IF n = 0 THEN 0 ELSE f[n - 1] + s.wait + Delay(s, n)
    BY <2>1, <2>2, Zenon
  <2>4. f \in [Nat -> Nat]
    BY <1>4, Zenon DEF IsRecursive
  <2> QED
    BY <2>3, <2>4, Zenon
<1>6. Climb(s) = rhs(Climb(s))
  BY <1>5, Zenon DEF Climb
<1>7. \A n \in Nat : Climb(s)[n] = IF n = 0 THEN 0
                        ELSE Climb(s)[n - 1] + s.wait + Delay(s, n)
  BY <1>6, Zenon
<1>8. Climb(s)[0] = 0
  BY <1>1, <1>7, Zenon
<1>9. ASSUME NEW n \in Nat
      PROVE  Climb(s)[n + 1] = Climb(s)[n] + s.wait + Delay(s, n + 1)
  <2>1. n + 1 \in Nat /\ n + 1 # 0 /\ (n + 1) - 1 = n
    BY SMT
  <2> QED
    BY <1>7, <2>1, Zenon
<1>10. \A n \in Nat : n \in {m \in Nat : Climb(s)[m] \in Nat}
  <2>1. ASSUME NEW n \in Nat, Climb(s)[n] \in Nat
        PROVE  n + 1 \in Nat /\ Climb(s)[n + 1] \in Nat
    BY <1>1, <1>2, <1>9, <2>1, SMT
  <2> QED
    BY <1>1, <1>8, <2>1, Induction, Zenon
<1>11. Climb(s) \in [Nat -> Nat]
  BY <1>6, <1>10, Zenon
<1> QED
  BY <1>8, <1>9, <1>11, Zenon

\* What a step sets the timer of its handler to, by where the step leads.
LEMMA TimerValue ==
  ASSUME NEW d
  PROVE  /\ pc'[d] = "wait" => Timer(d) = sc.wait
         /\ pc'[d] = "slot" => Timer(d) = sc.patience
         /\ pc'[d] = "synth" => Timer(d) = timer[d]
         /\ pc'[d] = "queued" /\ retry'[d] # retry[d] => Timer(d) = Delay(sc, retry'[d])
         /\ pc'[d] \notin {"wait", "slot", "synth"}
              /\ ~(pc'[d] = "queued" /\ retry'[d] # retry[d]) => Timer(d) = 0
<1>1. CASE pc'[d] = "wait"
  BY <1>1, Zenon DEF Timer
<1>2. CASE pc'[d] = "slot"
  BY <1>2, Zenon DEF Timer
<1>3. CASE pc'[d] = "synth"
  BY <1>3, Zenon DEF Timer
<1>4. CASE pc'[d] = "queued" /\ retry'[d] # retry[d]
  BY <1>4, Zenon DEF Timer
<1>5. CASE pc'[d] \notin {"wait", "slot", "synth"}
              /\ ~(pc'[d] = "queued" /\ retry'[d] # retry[d])
  BY <1>5, Zenon DEF Timer
<1> QED
  BY <1>1, <1>2, <1>3, <1>4, <1>5, Zenon

\* The durations of a scenario.
LEMMA ScenarioTypes ==
  ASSUME NEW s \in Scenario
  PROVE  s.ttl \in Nat /\ s.wait \in Nat /\ s.wait # 0 /\ s.patience \in Nat
BY LadderAssumption, Zenon DEF LadderAssumption

\* A step of d leaves the other timers, and the TTL of a lock that stays held.
LEMMA TimedStays ==
  ASSUME LadderTypeOK, NEW d \in Delivery, Timed(d)
  PROVE  /\ timer'[d] = Timer(d)
         /\ \A e \in Delivery : e # d => timer'[e] = timer[e]
         /\ \A c \in Content : c \in lock /\ c \in lock' => ttl'[c] = ttl[c]
         /\ ttl' \in [Content -> Nat]
         /\ sc' = sc
<1>1. timer' = [timer EXCEPT ![d] = Timer(d)] /\ sc' = sc
  BY Zenon DEF Timed, Permitted
<1>2. timer'[d] = Timer(d) /\ \A e \in Delivery : e # d => timer'[e] = timer[e]
  BY <1>1, Zenon DEF LadderTypeOK
<1>3. \A c \in Content : ttl'[c] = CASE c \notin lock' -> 0
                                     [] c \in lock -> ttl[c]
                                     [] OTHER -> sc.ttl
  BY Zenon DEF Timed
<1>4. \A c \in Content : c \in lock /\ c \in lock' => ttl'[c] = ttl[c]
  BY <1>3, Zenon
<1>5. ASSUME NEW c \in Content
      PROVE  (CASE c \notin lock' -> 0 [] c \in lock -> ttl[c] [] OTHER -> sc.ttl)
               \in Nat
  <2>1. ttl[c] \in Nat /\ sc.ttl \in Nat /\ 0 \in Nat
    BY ScenarioTypes, SMT DEF LadderTypeOK
  <2>2. CASE c \notin lock'
    BY <2>1, <2>2, Zenon
  <2>3. CASE c \in lock' /\ c \in lock
    BY <2>1, <2>3, Zenon
  <2>4. CASE c \in lock' /\ c \notin lock
    BY <2>1, <2>4, Zenon
  <2> QED
    BY <2>2, <2>3, <2>4, Zenon
<1>6. ttl' \in [Content -> Nat]
  BY <1>5, Zenon DEF Timed
<1> QED
  BY <1>1, <1>2, <1>4, <1>6, Zenon

\* Every step raises the retry count of its handler by one, or leaves it.
LEMMA RetryGrows ==
  ASSUME TtsTypeOK, NEW d \in Delivery,
         \/ TimedBegin(d) \/ TimedAcquire(d) \/ TimedWaitTimeout(d) \/ TimedStep(d)
  PROVE  retry'[d] \in {retry[d], retry[d] + 1}
<1>1. ASSUME NEW from, Routed(d, from)
      PROVE  retry'[d] = retry[d] + 1
  BY <1>1, Zenon DEF Routed, TtsTypeOK
<1>2. CASE TimedBegin(d) \/ TimedAcquire(d)
  BY <1>2, Zenon DEF TimedBegin, TimedAcquire, Begin, acquire_inflight
<1>3. CASE TimedWaitTimeout(d)
  BY <1>1, <1>3, Zenon DEF TimedWaitTimeout, WaitTimeout
<1>4. CASE TimedStep(d)
  <2>1. CASE cache_get(d) \/ Poll(d) \/ Claim(d) \/ Crash(d)
    BY <2>1, Zenon DEF cache_get, Poll, Claim, Crash
  <2>2. CASE AcquireFails(d) \/ Raises(d)
    BY <1>1, <2>2, Zenon DEF AcquireFails, Raises
  <2>3. CASE \/ EnterSlot(d) \/ StoreAudio(d) \/ ExitSlot(d) \/ cache_set(d)
             \/ SlotFails(d) \/ StoreFails(d) \/ CacheSetFails(d)
    BY <2>3, Zenon DEF EnterSlot, StoreAudio, ExitSlot, cache_set, SlotFails,
         StoreFails, CacheSetFails
  <2>4. CASE release_inflight(d) \/ ReleaseFails(d)
    BY <1>1, <2>4, Zenon DEF release_inflight, ReleaseFails
  <2> QED
    BY <1>4, <2>1, <2>2, <2>3, <2>4, Zenon DEF TimedStep, Synthesise
<1> QED
  BY <1>2, <1>3, <1>4, Zenon

\* The timer a step leaves is a number of seconds.
LEMMA TimerType ==
  ASSUME TtsTypeOK, TtsTypeOK', LadderTypeOK, NEW d \in Delivery,
         \/ TimedBegin(d) \/ TimedAcquire(d) \/ TimedWaitTimeout(d) \/ TimedStep(d)
  PROVE  Timer(d) \in Nat
<1>1. sc.wait \in Nat /\ sc.patience \in Nat /\ timer[d] \in Nat /\ 0 \in Nat
  BY ScenarioTypes, SMT DEF LadderTypeOK
<1>2. ASSUME retry'[d] # retry[d]
      PROVE  Delay(sc, retry'[d]) \in Nat
  <2>1. retry'[d] = retry[d] + 1
    BY <1>2, RetryGrows, Zenon
  <2>2. retry'[d] \in Nat /\ retry'[d] # 0
    BY <2>1, SMT DEF TtsTypeOK
  <2> QED
    BY <2>2, DelayType, Zenon DEF LadderTypeOK
<1>3. CASE pc'[d] \in {"wait", "slot", "synth"}
  BY <1>1, <1>3, TimerValue, Zenon
<1>4. CASE pc'[d] = "queued" /\ retry'[d] # retry[d]
  BY <1>2, <1>4, TimerValue, Zenon
<1> QED
  BY <1>1, <1>3, <1>4, TimerValue, Zenon

\* The types of the variables that TtsLadder adds.
THEOREM LadderTypes == LadderSpec => []LadderTypeOK
<1>1. LadderInit => LadderTypeOK
  <2>1. 0 \in Nat
    BY SMT
  <2> QED
    BY <2>1, Zenon DEF LadderInit, LadderTypeOK
<1>2. TtsTypeOK /\ TtsTypeOK' /\ LadderTypeOK /\ [LadderNext]_laddervars => LadderTypeOK'
  <2> SUFFICES ASSUME TtsTypeOK, TtsTypeOK', LadderTypeOK, [LadderNext]_laddervars
               PROVE  LadderTypeOK'
    BY Zenon
  <2>0. Text \in [Delivery -> Content]
    BY TtsAssumption, Zenon DEF TtsAssumption
  <2>1. ASSUME NEW d \in Delivery,
               \/ TimedBegin(d) \/ TimedAcquire(d)
               \/ TimedWaitTimeout(d) \/ TimedStep(d)
        PROVE  LadderTypeOK'
    <3>1. Timed(d)
      BY <2>1, Zenon DEF TimedBegin, TimedAcquire, TimedWaitTimeout, TimedStep
    <3>2. ttl' \in [Content -> Nat] /\ sc' = sc
      BY <3>1, TimedStays, Zenon
    <3>3. timer' \in [Delivery -> Nat]
      <4>1. Timer(d) \in Nat
        BY <2>1, TimerType, Zenon
      <4> QED
        BY <3>1, <4>1, Zenon DEF Timed, LadderTypeOK
    <3>4. met' \in [Delivery -> Nat]
      <4>1. CASE TimedAcquire(d)
        <5>1. ttl[Text[d]] \in Nat
          BY <2>0, Zenon DEF LadderTypeOK
        <5> QED
          BY <4>1, <5>1, Zenon DEF TimedAcquire, LadderTypeOK
      <4> QED
        BY <2>1, <4>1, Zenon
        DEF TimedBegin, TimedWaitTimeout, TimedStep, LadderTypeOK
    <3>5. arrived' \subseteq Delivery
      BY <2>1, Zenon
      DEF TimedBegin, TimedAcquire, TimedWaitTimeout, TimedStep, LadderTypeOK
    <3> QED
      BY <3>2, <3>3, <3>4, <3>5, Zenon DEF LadderTypeOK
  <2>2. CASE TimedLoss
    <3>1. \A c \in Content : ttl[c] \in Nat /\ 0 \in Nat
      BY SMT DEF LadderTypeOK
    <3>2. ttl' \in [Content -> Nat]
      BY <2>2, <3>1, Zenon DEF TimedLoss
    <3> QED
      BY <2>2, <3>2, Zenon DEF TimedLoss, Permitted, LadderTypeOK
  <2>3. CASE Tick
    <3>1. \A n \in Nat : Less(n) \in Nat
      BY SMT DEF Less
    <3>2. timer' \in [Delivery -> Nat] /\ ttl' \in [Content -> Nat]
      BY <2>3, <3>1, Zenon DEF Tick, LadderTypeOK
    <3> QED
      BY <2>3, <3>2, Zenon DEF Tick, LadderTypeOK
  <2>4. ASSUME UNCHANGED ladder
        PROVE  LadderTypeOK'
    BY <2>4, Zenon DEF ladder, LadderTypeOK
  <2>5. CASE \/ UNCHANGED laddervars \/ TimedReturn
             \/ \E c \in Content : TimedLockExpires(c)
    BY <2>4, <2>5, Zenon DEF laddervars, TimedReturn, TimedLockExpires
  <2> QED
    BY <2>1, <2>2, <2>3, <2>5, Zenon DEF LadderNext
<1> QED
  BY <1>1, <1>2, TtsTypes, LadderImplementsTts, PTL DEF LadderSpec

-----------------------------------------------------------------------------
(* The steps of TtsLadder when nothing raises and nothing is lost.         *)

\* The states in which a handler has its patience as a timer.
Timing == {"slot", "synth"}

\* Nothing has raised and nothing has been lost.
Calm == faults = 0 /\ losses = 0

\* A handler to which nothing has happened has cached its audio before it releases
\* the lock, takes no longer than its patience, and has retries left.
Tame(d) ==
  /\ pc[d] \notin {"exit!", "unlock!"}
  /\ pc[d] = "unlock" => Text[d] \in cache
  /\ pc[d] \in Timing => timer[d] <= sc.patience
  /\ pc[d] \in {"get", "lock"} => timer[d] = 0
  /\ pc[d] # "dead" => retry[d] <= MAX_RETRIES

\* Then, and without crashes, whoever has a lock synthesises for it.
CalmInv ==
  Calm =>
    /\ \A d \in Delivery : Tame(d)
    /\ crashes = 0 => \A c \in lock : Synths(c) # {}

\* The handler of e stays where it is.
Same(e) ==
  /\ pc'[e] = pc[e] /\ retry'[e] = retry[e]
  /\ timer'[e] = timer[e] /\ met'[e] = met[e]

\* The other handlers stay where they are.
Others(d) == \A e \in Delivery : e # d => Same(e)

\* Whoever synthesises goes on, or has cached its audio.
GoOn ==
  \A s \in Delivery :
    pc[s] \in Synthesising =>
      \/ Text[s] \in cache' /\ Text[s] \notin lock'
      \/ /\ pc'[s] \in Synthesising
         /\ pc'[s] \in Timing => pc[s] \in Timing /\ timer'[s] = timer[s]

\* Nothing is lost; a lock keeps its TTL, and a new one has a new synthesiser.
KeysKept ==
  /\ cache \subseteq cache' /\ sc' = sc
  /\ \A c \in lock' : \/ c \in lock /\ ttl'[c] = ttl[c]
                      \/ \E s \in Synths(c)' : pc[s] = "lock"

\* The four ways in which d can move on.  It goes where it no longer retries: it
\* synthesises, claims or is done.
Elsewhere(d) ==
  pc'[d] \notin {"queued", "get", "lock", "wait", "dead"} /\ retry'[d] = retry[d]

\* It comes nearer to the lock.
Nears(d) ==
  /\ pc[d] \in {"queued", "get"} /\ pc'[d] \in {"get", "lock"}
  /\ retry'[d] = retry[d] /\ met'[d] = met[d]
  /\ timer[d] = 0 /\ timer'[d] = 0

\* It loses the race for the lock and starts to wait.
Loses(d) ==
  /\ pc[d] = "lock" /\ pc'[d] = "wait"
  /\ Text[d] \in lock /\ lock' = lock /\ cache' = cache
  /\ retry'[d] = retry[d]
  /\ met'[d] = IF retry[d] = 0 THEN ttl[Text[d]] ELSE met[d]
  /\ timer[d] = 0 /\ timer'[d] = sc.wait

\* Its wait ends without audio and it climbs the ladder, or falls off its end.
Tires(d) ==
  /\ pc[d] = "wait"
  /\ pc'[d] = IF retry[d] + 1 > MAX_RETRIES THEN "dead" ELSE "queued"
  /\ retry'[d] = retry[d] + 1 /\ met'[d] = met[d]
  /\ timer[d] = 0
  /\ pc'[d] = "queued" => timer'[d] = Delay(sc, retry[d] + 1)

\* In calm, no step raises and no step loses anything.
LEMMA NoFault ==
  ASSUME TtsTypeOK, Calm'
  PROVE  ~Fault /\ ~Loss
BY SMT DEF TtsTypeOK, Calm, Fault, Loss

\* A step of d moves d alone.
LEMMA GotoStays ==
  ASSUME TtsTypeOK, NEW d \in Delivery, NEW from, NEW to, Goto(d, from, to)
  PROVE  /\ pc[d] = from /\ pc'[d] = to
         /\ \A e \in Delivery : e # d => pc'[e] = pc[e]
BY Zenon DEF TtsTypeOK, Goto

\* The steps of a handler that neither raise nor crash, but for the ones on the lock
\* and the time out: where they lead, and what they leave.
LEMMA PlainStep ==
  ASSUME TtsTypeOK, LadderTypeOK, CalmInv, Calm, NEW d \in Delivery, NEW from, NEW to,
         Goto(d, from, to), Timed(d), UNCHANGED <<retry, met>>,
         cache \subseteq cache', lock' \subseteq lock,
         \/ from \in {"queued", "get"} /\ to \in {"get", "lock"} /\ timer[d] = 0
         \/ from \in Synthesising /\ to \in Synthesising \ {"exit!", "unlock!"}
              /\ (to \in Timing => from \in Timing /\ to = "synth")
              /\ (to = "unlock" => Text[d] \in cache')
         \/ from \in Synthesising /\ to = "claim"
              /\ Text[d] \in cache /\ Text[d] \notin lock'
         \/ from \in {"get", "wait", "claim"} /\ to \in {"claim", "done"}
  PROVE  /\ Others(d) /\ GoOn /\ KeysKept /\ Tame(d)'
         /\ Elsewhere(d) \/ Nears(d)
<1>1. /\ pc[d] = from /\ pc'[d] = to
      /\ \A e \in Delivery : e # d => pc'[e] = pc[e]
  BY GotoStays, Zenon
<1>2. /\ timer'[d] = Timer(d) /\ sc' = sc
      /\ \A e \in Delivery : e # d => timer'[e] = timer[e]
      /\ \A c \in Content : c \in lock /\ c \in lock' => ttl'[c] = ttl[c]
  BY TimedStays, Zenon
<1>3. retry' = retry /\ met' = met
  BY Zenon
<1>4. Others(d)
  BY <1>1, <1>2, <1>3, Zenon DEF Others, Same
<1>5. KeysKept
  <2>1. lock \subseteq Content
    BY Zenon DEF TtsTypeOK
  <2> QED
    BY <1>2, <2>1, Zenon DEF KeysKept
<1>6. GoOn
  <2> SUFFICES ASSUME NEW s \in Delivery, pc[s] \in Synthesising
               PROVE  \/ Text[s] \in cache' /\ Text[s] \notin lock'
                      \/ /\ pc'[s] \in Synthesising
                         /\ pc'[s] \in Timing => pc[s] \in Timing /\ timer'[s] = timer[s]
    BY Zenon DEF GoOn
  <2>1. CASE s # d
    BY <1>1, <1>2, <2>1, Zenon
  <2>2. CASE s = d
    <3>1. CASE to \in Synthesising
                 /\ (to \in Timing => from \in Timing /\ to = "synth")
      <4>1. to = "synth" => timer'[d] = timer[d]
        BY <1>1, <1>2, TimerValue, Zenon
      <4> QED
        BY <1>1, <2>2, <3>1, <4>1, Zenon
    <3>2. CASE to = "claim" /\ Text[d] \in cache /\ Text[d] \notin lock'
      BY <2>2, <3>2, Zenon
    <3>3. from \in Synthesising
      BY <1>1, <2>2, Zenon
    <3>4. from \notin {"queued", "get", "wait", "claim"}
      BY <3>3, Zenon DEF Synthesising, InSlot
    <3> QED
      BY <3>1, <3>2, <3>4, Zenon
  <2> QED
    BY <2>1, <2>2, Zenon
<1>7. Elsewhere(d) \/ Nears(d)
  <2>1. CASE from \in {"queued", "get"} /\ to \in {"get", "lock"} /\ timer[d] = 0
    <3>1. timer'[d] = 0
      BY <1>1, <1>2, <2>1, TimerValue, Zenon
    <3> QED
      BY <1>1, <1>3, <2>1, <3>1, Zenon DEF Nears
  <2>2. CASE to \in Synthesising
    BY <1>1, <1>3, <2>2, Zenon DEF Elsewhere, Synthesising, InSlot
  <2>3. CASE to \in {"claim", "done"}
    BY <1>1, <1>3, <2>3, Zenon DEF Elsewhere
  <2> QED
    BY <2>1, <2>2, <2>3, Zenon
<1>8. Tame(d)'
  <2>0. Tame(d)
    BY Zenon DEF CalmInv
  <2>1. retry'[d] <= MAX_RETRIES
    <3>1. from # "dead"
      BY Zenon DEF Synthesising, InSlot
    <3> QED
      BY <1>1, <1>3, <2>0, <3>1, Zenon DEF Tame
  <2>2. CASE from \in {"queued", "get"} /\ to \in {"get", "lock"} /\ timer[d] = 0
    <3>1. timer'[d] = 0
      BY <1>1, <1>2, <2>2, TimerValue, Zenon
    <3> QED
      BY <1>1, <2>1, <2>2, <3>1, Zenon DEF Tame, Timing
  <2>3. CASE /\ to \in Synthesising \ {"exit!", "unlock!"}
             /\ to \in Timing => from \in Timing /\ to = "synth"
             /\ to = "unlock" => Text[d] \in cache'
    <3>1. to \in Timing => timer'[d] <= sc.patience
      <4>1. to = "synth" => timer'[d] = timer[d]
        BY <1>1, <1>2, TimerValue, Zenon
      <4> QED
        BY <1>1, <2>0, <2>3, <4>1, Zenon DEF Tame
    <3>2. to \notin {"get", "lock"}
      BY <2>3, Zenon DEF Synthesising, InSlot
    <3> QED
      BY <1>1, <1>2, <2>1, <2>3, <3>1, <3>2, Zenon DEF Tame
  <2>4. CASE to \in {"claim", "done"}
    BY <1>1, <2>1, <2>4, Zenon DEF Tame, Timing
  <2> QED
    BY <2>2, <2>3, <2>4, Zenon
<1> QED
  BY <1>4, <1>5, <1>6, <1>7, <1>8, Zenon

\* The race for the lock: the winner synthesises, the loser waits.
LEMMA RaceStep ==
  ASSUME TtsAssumption, TtsTypeOK, LadderTypeOK, CalmInv, Calm, NEW d \in Delivery,
         TimedAcquire(d)
  PROVE  /\ Others(d) /\ GoOn /\ KeysKept /\ Tame(d)'
         /\ Elsewhere(d) \/ Loses(d)
<1> DEFINE to == IF Text[d] \in lock THEN "wait" ELSE "slot"
<1>0. Text[d] \in Content /\ lock \subseteq Content
  BY Zenon DEF TtsAssumption, TtsTypeOK
<1>1. /\ pc[d] = "lock" /\ pc'[d] = to
      /\ \A e \in Delivery : e # d => pc'[e] = pc[e]
  BY GotoStays, Zenon DEF TimedAcquire, acquire_inflight
<1>2. /\ timer'[d] = Timer(d) /\ sc' = sc
      /\ \A e \in Delivery : e # d => timer'[e] = timer[e]
      /\ \A c \in Content : c \in lock /\ c \in lock' => ttl'[c] = ttl[c]
  BY TimedStays, Zenon DEF TimedAcquire
<1>3. retry' = retry /\ cache' = cache /\ lock' = lock \cup {Text[d]}
  BY Zenon DEF TimedAcquire, acquire_inflight
<1>4. /\ met'[d] = IF Text[d] \in lock /\ retry[d] = 0 THEN ttl[Text[d]] ELSE met[d]
      /\ \A e \in Delivery : e # d => met'[e] = met[e]
  BY Zenon DEF TimedAcquire, LadderTypeOK
<1>5. Others(d)
  BY <1>1, <1>2, <1>3, <1>4, Zenon DEF Others, Same
<1>6. GoOn
  <2> SUFFICES ASSUME NEW s \in Delivery, pc[s] \in Synthesising
               PROVE  /\ pc'[s] \in Synthesising
                      /\ pc'[s] \in Timing => pc[s] \in Timing /\ timer'[s] = timer[s]
    BY Zenon DEF GoOn
  <2>1. s # d
    BY <1>1, Zenon DEF Synthesising, InSlot
  <2> QED
    BY <1>1, <1>2, <2>1, Zenon
<1>7. KeysKept
  <2> SUFFICES ASSUME NEW c \in lock', c \notin lock
               PROVE  \E s \in Synths(c)' : pc[s] = "lock"
    BY <1>0, <1>2, <1>3, Zenon DEF KeysKept
  <2>1. c = Text[d]
    BY <1>3, Zenon
  <2>2. pc'[d] \in Synthesising
    BY <1>1, <2>1, Zenon DEF Synthesising
  <2>3. d \in Synths(c)'
    BY <2>1, <2>2, Zenon DEF Synths
  <2> QED
    BY <1>1, <2>3, Zenon
<1>8. CASE Text[d] \in lock
  <2>1. lock' = lock
    BY <1>3, <1>8, Zenon
  <2>2. timer[d] = 0
    BY <1>1, Zenon DEF CalmInv, Tame
  <2>3. timer'[d] = sc.wait
    BY <1>1, <1>2, <1>8, TimerValue, Zenon
  <2>4. Loses(d)
    BY <1>1, <1>3, <1>4, <1>8, <2>1, <2>2, <2>3, Zenon DEF Loses
  <2>5. Tame(d)'
    <3>1. retry'[d] <= MAX_RETRIES
      BY <1>1, <1>3, Zenon DEF CalmInv, Tame
    <3> QED
      BY <1>1, <1>8, <3>1, Zenon DEF Tame, Timing
  <2> QED
    BY <1>5, <1>6, <1>7, <2>4, <2>5, Zenon
<1>9. CASE Text[d] \notin lock
  <2>1. Elsewhere(d)
    BY <1>1, <1>3, <1>9, Zenon DEF Elsewhere
  <2>2. timer'[d] = sc.patience
    BY <1>1, <1>2, <1>9, TimerValue, Zenon
  <2>3. sc.patience <= sc.patience
    BY ScenarioTypes, SMT DEF LadderTypeOK
  <2>4. Tame(d)'
    <3>1. retry'[d] <= MAX_RETRIES
      BY <1>1, <1>3, Zenon DEF CalmInv, Tame
    <3> QED
      BY <1>1, <1>2, <1>9, <2>2, <2>3, <3>1, Zenon DEF Tame
  <2> QED
    BY <1>5, <1>6, <1>7, <2>1, <2>4, Zenon
<1> QED
  BY <1>8, <1>9, Zenon

\* The wait ends without audio.
LEMMA TiredStep ==
  ASSUME TtsAssumption, TtsTypeOK, LadderTypeOK, NEW d \in Delivery,
         TimedWaitTimeout(d)
  PROVE  Others(d) /\ GoOn /\ KeysKept /\ Tame(d)' /\ Tires(d)
<1> DEFINE to == IF retry[d] + 1 > MAX_RETRIES THEN "dead" ELSE "queued"
<1>1. /\ pc[d] = "wait" /\ pc'[d] = to
      /\ \A e \in Delivery : e # d => pc'[e] = pc[e]
  BY GotoStays, Zenon DEF TimedWaitTimeout, WaitTimeout, Routed
<1>2. /\ timer'[d] = Timer(d) /\ sc' = sc
      /\ \A e \in Delivery : e # d => timer'[e] = timer[e]
      /\ \A c \in Content : c \in lock /\ c \in lock' => ttl'[c] = ttl[c]
  BY TimedStays, Zenon DEF TimedWaitTimeout
<1>3. cache' = cache /\ lock' = lock /\ met' = met /\ timer[d] = 0
  BY Zenon DEF TimedWaitTimeout, WaitTimeout, keys
<1>4. /\ retry'[d] = retry[d] + 1
      /\ \A e \in Delivery : e # d => retry'[e] = retry[e]
  BY Zenon DEF TimedWaitTimeout, WaitTimeout, Routed, TtsTypeOK
<1>5. Others(d)
  BY <1>1, <1>2, <1>3, <1>4, Zenon DEF Others, Same
<1>6. GoOn
  <2> SUFFICES ASSUME NEW s \in Delivery, pc[s] \in Synthesising
               PROVE  /\ pc'[s] \in Synthesising
                      /\ pc'[s] \in Timing => pc[s] \in Timing /\ timer'[s] = timer[s]
    BY Zenon DEF GoOn
  <2>1. s # d
    BY <1>1, Zenon DEF Synthesising, InSlot
  <2> QED
    BY <1>1, <1>2, <2>1, Zenon
<1>7. KeysKept
  <2>1. lock \subseteq Content
    BY Zenon DEF TtsTypeOK
  <2> QED
    BY <1>2, <1>3, <2>1, Zenon DEF KeysKept
<1>8. ASSUME pc'[d] = "queued"
      PROVE  timer'[d] = Delay(sc, retry[d] + 1)
  <2>1. retry'[d] # retry[d]
    BY <1>4, SMT DEF TtsTypeOK
  <2> QED
    BY <1>2, <1>4, <1>8, <2>1, TimerValue, Zenon
<1>9. Tires(d)
  BY <1>1, <1>3, <1>4, <1>8, Zenon DEF Tires
<1>10. Tame(d)'
  <2>1. pc'[d] = "queued" => retry'[d] <= MAX_RETRIES
    BY <1>1, <1>4, SMT DEF TtsAssumption, TtsTypeOK
  <2>2. pc'[d] \in {"queued", "dead"}
    BY <1>1, Zenon
  <2> QED
    BY <2>1, <2>2, Zenon DEF Tame, Timing
<1> QED
  BY <1>5, <1>6, <1>7, <1>9, <1>10, Zenon

\* A step of a handler that neither raises nor crashes.
LEMMA CalmStep ==
  ASSUME TtsAssumption, TtsTypeOK, LadderTypeOK, CalmInv, Calm, Calm',
         NEW d \in Delivery, ~(TimedStep(d) /\ Crash(d)),
         \/ TimedBegin(d) \/ TimedAcquire(d) \/ TimedWaitTimeout(d) \/ TimedStep(d)
  PROVE  /\ Others(d) /\ GoOn /\ KeysKept /\ Tame(d)'
         /\ Elsewhere(d) \/ Nears(d) \/ Loses(d) \/ Tires(d)
<1>0. /\ ~AcquireFails(d) /\ ~Raises(d) /\ ~SlotFails(d) /\ ~StoreFails(d)
      /\ ~CacheSetFails(d) /\ ~ReleaseFails(d)
  BY NoFault, Zenon
  DEF AcquireFails, Raises, SlotFails, StoreFails, CacheSetFails, ReleaseFails
<1>a. /\ pc[d] \notin {"exit!", "unlock!"}
      /\ pc[d] = "unlock" => Text[d] \in cache
      /\ pc[d] = "get" => timer[d] = 0
  BY Zenon DEF CalmInv, Tame
<1>1. CASE TimedAcquire(d)
  BY <1>1, RaceStep, Zenon
<1>2. CASE TimedWaitTimeout(d)
  BY <1>2, TiredStep, Zenon
<1>3. CASE TimedBegin(d)
  <2>1. /\ Goto(d, "queued", "get") /\ UNCHANGED <<retry, met>>
        /\ cache \subseteq cache' /\ lock' \subseteq lock
        /\ Timed(d) /\ timer[d] = 0
    BY <1>3, Zenon DEF TimedBegin, Begin, keys
  <2> QED
    BY <2>1, PlainStep, Zenon
<1>4. CASE TimedStep(d)
  <2>1. Timed(d) /\ met' = met
    BY <1>4, Zenon DEF TimedStep
  <2>2. CASE cache_get(d)
    <3>1. /\ retry' = retry /\ cache \subseteq cache' /\ lock' \subseteq lock
      BY <2>2, Zenon DEF cache_get, keys
    <3>2. CASE Text[d] \in cache
      <4>1. Goto(d, "get", "claim")
        BY <2>2, <3>2, Zenon DEF cache_get
      <4> QED
        BY <2>1, <3>1, <4>1, PlainStep, Zenon
    <3>3. CASE Text[d] \notin cache
      <4>1. Goto(d, "get", "lock")
        BY <2>2, <3>3, Zenon DEF cache_get
      <4>2. timer[d] = 0
        BY <1>a, <4>1, Zenon DEF Goto
      <4> QED
        BY <2>1, <3>1, <4>1, <4>2, PlainStep, Zenon
    <3> QED
      BY <3>2, <3>3, Zenon
  <2>3. CASE Poll(d) \/ Claim(d)
    <3>1. /\ Goto(d, "wait", "claim") \/ Goto(d, "claim", "done")
          /\ retry' = retry /\ cache \subseteq cache' /\ lock' \subseteq lock
      BY <2>3, Zenon DEF Poll, Claim, keys
    <3> QED
      BY <2>1, <3>1, PlainStep, Zenon
  <2>4. CASE EnterSlot(d) \/ StoreAudio(d) \/ ExitSlot(d) \/ cache_set(d)
    <3>1. /\ \/ Goto(d, "slot", "synth") \/ Goto(d, "synth", "exit")
             \/ Goto(d, "exit", "set")
             \/ Goto(d, "set", "unlock") /\ Text[d] \in cache'
          /\ retry' = retry /\ cache \subseteq cache' /\ lock' \subseteq lock
      BY <1>a, <2>4, Zenon DEF EnterSlot, StoreAudio, ExitSlot, cache_set, keys, Goto
    <3>a. /\ {"slot", "synth", "exit", "set", "unlock"} \subseteq Synthesising
          /\ "slot" \in Timing
          /\ "exit" \notin Timing /\ "set" \notin Timing /\ "unlock" \notin Timing
      BY Zenon DEF Synthesising, InSlot, Timing
    <3>2. PICK from \in Synthesising, to \in Synthesising \ {"exit!", "unlock!"} :
            /\ Goto(d, from, to)
            /\ to \in Timing => from \in Timing /\ to = "synth"
            /\ to = "unlock" => Text[d] \in cache'
      BY <3>1, <3>a, SMT
    <3>3. /\ Goto(d, from, to) /\ UNCHANGED <<retry, met>>
          /\ cache \subseteq cache' /\ lock' \subseteq lock
          /\ from \in Synthesising /\ to \in Synthesising \ {"exit!", "unlock!"}
          /\ to \in Timing => from \in Timing /\ to = "synth"
          /\ to = "unlock" => Text[d] \in cache'
      BY <2>1, <3>1, <3>2, Zenon
    <3> QED
      BY <2>1, <3>3, PlainStep, Zenon
  <2>5. CASE release_inflight(d)
    <3>1. /\ Goto(d, "unlock", "claim")
          /\ retry' = retry /\ cache \subseteq cache' /\ lock' \subseteq lock
          /\ Text[d] \notin lock'
      BY <1>a, <2>5, Zenon DEF release_inflight, Routed, Goto
    <3>2. "unlock" \in Synthesising /\ Text[d] \in cache
      BY <1>a, <3>1, Zenon DEF Synthesising, Goto
    <3> QED
      BY <2>1, <3>1, <3>2, PlainStep, Zenon
  <2> QED
    BY <1>0, <1>4, <2>2, <2>3, <2>4, <2>5, Zenon DEF TimedStep, Synthesise
<1> QED
  BY <1>1, <1>2, <1>3, <1>4, Zenon

\* Counters only grow, and the scenario stays.
LEMMA Monotone ==
  ASSUME TtsTypeOK, [LadderNext]_laddervars
  PROVE  faults' >= faults /\ losses' >= losses /\ crashes' >= crashes /\ sc' = sc
<1>0. faults \in Nat /\ losses \in Nat /\ crashes \in Nat
  BY Zenon DEF TtsTypeOK
<1>1. ASSUME NEW d \in Delivery,
             \/ TimedBegin(d) \/ TimedAcquire(d)
             \/ TimedWaitTimeout(d) \/ TimedStep(d)
      PROVE  /\ faults' \in {faults, faults + 1} /\ losses' = losses
             /\ crashes' \in {crashes, crashes + 1} /\ sc' = sc
  <2>0. sc' = sc
    BY <1>1, Zenon
    DEF TimedBegin, TimedAcquire, TimedWaitTimeout, TimedStep, Timed, Permitted
  <2>1. CASE TimedBegin(d) \/ TimedAcquire(d) \/ TimedWaitTimeout(d)
    BY <2>0, <2>1, Zenon
    DEF TimedBegin, TimedAcquire, TimedWaitTimeout, Begin, acquire_inflight,
        WaitTimeout, bounds
  <2>2. CASE cache_get(d) \/ Poll(d) \/ Claim(d) \/ Crash(d)
    BY <2>0, <2>2, Zenon DEF cache_get, Poll, Claim, Crash, bounds
  <2>3. CASE AcquireFails(d) \/ Raises(d) \/ SlotFails(d) \/ StoreFails(d)
             \/ CacheSetFails(d) \/ ReleaseFails(d)
    BY <2>0, <2>3, Zenon
    DEF AcquireFails, Raises, SlotFails, StoreFails, CacheSetFails, ReleaseFails,
        Fault
  <2>4. CASE \/ EnterSlot(d) \/ StoreAudio(d) \/ ExitSlot(d) \/ cache_set(d)
             \/ release_inflight(d)
    BY <2>0, <2>4, Zenon
    DEF EnterSlot, StoreAudio, ExitSlot, cache_set, release_inflight, bounds
  <2> QED
    BY <1>1, <2>1, <2>2, <2>3, <2>4, Zenon DEF TimedStep, Synthesise
<1>2. CASE TimedLoss
  <2>1. losses' = losses + 1 /\ crashes' = crashes /\ faults' = faults /\ sc' = sc
    BY <1>2, Zenon DEF TimedLoss, Wipe, CacheExpires, Loss, Permitted
  <2> QED
    BY <1>0, <2>1, SMT
<1>3. CASE \/ UNCHANGED laddervars \/ TimedReturn \/ Tick
           \/ \E c \in Content : TimedLockExpires(c)
  <2>1. losses' = losses /\ crashes' = crashes /\ faults' = faults /\ sc' = sc
    BY <1>3, Zenon
    DEF laddervars, ttsvars, ladder, TimedReturn, ReturnToken, Tick,
        TimedLockExpires, LockExpires, bounds
  <2> QED
    BY <1>0, <2>1, SMT
<1>4. ASSUME NEW d \in Delivery,
             \/ TimedBegin(d) \/ TimedAcquire(d)
             \/ TimedWaitTimeout(d) \/ TimedStep(d)
      PROVE  faults' >= faults /\ losses' >= losses /\ crashes' >= crashes /\ sc' = sc
  <2>1. /\ faults' \in {faults, faults + 1} /\ losses' = losses
        /\ crashes' \in {crashes, crashes + 1} /\ sc' = sc
    BY <1>1, <1>4, Zenon
  <2> QED
    BY <1>0, <2>1, SMT
<1> QED
  BY <1>2, <1>3, <1>4, Zenon DEF LadderNext

\* No handler moves.
Still == (\A e \in Delivery : Same(e)) /\ GoOn /\ KeysKept

\* A handler takes a step.
Moves(d) ==
  /\ Others(d) /\ GoOn /\ KeysKept /\ Tame(d)'
  /\ Elsewhere(d) \/ Nears(d) \/ Loses(d) \/ Tires(d)

\* A handler crashes: its message is back in the queue, its lock stays.
Dies(d) ==
  /\ Others(d)
  /\ pc[d] # "dead" /\ pc'[d] = "queued"
  /\ retry'[d] = retry[d] /\ met'[d] = met[d]
  /\ cache' = cache /\ lock' = lock /\ sc' = sc
  /\ crashes' = crashes + 1
  /\ \A c \in lock : ttl'[c] = ttl[c]

\* A key that expires and a token that is returned move no handler.
LEMMA StillStep ==
  ASSUME TtsTypeOK,
         \/ UNCHANGED laddervars \/ TimedReturn
         \/ \E c \in Content : TimedLockExpires(c)
  PROVE  Still
<1>1. pc' = pc /\ retry' = retry /\ cache' = cache /\ lock' \subseteq lock
      /\ UNCHANGED ladder
  BY Zenon DEF laddervars, ttsvars, keys, TimedReturn, ReturnToken, TimedLockExpires,
               LockExpires, Unlocked
<1>2. timer' = timer /\ met' = met /\ ttl' = ttl /\ sc' = sc
  BY <1>1, Zenon DEF ladder
<1>3. (\A e \in Delivery : Same(e)) /\ GoOn
  BY <1>1, <1>2, Zenon DEF Same, GoOn
<1>4. KeysKept
  BY <1>1, <1>2, Zenon DEF KeysKept
<1> QED
  BY <1>3, <1>4, Zenon DEF Still

\* What a crash leaves.
LEMMA CrashStep ==
  ASSUME TtsTypeOK, LadderTypeOK, NEW d \in Delivery, Crash(d), TimedStep(d)
  PROVE  Dies(d)
<1>1. /\ pc[d] \in Active /\ pc'[d] = "queued"
      /\ \A e \in Delivery : e # d => pc'[e] = pc[e]
  BY GotoStays, Zenon DEF Crash
<1>2. /\ retry' = retry /\ cache' = cache /\ lock' = lock /\ crashes' = crashes + 1
  BY Zenon DEF Crash, keys
<1>3. /\ \A e \in Delivery : e # d => timer'[e] = timer[e]
      /\ \A c \in Content : c \in lock /\ c \in lock' => ttl'[c] = ttl[c]
      /\ sc' = sc /\ met' = met
  BY TimedStays, Zenon DEF TimedStep
<1>4. Others(d)
  BY <1>1, <1>2, <1>3, Zenon DEF Others, Same
<1>5. pc[d] # "dead"
  BY <1>1, Zenon DEF Active, Synthesising, InSlot
<1>6. \A c \in lock : ttl'[c] = ttl[c]
  BY <1>2, <1>3, Zenon DEF TtsTypeOK
<1> QED
  BY <1>1, <1>2, <1>3, <1>4, <1>5, <1>6, Zenon DEF Dies

\* Every calm step is one of these.
LEMMA CalmCases ==
  ASSUME TtsAssumption, TtsTypeOK, TtsTypeOK', LadderTypeOK, CalmInv, Calm',
         [LadderNext]_laddervars
  PROVE  /\ Calm /\ sc' = sc /\ (crashes' = 0 => crashes = 0)
         /\ (crashes' <= 1 => crashes <= 1)
         /\ Still \/ Tick \/ \E d \in Delivery : Moves(d) \/ Dies(d)
<1>1. /\ faults' >= faults /\ losses' >= losses /\ crashes' >= crashes /\ sc' = sc
  BY Monotone, Zenon
<1>2. Calm /\ (crashes' = 0 => crashes = 0)
  BY <1>1, SMT DEF TtsTypeOK, Calm
<1>3. crashes' <= 1 => crashes <= 1
  BY <1>1, SMT DEF TtsTypeOK
<1>4. ASSUME NEW d \in Delivery,
             \/ TimedBegin(d) \/ TimedAcquire(d)
             \/ TimedWaitTimeout(d) \/ TimedStep(d)
      PROVE  Moves(d) \/ Dies(d)
  <2>1. CASE ~(TimedStep(d) /\ Crash(d))
    <3>1. /\ Others(d) /\ GoOn /\ KeysKept /\ Tame(d)'
          /\ Elsewhere(d) \/ Nears(d) \/ Loses(d) \/ Tires(d)
      BY <1>2, <1>4, <2>1, CalmStep, Zenon
    <3> QED
      BY <3>1, Zenon DEF Moves
  <2>2. CASE Crash(d) /\ TimedStep(d)
    BY <2>2, CrashStep, Zenon
  <2> QED
    BY <2>1, <2>2, Zenon
<1>5. ~TimedLoss
  BY NoFault, Zenon DEF TimedLoss, Wipe, CacheExpires
<1>6. ASSUME \/ UNCHANGED laddervars \/ TimedReturn
             \/ \E c \in Content : TimedLockExpires(c)
      PROVE  Still
  BY <1>6, StillStep, Zenon
<1>7. Still \/ Tick \/ \E d \in Delivery : Moves(d) \/ Dies(d)
  BY <1>4, <1>5, <1>6, Zenon DEF LadderNext
<1> QED
  BY <1>1, <1>2, <1>3, <1>7, Zenon

\* What a second changes, and what has to be over before it passes.
LEMMA TickStep ==
  ASSUME TtsTypeOK, LadderTypeOK, Tick
  PROVE  /\ pc' = pc /\ retry' = retry /\ cache' = cache /\ lock' = lock
         /\ crashes' = crashes /\ sc' = sc /\ met' = met
         /\ \A d \in Delivery :
              /\ timer'[d] \in Nat /\ timer'[d] <= timer[d] /\ timer[d] <= timer'[d] + 1
              /\ pc[d] \in Timing \cup {"wait"} => timer[d] = timer'[d] + 1
              /\ pc[d] \in Synthesising => pc[d] \in Timing
              /\ pc[d] = "wait" => Text[d] \notin cache
              /\ pc[d] \notin {"get", "lock", "claim"}
         /\ \A c \in lock : ttl[c] = ttl'[c] + 1
<1>1. ~Due /\ UNCHANGED <<ttsvars, sc, met>>
  BY Zenon DEF Tick
<1>2. /\ pc' = pc /\ retry' = retry /\ cache' = cache /\ lock' = lock
      /\ crashes' = crashes /\ sc' = sc /\ met' = met
  BY <1>1, Zenon DEF ttsvars, keys, bounds
<1>3. ASSUME NEW d \in Delivery
      PROVE  /\ timer'[d] \in Nat /\ timer'[d] <= timer[d] /\ timer[d] <= timer'[d] + 1
             /\ pc[d] \in Timing \cup {"wait"} => timer[d] = timer'[d] + 1
             /\ pc[d] \in Synthesising => pc[d] \in Timing
             /\ pc[d] = "wait" => Text[d] \notin cache
             /\ pc[d] \notin {"get", "lock", "claim"}
  <2>1. /\ ~(pc[d] \in Lasting /\ timer[d] = 0)
        /\ ~(pc[d] = "wait" /\ Text[d] \in cache)
        /\ pc[d] \notin Active \ Lasting
    BY <1>1, Zenon DEF Due
  <2>2. timer'[d] = Less(timer[d]) /\ timer[d] \in Nat
    BY Zenon DEF Tick, LadderTypeOK
  <2>3. pc[d] \in Timing \cup {"wait"} => timer[d] # 0
    BY <2>1, Zenon DEF Lasting, Timing
  <2>4. pc[d] \in Synthesising => pc[d] \in Timing
    BY <2>1, Zenon DEF Active, Lasting, Timing, Synthesising, InSlot
  <2>5. pc[d] \notin {"get", "lock", "claim"}
    BY <2>1, Zenon DEF Active, Lasting
  <2>6. /\ timer'[d] \in Nat /\ timer'[d] <= timer[d] /\ timer[d] <= timer'[d] + 1
        /\ timer[d] # 0 => timer[d] = timer'[d] + 1
    BY <2>2, SMT DEF Less
  <2> QED
    BY <2>1, <2>3, <2>4, <2>5, <2>6, Zenon
<1>4. ASSUME NEW c \in lock
      PROVE  ttl[c] = ttl'[c] + 1
  <2>1. ttl[c] # 0 /\ c \in Content
    BY <1>1, Zenon DEF Due, TtsTypeOK
  <2>2. ttl'[c] = Less(ttl[c]) /\ ttl[c] \in Nat
    BY <2>1, Zenon DEF Tick, LadderTypeOK
  <2> QED
    BY <2>1, <2>2, SMT DEF Less
<1> QED
  BY <1>2, <1>3, <1>4, Zenon

\* What holds as long as nothing raises and nothing is lost.
THEOREM CalmHolds == LadderSpec => []CalmInv
<1>1. LadderInit => CalmInv
  <2> SUFFICES ASSUME LadderInit
               PROVE  (\A d \in Delivery : Tame(d)) /\ lock = {}
    BY Zenon DEF CalmInv
  <2>1. 0 <= MAX_RETRIES
    BY TtsAssumption, SMT DEF TtsAssumption
  <2> QED
    BY <2>1, Zenon DEF LadderInit, TtsInit, Tame, Timing
<1>2. TtsTypeOK /\ TtsTypeOK' /\ LadderTypeOK /\ CalmInv /\ [LadderNext]_laddervars
        => CalmInv'
  <2> SUFFICES ASSUME TtsTypeOK, TtsTypeOK', LadderTypeOK, CalmInv, Calm',
                      [LadderNext]_laddervars
               PROVE  /\ \A d \in Delivery : Tame(d)'
                      /\ crashes' = 0 => \A c \in lock' : Synths(c)' # {}
    BY Zenon DEF CalmInv
  <2>1. /\ Calm /\ sc' = sc /\ (crashes' = 0 => crashes = 0)
        /\ Still \/ Tick \/ \E d \in Delivery : Moves(d) \/ Dies(d)
    BY TtsAssumption, CalmCases, Zenon
  <2>2. /\ \A d \in Delivery : Tame(d)
        /\ crashes' = 0 => \A c \in lock : Synths(c) # {}
    BY <2>1, Zenon DEF CalmInv
  <2>3. ASSUME NEW e \in Delivery, Same(e), cache \subseteq cache'
        PROVE  Tame(e)'
    BY <2>1, <2>2, <2>3, Zenon DEF Same, Tame
  <2>4. ASSUME GoOn, KeysKept
        PROVE  crashes' = 0 => \A c \in lock' : Synths(c)' # {}
    <3> SUFFICES ASSUME crashes' = 0, NEW c \in lock', c \in lock
                 PROVE  Synths(c)' # {}
      BY <2>4, Zenon DEF KeysKept
    <3>1. PICK s \in Synths(c) : TRUE
      BY <2>2, Zenon
    <3>2. s \in Delivery /\ Text[s] = c /\ pc[s] \in Synthesising
      BY <3>1, Zenon DEF Synths
    <3>3. pc'[s] \in Synthesising
      BY <2>4, <3>2, Zenon DEF GoOn
    <3> QED
      BY <3>2, <3>3, Zenon DEF Synths
  <2>5. CASE Still
    BY <2>3, <2>4, <2>5, Zenon DEF Still, KeysKept
  <2>6. ASSUME NEW d \in Delivery, Moves(d)
        PROVE  /\ \A e \in Delivery : Tame(e)'
               /\ crashes' = 0 => \A c \in lock' : Synths(c)' # {}
    BY <2>3, <2>4, <2>6, Zenon DEF Moves, Others, KeysKept
  <2>7. ASSUME NEW d \in Delivery, Dies(d)
        PROVE  /\ \A e \in Delivery : Tame(e)'
               /\ crashes' = 0 => \A c \in lock' : Synths(c)' # {}
    <3>1. crashes' # 0
      BY <2>7, SMT DEF Dies, TtsTypeOK
    <3>2. Tame(d)'
      BY <2>2, <2>7, Zenon DEF Dies, Tame, Timing
    <3> QED
      BY <2>3, <2>7, <3>1, <3>2, Zenon DEF Dies, Others
  <2>8. CASE Tick
    <3>1. /\ pc' = pc /\ retry' = retry /\ cache' = cache /\ lock' = lock
          /\ crashes' = crashes
          /\ \A d \in Delivery : timer'[d] \in Nat /\ timer'[d] <= timer[d]
      BY <2>8, TickStep, Zenon
    <3>2. ASSUME NEW d \in Delivery
          PROVE  Tame(d)'
      <4>1. timer[d] \in Nat /\ sc.patience \in Nat
        BY ScenarioTypes, Zenon DEF LadderTypeOK
      <4>2. /\ timer[d] <= sc.patience => timer'[d] <= sc.patience
            /\ timer[d] = 0 => timer'[d] = 0
        BY <3>1, <4>1, SMT
      <4> QED
        BY <2>1, <2>2, <3>1, <4>2, Zenon DEF Tame
    <3>3. \A c : Synths(c)' = Synths(c)
      BY <3>1, Zenon DEF Synths
    <3> QED
      BY <2>2, <3>1, <3>2, <3>3, Zenon
  <2> QED
    BY <2>1, <2>5, <2>6, <2>7, <2>8, Zenon
<1> QED
  BY <1>1, <1>2, TtsTypes, LadderTypes, LadderImplementsTts, PTL DEF LadderSpec
=============================================================================
