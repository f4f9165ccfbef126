-------------------------- MODULE SemaphoreProofs ---------------------------
(***************************************************************************)
(* The soft limit of the leased semaphore and the protection of its        *)
(* holders, for any number of tokens, clients and processes.               *)
(***************************************************************************)
EXTENDS Semaphore, FiniteSetTheorems, TLAPS

\* A client has a token exactly while it is at a holding step.
TokenOK == \A c \in Client : tok[c] \in Token <=> pcs[c] \in Holding

SemInv == SemTypeOK /\ TokenOK /\ Circulation

USE DEF redis, process

\* The holders of a token are finitely many; the number does not grow when
\* clients leave and grows by one when a client joins.
LEMMA HolderCount ==
  ASSUME NEW A \in SUBSET Client
  PROVE  /\ Cardinality(A) \in Nat
         /\ \A B \in SUBSET A : Cardinality(B) <= Cardinality(A)
         /\ \A c \in Client \ A : Cardinality(A \cup {c}) = Cardinality(A) + 1
         /\ \A c \in A : Cardinality(A \ {c}) = Cardinality(A) - 1
<1>1. IsFiniteSet(A)
  BY FS_Subset, SemaphoreAssumption, Zenon
<1>2. Cardinality(A) \in Nat
  BY <1>1, FS_CardinalityType, Zenon
<1>3. \A B \in SUBSET A : Cardinality(B) <= Cardinality(A)
  BY <1>1, FS_Subset, Zenon
<1>4. \A c \in Client \ A : Cardinality(A \cup {c}) = Cardinality(A) + 1
  BY <1>1, FS_AddElement, Zenon
<1>5. \A c \in A : Cardinality(A \ {c}) = Cardinality(A) - 1
  BY <1>1, FS_RemoveElement, Zenon
<1>. QED BY <1>2, <1>3, <1>4, <1>5, Zenon

\* Steps after which every token has no more holders and is no more often in the
\* pool keep the circulation within its bound.
LEMMA FewerKeep ==
  ASSUME SemInv, SemTypeOK',
         \A t \in Token : /\ Holders(t)' \subseteq Holders(t)
                          /\ pool'[t] <= pool[t]
                          /\ extra'[t] >= extra[t]
  PROVE  Circulation'
<1>. SUFFICES ASSUME NEW t \in Token
              PROVE  pool'[t] + Cardinality(Holders(t)') <= 1 + extra'[t]
  BY Zenon DEF Circulation
<1>1. Holders(t) \in SUBSET Client
  BY Zenon DEF Holders
<1>2. /\ Cardinality(Holders(t)) \in Nat
      /\ Cardinality(Holders(t)') <= Cardinality(Holders(t))
  BY <1>1, HolderCount, Zenon
<1>3. Cardinality(Holders(t)') \in Nat
  BY <1>1, HolderCount, Zenon
<1>4. pool[t] + Cardinality(Holders(t)) <= 1 + extra[t]
  BY Zenon DEF SemInv, Circulation
<1>. QED BY <1>2, <1>3, <1>4 DEF SemInv, SemTypeOK

\* MaxOf is an upper bound of its arguments.
LEMMA MaxOfFacts ==
  ASSUME NEW a \in Nat, NEW b \in Nat
  PROVE  MaxOf(a, b) \in Nat /\ MaxOf(a, b) >= a /\ MaxOf(a, b) >= b
BY SMTT(40) DEF MaxOf

\* Every step keeps the types and gives a client a token only in its slot.
LEMMA SemTypeNext ==
  ASSUME SemInv, [SemNext]_semvars
  PROVE  SemTypeOK' /\ TokenOK'
<1>. USE SemaphoreAssumption DEF SemInv, SemTypeOK, TokenOK, Holding
<1>0. \A t \in Token : Cardinality(Holders(t)) \in Nat
  <2>1. \A t \in Token : Holders(t) \in SUBSET Client
    BY Zenon DEF Holders
  <2>. QED BY <2>1, HolderCount, Zenon
<1>1. ASSUME ensure_slots PROVE SemTypeOK' /\ TokenOK'
  <2>1. extra' \in [Token -> Nat]
    BY <1>0, <1>1, MaxOfFacts, Zenon DEF ensure_slots
  <2>. QED BY <1>1, <2>1, Zenon DEF ensure_slots
<1>2. ASSUME NEW t \in Token, reap(t) PROVE SemTypeOK' /\ TokenOK'
  <2>1. MaxOf(extra[t], Cardinality(Holders(t))) \in Nat
    BY <1>0, MaxOfFacts, Zenon
  <2>2. extra' \in [Token -> Nat]
    BY <1>2, <2>1, Zenon DEF reap
  <2>. QED BY <1>2, <2>2, Zenon DEF reap
<1>3. ASSUME NEW t \in Token, Expire(t) \/ Stall(t) PROVE SemTypeOK' /\ TokenOK'
  BY <1>3 DEF Expire, Stall
<1>4. ASSUME Wipe PROVE SemTypeOK' /\ TokenOK'
  <2>1. pool' \in [Token -> Nat] /\ marker' \in BOOLEAN /\ lease' \subseteq Token
    BY <1>4, ZenonT(60) DEF Wipe
  <2>2. /\ UNCHANGED <<pcs, tok, beats, leaked, extra, faults, stalls>>
        /\ wipes' \in Nat
    BY <1>4 DEF Wipe
  <2>. QED BY <2>1, <2>2, Zenon
<1>5. ASSUME NEW c \in Client, NEW t \in Token, Pop(c, t)
      PROVE  SemTypeOK' /\ TokenOK'
  <2>1. pool' \in [Token -> Nat]
    BY <1>5 DEF Pop
  <2>. QED BY <1>5, <2>1, Zenon DEF Pop, At
<1>6. ASSUME NEW c \in Client, Enter(c) PROVE SemTypeOK' /\ TokenOK'
  BY <1>6, Zenon DEF Enter, At
<1>7. ASSUME NEW c \in Client, Lease(c) PROVE SemTypeOK' /\ TokenOK'
  <2>1. tok[c] \in Token /\ Proc[c] \in Process
    BY <1>7, Zenon DEF Lease, At
  <2>2. beats' \in [Process -> [Token -> {"none", "live", "dead"}]]
    BY <1>7, <2>1, Zenon DEF Lease
  <2>3. leaked' \in [Process -> SUBSET Token]
    BY <1>7, <2>1, Zenon DEF Lease
  <2>. QED BY <1>7, <2>1, <2>2, <2>3, Zenon DEF Lease, At
<1>8. ASSUME NEW c \in Client, Cancel(c) PROVE SemTypeOK' /\ TokenOK'
  <2>1. tok[c] \in Token /\ Proc[c] \in Process
    BY <1>8, Zenon DEF Cancel
  <2>2. beats' \in [Process -> [Token -> {"none", "live", "dead"}]]
    BY <1>8, <2>1, Zenon DEF Cancel
  <2>3. pcs' \in [Client -> Holding \cup {"off", "pop"}]
    BY <1>8, ZenonT(60) DEF Cancel, At, Leave
  <2>4. tok' \in [Client -> Token \cup {NoToken}]
    BY <1>8, Zenon DEF Cancel, Leave
  <2>5. TokenOK'
    <3>1. CASE Leave(c, "work")
      BY <3>1, Zenon DEF At, Leave
    <3>2. CASE At(c, "work", "delete") /\ UNCHANGED tok
      BY <3>2, Zenon DEF At
    <3>. QED BY <1>8, <3>1, <3>2, Zenon DEF Cancel
  <2>. QED BY <1>8, <2>2, <2>3, <2>4, <2>5, Zenon DEF Cancel
<1>9. ASSUME NEW c \in Client, Delete(c) PROVE SemTypeOK' /\ TokenOK'
  BY <1>9, Zenon DEF Delete, At
<1>10. ASSUME NEW c \in Client, Push(c) PROVE SemTypeOK' /\ TokenOK'
  <2>1. tok[c] \in Token
    BY <1>10, Zenon DEF Push, Leave, At
  <2>2. pool' \in [Token -> Nat]
    BY <1>10, <2>1 DEF Push
  <2>. QED BY <1>10, <2>2, Zenon DEF Push, Leave, At
<1>11. ASSUME NEW c \in Client, Fail(c) PROVE SemTypeOK' /\ TokenOK'
  BY <1>11 DEF Fail, Leave, At
<1>12. ASSUME NEW p \in Process, NEW t \in Token, HeartbeatFails(p, t)
       PROVE  SemTypeOK' /\ TokenOK'
  <2>1. beats' \in [Process -> [Token -> {"none", "live", "dead"}]]
    <3>1. beats' \in {beats, [beats EXCEPT ![p] = [beats[p] EXCEPT ![t] = "dead"]]}
      BY <1>12, Zenon DEF HeartbeatFails
    <3>2. [beats[p] EXCEPT ![t] = "dead"] \in [Token -> {"none", "live", "dead"}]
      BY Zenon
    <3>3. beats \in [Process -> [Token -> {"none", "live", "dead"}]]
      BY Zenon
    <3>4. [beats EXCEPT ![p] = [beats[p] EXCEPT ![t] = "dead"]]
            \in [Process -> [Token -> {"none", "live", "dead"}]]
      BY <3>2, <3>3, Zenon
    <3>. QED BY <3>1, <3>3, <3>4, ZenonT(60)
  <2>2. leaked' \in [Process -> SUBSET Token]
    BY <1>12 DEF HeartbeatFails
  <2>. QED BY <1>12, <2>1, <2>2 DEF HeartbeatFails
<1>13. ASSUME NEW p \in Process, CrashProcess(p) PROVE SemTypeOK' /\ TokenOK'
  BY <1>13 DEF CrashProcess
<1>14. ASSUME UNCHANGED semvars PROVE SemTypeOK' /\ TokenOK'
  BY <1>14, Zenon DEF semvars
<1>. QED BY <1>1, <1>2, <1>3, <1>4, <1>5, <1>6, <1>7, <1>8, <1>9, <1>10, <1>11,
            <1>12, <1>13, <1>14, Zenon DEF SemNext, Release

\* Every step keeps the circulation of every token within its bound.
LEMMA CirculationNext ==
  ASSUME SemInv, [SemNext]_semvars
  PROVE  Circulation'
<1>. USE DEF SemInv, SemTypeOK
<1>0. SemTypeOK' /\ TokenOK'
  BY SemTypeNext, Zenon
<1>a. \A t \in Token : Holders(t) \in SUBSET Client /\ Cardinality(Holders(t)) \in Nat
  <2>1. \A t \in Token : Holders(t) \in SUBSET Client
    BY Zenon DEF Holders
  <2>. QED BY <2>1, HolderCount, Zenon
<1>1. ASSUME ensure_slots PROVE Circulation'
  <2>. SUFFICES ASSUME NEW t \in Token
                PROVE  pool'[t] + Cardinality(Holders(t)') <= 1 + extra'[t]
    BY Zenon DEF Circulation
  <2>1. Holders(t)' = Holders(t)
    BY <1>1, Zenon DEF ensure_slots, Holders
  <2>2. pool'[t] = 1 /\ extra'[t] = MaxOf(extra[t], Cardinality(Holders(t)))
    BY <1>1, Zenon DEF ensure_slots
  <2>3. extra'[t] >= Cardinality(Holders(t)) /\ extra'[t] \in Nat
    BY <1>a, <2>2, MaxOfFacts
  <2>. QED BY <1>a, <2>1, <2>2, <2>3
<1>2. ASSUME NEW u \in Token, reap(u) PROVE Circulation'
  <2>. SUFFICES ASSUME NEW t \in Token
                PROVE  pool'[t] + Cardinality(Holders(t)') <= 1 + extra'[t]
    BY Zenon DEF Circulation
  <2>1. Holders(t)' = Holders(t)
    BY <1>2, Zenon DEF reap, Holders
  <2>2. CASE t = u
    <3>1. pool'[t] = 1 /\ extra'[t] = MaxOf(extra[t], Cardinality(Holders(t)))
      BY <1>2, <2>2, Zenon DEF reap
    <3>2. extra'[t] >= Cardinality(Holders(t)) /\ extra'[t] \in Nat
      BY <1>a, <3>1, MaxOfFacts
    <3>. QED BY <1>a, <2>1, <3>1, <3>2
  <2>3. CASE t # u
    BY <1>2, <2>1, <2>3, Zenon DEF reap, Circulation
  <2>. QED BY <2>2, <2>3, Zenon
<1>3. ASSUME NEW c \in Client, NEW u \in Token, Pop(c, u) PROVE Circulation'
  <2>. SUFFICES ASSUME NEW t \in Token
                PROVE  pool'[t] + Cardinality(Holders(t)') <= 1 + extra'[t]
    BY Zenon DEF Circulation
  <2>1. tok[c] \notin Token /\ extra' = extra
    BY <1>3, Zenon DEF Pop, At, TokenOK, Holding
  <2>2. CASE t = u
    <3>1. Holders(t)' = Holders(t) \cup {c} /\ c \in Client \ Holders(t)
      BY <1>3, <2>1, <2>2 DEF Pop, Holders
    <3>2. Cardinality(Holders(t)') = Cardinality(Holders(t)) + 1
      BY <1>a, <3>1, HolderCount, Zenon
    <3>3. pool'[t] = pool[t] - 1
      BY <1>3, <2>2, Zenon DEF Pop
    <3>. QED BY <1>a, <2>1, <3>2, <3>3 DEF Circulation
  <2>3. CASE t # u
    <3>1. Holders(t)' = Holders(t)
      BY <1>3, <2>1, <2>3, Zenon DEF Pop, Holders
    <3>. QED BY <1>3, <2>1, <2>3, <3>1, Zenon DEF Pop, Circulation
  <2>. QED BY <2>2, <2>3, Zenon
<1>4. ASSUME NEW c \in Client, Push(c) PROVE Circulation'
  <2>. SUFFICES ASSUME NEW t \in Token
                PROVE  pool'[t] + Cardinality(Holders(t)') <= 1 + extra'[t]
    BY Zenon DEF Circulation
  <2>1. tok[c] \in Token /\ extra' = extra
    BY <1>4, Zenon DEF Push, Leave, At, TokenOK, Holding
  <2>2. CASE t = tok[c]
    <3>1. Holders(t)' = Holders(t) \ {c} /\ c \in Holders(t)
      BY <1>4, <2>2, SemaphoreAssumption, Zenon DEF Push, Leave, Holders
    <3>2. Cardinality(Holders(t)') = Cardinality(Holders(t)) - 1
      BY <1>a, <3>1, HolderCount, Zenon
    <3>3. pool'[t] = pool[t] + 1
      BY <1>4, <2>2, Zenon DEF Push
    <3>. QED BY <1>a, <2>1, <3>2, <3>3 DEF Circulation
  <2>3. CASE t # tok[c]
    <3>1. Holders(t)' = Holders(t)
      BY <1>4, <2>3, SemaphoreAssumption, Zenon DEF Push, Leave, Holders
    <3>. QED BY <1>4, <2>1, <2>3, <3>1, Zenon DEF Push, Circulation
  <2>. QED BY <2>2, <2>3, Zenon
<1>5. ASSUME NEW c \in Client, Cancel(c) \/ Fail(c) PROVE Circulation'
  <2>1. /\ pool' = pool /\ extra' = extra
        /\ tok' = tok \/ tok' = [tok EXCEPT ![c] = NoToken]
    BY <1>5, Zenon DEF Cancel, Fail, Leave
  <2>2. \A t \in Token : Holders(t)' \subseteq Holders(t)
    BY <2>1, SemaphoreAssumption, Zenon DEF Holders
  <2>. QED BY <1>0, <2>1, <2>2, FewerKeep
<1>6. ASSUME NEW p \in Process, CrashProcess(p) PROVE Circulation'
  <2>1. \A t \in Token : Holders(t)' \subseteq Holders(t)
    BY <1>6, SemaphoreAssumption, Zenon DEF CrashProcess, Holders
  <2>. QED BY <1>0, <1>6, <2>1, FewerKeep, SMTT(30) DEF CrashProcess
<1>7. ASSUME \/ Wipe
             \/ \E t \in Token : Expire(t) \/ Stall(t)
             \/ \E c \in Client : Enter(c) \/ Lease(c) \/ Delete(c)
             \/ \E p \in Process, t \in Token : HeartbeatFails(p, t)
             \/ UNCHANGED semvars
      PROVE  Circulation'
  <2>1. tok' = tok /\ extra' = extra
    BY <1>7, ZenonT(60) DEF Wipe, Expire, Stall, Enter, Lease, Delete, HeartbeatFails, semvars
  <2>2. pool' = pool \/ pool' = [t \in Token |-> 0]
    BY <1>7, ZenonT(60) DEF Wipe, Expire, Stall, Enter, Lease, Delete, HeartbeatFails, semvars
  <2>3. \A t \in Token : Holders(t)' \subseteq Holders(t)
    BY <2>1, Zenon DEF Holders
  <2>4. \A t \in Token : pool'[t] <= pool[t]
    BY <2>2
  <2>. QED BY <1>0, <2>1, <2>3, <2>4, FewerKeep
<1>. QED BY <1>1, <1>2, <1>3, <1>4, <1>5, <1>6, <1>7, Zenon DEF SemNext, Release

\* The empty Redis before the first boot satisfies the invariant.
LEMMA SemInitInv == ASSUME SemInit PROVE SemInv
<1>1. /\ pool \in [Token -> Nat] /\ extra \in [Token -> Nat]
      /\ beats \in [Process -> [Token -> {"none", "live", "dead"}]]
      /\ leaked \in [Process -> SUBSET Token]
  BY Zenon DEF SemInit
<1>2. /\ lease \subseteq Token
      /\ pcs \in [Client -> Holding \cup {"off", "pop"}]
      /\ tok \in [Client -> Token \cup {NoToken}]
      /\ faults \in Nat /\ stalls \in Nat /\ wipes \in Nat
  BY Zenon DEF SemInit
<1>a. marker \in BOOLEAN
  BY ZenonT(60) DEF SemInit
<1>3. TokenOK
  BY SemaphoreAssumption, Zenon DEF SemInit, TokenOK, Holding
<1>4. \A t \in Token : Holders(t) = {}
  BY SemaphoreAssumption, Zenon DEF SemInit, Holders
<1>5. ASSUME NEW t \in Token
      PROVE  pool[t] + Cardinality(Holders(t)) <= 1 + extra[t]
  <2>1. Cardinality(Holders(t)) = 0
    BY <1>4, FS_EmptySet, Zenon
  <2>2. pool[t] = 1 /\ extra[t] = 0
    BY Zenon DEF SemInit
  <2>. QED BY <2>1, <2>2
<1>6. Circulation
  BY <1>5, Zenon DEF Circulation
<1>. QED BY <1>1, <1>2, <1>3, <1>a, <1>6, Zenon DEF SemInv, SemTypeOK

\* The inductive invariant: the types, a token exactly while a client will return
\* it, and the soft limit.
THEOREM SemHolds == SemSpec => []SemInv
<1>1. SemInit => SemInv
  BY SemInitInv, Zenon
<1>2. SemInv /\ [SemNext]_semvars => SemInv'
  BY SemTypeNext, CirculationNext, Zenon DEF SemInv
<1>. QED BY <1>1, <1>2, PTL DEF SemSpec

\* Every variable keeps its type: no client pops a token that is not in the pool,
\* and none holds a token it will not return.
THEOREM SemTypes == SemSpec => []SemTypeOK
<1>1. SemInv => SemTypeOK
  BY Zenon DEF SemInv
<1>. QED BY <1>1, SemHolds, PTL

\* The soft limit of Constraint A holds for any number of slots, clients and
\* workers: a token circulates once, plus once for each live holder past which
\* reap or ensure_slots gave it out again.
THEOREM SoftLimit == SemSpec => []Circulation
<1>1. SemInv => Circulation
  BY Zenon DEF SemInv
<1>. QED BY <1>1, SemHolds, PTL
-----------------------------------------------------------------------------
(* The lease of a working client.                                          *)

\* Two clients with the same token have been given it past a live holder.
LEMMA SharedToken ==
  ASSUME SemInv, NEW c \in Client, NEW d \in Client, c # d,
         tok[c] \in Token, tok[d] = tok[c]
  PROVE  extra[tok[c]] > 0
<1>. DEFINE t == tok[c]
<1>1. {c, d} \in SUBSET Holders(t) /\ Holders(t) \in SUBSET Client
  BY Zenon DEF Holders
<1>2. {c} \in SUBSET Client /\ {c} \cup {d} = {c, d} /\ d \in Client \ {c}
  BY Zenon
<1>3. Cardinality({c, d}) = Cardinality({c}) + 1
  BY <1>2, HolderCount, Zenon
<1>4. Cardinality({c}) = 1
  BY FS_Singleton, ZenonT(60)
<1>5. Cardinality({c, d}) <= Cardinality(Holders(t)) /\ Cardinality(Holders(t)) \in Nat
  BY <1>1, HolderCount, Zenon
<1>6. pool[t] + Cardinality(Holders(t)) <= 1 + extra[t] /\ pool[t] \in Nat
      /\ extra[t] \in Nat
  BY Zenon DEF SemInv, Circulation, SemTypeOK
<1>. QED BY <1>3, <1>4, <1>5, <1>6

\* What has been given out past a live holder stays so marked.
LEMMA ExtraGrows ==
  ASSUME SemInv, [SemNext]_semvars, NEW t \in Token
  PROVE  extra'[t] >= extra[t]
<1>. USE DEF SemInv, SemTypeOK
<1>1. Cardinality(Holders(t)) \in Nat
  <2>1. Holders(t) \in SUBSET Client
    BY Zenon DEF Holders
  <2>. QED BY <2>1, HolderCount, Zenon
<1>2. CASE ensure_slots
  BY <1>1, <1>2, MaxOfFacts, Zenon DEF ensure_slots
<1>3. CASE \E u \in Token : reap(u)
  <2>1. PICK u \in Token : reap(u)
    BY <1>3, Zenon
  <2>2. CASE u = t
    BY <1>1, <2>1, <2>2, MaxOfFacts, Zenon DEF reap
  <2>3. CASE u # t
    BY <2>1, <2>3 DEF reap
  <2>. QED BY <2>2, <2>3, Zenon
<1>4. CASE UNCHANGED extra
  BY <1>4
<1>. QED BY <1>2, <1>3, <1>4, ZenonT(60) DEF SemNext, semvars, Wipe, Expire, Stall, Enter, Lease,
     Release, Cancel, Delete, Push, Fail, Pop, CrashProcess, HeartbeatFails

\* A client that was working and still works keeps its lease, or the exception
\* that frees it from one.
LEMMA LeasedNext ==
  ASSUME SemInv, WorkersLeased, [SemNext]_semvars, stalls' = 0, wipes' = 0,
         NEW c \in Client, pcs'[c] = "work"
  PROVE  \/ tok'[c] \in lease'
         \/ extra'[tok'[c]] > 0
         \/ beats'[Proc[c]][tok'[c]] # "live"
<1>. DEFINE t == tok[c]
            p == Proc[c]
            Safe == t \in lease' \/ extra'[t] > 0 \/ beats'[p][t] # "live"
<1>. USE DEF Holding
<1>0. SemTypeOK /\ TokenOK
  BY Zenon DEF SemInv
<1>a. stalls = 0 /\ wipes = 0
  <2>1. UNCHANGED <<stalls, wipes>> \/ Wipe \/ \E u \in Token : Stall(u)
    BY ZenonT(60) DEF SemNext, semvars, ensure_slots, reap, Expire, Enter, Lease, Release, Cancel,
       Delete, Push, Fail, Pop, CrashProcess, HeartbeatFails
  <2>. QED BY <1>0, <2>1 DEF Wipe, Stall, SemTypeOK
<1>1. CASE Lease(c)
  BY <1>0, <1>1, Zenon DEF Lease
<1>2. CASE pcs[c] = "work" /\ tok'[c] = tok[c]
  <2>1. t \in Token /\ p \in Process
    BY <1>0, <1>2, SemaphoreAssumption, Zenon DEF TokenOK
  <2>2. extra'[t] >= extra[t] /\ extra[t] \in Nat /\ extra'[t] \in Nat
    BY <1>0, <2>1, ExtraGrows, SemTypeNext, Zenon DEF SemTypeOK
  <2>3. t \in lease \/ extra[t] > 0 \/ beats[p][t] # "live"
    BY <1>a, <1>2, Zenon DEF WorkersLeased
  <2>4. CASE extra[t] > 0
    BY <1>2, <2>2, <2>4
  <2>5. ASSUME NEW d \in Client, d # c, tok[d] = t PROVE extra[t] > 0
    BY <2>1, <2>5, SharedToken, Zenon
  <2>6. ASSUME ~(extra[t] > 0) PROVE Safe
    <3>1. ASSUME NEW d \in Client, Lease(d) PROVE Safe
      <4>1. d # c /\ tok[d] # t /\ tok[d] \in Token
        BY <1>0, <1>2, <2>5, <2>6, <3>1, Zenon DEF Lease, At, TokenOK
      <4>2. beats'[p][t] = beats[p][t] /\ lease \subseteq lease'
        BY <1>0, <2>1, <3>1, <4>1, SemaphoreAssumption, Zenon DEF Lease, SemTypeOK
      <4>. QED BY <2>3, <2>6, <4>2, Zenon
    <3>2. ASSUME NEW d \in Client, Cancel(d) PROVE Safe
      <4>1. d # c
        BY <1>0, <1>2, <3>2, Zenon DEF Cancel, At, Leave, SemTypeOK
      <4>2. tok[d] # t /\ tok[d] \in Token /\ lease' = lease
        BY <1>0, <2>5, <2>6, <3>2, <4>1, ZenonT(60) DEF Cancel, TokenOK
      <4>3. beats'[p][t] = beats[p][t]
        BY <1>0, <2>1, <3>2, <4>2, SemaphoreAssumption, Zenon DEF Cancel, SemTypeOK
      <4>. QED BY <2>3, <2>6, <4>2, <4>3, Zenon
    <3>3. ASSUME NEW d \in Client, Delete(d) PROVE Safe
      <4>1. d # c
        BY <1>2, <3>3, Zenon DEF Delete, At
      <4>2. tok[d] # t /\ lease' = lease \ {tok[d]} /\ beats' = beats
        BY <2>5, <2>6, <3>3, <4>1, Zenon DEF Delete
      <4>. QED BY <2>3, <2>6, <4>2, Zenon
    <3>4. ASSUME NEW u \in Token, Expire(u) PROVE Safe
      <4>1. CASE u = t
        BY <2>1, <3>4, <4>1, Zenon DEF Expire, Renewed
      <4>2. CASE u # t
        BY <2>3, <2>6, <3>4, <4>2, Zenon DEF Expire
      <4>. QED BY <4>1, <4>2, Zenon
    <3>5. ASSUME NEW q \in Process, NEW u \in Token, HeartbeatFails(q, u) PROVE Safe
      <4>1. beats'[p][t] = beats[p][t] \/ beats'[p][t] = "dead"
        BY <1>0, <2>1, <3>5 DEF HeartbeatFails, SemTypeOK
      <4>. QED BY <2>3, <2>6, <3>5, <4>1, Zenon DEF HeartbeatFails
    <3>6. ASSUME NEW q \in Process, CrashProcess(q) PROVE Safe
      <4>1. p # q
        BY <1>0, <3>6, Zenon DEF CrashProcess, SemTypeOK
      <4>2. beats'[p] = beats[p] /\ lease' = lease
        BY <1>0, <2>1, <3>6, <4>1, Zenon DEF CrashProcess, SemTypeOK
      <4>. QED BY <2>3, <2>6, <4>2, Zenon
    <3>7. ASSUME Wipe \/ \E u \in Token : Stall(u) PROVE FALSE
      BY <1>0, <3>7 DEF Wipe, Stall, SemTypeOK
    <3>8. CASE lease \subseteq lease' /\ beats' = beats
      BY <2>3, <2>6, <3>8, Zenon
    <3>. QED BY <3>1, <3>2, <3>3, <3>4, <3>5, <3>6, <3>7, <3>8, ZenonT(60) DEF SemNext, semvars,
         ensure_slots, reap, Enter, Pop, Release, Push, Fail
  <2>. QED BY <1>2, <2>4, <2>6, Zenon
<1>3. CASE ~Lease(c) /\ ~(pcs[c] = "work" /\ tok'[c] = tok[c])
  <2>1. ASSUME NEW d \in Client, \/ Enter(d) \/ Release(d) \/ Fail(d) \/ Lease(d)
                                 \/ \E u \in Token : Pop(d, u)
        PROVE  FALSE
    BY <1>0, <1>3, <2>1, SMTT(40) DEF Enter, Release, Cancel, Delete, Push, Fail, Lease, Pop, At,
       Leave, SemTypeOK
  <2>2. ASSUME NEW q \in Process, CrashProcess(q) PROVE FALSE
    BY <1>0, <1>3, <2>2, Zenon DEF CrashProcess, SemTypeOK
  <2>3. ASSUME UNCHANGED <<pcs, tok>> PROVE FALSE
    BY <1>3, <2>3, Zenon
  <2>. QED BY <2>1, <2>2, <2>3, Zenon DEF SemNext, semvars, ensure_slots, reap, Wipe, Expire,
       Stall, HeartbeatFails
<1>. QED BY <1>1, <1>2, <1>3, Zenon

\* As long as no heartbeat is later than the lease's TTL and Redis keeps its
\* keys, a working client whose heartbeat runs has its lease unless its token was
\* given out twice: the order of acquire and release (lease before work, delete
\* before push) protects it, whoever crashes or fails.
THEOREM LeaseProtects == SemSpec => []WorkersLeased
<1>1. SemInit => SemInv /\ WorkersLeased
  BY SemInitInv, ZenonT(60) DEF SemInit, WorkersLeased
<1>2. SemInv /\ WorkersLeased /\ [SemNext]_semvars => SemInv' /\ WorkersLeased'
  <2>. SUFFICES ASSUME SemInv, WorkersLeased, [SemNext]_semvars
                PROVE  SemInv' /\ WorkersLeased'
    BY Zenon
  <2>1. SemInv'
    BY SemTypeNext, CirculationNext, Zenon DEF SemInv
  <2>2. WorkersLeased'
    BY LeasedNext, Zenon DEF WorkersLeased
  <2>. QED BY <2>1, <2>2, Zenon
<1>. QED BY <1>1, <1>2, PTL DEF SemSpec
=============================================================================
