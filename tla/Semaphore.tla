----------------------------- MODULE Semaphore ------------------------------
(***************************************************************************)
(* The leased TTS semaphore of core/infra/redis.py with its two background *)
(* loops, the reaper and the reseeder, over a Redis that may lose all its  *)
(* keys.  A Client is one "async with semaphore.slot(owner)" of a tts      *)
(* handler; Proc says which worker process it runs in.                     *)
(*                                                                         *)
(* One action is one Redis command or one Lua script.  A lease's value     *)
(* (the owner) is left out: no command reads it.  tts:slots is a list, but *)
(* nothing depends on the order of its tokens, so it is a bag.             *)
(***************************************************************************)
EXTENDS Integers, FiniteSets

CONSTANTS
  Token,       \* the tokens "0" .. "slots - 1"
  Client,      \* the slot() calls that can be in progress at once
  Process,     \* the worker processes
  Proc,        \* [Client -> Process]
  NoToken,     \* what a client has outside its slot
  MaxFaults,   \* bound: crashes and failing Redis commands
  MaxStalls,   \* bound: leases that end although their heartbeat runs
  MaxWipes     \* bound: losses of all the keys

ASSUME SemaphoreAssumption ==
  /\ NoToken \notin Token
  /\ IsFiniteSet(Client)
  /\ Proc \in [Client -> Process]
  /\ {MaxFaults, MaxStalls, MaxWipes} \subseteq Nat

VARIABLES
  pool,     \* pool[t]: copies of t in tts:slots
  marker,   \* does tts:slots:init exist?
  lease,    \* the tokens t whose tts:lease:<t> exists
  pcs,      \* pcs[c]: the command client c is at
  tok,      \* tok[c]: the token of c
  beats,    \* beats[p][t]: the task registered in p's _heartbeats for t
  leaked,   \* leaked[p]: the tokens for which p runs an unregistered heartbeat,
            \* one or several: they act, and are taken to fail, as one
  extra,    \* history: the most live holders past which t was given out again
  faults, stalls, wipes

redis == <<pool, marker, lease>>
process == <<beats, leaked>>
semvars == <<redis, process, pcs, tok, extra, faults, stalls, wipes>>

\* The steps at which a client owns a token that it will return.
Holding == {"lease", "work", "delete", "push"}
Holders(t) == {c \in Client : tok[c] = t}

\* The type of every variable.
SemTypeOK ==
  /\ pool \in [Token -> Nat]
  /\ marker \in BOOLEAN
  /\ lease \subseteq Token
  /\ pcs \in [Client -> Holding \cup {"off", "pop"}]
  /\ tok \in [Client -> Token \cup {NoToken}]
  /\ beats \in [Process -> [Token -> {"none", "live", "dead"}]]
  /\ leaked \in [Process -> SUBSET Token]
  /\ extra \in [Token -> Nat]
  /\ faults \in Nat /\ stalls \in Nat /\ wipes \in Nat

\* When the first worker has booted: build_context awaits ensure_slots, over an empty
\* Redis, before anybody consumes or reaps.
SemInit ==
  /\ pool = [t \in Token |-> 1]
  /\ marker = TRUE
  /\ lease = {}
  /\ pcs = [c \in Client |-> "off"]
  /\ tok = [c \in Client |-> NoToken]
  /\ beats = [p \in Process |-> [t \in Token |-> "none"]]
  /\ leaked = [p \in Process |-> {}]
  /\ extra = [t \in Token |-> 0]
  /\ faults = 0 /\ stalls = 0 /\ wipes = 0

MaxOf(a, b) == IF a > b THEN a ELSE b

-----------------------------------------------------------------------------
(* The Lua scripts.                                                        *)

\* _ENSURE_SLOTS_LUA, by run_reseeder or a later boot: init once, never top up.
\* What it gives out again is what live clients still hold of a wiped pool.
ensure_slots ==
  /\ ~marker
  /\ pool' = [t \in Token |-> 1]
  /\ marker' = TRUE
  /\ extra' = [t \in Token |-> MaxOf(extra[t], Cardinality(Holders(t)))]
  /\ UNCHANGED <<lease, process, pcs, tok, faults, stalls, wipes>>

\* Mutation: the reclaim without its look at the pool.
reap_Blind(t) ==
  /\ t \notin lease
  /\ pool' = [pool EXCEPT ![t] = @ + 1]
  /\ extra' = [extra EXCEPT ![t] = MaxOf(@, Cardinality(Holders(t)))]
  /\ UNCHANGED <<marker, lease, process, pcs, tok, faults, stalls, wipes>>

\* _RECLAIM_LUA, by run_reaper: return a token that has no lease and is not in
\* the pool.
reap(t) ==
  /\ t \notin lease
  /\ pool[t] = 0
  /\ pool' = [pool EXCEPT ![t] = 1]
  /\ extra' = [extra EXCEPT ![t] = MaxOf(@, Cardinality(Holders(t)))]
  /\ UNCHANGED <<marker, lease, process, pcs, tok, faults, stalls, wipes>>

-----------------------------------------------------------------------------
(* slot: acquire, the caller's work, release.                              *)

At(c, from, to) ==
  /\ pcs[c] = from
  /\ pcs' = [pcs EXCEPT ![c] = to]

\* The slot() call of c ends, with or without having returned its token.
Leave(c, from) ==
  /\ At(c, from, "off")
  /\ tok' = [tok EXCEPT ![c] = NoToken]

\* slot() is entered: BLPOP without a timeout.
Enter(c) ==
  /\ At(c, "off", "pop")
  /\ UNCHANGED <<redis, process, tok, extra, faults, stalls, wipes>>

\* Mutation: the caller takes the answer of an empty pool for a token.
Pop_Empty(c, t) ==
  /\ At(c, "pop", "lease")
  /\ pool' = [pool EXCEPT ![t] = @ - 1]
  /\ tok' = [tok EXCEPT ![c] = t]
  /\ UNCHANGED <<marker, lease, process, extra, faults, stalls, wipes>>

Pop(c, t) ==
  /\ At(c, "pop", "lease")
  /\ pool[t] > 0
  /\ pool' = [pool EXCEPT ![t] = @ - 1]
  /\ tok' = [tok EXCEPT ![c] = t]
  /\ UNCHANGED <<marker, lease, process, extra, faults, stalls, wipes>>

\* Mutation: the heartbeat alone, whose SET XX finds no lease to renew.
Lease_HeartbeatOnly(c) ==
  LET p == Proc[c]
      t == tok[c]
  IN
  /\ At(c, "lease", "work")
  /\ beats' = [beats EXCEPT ![p][t] = "live"]
  /\ leaked' = IF beats[p][t] = "live" THEN [leaked EXCEPT ![p] = @ \cup {t}]
                                       ELSE leaked
  /\ UNCHANGED <<redis, tok, extra, faults, stalls, wipes>>

\* SET lease NX, then the heartbeat's task is started and registered under the
\* token; a live one registered before is left running.
Lease(c) ==
  LET p == Proc[c]
      t == tok[c]
  IN
  /\ At(c, "lease", "work")
  /\ lease' = lease \cup {t}
  /\ beats' = [beats EXCEPT ![p][t] = "live"]
  /\ leaked' = IF beats[p][t] = "live" THEN [leaked EXCEPT ![p] = @ \cup {t}]
                                       ELSE leaked
  /\ UNCHANGED <<pool, marker, tok, extra, faults, stalls, wipes>>

\* release, first part: unregister the token's heartbeat, cancel and await it.
\* One that has died of an exception raises it here, and the token stays out.
Cancel(c) ==
  LET p == Proc[c]
      t == tok[c]
  IN
  /\ pcs[c] = "work"
  /\ IF beats[p][t] = "dead" THEN Leave(c, "work")
                             ELSE At(c, "work", "delete") /\ UNCHANGED tok
  /\ beats' = [beats EXCEPT ![p][t] = "none"]
  /\ UNCHANGED <<redis, leaked, extra, faults, stalls, wipes>>

Delete(c) ==
  /\ At(c, "delete", "push")
  /\ lease' = lease \ {tok[c]}
  /\ UNCHANGED <<pool, marker, process, tok, extra, faults, stalls, wipes>>

Push(c) ==
  /\ Leave(c, "push")
  /\ pool' = [pool EXCEPT ![tok[c]] = @ + 1]
  /\ UNCHANGED <<marker, lease, process, extra, faults, stalls, wipes>>

-----------------------------------------------------------------------------
(* Time, failures, crashes.                                                *)

\* A lease is renewed by every live heartbeat of its token, leaked ones too.
Renewed(t) ==
  \E p \in Process : beats[p][t] = "live" \/ t \in leaked[p]

\* Mutation: the lease is SET without EX.
Expire_Never(t) == FALSE /\ UNCHANGED semvars

\* A lease that nothing renews runs out.
Expire(t) ==
  /\ t \in lease
  /\ ~Renewed(t)
  /\ lease' = lease \ {t}
  /\ UNCHANGED <<pool, marker, process, pcs, tok, extra, faults, stalls, wipes>>

\* A healthy holder stalls: its heartbeat is later than the lease's TTL.
Stall(t) ==
  /\ t \in lease
  /\ Renewed(t)
  /\ stalls < MaxStalls
  /\ stalls' = stalls + 1
  /\ lease' = lease \ {t}
  /\ UNCHANGED <<pool, marker, process, pcs, tok, extra, faults, wipes>>

\* A Redis command of acquire or release raises: the call ends there and the token,
\* if it has one, stays out.  A command that raises may have been executed: a BLPOP
\* that was is the Fail of the next step, a DEL or RPUSH the Fail, or the end, of
\* the next step.
Fail(c) ==
  /\ pcs[c] \in {"pop", "lease", "delete", "push"}
  /\ faults < MaxFaults
  /\ faults' = faults + 1
  /\ \/ UNCHANGED lease
     \/ pcs[c] = "lease" /\ lease' = lease \cup {tok[c]}
  /\ Leave(c, pcs[c])
  /\ UNCHANGED <<pool, marker, process, extra, stalls, wipes>>

\* The SET XX of a heartbeat raises, which ends its task; a registered one stays
\* in _heartbeats with its exception.
HeartbeatFails(p, t) ==
  /\ faults < MaxFaults
  /\ faults' = faults + 1
  /\ \/ /\ beats[p][t] = "live"
        /\ beats' = [beats EXCEPT ![p][t] = "dead"]
        /\ UNCHANGED leaked
     \/ /\ t \in leaked[p]
        /\ leaked' = [leaked EXCEPT ![p] = @ \ {t}]
        /\ UNCHANGED beats
  /\ UNCHANGED <<redis, pcs, tok, extra, stalls, wipes>>

\* A worker process dies with its clients and its heartbeats.
CrashProcess(p) ==
  /\ \E c \in Client : Proc[c] = p /\ pcs[c] # "off"
  /\ faults < MaxFaults
  /\ faults' = faults + 1
  /\ pcs' = [c \in Client |-> IF Proc[c] = p THEN "off" ELSE pcs[c]]
  /\ tok' = [c \in Client |-> IF Proc[c] = p THEN NoToken ELSE tok[c]]
  /\ beats' = [beats EXCEPT ![p] = [t \in Token |-> "none"]]
  /\ leaked' = [leaked EXCEPT ![p] = {}]
  /\ UNCHANGED <<redis, extra, stalls, wipes>>

\* Redis restarts without a volume, or is flushed.
Wipe ==
  /\ marker
  /\ wipes < MaxWipes
  /\ wipes' = wipes + 1
  /\ pool' = [t \in Token |-> 0]
  /\ marker' = FALSE
  /\ lease' = {}
  /\ UNCHANGED <<process, pcs, tok, extra, faults, stalls>>

Release(c) == Cancel(c) \/ Delete(c) \/ Push(c)

SemNext ==
  \/ ensure_slots
  \/ Wipe
  \/ \E t \in Token : reap(t) \/ Expire(t) \/ Stall(t)
  \/ \E c \in Client : \/ Enter(c) \/ Lease(c) \/ Release(c) \/ Fail(c)
                       \/ \E t \in Token : Pop(c, t)
  \/ \E p \in Process : \/ CrashProcess(p)
                        \/ \E t \in Token : HeartbeatFails(p, t)

SemSpec == SemInit /\ [][SemNext]_semvars

\* Fairness: the loops of a live worker go on, leases run out, the caller's work
\* ends, and Redis serves the clients blocked in BLPOP first come, first served.
SemFairness ==
  /\ WF_semvars(ensure_slots)
  /\ \A t \in Token : WF_semvars(reap(t)) /\ WF_semvars(Expire(t))
  /\ \A c \in Client : /\ WF_semvars(Lease(c))
                        /\ WF_semvars(Release(c))
                        /\ SF_semvars(\E t \in Token : Pop(c, t))

SemFairSpec == SemSpec /\ SemFairness

-----------------------------------------------------------------------------
(* Properties.                                                             *)

\* The soft limit: a token is in circulation (in the pool, or with a client that
\* will return it) at most once, plus once for each live holder past which the
\* reaper or a reseed after a wipe gave it out again.  Crashes, stalls, failing
\* commands and racing reapers add nothing (_RECLAIM_LUA, _ENSURE_SLOTS_LUA).
Circulation ==
  \A t \in Token : pool[t] + Cardinality(Holders(t)) <= 1 + extra[t]

\* Until a heartbeat is late or the keys are lost, a client that synthesises in a
\* slot with its heartbeat running is protected by a lease, as long as its token was
\* never given out twice (release clears the lease before it returns the token).
WorkersLeased ==
  stalls = 0 /\ wipes = 0 =>
    \A c \in Client :
      LET t == tok[c] IN
      pcs[c] = "work" => \/ t \in lease
                         \/ extra[t] > 0
                         \/ beats[Proc[c]][t] # "live"

\* Nobody blocks in acquire for ever: what crashes, failures and wipes take out of
\* the pool, the reaper and the reseeder return (maintenance.py).
NoStarvation == \A c \in Client : []<>(pcs[c] # "pop")

\* The same, as long as no heartbeat runs that its process cannot cancel any more.
Served ==
  \A c \in Client : []<>(pcs[c] # "pop" \/ \E p \in Process : leaked[p] # {})
=============================================================================
