---------------------------- MODULE NodeManager ----------------------------
(***************************************************************************)
(* The node management engine of src/src/agent: NodeManager with its       *)
(* NodePool, PhonePool and Redis lock, the campaign jobs that lease nodes  *)
(* from it, and the background activities that touch the same records: the *)
(* idle-release sweep, the terminate handler, the health pass and the      *)
(* dashboard's cache resynchronisation.                                    *)
(*                                                                         *)
(* One Node.js process talks to one Redis connection.  A step runs from    *)
(* one await to the next, so NodePool.update is two steps: it reads the    *)
(* record and issues SETEX (Write), and it fills the cache when the reply  *)
(* comes (Flush).  Replies of one connection come in the order of the      *)
(* commands, hence the queue pipe.                                         *)
(***************************************************************************)
EXTENDS Naturals, Sequences, FiniteSets

CONSTANTS
    Job,        \* campaign jobs; a job stands for its campaign too
    Node,       \* OpenClaw node identifiers
    Seeded,     \* the nodes Redis knows when the process starts
    Slot,       \* phone slots held by the PhonePool
    MaxNodes,   \* MAX_NODES, the allocation guard
    Verdicts,   \* what a health check can find
    Env,        \* what surrounds the jobs, see Activity
    None        \* undefined / no entry

Activity == {"sweep", "terminate", "health", "alarm", "sync",
             "spawn", "ttl", "crash", "longtasks", "slotExpiry"}
Background == {"sweep", "terminate", "health", "board"}
Actor == Job \cup Background

ASSUME ConstantsAssumption ==
    /\ Seeded \subseteq Node
    /\ MaxNodes \in Nat
    /\ Verdicts \subseteq {"ok", "degraded", "unhealthy"}
    /\ Env \subseteq Activity
    /\ Job \cap (Background \cup {"dead"}) = {}
    /\ None \notin Actor \cup Node \cup Slot \cup {"dead"}

States == {"idle", "allocated", "busy", "cooling", "unhealthy"}
Healths == {"unknown", "ok", "degraded", "unhealthy"}
Record == [state : States, health : Healths,
           job : Job \cup {None}, phone : Slot \cup {None}]
ASSUME NoneIsNoRecord == None \notin Record

VARIABLES
    lock,   \* the Redis lock key: its holder, "dead" after a crash, or None
    late,   \* actors inside withLock whose lock key has expired
    redis,  \* clawcommerce:node:<id>
    cache,  \* NodePool.cache
    pipe,   \* upserts whose SETEX is sent and whose cache.set is still to come
    phone,  \* PhonePool.slots
    old,    \* nodes allocated longer ago than idleReleaseMinutes
    pc, at, \* where each actor is, and the node it works on
    todo    \* what is left of a background actor's snapshot

vars == <<lock, late, redis, cache, pipe, phone, old, pc, at, todo>>

JobPc == {"queued", "spawning", "registering", "registered", "allocating",
          "unlocking", "leased", "scraping", "executing", "generating",
          "generated", "publishing", "cooling", "finally", "releasing",
          "released"}
BackgroundPc == {"resting", "sweeping", "releasing", "released", "terminating",
                 "freeing", "checking", "probing", "alarmed", "alarming",
                 "marking", "loading"}
\* Between the SET NX and the compare-and-delete of withLock.
LockedPc == {"spawning", "registering", "registered", "allocating", "unlocking",
             "releasing", "released", "terminating", "freeing"}
InsideLock(a) == pc[a] \in LockedPc

\* A phone slot: its status and the node it is bound to.
SlotRecord == [status : {"available", "allocated", "expired", "gone"},
               node : Node \cup {None}, lapsed : BOOLEAN]

----------------------------------------------------------------------------
(* NodePool                                                                *)

Fresh == [state |-> "idle", health |-> "unknown", job |-> None, phone |-> None]

\* NodePool.get: the cached record, or the one in Redis.
Current(n) == IF cache[n] # None THEN cache[n] ELSE redis[n]

Cached == {n \in Node : cache[n] # None}
InState(S) == {n \in Cached : cache[n].state \in S}
\* Mutant: nodes in risk-control cooling count as idle.
IdleOrCooling == {n \in InState({"idle", "cooling"}) : cache[n].health \in {"ok", "unknown"}}
Idle == {n \in InState({"idle"}) : cache[n].health \in {"ok", "unknown"}}

\* upsert up to its first await; a get that missed has filled the cache.
Write(a, n, rec) ==
    /\ redis' = [redis EXCEPT ![n] = rec]
    /\ cache' = [cache EXCEPT ![n] = Current(n)]
    /\ pipe' = Append(pipe, [by |-> a, node |-> n, rec |-> rec])

Assigned(n, t, s) == [Current(n) EXCEPT !.state = "allocated", !.job = t, !.phone = s]
\* Mutants: release forgets phoneNumberId; release stops at the state "releasing".
ClearedButPhone(n) == [Current(n) EXCEPT !.state = "idle", !.job = None]
ClearedHalfway(n) == [Current(n) EXCEPT !.state = "releasing", !.job = None, !.phone = None]
Cleared(n) == [Current(n) EXCEPT !.state = "idle", !.job = None, !.phone = None]
InWorkflow(n, state) == [Current(n) EXCEPT !.state = state]

\* Where an actor goes on once its upsert has returned.
Resumes == [registering |-> "registered", allocating |-> "unlocking",
            scraping |-> "executing", generating |-> "generated",
            publishing |-> "finally", cooling |-> "finally",
            releasing |-> "released", freeing |-> "terminating",
            probing |-> "checking", alarming |-> "alarmed",
            marking |-> "checking"]

\* Mutant: replies are handled newest first, as with one connection per command.
FlushNewest ==
    /\ pipe # <<>>
    /\ LET w == pipe[Len(pipe)]
       IN  /\ cache' = [cache EXCEPT ![w.node] = w.rec]
           /\ pc' = [pc EXCEPT ![w.by] = Resumes[@]]
    /\ pipe' = SubSeq(pipe, 1, Len(pipe) - 1)
    /\ UNCHANGED <<lock, late, redis, phone, old, at, todo>>

\* The oldest upsert's replies arrive: cache.set, and its caller runs on.
Flush ==
    /\ pipe # <<>>
    /\ LET w == Head(pipe)
       IN  /\ cache' = [cache EXCEPT ![w.node] = w.rec]
           /\ pc' = [pc EXCEPT ![w.by] = Resumes[@]]
    /\ pipe' = Tail(pipe)
    /\ UNCHANGED <<lock, late, redis, phone, old, at, todo>>

----------------------------------------------------------------------------
(* PhonePool and the lock                                                  *)

Available == {s \in Slot : phone[s].status = "available" /\ ~phone[s].lapsed}

BindSlot(s, n) == phone' = [phone EXCEPT ![s].status = "allocated", ![s].node = n]

\* release(slotId, true): back to available whoever holds it; an unknown id is ignored.
FreeSlot(s) ==
    phone' = IF s = None \/ phone[s].status = "gone" THEN phone
             ELSE [phone EXCEPT ![s].status = "available", ![s].node = None]

\* Mutant: SET without NX.
TryLockAlways(a) == lock' = a
TryLock(a) == lock = None /\ lock' = a

\* Mutant: plain DEL instead of the script.
UnlockBlindly(a) ==
    /\ lock' = None
    /\ late' = late \ {a}
\* The compare-and-delete script: only the token's owner deletes the key.
Unlock(a) ==
    /\ lock' = IF lock = a THEN None ELSE lock
    /\ late' = late \ {a}

\* PX LOCK_TTL_MS runs out while the holder is still inside, or is dead.
LockExpires ==
    /\ "ttl" \in Env
    /\ lock # None
    /\ late' = IF lock \in Actor THEN late \cup {lock} ELSE late
    /\ lock' = None
    /\ UNCHANGED <<redis, cache, pipe, phone, old, pc, at, todo>>

Goto(a, label) == pc' = [pc EXCEPT ![a] = label]

----------------------------------------------------------------------------
(* A campaign job: allocate, work through the workflow states, release     *)

\* The rest of allocate once it has node n: bind a slot if one is available, nodePool.allocate.
Assign(t, n) ==
    /\ \/ /\ Available = {}
          /\ Write(t, n, Assigned(n, t, None))
          /\ UNCHANGED phone
       \/ \E s \in Available :
            /\ Write(t, n, Assigned(n, t, s))
            /\ BindSlot(s, n)
    /\ old' = old \ {n}
    /\ at' = [at EXCEPT ![t] = n]
    /\ Goto(t, "allocating")

AllocateIdle(t) ==
    /\ pc[t] = "queued"
    /\ TryLock(t)
    /\ \E n \in Idle : Assign(t, n)
    /\ UNCHANGED <<late, todo>>

CanSpawn == "spawn" \in Env /\ Cardinality(Cached) < MaxNodes

AllocateSpawns(t) ==
    /\ pc[t] = "queued"
    /\ TryLock(t)
    /\ Idle = {} /\ CanSpawn
    /\ Goto(t, "spawning")
    /\ UNCHANGED <<late, redis, cache, pipe, phone, old, at, todo>>

\* spawnNode resolves: with a new node, which is upserted, or with null.
SpawnReturns(t) ==
    /\ pc[t] = "spawning"
    /\ \/ \E n \in Node :
            /\ redis[n] = None
            /\ Write(t, n, Fresh)
            /\ at' = [at EXCEPT ![t] = n]
            /\ Goto(t, "registering")
       \/ /\ Goto(t, "unlocking")
          /\ UNCHANGED <<redis, cache, pipe, at>>
    /\ UNCHANGED <<lock, late, phone, old, todo>>

AllocateSpawned(t) ==
    /\ pc[t] = "registered"
    /\ Assign(t, at[t])
    /\ UNCHANGED <<lock, late, todo>>

AllocateNothing(t) ==
    /\ pc[t] = "queued"
    /\ TryLock(t)
    /\ Idle = {} /\ ~CanSpawn
    /\ Goto(t, "unlocking")
    /\ UNCHANGED <<late, redis, cache, pipe, phone, old, at, todo>>

\* allocate returns; without a node the job gives up and may be retried.
AllocateReturns(t) ==
    /\ pc[t] = "unlocking"
    /\ Unlock(t)
    /\ Goto(t, IF at[t] = None THEN "queued" ELSE "leased")
    /\ UNCHANGED <<redis, cache, pipe, phone, old, at, todo>>

\* setWorkflowState looks at neither the lock nor the record's campaign.
SetWorkflowState(t, from, to, state) ==
    /\ pc[t] = from
    /\ Write(t, at[t], InWorkflow(at[t], state))
    /\ Goto(t, to)
    /\ UNCHANGED <<lock, late, phone, old, at, todo>>

Scrape(t)      == SetWorkflowState(t, "leased", "scraping", "busy")
Generate(t)    == SetWorkflowState(t, "executing", "generating", "busy")
Publish(t)     == SetWorkflowState(t, "generated", "publishing", "busy")
ExecuteFails(t) == SetWorkflowState(t, "executing", "cooling", "cooling")

\* Mutant: release does not give the phone back.
ReleaseKeepsSlot(a, n) ==
    /\ Write(a, n, Cleared(n))
    /\ old' = old \ {n}
    /\ Goto(a, "releasing")
    /\ UNCHANGED phone

\* The body of release(nodeId), inside the lock.
ReleaseNode(a, n) ==
    /\ FreeSlot(Current(n).phone)
    /\ Write(a, n, Cleared(n))
    /\ old' = old \ {n}
    /\ Goto(a, "releasing")

\* The job's finally block: release by node id, whoever owns the node by now.
Finally(t) ==
    /\ pc[t] = "finally"
    /\ TryLock(t)
    /\ ReleaseNode(t, at[t])
    /\ UNCHANGED <<late, at, todo>>

\* withLock throws when the key is taken: the job ends and the node stays assigned.
FinallyThrows(t) ==
    /\ pc[t] = "finally"
    /\ lock # None
    /\ Goto(t, "queued")
    /\ at' = [at EXCEPT ![t] = None]
    /\ UNCHANGED <<lock, late, redis, cache, pipe, phone, old, todo>>

ReleaseReturns(a) ==
    /\ pc[a] = "released"
    /\ Unlock(a)
    /\ Goto(a, IF a \in Job THEN "queued" ELSE "sweeping")
    /\ at' = [at EXCEPT ![a] = None]
    /\ UNCHANGED <<redis, cache, pipe, phone, old, todo>>

JobWork(t) ==
    \/ SpawnReturns(t) \/ AllocateSpawned(t) \/ AllocateReturns(t)
    \/ Scrape(t) \/ Generate(t) \/ Publish(t) \/ ExecuteFails(t)
    \/ Finally(t) \/ FinallyThrows(t) \/ ReleaseReturns(t)
JobStarts(t) == AllocateIdle(t) \/ AllocateSpawns(t) \/ AllocateNothing(t)
----------------------------------------------------------------------------
(* The idle-release sweep                                                  *)

\* idleReleaseMinutes pass since n was allocated; only with "longtasks" in Env
\* may that happen to a node whose job is still at work.
Age(n) ==
    /\ n \notin old
    /\ redis[n] # None /\ redis[n].job # None
    /\ "longtasks" \in Env \/ \A t \in Job : at[t] # n
    /\ old' = old \cup {n}
    /\ UNCHANGED <<lock, late, redis, cache, pipe, phone, pc, at, todo>>

\* Mutant: the sweep looks at allocated nodes only.
AllocatedTooLong == {n \in InState({"allocated"}) \cap old : cache[n].job # None}
\* Allocated or busy nodes with an allocatedAt before the threshold.
IdleTooLong == {n \in InState({"allocated", "busy"}) \cap old : cache[n].job # None}

ExpireOld ==
    phone' = [s \in Slot |->
                IF phone[s].lapsed /\ phone[s].status = "available"
                  THEN [phone[s] EXCEPT !.status = "expired"] ELSE phone[s]]

\* releaseIdleNodes takes its snapshot outside the lock and goes straight on to
\* release the first node; with the lock taken the pass ends there.
SweepStarts(n) ==
    /\ "sweep" \in Env
    /\ pc["sweep"] = "resting"
    /\ n \in IdleTooLong
    /\ TryLock("sweep")
    /\ todo' = [todo EXCEPT !["sweep"] =
                  {[node |-> m, phone |-> None] : m \in IdleTooLong \ {n}}]
    /\ ReleaseNode("sweep", n)
    /\ UNCHANGED <<late, at>>

SweepFindsNone ==
    /\ "sweep" \in Env
    /\ pc["sweep"] = "resting"
    /\ IdleTooLong = {}
    /\ ExpireOld
    /\ UNCHANGED <<lock, late, redis, cache, pipe, old, pc, at, todo>>

\* The next node of the snapshot, without looking whether it is still idle too long.
SweepContinues(n) ==
    /\ pc["sweep"] = "sweeping"
    /\ [node |-> n, phone |-> None] \in todo["sweep"]
    /\ TryLock("sweep")
    /\ todo' = [todo EXCEPT !["sweep"] = @ \ {[node |-> n, phone |-> None]}]
    /\ ReleaseNode("sweep", n)
    /\ UNCHANGED <<late, at>>

\* The lock is taken: the exception ends the pass, expireOld is not reached.
SweepThrows ==
    /\ pc["sweep"] = "sweeping"
    /\ todo["sweep"] # {} /\ lock # None
    /\ todo' = [todo EXCEPT !["sweep"] = {}]
    /\ Goto("sweep", "resting")
    /\ UNCHANGED <<lock, late, redis, cache, pipe, phone, old, at>>

SweepEnds ==
    /\ pc["sweep"] = "sweeping"
    /\ todo["sweep"] = {}
    /\ ExpireOld
    /\ Goto("sweep", "resting")
    /\ UNCHANGED <<lock, late, redis, cache, pipe, old, at, todo>>

\* A slot's expiresAt passes.
SlotLapses(s) ==
    /\ "slotExpiry" \in Env
    /\ ~phone[s].lapsed
    /\ phone' = [phone EXCEPT ![s].lapsed = TRUE]
    /\ UNCHANGED <<lock, late, redis, cache, pipe, old, pc, at, todo>>

SweepRuns == SweepFindsNone \/ SweepThrows \/ SweepEnds \/ ReleaseReturns("sweep")
----------------------------------------------------------------------------
(* POST /internal/campaign/terminate                                       *)

TerminateStarts(c) ==
    /\ "terminate" \in Env
    /\ pc["terminate"] = "resting"
    /\ TryLock("terminate")
    /\ todo' = [todo EXCEPT !["terminate"] =
                  {[node |-> n, phone |-> cache[n].phone] :
                     n \in {m \in InState({"allocated", "busy"}) : cache[m].job = c}}]
    /\ Goto("terminate", "terminating")
    /\ UNCHANGED <<late, redis, cache, pipe, phone, old, at>>

TerminateReleases ==
    /\ pc["terminate"] = "terminating"
    /\ \E x \in todo["terminate"] :
         /\ FreeSlot(x.phone)
         /\ Write("terminate", x.node, Cleared(x.node))
         /\ old' = old \ {x.node}
         /\ todo' = [todo EXCEPT !["terminate"] = @ \ {x}]
    /\ Goto("terminate", "freeing")
    /\ UNCHANGED <<lock, late, at>>

TerminateReturns ==
    /\ pc["terminate"] = "terminating"
    /\ todo["terminate"] = {}
    /\ Unlock("terminate")
    /\ Goto("terminate", "resting")
    /\ UNCHANGED <<redis, cache, pipe, phone, old, at, todo>>
----------------------------------------------------------------------------
(* Health pass and dashboard resynchronisation                             *)

HealthPassStarts ==
    /\ "health" \in Env
    /\ pc["health"] = "resting"
    /\ todo' = [todo EXCEPT !["health"] = {[node |-> n, phone |-> None] : n \in Cached}]
    /\ Goto("health", "checking")
    /\ UNCHANGED <<lock, late, redis, cache, pipe, phone, old, at>>

\* applyResult -> setHealth: rewrites the whole record, without the lock.
AppliesResult ==
    /\ pc["health"] = "checking"
    /\ \E x \in todo["health"], verdict \in Verdicts :
         /\ Write("health", x.node, [Current(x.node) EXCEPT !.health = verdict])
         /\ at' = [at EXCEPT !["health"] = x.node]
         /\ todo' = [todo EXCEPT !["health"] = @ \ {x}]
         /\ Goto("health", IF verdict = "unhealthy" THEN "alarming" ELSE "probing")
    /\ UNCHANGED <<lock, late, phone, old>>

\* onUnhealthy: a hook that only logs, or one wired to markUnhealthy.
OnUnhealthy ==
    /\ pc["health"] = "alarmed"
    /\ \/ /\ Goto("health", "checking")
          /\ UNCHANGED <<redis, cache, pipe>>
       \/ LET n == at["health"]
          IN  /\ "alarm" \in Env
              /\ Write("health", n, [Current(n) EXCEPT !.state = "unhealthy",
                                                       !.health = "unhealthy"])
              /\ Goto("health", "marking")
    /\ UNCHANGED <<lock, late, phone, old, at, todo>>

HealthPassEnds ==
    /\ pc["health"] = "checking"
    /\ todo["health"] = {}
    /\ Goto("health", "resting")
    /\ at' = [at EXCEPT !["health"] = None]
    /\ UNCHANGED <<lock, late, redis, cache, pipe, phone, old, todo>>

\* syncFromRedis: cache.clear(), then one GET per id of the index.
SyncClears ==
    /\ "sync" \in Env
    /\ pc["board"] = "resting"
    /\ cache' = [n \in Node |-> None]
    /\ todo' = [todo EXCEPT !["board"] =
                  {[node |-> n, phone |-> None] : n \in {m \in Node : redis[m] # None}}]
    /\ Goto("board", "loading")
    /\ UNCHANGED <<lock, late, redis, pipe, phone, old, at>>

SyncLoads ==
    /\ pc["board"] = "loading"
    /\ \E x \in todo["board"] :
         /\ cache' = [cache EXCEPT ![x.node] = redis[x.node]]
         /\ todo' = [todo EXCEPT !["board"] = @ \ {x}]
    /\ UNCHANGED <<lock, late, redis, pipe, phone, old, pc, at>>

SyncEnds ==
    /\ pc["board"] = "loading"
    /\ todo["board"] = {}
    /\ Goto("board", "resting")
    /\ UNCHANGED <<lock, late, redis, cache, pipe, phone, old, at, todo>>

----------------------------------------------------------------------------
Restarted == [a \in Actor |-> IF a \in Job THEN "queued" ELSE "resting"]

\* The process dies and starts again: start() loads the pool from Redis, the
\* phone pool was only in memory, the lock key stays until its TTL.
CrashAndRestart ==
    /\ "crash" \in Env
    /\ lock' = IF lock = None THEN None ELSE "dead"
    /\ late' = {}
    /\ cache' = redis
    /\ pipe' = <<>>
    /\ phone' = [s \in Slot |-> [status |-> "gone", node |-> None, lapsed |-> FALSE]]
    /\ pc' = Restarted
    /\ at' = [a \in Actor |-> None]
    /\ todo' = [b \in Background |-> {}]
    /\ UNCHANGED <<redis, old>>

Init ==
    /\ lock = None /\ late = {} /\ pipe = <<>> /\ old = {}
    /\ redis = [n \in Node |-> IF n \in Seeded THEN Fresh ELSE None]
    /\ cache = redis
    /\ phone = [s \in Slot |-> [status |-> "available", node |-> None, lapsed |-> FALSE]]
    /\ pc = Restarted
    /\ at = [a \in Actor |-> None]
    /\ todo = [b \in Background |-> {}]

Next ==
    \/ Flush \/ LockExpires \/ CrashAndRestart
    \/ \E t \in Job : JobStarts(t) \/ JobWork(t)
    \/ \E n \in Node : Age(n)
    \/ SweepRuns \/ \E n \in Node : SweepStarts(n) \/ SweepContinues(n)
    \/ \E s \in Slot : SlotLapses(s)
    \/ \E c \in Job : TerminateStarts(c)
    \/ TerminateReleases \/ TerminateReturns
    \/ HealthPassStarts \/ AppliesResult \/ OnUnhealthy \/ HealthPassEnds
    \/ SyncClears \/ SyncLoads \/ SyncEnds

Spec == Init /\ [][Next]_vars

----------------------------------------------------------------------------
(* Properties                                                              *)

PipeEntry == [by : Actor, node : Node, rec : Record]

\* Every variable has its type.
TypeOK ==
    /\ lock \in Actor \cup {None, "dead"}
    /\ late \subseteq Actor
    /\ redis \in [Node -> Record \cup {None}]
    /\ cache \in [Node -> Record \cup {None}]
    /\ pipe \in Seq(PipeEntry)
    /\ phone \in [Slot -> SlotRecord]
    /\ old \subseteq Node
    /\ pc \in [Actor -> JobPc \cup BackgroundPc]
    /\ at \in [Actor -> Node \cup {None}]
    /\ todo \in [Background -> SUBSET [node : Node, phone : Slot \cup {None}]]

\* withLock excludes: whoever is inside it and has not outlived its TTL holds
\* the key, so two such actors are never inside together, and a late release
\* never deletes the key of the actor that came after.
LeaseExclusive ==
    /\ \A a \in Actor : InsideLock(a) /\ a \notin late => lock = a
    /\ \A a \in Actor : lock = a => InsideLock(a)

\* Between Redis and the cache nothing gets lost for good: with no upsert of a
\* node in flight its cache entry is absent or equal to Redis, and the newest
\* upsert in flight is what Redis holds.
CacheCoherent ==
    \A n \in Node :
        /\ (\A i \in DOMAIN pipe : pipe[i].node # n) => cache[n] \in {None, redis[n]}
        /\ \A i \in DOMAIN pipe :
             (/\ pipe[i].node = n
              /\ \A j \in DOMAIN pipe : j > i => pipe[j].node # n)
                 => redis[n] = pipe[i].rec

Clean(r) == r # None /\ r.state = "idle" => r.job = None /\ r.phone = None

\* No write, stale or not, ever offers a node as idle that still carries a
\* campaign or a phone: not in Redis, not in the cache, not on the way there.
IdleRecordIsClean ==
    /\ \A n \in Node : Clean(redis[n]) /\ Clean(cache[n])
    /\ \A i \in DOMAIN pipe : Clean(pipe[i].rec)

Working == {"allocating", "unlocking", "leased", "scraping", "executing",
            "generating", "generated", "publishing", "cooling", "finally"}
Holding(t) == IF pc[t] \in Working THEN at[t] ELSE None
Owner(n) == IF redis[n] = None THEN None ELSE redis[n].job
StateOf(n) == IF redis[n] = None THEN None ELSE redis[n].state

\* As long as a job works on a node, the node's record names that job.
HeldNodeIsMine == \A t \in Job : Holding(t) # None => Owner(Holding(t)) = t

\* Two jobs never work on one node.
NoDoubleAllocation ==
    \A t, u \in Job : t # u /\ Holding(t) # None => Holding(t) # Holding(u)

\* The phone pool and the node records agree: a slot is taken exactly when the
\* record of the node it is bound to names it, so none leaks.
SlotsMatchRecords ==
    /\ \A s \in Slot : phone[s].status = "allocated" =>
         /\ phone[s].node # None /\ redis[phone[s].node] # None
         /\ redis[phone[s].node].phone = s
    /\ \A n \in Node : redis[n] # None /\ redis[n].phone # None =>
         phone[redis[n].phone].status = "allocated" /\ phone[redis[n].phone].node = n

\* The engine implements the abstract lease of a node by a job.
Lease == INSTANCE NodeLease WITH owner <- [n \in Node |-> Owner(n)],
                                 active <- [t \in Job |-> Holding(t)]
ImplementsLease == Lease!Spec

\* Every await is answered and every timer fires; campaigns need not arrive.
\* The sweep's timer is not synchronised with the lock, which is held for a few
\* round trips only, so some sweep finds it free.
Fairness ==
    /\ WF_vars(Flush)
    /\ \A t \in Job : WF_vars(JobWork(t))
    /\ \A n \in Node : WF_vars(Age(n)) /\ SF_vars(SweepStarts(n))
    /\ WF_vars(SweepRuns \/ \E n \in Node : SweepContinues(n))
FairSpec == Spec /\ Fairness

\* A node whose job is over but whose record still says allocated or busy goes
\* back to idle.
LeakedBusyNodeReclaimed ==
    \A n \in Node :
        (/\ StateOf(n) \in {"allocated", "busy"}
         /\ \A t \in Job : at[t] # n) ~> (StateOf(n) = "idle")

=============================================================================
