-------------------------- MODULE NodeLeaseProofs --------------------------
(***************************************************************************)
(* What a job can rely on while nothing but the lock's holder and the job  *)
(* itself writes a node's record: the lease and the phone slots, for every *)
(* set of jobs, nodes and slots.                                           *)
(***************************************************************************)
EXTENDS NodeManagerProofs

\* Terminations, health passes, expiring lock keys and tasks longer than the
\* idle threshold each take a node from its job: the documented violations and
\* hazards.  Without them there remain sweeps, spawned nodes, resynchronisations
\* of the cache, lapsing slots and crashes.
Locked == Env \cap {"terminate", "health", "ttl", "longtasks"} = {}

\* The nodes that the sweep takes or may come to take.
Ceded == old \cup {x.node : x \in todo["sweep"]}

ActorsOK ==
    /\ late = {}
    /\ pc["terminate"] = "resting" /\ pc["health"] = "resting"
    /\ pc["board"] \in {"resting", "loading"}
    /\ pc["sweep"] \in {"resting", "sweeping", "releasing", "released"}
    /\ \A t \in Job : pc[t] \in JobPc

OneJobPerNode ==
    /\ \A t, u \in Job : t # u /\ at[t] # None => at[t] # at[u]
    /\ \A t \in Job : pc[t] \in {"queued", "spawning"} => at[t] = None

LeasedState == {"allocated", "busy", "cooling"}

\* What a node's record says while a job works on it, or registers it.
RecordsOK ==
    \A t \in Job :
        /\ pc[t] \in Working /\ at[t] # None =>
             redis[at[t]].job = t /\ redis[at[t]].state \in LeasedState
        /\ pc[t] \in {"registering", "registered"} =>
             redis[at[t]].job = None /\ redis[at[t]].phone = None

\* Upserts in flight: at most one of a node, by the one who has the node.
InFlight ==
    \A i \in DOMAIN pipe :
        /\ redis[pipe[i].node] = pipe[i].rec
        /\ pipe[i].by \in Job \cup {"sweep"}
        /\ pipe[i].by \in Job => at[pipe[i].by] = pipe[i].node
        /\ pipe[i].by = "sweep" => \A t \in Job : at[t] # pipe[i].node

\* While a job waits for setWorkflowState the cache does not offer its node.
StatePc == {"scraping", "generating", "publishing", "cooling"}
NotOffered ==
    \A t \in Job : pc[t] \in StatePc =>
        cache[at[t]] = None \/ cache[at[t]].state # "idle"

CededFree ==
    /\ \A n \in Ceded : /\ redis[n] # None /\ redis[n].job # None
                        /\ \A t \in Job : at[t] # n
    /\ \A x \in todo["sweep"] : x.phone = None

LInv == ActorsOK /\ OneJobPerNode /\ RecordsOK /\ InFlight /\ NotOffered /\ CededFree

\* What is known of every state, locked or not.
Steady == IInv /\ CacheCoherent

----------------------------------------------------------------------------
(* Consequences of the invariant                                           *)

\* The members of the sets that actors are named from.
LEMMA Names ==
    /\ Job \subseteq Actor /\ Background \subseteq Actor /\ "sweep" \in Background
    /\ "board" \in Background /\ "health" \in Background /\ "terminate" \in Background
    /\ \A t \in Job : t \notin Background /\ t # "sweep" /\ t # "dead" /\ t # None
    /\ None \notin Node /\ None \notin Actor /\ None \notin Slot
  BY ConstantsAssumption DEF Actor, Background

\* What the variables' types come down to.
LEMMA Types ==
    ASSUME Steady
    PROVE  /\ redis \in [Node -> CleanRecord \cup {None}]
           /\ cache \in [Node -> CleanRecord \cup {None}]
           /\ pipe \in Seq(CleanEntry)
           /\ \A i \in DOMAIN pipe : pipe[i] \in CleanEntry /\ redis[pipe[i].node] # None
           /\ pc \in [Actor -> JobPc \cup BackgroundPc]
           /\ at \in [Actor -> Node \cup {None}]
           /\ todo \in [Background -> SUBSET [node : Node, phone : Slot \cup {None}]]
           /\ phone \in [Slot -> SlotRecord]
           /\ old \subseteq Node
           /\ \A a \in Actor : at[a] # None => at[a] \in Node /\ redis[at[a]] # None
           /\ \A x \in todo["sweep"] : x.node \in Node /\ redis[x.node] # None
  <1>1. \A i \in DOMAIN pipe : pipe[i] \in CleanEntry
    BY DEF Steady, IInv, StoreOK
  <1>2. \A x \in todo["sweep"] : x.node \in Node /\ redis[x.node] # None
    BY Names DEF Steady, IInv, ControlOK, WorkKnown
  <1>3. \A a \in Actor : at[a] # None => at[a] \in Node /\ redis[at[a]] # None
    BY DEF Steady, IInv, ControlOK, WorkKnown
  <1>4. QED
    BY <1>1, <1>2, <1>3 DEF Steady, IInv, StoreOK, ControlOK, RestOK

\* With no upsert of a node in flight, get returns what Redis holds.
LEMMA Settled ==
    ASSUME Steady, NEW n \in Node, redis[n] # None,
           \A i \in DOMAIN pipe : pipe[i].node # n
    PROVE  Current(n) = redis[n] /\ cache[n] \in {None, redis[n]}
  BY DEF Steady, CacheCoherent, Current

\* Whoever is inside withLock holds the key.
LEMMA Exclusion ==
    ASSUME Steady, ActorsOK, NEW a \in Actor, pc[a] \in LockedPc PROVE lock = a
  BY DEF Steady, IInv, LeaseExclusive, InsideLock, ActorsOK

\* A job that is not waiting for an upsert has none of its node in flight.
LEMMA MineSettled ==
    ASSUME Steady, LInv, NEW t \in Job, at[t] # None, pc[t] \notin WritingPc
    PROVE  \A i \in DOMAIN pipe : pipe[i].node # at[t]
  <1> SUFFICES ASSUME NEW i \in DOMAIN pipe, pipe[i].node = at[t] PROVE FALSE
    OBVIOUS
  <1>1. pipe[i].by \in Job
    BY DEF LInv, InFlight
  <1>2. pipe[i].by = t
    BY <1>1 DEF LInv, InFlight, OneJobPerNode
  <1>3. QED
    BY <1>2 DEF Steady, IInv, PipeOwned

\* A node no job has is settled, unless the sweep is just releasing it.
LEMMA FreeSettled ==
    ASSUME Steady, LInv, NEW n \in Node, \A t \in Job : at[t] # n, pc["sweep"] # "releasing"
    PROVE  \A i \in DOMAIN pipe : pipe[i].node # n
  <1> SUFFICES ASSUME NEW i \in DOMAIN pipe, pipe[i].node = n PROVE FALSE
    OBVIOUS
  <1>1. pipe[i].by = "sweep"
    BY DEF LInv, InFlight
  <1>2. pc["sweep"] \in WritingPc
    BY <1>1 DEF Steady, IInv, PipeOwned
  <1>3. QED
    BY <1>2 DEF LInv, ActorsOK, WritingPc

\* A job at a node outside withLock works on it, and its record says so.
LEMMA OutsideLeased ==
    ASSUME Steady, LInv, NEW t \in Job, at[t] # None, pc[t] \notin LockedPc
    PROVE  /\ pc[t] \in Working
           /\ redis[at[t]].job = t /\ redis[at[t]].state \in LeasedState
           /\ pc[t] \in WritingPc => pc[t] \in StatePc
  <1>1. pc[t] \in JobPc /\ pc[t] # "queued"
    BY DEF LInv, ActorsOK, OneJobPerNode
  <1>2. pc[t] \in Working /\ (pc[t] \in WritingPc => pc[t] \in StatePc)
    BY <1>1 DEF JobPc, Working, LockedPc, WritingPc, StatePc
  <1>3. QED
    BY <1>2 DEF LInv, RecordsOK

\* An idle node that allocate finds with the lock free is nobody's, and its
\* cached record is the one in Redis.
LEMMA IdleIsFree ==
    ASSUME Steady, LInv, lock = None, NEW n \in Idle
    PROVE  /\ n \in Node /\ redis[n] # None
           /\ \A t \in Job : at[t] # n
           /\ \A i \in DOMAIN pipe : pipe[i].node # n
           /\ redis[n].job = None /\ redis[n].phone = None
           /\ n \notin Ceded
  <1>1. n \in Node /\ cache[n] # None /\ cache[n].state = "idle" /\ redis[n] # None
    BY DEF Idle, InState, Cached, Steady, IInv, StoreOK
  <1>2. ASSUME NEW t \in Job, at[t] = n PROVE FALSE
    <2>1. pc[t] \notin LockedPc /\ at[t] # None
      BY <1>1, <1>2, Names, Exclusion DEF LInv
    <2>2. redis[n].state \in LeasedState /\ (pc[t] \in WritingPc => pc[t] \in StatePc)
      BY <1>2, <2>1, OutsideLeased
    <2>3. CASE pc[t] \in WritingPc
      BY <1>1, <1>2, <2>2, <2>3 DEF LInv, NotOffered
    <2>4. CASE pc[t] \notin WritingPc
      <3>1. cache[n] \in {None, redis[n]}
        BY <1>1, <1>2, <2>1, <2>4, MineSettled, Settled
      <3>2. QED
        BY <1>1, <2>2, <3>1 DEF LeasedState
    <2>5. QED
      BY <2>3, <2>4
  <1>3. pc["sweep"] # "releasing"
    BY Names, Exclusion DEF LInv, LockedPc
  <1>4. \A i \in DOMAIN pipe : pipe[i].node # n
    BY <1>1, <1>2, <1>3, FreeSettled
  <1>5. redis[n] = cache[n]
    BY <1>1, <1>4, Settled
  <1>6. redis[n] \in CleanRecord
    BY <1>1, Types
  <1>7. redis[n].job = None /\ redis[n].phone = None
    BY <1>1, <1>5, <1>6 DEF CleanRecord, Clean
  <1>8. QED
    BY <1>1, <1>2, <1>4, <1>7 DEF LInv, CededFree

----------------------------------------------------------------------------
(* The invariant is kept                                                   *)

\* Upserts after one more has been sent.
LEMMA PipeGrows ==
    ASSUME Steady, NEW a \in Actor, NEW n \in Node, NEW rec \in CleanRecord,
           Write(a, n, rec)
    PROVE  \A i \in DOMAIN pipe' :
             \/ i \in DOMAIN pipe /\ pipe'[i] = pipe[i]
             \/ pipe'[i].by = a /\ pipe'[i].node = n /\ pipe'[i].rec = rec
  <1>1. pipe \in Seq(CleanEntry)
    BY Types
  <1> DEFINE e == [by |-> a, node |-> n, rec |-> rec]
  <1>2. pipe' = Append(pipe, e)
    BY DEF Write
  <1>3. e.by = a /\ e.node = n /\ e.rec = rec
    OBVIOUS
  <1> HIDE DEF e
  <1>4. DOMAIN pipe = 1..Len(pipe) /\ DOMAIN pipe' = 1..(Len(pipe) + 1) /\ Len(pipe) \in Nat
    BY <1>1, <1>2
  <1>5. TAKE i \in DOMAIN pipe'
  <1>6. CASE i = Len(pipe) + 1
    BY <1>1, <1>2, <1>3, <1>6
  <1>7. CASE i # Len(pipe) + 1
    BY <1>1, <1>2, <1>4, <1>7
  <1>8. QED
    BY <1>6, <1>7

\* A job that has node n, or has just got it, sends an upsert of it.
LEMMA JobWrites ==
    ASSUME Steady, LInv, NEW t \in Job, NEW n \in Node, NEW rec \in CleanRecord,
           NEW label \in WritingPc \cap JobPc, pc[t] \notin WritingPc,
           Write(t, n, rec), pc' = [pc EXCEPT ![t] = label], at' = [at EXCEPT ![t] = n],
           \A u \in Job : u # t => at[u] # n,
           \A i \in DOMAIN pipe : pipe[i].node # n,
           n \notin Ceded', UNCHANGED <<late, todo>>, old' \subseteq old,
           label \in Working => rec.job = t /\ rec.state \in LeasedState,
           label = "registering" => rec.job = None /\ rec.phone = None,
           label \in StatePc => redis[n] # None /\ redis[n].state # "idle"
    PROVE  LInv'
  <1>1. t \in Actor /\ t \notin Background
    BY Names
  <1>2. /\ \A u \in Job \ {t} : pc'[u] = pc[u] /\ at'[u] = at[u]
        /\ \A b \in Background : pc'[b] = pc[b]
        /\ pc'[t] = label /\ at'[t] = n
    BY <1>1, Types, Names
  <1>3. /\ redis' = [redis EXCEPT ![n] = rec] /\ redis'[n] = rec
        /\ cache' = [cache EXCEPT ![n] = Current(n)] /\ cache'[n] = Current(n)
    BY Types DEF Write
  <1>4. n # None /\ label \notin {"queued", "spawning", "registered"}
    BY Names DEF WritingPc
  <1>5. ActorsOK'
    BY <1>2, Names DEF LInv, ActorsOK
  <1>6. OneJobPerNode'
    BY <1>2, <1>4 DEF LInv, OneJobPerNode
  <1>7. RecordsOK'
    <2>1. ASSUME NEW u \in Job, u # t, at[u] # None PROVE redis'[at[u]] = redis[at[u]]
      BY <1>3, <2>1, Names, Types
    <2>2. ASSUME NEW u \in Job, u # t, pc[u] \in {"registering", "registered"}
          PROVE  at[u] # None
      BY <2>2 DEF Steady, IInv, ControlOK
    <2>3. QED
      BY <1>2, <1>3, <1>4, <2>1, <2>2 DEF LInv, RecordsOK
  <1>8. InFlight'
    <2> SUFFICES ASSUME NEW i \in DOMAIN pipe'
                 PROVE  /\ redis'[pipe'[i].node] = pipe'[i].rec
                        /\ pipe'[i].by \in Job \cup {"sweep"}
                        /\ pipe'[i].by \in Job => at'[pipe'[i].by] = pipe'[i].node
                        /\ pipe'[i].by = "sweep" => \A u \in Job : at'[u] # pipe'[i].node
      BY DEF InFlight
    <2>1. CASE pipe'[i].by = t /\ pipe'[i].node = n /\ pipe'[i].rec = rec
      BY <1>2, <1>3, <2>1, Names
    <2>2. CASE i \in DOMAIN pipe /\ pipe'[i] = pipe[i]
      <3>1. pipe[i] \in CleanEntry /\ pipe[i].node # n /\ pipe[i].by # t
        BY <2>2, Types DEF Steady, IInv, PipeOwned
      <3>2. redis'[pipe[i].node] = redis[pipe[i].node]
        BY <1>3, <3>1, Types DEF CleanEntry
      <3>3. QED
        BY <1>2, <2>2, <3>1, <3>2 DEF LInv, InFlight
    <2>3. QED
      BY <1>1, <2>1, <2>2, PipeGrows
  <1>9. NotOffered'
    <2>1. ASSUME NEW u \in Job, u # t, pc[u] \in StatePc PROVE cache'[at[u]] = cache[at[u]]
      BY <1>3, <2>1, Names, Types
    <2>2. label \in StatePc => cache'[n].state # "idle"
      BY <1>3, Settled
    <2>3. QED
      BY <1>2, <2>1, <2>2 DEF LInv, NotOffered
  <1>10. CededFree'
    <2>1. Ceded' \subseteq Ceded
      BY DEF Ceded
    <2>2. \A m \in Ceded' : redis'[m] = redis[m] /\ at'[t] # m
      BY <1>2, <1>3, Types DEF Ceded
    <2>3. QED
      BY <1>2, <2>1, <2>2 DEF LInv, CededFree
  <1>11. QED
    BY <1>5, <1>6, <1>7, <1>8, <1>9, <1>10 DEF LInv

\* The sweep sends the upsert of a node that it takes.
LEMMA SweepWrites ==
    ASSUME Steady, LInv, NEW n \in Node, NEW rec \in CleanRecord,
           pc["sweep"] \in {"resting", "sweeping"},
           Write("sweep", n, rec), pc' = [pc EXCEPT !["sweep"] = "releasing"],
           \A t \in Job : at[t] # n,
           \A i \in DOMAIN pipe : pipe[i].node # n,
           UNCHANGED <<late, at>>, old' = old \ {n},
           \A x \in todo'["sweep"] : x.phone = None /\ x.node # n /\ x.node \in Ceded
    PROVE  LInv'
  <1>1. /\ \A t \in Job : pc'[t] = pc[t]
        /\ \A b \in Background \ {"sweep"} : pc'[b] = pc[b]
        /\ pc'["sweep"] = "releasing"
    BY Types, Names
  <1>2. /\ redis' = [redis EXCEPT ![n] = rec] /\ redis'[n] = rec
        /\ cache' = [cache EXCEPT ![n] = Current(n)]
    BY Types DEF Write
  <1>3. ActorsOK'
    BY <1>1, Names DEF LInv, ActorsOK
  <1>4. OneJobPerNode'
    BY <1>1 DEF LInv, OneJobPerNode
  <1>5. RecordsOK' /\ NotOffered'
    <2>1. ASSUME NEW t \in Job, at[t] # None
          PROVE  redis'[at[t]] = redis[at[t]] /\ cache'[at[t]] = cache[at[t]]
      BY <1>2, <2>1, Names, Types
    <2>2. ASSUME NEW t \in Job, pc[t] \in {"registering", "registered"} \cup StatePc
          PROVE  at[t] # None
      BY <2>2 DEF Steady, IInv, ControlOK, StatePc
    <2>3. RecordsOK'
      BY <1>1, <2>1, <2>2 DEF LInv, RecordsOK
    <2>4. NotOffered'
      BY <1>1, <2>1, <2>2 DEF LInv, NotOffered
    <2>5. QED
      BY <2>3, <2>4
  <1>6. InFlight'
    <2> SUFFICES ASSUME NEW i \in DOMAIN pipe'
                 PROVE  /\ redis'[pipe'[i].node] = pipe'[i].rec
                        /\ pipe'[i].by \in Job \cup {"sweep"}
                        /\ pipe'[i].by \in Job => at'[pipe'[i].by] = pipe'[i].node
                        /\ pipe'[i].by = "sweep" => \A u \in Job : at'[u] # pipe'[i].node
      BY DEF InFlight
    <2>1. CASE pipe'[i].by = "sweep" /\ pipe'[i].node = n /\ pipe'[i].rec = rec
      BY <1>2, <2>1, Names
    <2>2. CASE i \in DOMAIN pipe /\ pipe'[i] = pipe[i]
      <3>1. pipe[i] \in CleanEntry /\ pipe[i].node # n
        BY <2>2, Types
      <3>2. redis'[pipe[i].node] = redis[pipe[i].node]
        BY <1>2, <3>1, Types DEF CleanEntry
      <3>3. QED
        BY <2>2, <3>1, <3>2 DEF LInv, InFlight
    <2>3. QED
      BY <2>1, <2>2, PipeGrows, Names
  <1>7. CededFree'
    <2>1. Ceded' \subseteq Ceded \ {n}
      BY DEF Ceded
    <2>2. \A m \in Ceded' : redis'[m] = redis[m]
      BY <1>2, <2>1, Types DEF Ceded
    <2>3. QED
      BY <2>1, <2>2 DEF LInv, CededFree
  <1>8. QED
    BY <1>3, <1>4, <1>5, <1>6, <1>7 DEF LInv

\* A job moves on without a write, keeping its node or leaving it.
LEMMA JobMoves ==
    ASSUME Steady, LInv, NEW t \in Job, NEW label \in JobPc \ WritingPc,
           pc[t] \notin WritingPc, pc' = [pc EXCEPT ![t] = label],
           UNCHANGED at \/ at' = [at EXCEPT ![t] = None],
           UNCHANGED <<late, redis, cache, pipe, old, todo>>,
           label \in {"queued", "spawning"} => at'[t] = None,
           label # "registered",
           label \in Working /\ at'[t] # None => pc[t] \in Working
    PROVE  LInv'
  <1>1. t \in Actor /\ t \notin Background
    BY Names
  <1>2. /\ \A u \in Job \ {t} : pc'[u] = pc[u] /\ at'[u] = at[u]
        /\ \A b \in Background : pc'[b] = pc[b]
        /\ pc'[t] = label /\ at'[t] \in {None, at[t]}
    BY <1>1, Types, Names
  <1>3. label \notin {"registering", "registered"} \cup StatePc
    BY DEF WritingPc, StatePc
  <1>4. ActorsOK' /\ OneJobPerNode'
    <2>1. ActorsOK'
      BY <1>2, Names DEF LInv, ActorsOK
    <2>2. OneJobPerNode'
      BY <1>2 DEF LInv, OneJobPerNode
    <2>3. QED
      BY <2>1, <2>2
  <1>5. RecordsOK' /\ NotOffered'
    <2>1. RecordsOK'
      BY <1>2, <1>3 DEF LInv, RecordsOK
    <2>2. NotOffered'
      BY <1>2, <1>3 DEF LInv, NotOffered
    <2>3. QED
      BY <2>1, <2>2
  <1>6. InFlight'
    <2>1. \A i \in DOMAIN pipe : pipe[i].by # t /\ pipe[i].node # None
      BY Names, Types DEF Steady, IInv, PipeOwned, CleanEntry
    <2>2. QED
      BY <1>2, <2>1 DEF LInv, InFlight
  <1>7. CededFree'
    <2>1. Ceded' = Ceded /\ None \notin Ceded
      BY Names, Types DEF Ceded
    <2>2. QED
      BY <1>2, <2>1 DEF LInv, CededFree
  <1>8. QED
    BY <1>4, <1>5, <1>6, <1>7 DEF LInv

\* The replies to an upsert arrive.
LEMMA FlushKeeps == ASSUME Steady, LInv, Flush PROVE LInv'
  <1> DEFINE w == Head(pipe)
  <1>1. /\ pipe # <<>> /\ pipe' = Tail(pipe)
        /\ cache' = [cache EXCEPT ![w.node] = w.rec]
        /\ pc' = [pc EXCEPT ![w.by] = Resumes[pc[w.by]]]
        /\ UNCHANGED <<lock, late, redis, phone, old, at, todo>>
    BY DEF Flush
  <1>2. /\ 1 \in DOMAIN pipe /\ w = pipe[1]
        /\ \A i \in DOMAIN pipe' : i + 1 \in DOMAIN pipe /\ i + 1 # 1 /\ pipe'[i] = pipe[i + 1]
    BY <1>1, Types
  <1> HIDE DEF w
  <1>3. /\ w.node \in Node /\ w.rec \in CleanRecord /\ redis[w.node] = w.rec
        /\ w.by \in Job \cup {"sweep"} /\ w.by \in Actor /\ pc[w.by] \in WritingPc
    BY <1>2, Types, Names DEF LInv, InFlight, Steady, IInv, PipeOwned, CleanEntry
  <1>4. /\ \A u \in Job : u # w.by => at[u] # w.node /\ pc'[u] = pc[u]
        /\ \A b \in Background : b # w.by => pc'[b] = pc[b]
        /\ pc'[w.by] = Resumes[pc[w.by]]
    <2>1. \A u \in Job : u # w.by => at[u] # w.node
      BY <1>2, <1>3, Names DEF LInv, InFlight, OneJobPerNode
    <2>2. QED
      BY <1>1, <1>3, <2>1, Types, Names
  <1>5. ASSUME NEW t \in Job, t = w.by
        PROVE  /\ at[t] = w.node /\ at[t] # None
               /\ pc'[t] \in JobPc \ (StatePc \cup {"queued", "spawning", "registering"})
               /\ pc'[t] \in Working => pc[t] \in Working
               /\ pc'[t] = "registered" => pc[t] = "registering"
    <2>1. pc[t] \in JobPc /\ at[t] = w.node
      BY <1>2, <1>5 DEF LInv, ActorsOK, InFlight
    <2>2. QED
      BY <1>3, <1>4, <1>5, <2>1, Names DEF WritingPc, Resumes, JobPc, StatePc, Working
  <1>6. w.by = "sweep" => pc'["sweep"] = "released"
    BY <1>3, <1>4 DEF LInv, ActorsOK, WritingPc, Resumes
  <1>7. ActorsOK'
    BY <1>1, <1>3, <1>4, <1>5, <1>6, Names DEF LInv, ActorsOK
  <1>8. OneJobPerNode'
    BY <1>1, <1>4, <1>5 DEF LInv, OneJobPerNode
  <1>9. RecordsOK'
    BY <1>1, <1>4, <1>5 DEF LInv, RecordsOK
  <1>10. InFlight'
    BY <1>1, <1>2 DEF LInv, InFlight
  <1>11. NotOffered'
    <2>1. ASSUME NEW u \in Job, u # w.by, pc[u] \in StatePc PROVE cache'[at[u]] = cache[at[u]]
      BY <1>1, <1>3, <1>4, <2>1, Types
    <2>2. QED
      BY <1>1, <1>4, <1>5, <2>1 DEF LInv, NotOffered
  <1>12. CededFree'
    BY <1>1 DEF LInv, CededFree, Ceded
  <1>13. QED
    BY <1>7, <1>8, <1>9, <1>10, <1>11, <1>12 DEF LInv

\* A step that concerns no job: the cache may lose entries or take Redis' record,
\* nodes no job has may age, the sweep may move on or drop its snapshot.
LEMMA OthersMove ==
    ASSUME Steady, LInv, UNCHANGED <<late, redis, pipe>>,
           \A t \in Job : pc'[t] = pc[t] /\ at'[t] = at[t],
           pc'["terminate"] = "resting" /\ pc'["health"] = "resting",
           pc'["board"] \in {"resting", "loading"},
           pc'["sweep"] \in {"resting", "sweeping", "releasing", "released"},
           \A n \in Node : cache'[n] \in {cache[n], None, redis[n]},
           todo'["sweep"] \subseteq todo["sweep"],
           \A n \in old' \ old : /\ n \in Node /\ redis[n] # None /\ redis[n].job # None
                                 /\ \A t \in Job : at[t] # n
    PROVE  LInv'
  <1>1. ActorsOK' /\ OneJobPerNode' /\ RecordsOK' /\ InFlight'
    BY DEF LInv, ActorsOK, OneJobPerNode, RecordsOK, InFlight
  <1>2. NotOffered'
    <2> SUFFICES ASSUME NEW t \in Job, pc[t] \in StatePc
                 PROVE  cache'[at[t]] = None \/ cache'[at[t]].state # "idle"
      BY DEF NotOffered
    <2>1. at[t] \in Node
      BY Types, Names DEF Steady, IInv, ControlOK, StatePc
    <2>2. redis[at[t]].state # "idle"
      <3>1. pc[t] \notin LockedPc
        BY DEF StatePc, LockedPc
      <3>2. QED
        BY <2>1, <3>1, Names, OutsideLeased DEF LeasedState
    <2>3. QED
      BY <2>1, <2>2 DEF LInv, NotOffered
  <1>3. CededFree'
    <2>1. Ceded' \subseteq Ceded \cup (old' \ old)
      BY DEF Ceded
    <2>2. QED
      BY <2>1 DEF LInv, CededFree
  <1>4. QED
    BY <1>1, <1>2, <1>3 DEF LInv

\* A fresh process satisfies the invariant.
LEMMA InitLInv == Init => LInv
  <1> SUFFICES ASSUME Init PROVE LInv
    OBVIOUS
  <1>1. /\ \A t \in Job : pc[t] = "queued" /\ at[t] = None
        /\ \A b \in Background : pc[b] = "resting"
    BY Names DEF Init, Restarted
  <1>2. lock = None /\ late = {} /\ pipe = <<>> /\ old = {} /\ todo["sweep"] = {}
    BY Names DEF Init
  <1>3. ActorsOK /\ OneJobPerNode
    BY <1>1, <1>2, ConstantsAssumption DEF ActorsOK, OneJobPerNode, Background, JobPc
  <1>4. RecordsOK /\ InFlight /\ NotOffered
    BY <1>1, <1>2 DEF RecordsOK, InFlight, NotOffered, StatePc, Working
  <1>5. CededFree
    BY <1>2 DEF CededFree, Ceded
  <1>6. QED
    BY <1>3, <1>4, <1>5 DEF LInv

----------------------------------------------------------------------------
(* What the steps that write a record find                                 *)

\* Nobody but job t has node n, nothing of n is in flight, and get returns
\* what Redis holds.
Undisturbed(t, n) ==
    /\ n \in Node /\ redis[n] # None
    /\ \A u \in Job : u # t => at[u] # n
    /\ \A i \in DOMAIN pipe : pipe[i].node # n
    /\ Current(n) = redis[n] /\ redis[n] \in CleanRecord

\* A job that is not waiting for an upsert is undisturbed at its node.
LEMMA MineUndisturbed ==
    ASSUME Steady, LInv, NEW t \in Job, at[t] # None, pc[t] \notin WritingPc
    PROVE  Undisturbed(t, at[t]) /\ at[t] \notin Ceded
  <1>1. at[t] \in Node /\ redis[at[t]] # None
    BY Types, Names
  <1>2. \A i \in DOMAIN pipe : pipe[i].node # at[t]
    BY MineSettled
  <1>3. Current(at[t]) = redis[at[t]]
    BY <1>1, <1>2, Settled
  <1>4. \A u \in Job : u # t => at[u] # at[t]
    BY DEF LInv, OneJobPerNode
  <1>5. at[t] \notin Ceded
    BY DEF LInv, CededFree
  <1>6. redis[at[t]] \in CleanRecord
    BY <1>1, Types
  <1>7. QED
    BY <1>1, <1>2, <1>3, <1>4, <1>5, <1>6 DEF Undisturbed

\* allocate hands out a node that is nobody's and carries no phone.
Hands(t, n) ==
    /\ pc[t] \in {"queued", "registered"}
    /\ Undisturbed(t, n) /\ n \notin Ceded
    /\ redis[n].job = None /\ redis[n].phone = None
    /\ Assign(t, n)
    /\ lock' = t /\ UNCHANGED <<late, todo>>

\* Both ways of allocating do so.
LEMMA AllocateHands ==
    ASSUME Steady, LInv, NEW t \in Job, AllocateIdle(t) \/ AllocateSpawned(t)
    PROVE  \E n \in Node : Hands(t, n)
  <1>1. t \in Actor
    BY Names
  <1>2. CASE AllocateIdle(t)
    <2>1. PICK n \in Idle : Assign(t, n)
      BY <1>2 DEF AllocateIdle
    <2>2. lock = None /\ lock' = t /\ pc[t] = "queued" /\ UNCHANGED <<late, todo>>
      BY <1>2 DEF AllocateIdle, TryLock
    <2>3. /\ n \in Node /\ redis[n] # None /\ n \notin Ceded
          /\ \A u \in Job : at[u] # n
          /\ \A i \in DOMAIN pipe : pipe[i].node # n
          /\ redis[n].job = None /\ redis[n].phone = None
      BY <2>2, IdleIsFree
    <2>4. Current(n) = redis[n] /\ redis[n] \in CleanRecord
      BY <2>3, Settled, Types
    <2>5. Hands(t, n)
      BY <2>1, <2>2, <2>3, <2>4 DEF Hands, Undisturbed
    <2>6. QED
      BY <2>3, <2>5
  <1>3. CASE AllocateSpawned(t)
    <2>1. pc[t] = "registered" /\ Assign(t, at[t]) /\ UNCHANGED <<lock, late, todo>>
      BY <1>3 DEF AllocateSpawned
    <2>2. at[t] # None /\ lock = t
      BY <1>1, <2>1, Exclusion DEF LInv, LockedPc, Steady, IInv, ControlOK
    <2>3. Undisturbed(t, at[t]) /\ at[t] \notin Ceded
      BY <2>1, <2>2, MineUndisturbed DEF WritingPc
    <2>4. redis[at[t]].job = None /\ redis[at[t]].phone = None
      BY <2>1 DEF LInv, RecordsOK
    <2>5. Hands(t, at[t])
      BY <2>1, <2>2, <2>3, <2>4 DEF Hands
    <2>6. QED
      BY <2>3, <2>5 DEF Undisturbed
  <1>4. QED
    BY <1>2, <1>3

\* A job that has a node registers it, sets its workflow state or gives it back.
Registers(t, n) ==
    /\ pc[t] = "spawning" /\ n \in Node /\ redis[n] = None
    /\ Write(t, n, Fresh)
    /\ pc' = [pc EXCEPT ![t] = "registering"] /\ at' = [at EXCEPT ![t] = n]
    /\ UNCHANGED <<lock, late, phone, old, todo>>

Reports(t) ==
    \E state \in {"busy", "cooling"}, to \in StatePc :
        /\ pc[t] \in {"leased", "executing", "generated"} /\ at[t] # None
        /\ Undisturbed(t, at[t]) /\ at[t] \notin Ceded
        /\ redis[at[t]].job = t /\ redis[at[t]].state \in LeasedState
        /\ Write(t, at[t], InWorkflow(at[t], state))
        /\ pc' = [pc EXCEPT ![t] = to]
        /\ UNCHANGED <<lock, late, phone, old, at, todo>>

GivesBack(t) ==
    /\ pc[t] = "finally" /\ at[t] # None
    /\ Undisturbed(t, at[t]) /\ at[t] \notin Ceded
    /\ redis[at[t]].job = t
    /\ ReleaseNode(t, at[t])
    /\ lock = None /\ lock' = t /\ UNCHANGED <<late, at, todo>>

\* It moves on without a write, giving up no work and starting none.
MovesOn(t) ==
    /\ \E label \in JobPc \ (WritingPc \cup {"registered"}) :
         /\ pc[t] \notin WritingPc
         /\ pc' = [pc EXCEPT ![t] = label]
         /\ label \in {"queued", "spawning"} => at'[t] = None
         /\ label \in Working /\ at'[t] # None => pc[t] \in Working
    /\ UNCHANGED at \/ at' = [at EXCEPT ![t] = None]
    /\ UNCHANGED <<late, redis, cache, pipe, phone, old, todo>>

\* These are all the steps of a job.
LEMMA JobSteps ==
    ASSUME Steady, LInv, NEW t \in Job, JobStarts(t) \/ JobWork(t)
    PROVE  \/ \E n \in Node : Hands(t, n) \/ Registers(t, n)
           \/ Reports(t) \/ GivesBack(t) \/ MovesOn(t)
  <1>1. t \in Actor /\ t # "dead" /\ t # None
    BY Names
  <1>2. late = {} /\ at \in [Actor -> Node \cup {None}]
    BY Types DEF LInv, ActorsOK
  <1>3. CASE AllocateIdle(t) \/ AllocateSpawned(t)
    BY <1>3, AllocateHands
  <1>4. CASE AllocateSpawns(t) \/ AllocateNothing(t)
    <2>1. pc[t] = "queued" /\ at[t] = None /\ lock' = t
      BY <1>4 DEF AllocateSpawns, AllocateNothing, TryLock, LInv, OneJobPerNode
    <2>2. UNCHANGED <<late, redis, cache, pipe, phone, old, at, todo>>
      BY <1>4 DEF AllocateSpawns, AllocateNothing
    <2>3. PICK label \in {"spawning", "unlocking"} : pc' = [pc EXCEPT ![t] = label]
      BY <1>4 DEF AllocateSpawns, AllocateNothing, Goto
    <2>4. MovesOn(t)
      <3>1. label \in JobPc \ (WritingPc \cup {"registered"}) /\ pc[t] \notin WritingPc
        BY <2>1 DEF JobPc, WritingPc
      <3>2. QED
        BY <1>1, <2>1, <2>2, <2>3, <3>1 DEF MovesOn
    <2>5. QED
      BY <2>4
  <1>5. CASE SpawnReturns(t)
    <2>1. pc[t] = "spawning" /\ at[t] = None /\ UNCHANGED <<lock, late, phone, old, todo>>
      BY <1>5 DEF SpawnReturns, LInv, OneJobPerNode
    <2>2. CASE /\ pc' = [pc EXCEPT ![t] = "unlocking"]
               /\ UNCHANGED <<redis, cache, pipe, at>>
      <3>1. "unlocking" \in JobPc \ (WritingPc \cup {"registered"}) /\ pc[t] \notin WritingPc
        BY <2>1 DEF JobPc, WritingPc
      <3>2. MovesOn(t)
        BY <1>2, <2>1, <2>2, <3>1 DEF MovesOn
      <3>3. QED
        BY <3>2
    <2>3. CASE \E n \in Node : /\ redis[n] = None /\ Write(t, n, Fresh)
                               /\ at' = [at EXCEPT ![t] = n]
                               /\ pc' = [pc EXCEPT ![t] = "registering"]
      BY <2>1, <2>3 DEF Registers
    <2>4. QED
      BY <1>5, <2>2, <2>3 DEF SpawnReturns, Goto
  <1>6. CASE AllocateReturns(t)
    <2>1. /\ pc[t] = "unlocking"
          /\ lock' \in {None, lock} /\ late' = {}
          /\ pc' = [pc EXCEPT ![t] = IF at[t] = None THEN "queued" ELSE "leased"]
          /\ UNCHANGED <<redis, cache, pipe, phone, old, at, todo>>
      BY <1>2, <1>6 DEF AllocateReturns, Unlock, Goto
    <2>2. PICK label \in {"queued", "leased"} :
            /\ pc' = [pc EXCEPT ![t] = label]
            /\ label = "queued" => at[t] = None
      BY <2>1
    <2>3. /\ label \in JobPc \ (WritingPc \cup {"registered"}) /\ pc[t] \notin WritingPc
          /\ pc[t] \in Working /\ label # "spawning"
      BY <2>1 DEF JobPc, WritingPc, Working
    <2>4. MovesOn(t)
      BY <1>2, <2>1, <2>2, <2>3, ConstantsAssumption DEF MovesOn
    <2>5. QED
      BY <2>4
  <1>7. CASE Scrape(t) \/ Generate(t) \/ Publish(t) \/ ExecuteFails(t)
    <2>1. PICK state \in {"busy", "cooling"}, to \in StatePc :
            /\ pc[t] \in {"leased", "executing", "generated"}
            /\ Write(t, at[t], InWorkflow(at[t], state))
            /\ pc' = [pc EXCEPT ![t] = to]
            /\ UNCHANGED <<lock, late, phone, old, at, todo>>
      BY <1>7 DEF Scrape, Generate, Publish, ExecuteFails, SetWorkflowState, Goto, StatePc
    <2>2. at[t] # None /\ pc[t] \notin WritingPc /\ pc[t] \notin LockedPc
      BY <2>1 DEF Steady, IInv, ControlOK, WritingPc, LockedPc
    <2>3. Undisturbed(t, at[t]) /\ at[t] \notin Ceded
      BY <2>2, MineUndisturbed
    <2>4. redis[at[t]].job = t /\ redis[at[t]].state \in LeasedState
      BY <2>2, OutsideLeased
    <2>5. Reports(t)
      BY <2>1, <2>2, <2>3, <2>4 DEF Reports
    <2>6. QED
      BY <2>5
  <1>8. CASE Finally(t)
    <2>1. /\ pc[t] = "finally" /\ ReleaseNode(t, at[t])
          /\ lock = None /\ lock' = t /\ UNCHANGED <<late, at, todo>>
      BY <1>8 DEF Finally, TryLock
    <2>2. at[t] # None /\ pc[t] \notin WritingPc /\ pc[t] \notin LockedPc
      BY <2>1 DEF Steady, IInv, ControlOK, WritingPc, LockedPc
    <2>3. Undisturbed(t, at[t]) /\ at[t] \notin Ceded /\ redis[at[t]].job = t
      BY <2>2, MineUndisturbed, OutsideLeased
    <2>4. QED
      BY <2>1, <2>2, <2>3 DEF GivesBack
  <1>9. CASE FinallyThrows(t) \/ ReleaseReturns(t)
    <2>1. /\ pc[t] \in {"finally", "released"} /\ pc' = [pc EXCEPT ![t] = "queued"]
          /\ at' = [at EXCEPT ![t] = None] /\ at'[t] = None
          /\ lock' \in {None, lock} /\ late' = {}
          /\ UNCHANGED <<redis, cache, pipe, phone, old, todo>>
      BY <1>1, <1>2, <1>9 DEF FinallyThrows, ReleaseReturns, Unlock, Goto
    <2>2. "queued" \in JobPc \ (WritingPc \cup {"registered"}) /\ pc[t] \notin WritingPc
      BY <2>1 DEF JobPc, WritingPc
    <2>3. MovesOn(t)
      BY <1>2, <2>1, <2>2, ConstantsAssumption DEF MovesOn
    <2>4. QED
      BY <2>3
  <1>10. QED
    BY <1>3, <1>4, <1>5, <1>6, <1>7, <1>8, <1>9 DEF JobStarts, JobWork

\* The sweep takes a node that nobody has and that is recorded for some job.
SweepTakes(n) ==
    /\ pc["sweep"] \in {"resting", "sweeping"}
    /\ n \in Node /\ redis[n] \in CleanRecord /\ redis[n].job # None
    /\ \A t \in Job : at[t] # n
    /\ \A i \in DOMAIN pipe : pipe[i].node # n
    /\ Current(n) = redis[n]
    /\ ReleaseNode("sweep", n)
    /\ \A x \in todo'["sweep"] : x.phone = None /\ x.node # n /\ x.node \in Ceded
    /\ lock' = "sweep" /\ UNCHANGED <<late, at>>

\* It does so whether the node is the first of a pass or a later one.
LEMMA SweepStarting ==
    ASSUME Steady, LInv, NEW n \in Node, SweepStarts(n) \/ SweepContinues(n)
    PROVE  SweepTakes(n)
  <1>1. "sweep" \in Background /\ "sweep" \in Actor
    BY Names
  <1>2. /\ pc["sweep"] \in {"resting", "sweeping"} /\ lock = None /\ lock' = "sweep"
        /\ ReleaseNode("sweep", n) /\ UNCHANGED <<late, at>>
    BY DEF SweepStarts, SweepContinues, TryLock
  <1>3. n \in Ceded
    BY DEF SweepStarts, SweepContinues, IdleTooLong, Ceded
  <1>4. redis[n] # None /\ redis[n].job # None /\ \A t \in Job : at[t] # n
    BY <1>3 DEF LInv, CededFree
  <1>5. \A i \in DOMAIN pipe : pipe[i].node # n
    BY <1>2, <1>4, FreeSettled
  <1>6. Current(n) = redis[n] /\ redis[n] \in CleanRecord
    BY <1>4, <1>5, Settled, Types
  <1>7. ASSUME NEW x \in todo'["sweep"]
        PROVE  x.phone = None /\ x.node # n /\ x.node \in Ceded
    <2>1. todo \in [Background -> SUBSET [node : Node, phone : Slot \cup {None}]]
      BY Types
    <2>2. CASE SweepStarts(n)
      <3>1. todo'["sweep"] = {[node |-> m, phone |-> None] : m \in IdleTooLong \ {n}}
        BY <1>1, <2>1, <2>2 DEF SweepStarts
      <3>2. IdleTooLong \subseteq old
        BY DEF IdleTooLong
      <3>3. QED
        BY <3>1, <3>2 DEF Ceded
    <2>3. CASE SweepContinues(n)
      <3>1. todo'["sweep"] = todo["sweep"] \ {[node |-> n, phone |-> None]}
        BY <1>1, <2>1, <2>3 DEF SweepContinues
      <3>2. x \in todo["sweep"] /\ x.phone = None
        BY <3>1 DEF LInv, CededFree
      <3>3. x \in [node : Node, phone : Slot \cup {None}]
        BY <1>1, <2>1, <3>2
      <3>4. x.node # n
        BY <3>1, <3>2, <3>3
      <3>5. QED
        BY <3>2, <3>4 DEF Ceded
    <2>4. QED
      BY <2>2, <2>3
  <1>8. QED
    BY <1>2, <1>4, <1>5, <1>6, <1>7 DEF SweepTakes

\* A step of nobody's node: records, upserts and jobs stay as they are, and so
\* does who has which slot.
Apart ==
    /\ UNCHANGED <<late, redis, pipe>>
    /\ \A t \in Job : pc'[t] = pc[t] /\ at'[t] = at[t]
    /\ pc'["terminate"] = "resting" /\ pc'["health"] = "resting"
    /\ pc'["board"] \in {"resting", "loading"}
    /\ pc'["sweep"] \in {"resting", "sweeping", "releasing", "released"}
    /\ \A n \in Node : cache'[n] \in {cache[n], None, redis[n]}
    /\ todo'["sweep"] \subseteq todo["sweep"]
    /\ \A n \in old' \ old : /\ n \in Node /\ redis[n] # None /\ redis[n].job # None
                            /\ \A t \in Job : at[t] # n
    /\ \A s \in Slot : /\ phone'[s].node = phone[s].node
                       /\ phone'[s].status = phone[s].status
                          \/ {phone[s].status, phone'[s].status} \subseteq {"available", "expired"}

\* These are all the steps under the hypothesis.
LEMMA LockedSteps ==
    ASSUME Locked, Steady, LInv, [Next]_vars
    PROVE  \/ \E t \in Job : \/ \E n \in Node : Hands(t, n) \/ Registers(t, n)
                            \/ Reports(t) \/ GivesBack(t) \/ MovesOn(t)
           \/ \E n \in Node : SweepTakes(n)
           \/ Flush \/ Apart \/ CrashAndRestart
  <1>1. /\ late = {} /\ pc["terminate"] = "resting"
        /\ pc["health"] = "resting" /\ pc["board"] \in {"resting", "loading"}
        /\ pc["sweep"] \in {"resting", "sweeping", "releasing", "released"}
    BY DEF LInv, ActorsOK
  <1>2. /\ pc \in [Actor -> JobPc \cup BackgroundPc]
        /\ at \in [Actor -> Node \cup {None}]
        /\ todo \in [Background -> SUBSET [node : Node, phone : Slot \cup {None}]]
        /\ phone \in [Slot -> SlotRecord]
    BY Types
  <1>3. /\ \A b \in Background : b \in Actor /\ b \notin Job
        /\ Background = {"sweep", "terminate", "health", "board"}
        /\ None # "dead"
    BY Names, ConstantsAssumption DEF Background
  <1>4. CASE \E t \in Job : JobStarts(t) \/ JobWork(t)
    BY <1>4, JobSteps
  <1>5. CASE \E n \in Node : SweepStarts(n) \/ SweepContinues(n)
    BY <1>5, SweepStarting
  <1>6. CASE Flush
    BY <1>6
  <1>7. CASE UNCHANGED vars
    BY <1>1, <1>7 DEF vars, Apart
  <1>8. CASE \E n \in Node : Age(n)
    BY <1>1, <1>8 DEF Age, Apart, Locked
  <1>9. CASE \E s \in Slot : SlotLapses(s)
    <2>1. PICK s \in Slot : SlotLapses(s)
      BY <1>9
    <2>2. \A r \in Slot : phone'[r].node = phone[r].node /\ phone'[r].status = phone[r].status
      BY <1>2, <2>1 DEF SlotLapses, SlotRecord
    <2>3. QED
      BY <1>1, <2>1, <2>2 DEF SlotLapses, Apart
  <1>10. CASE SweepFindsNone \/ SweepEnds
    <2>1. \A s \in Slot :
            /\ phone'[s].node = phone[s].node
            /\ phone'[s].status = phone[s].status
               \/ {phone[s].status, phone'[s].status} \subseteq {"available", "expired"}
      BY <1>2, <1>10 DEF SweepFindsNone, SweepEnds, ExpireOld, SlotRecord
    <2>2. /\ UNCHANGED <<lock, late, redis, cache, pipe, old, at, todo>>
          /\ pc' = pc \/ pc' = [pc EXCEPT !["sweep"] = "resting"]
      BY <1>10 DEF SweepFindsNone, SweepEnds, Goto
    <2>3. QED
      BY <1>1, <1>2, <1>3, <2>1, <2>2, Names DEF Apart
  <1>11. CASE SweepThrows
    <2>1. /\ UNCHANGED <<lock, late, redis, cache, pipe, phone, old, at>>
          /\ pc' = [pc EXCEPT !["sweep"] = "resting"]
          /\ todo' = [todo EXCEPT !["sweep"] = {}]
      BY <1>11 DEF SweepThrows, Goto
    <2>2. QED
      BY <1>1, <1>2, <1>3, <2>1, Names DEF Apart
  <1>12. CASE ReleaseReturns("sweep")
    <2>1. /\ UNCHANGED <<redis, cache, pipe, phone, old, todo>>
          /\ lock' \in {None, lock} /\ late' = {}
          /\ pc' = [pc EXCEPT !["sweep"] = "sweeping"]
          /\ at' = [at EXCEPT !["sweep"] = None]
      BY <1>1, <1>12, Names DEF ReleaseReturns, Unlock, Goto
    <2>2. QED
      BY <1>1, <1>2, <1>3, <2>1, Names DEF Apart
  <1>13. CASE SyncClears \/ SyncLoads \/ SyncEnds
    <2>1. UNCHANGED <<lock, late, redis, pipe, phone, old, at>>
      BY <1>13 DEF SyncClears, SyncLoads, SyncEnds
    <2>2. \E label \in {"resting", "loading"} : pc' = [pc EXCEPT !["board"] = label] \/ pc' = pc
      BY <1>13 DEF SyncClears, SyncLoads, SyncEnds, Goto
    <2>3. todo'["sweep"] = todo["sweep"]
      BY <1>2, <1>3, <1>13 DEF SyncClears, SyncLoads, SyncEnds
    <2>4. \A n \in Node : cache'[n] \in {cache[n], None, redis[n]}
      BY <1>13, Types DEF SyncClears, SyncLoads, SyncEnds
    <2>5. QED
      BY <1>1, <1>2, <1>3, <2>1, <2>2, <2>3, <2>4, Names DEF Apart
  <1>14. CASE LockExpires \/ (\E c \in Job : TerminateStarts(c))
              \/ TerminateReleases \/ TerminateReturns \/ HealthPassStarts
              \/ AppliesResult \/ OnUnhealthy \/ HealthPassEnds
    BY <1>1, <1>14
       DEF Locked, LockExpires, TerminateStarts, TerminateReleases,
           TerminateReturns, HealthPassStarts, AppliesResult, OnUnhealthy, HealthPassEnds
  <1>15. QED
    BY <1>4, <1>5, <1>6, <1>7, <1>8, <1>9, <1>10, <1>11, <1>12, <1>13, <1>14
       DEF Next, SweepRuns

\* Nobody is at a node after a restart, and nothing is in flight.
LEMMA CrashLeaves ==
    ASSUME Steady, LInv, CrashAndRestart PROVE LInv'
  <1>1. /\ redis' = redis /\ old' = old /\ late' = {} /\ pipe' = <<>>
        /\ \A a \in Actor : at'[a] = None
        /\ \A t \in Job : pc'[t] = "queued"
        /\ \A b \in Background : pc'[b] = "resting" /\ todo'[b] = {}
    BY Names DEF CrashAndRestart, Restarted, Actor
  <1>2. \A t \in Job : at'[t] = None
    BY <1>1, Names
  <1>3. ActorsOK' /\ OneJobPerNode'
    BY <1>1, <1>2, Names DEF ActorsOK, OneJobPerNode, JobPc
  <1>4. RecordsOK' /\ InFlight' /\ NotOffered'
    BY <1>1, <1>2 DEF RecordsOK, InFlight, NotOffered, StatePc
  <1>5. CededFree'
    <2>1. Ceded' = old /\ old \subseteq Node
      BY <1>1, Names, Types DEF Ceded
    <2>2. \A n \in old : redis[n] # None /\ redis[n].job # None
      BY DEF LInv, CededFree, Ceded
    <2>3. None \notin old
      BY <2>1, Names
    <2>4. QED
      BY <1>1, <1>2, <2>1, <2>2, <2>3, Names DEF CededFree
  <1>6. QED
    BY <1>3, <1>4, <1>5 DEF LInv

\* The invariant is inductive under the hypothesis.
LEMMA LockedKeeps ==
    ASSUME Locked, Steady, LInv, [Next]_vars PROVE LInv'
  <1>1. CASE \E t \in Job, n \in Node : Hands(t, n)
    <2>1. PICK t \in Job, n \in Node : Hands(t, n)
      BY <1>1
    <2>2. PICK s \in Slot \cup {None} : Write(t, n, Assigned(n, t, s))
      BY <2>1, Names DEF Hands, Assign, Available
    <2>3. /\ Assigned(n, t, s) \in CleanRecord
          /\ Assigned(n, t, s).job = t /\ Assigned(n, t, s).state = "allocated"
      <3>1. redis[n] # None /\ Current(n) = redis[n] /\ redis[n] \in CleanRecord
        BY <2>1 DEF Hands, Undisturbed
      <3>2. QED
        BY <3>1, WrittenRecords DEF Assigned, Steady, IInv, CleanRecord, Record
    <2>4. /\ pc' = [pc EXCEPT ![t] = "allocating"] /\ at' = [at EXCEPT ![t] = n]
          /\ old' = old \ {n} /\ UNCHANGED <<late, todo>>
          /\ n \notin Ceded /\ lock' = t
          /\ \A u \in Job : u # t => at[u] # n
          /\ \A i \in DOMAIN pipe : pipe[i].node # n
          /\ pc[t] \in {"queued", "registered"}
      BY <2>1 DEF Hands, Assign, Goto, Undisturbed
    <2>5. n \notin Ceded' /\ old' \subseteq old
      BY <2>4, Names DEF Ceded
    <2>6. "allocating" \in (WritingPc \cap JobPc) \ StatePc /\ pc[t] \notin WritingPc
      BY <2>4 DEF WritingPc, JobPc, StatePc
    <2>7. QED
      BY <2>2, <2>3, <2>4, <2>5, <2>6, JobWrites DEF LeasedState
  <1>2. CASE \E t \in Job, n \in Node : Registers(t, n)
    <2>1. PICK t \in Job, n \in Node : Registers(t, n)
      BY <1>2
    <2>2. /\ pc[t] = "spawning" /\ redis[n] = None /\ Write(t, n, Fresh)
          /\ pc' = [pc EXCEPT ![t] = "registering"] /\ at' = [at EXCEPT ![t] = n]
          /\ UNCHANGED <<lock, late, old, todo>>
      BY <2>1 DEF Registers
    <2>3. Fresh \in CleanRecord /\ Fresh.job = None /\ Fresh.phone = None
      BY NoneIsNoRecord DEF Fresh, CleanRecord, Clean, Record, States, Healths
    <2>4. /\ \A u \in Job : at[u] # n
          /\ \A i \in DOMAIN pipe : pipe[i].node # n
          /\ n \notin Ceded
      BY <2>2, Names, Types DEF LInv, CededFree
    <2>5. n \notin Ceded'
      BY <2>2, <2>4 DEF Ceded, LInv, ActorsOK
    <2>6. /\ "registering" \in (WritingPc \cap JobPc) \ (StatePc \cup Working)
          /\ pc[t] \notin WritingPc
      BY <2>2 DEF WritingPc, JobPc, StatePc, Working
    <2>7. QED
      BY <2>2, <2>3, <2>4, <2>5, <2>6, JobWrites
  <1>3. CASE \E t \in Job : Reports(t)
    <2>1. PICK t \in Job : Reports(t)
      BY <1>3
    <2>2. PICK state \in {"busy", "cooling"}, to \in StatePc :
            /\ pc[t] \in {"leased", "executing", "generated"}
            /\ Undisturbed(t, at[t]) /\ at[t] \notin Ceded
            /\ redis[at[t]].job = t /\ redis[at[t]].state \in LeasedState
            /\ Write(t, at[t], InWorkflow(at[t], state))
            /\ pc' = [pc EXCEPT ![t] = to]
            /\ UNCHANGED <<lock, late, phone, old, at, todo>>
      BY <2>1 DEF Reports
    <2> DEFINE n == at[t]
    <2>3. /\ n \in Node /\ redis[n] # None /\ Current(n) = redis[n]
          /\ redis[n] \in CleanRecord
          /\ \A u \in Job : u # t => at[u] # n
          /\ \A i \in DOMAIN pipe : pipe[i].node # n
      BY <2>2 DEF Undisturbed
    <2>4. /\ InWorkflow(n, state) \in CleanRecord /\ InWorkflow(n, state).job = t
          /\ InWorkflow(n, state).state \in LeasedState
      <3>1. InWorkflow(n, state) \in CleanRecord
        BY <2>3, WrittenRecords DEF Steady, IInv
      <3>2. QED
        BY <2>2, <2>3, <3>1 DEF InWorkflow, CleanRecord, Record, LeasedState
    <2>5. n \notin Ceded' /\ at' = [at EXCEPT ![t] = n]
      BY <2>2, Names, Types DEF Ceded, LInv, ActorsOK
    <2>6. /\ to \in WritingPc \cap JobPc /\ to # "registering"
          /\ pc[t] \notin WritingPc /\ redis[n].state # "idle"
      BY <2>2 DEF WritingPc, JobPc, StatePc, LeasedState
    <2>7. QED
      BY <2>2, <2>3, <2>4, <2>5, <2>6, JobWrites
  <1>4. CASE \E t \in Job : GivesBack(t)
    <2>1. PICK t \in Job : GivesBack(t)
      BY <1>4
    <2> DEFINE n == at[t]
    <2>2. /\ n \in Node /\ redis[n] # None /\ n \notin Ceded
          /\ \A u \in Job : u # t => at[u] # n
          /\ \A i \in DOMAIN pipe : pipe[i].node # n
          /\ pc[t] = "finally"
          /\ Write(t, n, Cleared(n)) /\ old' = old \ {n}
          /\ pc' = [pc EXCEPT ![t] = "releasing"]
          /\ lock' = t /\ UNCHANGED <<late, at, todo>>
      BY <2>1 DEF GivesBack, Undisturbed, ReleaseNode, Goto
    <2>3. Cleared(n) \in CleanRecord
      BY <2>2, WrittenRecords DEF Steady, IInv
    <2>4. n \notin Ceded' /\ old' \subseteq old /\ at' = [at EXCEPT ![t] = n]
      BY <2>2, Names, Types DEF Ceded
    <2>5. /\ "releasing" \in (WritingPc \cap JobPc) \ (StatePc \cup Working)
          /\ pc[t] \notin WritingPc
      BY <2>2 DEF WritingPc, JobPc, StatePc, Working
    <2>6. QED
      BY <2>2, <2>3, <2>4, <2>5, JobWrites
  <1>5. CASE \E t \in Job : MovesOn(t)
    BY <1>5, JobMoves DEF MovesOn
  <1>6. CASE \E n \in Node : SweepTakes(n)
    <2>1. PICK n \in Node : SweepTakes(n)
      BY <1>6
    <2>2. redis[n] # None /\ Cleared(n) \in CleanRecord
      BY <2>1, RecordNotNone, WrittenRecords DEF SweepTakes, Steady, IInv
    <2>3. Write("sweep", n, Cleared(n)) /\ old' = old \ {n}
          /\ pc' = [pc EXCEPT !["sweep"] = "releasing"]
      BY <2>1 DEF SweepTakes, ReleaseNode, Goto
    <2>4. QED
      BY <2>1, <2>2, <2>3, SweepWrites DEF SweepTakes
  <1>7. CASE Flush
    BY <1>7, FlushKeeps
  <1>8. CASE Apart
    BY <1>8, OthersMove DEF Apart
  <1>9. CASE CrashAndRestart
    BY <1>9, CrashLeaves
  <1>10. QED
    BY <1>1, <1>2, <1>3, <1>4, <1>5, <1>6, <1>7, <1>8, <1>9, LockedSteps

\* All that the theorems below rest on.
LEMMA LockedInductive == ASSUME Locked PROVE Spec => [](Steady /\ LInv)
  <1>1. Init => CacheCoherent
    BY DEF Init, CacheCoherent
  <1>2. Init => Steady /\ LInv
    BY <1>1, InitIInv, InitLInv DEF Steady
  <1>3. Steady /\ LInv /\ [Next]_vars => Steady' /\ LInv'
    BY NextIInv, CoherentStep, LockedKeeps DEF Steady
  <1>4. QED
    BY <1>2, <1>3, PTL DEF Spec

----------------------------------------------------------------------------
(* The theorems                                                            *)

\* While no termination, health pass, expired key or overlong task takes it away,
\* the record of the node a job works on names that job: allocate, setWorkflowState,
\* release and the sweep keep out of each other's way, across crashes too.
THEOREM JobKeepsItsNode == ASSUME Locked PROVE Spec => []HeldNodeIsMine
  <1>1. ASSUME Steady, LInv PROVE HeldNodeIsMine
    <2> SUFFICES ASSUME NEW t \in Job, Holding(t) # None PROVE Owner(Holding(t)) = t
      BY DEF HeldNodeIsMine
    <2>1. pc[t] \in Working /\ Holding(t) = at[t] /\ at[t] # None
      BY DEF Holding
    <2>2. redis[at[t]] # None
      BY <1>1, <2>1, Types, Names
    <2>3. QED
      BY <1>1, <2>1, <2>2 DEF LInv, RecordsOK, Owner
  <1>2. QED
    BY <1>1, LockedInductive, PTL

\* Two jobs never work on one node.
THEOREM NoTwoJobsOnANode == ASSUME Locked PROVE Spec => []NoDoubleAllocation
  <1>1. ASSUME LInv PROVE NoDoubleAllocation
    BY <1>1 DEF LInv, OneJobPerNode, NoDoubleAllocation, Holding
  <1>2. QED
    BY <1>1, LockedInductive, PTL

\* What a step of SlotsMatchRecords' state looks like when node n is given back.
LEMMA ReleaseSlots ==
    ASSUME Steady, SlotsMatchRecords, NEW a, NEW n \in Node, redis[n] \in CleanRecord,
           Current(n) = redis[n], ReleaseNode(a, n)
    PROVE  SlotsMatchRecords'
  <1>1. /\ phone \in [Slot -> SlotRecord] /\ redis \in [Node -> CleanRecord \cup {None}]
        /\ None \notin Node /\ None \notin Slot
    BY Types, Names
  <1> DEFINE p == redis[n].phone
  <1>2. p \in Slot \cup {None}
    BY DEF CleanRecord, Record
  <1>3. /\ redis' = [redis EXCEPT ![n] = Cleared(n)]
        /\ Cleared(n).phone = None /\ Cleared(n) # None
    BY <1>1, RecordNotNone, WrittenRecords
       DEF ReleaseNode, Write, Cleared, Steady, IInv, CleanRecord, Record
  <1>4. p # None => phone[p].status = "allocated" /\ phone[p].node = n
    BY RecordNotNone DEF SlotsMatchRecords
  <1>5. \A s \in Slot : IF s = p
                         THEN phone'[s].status = "available"
                         ELSE phone'[s] = phone[s]
    BY <1>1, <1>2, <1>4 DEF ReleaseNode, FreeSlot, SlotRecord
  <1>6. \A s \in Slot : phone'[s].status = "allocated" =>
            s # p /\ phone[s].status = "allocated" /\ phone[s].node # n
    BY <1>1, <1>5 DEF SlotsMatchRecords
  <1>7. ASSUME NEW s \in Slot, phone'[s].status = "allocated"
        PROVE  /\ phone'[s].node # None /\ redis'[phone'[s].node] # None
               /\ redis'[phone'[s].node].phone = s
    <2>1. phone'[s] = phone[s] /\ phone[s].node # None /\ phone[s].node \in Node \ {n}
      BY <1>1, <1>5, <1>6, <1>7 DEF SlotsMatchRecords, SlotRecord
    <2>2. redis'[phone[s].node] = redis[phone[s].node]
      BY <1>1, <1>3, <2>1
    <2>3. QED
      BY <1>6, <1>7, <2>1, <2>2 DEF SlotsMatchRecords
  <1>8. ASSUME NEW m \in Node, redis'[m] # None, redis'[m].phone # None
        PROVE  phone'[redis'[m].phone].status = "allocated"
               /\ phone'[redis'[m].phone].node = m
    <2>1. m # n /\ redis'[m] = redis[m]
      BY <1>1, <1>3, <1>8
    <2>2. redis[m].phone \in Slot /\ redis[m].phone # p
      BY <1>1, <1>4, <1>8, <2>1 DEF SlotsMatchRecords, CleanRecord, Record
    <2>3. QED
      BY <1>5, <1>8, <2>1, <2>2 DEF SlotsMatchRecords
  <1>9. QED
    BY <1>7, <1>8 DEF SlotsMatchRecords

\* A record is written that carries the phone it carried before, or none where
\* there was no record.
LEMMA SamePhone ==
    ASSUME Steady, SlotsMatchRecords, NEW a, NEW n \in Node, NEW rec \in CleanRecord,
           Write(a, n, rec), UNCHANGED phone,
           rec.phone = IF redis[n] = None THEN None ELSE redis[n].phone
    PROVE  SlotsMatchRecords'
  <1>1. /\ phone \in [Slot -> SlotRecord] /\ redis \in [Node -> CleanRecord \cup {None}]
        /\ redis' = [redis EXCEPT ![n] = rec] /\ rec # None
    BY Types, RecordNotNone DEF Write
  <1>2. \A m \in Node : redis[m] # None => redis'[m] # None /\ redis'[m].phone = redis[m].phone
    BY <1>1
  <1>3. \A m \in Node : redis'[m] # None /\ redis'[m].phone # None =>
            redis[m] # None /\ redis[m].phone = redis'[m].phone
    BY <1>1
  <1>4. \A s \in Slot : phone[s].node # None => phone[s].node \in Node
    BY <1>1 DEF SlotRecord
  <1>5. QED
    BY <1>2, <1>3, <1>4 DEF SlotsMatchRecords

\* A node without a phone is given to job t, with a free slot or without.
LEMMA HandsSlots ==
    ASSUME Steady, SlotsMatchRecords, NEW t \in Job, NEW n \in Node, Hands(t, n)
    PROVE  SlotsMatchRecords'
  <1>1. /\ redis[n] # None /\ Current(n) = redis[n] /\ redis[n] \in CleanRecord
        /\ redis[n].phone = None
    BY DEF Hands, Undisturbed
  <1>2. \A s \in Slot \cup {None} : /\ Assigned(n, t, s) \in CleanRecord
                                    /\ Assigned(n, t, s).phone = s
    BY <1>1, WrittenRecords DEF Assigned, Steady, IInv, CleanRecord, Record
  <1>3. CASE Write(t, n, Assigned(n, t, None)) /\ UNCHANGED phone
    BY <1>1, <1>2, <1>3, SamePhone
  <1>4. ASSUME NEW s \in Available, Write(t, n, Assigned(n, t, s)), BindSlot(s, n)
        PROVE  SlotsMatchRecords'
    <2>1. /\ phone \in [Slot -> SlotRecord] /\ redis \in [Node -> CleanRecord \cup {None}]
          /\ None \notin Node /\ None \notin Slot
          /\ s \in Slot /\ phone[s].status = "available"
      BY Types, Names DEF Available
    <2>2. /\ redis' = [redis EXCEPT ![n] = Assigned(n, t, s)]
          /\ redis'[n] # None /\ redis'[n].phone = s
      BY <1>2, <1>4, <2>1, RecordNotNone DEF Write
    <2>3. \A r \in Slot : IF r = s
                           THEN phone'[r].status = "allocated" /\ phone'[r].node = n
                           ELSE phone'[r] = phone[r]
      BY <1>4, <2>1 DEF BindSlot, SlotRecord
    <2>4. ASSUME NEW r \in Slot, r # s, phone[r].status = "allocated"
          PROVE  /\ phone[r].node \in Node \ {n} /\ redis'[phone[r].node] = redis[phone[r].node]
                 /\ redis[phone[r].node] # None /\ redis[phone[r].node].phone = r
      BY <1>1, <2>1, <2>2, <2>4 DEF SlotsMatchRecords, SlotRecord
    <2>5. ASSUME NEW m \in Node, m # n, redis[m] # None, redis[m].phone # None
          PROVE  /\ redis'[m] = redis[m] /\ redis[m].phone \in Slot /\ redis[m].phone # s
                 /\ phone[redis[m].phone].status = "allocated"
                 /\ phone[redis[m].phone].node = m
      BY <2>1, <2>2, <2>5 DEF SlotsMatchRecords, CleanRecord, Record
    <2>6. \A m \in Node : m # n => redis'[m] = redis[m]
      BY <2>1, <2>2
    <2>7. \A r \in Slot : phone'[r].status = "allocated" =>
            /\ phone'[r].node # None /\ redis'[phone'[r].node] # None
            /\ redis'[phone'[r].node].phone = r
      BY <2>1, <2>2, <2>3, <2>4
    <2>8. \A m \in Node : redis'[m] # None /\ redis'[m].phone # None =>
            phone'[redis'[m].phone].status = "allocated" /\ phone'[redis'[m].phone].node = m
      BY <2>1, <2>2, <2>3, <2>5, <2>6
    <2>9. QED
      BY <2>7, <2>8 DEF SlotsMatchRecords
  <1>5. QED
    BY <1>3, <1>4 DEF Hands, Assign

\* Every step keeps the slots and the records in agreement.
LEMMA SlotsKept ==
    ASSUME Locked, "crash" \notin Env, Steady, LInv, SlotsMatchRecords, [Next]_vars
    PROVE  SlotsMatchRecords'
  <1>1. CASE \E t \in Job, n \in Node : Hands(t, n)
    BY <1>1, HandsSlots
  <1>2. CASE \E t \in Job, n \in Node : Registers(t, n)
    <2>1. PICK t \in Job, n \in Node : Registers(t, n)
      BY <1>2
    <2>2. Fresh \in CleanRecord /\ Fresh.phone = None
      BY NoneIsNoRecord DEF Fresh, CleanRecord, Clean, Record, States, Healths
    <2>3. QED
      BY <2>1, <2>2, SamePhone DEF Registers
  <1>3. CASE \E t \in Job : Reports(t)
    <2>1. PICK t \in Job, state \in {"busy", "cooling"} :
            /\ Undisturbed(t, at[t]) /\ Write(t, at[t], InWorkflow(at[t], state))
            /\ UNCHANGED phone
      BY <1>3 DEF Reports
    <2>2. /\ at[t] \in Node /\ redis[at[t]] # None /\ Current(at[t]) = redis[at[t]]
          /\ redis[at[t]] \in CleanRecord
      BY <2>1 DEF Undisturbed
    <2>3. /\ InWorkflow(at[t], state) \in CleanRecord
          /\ InWorkflow(at[t], state).phone = redis[at[t]].phone
      BY <2>2, WrittenRecords DEF InWorkflow, Steady, IInv, CleanRecord, Record
    <2>4. QED
      BY <2>1, <2>2, <2>3, SamePhone
  <1>4. CASE \E t \in Job : GivesBack(t)
    BY <1>4, ReleaseSlots DEF GivesBack, Undisturbed
  <1>5. CASE \E t \in Job : MovesOn(t)
    BY <1>5 DEF MovesOn, SlotsMatchRecords
  <1>6. CASE \E n \in Node : SweepTakes(n)
    BY <1>6, ReleaseSlots DEF SweepTakes
  <1>7. CASE Flush
    BY <1>7 DEF Flush, SlotsMatchRecords
  <1>8. CASE Apart
    <2>1. /\ redis' = redis
          /\ \A s \in Slot : /\ phone'[s].node = phone[s].node
                             /\ phone'[s].status = "allocated" <=> phone[s].status = "allocated"
      BY <1>8 DEF Apart
    <2>2. \A n \in Node : redis[n] # None /\ redis[n].phone # None => redis[n].phone \in Slot
      BY Types DEF CleanRecord, Record
    <2>3. QED
      BY <2>1, <2>2 DEF SlotsMatchRecords
  <1>9. QED
    BY <1>1, <1>2, <1>3, <1>4, <1>5, <1>6, <1>7, <1>8, LockedSteps DEF CrashAndRestart

\* Under the same hypothesis, and while the process lives, no phone slot leaks and
\* none is bound twice: the pool has a slot allocated exactly when the record of
\* its node names it.  (A crash loses the pool, and the records keep their phones.)
THEOREM SlotsNeverLeak == ASSUME Locked, "crash" \notin Env PROVE Spec => []SlotsMatchRecords
  <1>1. Init => SlotsMatchRecords
    BY DEF Init, SlotsMatchRecords, Fresh
  <1>2. Steady /\ LInv /\ SlotsMatchRecords /\ [Next]_vars => SlotsMatchRecords'
    BY SlotsKept
  <1>3. QED
    BY <1>1, <1>2, LockedInductive, PTL DEF Spec

----------------------------------------------------------------------------
(* The engine implements NodeLease                                         *)

\* What a step that sends a record means to the owner of its node.
LEMMA OwnerWrites ==
    ASSUME Steady, NEW a, NEW n \in Node, NEW rec \in CleanRecord, Write(a, n, rec)
    PROVE  [m \in Node |-> Owner(m)]' = [[m \in Node |-> Owner(m)] EXCEPT ![n] = rec.job]
  <1>1. redis' = [redis EXCEPT ![n] = rec] /\ redis \in [Node -> CleanRecord \cup {None}]
    BY Types DEF Write
  <1>2. rec # None
    BY RecordNotNone
  <1>3. \A m \in Node : Owner(m)' = IF m = n THEN rec.job ELSE Owner(m)
    BY <1>1, <1>2 DEF Owner
  <1>4. QED
    BY <1>3

\* Steps of other jobs leave what a job works on.
LEMMA HoldingMoves ==
    ASSUME Steady, NEW t \in Job, NEW label, pc' = [pc EXCEPT ![t] = label],
           UNCHANGED at \/ \E n \in Node \cup {None} : at' = [at EXCEPT ![t] = n]
    PROVE  [u \in Job |-> Holding(u)]' =
             [[u \in Job |-> Holding(u)] EXCEPT
                ![t] = IF label \in Working THEN at'[t] ELSE None]
  <1>1. /\ t \in Actor /\ Job \subseteq Actor
        /\ pc \in [Actor -> JobPc \cup BackgroundPc] /\ at \in [Actor -> Node \cup {None}]
    BY Names, Types
  <1>2. \A u \in Job : Holding(u)' = IF u = t THEN (IF label \in Working THEN at'[t] ELSE None)
                                              ELSE Holding(u)
    BY <1>1 DEF Holding
  <1>3. QED
    BY <1>2

\* Every step under the hypothesis is a step of NodeLease or none.
LEMMA StepImplements ==
    ASSUME Locked, Steady, LInv, [Next]_vars PROVE [Lease!Next]_Lease!vars
  <1> DEFINE owner == [n \in Node |-> Owner(n)]
  <1> DEFINE active == [t \in Job |-> Holding(t)]
  <1>1. ASSUME NEW t \in Job, NEW n \in Node, Hands(t, n) PROVE Lease!Next
    <2>1. PICK s \in Slot \cup {None} : Write(t, n, Assigned(n, t, s))
      BY <1>1, Names DEF Hands, Assign, Available
    <2>2. /\ redis[n] # None /\ Current(n) = redis[n] /\ redis[n] \in CleanRecord
          /\ redis[n].job = None /\ pc[t] \in {"queued", "registered"}
          /\ pc' = [pc EXCEPT ![t] = "allocating"] /\ at' = [at EXCEPT ![t] = n]
      BY <1>1 DEF Hands, Undisturbed, Assign, Goto
    <2>3. Assigned(n, t, s) \in CleanRecord /\ Assigned(n, t, s).job = t
      BY <2>2, WrittenRecords DEF Assigned, Steady, IInv, CleanRecord, Record
    <2>4. owner' = [owner EXCEPT ![n] = t]
      BY <2>1, <2>3, OwnerWrites
    <2>5. active' = [active EXCEPT ![t] = n]
      BY <2>2, HoldingMoves, Types, Names DEF Working
    <2>6. active[t] = None /\ owner[n] = None
      BY <2>2 DEF Holding, Working, Owner
    <2>7. Lease!Grant(t, n)
      BY <2>4, <2>5, <2>6 DEF Lease!Grant
    <2>8. QED
      BY <2>7 DEF Lease!Next
  <1>2. ASSUME NEW t \in Job, NEW n \in Node, Registers(t, n) PROVE UNCHANGED Lease!vars
    <2>1. /\ pc[t] = "spawning" /\ redis[n] = None /\ Write(t, n, Fresh)
          /\ pc' = [pc EXCEPT ![t] = "registering"] /\ at' = [at EXCEPT ![t] = n]
      BY <1>2 DEF Registers
    <2>2. Fresh \in CleanRecord /\ Fresh.job = None
      BY NoneIsNoRecord DEF Fresh, CleanRecord, Clean, Record, States, Healths
    <2>3. owner' = [owner EXCEPT ![n] = None] /\ owner[n] = None
      BY <2>1, <2>2, OwnerWrites DEF Owner
    <2>4. active' = [active EXCEPT ![t] = None] /\ active[t] = None
      BY <2>1, HoldingMoves DEF Holding, Working
    <2>5. QED
      BY <2>3, <2>4 DEF Lease!vars
  <1>3. ASSUME NEW t \in Job, Reports(t) PROVE UNCHANGED Lease!vars
    <2>1. PICK state \in {"busy", "cooling"}, to \in StatePc :
            /\ pc[t] \in {"leased", "executing", "generated"}
            /\ Undisturbed(t, at[t]) /\ redis[at[t]].job = t
            /\ Write(t, at[t], InWorkflow(at[t], state))
            /\ pc' = [pc EXCEPT ![t] = to] /\ UNCHANGED at
      BY <1>3 DEF Reports
    <2>2. /\ at[t] \in Node /\ redis[at[t]] # None /\ Current(at[t]) = redis[at[t]]
          /\ redis[at[t]] \in CleanRecord
      BY <2>1 DEF Undisturbed
    <2>3. InWorkflow(at[t], state) \in CleanRecord /\ InWorkflow(at[t], state).job = t
      BY <2>1, <2>2, WrittenRecords DEF InWorkflow, Steady, IInv, CleanRecord, Record
    <2>4. owner' = [owner EXCEPT ![at[t]] = t]
      BY <2>1, <2>2, <2>3, OwnerWrites
    <2>5. owner[at[t]] = t
      BY <2>1, <2>2 DEF Owner
    <2>6. active' = [active EXCEPT ![t] = at[t]] /\ active[t] = at[t]
      BY <2>1, HoldingMoves DEF Holding, Working, StatePc
    <2>7. QED
      BY <2>4, <2>5, <2>6 DEF Lease!vars
  <1>4. ASSUME NEW t \in Job, GivesBack(t) PROVE Lease!Next
    <2>1. /\ pc[t] = "finally" /\ at[t] \in Node /\ redis[at[t]] # None
          /\ Write(t, at[t], Cleared(at[t]))
          /\ pc' = [pc EXCEPT ![t] = "releasing"] /\ UNCHANGED at
      BY <1>4 DEF GivesBack, Undisturbed, ReleaseNode, Goto
    <2>2. Cleared(at[t]) \in CleanRecord /\ Cleared(at[t]).job = None
      BY <1>4, <2>1, WrittenRecords
         DEF GivesBack, Undisturbed, Cleared, Steady, IInv, CleanRecord, Record
    <2>3. owner' = [owner EXCEPT ![at[t]] = None]
      BY <2>1, <2>2, OwnerWrites
    <2>4. active' = [active EXCEPT ![t] = None] /\ active[t] = at[t] /\ at[t] # None
      BY <2>1, HoldingMoves, Names DEF Holding, Working
    <2>5. Lease!Return(t)
      BY <2>3, <2>4 DEF Lease!Return
    <2>6. QED
      BY <2>5 DEF Lease!Next
  <1>5. ASSUME NEW t \in Job, MovesOn(t) PROVE [Lease!Next]_Lease!vars
    <2>1. owner' = owner
      BY <1>5 DEF MovesOn, Owner
    <2>2. PICK label \in JobPc :
            /\ pc' = [pc EXCEPT ![t] = label]
            /\ UNCHANGED at \/ at' = [at EXCEPT ![t] = None]
            /\ label \in Working /\ at'[t] # None => pc[t] \in Working
      BY <1>5 DEF MovesOn
    <2>3. active' = [active EXCEPT ![t] = IF label \in Working THEN at'[t] ELSE None]
      BY <2>2, HoldingMoves
    <2>4. at'[t] \in {None, at[t]}
      BY <2>2, Types, Names
    <2>5. CASE active' = active
      BY <2>1, <2>5 DEF Lease!vars
    <2>6. CASE active' # active
      <3>1. active'[t] # active[t] /\ active' = [active EXCEPT ![t] = active'[t]]
        BY <2>3, <2>6
      <3>2. active'[t] = None
        BY <2>2, <2>3, <2>4, <3>1 DEF Holding
      <3>3. Lease!Abandon(t)
        BY <2>1, <3>1, <3>2 DEF Lease!Abandon
      <3>4. QED
        BY <3>3 DEF Lease!Next
    <2>7. QED
      BY <2>5, <2>6
  <1>6. ASSUME NEW n \in Node, SweepTakes(n) PROVE Lease!Next
    <2>1. /\ redis[n] \in CleanRecord /\ redis[n] # None /\ redis[n].job # None
          /\ \A t \in Job : at[t] # n
          /\ Write("sweep", n, Cleared(n)) /\ pc' = [pc EXCEPT !["sweep"] = "releasing"]
          /\ UNCHANGED at
      BY <1>6, RecordNotNone DEF SweepTakes, ReleaseNode, Goto
    <2>2. Cleared(n) \in CleanRecord /\ Cleared(n).job = None
      BY <1>6, <2>1, WrittenRecords DEF SweepTakes, Cleared, Steady, IInv, CleanRecord, Record
    <2>3. owner' = [owner EXCEPT ![n] = None] /\ owner[n] # None
      <3>1. owner' = [owner EXCEPT ![n] = None]
        BY <2>1, <2>2, OwnerWrites
      <3>2. owner[n] # None
        BY <2>1 DEF Owner
      <3>3. QED
        BY <3>1, <3>2
    <2>4. \A t \in Job : pc'[t] = pc[t]
      BY <2>1, Types, Names
    <2>5. active' = active /\ \A t \in Job : active[t] # n
      BY <2>1, <2>4, Names DEF Holding
    <2>6. Lease!Reclaim(n)
      BY <2>3, <2>5 DEF Lease!Reclaim
    <2>7. QED
      BY <2>6 DEF Lease!Next
  <1>7. CASE Flush
    <2>1. redis' = redis /\ at' = at
      BY <1>7 DEF Flush
    <2>2. \A t \in Job : pc'[t] \in Working <=> pc[t] \in Working
      <3> DEFINE a == Head(pipe).by
      <3>1. pc' = [pc EXCEPT ![a] = Resumes[pc[a]]] /\ 1 \in DOMAIN pipe /\ Head(pipe) = pipe[1]
        BY <1>7, Types DEF Flush
      <3>2. pc[a] \in WritingPc
        BY <3>1 DEF Steady, IInv, PipeOwned
      <3>3. Resumes[pc[a]] \in Working <=> pc[a] \in Working
        BY <3>2 DEF WritingPc, Resumes, Working
      <3> HIDE DEF a
      <3>4. \A t \in Job : pc[t] \in JobPc
        BY DEF LInv, ActorsOK
      <3>5. QED
        BY <3>1, <3>3, <3>4, Types, Names DEF JobPc
    <2>3. owner' = owner /\ active' = active
      BY <2>1, <2>2 DEF Owner, Holding
    <2>4. QED
      BY <2>3 DEF Lease!vars
  <1>8. CASE Apart
    BY <1>8 DEF Apart, Owner, Holding, Lease!vars
  <1>9. CASE CrashAndRestart
    <2>1. redis' = redis /\ \A t \in Job : pc'[t] = "queued"
      BY <1>9, Names DEF CrashAndRestart, Restarted, Actor
    <2>2. owner' = owner
      BY <2>1 DEF Owner
    <2>3. active' = [t \in Job |-> None]
      BY <2>1 DEF Holding, Working
    <2>4. Lease!Restart
      BY <2>2, <2>3 DEF Lease!Restart
    <2>5. QED
      BY <2>4 DEF Lease!Next
  <1>10. QED
    BY <1>1, <1>2, <1>3, <1>4, <1>5, <1>6, <1>7, <1>8, <1>9, LockedSteps

\* No node is recorded for a job and no job works when the process starts.
LEMMA InitImplements == Init => Lease!Init
  BY Names DEF Init, Lease!Init, Owner, Holding, Fresh, Restarted, Working

\* Under the hypothesis a campaign gets what NodeLease promises: its node is its
\* own until it gives it back or ends, whatever the sweep, the board and crashes do.
THEOREM ImplementsTheLease == ASSUME Locked PROVE Spec => ImplementsLease
  <1>1. Steady /\ LInv /\ [Next]_vars => [Lease!Next]_Lease!vars
    BY StepImplements
  <1>2. QED
    BY <1>1, InitImplements, LockedInductive, PTL DEF Spec, ImplementsLease, Lease!Spec

=============================================================================
