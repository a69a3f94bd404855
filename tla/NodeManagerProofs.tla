------------------------- MODULE NodeManagerProofs -------------------------
(***************************************************************************)
(* Invariants of NodeManager that hold whatever surrounds the jobs: for    *)
(* every set of jobs, nodes and slots, and for every Env.                  *)
(***************************************************************************)
EXTENDS NodeManager, SequenceTheorems, TLAPS

WritingPc == {"registering", "allocating", "scraping", "generating", "publishing",
              "cooling", "releasing", "freeing", "probing", "alarming", "marking"}

CleanRecord == {r \in Record : Clean(r)}
CleanEntry == [by : Actor, node : Node, rec : CleanRecord]

\* The three places a record can be; no node ever disappears from Redis.
StoreOK ==
    /\ redis \in [Node -> CleanRecord \cup {None}]
    /\ cache \in [Node -> CleanRecord \cup {None}]
    /\ pipe \in Seq(CleanEntry)
    /\ \A n \in Node : cache[n] # None => redis[n] # None
    /\ \A i \in DOMAIN pipe : redis[pipe[i].node] # None

\* An actor waits for at most one upsert, and waits while it is in flight.
PipeOwned ==
    /\ \A i \in DOMAIN pipe : pc[pipe[i].by] \in WritingPc
    /\ \A i, j \in DOMAIN pipe : i # j => pipe[i].by # pipe[j].by

ControlOK ==
    /\ pc \in [Actor -> JobPc \cup BackgroundPc]
    /\ at \in [Actor -> Node \cup {None}]
    /\ todo \in [Background -> SUBSET [node : Node, phone : Slot \cup {None}]]
    /\ \A t \in Job : pc[t] \in {"registering", "registered", "allocating", "leased",
                                 "scraping", "executing", "generating", "generated",
                                 "publishing", "cooling", "finally"} => at[t] # None
    /\ pc["health"] \in {"alarming", "alarmed"} => at["health"] # None

\* Whatever an actor works on, or is still to visit, has a record.
WorkKnown ==
    /\ \A a \in Actor : at[a] # None => redis[at[a]] # None
    /\ \A b \in Background : \A x \in todo[b] : redis[x.node] # None

RestOK ==
    /\ lock \in Actor \cup {None, "dead"}
    /\ late \subseteq Actor
    /\ phone \in [Slot -> SlotRecord]
    /\ old \subseteq Node

IInv == StoreOK /\ PipeOwned /\ ControlOK /\ WorkKnown /\ RestOK /\ LeaseExclusive

\* No record is None.
LEMMA RecordNotNone == CleanRecord \subseteq Record /\ None \notin CleanRecord
  BY NoneIsNoRecord DEF CleanRecord

\* The records the engine writes are records, and never idle with a campaign or
\* a phone on them.
LEMMA WrittenRecords ==
    ASSUME StoreOK, NEW n \in Node, redis[n] # None
    PROVE  /\ Current(n) \in CleanRecord
           /\ Cleared(n) \in CleanRecord
           /\ \A t \in Job, s \in Slot \cup {None} : Assigned(n, t, s) \in CleanRecord
           /\ \A st \in {"busy", "cooling"} : InWorkflow(n, st) \in CleanRecord
           /\ \A v \in Healths : [Current(n) EXCEPT !.health = v] \in CleanRecord
           /\ [Current(n) EXCEPT !.state = "unhealthy", !.health = "unhealthy"]
                \in CleanRecord
  <1>1. Current(n) \in CleanRecord
    BY DEF StoreOK, Current
  <1> DEFINE r == Current(n)
  <1>2. r \in Record /\ Clean(r)
    BY <1>1 DEF CleanRecord
  <1> HIDE DEF r
  <1>3. \A q \in Record : (q.state # "idle" \/ (q.job = None /\ q.phone = None))
                            => q \in CleanRecord
    BY NoneIsNoRecord DEF CleanRecord, Clean
  <1>4. r.state # "idle" \/ (r.job = None /\ r.phone = None)
    BY <1>2, NoneIsNoRecord DEF Clean
  <1>5. [r EXCEPT !.state = "idle", !.job = None, !.phone = None] \in CleanRecord
    BY <1>2, <1>3 DEF Record, States
  <1>6. \A t \in Job, s \in Slot \cup {None} :
          [r EXCEPT !.state = "allocated", !.job = t, !.phone = s] \in CleanRecord
    BY <1>2, <1>3 DEF Record, States
  <1>7. \A st \in {"busy", "cooling"} : [r EXCEPT !.state = st] \in CleanRecord
    BY <1>2, <1>3 DEF Record, States
  <1>8. \A v \in Healths : [r EXCEPT !.health = v] \in CleanRecord
    BY <1>2, <1>3, <1>4 DEF Record
  <1>9. [r EXCEPT !.state = "unhealthy", !.health = "unhealthy"] \in CleanRecord
    BY <1>2, <1>3 DEF Record, States, Healths
  <1>10. QED
    BY <1>1, <1>5, <1>6, <1>7, <1>8, <1>9 DEF r, Cleared, Assigned, InWorkflow

\* An upsert of a good record keeps the store good and only adds nodes.
LEMMA WriteStore ==
    ASSUME StoreOK, NEW a \in Actor, NEW n \in Node, NEW rec \in CleanRecord,
           Write(a, n, rec)
    PROVE  /\ StoreOK'
           /\ \A m \in Node : redis[m] # None => redis'[m] # None
           /\ redis'[n] # None
  <1> DEFINE e == [by |-> a, node |-> n, rec |-> rec]
  <1>1. e \in CleanEntry
    BY DEF CleanEntry
  <1>2. pipe' = Append(pipe, e)
    BY DEF Write
  <1>3. /\ pipe' \in Seq(CleanEntry)
        /\ \A i \in DOMAIN pipe' :
             (i \in DOMAIN pipe /\ pipe'[i] = pipe[i]) \/ pipe'[i] = e
    BY <1>1, <1>2 DEF StoreOK
  <1>4. redis' \in [Node -> CleanRecord \cup {None}]
    BY DEF StoreOK, Write
  <1>5. \A m \in Node : redis[m] # None => redis'[m] # None
    BY RecordNotNone DEF StoreOK, Write
  <1>6. redis'[n] # None
    BY RecordNotNone DEF StoreOK, Write
  <1>7. /\ cache' \in [Node -> CleanRecord \cup {None}]
        /\ \A m \in Node : cache'[m] # None => redis'[m] # None
    BY <1>5, <1>6 DEF StoreOK, Write, Current
  <1>8. \A i \in DOMAIN pipe' : redis'[pipe'[i].node] # None
    <2> TAKE i \in DOMAIN pipe'
    <2>1. CASE i \in DOMAIN pipe /\ pipe'[i] = pipe[i]
      <3>1. pipe[i] \in CleanEntry
        BY <2>1 DEF StoreOK
      <3>2. QED
        BY <2>1, <3>1, <1>5 DEF StoreOK, CleanEntry
    <2>2. CASE pipe'[i] = e
      BY <2>2, <1>6
    <2>3. QED
      BY <1>3, <2>1, <2>2
  <1>9. QED
    BY <1>3, <1>4, <1>5, <1>6, <1>7, <1>8 DEF StoreOK

\* An actor that was not waiting may send an upsert and wait for it.
LEMMA WriteOwned ==
    ASSUME StoreOK, PipeOwned, ControlOK, NEW a \in Actor, NEW n \in Node,
           NEW rec \in CleanRecord, NEW label \in WritingPc, pc[a] \notin WritingPc,
           Write(a, n, rec), pc' = [pc EXCEPT ![a] = label]
    PROVE  PipeOwned'
  <1> DEFINE e == [by |-> a, node |-> n, rec |-> rec]
  <1>1. pipe' = Append(pipe, e) /\ e \in CleanEntry
    BY DEF Write, CleanEntry
  <1>2. \A i \in DOMAIN pipe : pipe[i].by # a /\ pipe[i].by \in Actor
    <2> TAKE i \in DOMAIN pipe
    <2>1. pipe[i] \in CleanEntry
      BY DEF StoreOK
    <2>2. QED
      BY <2>1 DEF PipeOwned, CleanEntry
  <1>3. \A i \in DOMAIN pipe' :
          \/ i \in DOMAIN pipe /\ pipe'[i] = pipe[i]
          \/ i = Len(pipe) + 1 /\ pipe'[i] = e
    BY <1>1 DEF StoreOK
  <1>4. \A i \in DOMAIN pipe' : pc'[pipe'[i].by] \in WritingPc
    BY <1>2, <1>3 DEF PipeOwned, ControlOK
  <1>5. ASSUME NEW i \in DOMAIN pipe', NEW j \in DOMAIN pipe', i # j
        PROVE  pipe'[i].by # pipe'[j].by
    BY <1>5, <1>2, <1>3 DEF PipeOwned
  <1>6. QED
    BY <1>4, <1>5 DEF PipeOwned

\* withLock: moving about without touching the lock, taking it, giving it back.
LEMMA KeepLock ==
    ASSUME LeaseExclusive, ControlOK, UNCHANGED <<lock, late>>, NEW a \in Actor, NEW label,
           label \in LockedPc <=> pc[a] \in LockedPc, pc' = [pc EXCEPT ![a] = label]
    PROVE  LeaseExclusive'
  BY DEF LeaseExclusive, ControlOK, InsideLock

\* Taking the free key keeps the lock exclusive.
LEMMA TakeLock ==
    ASSUME LeaseExclusive, ControlOK, NEW a \in Actor, NEW label \in LockedPc,
           TryLock(a), UNCHANGED late, pc' = [pc EXCEPT ![a] = label]
    PROVE  LeaseExclusive'
  BY ConstantsAssumption DEF LeaseExclusive, ControlOK, InsideLock, TryLock

\* Giving the key back keeps the lock exclusive.
LEMMA DropLock ==
    ASSUME LeaseExclusive, ControlOK, NEW a \in Actor, NEW label, label \notin LockedPc,
           Unlock(a), pc' = [pc EXCEPT ![a] = label]
    PROVE  LeaseExclusive'
  BY ConstantsAssumption DEF LeaseExclusive, ControlOK, InsideLock, Unlock

\* Freeing or binding a slot leaves slot records.
LEMMA SlotOps ==
    ASSUME phone \in [Slot -> SlotRecord], NEW s \in Slot \cup {None}
    PROVE  /\ FreeSlot(s) => phone' \in [Slot -> SlotRecord]
           /\ \A n \in Node : s # None /\ BindSlot(s, n) => phone' \in [Slot -> SlotRecord]
  BY DEF FreeSlot, BindSlot, SlotRecord

\* The state a fresh process finds satisfies IInv.
THEOREM InitIInv == Init => IInv
  <1> SUFFICES ASSUME Init PROVE IInv
    OBVIOUS
  <1>1. Fresh \in CleanRecord
    BY NoneIsNoRecord DEF Fresh, CleanRecord, Clean, Record, States, Healths
  <1>2. StoreOK
    BY <1>1, RecordNotNone, ConstantsAssumption DEF Init, StoreOK
  <1>3. PipeOwned
    BY DEF Init, PipeOwned
  <1>4. ControlOK
    BY ConstantsAssumption
       DEF Init, ControlOK, Restarted, Actor, Background, JobPc, BackgroundPc
  <1>5. WorkKnown
    BY DEF Init, WorkKnown
  <1>6. RestOK
    BY DEF Init, RestOK, SlotRecord
  <1>7. LeaseExclusive
    BY ConstantsAssumption DEF Init, LeaseExclusive, InsideLock, LockedPc, Restarted
  <1>8. QED
    BY <1>2, <1>3, <1>4, <1>5, <1>6, <1>7 DEF IInv

\* What an actor's own state owes: an upsert sent by a from pc[a] to label, with
\* the node it works on, the slots, the ages and the snapshots typed afterwards.
LEMMA WriteStep ==
    ASSUME IInv, NEW a \in Actor, NEW n \in Node, NEW rec \in CleanRecord,
           NEW label \in WritingPc, pc[a] \notin WritingPc,
           Write(a, n, rec), pc' = [pc EXCEPT ![a] = label],
           at' \in [Actor -> Node \cup {None}],
           \A b \in Actor : at'[b] = at[b] \/ at'[b] = n,
           todo' \in [Background -> SUBSET [node : Node, phone : Slot \cup {None}]],
           \A b \in Background : \A x \in todo'[b] : redis[x.node] # None
    PROVE  StoreOK' /\ PipeOwned' /\ WorkKnown'
  <1>1. /\ StoreOK'
        /\ \A m \in Node : redis[m] # None => redis'[m] # None
        /\ redis'[n] # None
    BY WriteStore DEF IInv
  <1>2. PipeOwned'
    BY WriteOwned DEF IInv
  <1>3. \A b \in Actor : at'[b] # None => redis'[at'[b]] # None
    <2> TAKE b \in Actor
    <2>1. CASE at'[b] = n
      BY <2>1, <1>1
    <2>2. CASE at'[b] = at[b]
      BY <2>2, <1>1 DEF IInv, WorkKnown, ControlOK
    <2>3. QED
      BY <2>1, <2>2
  <1>4. ASSUME NEW b \in Background, NEW x \in todo'[b] PROVE redis'[x.node] # None
    <2>1. x.node \in Node
      OBVIOUS
    <2>2. QED
      BY <1>1, <2>1
  <1>5. QED
    BY <1>1, <1>2, <1>3, <1>4 DEF WorkKnown

\* A step that leaves the store alone keeps what concerns it.
LEMMA NoWriteStep ==
    ASSUME IInv, UNCHANGED <<redis, cache, pipe>>, NEW a \in Actor, NEW label,
           pc[a] \notin WritingPc, pc' = [pc EXCEPT ![a] = label],
           \A b \in Actor : at'[b] = at[b] \/ at'[b] = None,
           \A b \in Background : \A x \in todo'[b] : redis[x.node] # None
    PROVE  StoreOK' /\ PipeOwned' /\ WorkKnown'
  <1>1. StoreOK'
    BY DEF IInv, StoreOK
  <1>2. \A i \in DOMAIN pipe : pipe[i] \in CleanEntry
    BY DEF IInv, StoreOK
  <1>3. PipeOwned'
    BY <1>2 DEF IInv, PipeOwned, ControlOK, CleanEntry
  <1>4. WorkKnown'
    BY DEF IInv, WorkKnown
  <1>5. QED
    BY <1>1, <1>3, <1>4

\* A job gets node n, inside the lock it holds or takes.
LEMMA AssignStep ==
    ASSUME IInv, NEW t \in Job, NEW n \in Node, redis[n] # None,
           pc[t] \in {"queued", "registered"}, Assign(t, n), UNCHANGED <<late, todo>>,
           \/ pc[t] = "queued" /\ TryLock(t)
           \/ pc[t] = "registered" /\ UNCHANGED lock
    PROVE  IInv'
  <1> t \in Actor
    BY DEF Actor
  <1>1. PICK s \in Slot \cup {None} :
          /\ Write(t, n, Assigned(n, t, s))
          /\ UNCHANGED phone \/ (s # None /\ BindSlot(s, n))
    BY ConstantsAssumption DEF Assign, Available
  <1>2. Assigned(n, t, s) \in CleanRecord
    BY WrittenRecords DEF IInv
  <1>3. /\ pc' = [pc EXCEPT ![t] = "allocating"]
        /\ at' = [at EXCEPT ![t] = n]
        /\ old' = old \ {n}
    BY DEF Assign, Goto
  <1>4. StoreOK' /\ PipeOwned' /\ WorkKnown'
    <2>1. at' \in [Actor -> Node \cup {None}] /\ \A b \in Actor : at'[b] = at[b] \/ at'[b] = n
      BY <1>3 DEF IInv, ControlOK
    <2>2. /\ todo' \in [Background -> SUBSET [node : Node, phone : Slot \cup {None}]]
          /\ \A b \in Background : \A x \in todo'[b] : redis[x.node] # None
      BY DEF IInv, ControlOK, WorkKnown
    <2>3. "allocating" \in WritingPc /\ pc[t] \notin WritingPc
      BY DEF WritingPc
    <2>4. QED
      BY <1>1, <1>2, <1>3, <2>1, <2>2, <2>3, WriteStep
  <1>5. ControlOK'
    BY <1>3, ConstantsAssumption DEF IInv, ControlOK, Actor, Background, JobPc
  <1>6. RestOK'
    <2>1. phone' \in [Slot -> SlotRecord]
      BY <1>1, SlotOps DEF IInv, RestOK
    <2>2. QED
      BY <1>3, <2>1 DEF IInv, RestOK, TryLock
  <1>7. LeaseExclusive'
    <2>1. CASE pc[t] = "queued" /\ TryLock(t)
      BY <2>1, <1>3, TakeLock DEF IInv, LockedPc
    <2>2. CASE pc[t] = "registered" /\ UNCHANGED lock
      BY <2>2, <1>3, KeepLock DEF IInv, LockedPc
    <2>3. QED
      BY <2>1, <2>2
  <1>8. QED
    BY <1>4, <1>5, <1>6, <1>7 DEF IInv

\* The replies to the oldest upsert arrive.
LEMMA FlushStep == ASSUME IInv, Flush PROVE IInv'
  <1> DEFINE w == Head(pipe)
  <1>1. pipe # <<>> /\ pipe' = Tail(pipe) /\ 1 \in DOMAIN pipe /\ w = pipe[1]
    BY DEF Flush, IInv, StoreOK
  <1>2. w \in CleanEntry
    BY <1>1 DEF IInv, StoreOK
  <1>3. w.by \in Actor /\ w.node \in Node /\ w.rec \in CleanRecord
    BY <1>2 DEF CleanEntry
  <1> DEFINE a == w.by
  <1>4. pc[a] \in WritingPc
    BY <1>1 DEF IInv, PipeOwned
  <1>5. /\ pc' = [pc EXCEPT ![a] = Resumes[pc[a]]]
        /\ cache' = [cache EXCEPT ![w.node] = w.rec]
        /\ UNCHANGED <<lock, late, redis, phone, old, at, todo>>
    BY DEF Flush
  <1>6. /\ pipe' \in Seq(CleanEntry)
        /\ \A i \in DOMAIN pipe' : i + 1 \in DOMAIN pipe /\ i + 1 # 1 /\ pipe'[i] = pipe[i + 1]
    BY <1>1 DEF IInv, StoreOK
  <1> HIDE DEF w
  <1>7. redis[w.node] # None
    BY <1>1 DEF IInv, StoreOK
  <1>8. StoreOK'
    <2>1. /\ redis' \in [Node -> CleanRecord \cup {None}]
          /\ cache' \in [Node -> CleanRecord \cup {None}]
          /\ \A n \in Node : cache'[n] # None => redis'[n] # None
      BY <1>3, <1>5, <1>7 DEF IInv, StoreOK
    <2>2. \A i \in DOMAIN pipe' : redis'[pipe'[i].node] # None
      BY <1>5, <1>6 DEF IInv, StoreOK
    <2>3. QED
      BY <1>6, <2>1, <2>2 DEF StoreOK
  <1>9. PipeOwned'
    <2>1. \A i \in DOMAIN pipe : pipe[i] \in CleanEntry
      BY DEF IInv, StoreOK
    <2>2. \A i \in DOMAIN pipe' : pipe'[i].by \in Actor /\ pipe'[i].by # a
      BY <1>1, <1>6, <2>1 DEF IInv, PipeOwned, CleanEntry
    <2>3. \A i \in DOMAIN pipe' : pc'[pipe'[i].by] \in WritingPc
      BY <1>5, <1>6, <2>2 DEF IInv, PipeOwned, ControlOK
    <2>4. \A i, j \in DOMAIN pipe' : i # j => pipe'[i].by # pipe'[j].by
      <3> TAKE i, j \in DOMAIN pipe'
      <3>1. i \in Nat /\ j \in Nat
        BY <1>6
      <3>2. QED
        BY <1>6, <3>1 DEF IInv, PipeOwned
    <2>5. QED
      BY <2>3, <2>4 DEF PipeOwned
  <1>10. /\ Resumes[pc[a]] \in JobPc \cup BackgroundPc
         /\ Resumes[pc[a]] \in LockedPc <=> pc[a] \in LockedPc
    BY <1>4 DEF WritingPc, Resumes, JobPc, BackgroundPc, LockedPc
  <1>11. ControlOK'
    <2>1. pc' \in [Actor -> JobPc \cup BackgroundPc]
      BY <1>3, <1>5, <1>10 DEF IInv, ControlOK
    <2>2. \A t \in Job : pc'[t] \in {"registering", "registered", "allocating", "leased",
                                     "scraping", "executing", "generating", "generated",
                                     "publishing", "cooling", "finally"} => at'[t] # None
      BY <1>3, <1>4, <1>5 DEF IInv, ControlOK, WritingPc, Resumes, Actor
    <2>3. pc'["health"] \in {"alarming", "alarmed"} => at'["health"] # None
      BY <1>3, <1>4, <1>5 DEF IInv, ControlOK, WritingPc, Resumes, Actor, Background
    <2>4. QED
      BY <1>5, <2>1, <2>2, <2>3 DEF IInv, ControlOK
  <1>12. WorkKnown' /\ RestOK'
    BY <1>5 DEF IInv, WorkKnown, RestOK
  <1>13. LeaseExclusive'
    BY <1>3, <1>5, <1>10, KeepLock DEF IInv
  <1>14. QED
    BY <1>8, <1>9, <1>11, <1>12, <1>13 DEF IInv

\* release(nodeId) by actor a, a job or the sweep, taking the lock.
LEMMA ReleaseStep ==
    ASSUME IInv, NEW a \in Job \cup {"sweep"}, NEW n \in Node, redis[n] # None,
           pc[a] \in {"finally", "resting", "sweeping"},
           TryLock(a), ReleaseNode(a, n), UNCHANGED <<late, at>>,
           todo' \in [Background -> SUBSET [node : Node, phone : Slot \cup {None}]],
           \A b \in Background : \A x \in todo'[b] : redis[x.node] # None
    PROVE  IInv'
  <1>1. a \in Actor /\ a # "health"
    BY ConstantsAssumption DEF Actor, Background
  <1>2. /\ FreeSlot(Current(n).phone)
        /\ Write(a, n, Cleared(n))
        /\ old' = old \ {n}
        /\ pc' = [pc EXCEPT ![a] = "releasing"]
    BY DEF ReleaseNode, Goto
  <1>3. /\ Cleared(n) \in CleanRecord
        /\ Current(n).phone \in Slot \cup {None}
    BY WrittenRecords DEF IInv, CleanRecord, Record
  <1>4. StoreOK' /\ PipeOwned' /\ WorkKnown'
    <2>1. at' \in [Actor -> Node \cup {None}] /\ \A b \in Actor : at'[b] = at[b] \/ at'[b] = n
      BY DEF IInv, ControlOK
    <2>2. "releasing" \in WritingPc /\ pc[a] \notin WritingPc
      BY DEF WritingPc
    <2>3. QED
      BY <1>1, <1>2, <1>3, <2>1, <2>2, WriteStep
  <1>5. ControlOK'
    BY <1>1, <1>2 DEF IInv, ControlOK, JobPc
  <1>6. RestOK'
    BY <1>1, <1>2, <1>3, SlotOps DEF IInv, RestOK, TryLock
  <1>7. LeaseExclusive'
    BY <1>1, <1>2, TakeLock DEF IInv, LockedPc
  <1>8. QED
    BY <1>4, <1>5, <1>6, <1>7 DEF IInv

\* setWorkflowState by a job that has a node.
LEMMA WorkflowStep ==
    ASSUME IInv, NEW t \in Job,
           NEW from \in {"leased", "executing", "generated"},
           NEW to \in {"scraping", "generating", "publishing", "cooling"},
           NEW st \in {"busy", "cooling"}, SetWorkflowState(t, from, to, st)
    PROVE  IInv'
  <1>1. t \in Actor /\ t # "health"
    BY ConstantsAssumption DEF Actor, Background
  <1> DEFINE n == at[t]
  <1>2. /\ pc[t] = from
        /\ Write(t, n, InWorkflow(n, st))
        /\ pc' = [pc EXCEPT ![t] = to]
        /\ UNCHANGED <<lock, late, phone, old, at, todo>>
    BY DEF SetWorkflowState, Goto
  <1>3. n \in Node /\ redis[n] # None
    BY <1>1, <1>2 DEF IInv, ControlOK, WorkKnown
  <1> HIDE DEF n
  <1>4. InWorkflow(n, st) \in CleanRecord
    BY <1>3, WrittenRecords DEF IInv
  <1>5. StoreOK' /\ PipeOwned' /\ WorkKnown'
    <2>1. /\ at' \in [Actor -> Node \cup {None}]
          /\ \A b \in Actor : at'[b] = at[b] \/ at'[b] = n
          /\ todo' \in [Background -> SUBSET [node : Node, phone : Slot \cup {None}]]
          /\ \A b \in Background : \A x \in todo'[b] : redis[x.node] # None
      BY <1>2 DEF IInv, ControlOK, WorkKnown
    <2>2. to \in WritingPc /\ pc[t] \notin WritingPc
      BY <1>2 DEF WritingPc
    <2>3. QED
      BY <1>1, <1>2, <1>3, <1>4, <2>1, <2>2, WriteStep
  <1>6. ControlOK'
    BY <1>1, <1>2 DEF IInv, ControlOK, JobPc
  <1>7. RestOK'
    BY <1>2 DEF IInv, RestOK
  <1>8. LeaseExclusive'
    <2>1. to \in LockedPc <=> pc[t] \in LockedPc
      BY <1>2 DEF LockedPc
    <2>2. QED
      BY <1>1, <1>2, <2>1, KeepLock DEF IInv
  <1>9. QED
    BY <1>5, <1>6, <1>7, <1>8 DEF IInv

\* The other steps of a job.
LEMMA JobStartsStep == ASSUME IInv, NEW t \in Job, JobStarts(t) PROVE IInv'
  <1>1. t \in Actor /\ t # "health"
    BY ConstantsAssumption DEF Actor, Background
  <1>2. CASE AllocateIdle(t)
    <2>1. PICK n \in Idle : Assign(t, n)
      BY <1>2 DEF AllocateIdle
    <2>2. n \in Node /\ redis[n] # None
      BY DEF Idle, InState, Cached, IInv, StoreOK
    <2>3. QED
      BY <1>2, <2>1, <2>2, AssignStep DEF AllocateIdle
  <1>3. ASSUME NEW label \in {"spawning", "unlocking"}, pc[t] = "queued", TryLock(t),
               pc' = [pc EXCEPT ![t] = label],
               UNCHANGED <<late, redis, cache, pipe, phone, old, at, todo>>
        PROVE  IInv'
    <2>1. StoreOK' /\ PipeOwned' /\ WorkKnown'
      <3>1. pc[t] \notin WritingPc
        BY <1>3 DEF WritingPc
      <3>2. \A b \in Background : \A x \in todo'[b] : redis[x.node] # None
        BY <1>3 DEF IInv, WorkKnown
      <3>3. QED
        BY <1>1, <1>3, <3>1, <3>2, NoWriteStep
    <2>2. ControlOK' /\ RestOK'
      BY <1>1, <1>3 DEF IInv, ControlOK, RestOK, TryLock, JobPc
    <2>3. LeaseExclusive'
      BY <1>1, <1>3, TakeLock DEF IInv, LockedPc
    <2>4. QED
      BY <2>1, <2>2, <2>3 DEF IInv
  <1>4. CASE AllocateSpawns(t)
    BY <1>4, <1>3 DEF AllocateSpawns, Goto
  <1>5. CASE AllocateNothing(t)
    BY <1>5, <1>3 DEF AllocateNothing, Goto
  <1>6. QED
    BY <1>2, <1>4, <1>5 DEF JobStarts

\* The answer of spawnNode, with a node or without.
LEMMA SpawnStep == ASSUME IInv, NEW t \in Job, SpawnReturns(t) PROVE IInv'
  <1>1. t \in Actor /\ t # "health"
    BY ConstantsAssumption DEF Actor, Background
  <1>2. pc[t] = "spawning" /\ UNCHANGED <<lock, late, phone, old, todo>>
    BY DEF SpawnReturns
  <1>3. /\ todo' \in [Background -> SUBSET [node : Node, phone : Slot \cup {None}]]
        /\ \A b \in Background : \A x \in todo'[b] : redis[x.node] # None
    BY <1>2 DEF IInv, ControlOK, WorkKnown
  <1>4. pc[t] \notin WritingPc
    BY <1>2 DEF WritingPc
  <1>5. ASSUME NEW n \in Node, Write(t, n, Fresh), at' = [at EXCEPT ![t] = n],
               pc' = [pc EXCEPT ![t] = "registering"]
        PROVE  IInv'
    <2>1. Fresh \in CleanRecord
      BY NoneIsNoRecord DEF Fresh, CleanRecord, Clean, Record, States, Healths
    <2>2. at' \in [Actor -> Node \cup {None}] /\ \A b \in Actor : at'[b] = at[b] \/ at'[b] = n
      BY <1>5 DEF IInv, ControlOK
    <2>3. StoreOK' /\ PipeOwned' /\ WorkKnown'
      BY <1>1, <1>3, <1>4, <1>5, <2>1, <2>2, WriteStep DEF WritingPc
    <2>4. ControlOK' /\ RestOK'
      BY <1>1, <1>2, <1>5, ConstantsAssumption DEF IInv, ControlOK, RestOK, JobPc
    <2>5. LeaseExclusive'
      BY <1>1, <1>2, <1>5, KeepLock DEF IInv, LockedPc
    <2>6. QED
      BY <2>3, <2>4, <2>5 DEF IInv
  <1>6. ASSUME pc' = [pc EXCEPT ![t] = "unlocking"], UNCHANGED <<redis, cache, pipe, at>>
        PROVE  IInv'
    <2>1. StoreOK' /\ PipeOwned' /\ WorkKnown'
      BY <1>1, <1>3, <1>4, <1>6, NoWriteStep
    <2>2. ControlOK' /\ RestOK'
      BY <1>1, <1>2, <1>6 DEF IInv, ControlOK, RestOK, JobPc
    <2>3. LeaseExclusive'
      BY <1>1, <1>2, <1>6, KeepLock DEF IInv, LockedPc
    <2>4. QED
      BY <2>1, <2>2, <2>3 DEF IInv
  <1>7. QED
    BY <1>5, <1>6 DEF SpawnReturns, Goto

\* An actor leaves withLock and goes on at label.
LEMMA LeaveStep ==
    ASSUME IInv, NEW a \in Actor, pc[a] \in {"unlocking", "released", "terminating"},
           NEW label \in {"queued", "leased", "sweeping", "resting"},
           label = "leased" => at[a] # None /\ at'[a] = at[a],
           Unlock(a), pc' = [pc EXCEPT ![a] = label],
           UNCHANGED at \/ at' = [at EXCEPT ![a] = None],
           UNCHANGED <<redis, cache, pipe, phone, old, todo>>
    PROVE  IInv'
  <1>1. StoreOK' /\ PipeOwned' /\ WorkKnown'
    <2>1. pc[a] \notin WritingPc
      BY DEF WritingPc
    <2>2. \A b \in Background : \A x \in todo'[b] : redis[x.node] # None
      BY DEF IInv, WorkKnown
    <2>3. \A b \in Actor : at'[b] = at[b] \/ at'[b] = None
      BY DEF IInv, ControlOK
    <2>4. QED
      BY <2>1, <2>2, <2>3, NoWriteStep
  <1>2. ControlOK'
    BY ConstantsAssumption DEF IInv, ControlOK, JobPc, BackgroundPc, Actor, Background
  <1>3. RestOK'
    BY DEF IInv, RestOK, Unlock
  <1>4. LeaseExclusive'
    BY DropLock DEF IInv, LockedPc
  <1>5. QED
    BY <1>1, <1>2, <1>3, <1>4 DEF IInv

\* Every step of a job after its start.
LEMMA JobWorkStep == ASSUME IInv, NEW t \in Job, JobWork(t) PROVE IInv'
  <1>1. t \in Actor /\ t # "health"
    BY ConstantsAssumption DEF Actor, Background
  <1>2. CASE SpawnReturns(t)
    BY <1>2, SpawnStep
  <1>3. CASE AllocateSpawned(t)
    <2>1. at[t] \in Node /\ redis[at[t]] # None
      BY <1>1, <1>3 DEF AllocateSpawned, IInv, ControlOK, WorkKnown
    <2>2. QED
      BY <1>3, <2>1, AssignStep DEF AllocateSpawned
  <1>4. CASE AllocateReturns(t)
    BY <1>1, <1>4, LeaveStep DEF AllocateReturns, Goto
  <1>5. CASE Scrape(t) \/ Generate(t) \/ Publish(t) \/ ExecuteFails(t)
    BY <1>5, WorkflowStep DEF Scrape, Generate, Publish, ExecuteFails
  <1>6. CASE Finally(t)
    <2>1. at[t] \in Node /\ redis[at[t]] # None
      BY <1>1, <1>6 DEF Finally, IInv, ControlOK, WorkKnown
    <2>2. /\ todo' \in [Background -> SUBSET [node : Node, phone : Slot \cup {None}]]
          /\ \A b \in Background : \A x \in todo'[b] : redis[x.node] # None
      BY <1>6 DEF Finally, IInv, ControlOK, WorkKnown
    <2>3. QED
      BY <1>6, <2>1, <2>2, ReleaseStep DEF Finally
  <1>7. CASE FinallyThrows(t)
    <2>1. /\ pc[t] = "finally" /\ pc' = [pc EXCEPT ![t] = "queued"]
          /\ at' = [at EXCEPT ![t] = None]
          /\ UNCHANGED <<lock, late, redis, cache, pipe, phone, old, todo>>
      BY <1>7 DEF FinallyThrows, Goto
    <2>2. StoreOK' /\ PipeOwned' /\ WorkKnown'
      <3>1. pc[t] \notin WritingPc
        BY <2>1 DEF WritingPc
      <3>2. \A b \in Background : \A x \in todo'[b] : redis[x.node] # None
        BY <2>1 DEF IInv, WorkKnown
      <3>3. \A b \in Actor : at'[b] = at[b] \/ at'[b] = None
        BY <2>1 DEF IInv, ControlOK
      <3>4. QED
        BY <1>1, <2>1, <3>1, <3>2, <3>3, NoWriteStep
    <2>3. ControlOK' /\ RestOK'
      BY <1>1, <2>1 DEF IInv, ControlOK, RestOK, JobPc
    <2>4. LeaseExclusive'
      BY <1>1, <2>1, KeepLock DEF IInv, LockedPc
    <2>5. QED
      BY <2>2, <2>3, <2>4 DEF IInv
  <1>8. CASE ReleaseReturns(t)
    BY <1>1, <1>8, LeaveStep DEF ReleaseReturns, Goto
  <1>9. QED
    BY <1>2, <1>3, <1>4, <1>5, <1>6, <1>7, <1>8 DEF JobWork

\* Background activities are actors and no jobs.
LEMMA BackgroundActors ==
    \A b \in Background : b \in Actor /\ b \notin Job
  BY ConstantsAssumption DEF Actor, Background

\* A background step that moves b without writing a record or touching the lock.
LEMMA QuietStep ==
    ASSUME IInv, NEW b \in Background, NEW label \in BackgroundPc,
           pc[b] \notin WritingPc, pc[b] \notin LockedPc, label \notin LockedPc,
           label \notin {"alarming", "alarmed"}, pc' = [pc EXCEPT ![b] = label],
           UNCHANGED <<lock, late, redis, cache, pipe, old>>,
           UNCHANGED at \/ at' = [at EXCEPT ![b] = None],
           phone' \in [Slot -> SlotRecord],
           todo' \in [Background -> SUBSET [node : Node, phone : Slot \cup {None}]],
           \A c \in Background : \A x \in todo'[c] : redis[x.node] # None
    PROVE  IInv'
  <1>1. b \in Actor /\ b \notin Job
    BY BackgroundActors
  <1>2. StoreOK' /\ PipeOwned' /\ WorkKnown'
    <2>1. \A c \in Actor : at'[c] = at[c] \/ at'[c] = None
      BY DEF IInv, ControlOK
    <2>2. QED
      BY <1>1, <2>1, NoWriteStep
  <1>3. ControlOK'
    <2>1. \A t \in Job : pc'[t] = pc[t] /\ at'[t] = at[t]
      BY <1>1 DEF IInv, ControlOK, Actor
    <2>2. pc'["health"] \in {"alarming", "alarmed"} => at'["health"] # None
      BY <1>1, BackgroundActors DEF IInv, ControlOK, Actor, Background
    <2>3. QED
      BY <1>1, <2>1, <2>2 DEF IInv, ControlOK
  <1>4. RestOK'
    BY DEF IInv, RestOK
  <1>5. LeaseExclusive'
    BY <1>1, KeepLock DEF IInv
  <1>6. QED
    BY <1>2, <1>3, <1>4, <1>5 DEF IInv

\* expireOld leaves slot records.
LEMMA ExpireOldTyped ==
    ASSUME phone \in [Slot -> SlotRecord], ExpireOld PROVE phone' \in [Slot -> SlotRecord]
  BY DEF ExpireOld, SlotRecord

\* Records on the way to the sweep's snapshot exist.
LEMMA CachedKnown ==
    ASSUME IInv
    PROVE  /\ \A n \in Cached : n \in Node /\ redis[n] # None /\ cache[n] \in CleanRecord
           /\ IdleTooLong \subseteq Cached
           /\ \A S : InState(S) \subseteq Cached
  BY DEF IInv, StoreOK, Cached, InState, IdleTooLong

\* Every step of the idle-release sweep.
LEMMA SweepStep ==
    ASSUME IInv,
           SweepRuns \/ \E n \in Node : SweepStarts(n) \/ SweepContinues(n)
    PROVE  IInv'
  <1> DEFINE Items == [node : Node, phone : Slot \cup {None}]
  <1>1. "sweep" \in Background /\ "sweep" \in Actor /\ "sweep" \notin Job
    BY BackgroundActors DEF Background
  <1>2. /\ todo \in [Background -> SUBSET Items]
        /\ \A b \in Background : \A x \in todo[b] : redis[x.node] # None
        /\ phone \in [Slot -> SlotRecord]
    BY DEF IInv, ControlOK, WorkKnown, RestOK
  <1>3. ASSUME NEW n \in Node, SweepStarts(n) PROVE IInv'
    <2>1. n \in Cached /\ redis[n] # None
      BY <1>3, CachedKnown DEF SweepStarts
    <2>2. /\ todo' \in [Background -> SUBSET Items]
          /\ \A b \in Background : \A x \in todo'[b] : redis[x.node] # None
      BY <1>1, <1>2, <1>3, CachedKnown DEF SweepStarts
    <2>3. QED
      BY <1>3, <2>1, <2>2, ReleaseStep DEF SweepStarts
  <1>4. ASSUME NEW n \in Node, SweepContinues(n) PROVE IInv'
    <2>1. redis[n] # None
      BY <1>1, <1>2, <1>4 DEF SweepContinues
    <2>2. /\ todo' \in [Background -> SUBSET Items]
          /\ \A b \in Background : \A x \in todo'[b] : redis[x.node] # None
      BY <1>1, <1>2, <1>4 DEF SweepContinues
    <2>3. QED
      BY <1>4, <2>1, <2>2, ReleaseStep DEF SweepContinues
  <1>5. CASE SweepFindsNone
    <2>1. phone' \in [Slot -> SlotRecord]
      BY <1>2, <1>5, ExpireOldTyped DEF SweepFindsNone
    <2>2. UNCHANGED <<lock, late, redis, cache, pipe, old, pc, at, todo>>
      BY <1>5 DEF SweepFindsNone
    <2>3. QED
      BY <2>1, <2>2 DEF IInv, StoreOK, PipeOwned, ControlOK, WorkKnown, RestOK,
                        LeaseExclusive, InsideLock
  <1>6. CASE SweepThrows
    <2>1. /\ todo' \in [Background -> SUBSET Items]
          /\ \A b \in Background : \A x \in todo'[b] : redis[x.node] # None
      BY <1>1, <1>2, <1>6 DEF SweepThrows
    <2>2. QED
      BY <1>1, <1>2, <1>6, <2>1, QuietStep
         DEF SweepThrows, Goto, WritingPc, LockedPc, BackgroundPc
  <1>7. CASE SweepEnds
    <2>1. phone' \in [Slot -> SlotRecord]
      BY <1>2, <1>7, ExpireOldTyped DEF SweepEnds
    <2>2. QED
      BY <1>1, <1>2, <1>7, <2>1, QuietStep
         DEF SweepEnds, Goto, WritingPc, LockedPc, BackgroundPc
  <1>8. CASE ReleaseReturns("sweep")
    BY <1>1, <1>8, LeaveStep DEF ReleaseReturns, Goto
  <1>9. QED
    BY <1>3, <1>4, <1>5, <1>6, <1>7, <1>8 DEF SweepRuns

\* Every step of the terminate handler.
LEMMA TerminateStep ==
    ASSUME IInv,
           (\E c \in Job : TerminateStarts(c)) \/ TerminateReleases \/ TerminateReturns
    PROVE  IInv'
  <1> DEFINE Items == [node : Node, phone : Slot \cup {None}]
  <1> DEFINE b == "terminate"
  <1>1. b \in Background /\ b \in Actor /\ b \notin Job /\ b # "health"
    BY BackgroundActors DEF Background
  <1>2. /\ todo \in [Background -> SUBSET Items]
        /\ \A c \in Background : \A x \in todo[c] : redis[x.node] # None
    BY DEF IInv, ControlOK, WorkKnown
  <1>3. ASSUME NEW c \in Job, TerminateStarts(c) PROVE IInv'
    <2>1. /\ pc[b] = "resting" /\ TryLock(b) /\ pc' = [pc EXCEPT ![b] = "terminating"]
          /\ UNCHANGED <<late, redis, cache, pipe, phone, old, at>>
      BY <1>3 DEF TerminateStarts, Goto
    <2>2. \A n \in Cached : [node |-> n, phone |-> cache[n].phone] \in Items
      BY CachedKnown DEF CleanRecord, Record
    <2>3. /\ todo' \in [Background -> SUBSET Items]
          /\ \A d \in Background : \A x \in todo'[d] : redis[x.node] # None
      BY <1>1, <1>2, <1>3, <2>2, CachedKnown DEF TerminateStarts
    <2>4. StoreOK' /\ PipeOwned' /\ WorkKnown'
      <3>1. pc[b] \notin WritingPc
        BY <2>1 DEF WritingPc
      <3>2. QED
        BY <1>1, <2>1, <2>3, <3>1, NoWriteStep
    <2>5. ControlOK'
      BY <1>1, <2>1, <2>3 DEF IInv, ControlOK, BackgroundPc
    <2>6. RestOK'
      BY <1>1, <2>1 DEF IInv, RestOK, TryLock
    <2>7. LeaseExclusive'
      BY <1>1, <2>1, TakeLock DEF IInv, LockedPc
    <2>8. QED
      BY <2>4, <2>5, <2>6, <2>7 DEF IInv
  <1>4. CASE TerminateReleases
    <2>1. PICK x \in todo[b] :
            /\ FreeSlot(x.phone)
            /\ Write(b, x.node, Cleared(x.node))
            /\ old' = old \ {x.node}
            /\ todo' = [todo EXCEPT ![b] = @ \ {x}]
      BY <1>4 DEF TerminateReleases
    <2>2. /\ pc[b] = "terminating" /\ pc' = [pc EXCEPT ![b] = "freeing"]
          /\ UNCHANGED <<lock, late, at>>
      BY <1>4 DEF TerminateReleases, Goto
    <2>3. x \in Items /\ redis[x.node] # None
      BY <1>1, <1>2
    <2>4. Cleared(x.node) \in CleanRecord
      BY <2>3, WrittenRecords DEF IInv
    <2>5. /\ todo' \in [Background -> SUBSET Items]
          /\ \A d \in Background : \A y \in todo'[d] : redis[y.node] # None
      BY <1>1, <1>2, <2>1
    <2>6. StoreOK' /\ PipeOwned' /\ WorkKnown'
      <3>1. at' \in [Actor -> Node \cup {None}] /\ \A d \in Actor : at'[d] = at[d]
        BY <2>2 DEF IInv, ControlOK
      <3>2. "freeing" \in WritingPc /\ pc[b] \notin WritingPc
        BY <2>2 DEF WritingPc
      <3>3. x.node \in Node
        BY <2>3
      <3>4. QED
        BY <1>1, <2>1, <2>2, <2>4, <2>5, <3>1, <3>2, <3>3, WriteStep
    <2>7. ControlOK'
      BY <1>1, <2>2, <2>5 DEF IInv, ControlOK, BackgroundPc
    <2>8. RestOK'
      BY <2>1, <2>2, <2>3, SlotOps DEF IInv, RestOK
    <2>9. LeaseExclusive'
      BY <1>1, <2>2, KeepLock DEF IInv, LockedPc
    <2>10. QED
      BY <2>6, <2>7, <2>8, <2>9 DEF IInv
  <1>5. CASE TerminateReturns
    BY <1>1, <1>5, LeaveStep DEF TerminateReturns, Goto
  <1>6. QED
    BY <1>3, <1>4, <1>5

\* Every step of a health pass, which writes records without the lock.
LEMMA HealthStep ==
    ASSUME IInv, HealthPassStarts \/ AppliesResult \/ OnUnhealthy \/ HealthPassEnds
    PROVE  IInv'
  <1> DEFINE Items == [node : Node, phone : Slot \cup {None}]
  <1> DEFINE h == "health"
  <1>1. h \in Background /\ h \in Actor /\ h \notin Job
    BY BackgroundActors DEF Background
  <1>2. /\ todo \in [Background -> SUBSET Items]
        /\ \A b \in Background : \A x \in todo[b] : redis[x.node] # None
        /\ at \in [Actor -> Node \cup {None}]
    BY DEF IInv, ControlOK, WorkKnown
  <1>3. ASSUME NEW n \in Node, redis[n] # None, NEW rec \in CleanRecord,
               Write(h, n, rec), NEW label \in {"probing", "alarming", "marking"},
               pc[h] \in {"checking", "alarmed"}, pc' = [pc EXCEPT ![h] = label],
               UNCHANGED at \/ at' = [at EXCEPT ![h] = n],
               label = "alarming" => at'[h] # None,
               todo' \in [Background -> SUBSET Items],
               \A b \in Background : \A x \in todo'[b] : redis[x.node] # None,
               UNCHANGED <<lock, late, phone, old>>
        PROVE  IInv'
    <2>1. StoreOK' /\ PipeOwned' /\ WorkKnown'
      <3>1. at' \in [Actor -> Node \cup {None}] /\ \A b \in Actor : at'[b] = at[b] \/ at'[b] = n
        BY <1>2, <1>3
      <3>2. label \in WritingPc /\ pc[h] \notin WritingPc
        BY <1>3 DEF WritingPc
      <3>3. QED
        BY <1>1, <1>3, <3>1, <3>2, WriteStep
    <2>2. ControlOK'
      <3>1. \A t \in Job : pc'[t] = pc[t] /\ at'[t] = at[t]
        BY <1>1, <1>2, <1>3 DEF IInv, ControlOK, Actor
      <3>2. QED
        BY <1>1, <1>2, <1>3, <3>1 DEF IInv, ControlOK, BackgroundPc
    <2>3. RestOK'
      BY <1>3 DEF IInv, RestOK
    <2>4. LeaseExclusive'
      <3>1. label \in LockedPc <=> pc[h] \in LockedPc
        BY <1>3 DEF LockedPc
      <3>2. QED
        BY <1>1, <1>3, <3>1, KeepLock DEF IInv
    <2>5. QED
      BY <2>1, <2>2, <2>3, <2>4 DEF IInv
  <1>4. CASE HealthPassStarts
    <2>1. /\ todo' \in [Background -> SUBSET Items]
          /\ \A b \in Background : \A x \in todo'[b] : redis[x.node] # None
      BY <1>1, <1>2, <1>4, CachedKnown DEF HealthPassStarts
    <2>2. QED
      BY <1>1, <1>4, <2>1, QuietStep
         DEF HealthPassStarts, Goto, WritingPc, LockedPc, BackgroundPc, IInv, RestOK
  <1>5. CASE AppliesResult
    <2>1. PICK x \in todo[h], v \in Verdicts :
            /\ Write(h, x.node, [Current(x.node) EXCEPT !.health = v])
            /\ at' = [at EXCEPT ![h] = x.node]
            /\ todo' = [todo EXCEPT ![h] = @ \ {x}]
            /\ pc' = [pc EXCEPT ![h] = IF v = "unhealthy" THEN "alarming" ELSE "probing"]
      BY <1>5 DEF AppliesResult, Goto
    <2>2. x.node \in Node /\ redis[x.node] # None /\ x.node # None
      BY <1>1, <1>2, ConstantsAssumption
    <2>3. [Current(x.node) EXCEPT !.health = v] \in CleanRecord
      BY <2>2, WrittenRecords, ConstantsAssumption DEF IInv, Healths
    <2>4. /\ todo' \in [Background -> SUBSET Items]
          /\ \A b \in Background : \A y \in todo'[b] : redis[y.node] # None
      BY <1>1, <1>2, <2>1
    <2>5. at'[h] # None
      BY <1>1, <1>2, <2>1, <2>2
    <2>6. pc[h] = "checking" /\ UNCHANGED <<lock, late, phone, old>>
      BY <1>5 DEF AppliesResult
    <2>7. QED
      BY <1>3, <2>1, <2>2, <2>3, <2>4, <2>5, <2>6
  <1>6. CASE OnUnhealthy
    <2>1. pc[h] = "alarmed" /\ UNCHANGED <<lock, late, phone, old, at, todo>>
      BY <1>6 DEF OnUnhealthy
    <2>2. at[h] \in Node /\ redis[at[h]] # None
      BY <1>1, <1>2, <2>1 DEF IInv, ControlOK, WorkKnown
    <2>3. CASE pc' = [pc EXCEPT ![h] = "checking"] /\ UNCHANGED <<redis, cache, pipe>>
      BY <1>1, <1>2, <2>1, <2>3, QuietStep
         DEF WritingPc, LockedPc, BackgroundPc, IInv, RestOK
    <2>4. CASE /\ Write(h, at[h], [Current(at[h]) EXCEPT !.state = "unhealthy",
                                                         !.health = "unhealthy"])
               /\ pc' = [pc EXCEPT ![h] = "marking"]
      <3>1. [Current(at[h]) EXCEPT !.state = "unhealthy", !.health = "unhealthy"]
              \in CleanRecord
        BY <2>2, WrittenRecords DEF IInv
      <3>2. QED
        BY <1>2, <1>3, <2>1, <2>2, <2>4, <3>1
    <2>5. QED
      BY <1>6, <2>3, <2>4 DEF OnUnhealthy, Goto
  <1>7. CASE HealthPassEnds
    BY <1>1, <1>2, <1>7, QuietStep
       DEF HealthPassEnds, Goto, WritingPc, LockedPc, BackgroundPc, IInv, RestOK
  <1>8. QED
    BY <1>4, <1>5, <1>6, <1>7

\* A step of the resynchronisation: the cache is emptied, or takes Redis' record.
LEMMA SyncStep == ASSUME IInv, SyncClears \/ SyncLoads \/ SyncEnds PROVE IInv'
  <1> DEFINE Items == [node : Node, phone : Slot \cup {None}]
  <1> DEFINE b == "board"
  <1>1. b \in Background /\ b \in Actor /\ b \notin Job /\ b # "health"
    BY BackgroundActors DEF Background
  <1>2. /\ todo \in [Background -> SUBSET Items]
        /\ \A c \in Background : \A x \in todo[c] : redis[x.node] # None
    BY DEF IInv, ControlOK, WorkKnown
  <1>3. CASE SyncEnds
    BY <1>1, <1>2, <1>3, QuietStep
       DEF SyncEnds, Goto, WritingPc, LockedPc, BackgroundPc, IInv, RestOK
  <1>4. ASSUME SyncClears \/ SyncLoads
        PROVE  IInv'
    <2>1. /\ UNCHANGED <<lock, late, redis, pipe, phone, old, at>>
          /\ pc[b] \in {"resting", "loading"} /\ pc' = [pc EXCEPT ![b] = "loading"]
      BY <1>1, <1>4 DEF SyncClears, SyncLoads, Goto, IInv, ControlOK
    <2>2. /\ todo' \in [Background -> SUBSET Items]
          /\ \A c \in Background : \A x \in todo'[c] : redis[x.node] # None
      BY <1>1, <1>2, <1>4 DEF SyncClears, SyncLoads
    <2>3. /\ cache' \in [Node -> CleanRecord \cup {None}]
          /\ \A n \in Node : cache'[n] # None => redis[n] # None
      BY <1>1, <1>4 DEF SyncClears, SyncLoads, IInv, StoreOK
    <2>4. StoreOK'
      BY <2>1, <2>3 DEF IInv, StoreOK
    <2>5. PipeOwned'
      <3>1. \A i \in DOMAIN pipe : pipe[i] \in CleanEntry
        BY DEF IInv, StoreOK
      <3>2. QED
        BY <1>1, <2>1, <3>1 DEF IInv, PipeOwned, ControlOK, CleanEntry, WritingPc
    <2>6. ControlOK'
      BY <1>1, <2>1, <2>2 DEF IInv, ControlOK, BackgroundPc
    <2>7. WorkKnown' /\ RestOK'
      BY <2>1, <2>2 DEF IInv, WorkKnown, RestOK
    <2>8. LeaseExclusive'
      BY <1>1, <2>1, KeepLock DEF IInv, LockedPc
    <2>9. QED
      BY <2>4, <2>5, <2>6, <2>7, <2>8 DEF IInv
  <1>5. QED
    BY <1>3, <1>4

\* Steps of the environment: time, and the process dying.
LEMMA TimeStep ==
    ASSUME IInv,
           LockExpires \/ (\E n \in Node : Age(n)) \/ (\E s \in Slot : SlotLapses(s))
    PROVE  IInv'
  <1>1. UNCHANGED <<redis, cache, pipe, pc, at, todo>>
    BY DEF LockExpires, Age, SlotLapses
  <1>2. StoreOK' /\ PipeOwned' /\ ControlOK' /\ WorkKnown'
    BY <1>1 DEF IInv, StoreOK, PipeOwned, ControlOK, WorkKnown
  <1>3. RestOK'
    <2>1. CASE LockExpires
      BY <2>1 DEF LockExpires, IInv, RestOK
    <2>2. CASE \E n \in Node : Age(n)
      BY <2>2 DEF Age, IInv, RestOK
    <2>3. ASSUME NEW s \in Slot, SlotLapses(s) PROVE RestOK'
      <3>1. /\ phone' = [phone EXCEPT ![s].lapsed = TRUE]
            /\ UNCHANGED <<lock, late, old>>
        BY <2>3 DEF SlotLapses
      <3>2. phone' \in [Slot -> SlotRecord]
        BY <3>1 DEF IInv, RestOK, SlotRecord
      <3>3. QED
        BY <3>1, <3>2 DEF IInv, RestOK
    <2>4. QED
      BY <2>1, <2>2, <2>3
  <1>4. LeaseExclusive'
    BY <1>1, ConstantsAssumption
       DEF LockExpires, Age, SlotLapses, IInv, RestOK, LeaseExclusive, InsideLock
  <1>5. QED
    BY <1>2, <1>3, <1>4 DEF IInv

\* The process dies and restarts with what Redis holds.
LEMMA CrashStep == ASSUME IInv, CrashAndRestart PROVE IInv'
  <1>1. StoreOK' /\ PipeOwned'
    BY DEF CrashAndRestart, IInv, StoreOK, PipeOwned
  <1>2. ControlOK' /\ WorkKnown'
    BY ConstantsAssumption
       DEF CrashAndRestart, Restarted, IInv, ControlOK, WorkKnown, JobPc, BackgroundPc,
           Actor, Background
  <1>3. RestOK'
    BY DEF CrashAndRestart, IInv, RestOK, SlotRecord
  <1>4. LeaseExclusive'
    BY ConstantsAssumption
       DEF CrashAndRestart, Restarted, LeaseExclusive, InsideLock, LockedPc, Actor,
           Background
  <1>5. QED
    BY <1>1, <1>2, <1>3, <1>4 DEF IInv

\* Every step of the engine and of its surroundings keeps IInv.
THEOREM NextIInv == IInv /\ [Next]_vars => IInv'
  <1> SUFFICES ASSUME IInv, [Next]_vars PROVE IInv'
    OBVIOUS
  <1>1. CASE UNCHANGED vars
    BY <1>1 DEF vars, IInv, StoreOK, PipeOwned, ControlOK, WorkKnown, RestOK,
                LeaseExclusive, InsideLock
  <1>2. CASE Flush
    BY <1>2, FlushStep
  <1>3. CASE \E t \in Job : JobStarts(t) \/ JobWork(t)
    BY <1>3, JobStartsStep, JobWorkStep
  <1>4. CASE LockExpires \/ (\E n \in Node : Age(n)) \/ (\E s \in Slot : SlotLapses(s))
    BY <1>4, TimeStep
  <1>5. CASE CrashAndRestart
    BY <1>5, CrashStep
  <1>6. CASE SweepRuns \/ \E n \in Node : SweepStarts(n) \/ SweepContinues(n)
    BY <1>6, SweepStep
  <1>7. CASE (\E c \in Job : TerminateStarts(c)) \/ TerminateReleases \/ TerminateReturns
    BY <1>7, TerminateStep
  <1>8. CASE HealthPassStarts \/ AppliesResult \/ OnUnhealthy \/ HealthPassEnds
    BY <1>8, HealthStep
  <1>9. CASE SyncClears \/ SyncLoads \/ SyncEnds
    BY <1>9, SyncStep
  <1>10. QED
    BY <1>1, <1>2, <1>3, <1>4, <1>5, <1>6, <1>7, <1>8, <1>9 DEF Next

\* IInv holds of every reachable state.
THEOREM Inductive == Spec => []IInv
  BY InitIInv, NextIInv, PTL DEF Spec

----------------------------------------------------------------------------
\* Every variable of the engine keeps its type, whatever is running.
THEOREM TypeCorrect == Spec => []TypeOK
  <1>1. CleanEntry \subseteq PipeEntry
    BY DEF CleanEntry, PipeEntry, CleanRecord
  <1>2. ASSUME IInv PROVE TypeOK
    <2>1. pipe \in Seq(PipeEntry)
      BY <1>1, <1>2 DEF IInv, StoreOK
    <2>2. QED
      BY <1>2, <2>1 DEF TypeOK, IInv, StoreOK, ControlOK, RestOK, CleanRecord
  <1>3. QED
    BY <1>2, Inductive, PTL

\* withLock excludes as long as the TTL lasts, for any number of jobs, with
\* crashes, expiring keys and every background activity.
THEOREM MutualExclusion == Spec => []LeaseExclusive
  <1>1. IInv => LeaseExclusive
    BY DEF IInv
  <1>2. QED
    BY <1>1, Inductive, PTL

\* No record that says idle carries a campaign or a phone, in Redis, in the
\* cache or in flight between them, whichever unlocked writer wrote it.
THEOREM NoIdleRecordCarriesWork == Spec => []IdleRecordIsClean
  <1>1. ASSUME IInv PROVE IdleRecordIsClean
    <2>1. \A r \in CleanRecord \cup {None} : Clean(r)
      BY DEF CleanRecord, Clean
    <2>2. \A n \in Node : Clean(redis[n]) /\ Clean(cache[n])
      BY <1>1, <2>1 DEF IInv, StoreOK
    <2>3. ASSUME NEW i \in DOMAIN pipe PROVE Clean(pipe[i].rec)
      <3>1. pipe[i] \in CleanEntry
        BY <1>1 DEF IInv, StoreOK
      <3>2. QED
        BY <3>1, <2>1 DEF CleanEntry
    <2>4. QED
      BY <2>2, <2>3 DEF IdleRecordIsClean
  <1>2. QED
    BY <1>1, Inductive, PTL

\* Every step sends an upsert, handles the replies of one, restarts the process,
\* or at most drops cache entries and reloads them from Redis.
Reloads ==
    /\ UNCHANGED <<redis, pipe>>
    /\ \A n \in Node : cache'[n] \in {cache[n], None, redis[n]}
Upserts == \E a \in Actor, n \in Node, rec \in Record : Write(a, n, rec)
Reboots == pipe' = <<>> /\ cache' = redis /\ redis' = redis

\* No step touches redis, cache and pipe in any other way.
LEMMA StoreMoves ==
    ASSUME IInv, [Next]_vars PROVE Reloads \/ Upserts \/ Flush \/ Reboots
  <1> DEFINE Sends(a, n) ==
        \E rec \in Record : Write(a, n, rec)
  <1>1. /\ \A a \in Actor, n \in Node : Sends(a, n) => Upserts
        /\ UNCHANGED <<redis, cache, pipe>> => Reloads
        /\ Job \subseteq Actor
        /\ Background \subseteq Actor
    BY DEF Upserts, Reloads, Actor
  <1>2. \A a \in Actor, n \in Node, rec \in CleanRecord : Write(a, n, rec) => Sends(a, n)
    BY RecordNotNone
  <1> HIDE DEF Sends
  <1>3. \A n \in Cached : redis[n] # None
    BY DEF IInv, StoreOK, Cached
  <1>4. ASSUME NEW t \in Job, JobStarts(t) \/ JobWork(t) PROVE Reloads \/ Upserts
    <2>1. \A n \in Node : redis[n] # None /\ Assign(t, n) => Sends(t, n)
      BY <1>1, <1>2, WrittenRecords DEF Assign, Available, IInv
    <2>2. at[t] # None => at[t] \in Node /\ redis[at[t]] # None
      BY <1>1 DEF IInv, ControlOK, WorkKnown
    <2>3. CASE AllocateIdle(t)
      BY <1>1, <1>3, <2>1, <2>3 DEF AllocateIdle, Idle, InState, Cached
    <2>4. CASE AllocateSpawns(t) \/ AllocateNothing(t) \/ AllocateReturns(t)
               \/ FinallyThrows(t) \/ ReleaseReturns(t)
      BY <1>1, <2>4
         DEF AllocateSpawns, AllocateNothing, AllocateReturns, FinallyThrows, ReleaseReturns
    <2>5. CASE SpawnReturns(t)
      <3>1. Fresh \in CleanRecord
        BY NoneIsNoRecord DEF Fresh, CleanRecord, Clean, Record, States, Healths
      <3>2. QED
        BY <1>1, <1>2, <2>5, <3>1 DEF SpawnReturns
    <2>6. CASE AllocateSpawned(t)
      BY <1>1, <2>1, <2>2, <2>6 DEF AllocateSpawned, IInv, ControlOK
    <2>7. CASE Scrape(t) \/ Generate(t) \/ Publish(t) \/ ExecuteFails(t)
      <3>1. /\ pc[t] \in {"leased", "executing", "generated"}
            /\ \E st \in {"busy", "cooling"} : Write(t, at[t], InWorkflow(at[t], st))
        BY <2>7 DEF Scrape, Generate, Publish, ExecuteFails, SetWorkflowState
      <3>2. QED
        BY <1>1, <1>2, <2>2, <3>1, WrittenRecords DEF IInv, ControlOK
    <2>8. CASE Finally(t)
      <3>1. pc[t] = "finally" /\ Write(t, at[t], Cleared(at[t]))
        BY <2>8 DEF Finally, ReleaseNode
      <3>2. QED
        BY <1>1, <1>2, <2>2, <3>1, WrittenRecords DEF IInv, ControlOK
    <2>9. QED
      BY <1>4, <2>3, <2>4, <2>5, <2>6, <2>7, <2>8 DEF JobStarts, JobWork
  <1>5. CASE UNCHANGED vars \/ LockExpires \/ (\E n \in Node : Age(n))
             \/ (\E s \in Slot : SlotLapses(s)) \/ SweepRuns
             \/ (\E c \in Job : TerminateStarts(c)) \/ TerminateReturns
             \/ HealthPassStarts \/ HealthPassEnds \/ SyncEnds
    BY <1>1, <1>5 DEF vars, LockExpires, Age, SlotLapses, SweepRuns, SweepFindsNone,
       SweepThrows, SweepEnds, ReleaseReturns, TerminateStarts, TerminateReturns,
       HealthPassStarts, HealthPassEnds, SyncEnds
  <1>6. CASE \E n \in Node : SweepStarts(n) \/ SweepContinues(n)
    <2>1. PICK n \in Node : ReleaseNode("sweep", n) /\ redis[n] # None
      BY <1>3, <1>6 DEF SweepStarts, SweepContinues, IdleTooLong, InState, IInv, WorkKnown,
                        Background
    <2>2. QED
      BY <1>1, <1>2, <2>1, WrittenRecords DEF ReleaseNode, IInv, Background
  <1>7. CASE TerminateReleases
    <2>1. PICK x \in todo["terminate"] : Write("terminate", x.node, Cleared(x.node))
      BY <1>7 DEF TerminateReleases
    <2>2. x.node \in Node /\ redis[x.node] # None
      BY <2>1 DEF IInv, ControlOK, WorkKnown, Background
    <2>3. QED
      BY <1>1, <1>2, <2>1, <2>2, WrittenRecords DEF IInv, Background
  <1>8. CASE AppliesResult
    <2>1. PICK x \in todo["health"], v \in Verdicts :
            Write("health", x.node, [Current(x.node) EXCEPT !.health = v])
      BY <1>8 DEF AppliesResult
    <2>2. x.node \in Node /\ redis[x.node] # None /\ v \in Healths
      BY <2>1, ConstantsAssumption DEF IInv, ControlOK, WorkKnown, Background, Healths
    <2>3. QED
      BY <1>1, <1>2, <2>1, <2>2, WrittenRecords DEF IInv, Background
  <1>9. CASE OnUnhealthy
    <2>1. "health" \in Actor /\ at["health"] \in Node /\ redis[at["health"]] # None
      BY <1>1, <1>9 DEF OnUnhealthy, IInv, ControlOK, WorkKnown, Background
    <2>2. QED
      BY <1>1, <1>2, <1>9, <2>1, WrittenRecords DEF OnUnhealthy, IInv
  <1>10. CASE SyncClears \/ SyncLoads
    BY <1>10 DEF SyncClears, SyncLoads, IInv, StoreOK, Reloads
  <1>11. CASE CrashAndRestart
    BY <1>11 DEF CrashAndRestart, Reboots
  <1>12. QED
    BY <1>4, <1>5, <1>6, <1>7, <1>8, <1>9, <1>10, <1>11 DEF Next

\* Every step keeps the cache within one upsert of Redis.
LEMMA CoherentStep == IInv /\ CacheCoherent /\ [Next]_vars => CacheCoherent'
  <1> SUFFICES ASSUME IInv, CacheCoherent, [Next]_vars PROVE CacheCoherent'
    OBVIOUS
  <1> /\ pipe \in Seq(CleanEntry)
      /\ redis \in [Node -> CleanRecord \cup {None}]
      /\ cache \in [Node -> CleanRecord \cup {None}]
    BY DEF IInv, StoreOK
  <1>1. CASE Reloads
    BY <1>1 DEF Reloads, CacheCoherent
  <1>2. CASE Reboots
    BY <1>2 DEF Reboots, CacheCoherent
  <1>3. CASE Upserts
    <2>1. PICK a \in Actor, n \in Node, rec \in Record : Write(a, n, rec)
      BY <1>3 DEF Upserts
    <2> DEFINE e == [by |-> a, node |-> n, rec |-> rec]
    <2>2. /\ pipe' = Append(pipe, e)
          /\ redis' = [redis EXCEPT ![n] = rec]
          /\ cache' = [cache EXCEPT ![n] = Current(n)]
      BY <2>1 DEF Write
    <2>3. /\ DOMAIN pipe' = 1..Len(pipe) + 1 /\ DOMAIN pipe = 1..Len(pipe)
          /\ Len(pipe) \in Nat
          /\ pipe'[Len(pipe) + 1] = e
          /\ \A i \in DOMAIN pipe : pipe'[i] = pipe[i]
      BY <2>2
    <2>4. e.node = n /\ e.rec = rec
      OBVIOUS
    <2> HIDE DEF e
    <2>5. ASSUME NEW m \in Node, \A i \in DOMAIN pipe' : pipe'[i].node # m
          PROVE  cache'[m] \in {None, redis'[m]}
      BY <2>2, <2>3, <2>4, <2>5 DEF CacheCoherent
    <2>6. ASSUME NEW m \in Node, NEW i \in DOMAIN pipe', pipe'[i].node = m,
                 \A j \in DOMAIN pipe' : j > i => pipe'[j].node # m
          PROVE  redis'[m] = pipe'[i].rec
      <3>1. CASE m = n
        <4>1. i = Len(pipe) + 1
          BY <2>3, <2>4, <2>6, <3>1
        <4>2. QED
          BY <2>2, <2>3, <2>4, <3>1, <4>1
      <3>2. CASE m # n
        <4>1. i \in DOMAIN pipe /\ pipe[i].node = m
          BY <2>3, <2>4, <2>6, <3>2
        <4>2. \A j \in DOMAIN pipe : j > i => pipe[j].node # m
          BY <2>3, <2>6
        <4>3. redis[m] = pipe[i].rec
          BY <4>1, <4>2 DEF CacheCoherent
        <4>4. QED
          BY <2>2, <2>3, <3>2, <4>1, <4>3
      <3>3. QED
        BY <3>1, <3>2
    <2>7. QED
      BY <2>5, <2>6 DEF CacheCoherent
  <1>4. CASE Flush
    <2> DEFINE w == Head(pipe)
    <2>1. /\ pipe # <<>> /\ pipe' = Tail(pipe)
          /\ cache' = [cache EXCEPT ![w.node] = w.rec]
          /\ redis' = redis
      BY <1>4 DEF Flush
    <2>2. /\ 1 \in DOMAIN pipe /\ w = pipe[1]
          /\ DOMAIN pipe = 1..Len(pipe) /\ DOMAIN pipe' = 1..Len(pipe) - 1
          /\ Len(pipe) \in Nat
          /\ \A i \in DOMAIN pipe' : pipe'[i] = pipe[i + 1]
      BY <2>1
    <2> HIDE DEF w
    <2>3. \A j \in DOMAIN pipe : j > 1 => j - 1 \in DOMAIN pipe' /\ pipe[j] = pipe'[j - 1]
      BY <2>2
    <2>4. ASSUME NEW m \in Node, \A i \in DOMAIN pipe' : pipe'[i].node # m
          PROVE  cache'[m] \in {None, redis'[m]}
      <3>1. \A j \in DOMAIN pipe : j > 1 => pipe[j].node # m
        BY <2>3, <2>4
      <3>2. CASE w.node = m
        <4>1. redis[m] = pipe[1].rec
          BY <2>2, <3>1, <3>2 DEF CacheCoherent
        <4>2. QED
          BY <2>1, <2>2, <3>2, <4>1
      <3>3. CASE w.node # m
        <4>1. \A j \in DOMAIN pipe : pipe[j].node # m
          BY <2>2, <3>1, <3>3
        <4>2. QED
          BY <2>1, <3>3, <4>1 DEF CacheCoherent
      <3>4. QED
        BY <3>2, <3>3
    <2>5. ASSUME NEW m \in Node, NEW i \in DOMAIN pipe', pipe'[i].node = m,
                 \A j \in DOMAIN pipe' : j > i => pipe'[j].node # m
          PROVE  redis'[m] = pipe'[i].rec
      <3>1. i + 1 \in DOMAIN pipe /\ pipe[i + 1].node = m /\ i \in Nat
        BY <2>2, <2>5
      <3>2. \A j \in DOMAIN pipe : j > i + 1 => pipe[j].node # m
        BY <2>2, <2>3, <2>5, <3>1
      <3>3. redis[m] = pipe[i + 1].rec
        BY <3>1, <3>2 DEF CacheCoherent
      <3>4. QED
        BY <2>1, <2>2, <3>3
    <2>6. QED
      BY <2>4, <2>5 DEF CacheCoherent
  <1>5. QED
    BY <1>1, <1>2, <1>3, <1>4, StoreMoves

\* The cache never drifts away from Redis for good: this rests on one connection
\* answering in order, and holds whatever unlocked writers and crashes there are.
THEOREM CacheFollowsRedis == Spec => []CacheCoherent
  <1>1. Init => CacheCoherent
    BY DEF Init, CacheCoherent
  <1>2. QED
    BY <1>1, Inductive, CoherentStep, PTL DEF Spec

=============================================================================
