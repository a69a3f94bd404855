-------------------------- MODULE TeamInboxProofs --------------------------
(* Invariants of TeamInbox, for all tasks, dependencies, workers and bounds. *)
EXTENDS TeamInbox, FiniteSetTheorems, TLAPS

USE DEF Status

(***************************************************************************)
(* The inductive invariant.                                                 *)
(***************************************************************************)

\* A worker at a task that was not taken back is the one the row names, and so
\* is one that is unsure of its report.
OwnersWork ==
    \A w \in Worker :
        /\ \A t \in doing[w] \ takenBack : status[t] = "running" /\ owner[t] = w
        /\ \A t \in unsure[w] \ takenBack : status[t] \in {"completed", "failed"} /\ owner[t] = w

\* The attempts a task may have had when it waits for the next, or does not; and
\* what is in the inbox, or was, has been put there.
AttemptsLeft ==
    /\ \A t \in Task :
        /\ attempts[t] # 0 => attempts[t] < MaxAttempts + enqueues
        /\ status[t] = "queued" => attempts[t] + 1 < MaxAttempts + enqueues
        /\ status[t] # "absent" => enqueues > 0
    /\ \A w \in Worker : doing[w] \cup unsure[w] # {} => enqueues > 0

IInv == TypeOK /\ OwnersWork /\ AttemptsLeft /\ ChainHeld

----------------------------------------------------------------------------

\* Nothing has happened to an empty inbox.
LEMMA InitHolds == Init => IInv
BY InboxAssumption
   DEF Init, IInv, TypeOK, Running, OwnersWork, AttemptsLeft, ChainHeld, Busy

\* Enqueuing, to the end or not, keeps the invariant.
LEMMA EnqueueHolds == ASSUME IInv, NEW S \in SUBSET Task, Enqueue(S) PROVE IInv'
<1> USE DEF IInv, Enqueue
<1>1. TypeOK'
  BY InboxAssumption DEF TypeOK, Running
<1>2. OwnersWork'
  <2> SUFFICES ASSUME NEW w \in Worker, NEW t \in (doing[w] \cup unsure[w]) \ takenBack'
               PROVE  status'[t] = status[t] /\ owner'[t] = owner[t] /\ t \notin takenBack
    BY DEF OwnersWork
  <2>1. t \in Busy /\ t \in Task
    BY DEF TypeOK, Busy
  <2>2. t \notin S
    BY <2>1
  <2> QED BY <2>1, <2>2
<1>3. AttemptsLeft'
  BY InboxAssumption DEF TypeOK, AttemptsLeft
<1>4. ChainHeld'
  <2> SUFFICES ASSUME NEW t \in Task \ takenBack', NEW d \in Depends[t],
                      status'[t] \in {"running", "completed"} \/ t \in Busy'
               PROVE  status'[d] = "completed" \/ d \in takenBack'
    BY DEF ChainHeld
  <2>1. Busy' = Busy
    BY DEF Busy
  <2>2. t \notin S /\ t \notin takenBack
    BY <2>1
  <2>3. S # Task
    BY <2>2
  <2>4. status[d] = "completed" \/ d \in takenBack
    BY <2>1, <2>2 DEF ChainHeld
  <2>5. d \in Task
    BY InboxAssumption
  <2> QED BY <2>3, <2>4, <2>5 DEF Completed
<1> QED BY <1>1, <1>2, <1>3, <1>4

\* A claim keeps it: it takes tasks that nobody is at.
LEMMA ClaimHolds == ASSUME IInv, NEW w \in Worker, NEW S \in SUBSET Task, Claim(w, S) PROVE IInv'
<1> USE DEF IInv, Claim
<1>0. \A t \in S : status[t] = "queued" /\ \A d \in Depends[t] : status[d] = "completed"
  BY DEF Ready
<1>1. TypeOK'
  BY InboxAssumption DEF TypeOK, Running
<1>2. OwnersWork'
  <2>1. ASSUME NEW v \in Worker, NEW t \in doing'[v] \ takenBack'
        PROVE  status'[t] = "running" /\ owner'[t] = v
    <3>1. t \in Task
      BY DEF TypeOK
    <3>2. CASE t \in doing[v]
      BY <1>0, <3>1, <3>2 DEF OwnersWork
    <3>3. CASE t \notin doing[v]
      BY <3>1, <3>3 DEF TypeOK
    <3> QED BY <3>2, <3>3
  <2>2. ASSUME NEW v \in Worker, NEW t \in unsure[v] \ takenBack
        PROVE  status'[t] \in {"completed", "failed"} /\ owner'[t] = v
    BY <1>0, <2>2 DEF OwnersWork, TypeOK
  <2> QED BY <2>1, <2>2 DEF OwnersWork
<1>3. AttemptsLeft'
  BY <1>0, InboxAssumption DEF TypeOK, AttemptsLeft
<1>4. ChainHeld'
  <2> SUFFICES ASSUME NEW t \in Task \ takenBack', NEW d \in Depends[t],
                      status'[t] \in {"running", "completed"} \/ t \in Busy'
               PROVE  status'[d] = "completed" \/ d \in takenBack'
    BY DEF ChainHeld
  <2>1. d \in Task
    BY InboxAssumption
  <2>2. t \in S \/ status[t] \in {"running", "completed"} \/ t \in Busy
    BY DEF Busy, TypeOK
  <2> QED BY <1>0, <2>1, <2>2 DEF ChainHeld
<1> QED BY <1>1, <1>2, <1>3, <1>4

\* A report keeps it, repeated or not: it concerns tasks the worker is at, or was.
LEMMA AckHolds ==
    ASSUME IInv, NEW w \in Worker, NEW S \in SUBSET Task, NEW s \in {"completed", "failed"},
           NEW replied \in BOOLEAN, Ack(w, S, s, replied)
    PROVE  IInv'
<1> USE DEF IInv, Ack, Marked
<1>0. \A t \in S : t \in doing[w] \/ t \in unsure[w]
  OBVIOUS
<1>1. TypeOK'
  BY InboxAssumption DEF TypeOK, Running
<1>2. OwnersWork'
  <2>1. ASSUME NEW v \in Worker, NEW t \in doing'[v] \cup unsure'[v], t \notin S
        PROVE  /\ t \in Task /\ status'[t] = status[t] /\ owner'[t] = owner[t]
               /\ t \in doing'[v] => t \in doing[v]
               /\ t \in unsure'[v] => t \in unsure[v]
    BY <2>1 DEF TypeOK
  <2>2. ASSUME NEW v \in Worker, NEW t \in S, t \notin takenBack, t \in doing'[v] \cup unsure'[v]
        PROVE  v = w
    <3> SUFFICES ASSUME v # w PROVE FALSE
      OBVIOUS
    <3>1. t \in doing[v] \cup unsure[v]
      BY <2>2 DEF TypeOK
    <3> QED BY <1>0, <2>2, <3>1 DEF OwnersWork
  <2>3. ASSUME NEW t \in S PROVE t \notin doing'[w] /\ status'[t] = s /\ owner'[t] = w
    BY <2>3 DEF TypeOK
  <2>4. takenBack \subseteq takenBack'
    OBVIOUS
  <2>5. ASSUME NEW v \in Worker, NEW t \in doing'[v] \ takenBack'
        PROVE  status'[t] = "running" /\ owner'[t] = v
    <3>1. t \notin S
      BY <2>2, <2>3, <2>4, <2>5
    <3> QED BY <2>1, <2>4, <2>5, <3>1 DEF OwnersWork
  <2>6. ASSUME NEW v \in Worker, NEW t \in unsure'[v] \ takenBack'
        PROVE  status'[t] \in {"completed", "failed"} /\ owner'[t] = v
    <3>1. CASE t \in S
      BY <2>2, <2>3, <2>4, <2>6, <3>1
    <3>2. CASE t \notin S
      BY <2>1, <2>4, <2>6, <3>2 DEF OwnersWork
    <3> QED BY <3>1, <3>2
  <2> QED BY <2>5, <2>6 DEF OwnersWork
<1>3. AttemptsLeft'
  <2>1. \A t \in Task : status'[t] = "queued" => status[t] = "queued"
    BY DEF TypeOK
  <2>2. \A t \in S : enqueues > 0
    BY <1>0 DEF AttemptsLeft
  <2>3. \A v \in Worker : doing'[v] \cup unsure'[v] # {} => enqueues > 0
    BY <2>2 DEF AttemptsLeft, TypeOK
  <2> QED BY <2>1, <2>2, <2>3 DEF AttemptsLeft, TypeOK
<1>4. ChainHeld'
  <2> SUFFICES ASSUME NEW t \in Task \ takenBack', NEW d \in Depends[t],
                      status'[t] \in {"running", "completed"} \/ t \in Busy'
               PROVE  status'[d] = "completed" \/ d \in takenBack'
    BY DEF ChainHeld
  <2>1. d \in Task
    BY InboxAssumption
  <2>2. status[t] \in {"running", "completed"} \/ t \in Busy
    BY DEF Busy, TypeOK
  <2>3. status[d] = "completed" \/ d \in takenBack
    BY <2>2 DEF ChainHeld
  <2>4. d \in S /\ status[d] = "completed" /\ s = "failed" => d \in takenBack'
    BY <2>1 DEF Completed
  <2> QED BY <2>1, <2>3, <2>4
<1> QED BY <1>1, <1>2, <1>3, <1>4

\* A worker that drops its tasks keeps it.
LEMMA DropHolds == ASSUME IInv, NEW w \in Worker, Drop(w) PROVE IInv'
<1> USE DEF IInv, Drop
<1>1. TypeOK'
  BY InboxAssumption DEF TypeOK, Running
<1>2. OwnersWork'
  BY DEF TypeOK, OwnersWork
<1>3. AttemptsLeft'
  BY DEF AttemptsLeft
<1>4. ChainHeld'
  <2>1. Busy' \subseteq Busy
    BY DEF Busy, TypeOK
  <2> QED BY <2>1 DEF ChainHeld
<1> QED BY <1>1, <1>2, <1>3, <1>4

\* Taking back what is stale keeps it.
LEMMA RequeueHolds == ASSUME IInv, NEW S \in SUBSET Task, RequeueStale(S) PROVE IInv'
<1> USE DEF IInv, RequeueStale, Spent
<1>0. \A t \in S : status[t] = "running"
  BY DEF Running
<1>1. TypeOK'
  BY InboxAssumption DEF TypeOK, Running
<1>2. OwnersWork'
  <2> SUFFICES ASSUME NEW w \in Worker, NEW t \in (doing[w] \cup unsure[w]) \ takenBack'
               PROVE  status'[t] = status[t] /\ owner'[t] = owner[t] /\ t \notin takenBack
    BY DEF OwnersWork
  <2>1. t \in Busy /\ t \in Task
    BY DEF TypeOK, Busy
  <2>2. t \notin S
    BY <2>1
  <2> QED BY <2>1, <2>2
<1>3. AttemptsLeft'
  BY <1>0, InboxAssumption DEF TypeOK, AttemptsLeft
<1>4. ChainHeld'
  <2> SUFFICES ASSUME NEW t \in Task \ takenBack', NEW d \in Depends[t],
                      status'[t] \in {"running", "completed"} \/ t \in Busy'
               PROVE  status'[d] = "completed" \/ d \in takenBack'
    BY DEF ChainHeld
  <2>1. d \in Task
    BY InboxAssumption
  <2>2. Busy' = Busy
    BY DEF Busy
  <2>3. status[t] \in {"running", "completed"} \/ t \in Busy
    BY <2>2
  <2>4. status[d] = "completed" \/ d \in takenBack
    BY <2>3 DEF ChainHeld
  <2> QED BY <1>0, <2>1, <2>4
<1> QED BY <1>1, <1>2, <1>3, <1>4

\* Every step keeps the invariant.
LEMMA StepHolds == IInv /\ [Next]_vars => IInv'
<1> SUFFICES ASSUME IInv, [Next]_vars PROVE IInv'
  OBVIOUS
<1>1. CASE UNCHANGED vars
  BY <1>1 DEF vars, IInv, TypeOK, Running, OwnersWork, AttemptsLeft, ChainHeld, Busy
<1> QED
  BY <1>1, EnqueueHolds, ClaimHolds, AckHolds, DropHolds, RequeueHolds DEF Next

\* The invariant always holds.
THEOREM Invariance == Spec => []IInv
BY InitHolds, StepHolds, PTL DEF Spec

----------------------------------------------------------------------------

\* Every variable keeps its type.
THEOREM InboxTypes == Spec => []TypeOK
BY Invariance, PTL DEF IInv

\* The dependency chain is enforced, whoever dies and whatever is taken back.
THEOREM DependenciesEnforced == Spec => []ChainHeld
BY Invariance, PTL DEF IInv

\* A task that was not taken back has its one worker, and the attempts are bounded.
LEMMA BoundedNow == IInv => ExecutionsBounded
<1> SUFFICES ASSUME IInv PROVE ExecutionsBounded
  OBVIOUS
<1>1. ASSUME NEW t \in Task \ takenBack
      PROVE  Cardinality(Holders(t)) <= (IF t \in Running THEN 1 ELSE 0)
  <2>1. CASE t \in Running
    <3>1. Holders(t) \subseteq {owner[t]}
      BY DEF IInv, OwnersWork, Holders
    <3>2. IsFiniteSet({owner[t]}) /\ Cardinality({owner[t]}) = 1
      BY FS_Singleton
    <3>3. Cardinality(Holders(t)) <= 1
      BY <3>1, <3>2, FS_Subset
    <3> QED BY <2>1, <3>3
  <2>2. CASE t \notin Running
    <3>1. Holders(t) = {}
      BY <2>2 DEF IInv, OwnersWork, Holders, Running
    <3> QED BY <2>2, <3>1, FS_EmptySet
  <2> QED BY <2>1, <2>2
<1> QED BY <1>1 DEF IInv, AttemptsLeft, ExecutionsBounded

\* No task is worked on twice at once, or oftener than its attempts, unless it
\* was taken back or enqueued again.
THEOREM OneWorkerPerTask == Spec => []ExecutionsBounded
BY Invariance, BoundedNow, PTL

=============================================================================
