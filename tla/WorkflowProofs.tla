-------------------------- MODULE WorkflowProofs --------------------------
(***************************************************************************)
(* Proofs about WorkflowEngine for every set of runs, number of steps,      *)
(* retry limit and slot limits, with crashes and shutdowns.                 *)
(*                                                                         *)
(* What a task does between two suspensions is a function of records, so    *)
(* the proofs are in two halves: an Outcome for each of those functions     *)
(* (what it does to the counters, the locks and the run's status), and one  *)
(* lemma that any step with such an outcome keeps the invariant.  The order *)
(* of a run's steps is proved after the counters, in the same two halves,   *)
(* one run at a time.                                                       *)
(***************************************************************************)
EXTENDS WorkflowEngine, FiniteSetTheorems, TLAPS

Working == {"stepwait", "call", "backoff", "escalated"}
Attending == {"stepwait", "call", "backoff"}

Views == [status : RunStatus \ {"absent"}, steps : [Step -> StepStatus], task : Task,
          slots : 0..MaxWorkflows, busy : 0..MaxSteps, lost : Nat,
          locks : SUBSET Step, fit : BOOLEAN]

\* A task that works on a step works on one that exists, and one that waits for
\* another attempt has one left.
Sane(t) ==
    /\ t.pc \in Working => t.at \in Step
    /\ t.pc = "backoff" => t.try < MaxRetries

Sound(v) == v \in Views /\ Sane(v.task)

\* w is what a task in an admitted run, not in a call, may make of v.
Outcome(v, w) ==
    /\ Sound(w)
    /\ w.task.pc \in Admitted \cup {"over"}
    /\ w.slots = IF w.task.pc = "over" THEN Less(v.slots, 1) ELSE v.slots
    /\ \/ w.lost = v.lost /\ w.busy = IF w.task.pc = "call" THEN v.busy + 1 ELSE v.busy
       \/ w.lost = v.lost + 1 /\ w.busy = v.busy + 1 /\ w.task.pc # "call"
    /\ w.task.pc = "call" => w.task.at \notin v.locks
    /\ w.locks = IF w.task.pc = "call" THEN v.locks \cup {w.task.at} ELSE v.locks
    /\ w.status = "queued" => v.status = "queued"
    /\ w.status = "running" => w.task.pc \in Attending

----------------------------------------------------------------------------
(* What the functions of WorkflowEngine do to a view. *)

\* A non-empty set of steps has a first one.
LEMMA FirstIsLeast ==
    ASSUME NEW S \in SUBSET Step, S # {}
    PROVE  First(S) \in S /\ \A u \in S : First(S) <= u
<1>1. S \subseteq Nat
  BY WorkflowAssumption DEF Step
<1>2. PICK s \in S : \A u \in S : ~ (<<u, s>> \in OpToRel(<, Nat))
  BY <1>1, NatLessThanWellFounded, WFMin
<1>3. ASSUME NEW u \in S PROVE s <= u
  <2>1. u \in Nat /\ s \in Nat
    BY <1>1
  <2>2. u < s => <<u, s>> \in OpToRel(<, Nat)
    BY <2>1 DEF OpToRel
  <2>3. ~ (u < s)
    BY <1>2, <2>2, Zenon
  <2> QED
    BY <2>1, <2>3
<1> QED
  BY <1>3 DEF First

\* A task that is over is a task.
LEMMA OverTask == Over \in Task /\ Over.pc = "over"
<1>1. 1 \in 1..(NSteps + 1) /\ 0 \in 0..MaxRetries
  BY WorkflowAssumption
<1> QED
  BY <1>1 DEF Over, NoTask, Task

\* A task that is spawned is a task.
LEMMA SpawnedTask == NoTask \in Task /\ Spawned \in Task /\ Spawned.pc = "spawned"
<1>1. 1 \in 1..(NSteps + 1) /\ 0 \in 0..MaxRetries
  BY WorkflowAssumption
<1> QED
  BY <1>1 DEF Spawned, NoTask, Task, Alive

\* Counting down stays in range.
LEMMA LessType ==
    ASSUME NEW M \in Nat, NEW n \in 0..M, NEW k \in Nat
    PROVE  Less(n, k) \in 0..M /\ (k <= n => Less(n, k) = n - k)
BY DEF Less

\* Leaving _execute_run gives the workflow slot back and leaves the status alone.
LEMMA ReturnedOutcome ==
    ASSUME NEW v \in Views, v.status # "running"
    PROVE  Outcome(v, Returned(v))
<1>1. Over \in Task
  BY OverTask
<1>2. Less(v.slots, 1) \in 0..MaxWorkflows
  BY WorkflowAssumption, LessType DEF Views
<1> QED
  BY <1>1, <1>2 DEF Returned, Outcome, Sound, Sane, Views, Over, NoTask, Working, Attending, Admitted

\* A failed attempt backs off, or pauses the run.
LEMMA FailedOutcome ==
    ASSUME NEW v \in Views, v.task.at \in Step
    PROVE  Outcome(v, Failed(v)) /\ Failed(v).lost = v.lost
<1>1. CASE v.task.try < MaxRetries
  BY <1>1 DEF Failed, Outcome, Sound, Sane, Views, Working, Attending, Admitted, Task, Alive
<1>2. CASE ~ (v.task.try < MaxRetries)
  BY <1>2 DEF Failed, Outcome, Sound, Sane, Views, Working, Attending, Admitted, Task, Alive, RunStatus, StepStatus
<1> QED
  BY <1>1, <1>2

\* A call takes a step slot and the step's lock, or fails on the lock.
LEMMA CalledOutcome ==
    ASSUME NEW v \in Views, v.task.at \in Step, v.busy < MaxSteps
    PROVE  Outcome(v, Called(v))
<1>0. CASE ~v.fit
  <2> DEFINE x == Leaking(v)
  <2>1. v.busy + 1 \in 0..MaxSteps /\ v.lost + 1 \in Nat
    BY WorkflowAssumption DEF Views
  <2>2. /\ x \in Views /\ x.task = v.task /\ x.slots = v.slots /\ x.locks = v.locks
        /\ x.status = v.status /\ x.busy = v.busy + 1 /\ x.lost = v.lost + 1
    BY <2>1 DEF Leaking, Views
  <2>3. Called(v) = Failed(x)
    BY <1>0 DEF Called
  <2> HIDE DEF x
  <2>4. Outcome(x, Failed(x)) /\ Failed(x).lost = x.lost
    BY <2>2, FailedOutcome
  <2>5. Failed(x).task.pc # "call"
    BY <2>2 DEF Failed, Views, Task
  <2>6. Failed(x).busy = v.busy + 1 /\ Failed(x).lost = v.lost + 1
    <3>1. x.lost \in Nat
      BY <2>1, <2>2
    <3> QED
      BY <2>2, <2>4, <2>5, <3>1 DEF Outcome
  <2> QED
    BY <2>2, <2>3, <2>4, <2>5, <2>6 DEF Outcome
<1>1. CASE v.fit /\ v.task.at \in v.locks
  BY <1>1, FailedOutcome DEF Called
<1>2. CASE v.fit /\ v.task.at \notin v.locks
  <2> DEFINE t == [v.task EXCEPT !.pc = "call"]
             l == v.locks \cup {v.task.at}
  <2>1. Called(v) = [v EXCEPT !.task = t, !.busy = v.busy + 1, !.locks = l]
    BY <1>2 DEF Called
  <2>2. t \in Task /\ t.pc = "call" /\ t.at = v.task.at
    BY DEF Views, Task, Alive, Admitted
  <2>3. l \in SUBSET Step
    BY DEF Views
  <2>4. v.busy + 1 \in 0..MaxSteps
    BY WorkflowAssumption DEF Views
  <2> HIDE DEF t, l
  <2>5. Called(v) \in Views
    BY <2>1, <2>2, <2>3, <2>4 DEF Views
  <2> QED
    BY <1>2, <2>1, <2>2, <2>5 DEF Outcome, Sound, Sane, Working, Attending, Admitted, Views, l
<1> QED
  BY <1>0, <1>1, <1>2

\* An attempt waits for a step slot or calls.
LEMMA AttemptedOutcome ==
    ASSUME NEW v \in Views, v.task.at \in Step
    PROVE  Outcome(v, Attempted(v))
<1> DEFINE w == [v EXCEPT !.steps[v.task.at] = "running"]
<1>1. w \in Views /\ w.task = v.task /\ w.slots = v.slots /\ w.busy = v.busy
      /\ w.lost = v.lost /\ w.locks = v.locks /\ w.status = v.status
  BY DEF Views, StepStatus
<1>2. CASE v.busy < MaxSteps
  <2>1. Outcome(w, Called(w))
    BY <1>1, <1>2, CalledOutcome
  <2> QED
    BY <1>1, <1>2, <2>1 DEF Attempted, Outcome
<1>3. CASE ~ (v.busy < MaxSteps)
  BY <1>1, <1>3 DEF Attempted, Outcome, Sound, Sane, Views, Working, Attending, Admitted, Task, Alive
<1> QED
  BY <1>2, <1>3

\* The loop over the steps ends the run, leaves it, or comes to an attempt.
LEMMA AdvancedOutcome ==
    ASSUME NEW r \in Run, NEW v \in Views
    PROVE  Outcome(v, Advanced(r, v))
<1> DEFINE todo == Todo(r, v)
           skipped == {s \in Open(v) : \A u \in todo : s < u}
           w == [v EXCEPT !.steps = [s \in Step |-> IF s \in skipped THEN "skipped" ELSE v.steps[s]]]
<1>1. todo \in SUBSET Step
  BY DEF Todo, Open
<1>2. w \in Views /\ w.task = v.task /\ w.slots = v.slots /\ w.busy = v.busy
      /\ w.lost = v.lost /\ w.locks = v.locks /\ w.status = v.status
  <2>1. [s \in Step |-> IF s \in skipped THEN "skipped" ELSE v.steps[s]] \in [Step -> StepStatus]
    BY DEF Views, StepStatus
  <2> QED
    BY <2>1 DEF Views
<1>3. CASE v.task.at <= NSteps /\ v.status # "running"
  BY <1>3, ReturnedOutcome DEF Advanced
<1>4. CASE ~ (v.task.at <= NSteps /\ v.status # "running") /\ todo = {}
  <2>1. Advanced(r, v) = [w EXCEPT !.status = "done", !.task.pc = "recording",
                                   !.task.at = NSteps + 1]
    BY <1>4 DEF Advanced
  <2> DEFINE t == [w.task EXCEPT !.pc = "recording", !.at = NSteps + 1]
  <2> HIDE DEF w
  <2>a. NSteps + 1 \in 1..(NSteps + 1)
    BY WorkflowAssumption
  <2>2. t \in Task /\ t.pc = "recording"
    BY <1>2, <2>a DEF Views, Task, Alive, Admitted
  <2> HIDE DEF t
  <2>3. Advanced(r, v) = [w EXCEPT !.status = "done", !.task = t]
    BY <2>1 DEF t
  <2>4. Advanced(r, v) \in Views
    BY <1>2, <2>2, <2>3 DEF Views, RunStatus
  <2> QED
    BY <1>2, <2>2, <2>3, <2>4 DEF Outcome, Sound, Sane, Working, Attending, Admitted, Views
<1>5. CASE ~ (v.task.at <= NSteps /\ v.status # "running") /\ todo # {}
  <2> DEFINE x == [w EXCEPT !.task.at = First(todo), !.task.try = 0, !.task.jump = TRUE]
  <2>1. Advanced(r, v) = Attempted(x)
    BY <1>5 DEF Advanced
  <2>2. First(todo) \in Step
    BY <1>1, <1>5, FirstIsLeast
  <2> HIDE DEF w, todo
  <2>a. First(todo) \in 1..(NSteps + 1) /\ 0 \in 0..MaxRetries
    BY <2>2, WorkflowAssumption DEF Step
  <2>b. [w.task EXCEPT !.at = First(todo), !.try = 0, !.jump = TRUE] \in Task
    BY <1>2, <2>a DEF Views, Task
  <2>3. x \in Views /\ x.task.at \in Step /\ x.slots = v.slots /\ x.busy = v.busy
        /\ x.lost = v.lost /\ x.locks = v.locks /\ x.status = v.status
    BY <1>2, <2>2, <2>b DEF Views, Task
  <2> HIDE DEF x
  <2>4. Outcome(x, Attempted(x))
    BY <2>3, AttemptedOutcome
  <2> QED
    BY <2>1, <2>3, <2>4 DEF Outcome
<1> QED
  BY <1>3, <1>4, <1>5

----------------------------------------------------------------------------
(* The inductive invariant. *)

\* A run that does not exist has no tasks: creating it forgets none.
Absent == \A r \in Run : run[r] = "absent" => \A g \in TaskId : task[r][g].pc = "none"

\* A call that has not outlived its lock holds it.
CallsLocked ==
    ~outlived => \A r \in Run, g \in TaskId :
        task[r][g].pc = "call" => task[r][g].at \in locks[r]

Tasks == \A r \in Run, g \in TaskId : Sane(task[r][g])

IInv == TypeOK /\ Tasks /\ Absent /\ SlotsAccounted /\ Attended /\ CallsLocked /\ CallsExclusive

----------------------------------------------------------------------------
(* Counting those who hold a slot. *)

\* Tasks can be counted.
LEMMA HoldersFinite ==
    /\ IsFiniteSet(Holders) /\ IsFiniteSet(Callers)
    /\ Cardinality(Holders) \in Nat /\ Cardinality(Callers) \in Nat
<1>1. IsFiniteSet(TaskId)
  BY FS_Interval, WorkflowAssumption DEF TaskId
<1>2. IsFiniteSet(AllTasks)
  BY <1>1, FS_Product, WorkflowAssumption DEF AllTasks
<1>3. Holders \in SUBSET AllTasks /\ Callers \in SUBSET AllTasks
  BY DEF Holders, Callers
<1> QED
  BY <1>2, <1>3, FS_Subset, FS_CardinalityType

\* Only task g of r moves into or out of what holds a slot: it is a holder and a
\* caller now according to its new pc.
OnlyMoves(r, g, t) ==
    /\ task'[r][g] = t
    /\ \A q \in Run, h \in TaskId : <<q, h>> # <<r, g>> =>
          /\ task'[q][h].pc \in Admitted <=> task[q][h].pc \in Admitted
          /\ task'[q][h].pc = "call" <=> task[q][h].pc = "call"

\* When one task moves, only its own membership of the slot holders and of the callers changes.
LEMMA OneMoves ==
    ASSUME NEW r \in Run, NEW g \in TaskId, NEW t, OnlyMoves(r, g, t)
    PROVE  /\ Holders' = IF t.pc \in Admitted THEN Holders \cup {<<r, g>>} ELSE Holders \ {<<r, g>>}
           /\ Callers' = IF t.pc = "call" THEN Callers \cup {<<r, g>>} ELSE Callers \ {<<r, g>>}
<1>2. \A rg \in AllTasks : rg[1] \in Run /\ rg[2] \in TaskId /\ rg = <<rg[1], rg[2]>>
  BY DEF AllTasks
<1> DEFINE In(rg) == task[rg[1]][rg[2]].pc \in Admitted
           Now(rg) == task'[rg[1]][rg[2]].pc \in Admitted
           Called0(rg) == task[rg[1]][rg[2]].pc = "call"
           Called1(rg) == task'[rg[1]][rg[2]].pc = "call"
<1>3. \A rg \in AllTasks : rg # <<r, g>> => (Now(rg) <=> In(rg)) /\ (Called1(rg) <=> Called0(rg))
  BY <1>2 DEF OnlyMoves
<1>4. <<r, g>> \in AllTasks
  BY DEF AllTasks
<1>5. (Now(<<r, g>>) <=> t.pc \in Admitted) /\ (Called1(<<r, g>>) <=> t.pc = "call")
  BY DEF OnlyMoves
<1>6. Holders' = {rg \in AllTasks : Now(rg)} /\ Callers' = {rg \in AllTasks : Called1(rg)}
  BY DEF Holders, Callers, AllTasks, TaskId, Admitted
<1>7. Holders = {rg \in AllTasks : In(rg)} /\ Callers = {rg \in AllTasks : Called0(rg)}
  BY DEF Holders, Callers
<1> HIDE DEF Admitted, AllTasks, In, Now, Called0, Called1
<1> QED
  BY <1>3, <1>4, <1>5, <1>6, <1>7

\* So the counts follow.
LEMMA OneCounts ==
    ASSUME NEW r \in Run, NEW g \in TaskId, NEW t, OnlyMoves(r, g, t)
    PROVE  /\ Cardinality(Holders') = Cardinality(Holders)
                + (IF t.pc \in Admitted THEN 1 ELSE 0)
                - (IF task[r][g].pc \in Admitted THEN 1 ELSE 0)
           /\ Cardinality(Callers') = Cardinality(Callers)
                + (IF t.pc = "call" THEN 1 ELSE 0)
                - (IF task[r][g].pc = "call" THEN 1 ELSE 0)
<1>1. <<r, g>> \in Holders <=> task[r][g].pc \in Admitted
  BY DEF Holders, AllTasks
<1>2. <<r, g>> \in Callers <=> task[r][g].pc = "call"
  BY DEF Callers, AllTasks
<1>3. /\ Cardinality(Holders \cup {<<r, g>>})
            = IF <<r, g>> \in Holders THEN Cardinality(Holders) ELSE Cardinality(Holders) + 1
      /\ Cardinality(Holders \ {<<r, g>>})
            = IF <<r, g>> \in Holders THEN Cardinality(Holders) - 1 ELSE Cardinality(Holders)
  BY HoldersFinite, FS_AddElement, FS_RemoveElement
<1>4. /\ Cardinality(Callers \cup {<<r, g>>})
            = IF <<r, g>> \in Callers THEN Cardinality(Callers) ELSE Cardinality(Callers) + 1
      /\ Cardinality(Callers \ {<<r, g>>})
            = IF <<r, g>> \in Callers THEN Cardinality(Callers) - 1 ELSE Cardinality(Callers)
  BY HoldersFinite, FS_AddElement, FS_RemoveElement
<1>5. Cardinality(Holders) \in Nat /\ Cardinality(Callers) \in Nat
  BY HoldersFinite
<1> DEFINE h == Cardinality(Holders)
           c == Cardinality(Callers)
           in == t.pc \in Admitted
           was == task[r][g].pc \in Admitted
<1>6. Cardinality(Holders') = IF in THEN Cardinality(Holders \cup {<<r, g>>}) ELSE Cardinality(Holders \ {<<r, g>>})
  BY OneMoves
<1>7. Cardinality(Callers') = IF t.pc = "call" THEN Cardinality(Callers \cup {<<r, g>>}) ELSE Cardinality(Callers \ {<<r, g>>})
  BY OneMoves
<1>8. Cardinality(Holders') = h + (IF in THEN 1 ELSE 0) - (IF was THEN 1 ELSE 0)
  <2> HIDE DEF in, was
  <2> QED
    BY <1>1, <1>3, <1>5, <1>6 DEF was
<1>9. Cardinality(Callers') = c + (IF t.pc = "call" THEN 1 ELSE 0) - (IF task[r][g].pc = "call" THEN 1 ELSE 0)
  BY <1>2, <1>4, <1>5, <1>7
<1> QED
  BY <1>8, <1>9

----------------------------------------------------------------------------
(* One step of one task. *)

Holds(t) == IF t.pc \in Admitted THEN 1 ELSE 0
Calls(t) == IF t.pc = "call" THEN 1 ELSE 0

\* The locks of r once g's own is deleted.
Left(r, g) == IF task[r][g].pc = "call" THEN locks[r] \ {task[r][g].at} ELSE locks[r]

\* w is what task g of run r may leave.
Fits(r, g, w) ==
    /\ Sound(w)
    /\ w.slots = slots + Holds(w.task) - Holds(task[r][g])
    /\ w.busy = busy + Calls(w.task) - Calls(task[r][g]) + (w.lost - leaked.steps)
    /\ w.task.pc = "call" => w.task.at \notin Left(r, g)
    /\ w.locks = IF w.task.pc = "call" THEN Left(r, g) \cup {w.task.at} ELSE Left(r, g)
    /\ w.status = "queued" =>
          \/ w.task.pc \in {"spawned", "waiting"}
          \/ run[r] = "queued" /\ task[r][g].pc \notin {"spawned", "waiting"}
    /\ w.status = "running" =>
          \/ w.task.pc \in Attending
          \/ run[r] = "running" /\ task[r][g].pc \notin Attending

\* A step of one task that fits keeps the invariant.
LEMMA TaskKeeps ==
    ASSUME IInv, NEW r \in Run, NEW g \in TaskId, NEW w, Fits(r, g, w), Becomes(r, g, w),
           record' \in [Run -> {"pending", "done", "failed"}],
           UNCHANGED <<origin, restarts, overlap, outlived>>
    PROVE  IInv'
<1>1. /\ run' = [run EXCEPT ![r] = w.status]
      /\ step' = [step EXCEPT ![r] = w.steps]
      /\ task' = [task EXCEPT ![r][g] = w.task]
      /\ slots' = w.slots /\ busy' = w.busy
      /\ leaked' = [leaked EXCEPT !.steps = w.lost]
      /\ locks' = [locks EXCEPT ![r] = w.locks]
  BY DEF Becomes
<1>2. w \in Views /\ Sane(w.task)
  BY DEF Fits, Sound
<1>3. /\ w.status \in RunStatus \ {"absent"} /\ w.steps \in [Step -> StepStatus]
      /\ w.task \in Task /\ w.slots \in 0..MaxWorkflows /\ w.busy \in 0..MaxSteps
      /\ w.lost \in Nat /\ w.locks \in SUBSET Step
  BY <1>2 DEF Views
<1>4. TypeOK
  BY DEF IInv
<1>t. \A q \in Run, h \in TaskId :
          task'[q][h] = IF q = r /\ h = g THEN w.task ELSE task[q][h]
  BY <1>1, <1>4 DEF TypeOK
<1>r. \A q \in Run : run'[q] = IF q = r THEN w.status ELSE run[q]
  BY <1>1, <1>4 DEF TypeOK
<1>l. \A q \in Run : locks'[q] = IF q = r THEN w.locks ELSE locks[q]
  BY <1>1, <1>4 DEF TypeOK
<1>5. TypeOK'
  <2>1. /\ run' \in [Run -> RunStatus] /\ step' \in [Run -> [Step -> StepStatus]]
        /\ locks' \in [Run -> SUBSET Step]
    BY <1>1, <1>3, <1>4 DEF TypeOK
  <2>2. task' \in [Run -> [TaskId -> Task]]
    BY <1>1, <1>3, <1>4 DEF TypeOK
  <2>3. \A q \in Run, h \in TaskId :
            task'[q][h].pc \in {"stepwait", "call", "backoff", "escalated"} => task'[q][h].at \in Step
    <3>1. w.task.pc \in {"stepwait", "call", "backoff", "escalated"} => w.task.at \in Step
      BY <1>2 DEF Working, Sane
    <3>2. \A q \in Run, h \in TaskId :
              task[q][h].pc \in {"stepwait", "call", "backoff", "escalated"} => task[q][h].at \in Step
      BY <1>4 DEF TypeOK
    <3> QED
      BY <1>t, <3>1, <3>2
  <2>4. leaked' \in [workflows : Nat, steps : Nat]
    BY <1>1, <1>3, <1>4 DEF TypeOK
  <2> QED
    BY <1>1, <1>3, <1>4, <2>1, <2>2, <2>3, <2>4 DEF TypeOK, Step, TaskId, Task
<1>s. Tasks'
  BY <1>2, <1>t DEF IInv, Tasks, Sane, TaskId, Step, Working
<1>o. OnlyMoves(r, g, w.task)
  BY <1>t DEF OnlyMoves
<1>6. Absent'
  BY <1>3, <1>4, <1>r, <1>t DEF IInv, Absent, TaskId
<1>7. SlotsAccounted'
  <2>1. /\ slots = Cardinality(Holders) + leaked.workflows
        /\ busy = Cardinality(Callers) + leaked.steps
    BY DEF IInv, SlotsAccounted
  <2>2. /\ Cardinality(Holders') = Cardinality(Holders) + Holds(w.task) - Holds(task[r][g])
        /\ Cardinality(Callers') = Cardinality(Callers) + Calls(w.task) - Calls(task[r][g])
    BY <1>o, OneCounts DEF Holds, Calls
  <2>3. /\ slots' = slots + Holds(w.task) - Holds(task[r][g])
        /\ busy' = busy + Calls(w.task) - Calls(task[r][g]) + (w.lost - leaked.steps)
    BY <1>1 DEF Fits
  <2>4. Holds(w.task) \in Nat /\ Holds(task[r][g]) \in Nat
        /\ Calls(w.task) \in Nat /\ Calls(task[r][g]) \in Nat
    BY DEF Holds, Calls
  <2>5. /\ leaked'.workflows = leaked.workflows /\ leaked'.steps = w.lost
        /\ leaked.workflows \in Nat /\ leaked.steps \in Nat /\ w.lost \in Nat
    BY <1>1, <1>3, <1>4 DEF TypeOK
  <2>6. Cardinality(Holders) \in Nat /\ Cardinality(Callers) \in Nat
    BY HoldersFinite
  <2> DEFINE h == Cardinality(Holders)
             c == Cardinality(Callers)
  <2> HIDE DEF h, c
  <2>7. Cardinality(Holders') = h + Holds(w.task) - Holds(task[r][g])
        /\ Cardinality(Callers') = c + Calls(w.task) - Calls(task[r][g])
    BY <2>2 DEF h, c
  <2>8. slots = h + leaked.workflows /\ busy = c + leaked.steps /\ h \in Nat /\ c \in Nat
    BY <2>1, <2>6 DEF h, c
  <2>9. slots' = Cardinality(Holders') + leaked'.workflows
        /\ busy' = Cardinality(Callers') + leaked'.steps
    BY <2>3, <2>4, <2>5, <2>7, <2>8
  <2> QED
    BY <2>9 DEF SlotsAccounted
<1>8. Attended'
  <2> SUFFICES ASSUME restarts = 0, NEW q \in Run
               PROVE  /\ run'[q] = "queued" => \E h \in TaskId : task'[q][h].pc \in {"spawned", "waiting"}
                      /\ run'[q] = "running" => \E h \in TaskId : task'[q][h].pc \in {"stepwait", "call", "backoff"}
    BY DEF Attended, TaskId
  <2>1. /\ run[q] = "queued" => \E h \in TaskId : task[q][h].pc \in {"spawned", "waiting"}
        /\ run[q] = "running" => \E h \in TaskId : task[q][h].pc \in {"stepwait", "call", "backoff"}
    BY DEF IInv, Attended
  <2>2. CASE q # r
    BY <2>1, <2>2, <1>r, <1>t
  <2>3. CASE q = r
    BY <2>1, <2>3, <1>r, <1>t DEF Fits, Attending
  <2> QED
    BY <2>2, <2>3
<1>9. CallsLocked' /\ CallsExclusive'
  <2> SUFFICES ASSUME ~outlived
               PROVE  /\ \A q \in Run, h \in TaskId :
                            task'[q][h].pc = "call" => task'[q][h].at \in locks'[q]
                      /\ \A q \in Run : \A h, k \in TaskId :
                            (task'[q][h].pc = "call" /\ task'[q][k].pc = "call"
                               /\ task'[q][h].at = task'[q][k].at) => h = k
    BY DEF CallsLocked, CallsExclusive, TaskId
  <2>1. /\ \A q \in Run, h \in TaskId :
              task[q][h].pc = "call" => task[q][h].at \in locks[q]
        /\ \A q \in Run : \A h, k \in TaskId :
              (task[q][h].pc = "call" /\ task[q][k].pc = "call"
                 /\ task[q][h].at = task[q][k].at) => h = k
    BY DEF IInv, CallsLocked, CallsExclusive
  <2>2. \A h \in TaskId \ {g} : task[r][h].pc = "call" => task[r][h].at \in Left(r, g)
    BY <2>1 DEF Left
  <2>3. /\ w.task.pc = "call" => w.task.at \notin Left(r, g)
        /\ w.locks = IF w.task.pc = "call" THEN Left(r, g) \cup {w.task.at} ELSE Left(r, g)
    BY DEF Fits
  <2>4. \A q \in Run, h \in TaskId :
            task'[q][h].pc = "call" => task'[q][h].at \in locks'[q]
    BY <2>1, <2>2, <2>3, <1>t, <1>l
  <2>5. \A q \in Run : \A h, k \in TaskId :
            (task'[q][h].pc = "call" /\ task'[q][k].pc = "call"
               /\ task'[q][h].at = task'[q][k].at) => h = k
    BY <2>1, <2>2, <2>3, <1>t
  <2> QED
    BY <2>4, <2>5
<1> QED
  BY <1>5, <1>s, <1>6, <1>7, <1>8, <1>9 DEF IInv

----------------------------------------------------------------------------
(* What a task sees, and that each of its actions fits. *)

\* What a task starts from: its own view, or one after its call has ended.
Seen(r, g, v) ==
    /\ v \in Views /\ v.status = run[r] /\ v.slots = slots
    /\ v.busy = busy - Calls(task[r][g]) /\ v.lost = leaked.steps /\ v.locks = Left(r, g)

\* A task's view is well formed.
LEMMA ViewSeen ==
    ASSUME IInv, NEW r \in Run, NEW g \in TaskId, task[r][g].pc # "none", NEW ok \in BOOLEAN
    PROVE  /\ View(r, g, ok) \in Views /\ View(r, g, ok).task = task[r][g]
           /\ task[r][g].pc # "call" => Seen(r, g, View(r, g, ok))
           /\ run[r] # "absent"
<1>1. run[r] # "absent"
  BY DEF IInv, Absent
<1>2. View(r, g, ok) \in Views
  BY <1>1 DEF View, Views, IInv, TypeOK
<1> QED
  BY <1>1, <1>2 DEF View, Seen, Calls, Left, IInv, TypeOK

\* A task in an admitted run has its slot in the counter, one in a call both.
LEMMA HolderCounted ==
    ASSUME IInv, NEW r \in Run, NEW g \in TaskId
    PROVE  /\ task[r][g].pc \in Admitted => slots >= 1
           /\ task[r][g].pc = "call" => busy >= 1
<1>1. <<r, g>> \in AllTasks
  BY DEF AllTasks
<1>2. task[r][g].pc \in Admitted => Holders # {}
  BY <1>1 DEF Holders
<1>3. task[r][g].pc = "call" => Callers # {}
  BY <1>1 DEF Callers
<1>4. (Holders # {} => Cardinality(Holders) # 0) /\ (Callers # {} => Cardinality(Callers) # 0)
  BY HoldersFinite, FS_EmptySet
<1>5. leaked.workflows \in Nat /\ leaked.steps \in Nat
  BY DEF IInv, TypeOK
<1>6. slots = Cardinality(Holders) + leaked.workflows /\ busy = Cardinality(Callers) + leaked.steps
  BY DEF IInv, SlotsAccounted
<1> QED
  BY <1>2, <1>3, <1>4, <1>5, <1>6, HoldersFinite

\* So is its view once its call has ended.
LEMMA EndedSeen ==
    ASSUME IInv, NEW r \in Run, NEW g \in TaskId, task[r][g].pc = "call", NEW ok \in BOOLEAN
    PROVE  Seen(r, g, Ended(View(r, g, ok))) /\ Ended(View(r, g, ok)).task = task[r][g]
<1> DEFINE v == View(r, g, ok)
<1>1. v \in Views /\ v.task = task[r][g] /\ run[r] # "absent"
  BY ViewSeen
<1>2. /\ v.locks = locks[r] /\ v.busy = busy /\ v.slots = slots /\ v.status = run[r]
      /\ v.lost = leaked.steps
  BY DEF View
<1>3. busy \in 0..MaxSteps /\ busy >= 1
  BY HolderCounted DEF IInv, TypeOK
<1>4. Less(busy, 1) = busy - 1 /\ busy - 1 \in 0..MaxSteps
  BY <1>3, WorkflowAssumption DEF Less
<1> HIDE DEF v
<1> QED
  BY <1>1, <1>2, <1>4 DEF Ended, Seen, Views, Calls, Left, v

\* An outcome for a task of an admitted run fits.
LEMMA OutcomeFits ==
    ASSUME IInv, NEW r \in Run, NEW g \in TaskId, task[r][g].pc \in Admitted,
           NEW v, Seen(r, g, v), NEW w, Outcome(v, w)
    PROVE  Fits(r, g, w)
<1>1. slots \in Nat /\ slots >= 1 /\ busy \in Nat
  BY HolderCounted, WorkflowAssumption DEF IInv, TypeOK
<1>2. Holds(task[r][g]) = 1 /\ task[r][g].pc \notin {"spawned", "waiting"}
  BY DEF Holds, Admitted
<1>3. w.slots = slots + Holds(w.task) - Holds(task[r][g])
  BY <1>1, <1>2 DEF Outcome, Seen, Holds, Less, Admitted
<1>l. leaked.steps \in Nat /\ v.lost = leaked.steps /\ v.busy = busy - Calls(task[r][g])
  BY DEF Seen, IInv, TypeOK
<1>c. Calls(w.task) \in Nat /\ Calls(task[r][g]) \in Nat /\ (w.task.pc # "call" => Calls(w.task) = 0)
      /\ (w.task.pc = "call" => Calls(w.task) = 1)
  BY DEF Calls
<1>4. w.busy = busy + Calls(w.task) - Calls(task[r][g]) + (w.lost - leaked.steps)
  <2>1. CASE w.lost = v.lost /\ w.busy = IF w.task.pc = "call" THEN v.busy + 1 ELSE v.busy
    BY <1>1, <1>l, <1>c, <2>1
  <2>2. CASE w.lost = v.lost + 1 /\ w.busy = v.busy + 1 /\ w.task.pc # "call"
    BY <1>1, <1>l, <1>c, <2>2
  <2> QED
    BY <2>1, <2>2 DEF Outcome
<1> QED
  BY <1>2, <1>3, <1>4 DEF Fits, Outcome, Seen

\* A task that polls for its workflow slot.
LEMMA PolledFits ==
    ASSUME IInv, NEW r \in Run, NEW g \in TaskId, task[r][g].pc \in {"spawned", "waiting"},
           NEW v, Seen(r, g, v)
    PROVE  Fits(r, g, Polled(r, v))
<1>1. slots \in 0..MaxWorkflows /\ busy \in Nat /\ leaked.steps \in Nat
      /\ Holds(task[r][g]) = 0 /\ Calls(task[r][g]) = 0
  BY WorkflowAssumption DEF IInv, TypeOK, Holds, Calls, Admitted
<1>2. CASE v.slots < MaxWorkflows
  <2> DEFINE x == [v EXCEPT !.slots = @ + 1, !.status = "running"]
             w == Advanced(r, x)
  <2>1. x \in Views /\ x.slots = slots + 1 /\ x.busy = busy /\ x.lost = leaked.steps
        /\ x.locks = Left(r, g) /\ x.status = "running"
    <3>1. v.slots + 1 \in 0..MaxWorkflows /\ v.slots = slots
      BY <1>1, <1>2, WorkflowAssumption DEF Seen
    <3>2. v \in Views /\ v.busy = busy /\ v.lost = leaked.steps /\ v.locks = Left(r, g)
      BY <1>1 DEF Seen
    <3> QED
      BY <3>1, <3>2 DEF Views, RunStatus
  <2>2. Polled(r, v) = w
    BY <1>2 DEF Polled
  <2> HIDE DEF x
  <2>3. Outcome(x, w)
    BY <2>1, AdvancedOutcome
  <2> HIDE DEF w
  <2>4. w.slots = slots + Holds(w.task) - Holds(task[r][g])
    BY <1>1, <2>1, <2>3 DEF Outcome, Holds, Less, Admitted
  <2>c. Calls(w.task) = IF w.task.pc = "call" THEN 1 ELSE 0
    BY DEF Calls
  <2>5. w.busy = busy + Calls(w.task) - Calls(task[r][g]) + (w.lost - leaked.steps)
    <3>1. CASE w.lost = x.lost /\ w.busy = IF w.task.pc = "call" THEN x.busy + 1 ELSE x.busy
      BY <1>1, <2>1, <2>c, <3>1
    <3>2. CASE w.lost = x.lost + 1 /\ w.busy = x.busy + 1 /\ w.task.pc # "call"
      BY <1>1, <2>1, <2>c, <3>2
    <3> QED
      BY <2>3, <3>1, <3>2 DEF Outcome
  <2> QED
    BY <2>1, <2>2, <2>3, <2>4, <2>5 DEF Fits, Outcome
<1>3. CASE ~ (v.slots < MaxWorkflows)
  <2> DEFINE w == [v EXCEPT !.task.pc = "waiting"]
  <2>1. Polled(r, v) = w
    BY <1>3 DEF Polled
  <2>2. w \in Views /\ w.task.pc = "waiting" /\ w.slots = v.slots /\ w.busy = v.busy
        /\ w.lost = v.lost /\ w.locks = v.locks /\ w.status = v.status
    BY DEF Seen, Views, Task, Alive
  <2> HIDE DEF w
  <2> QED
    BY <1>1, <2>1, <2>2 DEF Fits, Sound, Sane, Working, Seen, Holds, Calls, Admitted, Attending
<1> QED
  BY <1>2, <1>3

\* Each action of a task that leaves other runs alone, but for the two that end it.
LEMMA ProgressKeeps ==
    ASSUME IInv, NEW r \in Run, NEW g \in TaskId, NEW w, Fits(r, g, w), Progress(r, g, w)
    PROVE  IInv'
BY TaskKeeps DEF Progress, IInv, TypeOK

\* A task that reads its source's steps and polls for the first time keeps the invariant.
LEMMA BeginsKeeps ==
    ASSUME IInv, NEW r \in Run, NEW g \in TaskId, Begins(r, g)
    PROVE  IInv'
<1> DEFINE o == origin[r]
           t == IF o.kind = "replay"
                THEN [task[r][g] EXCEPT !.src = {s \in Step : step[o.source][s] = "done"}, !.jump = FALSE]
                ELSE task[r][g]
<1>1. t \in Task
  <2>1. task[r][g] \in Task
    BY DEF IInv, TypeOK
  <2>2. {s \in Step : step[o.source][s] = "done"} \in SUBSET Step
    OBVIOUS
  <2> QED
    BY <2>1, <2>2 DEF Task
<1>2. PICK ok \in BOOLEAN : Progress(r, g, Polled(r, [View(r, g, ok) EXCEPT !.task = t]))
  BY Zenon DEF Begins
<1> DEFINE v == [View(r, g, ok) EXCEPT !.task = t]
<1>p. task[r][g].pc = "spawned"
  BY DEF Begins
<1>3. View(r, g, ok) \in Views /\ Seen(r, g, View(r, g, ok))
  BY <1>p, ViewSeen
<1> HIDE DEF t
<1>4. Seen(r, g, v)
  BY <1>1, <1>3 DEF Seen, Views
<1> HIDE DEF v
<1>5. Progress(r, g, Polled(r, v))
  BY <1>2 DEF v
<1> QED
  BY <1>p, <1>4, <1>5, PolledFits, ProgressKeeps

\* So does a poll of wait_for_slot that succeeds.
LEMMA GetsSlotKeeps ==
    ASSUME IInv, NEW r \in Run, NEW g \in TaskId, GetsSlot(r, g)
    PROVE  IInv'
<1>1. PICK ok \in BOOLEAN : Progress(r, g, Polled(r, View(r, g, ok)))
  BY DEF GetsSlot
<1>2. task[r][g].pc = "waiting" /\ Seen(r, g, View(r, g, ok))
  BY ViewSeen DEF GetsSlot
<1> QED
  BY <1>1, <1>2, PolledFits, ProgressKeeps

\* A run that fails without a slot of its task's being counted.
LEMMA UnslottedKeeps ==
    ASSUME IInv, NEW r \in Run, NEW g \in TaskId, task[r][g].pc \in {"spawned", "waiting"},
           Becomes(r, g, [View(r, g, TRUE) EXCEPT !.task = Over, !.status = "failed"]),
           record' = [record EXCEPT ![r] = "failed"],
           UNCHANGED <<origin, restarts, overlap, outlived>>
    PROVE  IInv'
<1> DEFINE v == View(r, g, TRUE)
           w == [v EXCEPT !.task = Over, !.status = "failed"]
<1>1. Seen(r, g, v)
  BY ViewSeen
<1>2. Over \in Task /\ Over.pc = "over"
  BY OverTask
<1>3. Becomes(r, g, w)
  OBVIOUS
<1> HIDE DEF v
<1>4. w \in Views /\ w.task.pc = "over" /\ w.slots = slots /\ w.busy = busy - Calls(task[r][g])
      /\ w.lost = leaked.steps /\ w.locks = Left(r, g) /\ w.status = "failed"
  BY <1>1, <1>2 DEF Seen, Views, RunStatus
<1> HIDE DEF w
<1>5. slots \in Nat /\ busy \in Nat /\ leaked.steps \in Nat
  BY WorkflowAssumption DEF IInv, TypeOK
<1>6. Fits(r, g, w)
  BY <1>1, <1>4, <1>5 DEF Fits, Sound, Sane, Working, Holds, Calls, Admitted
<1>7. record' \in [Run -> {"pending", "done", "failed"}]
  BY DEF IInv, TypeOK
<1> QED
  BY <1>3, <1>6, <1>7, TaskKeeps

\* A task that waits in vain for its slot fails its run and gives nothing back.
LEMMA SlotTimesOutKeeps ==
    ASSUME IInv, NEW r \in Run, NEW g \in TaskId, SlotTimesOut(r, g)
    PROVE  IInv'
<1>1. task[r][g].pc \in {"spawned", "waiting"}
  BY DEF SlotTimesOut
<1> QED
  BY <1>1, UnslottedKeeps, Zenon DEF SlotTimesOut

\* The three ways into another attempt, or out of it before its call, keep the invariant.
LEMMA StepActionsKeep ==
    ASSUME IInv, NEW r \in Run, NEW g \in TaskId,
           GetsStepSlot(r, g) \/ StepSlotTimesOut(r, g) \/ BackoffEnds(r, g)
    PROVE  IInv'
<1>1. task[r][g].pc \in {"stepwait", "backoff"} /\ task[r][g].pc \in Admitted
  BY DEF GetsStepSlot, StepSlotTimesOut, BackoffEnds, Admitted
<1>2. \A ok \in BOOLEAN :
         /\ View(r, g, ok) \in Views /\ View(r, g, ok).task = task[r][g]
         /\ View(r, g, ok).busy = busy /\ Seen(r, g, View(r, g, ok))
  BY <1>1, ViewSeen DEF View
<1>3. task[r][g].at \in Step /\ (task[r][g].pc = "backoff" => task[r][g].try < MaxRetries)
  BY <1>1 DEF IInv, Tasks, Sane, Working
<1>4. \A x : Seen(r, g, x) =>
         \A w : Outcome(x, w) => Fits(r, g, w)
  BY <1>1, OutcomeFits
<1>5. CASE GetsStepSlot(r, g)
  <2>1. PICK ok \in BOOLEAN : Progress(r, g, Called(View(r, g, ok)))
    BY <1>5 DEF GetsStepSlot
  <2>2. busy < MaxSteps
    BY <1>5 DEF GetsStepSlot
  <2> QED
    BY <1>2, <1>3, <1>4, <2>1, <2>2, CalledOutcome, ProgressKeeps
<1>6. CASE StepSlotTimesOut(r, g)
  BY <1>2, <1>3, <1>4, <1>6, FailedOutcome, ProgressKeeps DEF StepSlotTimesOut
<1>7. CASE BackoffEnds(r, g)
  <2>1. PICK ok \in BOOLEAN : Progress(r, g, Attempted([View(r, g, ok) EXCEPT !.task.try = @ + 1]))
    BY <1>7 DEF BackoffEnds
  <2> DEFINE v == View(r, g, ok)
             t == [v.task EXCEPT !.try = @ + 1]
             x == [v EXCEPT !.task.try = @ + 1]
  <2>v. v \in Views /\ v.task = task[r][g] /\ Seen(r, g, v) /\ v.task.at \in Step
        /\ Progress(r, g, Attempted(x))
    BY <1>2, <1>3, <2>1
  <2>b. v.task.try < MaxRetries
    BY <1>2, <1>3, <1>7 DEF BackoffEnds
  <2> HIDE DEF v
  <2>2. v.task.try + 1 \in 0..MaxRetries
    BY <2>v, <2>b, WorkflowAssumption DEF Views, Task
  <2>t. t \in Task /\ t.at = v.task.at
    BY <2>v, <2>2 DEF Views, Task
  <2>x. x = [v EXCEPT !.task = t]
    OBVIOUS
  <2> HIDE DEF x, t
  <2>4. x \in Views /\ x.status = v.status /\ x.slots = v.slots /\ x.busy = v.busy
        /\ x.lost = v.lost /\ x.locks = v.locks /\ x.task = t
    BY <2>v, <2>t, <2>x DEF Views
  <2>3. Seen(r, g, x) /\ x.task.at \in Step
    BY <2>v, <2>t, <2>4 DEF Seen
  <2>p. Progress(r, g, Attempted(x))
    BY <2>v
  <2>5. Outcome(x, Attempted(x))
    BY <2>3, <2>4, AttemptedOutcome
  <2> QED
    BY <1>4, <2>p, <2>3, <2>5, ProgressKeeps
<1> QED
  BY <1>5, <1>6, <1>7

\* A task whose call has succeeded comes to the next step, its slot and lock given back.
LEMMA SucceededSeen ==
    ASSUME IInv, NEW r \in Run, NEW g \in TaskId, task[r][g].pc = "call", NEW ok \in BOOLEAN
    PROVE  Seen(r, g, Succeeded(View(r, g, ok)))
<1> DEFINE v == Ended(View(r, g, ok))
           t == [v.task EXCEPT !.at = @ + 1, !.try = 0]
           l == [v.steps EXCEPT ![v.task.at] = "done"]
           x == [v EXCEPT !.steps[v.task.at] = "done", !.task.at = @ + 1, !.task.try = 0]
<1>1. Succeeded(View(r, g, ok)) = x
  BY DEF Succeeded, Ended
<1>2. Seen(r, g, v) /\ v.task = task[r][g] /\ v.task.at \in Step /\ v \in Views
  BY EndedSeen DEF IInv, Tasks, Sane, Working, Seen
<1> HIDE DEF v
<1>3. v.task.at + 1 \in 1..(NSteps + 1) /\ 0 \in 0..MaxRetries
  BY <1>2, WorkflowAssumption DEF Step
<1>4. t \in Task
  BY <1>2, <1>3 DEF Views, Task
<1>5. l \in [Step -> StepStatus]
  BY <1>2 DEF Views, StepStatus
<1>6. x = [v EXCEPT !.steps = l, !.task = t]
  OBVIOUS
<1> HIDE DEF x, t, l
<1>7. x \in Views /\ x.status = v.status /\ x.slots = v.slots /\ x.busy = v.busy
      /\ x.lost = v.lost /\ x.locks = v.locks
  BY <1>2, <1>4, <1>5, <1>6 DEF Views
<1> QED
  BY <1>1, <1>2, <1>7 DEF Seen

\* The end of a call gives back one step slot and one lock, then goes on or fails.
LEMMA CallsKeep ==
    ASSUME IInv, NEW r \in Run, NEW g \in TaskId, CallSucceeds(r, g) \/ CallFails(r, g)
    PROVE  IInv'
<1>1. task[r][g].pc = "call" /\ task[r][g].pc \in Admitted
  BY DEF CallSucceeds, CallFails, Admitted
<1>2. \A x : Seen(r, g, x) =>
         \A w : Outcome(x, w) => Fits(r, g, w)
  BY <1>1, OutcomeFits
<1>3. CASE CallFails(r, g)
  <2> DEFINE v == Ended(View(r, g, TRUE))
  <2>1. Seen(r, g, v) /\ v.task.at \in Step /\ v \in Views
    BY <1>1, EndedSeen DEF IInv, Tasks, Sane, Working, Seen
  <2>2. Progress(r, g, Failed(v))
    BY <1>3 DEF CallFails
  <2> HIDE DEF v
  <2> QED
    BY <1>2, <2>1, <2>2, FailedOutcome, ProgressKeeps
<1>4. CASE CallSucceeds(r, g)
  <2>1. PICK ok \in BOOLEAN : Progress(r, g, Advanced(r, Succeeded(View(r, g, ok))))
    BY <1>4 DEF CallSucceeds
  <2> DEFINE x == Succeeded(View(r, g, ok))
  <2>2. Seen(r, g, x)
    BY <1>1, SucceededSeen
  <2>3. Progress(r, g, Advanced(r, x))
    BY <2>1
  <2> HIDE DEF x
  <2>4. Outcome(x, Advanced(r, x))
    BY <2>2, AdvancedOutcome DEF Seen
  <2> QED
    BY <1>2, <2>2, <2>3, <2>4, ProgressKeeps
<1> QED
  BY <1>3, <1>4

\* An admitted task returns, its run failed or as it was.
LEMMA ReturnedKeeps ==
    ASSUME IInv, NEW r \in Run, NEW g \in TaskId, task[r][g].pc \in Admitted,
           NEW v, Seen(r, g, v), NEW st, st = "failed" \/ (st = run[r] /\ task[r][g].pc = "recording"),
           NEW w, w = [Returned(v) EXCEPT !.status = st], Becomes(r, g, w),
           record' \in [Run -> {"pending", "done", "failed"}],
           UNCHANGED <<origin, restarts, overlap, outlived>>
    PROVE  IInv'
<1>1. slots >= 1 /\ slots \in 0..MaxWorkflows /\ busy \in Nat /\ leaked.steps \in Nat
  BY HolderCounted, WorkflowAssumption DEF IInv, TypeOK
<1>2. Over \in Task /\ Over.pc = "over"
  BY OverTask
<1>3. Less(slots, 1) = slots - 1 /\ slots - 1 \in 0..MaxWorkflows
  BY <1>1, WorkflowAssumption DEF Less
<1>4. st \in RunStatus \ {"absent"}
  BY DEF Seen, Views, RunStatus
<1>6. w \in Views /\ w.task.pc = "over" /\ w.slots = slots - 1 /\ w.busy = busy - Calls(task[r][g])
      /\ w.lost = leaked.steps /\ w.locks = Left(r, g) /\ w.status = st
  BY <1>2, <1>3, <1>4 DEF Returned, Seen, Views
<1>7. Fits(r, g, w)
  BY <1>1, <1>6 DEF Fits, Sound, Sane, Working, Holds, Calls, Admitted, Attending
<1> QED
  BY <1>7, TaskKeeps

\* The task of a completed run gives its workflow slot back.
LEMMA CompletionRecordedKeeps ==
    ASSUME IInv, NEW r \in Run, NEW g \in TaskId, CompletionRecorded(r, g)
    PROVE  IInv'
<1> DEFINE v == View(r, g, TRUE)
<1>1. task[r][g].pc = "recording" /\ task[r][g].pc \in Admitted /\ Seen(r, g, v)
  BY ViewSeen DEF CompletionRecorded, Admitted
<1>2. /\ Becomes(r, g, Returned(v)) /\ record' \in [Run -> {"pending", "done", "failed"}]
      /\ UNCHANGED <<origin, restarts, overlap, outlived>>
  BY DEF CompletionRecorded, IInv, TypeOK
<1>s. v.status = run[r] /\ v \in Views
  BY <1>1 DEF Seen
<1> HIDE DEF v
<1>3. [Returned(v) EXCEPT !.status = run[r]] = Returned(v)
  BY <1>s DEF Returned, Views
<1> QED
  BY <1>1, <1>2, <1>3, ReturnedKeeps

\* A run that an error ends gives back what its task holds, whatever that is.
LEMMA RunErrsKeeps ==
    ASSUME IInv, NEW r \in Run, NEW g \in TaskId, RunErrs(r, g)
    PROVE  IInv'
<1>1. /\ record' = [record EXCEPT ![r] = "failed"]
      /\ record' \in [Run -> {"pending", "done", "failed"}]
      /\ UNCHANGED <<origin, restarts, overlap, outlived>>
  BY DEF RunErrs, IInv, TypeOK
<1>2. CASE task[r][g].pc \in {"spawned", "waiting"}
  <2>1. Becomes(r, g, [View(r, g, TRUE) EXCEPT !.task = Over, !.status = "failed"])
    BY <1>2 DEF RunErrs
  <2> QED
    BY <1>1, <1>2, <2>1, UnslottedKeeps, Zenon
<1>3. CASE task[r][g].pc \in {"backoff", "escalated", "recording"}
  <2> DEFINE v == View(r, g, TRUE)
  <2>1. Becomes(r, g, [Returned(v) EXCEPT !.status = "failed"])
    BY <1>3 DEF RunErrs
  <2>2. Seen(r, g, v) /\ task[r][g].pc \in Admitted
    BY <1>3, ViewSeen DEF Admitted
  <2> HIDE DEF v
  <2> QED
    BY <1>1, <2>1, <2>2, ReturnedKeeps
<1>4. CASE task[r][g].pc = "call"
  <2> DEFINE v == Succeeded(View(r, g, TRUE))
  <2>1. Becomes(r, g, [Returned(v) EXCEPT !.status = "failed"])
    BY <1>4 DEF RunErrs
  <2>2. Seen(r, g, v) /\ task[r][g].pc \in Admitted
    BY <1>4, SucceededSeen DEF Admitted
  <2> HIDE DEF v
  <2> QED
    BY <1>1, <2>1, <2>2, ReturnedKeeps
<1> QED
  BY <1>2, <1>3, <1>4 DEF RunErrs

----------------------------------------------------------------------------
(* New tasks, and tasks that end with others created. *)

\* A run is created.
LEMMA CreatedKeeps ==
    ASSUME IInv, NEW r \in Run, run[r] = "absent", NEW o \in Origin, Created(r, o),
           UNCHANGED <<step, record, slots, busy, locks, restarts, leaked, overlap, outlived>>
    PROVE  IInv'
<1>1. 1 \in TaskId /\ Spawned \in Task /\ Spawned.pc = "spawned"
  BY WorkflowAssumption, SpawnedTask DEF TaskId
<1>2. \A h \in TaskId : task[r][h].pc = "none"
  BY DEF IInv, Absent
<1>3. TypeOK
  BY DEF IInv
<1>t. \A q \in Run, h \in TaskId :
          task'[q][h] = IF q = r /\ h = 1 THEN Spawned ELSE task[q][h]
  BY <1>1, <1>3 DEF TypeOK, Created
<1>r. \A q \in Run : run'[q] = IF q = r THEN "queued" ELSE run[q]
  BY <1>3 DEF TypeOK, Created
<1>4. TypeOK'
  <2>1. run' \in [Run -> RunStatus] /\ origin' \in [Run -> Origin] /\ task' \in [Run -> [TaskId -> Task]]
    BY <1>1, <1>3 DEF TypeOK, Created, RunStatus
  <2>2. \A q \in Run, h \in TaskId :
            task'[q][h].pc \in {"stepwait", "call", "backoff", "escalated"} => task'[q][h].at \in Step
    BY <1>1, <1>3, <1>t DEF TypeOK
  <2> QED
    BY <1>3, <2>1, <2>2 DEF TypeOK, Step, TaskId, Task
<1>5. Tasks' /\ Absent'
  BY <1>1, <1>r, <1>t DEF IInv, Tasks, Absent, Sane, Working, TaskId, Step
<1>6. OnlyMoves(r, 1, Spawned)
  BY <1>1, <1>t DEF OnlyMoves
<1>7. SlotsAccounted'
  <2>1. Cardinality(Holders') = Cardinality(Holders) /\ Cardinality(Callers') = Cardinality(Callers)
    BY <1>1, <1>2, <1>6, OneCounts, HoldersFinite DEF Admitted
  <2> QED
    BY <2>1 DEF IInv, SlotsAccounted
<1>8. Attended'
  BY <1>1, <1>r, <1>t DEF IInv, Attended, TaskId
<1>9. CallsLocked' /\ CallsExclusive'
  BY <1>1, <1>t DEF IInv, CallsLocked, CallsExclusive, TaskId
<1> QED
  BY <1>4, <1>5, <1>7, <1>8, <1>9 DEF IInv

\* A run is resumed.
LEMMA ResumeKeeps ==
    ASSUME IInv, NEW r \in Run, NEW g \in TaskId, ResumeRun(r, g)
    PROVE  IInv'
<1>1. Spawned \in Task /\ Spawned.pc = "spawned"
  BY SpawnedTask
<1>2. task[r][g].pc = "none"
  BY DEF ResumeRun, Fresh
<1>3. TypeOK
  BY DEF IInv
<1>t. \A q \in Run, h \in TaskId :
          task'[q][h] = IF q = r /\ h = g THEN Spawned ELSE task[q][h]
  BY <1>3 DEF TypeOK, ResumeRun
<1>r. \A q \in Run : run'[q] = IF q = r THEN "queued" ELSE run[q]
  BY <1>3 DEF TypeOK, ResumeRun
<1>4. TypeOK'
  <2>1. run' \in [Run -> RunStatus] /\ task' \in [Run -> [TaskId -> Task]] /\ overlap' \subseteq Run
    BY <1>1, <1>3 DEF TypeOK, ResumeRun, RunStatus
  <2>2. Reset(step[r]) \in [Step -> StepStatus]
    BY <1>3 DEF TypeOK, Reset, StepStatus
  <2>3. step' \in [Run -> [Step -> StepStatus]]
    BY <1>3, <2>2 DEF TypeOK, ResumeRun
  <2>4. \A q \in Run, h \in TaskId :
            task'[q][h].pc \in {"stepwait", "call", "backoff", "escalated"} => task'[q][h].at \in Step
    BY <1>1, <1>3, <1>t DEF TypeOK
  <2> QED
    BY <1>3, <2>1, <2>3, <2>4 DEF TypeOK, Step, TaskId, Task, ResumeRun
<1>5. Tasks' /\ Absent'
  BY <1>1, <1>r, <1>t DEF IInv, Tasks, Absent, Sane, Working, TaskId, Step
<1>6. OnlyMoves(r, g, Spawned)
  BY <1>t DEF OnlyMoves
<1>7. SlotsAccounted'
  <2>1. Cardinality(Holders') = Cardinality(Holders) /\ Cardinality(Callers') = Cardinality(Callers)
    BY <1>1, <1>2, <1>6, OneCounts, HoldersFinite DEF Admitted
  <2> QED
    BY <2>1 DEF IInv, SlotsAccounted, ResumeRun
<1>8. Attended'
  BY <1>1, <1>2, <1>r, <1>t DEF IInv, Attended, TaskId, ResumeRun
<1>9. CallsLocked' /\ CallsExclusive'
  BY <1>1, <1>t DEF IInv, CallsLocked, CallsExclusive, TaskId, ResumeRun
<1> QED
  BY <1>4, <1>5, <1>7, <1>8, <1>9 DEF IInv

\* The escalation ends without another run.
LEMMA EscalatedKeeps ==
    ASSUME IInv, NEW r \in Run, NEW g \in TaskId, task[r][g].pc = "escalated",
           slots' = Less(slots, 1), task' = [task EXCEPT ![r][g] = Over],
           record' \in [Run -> {"pending", "done", "failed"}],
           UNCHANGED <<run, origin, step, busy, locks, restarts, leaked, overlap, outlived>>
    PROVE  IInv'
<1> DEFINE v == View(r, g, TRUE)
           w == [v EXCEPT !.task = Over, !.slots = slots - 1]
<1>1. Seen(r, g, v) /\ slots >= 1
  BY ViewSeen, HolderCounted DEF Admitted
<1>2. slots \in 0..MaxWorkflows /\ busy \in Nat /\ leaked \in [workflows : Nat, steps : Nat]
  BY WorkflowAssumption DEF IInv, TypeOK
<1>3. Over \in Task /\ Over.pc = "over"
  BY OverTask
<1>4. Less(slots, 1) = slots - 1 /\ slots - 1 \in 0..MaxWorkflows
  BY <1>1, <1>2, WorkflowAssumption DEF Less
<1>s. v.steps = step[r]
  BY DEF View
<1> HIDE DEF v
<1>5. w \in Views /\ w.task = Over /\ w.slots = slots - 1 /\ w.busy = busy - Calls(task[r][g])
      /\ w.lost = leaked.steps /\ w.locks = Left(r, g) /\ w.status = run[r] /\ w.steps = step[r]
  BY <1>1, <1>3, <1>4, <1>s DEF Seen, Views
<1> HIDE DEF w
<1>6. Fits(r, g, w)
  BY <1>1, <1>2, <1>3, <1>5 DEF Fits, Sound, Sane, Working, Holds, Calls, Admitted, Attending
<1>7. w.locks = locks[r] /\ w.busy = busy /\ leaked = [leaked EXCEPT !.steps = w.lost]
  BY <1>2, <1>5 DEF Left, Calls
<1>8. Becomes(r, g, w)
  BY <1>4, <1>5, <1>7 DEF Becomes, IInv, TypeOK
<1> QED
  BY <1>6, <1>8, TaskKeeps

Compensation(r, g, q, o) ==
    /\ run' = [run EXCEPT ![q] = "queued"]
    /\ origin' = [origin EXCEPT ![q] = o]
    /\ task' = [[task EXCEPT ![r][g] = Over] EXCEPT ![q][1] = Spawned]

\* It ends with run q created for the error workflow.
LEMMA CompensatedKeeps ==
    ASSUME IInv, NEW r \in Run, NEW g \in TaskId, task[r][g].pc = "escalated",
           NEW q \in Run, run[q] = "absent", NEW o \in Origin, Compensation(r, g, q, o),
           slots' = Less(slots, 1), record' \in [Run -> {"pending", "done", "failed"}],
           UNCHANGED <<step, busy, locks, restarts, leaked, overlap, outlived>>
    PROVE  IInv'
<1>1. 1 \in TaskId /\ Spawned \in Task /\ Spawned.pc = "spawned" /\ Over \in Task /\ Over.pc = "over"
  BY WorkflowAssumption, SpawnedTask, OverTask DEF TaskId
<1>2. q # r /\ \A h \in TaskId : task[q][h].pc = "none"
  BY DEF IInv, Absent
<1>3. TypeOK
  BY DEF IInv
<1>t. /\ task'[r][g] = Over /\ task'[q][1] = Spawned
      /\ \A p \in Run \ {q, r}, h \in TaskId : task'[p][h] = task[p][h]
      /\ \A h \in TaskId \ {g} : task'[r][h] = task[r][h]
      /\ \A h \in TaskId \ {1} : task'[q][h] = task[q][h]
  BY <1>1, <1>2, <1>3 DEF TypeOK, Compensation
<1>p. \A p \in Run, h \in TaskId : task'[p][h] = task[p][h] \/ task'[p][h].pc \in {"over", "spawned"}
  BY <1>1, <1>t
<1>r. \A p \in Run : run'[p] = IF p = q THEN "queued" ELSE run[p]
  BY <1>3 DEF TypeOK, Compensation
<1>s. Less(slots, 1) = slots - 1 /\ slots - 1 \in 0..MaxWorkflows /\ slots \in Nat
  BY <1>3, HolderCounted, WorkflowAssumption DEF TypeOK, Less, Admitted
<1>4. TypeOK'
  <2>1. run' \in [Run -> RunStatus] /\ origin' \in [Run -> Origin] /\ task' \in [Run -> [TaskId -> Task]]
    BY <1>1, <1>3 DEF TypeOK, RunStatus, Compensation
  <2>2. \A p \in Run, h \in TaskId :
            task'[p][h].pc \in {"stepwait", "call", "backoff", "escalated"} => task'[p][h].at \in Step
    BY <1>3, <1>p DEF TypeOK
  <2> QED
    BY <1>3, <1>s, <2>1, <2>2 DEF TypeOK, Step, TaskId, Task
<1>5. Tasks'
  BY <1>p DEF IInv, Tasks, Sane, Working, TaskId, Step
<1>a. Absent'
  <2> SUFFICES ASSUME NEW p \in Run, run'[p] = "absent", NEW h \in TaskId
               PROVE  task'[p][h].pc = "none"
    BY DEF Absent, TaskId
  <2>1. run[p] = "absent" /\ p # q
    BY <1>r
  <2>2. task[p][h].pc = "none" /\ p # r
    BY <2>1 DEF IInv, Absent
  <2> QED
    BY <1>t, <2>1, <2>2
<1>6. OnlyMoves(r, g, Over)
  <2>1. /\ Spawned.pc \notin Admitted /\ Spawned.pc # "call"
        /\ task[q][1].pc \notin Admitted /\ task[q][1].pc # "call"
    BY <1>1, <1>2 DEF Admitted
  <2> HIDE DEF Admitted
  <2>2. \A p \in Run, h \in TaskId :
            <<p, h>> = <<r, g>> \/ (p = q /\ h = 1) \/ task'[p][h] = task[p][h]
    BY <1>t
  <2> QED
    BY <1>t, <2>1, <2>2 DEF OnlyMoves
<1>7. SlotsAccounted'
  <2>1. Cardinality(Holders') = Cardinality(Holders) - 1 /\ Cardinality(Callers') = Cardinality(Callers)
    BY <1>1, <1>6, OneCounts, HoldersFinite DEF Admitted
  <2>2. leaked.workflows \in Nat
    BY <1>3 DEF TypeOK
  <2> QED
    BY <1>s, <2>1, <2>2, HoldersFinite DEF IInv, SlotsAccounted
<1>8. Attended'
  <2> SUFFICES ASSUME restarts = 0, NEW p \in Run
               PROVE  /\ run'[p] = "queued" => \E h \in TaskId : task'[p][h].pc \in {"spawned", "waiting"}
                      /\ run'[p] = "running" => \E h \in TaskId : task'[p][h].pc \in {"stepwait", "call", "backoff"}
    BY DEF Attended, TaskId
  <2>1. /\ run[p] = "queued" => \E h \in TaskId : task[p][h].pc \in {"spawned", "waiting"}
        /\ run[p] = "running" => \E h \in TaskId : task[p][h].pc \in {"stepwait", "call", "backoff"}
    BY DEF IInv, Attended
  <2>2. CASE p = q
    BY <1>1, <1>r, <1>t, <2>2
  <2>3. CASE p = r
    BY <1>2, <1>r, <1>t, <2>1, <2>3
  <2>4. CASE p \notin {q, r}
    BY <1>r, <1>t, <2>1, <2>4
  <2> QED
    BY <2>2, <2>3, <2>4
<1>9. CallsLocked' /\ CallsExclusive'
  BY <1>p DEF IInv, CallsLocked, CallsExclusive, TaskId
<1> QED
  BY <1>4, <1>5, <1>a, <1>7, <1>8, <1>9 DEF IInv

\* So does one that has given up its step; the compensation it may start is attended at once.
LEMMA EscalationEndsKeeps ==
    ASSUME IInv, NEW r \in Run, NEW g \in TaskId, EscalationEnds(r, g)
    PROVE  IInv'
<1>1. task[r][g].pc = "escalated" /\ slots' = Less(slots, 1)
      /\ UNCHANGED <<step, busy, locks, restarts, leaked, overlap, outlived>>
  BY DEF EscalationEnds
<1>2. record' \in [Run -> {"pending", "done", "failed"}]
  BY DEF EscalationEnds, IInv, TypeOK
<1>3. CASE task' = [task EXCEPT ![r][g] = Over] /\ UNCHANGED <<run, origin>>
  BY <1>1, <1>2, <1>3, EscalatedKeeps
<1>4. ASSUME NEW q \in Run, run[q] = "absent",
             run' = [run EXCEPT ![q] = "queued"],
             origin' = [origin EXCEPT ![q] = [kind |-> "compensation", source |-> r, from |-> 0]],
             task' = [[task EXCEPT ![r][g] = Over] EXCEPT ![q][1] = Spawned]
      PROVE  IInv'
  <2>1. [kind |-> "compensation", source |-> r, from |-> 0] \in Origin
    BY WorkflowAssumption DEF Origin
  <2> QED
    BY <1>1, <1>2, <1>4, <2>1, CompensatedKeeps DEF Compensation
<1> QED
  BY <1>3, <1>4 DEF EscalationEnds

----------------------------------------------------------------------------
(* The clock and the process. *)

\* A lock expires.
LEMMA LockExpiresKeeps ==
    ASSUME IInv, NEW r \in Run, NEW s \in Step, LockExpires(r, s)
    PROVE  IInv'
<1>1. TypeOK'
  BY DEF IInv, TypeOK, LockExpires, db, Step, TaskId, Task
<1>2. Tasks' /\ Absent' /\ SlotsAccounted' /\ Attended'
  BY DEF IInv, LockExpires, db, Tasks, Absent, SlotsAccounted, Attended,
         Holders, Callers, AllTasks, TaskId, Sane
<1>3. CallsLocked' /\ CallsExclusive'
  BY DEF CallsLocked, CallsExclusive, LockExpires
<1> QED
  BY <1>1, <1>2, <1>3 DEF IInv

\* A run is paused.
LEMMA PauseKeeps ==
    ASSUME IInv, NEW r \in Run, PauseRun(r)
    PROVE  IInv'
<1>1. TypeOK'
  BY DEF IInv, TypeOK, PauseRun, Step, TaskId, Task, RunStatus
<1>r. \A q \in Run : run'[q] = IF q = r THEN "paused" ELSE run[q]
  BY DEF IInv, TypeOK, PauseRun
<1>2. Tasks' /\ Absent' /\ SlotsAccounted' /\ Attended'
  BY <1>r DEF IInv, PauseRun, Tasks, Absent, SlotsAccounted, Attended,
         Holders, Callers, AllTasks, TaskId, Sane
<1>3. CallsLocked' /\ CallsExclusive'
  BY DEF IInv, CallsLocked, CallsExclusive, PauseRun, TaskId
<1> QED
  BY <1>1, <1>2, <1>3 DEF IInv

\* However the process goes down, no task of it is left.
LEMMA NoneLeft ==
    ASSUME IInv, task' = AllOver, locks' = [r \in Run |-> {}], restarts' = restarts + 1,
           UNCHANGED <<db, overlap, outlived>>
    PROVE  /\ Tasks' /\ Absent' /\ Attended' /\ CallsLocked' /\ CallsExclusive'
           /\ Holders' = {} /\ Callers' = {}
           /\ task' \in [Run -> [TaskId -> Task]]
           /\ locks' \in [Run -> SUBSET Step]
           /\ \A r \in Run, g \in TaskId : task'[r][g].pc \in {"none", "over"}
<1>1. Over \in Task /\ Over.pc = "over" /\ NoTask \in Task /\ NoTask.pc = "none"
  BY OverTask, SpawnedTask DEF NoTask
<1>2. \A r \in Run, g \in TaskId : task'[r][g] = IF task[r][g].pc = "none" THEN NoTask ELSE Over
  BY DEF AllOver
<1>3. task' \in [Run -> [TaskId -> Task]] /\ locks' \in [Run -> SUBSET Step]
  BY <1>1 DEF AllOver
<1>4. \A r \in Run, g \in TaskId : task'[r][g].pc \in {"none", "over"}
  BY <1>1, <1>2
<1>5. Tasks' /\ CallsLocked' /\ CallsExclusive'
  BY <1>4 DEF Tasks, Sane, Working, CallsLocked, CallsExclusive, TaskId, Step
<1>6. Absent'
  BY <1>1, <1>2 DEF IInv, Absent, TaskId, db
<1>7. Attended'
  BY WorkflowAssumption DEF Attended, IInv, TypeOK
<1>8. \A rg \in AllTasks : task'[rg[1]][rg[2]].pc \in {"none", "over"}
  BY <1>4 DEF AllTasks
<1>9. Holders' = {} /\ Callers' = {}
  BY <1>8 DEF Holders, Callers, AllTasks, TaskId, Admitted
<1> QED
  BY <1>3, <1>4, <1>5, <1>6, <1>7, <1>9

\* A crash leaks exactly what was held.
LEMMA CrashKeeps ==
    ASSUME IInv, Crash PROVE IInv'
<1>1. task' = AllOver /\ locks' = [r \in Run |-> {}] /\ restarts' = restarts + 1
      /\ UNCHANGED <<db, overlap, outlived>> /\ restarts < MaxRestarts
  BY DEF Crash
<1>2. Cardinality(Holders') = 0 /\ Cardinality(Callers') = 0
  BY <1>1, NoneLeft, FS_EmptySet
<1>3. TypeOK'
  <2>1. leaked' \in [workflows : Nat, steps : Nat] /\ slots' = slots /\ busy' = busy
    BY HoldersFinite DEF Crash, IInv, TypeOK
  <2>2. restarts' \in 0..MaxRestarts
    BY <1>1, WorkflowAssumption DEF IInv, TypeOK
  <2> QED
    BY <1>1, <2>1, <2>2, NoneLeft DEF IInv, TypeOK, db, Step, TaskId, Task
<1>4. SlotsAccounted'
  <2>1. /\ leaked'.workflows = leaked.workflows + Cardinality(Holders)
        /\ leaked'.steps = leaked.steps + Cardinality(Callers)
        /\ slots' = slots /\ busy' = busy
    BY DEF Crash
  <2>2. leaked.workflows \in Nat /\ leaked.steps \in Nat
    BY DEF IInv, TypeOK
  <2> QED
    BY <1>2, <2>1, <2>2, HoldersFinite DEF IInv, SlotsAccounted
<1> QED
  BY <1>1, <1>3, <1>4, NoneLeft DEF IInv

\* A shutdown leaks nothing.
LEMMA ShutdownKeeps ==
    ASSUME IInv, Shutdown PROVE IInv'
<1>1. task' = AllOver /\ locks' = [r \in Run |-> {}] /\ restarts' = restarts + 1
      /\ UNCHANGED <<db, overlap, outlived>> /\ restarts < MaxRestarts
  BY DEF Shutdown
<1>2. Cardinality(Holders') = 0 /\ Cardinality(Callers') = 0
  BY <1>1, NoneLeft, FS_EmptySet
<1>3. leaked' = leaked /\ leaked.workflows \in Nat /\ leaked.steps \in Nat
  BY DEF Shutdown, IInv, TypeOK
<1>4. slots' = leaked.workflows /\ busy' = leaked.steps
  BY <1>3, HoldersFinite DEF Shutdown, IInv, SlotsAccounted, Less
<1>5. slots' \in 0..MaxWorkflows /\ busy' \in 0..MaxSteps
  BY <1>3, <1>4, HoldersFinite, WorkflowAssumption DEF IInv, SlotsAccounted, TypeOK
<1>6. TypeOK'
  <2>1. restarts' \in 0..MaxRestarts
    BY <1>1, WorkflowAssumption DEF IInv, TypeOK
  <2> QED
    BY <1>1, <1>3, <1>5, <2>1, NoneLeft DEF IInv, TypeOK, db, Step, TaskId, Task
<1>7. SlotsAccounted'
  BY <1>2, <1>3, <1>4 DEF SlotsAccounted
<1> QED
  BY <1>1, <1>6, <1>7, NoneLeft DEF IInv

----------------------------------------------------------------------------
(* The theorems. *)

\* The invariant holds at first.
LEMMA InitHolds == Init => IInv
<1> SUFFICES ASSUME Init PROVE IInv
  OBVIOUS
<1>1. NoTask \in Task /\ NoTask.pc = "none"
  BY SpawnedTask DEF NoTask
<1>2. \A r \in Run, g \in TaskId : task[r][g] = NoTask
  BY DEF Init
<1>3. TypeOK
  <2>1. task \in [Run -> [TaskId -> Task]]
    BY <1>1 DEF Init
  <2>2. origin \in [Run -> Origin]
    BY WorkflowAssumption DEF Init, Plain, Origin
  <2>3. run \in [Run -> RunStatus] /\ step \in [Run -> [Step -> StepStatus]]
        /\ record \in [Run -> {"pending", "done", "failed"}] /\ locks \in [Run -> SUBSET Step]
    BY DEF Init, RunStatus, StepStatus
  <2>4. slots \in 0..MaxWorkflows /\ busy \in 0..MaxSteps /\ restarts \in 0..MaxRestarts
    BY WorkflowAssumption DEF Init
  <2>5. leaked \in [workflows : Nat, steps : Nat] /\ overlap \subseteq Run /\ outlived \in BOOLEAN
    BY DEF Init
  <2> QED
    BY <1>1, <1>2, <2>1, <2>2, <2>3, <2>4, <2>5 DEF TypeOK
<1>4. Tasks /\ Absent /\ CallsLocked /\ CallsExclusive
  BY <1>1, <1>2 DEF Tasks, Sane, Working, Absent, CallsLocked, CallsExclusive
<1>5. Attended
  BY DEF Init, Attended
<1>6. Holders = {} /\ Callers = {}
  BY <1>1, <1>2 DEF Holders, Callers, AllTasks, Admitted
<1>7. SlotsAccounted
  BY <1>6, FS_EmptySet DEF Init, SlotsAccounted
<1> QED
  BY <1>3, <1>4, <1>5, <1>7 DEF IInv

\* Every request, every step of a task and every restart keeps the invariant.
LEMMA NextKeeps == IInv /\ [Next]_vars => IInv'
<1> SUFFICES ASSUME IInv, [Next]_vars PROVE IInv'
  OBVIOUS
<1>1. ASSUME NEW r \in Run, StartRun(r) PROVE IInv'
  BY <1>1, CreatedKeeps, WorkflowAssumption DEF StartRun, Plain, Origin
<1>2. ASSUME NEW r \in Run, PauseRun(r) PROVE IInv'
  BY <1>2, PauseKeeps
<1>3. ASSUME NEW r \in Run, NEW q \in Run, NEW s \in Step, ReplayRun(r, q, s) PROVE IInv'
  <2>1. [kind |-> "replay", source |-> q, from |-> s] \in Origin
    BY WorkflowAssumption DEF Origin, Step
  <2> QED
    BY <1>3, <2>1, CreatedKeeps DEF ReplayRun
<1>4. ASSUME NEW r \in Run, NEW g \in TaskId, ResumeRun(r, g) PROVE IInv'
  BY <1>4, ResumeKeeps
<1>5. ASSUME NEW r \in Run, NEW g \in TaskId, TaskStep(r, g) PROVE IInv'
  BY <1>5, BeginsKeeps, GetsSlotKeeps, SlotTimesOutKeeps, StepActionsKeep, CallsKeep,
     EscalationEndsKeeps, CompletionRecordedKeeps, RunErrsKeeps DEF TaskStep
<1>6. ASSUME NEW r \in Run, NEW s \in Step, LockExpires(r, s) PROVE IInv'
  BY <1>6, LockExpiresKeeps
<1>7. CASE Crash
  BY <1>7, CrashKeeps
<1>8. CASE Shutdown
  BY <1>8, ShutdownKeeps
<1>9. CASE UNCHANGED vars
  <2>1. UNCHANGED <<run, origin, step, record, task, slots, busy, locks, restarts, leaked,
                    overlap, outlived>>
    BY <1>9 DEF vars
  <2>2. TypeOK'
    BY <2>1 DEF IInv, TypeOK
  <2>3. Tasks' /\ Absent'
    BY <2>1 DEF IInv, Tasks, Absent
  <2>4. Holders' = Holders /\ Callers' = Callers
    BY <2>1 DEF Holders, Callers
  <2>5. SlotsAccounted'
    BY <2>1, <2>4 DEF IInv, SlotsAccounted
  <2>6. Attended'
    BY <2>1 DEF IInv, Attended
  <2>7. CallsLocked' /\ CallsExclusive'
    BY <2>1 DEF IInv, CallsLocked, CallsExclusive
  <2> QED
    BY <2>2, <2>3, <2>5, <2>6, <2>7 DEF IInv
<1> QED
  BY <1>1, <1>2, <1>3, <1>4, <1>5, <1>6, <1>7, <1>8, <1>9 DEF Next

\* The inductive invariant holds in every reachable state.
THEOREM Invariance == Spec => []IInv
<1> QED
  BY InitHolds, NextKeeps, PTL DEF Spec

\* No variable of the engine leaves its type, and neither slot counter its limit,
\* for any number of runs, steps, attempts and restarts.
THEOREM WorkflowTypes == Spec => []TypeOK
<1>1. IInv => TypeOK
  BY DEF IInv
<1> QED
  BY <1>1, Invariance, PTL

\* The slot counters are always those of the tasks at work, plus the slots that crashes
\* and attempts without a run of their lobster left counted: on every other path of
\* _execute_run and _run_lobster_step what was acquired is released, once.
THEOREM SlotsPaired == Spec => []SlotsAccounted
<1>1. IInv => SlotsAccounted
  BY DEF IInv
<1> QED
  BY <1>1, Invariance, PTL

\* Until the process goes down, every run that says queued or running has a task
\* that is at it.
THEOREM RunsAttended == Spec => []Attended
<1>1. IInv => Attended
  BY DEF IInv
<1> QED
  BY <1>1, Invariance, PTL

\* The lock of task_idempotency_lock.py keeps two tasks from executing one step at
\* once, for as long as no call outlives it.
THEOREM OneCallPerStep == Spec => []CallsExclusive
<1>1. IInv => CallsExclusive
  BY DEF IInv
<1> QED
  BY <1>1, Invariance, PTL

----------------------------------------------------------------------------
(* The order of a run's steps: what InOrder, DoneIsComplete and CompletedStays *)
(* say of every run that no two tasks were at.  Again in two halves, a fact    *)
(* about each function on views and one lemma about the steps of a task.       *)

\* Of a run's row of steps: all before k are complete; a step is touched only
\* when all before it are; all are complete.
Prefix(row, k) == \A u \in Step : u < k => row[u] \in Complete
Ordered(row) == \A s \in Step : row[s] # "waiting" => Prefix(row, s)
AllComplete(row) == \A s \in Step : row[s] \in Complete

\* What a task at work may presume of the steps: it has come to the first one
\* that is not complete, or to the end.
AtWork(row, t) ==
    /\ t.pc \in {"spawned", "waiting"} => t.at = 1
    /\ t.pc \in Attending => Prefix(row, t.at) /\ row[t.at] \notin Complete
    /\ t.pc = "recording" => AllComplete(row)

Kept(row, after) == \A s \in Step : row[s] \in Complete => after[s] = row[s]

\* A task may go on from v; it may leave w.
Orderly(v) ==
    /\ v \in Views /\ Ordered(v.steps) /\ Prefix(v.steps, v.task.at)
    /\ v.status = "done" => AllComplete(v.steps)
Tidy(v, w) ==
    /\ Kept(v.steps, w.steps) /\ Ordered(w.steps) /\ AtWork(w.steps, w.task)
    /\ w.status = "done" => AllComplete(w.steps)

\* The first open step may be worked on.
LEMMA MarkOrdered ==
    ASSUME NEW row \in [Step -> StepStatus], NEW k \in Step, Ordered(row), Prefix(row, k),
           row[k] \notin Complete, NEW st \in {"running", "failed"},
           NEW after, after = [row EXCEPT ![k] = st]
    PROVE  /\ after \in [Step -> StepStatus] /\ after[k] \notin Complete
           /\ Kept(row, after) /\ Ordered(after) /\ Prefix(after, k)
<1>1. after \in [Step -> StepStatus] /\ after[k] \notin Complete
  BY DEF StepStatus, Complete
<1>2. \A s \in Step : s # k => after[s] = row[s]
  OBVIOUS
<1>3. Kept(row, after) /\ Prefix(after, k)
  BY <1>2, WorkflowAssumption DEF Kept, Prefix, Step
<1>4. Ordered(after)
  <2> SUFFICES ASSUME NEW s \in Step, after[s] # "waiting" PROVE Prefix(after, s)
    BY DEF Ordered
  <2>1. CASE s = k
    BY <1>3, <2>1
  <2>2. CASE s # k
    BY <1>2, <2>2 DEF Ordered, Prefix
  <2> QED
    BY <2>1, <2>2
<1> QED
  BY <1>1, <1>3, <1>4

\* A failed attempt leaves its step open.
LEMMA FailedTidy ==
    ASSUME NEW v, Orderly(v), v.task.at \in Step, v.steps[v.task.at] \notin Complete
    PROVE  Tidy(v, Failed(v))
<1>1. v \in Views /\ v.steps \in [Step -> StepStatus] /\ v.task \in Task
  BY DEF Orderly, Views
<1>2. CASE v.task.try < MaxRetries
  <2>1. /\ Failed(v).steps = v.steps /\ Failed(v).status = v.status
        /\ Failed(v).task.at = v.task.at /\ Failed(v).task.pc = "backoff"
    BY <1>1, <1>2 DEF Failed, Views, Task
  <2> QED
    BY <2>1 DEF Tidy, Orderly, Kept, AtWork, Attending
<1>3. CASE ~ (v.task.try < MaxRetries)
  <2>1. /\ Failed(v).steps = [v.steps EXCEPT ![v.task.at] = "failed"]
        /\ Failed(v).status = "paused" /\ Failed(v).task.pc = "escalated"
    BY <1>1, <1>3 DEF Failed, Views, Task
  <2>2. Kept(v.steps, Failed(v).steps) /\ Ordered(Failed(v).steps)
    BY <1>1, <2>1, MarkOrdered DEF Orderly
  <2> QED
    BY <2>1, <2>2 DEF Tidy, AtWork, Attending
<1> QED
  BY <1>2, <1>3

\* So does a call that begins, or comes back from the lock.
LEMMA CalledTidy ==
    ASSUME NEW v, Orderly(v), v.task.at \in Step, v.steps[v.task.at] \notin Complete
    PROVE  Tidy(v, Called(v))
<1>0. CASE ~v.fit
  <2> DEFINE x == Leaking(v)
  <2>1. /\ x.task = v.task /\ x.steps = v.steps /\ x.status = v.status
        /\ x.slots = v.slots /\ x.locks = v.locks
    BY DEF Leaking, Orderly, Views
  <2>2. Called(v) = Failed(x)
    BY <1>0 DEF Called
  <2>3. Failed(x).task = Failed(v).task /\ Failed(x).steps = Failed(v).steps
        /\ Failed(x).status = Failed(v).status
    BY DEF Failed, Leaking, Orderly, Views
  <2> HIDE DEF x
  <2> QED
    BY <2>2, <2>3, FailedTidy DEF Tidy
<1>1. CASE v.fit /\ v.task.at \in v.locks
  BY <1>1, FailedTidy DEF Called
<1>2. CASE v.fit /\ v.task.at \notin v.locks
  <2>1. /\ Called(v).steps = v.steps /\ Called(v).status = v.status
        /\ Called(v).task.at = v.task.at /\ Called(v).task.pc = "call"
    BY <1>2 DEF Called, Orderly, Views, Task
  <2> QED
    BY <2>1 DEF Tidy, Orderly, Kept, AtWork, Attending
<1> QED
  BY <1>0, <1>1, <1>2

\* An attempt marks the first open step as running.
LEMMA AttemptedTidy ==
    ASSUME NEW v, Orderly(v), v.task.at \in Step, v.steps[v.task.at] \notin Complete
    PROVE  Tidy(v, Attempted(v))
<1> DEFINE w == [v EXCEPT !.steps[v.task.at] = "running"]
<1>1. v \in Views /\ v.steps \in [Step -> StepStatus] /\ v.task \in Task
  BY DEF Orderly, Views
<1>2. /\ w \in Views /\ w.task = v.task /\ w.status = v.status /\ w.busy = v.busy
      /\ w.steps = [v.steps EXCEPT ![v.task.at] = "running"]
  BY <1>1 DEF Views, StepStatus
<1>3. /\ w.steps[v.task.at] \notin Complete /\ Kept(v.steps, w.steps)
      /\ Ordered(w.steps) /\ Prefix(w.steps, v.task.at)
  BY <1>1, <1>2, MarkOrdered DEF Orderly
<1>4. w.status # "done"
  BY <1>2 DEF Orderly, AllComplete
<1>5. Attempted(v) = IF v.busy < MaxSteps THEN Called(w) ELSE [w EXCEPT !.task.pc = "stepwait"]
  BY DEF Attempted
<1> HIDE DEF w
<1>6. Orderly(w) /\ w.task.at \in Step /\ w.steps[w.task.at] \notin Complete
  BY <1>2, <1>3, <1>4 DEF Orderly
<1>7. CASE v.busy < MaxSteps
  <2>1. Tidy(w, Called(w))
    BY <1>6, CalledTidy
  <2>2. Kept(v.steps, Called(w).steps)
    BY <1>3, <2>1 DEF Tidy, Kept
  <2> QED
    BY <1>5, <1>7, <2>1, <2>2 DEF Tidy
<1>8. CASE ~ (v.busy < MaxSteps)
  <2> DEFINE x == [w EXCEPT !.task.pc = "stepwait"]
  <2>1. x.steps = w.steps /\ x.status = w.status /\ x.task.at = w.task.at /\ x.task.pc = "stepwait"
    BY <1>1, <1>2 DEF Views, Task
  <2>2. Attempted(v) = x
    BY <1>5, <1>8
  <2> HIDE DEF x
  <2> QED
    BY <1>2, <1>3, <1>4, <2>1, <2>2 DEF Tidy, AtWork, Attending
<1> QED
  BY <1>7, <1>8

\* So does the way to the next open step, or to the end.
LEMMA AdvancedTidy ==
    ASSUME NEW r \in Run, NEW v, Orderly(v)
    PROVE  Tidy(v, Advanced(r, v))
<1> DEFINE todo == Todo(r, v)
           skipped == {s \in Open(v) : \A u \in todo : s < u}
           row == [s \in Step |-> IF s \in skipped THEN "skipped" ELSE v.steps[s]]
           w == [v EXCEPT !.steps = row]
<1>1. v \in Views /\ v.steps \in [Step -> StepStatus] /\ v.task \in Task
  BY DEF Orderly, Views
<1>2. todo \subseteq Open(v) /\ Open(v) \subseteq Step /\ skipped \subseteq Open(v)
  BY DEF Todo, Open
<1>3. \A s \in Open(v) : v.steps[s] \notin Complete
  BY DEF Open
<1>4. /\ row \in [Step -> StepStatus]
      /\ \A s \in Step : row[s] = IF s \in skipped THEN "skipped" ELSE v.steps[s]
  BY <1>1 DEF StepStatus
<1>5. w \in Views /\ w.steps = row /\ w.task = v.task /\ w.status = v.status
  BY <1>1, <1>4 DEF Views
<1>6. \A s \in Step : s \notin Open(v) => v.steps[s] \in Complete
  <2> SUFFICES ASSUME NEW s \in Step, s \notin Open(v) PROVE v.steps[s] \in Complete
    OBVIOUS
  <2>1. v.steps[s] \in Complete \/ ~ (s >= v.task.at)
    BY DEF Open
  <2>2. ~ (s >= v.task.at) => s < v.task.at
    BY <1>1, WorkflowAssumption DEF Task, Step
  <2> QED
    BY <2>1, <2>2 DEF Orderly, Prefix
<1> HIDE DEF skipped, row
<1>7. Kept(v.steps, row)
  BY <1>2, <1>3, <1>4 DEF Kept
<1>8. CASE v.task.at <= NSteps /\ v.status # "running"
  <2>1. Advanced(r, v) = Returned(v)
    BY <1>8 DEF Advanced
  <2>2. /\ Returned(v).steps = v.steps /\ Returned(v).status = v.status
        /\ Returned(v).task.pc = "over"
    BY <1>1, OverTask DEF Returned, Views
  <2> QED
    BY <2>1, <2>2 DEF Tidy, Orderly, Kept, AtWork, Attending
<1>9. CASE ~ (v.task.at <= NSteps /\ v.status # "running") /\ todo = {}
  <2> DEFINE x == [w EXCEPT !.status = "done", !.task.pc = "recording", !.task.at = NSteps + 1]
  <2>1. Advanced(r, v) = x
    BY <1>9 DEF Advanced, skipped, row
  <2>2. x.steps = row /\ x.task.pc = "recording"
    BY <1>1, <1>5 DEF Views, Task
  <2>3. skipped = Open(v)
    BY <1>9 DEF skipped
  <2>4. AllComplete(row)
    BY <1>4, <1>6, <2>3 DEF AllComplete, Complete
  <2>5. Ordered(row)
    BY <2>4 DEF Ordered, Prefix, AllComplete
  <2> HIDE DEF x
  <2> QED
    BY <1>7, <2>1, <2>2, <2>4, <2>5 DEF Tidy, AtWork, Attending
<1>10. CASE ~ (v.task.at <= NSteps /\ v.status # "running") /\ todo # {}
  <2> DEFINE k == First(todo)
             x == [w EXCEPT !.task.at = k, !.task.try = 0, !.task.jump = TRUE]
  <2>1. Advanced(r, v) = Attempted(x)
    BY <1>10 DEF Advanced, skipped, row
  <2>2. k \in todo /\ \A u \in todo : k <= u
    BY <1>2, <1>10, FirstIsLeast
  <2>3. k \in Step /\ k \in Open(v)
    BY <1>2, <2>2
  <2> HIDE DEF k, todo, w
  <2>4. k \in 1..(NSteps + 1) /\ 0 \in 0..MaxRetries
    BY <2>3, WorkflowAssumption DEF Step
  <2>5. x \in Views /\ x.steps = row /\ x.task.at = k /\ x.status = v.status
    BY <1>1, <1>5, <2>4 DEF Views, Task
  <2> HIDE DEF x
  <2>6. \A s \in skipped : s < k
    BY <2>2 DEF skipped, todo
  <2>7. \A s \in Open(v) : s < k => s \in skipped
    <3> SUFFICES ASSUME NEW s \in Open(v), s < k PROVE s \in skipped
      OBVIOUS
    <3>1. ASSUME NEW u \in todo PROVE s < u
      <4>1. s \in Nat /\ k \in Nat /\ u \in Nat /\ k <= u
        BY <1>2, <2>2, <2>3, WorkflowAssumption DEF Step
      <4> QED
        BY <4>1
    <3> QED
      BY <3>1 DEF skipped, todo
  <2>8. ~ (k < k)
    BY <2>3, WorkflowAssumption DEF Step
  <2>9. row[k] \notin Complete
    BY <1>3, <1>4, <2>3, <2>6, <2>8
  <2>10. Prefix(row, k)
    <3> SUFFICES ASSUME NEW u \in Step, u < k PROVE row[u] \in Complete
      BY DEF Prefix
    <3> QED
      BY <1>4, <1>6, <2>7 DEF Complete
  <2>11. Ordered(row)
    <3> SUFFICES ASSUME NEW s \in Step, row[s] # "waiting" PROVE Prefix(row, s)
      BY DEF Ordered
    <3>1. CASE s \in skipped
      <4>1. s < k
        BY <2>6, <3>1
      <4> SUFFICES ASSUME NEW u \in Step, u < s PROVE row[u] \in Complete
        BY DEF Prefix
      <4>2. u < k
        BY <2>3, <4>1, WorkflowAssumption DEF Step
      <4> QED
        BY <2>10, <4>2 DEF Prefix
    <3>2. CASE s \notin skipped
      <4>1. Prefix(v.steps, s)
        BY <1>4, <3>2 DEF Orderly, Ordered
      <4> QED
        BY <4>1, <1>4 DEF Prefix, Complete
    <3> QED
      BY <3>1, <3>2
  <2>12. v.status # "done"
    BY <1>3, <2>3 DEF Orderly, AllComplete
  <2>13. Orderly(x)
    BY <2>5, <2>10, <2>11, <2>12 DEF Orderly
  <2>14. Tidy(x, Attempted(x))
    BY <2>3, <2>5, <2>9, <2>13, AttemptedTidy
  <2>15. Kept(v.steps, Attempted(x).steps)
    BY <1>7, <2>5, <2>14 DEF Tidy, Kept
  <2> QED
    BY <2>1, <2>14, <2>15 DEF Tidy
<1> QED
  BY <1>8, <1>9, <1>10

\* A task that asks for its workflow slot is at the first step.
LEMMA PolledTidy ==
    ASSUME NEW r \in Run, NEW v \in Views, Ordered(v.steps), v.task.at = 1,
           v.status = "done" => AllComplete(v.steps)
    PROVE  Tidy(v, Polled(r, v))
<1>1. v.steps \in [Step -> StepStatus] /\ v.task \in Task /\ v.slots \in 0..MaxWorkflows
  BY DEF Views
<1>2. CASE v.slots < MaxWorkflows
  <2> DEFINE x == [v EXCEPT !.slots = v.slots + 1, !.status = "running"]
  <2>1. Polled(r, v) = Advanced(r, x)
    BY <1>2 DEF Polled
  <2>2. v.slots + 1 \in 0..MaxWorkflows
    BY <1>1, <1>2, WorkflowAssumption
  <2>3. x \in Views /\ x.steps = v.steps /\ x.task = v.task /\ x.status = "running"
    BY <2>2 DEF Views, RunStatus
  <2> HIDE DEF x
  <2>4. Prefix(x.steps, x.task.at)
    BY <2>3, WorkflowAssumption DEF Prefix, Step
  <2>5. Tidy(x, Advanced(r, x))
    BY <2>3, <2>4, AdvancedTidy DEF Orderly
  <2> QED
    BY <2>1, <2>3, <2>5 DEF Tidy
<1>3. CASE ~ (v.slots < MaxWorkflows)
  <2> DEFINE x == [v EXCEPT !.task.pc = "waiting"]
  <2>1. Polled(r, v) = x
    BY <1>3 DEF Polled
  <2>2. /\ x.steps = v.steps /\ x.status = v.status
        /\ x.task.at = 1 /\ x.task.pc = "waiting"
    BY <1>1 DEF Views, Task
  <2> HIDE DEF x
  <2> QED
    BY <2>1, <2>2 DEF Tidy, Kept, AtWork, Attending
<1> QED
  BY <1>2, <1>3

----------------------------------------------------------------------------
(* The same for the steps of Next, run by run. *)

\* One task at most is at a run, its steps are in order, the task has come to
\* the first open one, and only a run with no open step is done.
RunOK(r) ==
    /\ \A g, h \in TaskId : task[r][g].pc \in Alive /\ task[r][h].pc \in Alive => g = h
    /\ Ordered(step[r])
    /\ \A g \in TaskId : AtWork(step[r], task[r][g])
    /\ (run[r] = "done" \/ record[r] = "done") => AllComplete(step[r])

OInv == \A r \in Run \ overlap : RunOK(r)

\* A step of Next has done r no harm.
Fares(r) == RunOK(r)' /\ Kept(step[r], step'[r])

\* A run whose steps stay, and whose tasks stay or are over.
LEMMA Rests ==
    ASSUME NEW r \in Run, RunOK(r), step'[r] = step[r],
           \A g \in TaskId : task'[r][g].pc \in Alive => task'[r][g] = task[r][g],
           (run'[r] = "done" \/ record'[r] = "done") =>
              \/ run[r] = "done" \/ record[r] = "done"
              \/ \E g \in TaskId : task[r][g].pc = "recording"
    PROVE  Fares(r)
<1>1. \A g, h \in TaskId : task'[r][g].pc \in Alive /\ task'[r][h].pc \in Alive => g = h
  BY DEF RunOK
<1>2. \A g \in TaskId : AtWork(step'[r], task'[r][g])
  BY DEF RunOK, AtWork, Attending, Alive, Admitted
<1>3. (run'[r] = "done" \/ record'[r] = "done") => AllComplete(step'[r])
  BY DEF RunOK, AtWork
<1> QED
  BY <1>1, <1>2, <1>3 DEF Fares, RunOK, Kept

\* A run that nobody is at and that is given its first task, or another one.
LEMMA Starts ==
    ASSUME NEW r \in Run, RunOK(r), NEW g \in TaskId,
           \A h \in TaskId : task[r][h].pc \notin Alive,
           task[r] \in [TaskId -> Task], task'[r] = [task[r] EXCEPT ![g] = Spawned],
           step[r] \in [Step -> StepStatus],
           step'[r] = step[r] \/ step'[r] = Reset(step[r]),
           run'[r] = "queued", record'[r] = record[r]
    PROVE  Fares(r)
<1>1. Spawned.pc = "spawned" /\ Spawned.at = 1
  BY DEF Spawned, NoTask
<1>2. /\ \A s \in Step : step'[r][s] # "waiting" => step[r][s] # "waiting"
      /\ Kept(step[r], step'[r])
  BY DEF Reset, Kept, Complete
<1>3. Ordered(step'[r])
  BY <1>2 DEF RunOK, Ordered, Prefix, Kept
<1>4. record'[r] = "done" => AllComplete(step'[r])
  BY <1>2 DEF RunOK, AllComplete, Kept
<1>5. \A h \in TaskId : task'[r][h] = IF h = g THEN Spawned ELSE task[r][h]
  OBVIOUS
<1>6. \A h \in TaskId : AtWork(step'[r], task'[r][h])
  BY <1>1, <1>5 DEF AtWork, Attending, Alive, Admitted
<1>7. \A h, i \in TaskId : task'[r][h].pc \in Alive /\ task'[r][i].pc \in Alive => h = i
  BY <1>5
<1> QED
  BY <1>2, <1>3, <1>4, <1>6, <1>7 DEF Fares, RunOK

\* A run whose only task goes on from v and leaves w.
LEMMA GoesOn ==
    ASSUME IInv, NEW r \in Run, RunOK(r), NEW g \in TaskId, task[r][g].pc \in Alive,
           NEW v, v.steps = step[r], NEW w, Tidy(v, w), Progress(r, g, w)
    PROVE  Fares(r)
<1>1. /\ run'[r] = w.status /\ step'[r] = w.steps /\ record'[r] = record[r]
      /\ task'[r] = [task[r] EXCEPT ![g] = w.task]
  BY DEF Progress, Becomes, IInv, TypeOK
<1>2. \A h \in TaskId : task'[r][h] = IF h = g THEN w.task ELSE task[r][h]
  BY <1>1 DEF IInv, TypeOK
<1>3. \A h \in TaskId : h # g => task[r][h].pc \notin Alive
  BY DEF RunOK
<1>4. Kept(step[r], step'[r]) /\ Ordered(step'[r]) /\ AtWork(step'[r], w.task)
  BY <1>1 DEF Tidy
<1>5. \A h \in TaskId : AtWork(step'[r], task'[r][h])
  BY <1>2, <1>3, <1>4 DEF AtWork, Attending, Alive, Admitted
<1>6. \A h, i \in TaskId : task'[r][h].pc \in Alive /\ task'[r][i].pc \in Alive => h = i
  BY <1>2, <1>3
<1>7. run'[r] = "done" => AllComplete(step'[r])
  BY <1>1 DEF Tidy
<1>8. record'[r] = "done" => AllComplete(step'[r])
  BY <1>1, <1>4 DEF RunOK, AllComplete, Kept
<1> QED
  BY <1>4, <1>5, <1>6, <1>7, <1>8 DEF Fares, RunOK

\* The steps of one task leave the other runs as they are.
LEMMA ElsewhereRests ==
    ASSUME IInv, NEW r \in Run, NEW g \in TaskId, NEW w, Becomes(r, g, w),
           NEW q \in Run, q # r, RunOK(q), record'[q] = record[q]
    PROVE  Fares(q)
<1>1. run'[q] = run[q] /\ step'[q] = step[q] /\ task'[q] = task[q]
  BY DEF Becomes, IInv, TypeOK
<1> QED
  BY <1>1, Rests

\* A task at work sees its own row of steps, with its own call ended.
LEMMA OrderlyViews ==
    ASSUME IInv, NEW r \in Run, RunOK(r), NEW g \in TaskId, task[r][g].pc \in Alive,
           NEW ok \in BOOLEAN
    PROVE  /\ View(r, g, ok) \in Views /\ View(r, g, ok).task = task[r][g]
           /\ View(r, g, ok).steps = step[r] /\ Ordered(step[r])
           /\ View(r, g, ok).status = "done" => AllComplete(step[r])
           /\ task[r][g].pc \in {"spawned", "waiting"} => task[r][g].at = 1
           /\ task[r][g].pc \in Attending =>
                 /\ Orderly(View(r, g, ok)) /\ task[r][g].at \in Step
                 /\ step[r][task[r][g].at] \notin Complete
           /\ task[r][g].pc = "call" =>
                 /\ Orderly(Ended(View(r, g, ok))) /\ Ended(View(r, g, ok)).task = task[r][g]
                 /\ Ended(View(r, g, ok)).steps = step[r]
<1> DEFINE v == View(r, g, ok)
<1>1. v \in Views /\ v.task = task[r][g] /\ v.steps = step[r] /\ v.status = run[r]
  BY ViewSeen DEF View, Alive, Admitted
<1>2. AtWork(step[r], task[r][g]) /\ Ordered(step[r]) /\ (run[r] = "done" => AllComplete(step[r]))
  BY DEF RunOK
<1>3. task[r][g].pc \in Attending => task[r][g].at \in Step
  BY DEF IInv, TypeOK, Attending
<1> HIDE DEF v
<1>4. task[r][g].pc \in Attending => Orderly(v)
  BY <1>1, <1>2 DEF Orderly, AtWork
<1>5. ASSUME task[r][g].pc = "call"
      PROVE  Orderly(Ended(v)) /\ Ended(v).task = task[r][g] /\ Ended(v).steps = step[r]
  <2>1. Ended(v) \in Views /\ Ended(v).task = task[r][g]
    BY <1>5, EndedSeen DEF Seen, v
  <2>2. Ended(v).steps = step[r] /\ Ended(v).status = v.status
    BY <1>1 DEF Ended, Views
  <2> QED
    BY <1>1, <1>4, <1>5, <2>1, <2>2 DEF Orderly, Attending
<1> QED
  BY <1>1, <1>2, <1>3, <1>4, <1>5 DEF v, AtWork

\* A task that begins, or gets its workflow slot.
LEMMA BeginningFares ==
    ASSUME IInv, NEW r \in Run, RunOK(r), NEW g \in TaskId, Begins(r, g) \/ GetsSlot(r, g)
    PROVE  Fares(r)
<1>0. task[r][g].pc = "spawned" \/ task[r][g].pc = "waiting"
  BY Zenon DEF Begins, GetsSlot
<1>1. task[r][g].pc \in Alive /\ task[r][g].pc \in {"spawned", "waiting"}
  BY <1>0 DEF Alive
<1>2. CASE GetsSlot(r, g)
  <2>1. PICK ok \in BOOLEAN : Progress(r, g, Polled(r, View(r, g, ok)))
    BY <1>2 DEF GetsSlot
  <2>2. Tidy(View(r, g, ok), Polled(r, View(r, g, ok)))
    BY <1>1, OrderlyViews, PolledTidy
  <2> QED
    BY <1>1, <2>1, <2>2, OrderlyViews, GoesOn
<1>3. CASE Begins(r, g)
  <2> DEFINE o == origin[r]
             t == IF o.kind = "replay"
                  THEN [task[r][g] EXCEPT !.src = {s \in Step : step[o.source][s] = "done"}, !.jump = FALSE]
                  ELSE task[r][g]
  <2>1. task[r][g] \in Task /\ task[r][g].at = 1
    BY <1>1, OrderlyViews DEF IInv, TypeOK
  <2>2. {s \in Step : step[o.source][s] = "done"} \in SUBSET Step
    OBVIOUS
  <2>3. t \in Task /\ t.at = 1
    BY <2>1, <2>2 DEF Task
  <2>4. PICK ok \in BOOLEAN : Progress(r, g, Polled(r, [View(r, g, ok) EXCEPT !.task = t]))
    BY <1>3, Zenon DEF Begins
  <2> DEFINE v == [View(r, g, ok) EXCEPT !.task = t]
  <2> HIDE DEF t
  <2>5. /\ v \in Views /\ v.steps = step[r] /\ v.task = t
        /\ v.status = View(r, g, ok).status
    BY <1>1, <2>3, OrderlyViews DEF Views
  <2>p. Progress(r, g, Polled(r, v))
    BY <2>4
  <2> HIDE DEF v
  <2>6. Tidy(v, Polled(r, v))
    BY <1>1, <2>3, <2>5, OrderlyViews, PolledTidy
  <2> QED
    BY <1>1, <2>p, <2>5, <2>6, GoesOn
<1> QED
  BY <1>2, <1>3

\* A task at a step, before a call and after a failed one.
LEMMA AttemptFares ==
    ASSUME IInv, NEW r \in Run, RunOK(r), NEW g \in TaskId,
           \/ GetsStepSlot(r, g) \/ StepSlotTimesOut(r, g)
           \/ BackoffEnds(r, g) \/ CallFails(r, g)
    PROVE  Fares(r)
<1>1. task[r][g].pc \in Attending /\ task[r][g].pc \in Alive
  BY DEF GetsStepSlot, StepSlotTimesOut, BackoffEnds, CallFails, Attending, Alive, Admitted
<1>2. \A ok \in BOOLEAN : LET v == View(r, g, ok) IN
         /\ Orderly(v) /\ v.task = task[r][g] /\ v.steps = step[r] /\ v \in Views
         /\ v.task.at \in Step /\ v.steps[v.task.at] \notin Complete
  BY <1>1, OrderlyViews
<1>3. CASE GetsStepSlot(r, g)
  <2>1. PICK ok \in BOOLEAN : Progress(r, g, Called(View(r, g, ok)))
    BY <1>3 DEF GetsStepSlot
  <2> DEFINE v == View(r, g, ok)
  <2>2. Tidy(v, Called(v)) /\ v.steps = step[r]
    BY <1>2, CalledTidy
  <2> QED
    BY <1>1, <2>1, <2>2, GoesOn
<1>4. CASE StepSlotTimesOut(r, g)
  <2> DEFINE v == View(r, g, TRUE)
  <2>1. Tidy(v, Failed(v)) /\ v.steps = step[r]
    BY <1>2, FailedTidy
  <2> QED
    BY <1>1, <1>4, <2>1, GoesOn DEF StepSlotTimesOut
<1>5. CASE BackoffEnds(r, g)
  <2>1. PICK ok \in BOOLEAN : Progress(r, g, Attempted([View(r, g, ok) EXCEPT !.task.try = @ + 1]))
    BY <1>5 DEF BackoffEnds
  <2> DEFINE v == View(r, g, ok)
             x == [v EXCEPT !.task.try = @ + 1]
             t == [v.task EXCEPT !.try = @ + 1]
  <2>v. /\ Orderly(v) /\ v.task = task[r][g] /\ v.steps = step[r] /\ v \in Views
        /\ v.task.at \in Step /\ v.steps[v.task.at] \notin Complete
    BY <1>2
  <2>p. Progress(r, g, Attempted(x)) /\ task[r][g].pc = "backoff"
    BY <1>5, <2>1 DEF BackoffEnds
  <2>2. v.task \in Task /\ v.task.try + 1 \in 0..MaxRetries
    BY <2>v, <2>p, WorkflowAssumption DEF Views, Task, IInv, Tasks, Sane
  <2> HIDE DEF v
  <2>3. t \in Task /\ t.at = v.task.at
    BY <2>2 DEF Task
  <2>4. x = [v EXCEPT !.task = t]
    OBVIOUS
  <2> HIDE DEF x, t
  <2>5. x \in Views /\ x.task = t /\ x.steps = v.steps /\ x.status = v.status
    BY <2>v, <2>3, <2>4 DEF Views
  <2>6. Orderly(x) /\ x.task.at \in Step /\ x.steps[x.task.at] \notin Complete
    BY <2>v, <2>3, <2>5 DEF Orderly
  <2>7. Tidy(x, Attempted(x)) /\ x.steps = step[r]
    BY <2>v, <2>5, <2>6, AttemptedTidy
  <2> QED
    BY <1>1, <2>p, <2>7, GoesOn
<1>6. CASE CallFails(r, g)
  <2> DEFINE v == View(r, g, TRUE)
             x == Ended(v)
  <2>1. Progress(r, g, Failed(x)) /\ task[r][g].pc = "call"
    BY <1>6 DEF CallFails
  <2>2. Orderly(x) /\ x.task = task[r][g] /\ x.steps = step[r]
    BY <1>1, <2>1, OrderlyViews
  <2>v. task[r][g].at \in Step /\ step[r][task[r][g].at] \notin Complete
    BY <1>2
  <2> HIDE DEF x, v
  <2>3. Tidy(x, Failed(x))
    BY <2>v, <2>2, FailedTidy
  <2> QED
    BY <1>1, <2>1, <2>2, <2>3, GoesOn
<1> QED
  BY <1>3, <1>4, <1>5, <1>6

\* A task whose call has succeeded has its step behind it.
LEMMA SucceededOrderly ==
    ASSUME IInv, NEW r \in Run, RunOK(r), NEW g \in TaskId, task[r][g].pc = "call", NEW ok \in BOOLEAN
    PROVE  /\ Orderly(Succeeded(View(r, g, ok)))
           /\ Kept(step[r], Succeeded(View(r, g, ok)).steps)
<1> DEFINE v == Ended(View(r, g, ok))
           k == v.task.at
           t == [v.task EXCEPT !.at = @ + 1, !.try = 0]
           row == [v.steps EXCEPT ![k] = "done"]
           x == [v EXCEPT !.steps[v.task.at] = "done", !.task.at = @ + 1, !.task.try = 0]
<1>1. task[r][g].pc \in Attending /\ task[r][g].pc \in Alive
  BY DEF Attending, Alive, Admitted
<1>2. /\ Orderly(v) /\ v.task = task[r][g] /\ v.steps = step[r]
      /\ k \in Step /\ v.steps[k] \notin Complete
  BY <1>1, OrderlyViews
<1>3. Succeeded(View(r, g, ok)) = x
  BY DEF Succeeded, Ended
<1> HIDE DEF v
<1>4. v \in Views /\ v.task \in Task /\ v.steps \in [Step -> StepStatus]
  BY <1>2 DEF Orderly, Views
<1>5. k + 1 \in 1..(NSteps + 1) /\ 0 \in 0..MaxRetries
  BY <1>2, WorkflowAssumption DEF Step
<1>6. t \in Task /\ t.at = k + 1
  BY <1>4, <1>5 DEF Task
<1>7. /\ row \in [Step -> StepStatus]
      /\ \A s \in Step : row[s] = IF s = k THEN "done" ELSE v.steps[s]
  BY <1>2, <1>4 DEF StepStatus
<1>8. x = [v EXCEPT !.steps = row, !.task = t]
  OBVIOUS
<1> HIDE DEF x, t, row
<1>9. x \in Views /\ x.steps = row /\ x.task = t /\ x.status = v.status
  BY <1>4, <1>6, <1>7, <1>8 DEF Views
<1>10. Kept(v.steps, row)
  BY <1>2, <1>7 DEF Kept
<1>11. Prefix(v.steps, k) /\ Ordered(v.steps) /\ v.status # "done"
  BY <1>2 DEF Orderly, AllComplete
<1>12. Prefix(row, k + 1)
  <2> SUFFICES ASSUME NEW u \in Step, u < k + 1 PROVE row[u] \in Complete
    BY DEF Prefix
  <2>1. u = k \/ u < k
    BY <1>2, WorkflowAssumption DEF Step
  <2> QED
    BY <1>7, <1>11, <2>1 DEF Prefix, Complete
<1>13. Ordered(row)
  <2> SUFFICES ASSUME NEW s \in Step, row[s] # "waiting" PROVE Prefix(row, s)
    BY DEF Ordered
  <2>1. Prefix(v.steps, s)
    BY <1>7, <1>11 DEF Ordered
  <2> QED
    BY <1>7, <2>1 DEF Prefix, Complete
<1>14. Orderly(x)
  BY <1>6, <1>9, <1>11, <1>12, <1>13 DEF Orderly
<1> QED
  BY <1>2, <1>3, <1>9, <1>10, <1>14

\* So the task goes on from there.
LEMMA SuccessFares ==
    ASSUME IInv, NEW r \in Run, RunOK(r), NEW g \in TaskId, CallSucceeds(r, g)
    PROVE  Fares(r)
<1>1. PICK ok \in BOOLEAN : Progress(r, g, Advanced(r, Succeeded(View(r, g, ok))))
  BY DEF CallSucceeds
<1> DEFINE x == Succeeded(View(r, g, ok))
           v == View(r, g, ok)
<1>2. task[r][g].pc = "call" /\ task[r][g].pc \in Alive
  BY DEF CallSucceeds, Alive, Admitted
<1>3. Orderly(x) /\ Kept(step[r], x.steps)
  BY <1>2, SucceededOrderly
<1>4. v.steps = step[r]
  BY DEF View
<1>5. Progress(r, g, Advanced(r, x))
  BY <1>1
<1> HIDE DEF x, v
<1>6. Tidy(x, Advanced(r, x))
  BY <1>3, AdvancedTidy
<1>7. Tidy(v, Advanced(r, x))
  BY <1>3, <1>4, <1>6 DEF Tidy, Kept
<1> QED
  BY <1>2, <1>4, <1>5, <1>7, GoesOn

\* A task that ends, of itself or because nobody answers it.
LEMMA EndingFares ==
    ASSUME IInv, NEW r \in Run, RunOK(r), NEW g \in TaskId,
           SlotTimesOut(r, g) \/ CompletionRecorded(r, g)
    PROVE  Fares(r)
<1> DEFINE v == View(r, g, TRUE)
<1>1. v \in Views /\ v.status = run[r] /\ v.steps = step[r]
  BY ViewSeen DEF View, SlotTimesOut, CompletionRecorded
<1> HIDE DEF v
<1>2. \A w : Becomes(r, g, w) => /\ run'[r] = w.status /\ step'[r] = w.steps
                                 /\ task'[r] = [task[r] EXCEPT ![g] = w.task]
  BY DEF Becomes, IInv, TypeOK
<1>3. /\ run'[r] \in {run[r], "failed"} /\ step'[r] = step[r]
      /\ task'[r] = [task[r] EXCEPT ![g] = Over]
  <2>1. CASE SlotTimesOut(r, g)
    <3> DEFINE w == [v EXCEPT !.task = Over, !.status = "failed"]
    <3>1. Becomes(r, g, w)
      BY <2>1 DEF SlotTimesOut, v
    <3>2. w.status = "failed" /\ w.steps = step[r] /\ w.task = Over
      BY <1>1 DEF Views
    <3> HIDE DEF w
    <3> QED
      BY <1>2, <3>1, <3>2
  <2>2. CASE CompletionRecorded(r, g)
    <3> DEFINE w == Returned(v)
    <3>1. Becomes(r, g, w)
      BY <2>2 DEF CompletionRecorded, v
    <3>2. w.status = run[r] /\ w.steps = step[r] /\ w.task = Over
      BY <1>1 DEF Views, Returned
    <3> HIDE DEF w
    <3> QED
      BY <1>2, <3>1, <3>2
  <2> QED
    BY <2>1, <2>2
<1>4. \A h \in TaskId : task'[r][h].pc \in Alive => task'[r][h] = task[r][h]
  BY <1>3, OverTask DEF IInv, TypeOK, Alive, Admitted
<1>5. record'[r] = "done" => record[r] = "done" \/ task[r][g].pc = "recording"
  BY DEF SlotTimesOut, CompletionRecorded, IInv, TypeOK
<1> QED
  BY <1>3, <1>4, <1>5, Rests

\* A run that an error ends: its steps are as they were, but for one that was executed.
LEMMA ErrorFares ==
    ASSUME IInv, NEW r \in Run, RunOK(r), NEW g \in TaskId, RunErrs(r, g)
    PROVE  Fares(r)
<1>1. record' = [record EXCEPT ![r] = "failed"]
  BY DEF RunErrs
<1>2. \A w : Becomes(r, g, w) => /\ run'[r] = w.status /\ step'[r] = w.steps
                                 /\ task'[r] = [task[r] EXCEPT ![g] = w.task]
  BY DEF Becomes, IInv, TypeOK
<1>3. Over.pc = "over"
  BY OverTask
<1>4. ASSUME NEW row, Ordered(row), Kept(step[r], row), step'[r] = row, run'[r] = "failed",
             task'[r] = [task[r] EXCEPT ![g] = Over], task[r][g].pc \in Alive
      PROVE  Fares(r)
  <2>1. \A h \in TaskId : task'[r][h].pc \notin Alive
    BY <1>3, <1>4 DEF RunOK, IInv, TypeOK, Alive, Admitted
  <2>2. \A h \in TaskId : AtWork(step'[r], task'[r][h])
    BY <2>1 DEF AtWork, Attending, Alive, Admitted
  <2>3. run'[r] # "done" /\ record'[r] # "done"
    BY <1>1, <1>4 DEF IInv, TypeOK
  <2> QED
    BY <1>4, <2>1, <2>2, <2>3 DEF Fares, RunOK
<1>5. CASE task[r][g].pc # "call"
  <2> DEFINE v == View(r, g, TRUE)
  <2>1. task[r][g].pc \in Alive
    BY <1>5 DEF RunErrs, Alive, Admitted
  <2>2. v \in Views /\ v.steps = step[r]
    BY <2>1, OrderlyViews
  <2>3. \/ Becomes(r, g, [v EXCEPT !.task = Over, !.status = "failed"])
        \/ Becomes(r, g, [Returned(v) EXCEPT !.status = "failed"])
    BY <1>5 DEF RunErrs
  <2> HIDE DEF v
  <2>5. step'[r] = step[r] /\ run'[r] = "failed" /\ task'[r] = [task[r] EXCEPT ![g] = Over]
    <3>1. ASSUME NEW w, Becomes(r, g, w), w.steps = step[r], w.status = "failed", w.task = Over
          PROVE  step'[r] = step[r] /\ run'[r] = "failed" /\ task'[r] = [task[r] EXCEPT ![g] = Over]
      BY <1>2, <3>1
    <3>2. CASE Becomes(r, g, [v EXCEPT !.task = Over, !.status = "failed"])
      <4> DEFINE w == [v EXCEPT !.task = Over, !.status = "failed"]
      <4>1. w.steps = step[r] /\ w.status = "failed" /\ w.task = Over
        BY <2>2 DEF Views
      <4> HIDE DEF w
      <4> QED
        BY <3>1, <3>2, <4>1 DEF w
    <3>3. CASE Becomes(r, g, [Returned(v) EXCEPT !.status = "failed"])
      <4> DEFINE w == [Returned(v) EXCEPT !.status = "failed"]
      <4>1. w.steps = step[r] /\ w.status = "failed" /\ w.task = Over
        BY <2>2 DEF Views, Returned
      <4> HIDE DEF w
      <4> QED
        BY <3>1, <3>3, <4>1 DEF w
    <3> QED
      BY <2>3, <3>2, <3>3
  <2>6. Ordered(step[r]) /\ Kept(step[r], step[r])
    BY DEF RunOK, Kept
  <2> QED
    BY <1>4, <2>1, <2>5, <2>6
<1>6. CASE task[r][g].pc = "call"
  <2> DEFINE v == Succeeded(View(r, g, TRUE))
             w == [Returned(v) EXCEPT !.status = "failed"]
  <2>1. Orderly(v) /\ Kept(step[r], v.steps)
    BY <1>6, SucceededOrderly
  <2>2. Becomes(r, g, w)
    BY <1>6 DEF RunErrs
  <2> HIDE DEF v
  <2>3. w.steps = v.steps /\ w.status = "failed" /\ w.task = Over
    BY <2>1 DEF Returned, Orderly, Views
  <2> HIDE DEF w
  <2>4. step'[r] = v.steps /\ run'[r] = "failed" /\ task'[r] = [task[r] EXCEPT ![g] = Over]
    BY <1>2, <2>2, <2>3
  <2>5. task[r][g].pc \in Alive
    BY <1>6 DEF Alive, Admitted
  <2> QED
    BY <1>4, <2>1, <2>4, <2>5 DEF Orderly
<1> QED
  BY <1>5, <1>6

\* A task that has given up its step, for its own run and for the one it starts.
LEMMA EscalationFares ==
    ASSUME IInv, NEW r \in Run, NEW g \in TaskId, EscalationEnds(r, g), NEW p \in Run, RunOK(p)
    PROVE  Fares(p)
<1>1. /\ step'[p] = step[p]
      /\ record'[p] = "done" => record[p] = "done"
      /\ p # r => record'[p] = record[p]
  BY DEF EscalationEnds, IInv, TypeOK
<1>2. Over.pc \notin Alive
  BY OverTask DEF Alive, Admitted
<1>3. CASE task' = [task EXCEPT ![r][g] = Over] /\ run' = run
  <2>1. \A h \in TaskId : task'[p][h].pc \in Alive => task'[p][h] = task[p][h]
    BY <1>2, <1>3 DEF IInv, TypeOK
  <2> QED
    BY <1>1, <1>3, <2>1, Rests
<1>4. ASSUME NEW q \in Run, run[q] = "absent", run' = [run EXCEPT ![q] = "queued"],
             task' = [[task EXCEPT ![r][g] = Over] EXCEPT ![q][1] = Spawned]
      PROVE  Fares(p)
  <2>1. q # r /\ \A h \in TaskId : task[q][h].pc = "none"
    BY <1>4 DEF IInv, Absent, EscalationEnds
  <2>2. CASE p = q
    <3>1. task'[p] = [task[p] EXCEPT ![1] = Spawned] /\ run'[p] = "queued"
      BY <1>4, <2>1, <2>2 DEF IInv, TypeOK
    <3>2. \A h \in TaskId : task[p][h].pc \notin Alive
      BY <2>1, <2>2 DEF Alive, Admitted
    <3>3. 1 \in TaskId /\ task[p] \in [TaskId -> Task] /\ step[p] \in [Step -> StepStatus]
      BY WorkflowAssumption DEF TaskId, IInv, TypeOK
    <3> QED
      BY <1>1, <2>1, <2>2, <3>1, <3>2, <3>3, Starts
  <2>3. CASE p # q
    <3>1. task'[p] = [task EXCEPT ![r][g] = Over][p] /\ run'[p] = run[p]
      BY <1>4, <2>3 DEF IInv, TypeOK
    <3>2. \A h \in TaskId : task'[p][h].pc \in Alive => task'[p][h] = task[p][h]
      BY <1>2, <3>1 DEF IInv, TypeOK
    <3> QED
      BY <1>1, <3>1, <3>2, Rests
  <2> QED
    BY <2>2, <2>3
<1> QED
  BY <1>3, <1>4 DEF EscalationEnds

\* A run that is created, and those that are not.
LEMMA CreatedFares ==
    ASSUME IInv, NEW r \in Run, run[r] = "absent", NEW o, Created(r, o),
           UNCHANGED <<step, record>>, NEW p \in Run, RunOK(p)
    PROVE  Fares(p)
<1>1. task \in [Run -> [TaskId -> Task]] /\ step[p] \in [Step -> StepStatus]
  BY DEF IInv, TypeOK
<1>2. CASE p # r
  <2>1. task'[p] = task[p] /\ run'[p] = run[p]
    BY <1>2 DEF Created, IInv, TypeOK
  <2> QED
    BY <2>1, Rests
<1>3. CASE p = r
  <2>1. task'[p] = [task[p] EXCEPT ![1] = Spawned] /\ run'[p] = "queued"
    BY <1>1, <1>3 DEF Created, IInv, TypeOK
  <2>2. \A h \in TaskId : task[p][h].pc \notin Alive
    BY <1>3 DEF IInv, Absent, Alive, Admitted
  <2>3. 1 \in TaskId
    BY WorkflowAssumption DEF TaskId
  <2> QED
    BY <1>1, <2>1, <2>2, <2>3, Starts
<1> QED
  BY <1>2, <1>3

\* A run that is resumed when nobody is at it, and those that are not.
LEMMA ResumedFares ==
    ASSUME IInv, NEW r \in Run, NEW g \in TaskId, ResumeRun(r, g),
           NEW p \in Run, p \notin overlap', RunOK(p)
    PROVE  Fares(p)
<1>1. task \in [Run -> [TaskId -> Task]] /\ step[p] \in [Step -> StepStatus] /\ record'[p] = record[p]
  BY DEF IInv, TypeOK, ResumeRun
<1>2. CASE p # r
  <2>1. task'[p] = task[p] /\ run'[p] = run[p] /\ step'[p] = step[p]
    BY <1>2 DEF ResumeRun, IInv, TypeOK
  <2> QED
    BY <1>1, <2>1, Rests
<1>3. CASE p = r
  <2>1. /\ task'[p] = [task[p] EXCEPT ![g] = Spawned] /\ run'[p] = "queued"
        /\ step'[p] = Reset(step[p])
    BY <1>1, <1>3 DEF ResumeRun, IInv, TypeOK
  <2>2. Live(p) = {}
    BY <1>3 DEF ResumeRun
  <2>3. \A h \in TaskId : task[p][h].pc \notin Alive
    BY <2>2 DEF Live
  <2> QED
    BY <1>1, <2>1, <2>3, Starts
<1> QED
  BY <1>2, <1>3

\* A step of a task but for the end of its escalation: it leaves one view, writes at
\* most its own run's record, and resumes nothing.
LEMMA OwnStep ==
    ASSUME NEW r \in Run, NEW g \in TaskId, TaskStep(r, g), ~ EscalationEnds(r, g)
    PROVE  /\ \E w : Becomes(r, g, w)
           /\ record' = record \/ \E st : record' = [record EXCEPT ![r] = st]
           /\ overlap' = overlap
<1>1. CASE \E w : Progress(r, g, w)
  BY <1>1, Zenon DEF Progress
<1>2. CASE Begins(r, g) \/ GetsSlot(r, g)
  BY <1>1, <1>2, Zenon DEF Begins, GetsSlot
<1>3. CASE GetsStepSlot(r, g) \/ StepSlotTimesOut(r, g) \/ BackoffEnds(r, g)
  BY <1>1, <1>3, Zenon DEF GetsStepSlot, StepSlotTimesOut, BackoffEnds
<1>4. CASE CallSucceeds(r, g) \/ CallFails(r, g)
  BY <1>1, <1>4, Zenon DEF CallSucceeds, CallFails
<1>5. CASE SlotTimesOut(r, g) \/ CompletionRecorded(r, g)
  BY <1>5, Zenon DEF SlotTimesOut, CompletionRecorded
<1>6. CASE RunErrs(r, g)
  BY <1>6, Zenon DEF RunErrs
<1> QED
  BY <1>2, <1>3, <1>4, <1>5, <1>6 DEF TaskStep

\* A step of a task, for its run and for the others.
LEMMA TaskStepFares ==
    ASSUME IInv, NEW r \in Run, NEW g \in TaskId, TaskStep(r, g), NEW p \in Run, RunOK(p)
    PROVE  Fares(p)
<1>1. CASE EscalationEnds(r, g)
  BY <1>1, EscalationFares
<1>2. CASE ~ EscalationEnds(r, g) /\ p = r
  BY <1>2, BeginningFares, AttemptFares, SuccessFares, EndingFares, ErrorFares DEF TaskStep
<1>3. CASE ~ EscalationEnds(r, g) /\ p # r
  <2>1. record'[p] = record[p]
    BY <1>3, OwnStep DEF IInv, TypeOK
  <2> QED
    BY <1>3, <2>1, OwnStep, ElsewhereRests
<1> QED
  BY <1>1, <1>2, <1>3

\* Whatever happens, a run that no two tasks have been at fares well.
LEMMA NextFares ==
    ASSUME IInv, [Next]_vars, NEW p \in Run, p \notin overlap', RunOK(p)
    PROVE  Fares(p)
<1>1. ASSUME NEW r \in Run, StartRun(r) PROVE Fares(p)
  BY <1>1, CreatedFares DEF StartRun
<1>2. ASSUME NEW r \in Run, PauseRun(r) PROVE Fares(p)
  <2>1. /\ run'[p] = "done" => run[p] = "done"
        /\ step'[p] = step[p] /\ task'[p] = task[p] /\ record'[p] = record[p]
    BY <1>2 DEF PauseRun, IInv, TypeOK
  <2> QED
    BY <2>1, Rests
<1>3. ASSUME NEW r \in Run, NEW q \in Run, NEW s \in Step, ReplayRun(r, q, s) PROVE Fares(p)
  BY <1>3, CreatedFares DEF ReplayRun
<1>4. ASSUME NEW r \in Run, NEW g \in TaskId, ResumeRun(r, g) PROVE Fares(p)
  BY <1>4, ResumedFares
<1>5. ASSUME NEW r \in Run, NEW g \in TaskId, TaskStep(r, g) PROVE Fares(p)
  BY <1>5, TaskStepFares
<1>6. ASSUME NEW r \in Run, NEW s \in Step, LockExpires(r, s) PROVE Fares(p)
  BY <1>6, Rests DEF LockExpires, db
<1>7. CASE Crash \/ Shutdown
  <2>1. \A g \in TaskId : task'[p][g].pc \in {"none", "over"}
    BY <1>7, NoneLeft DEF Crash, Shutdown
  <2>2. \A g \in TaskId : task'[p][g].pc \notin Alive
    BY <2>1 DEF Alive, Admitted
  <2> QED
    BY <1>7, <2>2, Rests DEF Crash, Shutdown, db
<1>8. CASE UNCHANGED vars
  BY <1>8, Rests DEF vars
<1> QED
  BY <1>1, <1>2, <1>3, <1>4, <1>5, <1>6, <1>7, <1>8 DEF Next

\* overlap only grows.
LEMMA OverlapGrows ==
    ASSUME [Next]_vars PROVE overlap \subseteq overlap'
<1>1. ASSUME NEW r \in Run, NEW g \in TaskId, TaskStep(r, g) PROVE overlap' = overlap
  BY <1>1, OwnStep DEF EscalationEnds
<1>2. ASSUME NEW r \in Run, NEW g \in TaskId, ResumeRun(r, g) PROVE overlap \subseteq overlap'
  BY <1>2 DEF ResumeRun
<1>3. CASE \E r \in Run : StartRun(r) \/ PauseRun(r)
  BY <1>3 DEF StartRun, PauseRun
<1>4. CASE \E r, q \in Run, s \in Step : ReplayRun(r, q, s)
  BY <1>4 DEF ReplayRun
<1>5. CASE (\E r \in Run, s \in Step : LockExpires(r, s)) \/ Crash \/ Shutdown
  BY <1>5 DEF LockExpires, Crash, Shutdown
<1>6. CASE UNCHANGED vars
  BY <1>6 DEF vars
<1> QED
  BY <1>1, <1>2, <1>3, <1>4, <1>5, <1>6 DEF Next

\* The order of the steps is kept.
LEMMA OrderKept == IInv /\ OInv /\ [Next]_vars => OInv'
<1> SUFFICES ASSUME IInv, OInv, [Next]_vars, NEW p \in Run, p \notin overlap' PROVE RunOK(p)'
  BY DEF OInv
<1>1. RunOK(p)
  BY OverlapGrows DEF OInv
<1> QED
  BY <1>1, NextFares DEF Fares

\* It holds at first.
LEMMA OrderAtFirst == Init => OInv
<1> SUFFICES ASSUME Init, NEW r \in Run PROVE RunOK(r)
  BY DEF OInv
<1>1. \A s \in Step : step[r][s] = "waiting"
  BY DEF Init
<1>2. run[r] = "absent" /\ record[r] = "pending"
  BY DEF Init
<1>3. \A g \in TaskId : task[r][g].pc = "none"
  BY DEF Init, NoTask
<1> QED
  BY <1>1, <1>2, <1>3 DEF RunOK, Ordered, AtWork, Attending, Alive, Admitted

\* In every reachable state one task at most is at a run that was never resumed
\* over another, and the steps are as that task left them.
THEOREM OneTaskPerRun == Spec => [](IInv /\ OInv)
<1> QED
  BY InitHolds, NextKeeps, OrderAtFirst, OrderKept, PTL DEF Spec

\* _execute_run touches a step only when all before it are complete, across
\* failures, resumptions, replays and restarts, in every run that was not resumed
\* over a task still at it.
THEOREM StepsInOrder == Spec => []InOrder
<1>1. OInv => InOrder
  <2> SUFFICES ASSUME OInv, NEW r \in Run \ overlap, NEW s \in Step, step[r][s] # "waiting",
                      NEW u \in 1..(s - 1)
               PROVE  step[r][u] \in Complete
    BY DEF InOrder
  <2>1. u \in Step /\ u < s
    BY WorkflowAssumption DEF Step
  <2>2. Prefix(step[r], s)
    BY DEF OInv, RunOK, Ordered
  <2> QED
    BY <2>1, <2>2 DEF Prefix
<1> QED
  BY <1>1, OneTaskPerRun, PTL

\* No run is done, nor called done by its idempotency record, with a step that is
\* neither executed nor skipped.
THEOREM DoneRunsAreComplete == Spec => []DoneIsComplete
<1>1. OInv => DoneIsComplete
  BY DEF OInv, RunOK, DoneIsComplete, AllComplete
<1> QED
  BY <1>1, OneTaskPerRun, PTL

\* No step of Next executes a completed step of such a run again, or replaces
\* its result: neither a resumption nor a retry after a restart.
THEOREM CompletedStepsStay == Spec => CompletedStays
<1>1. IInv /\ OInv /\ [Next]_vars =>
        [\A r \in Run, s \in Step :
           (step[r][s] \in Complete /\ r \notin overlap') => step'[r][s] = step[r][s]]_vars
  <2> SUFFICES ASSUME IInv, OInv, [Next]_vars, NEW r \in Run, NEW s \in Step,
                      step[r][s] \in Complete, r \notin overlap'
               PROVE  step'[r][s] = step[r][s]
    OBVIOUS
  <2>1. RunOK(r)
    BY OverlapGrows DEF OInv
  <2>2. Fares(r)
    BY <2>1, NextFares
  <2> QED
    BY <2>2 DEF Fares, Kept
<1> QED
  BY <1>1, OneTaskPerRun, PTL DEF Spec, CompletedStays

=============================================================================
