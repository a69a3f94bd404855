--------------------------- MODULE WorkflowEngine ---------------------------
(***************************************************************************)
(* Runs of a YAML workflow for one tenant: dragon-senate-saas-v2/           *)
(* workflow_engine.py, with the tenant's concurrency slots                  *)
(* (tenant_concurrency.py), the lock around a lobster's execution           *)
(* (task_idempotency_lock.py, its default backend in memory) and the        *)
(* idempotency record of a run (workflow_idempotency.py).                   *)
(*                                                                         *)
(* Runs, steps, records and slot counters are rows in SQLite and survive a  *)
(* restart; tasks and locks are in memory.  A task suspends only where it   *)
(* sleeps, calls a lobster, writes the audit log or notifies an operator:   *)
(* publishing an event does not suspend.  Between two of those points a     *)
(* task's work is one step, written here as a function from what the task   *)
(* sees (View) to what it leaves.                                           *)
(***************************************************************************)
EXTENDS Naturals, FiniteSets

CONSTANTS
    Run,          \* run ids
    NSteps,       \* steps of the workflow, all of type single
    MaxRetries,   \* max_retries of each step
    MaxWorkflows, \* max_concurrent_workflows
    MaxSteps,     \* max_concurrent_steps
    MaxQueue,     \* max_queue_depth
    Compensates,  \* the workflow names an error_workflow_id
    MaxTasks,     \* bound: a run is started and resumed this often
    MaxRestarts,  \* bound: crashes and shutdowns
    RunErrors,    \* bound: whether errors fall past the attempts' except
    LockExpiry,   \* bound: whether calls may outlast the life of their lock
    NoRun

ASSUME WorkflowAssumption ==
    /\ IsFiniteSet(Run) /\ NoRun \notin Run
    /\ NSteps \in Nat \ {0} /\ MaxRetries \in Nat
    /\ MaxWorkflows \in Nat \ {0} /\ MaxSteps \in Nat \ {0} /\ MaxQueue \in Nat \ {0}
    /\ MaxTasks \in Nat \ {0} /\ MaxRestarts \in Nat
    /\ Compensates \in BOOLEAN /\ LockExpiry \in BOOLEAN /\ RunErrors \in BOOLEAN

VARIABLES
    run,       \* workflow_runs.status, "absent" before the row exists
    origin,    \* trigger_type, source_execution_id, replay_from_step_id
    step,      \* workflow_steps.status
    record,    \* status of the run's idempotency record
    task,      \* the tasks spawned for each run, in the order of their spawning
    slots,     \* counter of resource "workflows"
    busy,      \* counter of resource "steps"
    locks,     \* steps of each run whose execution lock is held
    restarts,  \* how often the process has gone down
    leaked,    \* history: slots of either kind left counted with nobody to release them
    overlap,   \* history: runs resumed while an earlier task was still at them
    outlived   \* history: some call has taken longer than its lock lives

db == <<run, origin, step, record>>
vars == <<run, origin, step, record, task, slots, busy, locks, restarts, leaked, overlap, outlived>>

----------------------------------------------------------------------------

Step == 1..NSteps
TaskId == 1..MaxTasks

RunStatus == {"absent", "queued", "running", "paused", "done", "failed"}
StepStatus == {"waiting", "running", "done", "failed", "skipped"}
Complete == {"done", "skipped"}

\* A task that has its workflow slot, one that has a step slot too.
Admitted == {"stepwait", "call", "backoff", "escalated", "recording"}
Alive == Admitted \cup {"spawned", "waiting"}

\* at: the step it is at; try: the attempt; src: steps its source had done when
\* it began; jump: replay_started
Task == [pc : Alive \cup {"none", "over"}, at : 1..(NSteps + 1), try : 0..MaxRetries,
         src : SUBSET Step, jump : BOOLEAN]
NoTask == [pc |-> "none", at |-> 1, try |-> 0, src |-> {}, jump |-> TRUE]
Spawned == [NoTask EXCEPT !.pc = "spawned"]
Over == [NoTask EXCEPT !.pc = "over"]

Origin == [kind : {"plain", "replay", "compensation"}, source : Run \cup {NoRun}, from : 0..NSteps]
Plain == [kind |-> "plain", source |-> NoRun, from |-> 0]

AllTasks == Run \X TaskId
Holders == {rg \in AllTasks : task[rg[1]][rg[2]].pc \in Admitted}
Callers == {rg \in AllTasks : task[rg[1]][rg[2]].pc = "call"}

Live(r) == {g \in TaskId : task[r][g].pc \in Alive}
\* the next task of r to spawn
Fresh(r, g) == task[r][g].pc = "none" /\ \A h \in 1..(g - 1) : task[r][h].pc # "none"

Depth == Cardinality({r \in Run : run[r] \in {"queued", "running"}})

First(S) == CHOOSE s \in S : \A u \in S : s <= u
Less(n, k) == IF k <= n THEN n - k ELSE 0

----------------------------------------------------------------------------
(* What a task does between two suspensions. *)

\* fit: whether the lobster of the next call, its span and its run can be built
View(r, g, fit) == [status |-> run[r], steps |-> step[r], task |-> task[r][g],
                    slots |-> slots, busy |-> busy, lost |-> leaked.steps,
                    locks |-> locks[r], fit |-> fit]

\* (\E v \in {left} has TLC evaluate it once)
Becomes(r, g, left) ==
    \E v \in {left} :
        /\ run' = [run EXCEPT ![r] = v.status]
        /\ step' = [step EXCEPT ![r] = v.steps]
        /\ task' = [task EXCEPT ![r][g] = v.task]
        /\ slots' = v.slots /\ busy' = v.busy
        /\ leaked' = [leaked EXCEPT !.steps = v.lost]
        /\ locks' = [locks EXCEPT ![r] = v.locks]

\* the finally of _execute_run
Returned(v) == [v EXCEPT !.task = Over, !.slots = Less(@, 1)]

\* Mutant: the run is not paused when its step is given up.
FailedUnpaused(v) ==
    IF v.task.try < MaxRetries
    THEN [v EXCEPT !.task.pc = "backoff"]
    ELSE [v EXCEPT !.task.pc = "escalated",
                   !.steps[v.task.at] = "failed"]

\* the except of _execute_single_step, and _escalate up to its first await
Failed(v) ==
    IF v.task.try < MaxRetries
    THEN [v EXCEPT !.task.pc = "backoff"]
    ELSE [v EXCEPT !.task.pc = "escalated",
                   !.steps[v.task.at] = "failed", !.status = "paused"]

\* An error before the try that releases the step slot.
Leaking(v) == [v EXCEPT !.busy = @ + 1, !.lost = @ + 1]

\* Mutant: nobody looks at the lock.
CalledUnlocked(v) ==
    IF ~v.fit THEN Failed(Leaking(v))
    ELSE [v EXCEPT !.task.pc = "call", !.busy = @ + 1, !.locks = @ \cup {v.task.at}]

\* _run_lobster_step, with a step slot in hand, up to the lobster's work: a second
\* execution of a task that holds its lock comes back at once with an error.
Called(v) ==
    IF ~v.fit THEN Failed(Leaking(v))
    ELSE IF v.task.at \in v.locks THEN Failed(v)
    ELSE [v EXCEPT !.task.pc = "call", !.busy = @ + 1, !.locks = @ \cup {v.task.at}]

\* one turn of the loop over attempts
Attempted(v) ==
    LET w == [v EXCEPT !.steps[v.task.at] = "running"]
    IN  IF v.busy < MaxSteps THEN Called(w)
        ELSE [w EXCEPT !.task.pc = "stepwait"]

\* Mutant: a completed step is run again when the task comes to it.
OpenAll(v) == {s \in Step : s >= v.task.at}

Open(v) == {s \in Step : s >= v.task.at /\ v.steps[s] \notin Complete}

\* Of the open steps, those a replay does not take from its source.
Todo(r, v) == {s \in Open(v) : v.task.jump \/ s = origin[r].from \/ s \notin v.task.src}

\* the loop over the steps, from v.task.at on
Advanced(r, v) ==
    LET todo == Todo(r, v)
        skipped == {s \in Open(v) : \A u \in todo : s < u}
        w == [v EXCEPT !.steps = [s \in Step |-> IF s \in skipped THEN "skipped" ELSE v.steps[s]]]
    IN  IF v.task.at <= NSteps /\ v.status # "running" THEN Returned(v)
        ELSE IF todo = {}
        THEN [w EXCEPT !.status = "done", !.task.pc = "recording", !.task.at = NSteps + 1]
        ELSE Attempted([w EXCEPT !.task.at = First(todo), !.task.try = 0, !.task.jump = TRUE])

\* Mutant: one slot more than the plan has.
PolledOver(r, v) ==
    IF v.slots <= MaxWorkflows
    THEN Advanced(r, [v EXCEPT !.slots = @ + 1, !.status = "running"])
    ELSE [v EXCEPT !.task.pc = "waiting"]

\* one poll of wait_for_slot, and what follows when it succeeds
Polled(r, v) ==
    IF v.slots < MaxWorkflows
    THEN Advanced(r, [v EXCEPT !.slots = @ + 1, !.status = "running"])
    ELSE [v EXCEPT !.task.pc = "waiting"]

----------------------------------------------------------------------------
(* Requests. *)

Created(r, o) ==
    /\ run' = [run EXCEPT ![r] = "queued"]
    /\ origin' = [origin EXCEPT ![r] = o]
    /\ task' = [task EXCEPT ![r][1] = Spawned]

\* start_run: from POST /api/workflow/run and from a webhook.
StartRun(r) ==
    /\ run[r] = "absent" /\ Depth < MaxQueue
    /\ Created(r, Plain)
    /\ UNCHANGED <<step, record, slots, busy, locks, restarts, leaked, overlap, outlived>>

\* replay_run of q from step s
ReplayRun(r, q, s) ==
    /\ run[r] = "absent" /\ run[q] # "absent" /\ Depth < MaxQueue
    /\ Created(r, [kind |-> "replay", source |-> q, from |-> s])
    /\ UNCHANGED <<step, record, slots, busy, locks, restarts, leaked, overlap, outlived>>

\* pause_run, of a run in whatever state
PauseRun(r) ==
    /\ run[r] # "absent"
    /\ run' = [run EXCEPT ![r] = "paused"]
    /\ UNCHANGED <<origin, step, record, task, slots, busy, locks, restarts, leaked, overlap, outlived>>

Resumable(r) == run[r] = "paused"

\* Mutant: steps that have been executed are reset as well.
ResetAll(row) == [s \in Step |-> "waiting"]
\* reset_failed_steps
Reset(row) == [s \in Step |-> IF row[s] = "failed" THEN "waiting" ELSE row[s]]

\* resume_run
ResumeRun(r, g) ==
    /\ Resumable(r) /\ Fresh(r, g)
    /\ run' = [run EXCEPT ![r] = "queued"]
    /\ step' = [step EXCEPT ![r] = Reset(@)]
    /\ task' = [task EXCEPT ![r][g] = Spawned]
    /\ overlap' = IF Live(r) = {} THEN overlap ELSE overlap \cup {r}
    /\ UNCHANGED <<origin, record, slots, busy, locks, restarts, leaked, outlived>>

----------------------------------------------------------------------------
(* _execute_run. *)

Progress(r, g, v) ==
    /\ Becomes(r, g, v)
    /\ UNCHANGED <<origin, record, restarts, overlap, outlived>>

\* It reads its source's steps and polls for a workflow slot.
Begins(r, g) ==
    /\ task[r][g].pc = "spawned"
    /\ LET o == origin[r]
           t == IF o.kind = "replay"
                THEN [task[r][g] EXCEPT !.src = {s \in Step : step[o.source][s] = "done"}, !.jump = FALSE]
                ELSE task[r][g]
       IN  \E ok \in BOOLEAN : Progress(r, g, Polled(r, [View(r, g, ok) EXCEPT !.task = t]))

GetsSlot(r, g) ==
    /\ task[r][g].pc = "waiting" /\ slots < MaxWorkflows
    /\ \E ok \in BOOLEAN : Progress(r, g, Polled(r, View(r, g, ok)))

\* Mutant: the slot it never had is given back.
SlotTimesOutReleasing(r, g) ==
    /\ task[r][g].pc = "waiting"
    /\ Becomes(r, g, [Returned(View(r, g, TRUE)) EXCEPT !.status = "failed"])
    /\ record' = [record EXCEPT ![r] = "failed"]
    /\ UNCHANGED <<origin, restarts, overlap, outlived>>

\* ConcurrencyAcquireTimeoutError: five minutes without a slot
SlotTimesOut(r, g) ==
    /\ task[r][g].pc = "waiting"
    /\ Becomes(r, g, [View(r, g, TRUE) EXCEPT !.task = Over, !.status = "failed"])
    /\ record' = [record EXCEPT ![r] = "failed"]
    /\ UNCHANGED <<origin, restarts, overlap, outlived>>

GetsStepSlot(r, g) ==
    /\ task[r][g].pc = "stepwait" /\ busy < MaxSteps
    /\ \E ok \in BOOLEAN : Progress(r, g, Called(View(r, g, ok)))

StepSlotTimesOut(r, g) ==
    /\ task[r][g].pc = "stepwait"
    /\ Progress(r, g, Failed(View(r, g, TRUE)))

\* The call is over: its lock is deleted, whoever holds it by now, and its slot given back.
Ended(v) == [v EXCEPT !.locks = @ \ {v.task.at}, !.busy = Less(@, 1)]

Succeeded(v) == [Ended(v) EXCEPT !.steps[v.task.at] = "done", !.task.at = @ + 1, !.task.try = 0]

CallSucceeds(r, g) ==
    /\ task[r][g].pc = "call"
    /\ \E ok \in BOOLEAN : Progress(r, g, Advanced(r, Succeeded(View(r, g, ok))))

CallFails(r, g) ==
    /\ task[r][g].pc = "call"
    /\ Progress(r, g, Failed(Ended(View(r, g, TRUE))))

\* Mutant: attempts are not counted.
BackoffForever(r, g) ==
    /\ task[r][g].pc = "backoff"
    /\ Progress(r, g, Attempted(View(r, g, TRUE)))

BackoffEnds(r, g) ==
    /\ task[r][g].pc = "backoff"
    /\ \E ok \in BOOLEAN : Progress(r, g, Attempted([View(r, g, ok) EXCEPT !.task.try = @ + 1]))

\* The operator has been told of the failed step; the error workflow, if there
\* is one and the queue takes it, is started as a run of its own.
EscalationEnds(r, g) ==
    /\ task[r][g].pc = "escalated"
    /\ slots' = Less(slots, 1)
    /\ record' = [record EXCEPT ![r] = "failed"]
    /\ LET over == [task EXCEPT ![r][g] = Over]
           starts == {q \in Run : run[q] = "absent" /\ Depth < MaxQueue
                                  /\ Compensates /\ origin[r].kind # "compensation"}
       IN  \/ \E q \in starts :
                /\ run' = [run EXCEPT ![q] = "queued"]
                /\ origin' = [origin EXCEPT ![q] = [kind |-> "compensation", source |-> r, from |-> 0]]
                /\ task' = [over EXCEPT ![q][1] = Spawned]
           \/ /\ starts = {}
              /\ task' = over
              /\ UNCHANGED <<run, origin>>
    /\ UNCHANGED <<step, busy, locks, restarts, leaked, overlap, outlived>>

\* The completion is in the audit log.
CompletionRecorded(r, g) ==
    /\ task[r][g].pc = "recording"
    /\ Becomes(r, g, Returned(View(r, g, TRUE)))
    /\ record' = [record EXCEPT ![r] = "done"]
    /\ UNCHANGED <<origin, restarts, overlap, outlived>>

\* The last except of _execute_run: an error of the store or of the tracing, past
\* the attempts' own except, fails the run wherever its task is at work.
RunErrs(r, g) ==
    /\ RunErrors
    /\ \/ /\ task[r][g].pc \in {"spawned", "waiting"} /\ slots < MaxWorkflows
          /\ Becomes(r, g, [View(r, g, TRUE) EXCEPT !.task = Over, !.status = "failed"])
       \/ /\ task[r][g].pc \in {"backoff", "escalated", "recording"}
          /\ Becomes(r, g, [Returned(View(r, g, TRUE)) EXCEPT !.status = "failed"])
       \/ /\ task[r][g].pc = "call"
          /\ Becomes(r, g, [Returned(Succeeded(View(r, g, TRUE))) EXCEPT !.status = "failed"])
    /\ record' = [record EXCEPT ![r] = "failed"]
    /\ UNCHANGED <<origin, restarts, overlap, outlived>>

TaskStep(r, g) ==
    \/ Begins(r, g) \/ GetsSlot(r, g) \/ SlotTimesOut(r, g)
    \/ GetsStepSlot(r, g) \/ StepSlotTimesOut(r, g)
    \/ CallSucceeds(r, g) \/ CallFails(r, g) \/ BackoffEnds(r, g)
    \/ EscalationEnds(r, g) \/ CompletionRecorded(r, g) \/ RunErrs(r, g)

----------------------------------------------------------------------------
(* The lock's 300 seconds, and the process. *)

\* An expired lock is removed before anybody looks.
LockExpires(r, s) ==
    /\ LockExpiry /\ s \in locks[r]
    /\ locks' = [locks EXCEPT ![r] = @ \ {s}]
    /\ outlived' = TRUE
    /\ UNCHANGED <<db, task, slots, busy, restarts, leaked, overlap>>

AllOver == [r \in Run |-> [g \in TaskId |-> IF task[r][g].pc = "none" THEN NoTask ELSE Over]]

\* Counters are rows: a crash leaves them as they are.
Crash ==
    /\ restarts < MaxRestarts
    /\ restarts' = restarts + 1
    /\ task' = AllOver
    /\ locks' = [r \in Run |-> {}]
    /\ leaked' = [workflows |-> leaked.workflows + Cardinality(Holders),
                  steps |-> leaked.steps + Cardinality(Callers)]
    /\ UNCHANGED <<db, slots, busy, overlap, outlived>>

\* aclose cancels every task; each gives back what it has and leaves its run as it is.
Shutdown ==
    /\ restarts < MaxRestarts
    /\ restarts' = restarts + 1
    /\ task' = AllOver
    /\ locks' = [r \in Run |-> {}]
    /\ slots' = Less(slots, Cardinality(Holders))
    /\ busy' = Less(busy, Cardinality(Callers))
    /\ UNCHANGED <<db, leaked, overlap, outlived>>

----------------------------------------------------------------------------

Init ==
    /\ run = [r \in Run |-> "absent"]
    /\ origin = [r \in Run |-> Plain]
    /\ step = [r \in Run |-> [s \in Step |-> "waiting"]]
    /\ record = [r \in Run |-> "pending"]
    /\ task = [r \in Run |-> [g \in TaskId |-> NoTask]]
    /\ slots = 0 /\ busy = 0
    /\ locks = [r \in Run |-> {}]
    /\ restarts = 0
    /\ leaked = [workflows |-> 0, steps |-> 0]
    /\ overlap = {}
    /\ outlived = FALSE

Next ==
    \/ \E r \in Run : StartRun(r) \/ PauseRun(r)
    \/ \E r, q \in Run, s \in Step : ReplayRun(r, q, s)
    \/ \E r \in Run, g \in TaskId : ResumeRun(r, g) \/ TaskStep(r, g)
    \/ \E r \in Run, s \in Step : LockExpires(r, s)
    \/ Crash
    \/ Shutdown

Spec == Init /\ [][Next]_vars

\* Sleeps and time-outs end, lobsters and the audit log answer: each task goes on.
FairSpec == Spec /\ \A r \in Run, g \in TaskId : WF_vars(TaskStep(r, g))

----------------------------------------------------------------------------
(* Properties. *)

\* Every variable has its type, and a task's step exists while it works on it.
TypeOK ==
    /\ run \in [Run -> RunStatus]
    /\ origin \in [Run -> Origin]
    /\ step \in [Run -> [Step -> StepStatus]]
    /\ record \in [Run -> {"pending", "done", "failed"}]
    /\ task \in [Run -> [TaskId -> Task]]
    /\ \A r \in Run, g \in TaskId :
          task[r][g].pc \in {"stepwait", "call", "backoff", "escalated"} => task[r][g].at \in Step
    /\ slots \in 0..MaxWorkflows
    /\ busy \in 0..MaxSteps
    /\ locks \in [Run -> SUBSET Step]
    /\ restarts \in 0..MaxRestarts
    /\ leaked \in [workflows : Nat, steps : Nat]
    /\ overlap \subseteq Run
    /\ outlived \in BOOLEAN

\* The tenant's counters are those of the tasks that hold a slot, plus the slots
\* that a crash, or an attempt that could not build its lobster's run, has left
\* counted: every other path releases what it has acquired, and once only, so
\* that never more tasks work than the plan allows (tenant_concurrency.py).
SlotsAccounted ==
    /\ slots = Cardinality(Holders) + leaked.workflows
    /\ busy = Cardinality(Callers) + leaked.steps

\* While the process has been up all along, a run that says queued has a task
\* that will admit it, and one that says running has a task at one of its
\* steps, whoever pauses and resumes it meanwhile.
Attended ==
    restarts = 0 => \A r \in Run :
        /\ run[r] = "queued" => \E g \in TaskId : task[r][g].pc \in {"spawned", "waiting"}
        /\ run[r] = "running" => \E g \in TaskId : task[r][g].pc \in {"stepwait", "call", "backoff"}

\* A step is touched only when all before it are complete, in a run that was
\* not resumed over a task still at it: across failures, resumptions, replays
\* and restarts.
InOrder ==
    \A r \in Run \ overlap : \A s \in Step :
        step[r][s] # "waiting" => \A u \in 1..(s - 1) : step[r][u] \in Complete

\* A run that is done, or that its idempotency record calls done, has all its
\* steps behind it: a retried request is never told of a success that was not one.
DoneIsComplete ==
    \A r \in Run \ overlap :
        (run[r] = "done" \/ record[r] = "done") => \A s \in Step : step[r][s] \in Complete

\* No step is executed by two tasks at once, however a run is resumed, unless a
\* call has outlived its lock (task_idempotency_lock.py:59).
CallsExclusive ==
    ~outlived => \A r \in Run : \A g, h \in TaskId :
        (task[r][g].pc = "call" /\ task[r][h].pc = "call" /\ task[r][g].at = task[r][h].at) => g = h

\* A completed step of a run is never executed again nor its result replaced,
\* in a run that was not resumed over a task still at it.
CompletedStays ==
    [][\A r \in Run, s \in Step :
          (step[r][s] \in Complete /\ r \notin overlap') => step'[r][s] = step[r][s]]_vars

\* While the process is up a run does not stay queued or running for ever.
EveryRunSettles ==
    \A r \in Run : run[r] \in {"queued", "running"} ~>
        (run[r] \in {"paused", "done", "failed"} \/ restarts > 0)

\* docs/CODEX_TASK_WORKFLOW_EXECUTION_REPLAY.md:326: a replay skips what had
\* succeeded and executes the workflow from the given step on.
ReplayRunsOnward ==
    \A r \in Run, s \in Step :
        (origin[r].kind = "replay" /\ s >= origin[r].from) => step[r][s] # "skipped"

=============================================================================
