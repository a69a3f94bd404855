------------------------------ MODULE Pipeline ------------------------------
(***************************************************************************)
(* The autopilot of the backend: backend/src/autopilot, its coordinator,    *)
(* its four workers and its circuit.                                        *)
(*                                                                         *)
(* A probe is a job of the radar queue; a job that succeeds puts one into   *)
(* the next queue.  BullMQ, outside, gives each queue's worker one job at a *)
(* time, runs a job again up to its number of attempts, and runs a job      *)
(* again whose process died.  One process works for all queues; what it     *)
(* does between two awaits is one step.  One tenant is modelled: budgets    *)
(* have a key per tenant, and the circuit is everybody's.                   *)
(***************************************************************************)
EXTENDS Integers, FiniteSets

CONSTANTS
    Probe,       \* the jobId that the jobs of one probe hand on
    Queue,       \* AUTOPILOT_QUEUES, "forge" among them
    Next,        \* to which queue each one's worker hands on
    First, Last,
    Limit,       \* DAILY_CONTENT_GENERATION_LIMIT
    Attempts,    \* attempts of a job
    Threshold,   \* CIRCUIT_BREAKER_FAILURE_THRESHOLD
    MaxCopies,   \* bound: jobs of one probe in one queue
    LastDay,     \* bound: days
    MaxFaults,   \* bound: deaths of the process, and requests to Redis that fail or
                 \* lose their reply
    NoJob

ASSUME PipelineAssumption ==
    /\ IsFiniteSet(Probe)
    /\ {"forge", First, Last} \subseteq Queue /\ Last # "forge"
    /\ Next \in [Queue \ {Last} -> Queue \ {First}]
    /\ \A q, r \in Queue \ {Last} : Next[q] # q /\ (Next[q] = Next[r] => q = r)
    /\ {Limit, Attempts, Threshold, MaxCopies} \subseteq Nat \ {0}
    /\ {LastDay, MaxFaults} \subseteq Nat

Job == [probe : Probe, queue : Queue, copy : 1..MaxCopies]

ASSUME NoJobIsNoJob == NoJob \notin Job

Day == 0..LastDay

VARIABLES
    status,  \* of each job in BullMQ; "waiting" has the delayed ones too
    tries,   \* its attempts that have failed, as long as it is not over
    at,      \* the job each worker is at
    step,    \* and where in process()
    fails,   \* consecutiveFailures, up to the threshold
    open,    \* circuitOpen
    day,
    counter, \* the budget keys
    key,     \* budgetKey of the forge job at hand
    handed,  \* history: contents handed on to the next queue
    uncounted, \* history: those whose add failed for the worker all the same
    leaked,  \* history: counted, but nothing handed on: a crash, a lost reply
    refused, \* history: counted beyond the limit
    faults

vars == <<status, tries, at, step, fails, open, day, counter, key,
          handed, uncounted, leaked, refused, faults>>
jobs == <<status, tries, at, step>>
circuit == <<fails, open>>
budget == <<counter, key, handed, uncounted, leaked, refused>>

----------------------------------------------------------------------------

\* jobs that queue q's job can have handed its probe on to
Heirs(j) == {k \in Job : k.probe = j.probe /\ k.queue = Next[j.queue] /\ status[k] # "none"}

Idle(q) == at[q] = NoJob

Leaves(q, s, n) ==
    /\ status' = [status EXCEPT ![at[q]] = s]
    /\ tries' = [tries EXCEPT ![at[q]] = n]
    /\ at' = [at EXCEPT ![q] = NoJob]
    /\ step' = [step EXCEPT ![q] = "idle"]

\* Mutant: one attempt more.
AttemptFailsOnceMore(q) ==
    LET n == tries[at[q]] + 1
    IN  IF n <= Attempts THEN Leaves(q, "waiting", n) ELSE Leaves(q, "failed", 0)

\* process() throws: the job is tried again, or has had its attempts.
AttemptFails(q) ==
    LET n == tries[at[q]] + 1
    IN  IF n < Attempts THEN Leaves(q, "waiting", n) ELSE Leaves(q, "failed", 0)

\* recordFailure, whose result no worker looks at
RecordFailure(q) ==
    /\ fails' = [fails EXCEPT ![q] = IF @ < Threshold THEN @ + 1 ELSE @]
    /\ open' = (open \/ fails'[q] = Threshold)

GoesTo(q, s) ==
    /\ step' = [step EXCEPT ![q] = s]
    /\ UNCHANGED <<status, tries, at>>

\* where the forge worker holds a reservation for what is not handed on
Reserving == {"work", "add", "undo"}

Faulty == faults < MaxFaults /\ faults' = faults + 1

----------------------------------------------------------------------------
(* The coordinator, the operator and the clock. *)

\* heartbeat and triggerProbe
Probes(p) ==
    LET j == [probe |-> p, queue |-> First, copy |-> 1]
    IN  /\ ~open /\ status[j] = "none"
        /\ status' = [status EXCEPT ![j] = "waiting"]
        /\ UNCHANGED <<tries, at, step, circuit, day, budget, faults>>

ResetCircuit ==
    /\ open' = FALSE /\ fails' = [q \in Queue |-> 0]
    /\ UNCHANGED <<jobs, day, budget, faults>>

DayPasses ==
    /\ day < LastDay /\ day' = day + 1
    /\ UNCHANGED <<jobs, circuit, budget, faults>>

----------------------------------------------------------------------------
(* The workers. *)

Takes(j) ==
    LET q == j.queue
    IN  /\ status[j] = "waiting" /\ Idle(q)
        /\ status' = [status EXCEPT ![j] = "active"]
        /\ at' = [at EXCEPT ![q] = j]
        /\ step' = [step EXCEPT ![q] = IF q = "forge" THEN "reserve" ELSE "work"]
        /\ key' = IF q = "forge" THEN day ELSE key
        /\ UNCHANGED <<tries, circuit, day, counter, handed, uncounted, leaked, refused, faults>>

\* Mutant: the limit is compared with the counter as it was.
ReservesLate ==
    /\ step["forge"] = "reserve" /\ counter[key] <= Limit
    /\ counter' = [counter EXCEPT ![key] = @ + 1]
    /\ GoesTo("forge", "work")
    /\ UNCHANGED <<circuit, day, key, handed, uncounted, leaked, refused, faults>>

\* INCR, within the limit
Reserves ==
    /\ step["forge"] = "reserve" /\ counter[key] < Limit
    /\ counter' = [counter EXCEPT ![key] = @ + 1]
    /\ GoesTo("forge", "work")
    /\ UNCHANGED <<circuit, day, key, handed, uncounted, leaked, refused, faults>>

\* Mutant: a job over the limit is put back, and no attempt of it counted.
RefusesForNow ==
    /\ step["forge"] = "reserve" /\ counter[key] >= Limit
    /\ Leaves("forge", "waiting", tries[at["forge"]])
    /\ UNCHANGED <<circuit, day, budget, faults>>

\* INCR, beyond the limit: it throws before the try, and the count stays.
Refuses ==
    /\ step["forge"] = "reserve" /\ counter[key] >= Limit
    /\ counter' = [counter EXCEPT ![key] = @ + 1]
    /\ refused' = [refused EXCEPT ![key] = @ + 1]
    /\ AttemptFails("forge")
    /\ UNCHANGED <<circuit, day, key, handed, uncounted, leaked, faults>>

\* INCR fails, or is carried out and fails for the worker (EXPIRE, a lost reply).
ReserveErrs(carriedOut) ==
    /\ step["forge"] = "reserve" /\ Faulty
    /\ counter' = [counter EXCEPT ![key] = IF carriedOut THEN @ + 1 ELSE @]
    /\ leaked' = [leaked EXCEPT ![key] = IF carriedOut THEN @ + 1 ELSE @]
    /\ AttemptFails("forge")
    /\ UNCHANGED <<circuit, day, key, handed, uncounted, refused>>

\* sniffViralContent, forgeContent or dispatchToNodes is done: the success is
\* recorded before anything is handed on.
WorkSucceeds(q) ==
    /\ step[q] = "work" /\ q # Last
    /\ fails' = [fails EXCEPT ![q] = 0]
    /\ GoesTo(q, "add")
    /\ UNCHANGED <<open, day, budget, faults>>

\* harvestLeads is done, and with it the job: nothing is handed on.
Harvests ==
    /\ step[Last] = "work"
    /\ fails' = [fails EXCEPT ![Last] = 0]
    /\ Leaves(Last, "completed", 0)
    /\ UNCHANGED <<open, day, budget, faults>>

\* The catch block: the forge gives its reservation back first.
Catches(q) ==
    IF q = "forge"
    THEN GoesTo(q, "undo") /\ UNCHANGED circuit
    ELSE AttemptFails(q) /\ RecordFailure(q)

WorkFails(q) ==
    /\ step[q] = "work"
    /\ Catches(q)
    /\ UNCHANGED <<day, budget, faults>>

\* The next queue has the job.
Adds(q, n) ==
    LET j == [probe |-> at[q].probe, queue |-> Next[q], copy |-> n]
    IN  /\ step[q] = "add" /\ status[j] = "none"
        /\ \A m \in 1..(n - 1) : status[[j EXCEPT !.copy = m]] # "none"
        /\ status' = [status EXCEPT ![j] = "waiting"]
        /\ step' = [step EXCEPT ![q] = "finish"]
        /\ handed' = IF q = "forge" THEN [handed EXCEPT ![key] = @ + 1] ELSE handed
        /\ UNCHANGED <<tries, at, circuit, day, counter, key, uncounted, leaked, refused, faults>>

\* Mutant: an add that fails is swallowed.
AddErrsQuietly(q) ==
    /\ step[q] \in {"add", "finish"} /\ Faulty
    /\ Leaves(q, "completed", 0)
    /\ UNCHANGED <<circuit, day, budget>>

\* The add fails, before or after the next queue has the job: what a lost reply
\* has handed on is caught, and given back, as if it had not been.
AddErrs(q) ==
    /\ step[q] \in {"add", "finish"} /\ Faulty
    /\ Catches(q)
    /\ uncounted' = IF q = "forge" /\ step[q] = "finish"
                     THEN [uncounted EXCEPT ![key] = @ + 1] ELSE uncounted
    /\ UNCHANGED <<day, counter, key, handed, leaked, refused>>

\* process() returns, and BullMQ moves the job to the completed ones.
Completes(q) ==
    /\ step[q] = "finish"
    /\ Leaves(q, "completed", 0)
    /\ UNCHANGED <<circuit, day, budget, faults>>

\* DECR, then the failure is recorded
Undoes ==
    /\ step["forge"] = "undo"
    /\ counter' = [counter EXCEPT ![key] = @ - 1]
    /\ AttemptFails("forge") /\ RecordFailure("forge")
    /\ UNCHANGED <<day, key, handed, uncounted, leaked, refused, faults>>

\* DECR throws inside the catch block: no failure is recorded.
UndoErrs(carriedOut) ==
    /\ step["forge"] = "undo" /\ Faulty
    /\ counter' = [counter EXCEPT ![key] = IF carriedOut THEN @ - 1 ELSE @]
    /\ leaked' = [leaked EXCEPT ![key] = IF carriedOut THEN @ ELSE @ + 1]
    /\ AttemptFails("forge")
    /\ UNCHANGED <<circuit, day, key, handed, uncounted, refused>>

\* The process dies and is started again: the circuit is closed, the jobs it
\* was at are waiting, and a reservation nothing was handed on for is lost.
Restarts ==
    /\ Faulty
    /\ status' = [j \in Job |-> IF status[j] = "active" THEN "waiting" ELSE status[j]]
    /\ at' = [q \in Queue |-> NoJob]
    /\ step' = [q \in Queue |-> "idle"]
    /\ fails' = [q \in Queue |-> 0] /\ open' = FALSE
    /\ leaked' = IF step["forge"] \in Reserving THEN [leaked EXCEPT ![key] = @ + 1] ELSE leaked
    /\ UNCHANGED <<tries, day, counter, key, handed, uncounted, refused>>

----------------------------------------------------------------------------

Init ==
    /\ status = [j \in Job |-> "none"] /\ tries = [j \in Job |-> 0]
    /\ at = [q \in Queue |-> NoJob] /\ step = [q \in Queue |-> "idle"]
    /\ fails = [q \in Queue |-> 0] /\ open = FALSE
    /\ day = 0 /\ key = 0
    /\ counter = [d \in Day |-> 0]
    /\ handed = [d \in Day |-> 0] /\ uncounted = [d \in Day |-> 0]
    /\ leaked = [d \in Day |-> 0] /\ refused = [d \in Day |-> 0]
    /\ faults = 0

ForgeStep ==
    \/ Reserves \/ Refuses \/ Undoes
    \/ \E b \in BOOLEAN : ReserveErrs(b) \/ UndoErrs(b)

WorkerStep(q) ==
    \/ \E j \in Job : j.queue = q /\ Takes(j)
    \/ q = "forge" /\ ForgeStep
    \/ WorkSucceeds(q) \/ WorkFails(q)
    \/ \E n \in 1..MaxCopies : Adds(q, n)
    \/ AddErrs(q) \/ Completes(q)
    \/ q = Last /\ Harvests

Step ==
    \/ \E p \in Probe : Probes(p)
    \/ \E q \in Queue : WorkerStep(q)
    \/ ResetCircuit \/ DayPasses \/ Restarts

Spec == Init /\ [][Step]_vars

\* Redis answers or fails, the work ends, BullMQ goes on giving out jobs.
FairSpec == Spec /\ WF_vars(\E q \in Queue : WorkerStep(q))

----------------------------------------------------------------------------
(* Properties. *)

\* Every variable has its type, and a worker that is not idle is at an active
\* job of its queue with attempts left.
TypeOK ==
    /\ status \in [Job -> {"none", "waiting", "active", "completed", "failed"}]
    /\ tries \in [Job -> 0..(Attempts - 1)]
    /\ at \in [Queue -> Job \cup {NoJob}]
    /\ step \in [Queue -> {"idle", "reserve", "work", "add", "finish", "undo"}]
    /\ \A q \in Queue : Idle(q) = (step[q] = "idle")
    /\ \A q \in Queue : ~Idle(q) => at[q].queue = q /\ status[at[q]] = "active"
    /\ fails \in [Queue -> 0..Threshold] /\ open \in BOOLEAN
    /\ day \in Day /\ key \in Day
    /\ counter \in [Day -> Nat]
    /\ handed \in [Day -> Nat] /\ uncounted \in [Day -> Nat]
    /\ leaked \in [Day -> Nat] /\ refused \in [Day -> Nat]
    /\ faults \in 0..MaxFaults

\* The reservation of the forge job at hand.
Reserved(d) == IF step["forge"] \in Reserving /\ key = d THEN 1 ELSE 0

\* Over midnights, retries and restarts a tenant's contents of a day are handed on
\* up to its limit, and once more for each add that was carried out and failed for
\* the worker, whose catch block gives the reservation back all the same
\* (content-forge.worker.ts:68 to 75); and a job is refused only when the budget
\* was used, up to what crashes and lost replies have leaked: a failure's DECR and
\* the count of a refused job never take it from others
\* (content-forge.worker.ts:47 to 52).  Both rest on what the counter counts.
BudgetHeld ==
    \A d \in Day :
        /\ counter[d] + uncounted[d] = handed[d] + leaked[d] + refused[d] + Reserved(d)
        /\ handed[d] <= Limit + uncounted[d]
        /\ refused[d] > 0 => handed[d] + leaked[d] >= Limit + uncounted[d]

\* A probe is never lost between two queues: a job is completed only when the
\* next queue has one, whatever fails and whenever the process dies; and where
\* nothing does, retries of the work itself never hand a probe on twice.
HandedOn ==
    /\ \A j \in Job : (status[j] = "completed" /\ j.queue # Last) => Heirs(j) # {}
    /\ faults = 0 => \A j \in Job : status[j] # "none" => j.copy = 1

\* Every job that a queue has got is completed or fails for good in the end, also
\* when the circuit is open, the budget is used up or the process dies: with
\* as many probes as there are, the queues run empty.
QueuesDrain ==
    []<>(\A j \in Job : status[j] \in {"none", "completed", "failed"})

=============================================================================
