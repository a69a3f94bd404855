--------------------------- MODULE CronScheduler ---------------------------
(***************************************************************************)
(* Scheduled tasks of the cloud brain: dragon-senate-saas-v2/               *)
(* cron_scheduler.py, with the routes of register_scheduler_routes.         *)
(*                                                                         *)
(* Tasks are rows in SQLite.  One polling loop lists the enabled rows,      *)
(* works through that list and awaits the executor for each task that is    *)
(* due.  The routes run on the same event loop, so a request is served only *)
(* while the loop awaits something: the executor, a backoff, the next tick. *)
(* What the polling loop then knows of a task is the copy it has listed.    *)
(*                                                                         *)
(* Time counts seconds.  The order of a list is left open, the run log is   *)
(* kept as the number of its successes.                                     *)
(***************************************************************************)
EXTENDS Integers, FiniteSets

CONSTANTS
    Task,        \* task ids, the hash of a tenant and a name
    Schedules,   \* what a request may ask for
    MaxRetries,  \* max_retries of every task
    MaxTime,     \* bound: the last second
    MaxCreates,  \* bound: schedules accepted
    MaxRestarts, \* bound: deaths of the process
    NoTask

\* A cron expression that fires each so many seconds, an interval, an instant.
Schedule == [kind : {"every", "once"}, when : Nat] \cup [kind : {"cron"}, when : Nat \ {0}]

ASSUME CronAssumption ==
    /\ IsFiniteSet(Task) /\ NoTask \notin Task
    /\ Schedules \subseteq Schedule
    /\ MaxRetries \in Nat /\ MaxTime \in Nat /\ MaxCreates \in Nat /\ MaxRestarts \in Nat

VARIABLES
    now,
    row,      \* scheduled_tasks
    pc,       \* where the process is
    tick,     \* the "now" of this tick
    todo,     \* the tasks of the list it has not come to
    copy,     \* their rows as listed, that of the task at hand too
    cur,      \* the task at hand
    try,      \* the attempt
    creates,  \* how many schedules have been accepted
    restarts, \* how often the process has died
    wins,     \* successes in the run log since the task was created
    raced     \* history: tasks changed by a request while the loop had a copy

vars == <<now, row, pc, tick, todo, copy, cur, try, creates, restarts, wins, raced>>
loop == <<pc, tick, todo, copy, cur, try>>
bounds == <<creates, restarts>>

----------------------------------------------------------------------------

Never == -1  \* next_run_at is NULL

\* ran: run_count > 0, last_run_at is set
Row == [sched : Schedule, enabled : BOOLEAN, next : Nat \cup {Never}, ran : BOOLEAN]
Absent == [sched |-> [kind |-> "once", when |-> 0], enabled |-> FALSE, next |-> Never, ran |-> TRUE]

\* _parse_cron_next: croniter's first instant after n
NextFiring(w, n) == n - (n % w) + w

\* Mutant: a once task is dropped as soon as its instant is past.
NextRunFuture(r, n) ==
    CASE r.sched.kind = "cron" -> NextFiring(r.sched.when, n)
      [] r.sched.kind = "every" -> n + r.sched.when
      [] OTHER -> IF r.sched.when < n THEN Never ELSE r.sched.when

\* _compute_next_run
NextRun(r, n) ==
    CASE r.sched.kind = "cron" -> NextFiring(r.sched.when, n)
      [] r.sched.kind = "every" -> n + r.sched.when
      [] OTHER -> IF r.ran THEN Never ELSE r.sched.when

Awaits == {"call", "backoff"}
Free == pc \in Awaits \cup {"sleep"}
Held(t) == t \in todo \/ t = cur
Due(t) == row[t].enabled /\ row[t].next \in 0..now

----------------------------------------------------------------------------
(* Requests. *)

\* POST /api/scheduler/tasks: add_task, INSERT OR REPLACE
AddTask(t, s, e) ==
    /\ Free /\ creates < MaxCreates
    /\ LET r == [sched |-> s, enabled |-> e, next |-> Never, ran |-> FALSE]
       IN  row' = [row EXCEPT ![t] = [r EXCEPT !.next = NextRun(r, now)]]
    /\ creates' = creates + 1
    /\ wins' = [wins EXCEPT ![t] = 0]
    /\ raced' = IF Held(t) THEN raced \cup {t} ELSE raced \ {t}
    /\ UNCHANGED <<now, loop, restarts>>

\* DELETE: remove_task, which disables
RemoveTask(t) ==
    /\ Free /\ row[t].enabled
    /\ row' = [row EXCEPT ![t].enabled = FALSE]
    /\ raced' = IF Held(t) THEN raced \cup {t} ELSE raced
    /\ UNCHANGED <<now, loop, bounds, wins>>

----------------------------------------------------------------------------
(* The polling loop. *)

\* Mutant: a tick takes the tasks of this very second.
TickStartsExact ==
    LET todays == {t \in Task : row[t].enabled /\ row[t].next = now}
    IN  /\ pc = "sleep" /\ pc' = "scan"
        /\ tick' = now
        /\ todo' = todays
        /\ copy' = [t \in Task |-> IF t \in todays THEN row[t] ELSE Absent]
        /\ UNCHANGED <<now, row, cur, try, bounds, wins, raced>>

\* _tick lists what is enabled.
TickStarts ==
    /\ pc = "sleep" /\ pc' = "scan"
    /\ tick' = now
    /\ todo' = {t \in Task : row[t].enabled}
    /\ copy' = [t \in Task |-> IF row[t].enabled THEN row[t] ELSE Absent]
    /\ UNCHANGED <<now, row, cur, try, bounds, wins, raced>>

\* A task of the list that has no next run, or one to come.
PassesOver(t) ==
    /\ pc = "scan" /\ t \in todo /\ copy[t].next \notin 0..tick
    /\ row' = IF copy[t].next = Never
              THEN [row EXCEPT ![t] = [copy[t] EXCEPT !.next = NextRun(copy[t], tick)]]
              ELSE row
    /\ todo' = todo \ {t}
    /\ copy' = [copy EXCEPT ![t] = Absent]
    /\ UNCHANGED <<now, pc, tick, cur, try, bounds, wins, raced>>

\* A task of the list that is due: _execute_task up to the executor.
Executes(t) ==
    /\ pc = "scan" /\ t \in todo /\ copy[t].next \in 0..tick
    /\ pc' = "call" /\ cur' = t /\ try' = 1
    /\ todo' = todo \ {t}
    /\ UNCHANGED <<now, row, tick, copy, bounds, wins, raced>>

\* the successes are counted up to this many
Enough == MaxRestarts + 3

\* The executor returns: the run log has the success.
CallSucceeds ==
    /\ pc = "call" /\ pc' = "record"
    /\ wins' = [wins EXCEPT ![cur] = IF @ < Enough THEN @ + 1 ELSE @]
    /\ UNCHANGED <<now, row, tick, todo, copy, cur, try, bounds, raced>>

\* Mutant: the copy is written back as a whole.
StatusUpserted ==
    /\ row' = [row EXCEPT ![cur] = [copy[cur] EXCEPT !.next = NextRun(copy[cur], tick + 1), !.ran = TRUE]]
    /\ pc' = "scan" /\ cur' = NoTask /\ try' = 0
    /\ copy' = [copy EXCEPT ![cur] = Absent]
    /\ UNCHANGED <<now, tick, todo, bounds, wins, raced>>

\* update_run_status of the task at hand, from the copy of its row
StatusUpdated ==
    /\ row' = [row EXCEPT ![cur] = [row[cur] EXCEPT !.next = NextRun(copy[cur], tick + 1), !.ran = TRUE]]
    /\ pc' = "scan" /\ cur' = NoTask /\ try' = 0
    /\ copy' = [copy EXCEPT ![cur] = Absent]
    /\ UNCHANGED <<now, tick, todo, bounds, wins, raced>>

RecordsSuccess == pc = "record" /\ StatusUpdated

\* Mutant: one attempt too many.
FailsOnceMore ==
    /\ pc = "call" /\ try <= MaxRetries + 1
    /\ pc' = "backoff"
    /\ UNCHANGED <<now, row, tick, todo, copy, cur, try, bounds, wins, raced>>

\* The executor raises, and there are attempts left.
Fails ==
    /\ pc = "call" /\ try <= MaxRetries
    /\ pc' = "backoff"
    /\ UNCHANGED <<now, row, tick, todo, copy, cur, try, bounds, wins, raced>>

GivesUp == pc = "call" /\ try > MaxRetries /\ StatusUpdated

BackoffEnds ==
    /\ pc = "backoff" /\ pc' = "call"
    /\ try' = try + 1
    /\ UNCHANGED <<now, row, tick, todo, copy, cur, bounds, wins, raced>>

TickEnds ==
    /\ pc = "scan" /\ todo = {}
    /\ pc' = "sleep" /\ tick' = 0
    /\ UNCHANGED <<now, row, todo, copy, cur, try, bounds, wins, raced>>

----------------------------------------------------------------------------
(* The process and the clock. *)

\* A crash, or stop and cancel on shutdown: the row stays as it is.
Dies ==
    /\ pc # "down" /\ restarts < MaxRestarts
    /\ pc' = "down" /\ tick' = 0 /\ todo' = {} /\ cur' = NoTask /\ try' = 0
    /\ copy' = [t \in Task |-> Absent]
    /\ restarts' = restarts + 1
    /\ UNCHANGED <<now, row, creates, wins, raced>>

Starts ==
    /\ pc = "down" /\ pc' = "sleep"
    /\ UNCHANGED <<now, row, tick, todo, copy, cur, try, bounds, wins, raced>>

TimePasses ==
    /\ now < MaxTime /\ (Free \/ pc = "down")
    /\ now' = now + 1
    /\ UNCHANGED <<row, loop, bounds, wins, raced>>

----------------------------------------------------------------------------

Init ==
    /\ now = 0
    /\ row = [t \in Task |-> Absent]
    /\ pc = "sleep" /\ tick = 0 /\ todo = {} /\ cur = NoTask /\ try = 0
    /\ copy = [t \in Task |-> Absent]
    /\ creates = 0 /\ restarts = 0
    /\ wins = [t \in Task |-> 0]
    /\ raced = {}

LoopStep ==
    \/ TickStarts \/ TickEnds
    \/ \E t \in Task : PassesOver(t) \/ Executes(t)
    \/ CallSucceeds \/ RecordsSuccess \/ Fails \/ GivesUp \/ BackoffEnds
    \/ Starts

Next ==
    \/ \E t \in Task, s \in Schedules, e \in BOOLEAN : AddTask(t, s, e)
    \/ \E t \in Task : RemoveTask(t)
    \/ LoopStep
    \/ Dies
    \/ TimePasses

Spec == Init /\ [][Next]_vars

\* The executor answers, sleeps end, a dead process is started again.
FairSpec == Spec /\ WF_vars(LoopStep)

----------------------------------------------------------------------------
(* Properties. *)

\* Every variable has its type, and the loop has a task at hand when it awaits
\* the executor or a backoff and at no other time.
TypeOK ==
    /\ now \in Nat
    /\ row \in [Task -> Row] /\ copy \in [Task -> Row]
    /\ pc \in {"down", "sleep", "scan", "call", "backoff", "record"}
    /\ tick \in 0..now
    /\ todo \subseteq Task /\ cur \in Task \cup {NoTask} /\ try \in 0..(MaxRetries + 1)
    /\ (cur # NoTask) = (pc \in {"call", "backoff", "record"})
    /\ creates \in Nat /\ restarts \in 0..MaxRestarts
    /\ wins \in [Task -> 0..Enough] /\ raced \subseteq Task

\* What the loop goes by is what the row says, for every task no request has
\* changed since it was listed: no step of the loop leaves a copy behind
\* (cron_scheduler.py:389 lists once, lines 391 to 427 use the copies).
CopyIsCurrent ==
    \A t \in Task \ raced : Held(t) => copy[t] = row[t]

\* docs/CODEX_TASK_CRON_SCHEDULER_ENGINE.md:306: a once task runs once, and is
\* not scheduled again.  _compute_next_run goes by the copy listed before the
\* run (cron_scheduler.py:465).
OnceOnly ==
    \A t \in Task \ raced : row[t].sched.kind = "once" => wins[t] <= 1

\* The loop leaves alone what requests have set: it neither enables a task again
\* that was disabled while its executor worked nor puts an old schedule back
\* (update_run_status writes single columns).  The upsert of a task without a
\* next run, line 392, is the exception, when a request came in between.
SchedulesStay ==
    [][LoopStep => \A t \in Task :
          \/ row'[t].sched = row[t].sched /\ row'[t].enabled = row[t].enabled
          \/ t \in raced /\ copy[t].next = Never]_vars

\* A task whose next run has come is executed, however long the tasks before it
\* take and whatever the process goes through, unless a request takes it away
\* or changes it under the loop.
DueIsServed ==
    \A t \in Task : Due(t) ~> (cur = t \/ ~Due(t) \/ t \in raced)

\* A once task whose instant has come is run and leaves the schedule in the end.
OnceSettles ==
    \A t \in Task :
        LET Open == row[t].enabled /\ row[t].sched.kind = "once" /\ row[t].sched.when <= now
            Ended == row[t].next = Never /\ row[t].ran
        IN  Open ~> (Ended \/ ~Open \/ t \in raced)

=============================================================================
