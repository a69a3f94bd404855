----------------------------- MODULE TeamInbox -----------------------------
(***************************************************************************)
(* The tasks of one trace in the dispatcher's inbox:                        *)
(* dragon-senate-saas-v2/clawteam_inbox.py, with the graph nodes            *)
(* (dragon_senate.py) and the routes under /clawteam (app.py) that use it.  *)
(*                                                                         *)
(* Every operation runs under one lock, so it is one step.  Workers are     *)
(* outside: what a worker believes to be its work is what it has claimed    *)
(* and neither reported nor dropped, whatever the inbox has done with it    *)
(* since.  A worker that got no reply to a report may report again, and     *)
(* something else: the inbox does not check.  Reports of tasks a worker     *)
(* never claimed, which it would not notice either, are left out.  Lanes,   *)
(* priorities and limits decide which of the ready tasks a claim takes, and *)
(* the age of a row whether it is stale; both are left open.  Rows about    *)
(* workers are written, and read by no decision.                            *)
(***************************************************************************)
EXTENDS Naturals, FiniteSets

CONSTANTS
    Task,        \* task keys of the trace
    Depends,     \* the tasks each one depends on
    Worker,
    MaxAttempts, \* max_attempt_count of requeue-stale
    MaxEnqueues, \* bound: how often the plan is put into the inbox
    NoWorker

ASSUME InboxAssumption ==
    /\ IsFiniteSet(Task) /\ IsFiniteSet(Worker) /\ NoWorker \notin Worker
    /\ Depends \in [Task -> SUBSET Task]
    /\ MaxAttempts \in Nat \ {0} /\ MaxEnqueues \in Nat

VARIABLES
    status,    \* of each row, "absent" before it exists
    owner,     \* worker_id
    attempts,  \* attempt_count
    doing,     \* the tasks each worker is at
    unsure,    \* the tasks it has reported without learning that the report arrived
    enqueues,  \* how often the plan has been enqueued
    takenBack  \* history: tasks taken from a worker that was at them or unsure of
               \* them, completions undone by another report of the same worker, or
               \* by an enqueue that did not come to an end

vars == <<status, owner, attempts, doing, unsure, enqueues, takenBack>>

Status == {"absent", "queued", "running", "completed", "failed"}

Holders(t) == {w \in Worker : t \in doing[w]}
Busy == {t \in Task : \E w \in Worker : t \in doing[w] \cup unsure[w]}
Running == {t \in Task : status[t] = "running"}
Completed == {t \in Task : status[t] = "completed"}

\* Mutant: a dependency that failed is not waited for.
ReadyAfterFailure == {t \in Task : status[t] = "queued"
                                   /\ \A d \in Depends[t] : status[d] \in {"completed", "failed"}}

\* the queued tasks whose dependencies are completed
Ready == {t \in Task : status[t] = "queued" /\ \A d \in Depends[t] : status[d] = "completed"}

----------------------------------------------------------------------------

\* enqueue_inbox_tasks: rows that exist are reset, but for their attempt_count.
\* Each row is committed by itself: a process that dies has put in some of them.
Enqueue(S) ==
    /\ S # {} /\ enqueues < MaxEnqueues
    /\ status' = [t \in Task |-> IF t \in S THEN "queued" ELSE status[t]]
    /\ owner' = [t \in Task |-> IF t \in S THEN NoWorker ELSE owner[t]]
    /\ enqueues' = enqueues + 1
    /\ takenBack' = takenBack \cup (S \cap (IF S = Task THEN Busy ELSE Busy \cup Completed))
    /\ UNCHANGED <<attempts, doing, unsure>>

\* Mutant: a claim does not enter the worker.
ClaimUnnamed(w, S) ==
    /\ S # {} /\ S \subseteq Ready
    /\ status' = [t \in Task |-> IF t \in S THEN "running" ELSE status[t]]
    /\ attempts' = [t \in Task |-> IF t \in S THEN attempts[t] + 1 ELSE attempts[t]]
    /\ doing' = [doing EXCEPT ![w] = @ \cup S]
    /\ UNCHANGED <<owner, unsure, enqueues, takenBack>>

\* claim_ready_tasks
Claim(w, S) ==
    /\ S # {} /\ S \subseteq Ready
    /\ status' = [t \in Task |-> IF t \in S THEN "running" ELSE status[t]]
    /\ owner' = [t \in Task |-> IF t \in S THEN w ELSE owner[t]]
    /\ attempts' = [t \in Task |-> IF t \in S THEN attempts[t] + 1 ELSE attempts[t]]
    /\ doing' = [doing EXCEPT ![w] = @ \cup S]
    /\ UNCHANGED <<unsure, enqueues, takenBack>>

\* mark_many_status: neither the status nor the owner of a row is looked at.
Marked(S, s, w) ==
    /\ status' = [t \in Task |-> IF t \in S THEN s ELSE status[t]]
    /\ owner' = [t \in Task |-> IF t \in S THEN w ELSE owner[t]]

\* A worker reports tasks as completed or failed: /clawteam/worker/ack and the
\* mark_many_completed and mark_many_failed of the graph nodes.  If the reply is
\* lost it may report them again, and not as the same.
Ack(w, S, s, replied) ==
    /\ S # {} /\ S \subseteq doing[w] \cup unsure[w]
    /\ Marked(S, s, w)
    /\ doing' = [doing EXCEPT ![w] = @ \ S]
    /\ unsure' = [unsure EXCEPT ![w] = IF replied THEN @ \ S ELSE @ \cup S]
    /\ takenBack' = takenBack \cup (IF s = "failed" THEN S \cap Completed ELSE {})
    /\ UNCHANGED <<attempts, enqueues>>

\* A worker dies, its claim's response is lost, or collect_delivery leaves the
\* audit alone because nothing was expected.
Drop(w) ==
    /\ doing[w] \cup unsure[w] # {}
    /\ doing' = [doing EXCEPT ![w] = {}]
    /\ unsure' = [unsure EXCEPT ![w] = {}]
    /\ UNCHANGED <<status, owner, attempts, enqueues, takenBack>>

\* Mutant: one attempt more than the limit.
SpentLate(S) == {t \in S : attempts[t] > MaxAttempts}

\* stale tasks that have had their attempts
Spent(S) == {t \in S : attempts[t] >= MaxAttempts}

\* requeue_stale_running_tasks, with S the running tasks that are old enough
RequeueStale(S) ==
    /\ S # {} /\ S \subseteq Running
    /\ status' = [t \in Task |-> CASE t \in Spent(S) -> "failed"
                                   [] t \in S \ Spent(S) -> "queued"
                                   [] OTHER -> status[t]]
    /\ owner' = [t \in Task |-> IF t \in S \ Spent(S) THEN NoWorker ELSE owner[t]]
    /\ takenBack' = takenBack \cup (S \cap Busy)
    /\ UNCHANGED <<attempts, doing, unsure, enqueues>>

----------------------------------------------------------------------------

Init ==
    /\ status = [t \in Task |-> "absent"]
    /\ owner = [t \in Task |-> NoWorker]
    /\ attempts = [t \in Task |-> 0]
    /\ doing = [w \in Worker |-> {}]
    /\ unsure = [w \in Worker |-> {}]
    /\ enqueues = 0
    /\ takenBack = {}

Next ==
    \/ \E S \in SUBSET Task : Enqueue(S)
    \/ \E w \in Worker, S \in SUBSET Task : Claim(w, S)
    \/ \E w \in Worker, S \in SUBSET Task, s \in {"completed", "failed"}, replied \in BOOLEAN :
           Ack(w, S, s, replied)
    \/ \E w \in Worker : Drop(w)
    \/ \E S \in SUBSET Task : RequeueStale(S)

Spec == Init /\ [][Next]_vars

----------------------------------------------------------------------------
(* Properties. *)

\* Every variable has its type, and a running row names a worker.
TypeOK ==
    /\ status \in [Task -> Status]
    /\ owner \in [Task -> Worker \cup {NoWorker}]
    /\ attempts \in [Task -> Nat]
    /\ doing \in [Worker -> SUBSET Task]
    /\ unsure \in [Worker -> SUBSET Task]
    /\ enqueues \in 0..MaxEnqueues
    /\ takenBack \subseteq Task
    /\ \A t \in Running : owner[t] \in Worker

\* dragon-senate-saas-v2/README.md:643: the dependency chain is enforced.  A task
\* is worked on, or finished, only with all it depends on completed, as long as
\* none of them has been taken back: a report is taken for the task's outcome
\* whatever has become of the task, and whatever was reported before
\* (clawteam_inbox.py:459).
ChainHeld ==
    \A t \in Task \ takenBack : (status[t] \in {"running", "completed"} \/ t \in Busy) =>
        \A d \in Depends[t] : status[d] = "completed" \/ d \in takenBack

\* Until it is taken back a task has one worker at most, and none once it is
\* queued or over, whatever is reported twice; and whatever workers die, a task
\* is claimed no oftener than max_attempt_count, and once more for each time it
\* is enqueued again, which resets the status and not the attempts
\* (clawteam_inbox.py:275).
ExecutionsBounded ==
    /\ \A t \in Task \ takenBack : Cardinality(Holders(t)) <= (IF t \in Running THEN 1 ELSE 0)
    /\ \A t \in Task : attempts[t] # 0 => attempts[t] < MaxAttempts + enqueues

=============================================================================
