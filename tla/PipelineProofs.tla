--------------------------- MODULE PipelineProofs ---------------------------
(* Invariants of Pipeline, for all probes, routes, limits and bounds. *)
EXTENDS Pipeline, TLAPS

(***************************************************************************)
(* The inductive invariant: jobs, circuit and budget.                       *)
(***************************************************************************)

JobsTyped ==
    /\ status \in [Job -> {"none", "waiting", "active", "completed", "failed"}]
    /\ tries \in [Job -> 0..(Attempts - 1)]
    /\ at \in [Queue -> Job \cup {NoJob}]
    /\ step \in [Queue -> {"idle", "reserve", "work", "add", "finish", "undo"}]
    /\ \A q \in Queue : Idle(q) = (step[q] = "idle")
    /\ \A q \in Queue : ~Idle(q) => at[q].queue = q /\ status[at[q]] = "active"

\* A job of probe p has been put into queue q.
Has(p, q) == \E k \in Job : k.probe = p /\ k.queue = q /\ status[k] # "none"

\* What is completed, or about to be, has been handed on; and what a queue has
\* got was handed on to it by the queue before.
Handing ==
    /\ \A j \in Job : (status[j] = "completed" /\ j.queue # Last) => Has(j.probe, Next[j.queue])
    /\ \A q \in Queue : step[q] \in {"add", "finish"} => q # Last
    /\ \A q \in Queue : step[q] = "finish" => Has(at[q].probe, Next[q])
    /\ \A p \in Probe, q \in Queue \ {Last} : Has(p, Next[q]) => Has(p, q)

\* Without a fault a job is handed on by its last step only.
Single ==
    faults = 0 =>
        /\ \A j \in Job : status[j] # "none" => j.copy = 1
        /\ \A j \in Job : (status[j] # "none" /\ j.queue # Last /\ Has(j.probe, Next[j.queue])) =>
              \/ status[j] = "completed"
              \/ at[j.queue] = j /\ step[j.queue] = "finish"

JobsInv == JobsTyped /\ Handing /\ Single

CircuitInv == fails \in [Queue -> 0..Threshold] /\ open \in BOOLEAN

BudgetTyped ==
    /\ day \in Day /\ key \in Day
    /\ counter \in [Day -> Nat]
    /\ handed \in [Day -> Nat] /\ uncounted \in [Day -> Nat]
    /\ leaked \in [Day -> Nat] /\ refused \in [Day -> Nat]
    /\ faults \in 0..MaxFaults

\* The reservation at hand is within the limit as well.
Accounts ==
    \A d \in Day :
        /\ counter[d] + uncounted[d] = handed[d] + leaked[d] + refused[d] + Reserved(d)
        /\ uncounted[d] <= handed[d]
        /\ handed[d] + Reserved(d) <= Limit + uncounted[d]
        /\ refused[d] > 0 => handed[d] + leaked[d] >= Limit + uncounted[d]

\* Nobody has been refused on the day whose budget the forge job at hand is
\* drawn on, and what it has handed on is counted until its add fails for it.
ForgeAtWork ==
    /\ step["forge"] \in Reserving \cup {"finish"} => refused[key] = 0
    /\ step["forge"] = "finish" => uncounted[key] < handed[key]

BudgetInv == BudgetTyped /\ Accounts /\ ForgeAtWork

IInv == JobsInv /\ CircuitInv /\ BudgetInv

\* The forge is a queue, and not the last one.
LEMMA Forge == "forge" \in Queue /\ "forge" # Last
BY PipelineAssumption

\* A circuit opens at some failure, not at none.
LEMMA Thresholds == Threshold \in Nat \ {0} /\ 0 \in 0..Threshold
<1>1. Threshold \in Nat \ {0}
  BY PipelineAssumption
<1> QED BY <1>1

----------------------------------------------------------------------------
(* Jobs. *)

\* Where no job disappears or comes up, the queues have what they had.
LEMMA HasSame ==
    ASSUME \A k \in Job : (status'[k] = "none") = (status[k] = "none"), NEW p, NEW q
    PROVE  Has(p, q)' = Has(p, q)
BY DEF Has

\* A job that leaves its worker as it should keeps the job invariant.
LEMMA LeavesHolds ==
    ASSUME JobsInv, NEW q \in Queue, ~Idle(q),
           NEW s \in {"waiting", "completed", "failed"}, NEW n \in 0..(Attempts - 1),
           Leaves(q, s, n),
           s = "completed" => q = Last \/ step[q] = "finish",
           faults' = 0 => faults = 0 /\ (step[q] = "finish" => s = "completed")
    PROVE  JobsInv'
<1> DEFINE j == at[q]
<1>0. j \in Job /\ j.queue = q /\ status[j] = "active"
  BY DEF JobsInv, JobsTyped, Idle
<1>1. JobsTyped'
  <2>1. /\ status' \in [Job -> {"none", "waiting", "active", "completed", "failed"}]
        /\ tries' \in [Job -> 0..(Attempts - 1)]
        /\ at' \in [Queue -> Job \cup {NoJob}]
        /\ step' \in [Queue -> {"idle", "reserve", "work", "add", "finish", "undo"}]
    BY <1>0 DEF JobsInv, JobsTyped, Leaves
  <2>2. \A r \in Queue : Idle(r)' = (step'[r] = "idle")
    BY DEF JobsInv, JobsTyped, Idle, Leaves
  <2>3. ASSUME NEW r \in Queue, ~Idle(r)' PROVE at'[r].queue = r /\ status'[at'[r]] = "active"
    <3>1. r # q /\ at'[r] = at[r] /\ at[r] \in Job /\ at[r].queue = r /\ status[at[r]] = "active"
      BY <2>3 DEF JobsInv, JobsTyped, Idle, Leaves
    <3> QED BY <1>0, <3>1 DEF JobsInv, JobsTyped, Leaves
  <2> QED BY <2>1, <2>2, <2>3 DEF JobsTyped
<1>2. \A k \in Job : (status'[k] = "none") = (status[k] = "none")
  BY <1>0 DEF JobsInv, JobsTyped, Leaves
<1>3. \A p, r : Has(p, r)' = Has(p, r)
  BY <1>2, HasSame
<1>4. Handing'
  <2>1. ASSUME NEW k \in Job, status'[k] = "completed", k.queue # Last
        PROVE  Has(k.probe, Next[k.queue])
    BY <1>0, <2>1 DEF JobsInv, JobsTyped, Handing, Leaves
  <2>2. ASSUME NEW r \in Queue, step'[r] \in {"add", "finish"}
        PROVE  r # Last /\ (step'[r] = "finish" => Has(at'[r].probe, Next[r]))
    BY <2>2 DEF JobsInv, JobsTyped, Handing, Leaves
  <2>3. \A p \in Probe, r \in Queue \ {Last} : Has(p, Next[r]) => Has(p, r)
    BY DEF JobsInv, Handing
  <2> QED BY <1>3, <2>1, <2>2, <2>3 DEF Handing
<1>5. Single'
  <2> SUFFICES ASSUME faults' = 0, NEW k \in Job, status'[k] # "none"
               PROVE  /\ k.copy = 1
                      /\ (k.queue # Last /\ Has(k.probe, Next[k.queue])) =>
                            \/ status'[k] = "completed"
                            \/ at'[k.queue] = k /\ step'[k.queue] = "finish"
    BY <1>3 DEF Single
  <2>1. status[k] # "none" /\ faults = 0
    BY <1>2
  <2>2. CASE k = j
    BY <1>0, <2>1, <2>2 DEF JobsInv, JobsTyped, Single, Leaves
  <2>3. CASE k # j
    <3>1. status'[k] = status[k]
      BY <1>0, <2>3 DEF JobsInv, JobsTyped, Leaves
    <3>2. at[k.queue] = k => k.queue # q
      BY <2>3
    <3>3. k.queue \in Queue
      BY DEF Job
    <3> QED BY <2>1, <3>1, <3>2, <3>3 DEF JobsInv, JobsTyped, Single, Leaves
  <2> QED BY <2>2, <2>3
<1> QED BY <1>1, <1>4, <1>5 DEF JobsInv

\* So does a failed attempt, but for one after the job was handed on.
LEMMA AttemptFailsHolds ==
    ASSUME JobsInv, NEW q \in Queue, ~Idle(q), AttemptFails(q),
           faults' = 0 => faults = 0 /\ step[q] # "finish"
    PROVE  JobsInv'
<1>1. tries[at[q]] \in 0..(Attempts - 1) /\ Attempts \in Nat \ {0}
  BY PipelineAssumption DEF JobsInv, JobsTyped, Idle
<1>2. PICK s \in {"waiting", "failed"}, n \in 0..(Attempts - 1) : Leaves(q, s, n)
  BY <1>1 DEF AttemptFails
<1> QED BY <1>2, LeavesHolds

\* So does a worker that goes on at its job.
LEMMA GoesToHolds ==
    ASSUME JobsInv, NEW q \in Queue, ~Idle(q), NEW s \in {"work", "add", "undo"}, GoesTo(q, s),
           s = "add" => q # Last,
           faults' = 0 => faults = 0 /\ step[q] # "finish"
    PROVE  JobsInv'
<1>1. JobsTyped'
  BY DEF JobsInv, JobsTyped, Idle, GoesTo
<1>2. \A p, r : Has(p, r)' = Has(p, r)
  BY DEF Has, GoesTo
<1>3. Handing'
  BY <1>2 DEF JobsInv, JobsTyped, Handing, GoesTo
<1>4. Single'
  <2> SUFFICES ASSUME faults' = 0, NEW k \in Job, status[k] # "none"
               PROVE  /\ k.copy = 1
                      /\ (k.queue # Last /\ Has(k.probe, Next[k.queue])) =>
                            \/ status[k] = "completed"
                            \/ at[k.queue] = k /\ step'[k.queue] = "finish"
    BY <1>2 DEF Single, GoesTo
  <2>1. k.queue \in Queue
    BY DEF Job
  <2> QED BY <2>1 DEF JobsInv, JobsTyped, Single, GoesTo
<1> QED BY <1>1, <1>3, <1>4 DEF JobsInv

\* So does the catch block.
LEMMA CatchesHolds ==
    ASSUME JobsInv, CircuitInv, NEW q \in Queue, ~Idle(q), Catches(q),
           faults' = 0 => faults = 0 /\ step[q] # "finish"
    PROVE  JobsInv' /\ CircuitInv'
<1>1. CASE q = "forge"
  BY <1>1, GoesToHolds DEF Catches, CircuitInv, circuit
<1>2. CASE q # "forge"
  <2>1. JobsInv'
    BY <1>2, AttemptFailsHolds DEF Catches
  <2>2. CircuitInv'
    BY <1>2, PipelineAssumption DEF Catches, RecordFailure, CircuitInv
  <2> QED BY <2>1, <2>2
<1> QED BY <1>1, <1>2

\* A new probe keeps it: its queue hands on to others, and nobody hands on to it.
LEMMA ProbesJobs == ASSUME JobsInv, NEW p \in Probe, Probes(p) PROVE JobsInv'
<1> DEFINE j == [probe |-> p, queue |-> First, copy |-> 1]
<1>0. j \in Job /\ status[j] = "none" /\ status' = [status EXCEPT ![j] = "waiting"]
  BY PipelineAssumption DEF Probes, Job
<1> HIDE DEF j
<1>1. JobsTyped'
  <2>1. \A q \in Queue : ~Idle(q) => at[q] # j
    BY <1>0 DEF JobsInv, JobsTyped
  <2> QED BY <1>0, <2>1 DEF JobsInv, JobsTyped, Idle, Probes
<1>2. j.queue = First /\ j.copy = 1
  BY DEF j
<1>3. \A q \in Queue \ {Last} : Next[q] # First
  BY PipelineAssumption
<1>4. \A q \in Queue \ {Last} : \A x : Has(x, Next[q])' = Has(x, Next[q])
  BY <1>0, <1>2, <1>3 DEF JobsInv, JobsTyped, Has
<1>5. Handing'
  <2>1. ASSUME NEW k \in Job, status'[k] = "completed", k.queue # Last
        PROVE  Has(k.probe, Next[k.queue])'
    <3>1. k.queue \in Queue /\ status[k] = "completed"
      BY <1>0, <2>1 DEF JobsInv, JobsTyped, Job
    <3> QED BY <1>4, <2>1, <3>1 DEF JobsInv, Handing
  <2>2. ASSUME NEW q \in Queue, step'[q] \in {"add", "finish"}
        PROVE  q # Last /\ (step'[q] = "finish" => Has(at[q].probe, Next[q])')
    <3>1. step' = step /\ at' = at
      BY DEF Probes
    <3>2. q # Last /\ (step[q] = "finish" => Has(at[q].probe, Next[q]))
      BY <2>2, <3>1 DEF JobsInv, Handing
    <3>3. Has(at[q].probe, Next[q]) => Has(at[q].probe, Next[q])'
      BY <1>0, <3>1 DEF JobsInv, JobsTyped, Has
    <3> QED BY <2>2, <3>1, <3>2, <3>3
  <2>3. ASSUME NEW x \in Probe, NEW q \in Queue \ {Last}, Has(x, Next[q])' PROVE Has(x, q)'
    <3>1. Has(x, q)
      BY <1>4, <2>3 DEF JobsInv, Handing
    <3> QED BY <1>0, <3>1 DEF JobsInv, JobsTyped, Has
  <2> QED BY <2>1, <2>2, <2>3 DEF Handing
<1>6. Single'
  <2> SUFFICES ASSUME faults = 0, NEW k \in Job, status'[k] # "none"
               PROVE  /\ k.copy = 1
                      /\ (k.queue # Last /\ Has(k.probe, Next[k.queue])') =>
                            \/ status'[k] = "completed"
                            \/ at[k.queue] = k /\ step[k.queue] = "finish"
    BY DEF Single, Probes
  <2>1. k.queue \in Queue
    BY DEF Job
  <2>2. CASE k = j
    <3>1. First # Last => ~Has(p, Next[First])
      <4> SUFFICES ASSUME First # Last, Has(p, Next[First]) PROVE FALSE
        OBVIOUS
      <4>1. PICK i \in Job : i.probe = p /\ i.queue = First /\ status[i] # "none"
        BY PipelineAssumption DEF JobsInv, Handing, Has
      <4>2. i.copy = 1
        BY <4>1 DEF JobsInv, Single
      <4>3. i = j
        BY <4>1, <4>2 DEF j, Job
      <4> QED BY <1>0, <4>1, <4>3
    <3>2. k.queue = First /\ k.probe = p
      BY <2>2 DEF j
    <3> QED BY <1>2, <1>4, <2>1, <2>2, <3>1, <3>2
  <2>3. CASE k # j
    <3>1. status'[k] = status[k]
      BY <1>0, <2>3 DEF JobsInv, JobsTyped
    <3> QED BY <1>4, <2>1, <3>1 DEF JobsInv, Single
  <2> QED BY <2>2, <2>3
<1> QED BY <1>1, <1>5, <1>6 DEF JobsInv

\* Taking a job keeps it.
LEMMA TakesJobs == ASSUME JobsInv, NEW j \in Job, Takes(j) PROVE JobsInv'
<1> DEFINE q == j.queue
<1>0. q \in Queue /\ Idle(q) /\ status[j] = "waiting" /\ j # NoJob
  BY NoJobIsNoJob DEF Takes, Job
<1>1. JobsTyped'
  <2>1. /\ status' \in [Job -> {"none", "waiting", "active", "completed", "failed"}]
        /\ tries' \in [Job -> 0..(Attempts - 1)]
        /\ at' \in [Queue -> Job \cup {NoJob}]
        /\ step' \in [Queue -> {"idle", "reserve", "work", "add", "finish", "undo"}]
    BY DEF JobsInv, JobsTyped, Takes
  <2>2. \A r \in Queue : Idle(r)' = (step'[r] = "idle")
    BY <1>0 DEF JobsInv, JobsTyped, Idle, Takes
  <2>3. ASSUME NEW r \in Queue, ~Idle(r)' PROVE at'[r].queue = r /\ status'[at'[r]] = "active"
    <3>1. CASE r = q
      BY <3>1, <1>0 DEF JobsInv, JobsTyped, Takes
    <3>2. CASE r # q
      <4>1. at'[r] = at[r] /\ at[r] \in Job /\ at[r].queue = r /\ status[at[r]] = "active"
        BY <2>3, <3>2 DEF JobsInv, JobsTyped, Idle, Takes
      <4> QED BY <1>0, <4>1 DEF JobsInv, JobsTyped, Takes
    <3> QED BY <3>1, <3>2
  <2> QED BY <2>1, <2>2, <2>3 DEF JobsTyped
<1>2. \A k \in Job : (status'[k] = "none") = (status[k] = "none")
  BY <1>0 DEF JobsInv, JobsTyped, Takes
<1>3. \A p, r : Has(p, r)' = Has(p, r)
  BY <1>2, HasSame
<1>4. Handing'
  <2>1. ASSUME NEW k \in Job, status'[k] = "completed", k.queue # Last
        PROVE  Has(k.probe, Next[k.queue])
    BY <2>1 DEF JobsInv, JobsTyped, Handing, Takes
  <2>2. ASSUME NEW r \in Queue, step'[r] \in {"add", "finish"}
        PROVE  r # Last /\ (step'[r] = "finish" => Has(at'[r].probe, Next[r]))
    BY <2>2 DEF JobsInv, JobsTyped, Handing, Takes
  <2>3. \A p \in Probe, r \in Queue \ {Last} : Has(p, Next[r]) => Has(p, r)
    BY DEF JobsInv, Handing
  <2> QED BY <1>3, <2>1, <2>2, <2>3 DEF Handing
<1>5. Single'
  <2> SUFFICES ASSUME faults = 0, NEW k \in Job, status'[k] # "none"
               PROVE  /\ k.copy = 1
                      /\ (k.queue # Last /\ Has(k.probe, Next[k.queue])) =>
                            \/ status'[k] = "completed"
                            \/ at'[k.queue] = k /\ step'[k.queue] = "finish"
    BY <1>3 DEF Single, Takes
  <2>1. status[k] # "none" /\ k.queue \in Queue
    BY <1>2 DEF Job
  <2>2. k.copy = 1
    BY <2>1 DEF JobsInv, Single
  <2>3. CASE k.queue = q /\ status[k] # "completed"
    <3>1. step[q] = "idle"
      BY <1>0 DEF JobsInv, JobsTyped
    <3>2. ~(k.queue # Last /\ Has(k.probe, Next[k.queue]))
      BY <2>1, <2>3, <3>1 DEF JobsInv, Single
    <3> QED BY <2>2, <3>2
  <2>4. CASE status[k] = "completed"
    BY <1>0, <2>2, <2>4 DEF JobsInv, JobsTyped, Takes
  <2>5. CASE k.queue # q
    <3>1. /\ at'[k.queue] = at[k.queue] /\ step'[k.queue] = step[k.queue]
          /\ status'[k] = status[k]
      BY <2>1, <2>5 DEF JobsInv, JobsTyped, Takes
    <3> QED BY <2>1, <2>2, <3>1 DEF JobsInv, Single
  <2> QED BY <2>2, <2>3, <2>4, <2>5
<1> QED BY <1>1, <1>4, <1>5 DEF JobsInv

\* Handing on keeps it: without a fault it is the first time.
LEMMA AddsJobs ==
    ASSUME JobsInv, faults \in Nat, NEW q \in Queue, NEW n \in 1..MaxCopies, Adds(q, n) PROVE JobsInv'
<1> DEFINE i == at[q]
           j == [probe |-> at[q].probe, queue |-> Next[q], copy |-> n]
<1>0. step[q] = "add" /\ q # Last /\ i \in Job /\ i.queue = q /\ status[i] = "active"
  BY DEF JobsInv, JobsTyped, Handing, Idle, Adds
<1>1. j \in Job /\ status[j] = "none" /\ j.probe = i.probe /\ j.queue = Next[q] /\ j.copy = n
  BY <1>0, PipelineAssumption DEF Adds, Job
<1>2. /\ status' = [status EXCEPT ![j] = "waiting"] /\ step' = [step EXCEPT ![q] = "finish"]
      /\ at' = at /\ tries' = tries /\ faults' = faults
  BY DEF Adds
<1>3. \A m \in 1..(n - 1) : status[[j EXCEPT !.copy = m]] # "none"
  BY DEF Adds
<1>4. \A m \in 1..MaxCopies : [j EXCEPT !.copy = m] \in Job
  BY <1>0, PipelineAssumption DEF Job
<1>5. \A m \in 1..MaxCopies : [j EXCEPT !.copy = m].copy = m /\ [j EXCEPT !.copy = m].probe = i.probe
                            /\ [j EXCEPT !.copy = m].queue = Next[q]
  OBVIOUS
<1> HIDE DEF i, j
<1>6. JobsTyped'
  <2>1. \A r \in Queue : ~Idle(r) => at[r] # j
    BY <1>1 DEF JobsInv, JobsTyped
  <2>2. ~Idle(q)
    BY <1>0 DEF JobsInv, JobsTyped
  <2> QED BY <1>1, <1>2, <2>1, <2>2 DEF JobsInv, JobsTyped, Idle
<1>7. \A p, r : Has(p, r)' = (Has(p, r) \/ (p = i.probe /\ r = Next[q]))
  <2>1. \A k \in Job : (status'[k] # "none") = (status[k] # "none" \/ k = j)
    BY <1>1, <1>2 DEF JobsInv, JobsTyped
  <2>2. SUFFICES ASSUME NEW p, NEW r PROVE Has(p, r)' = (Has(p, r) \/ (p = i.probe /\ r = Next[q]))
    OBVIOUS
  <2>3. Has(p, r)' => Has(p, r) \/ (p = i.probe /\ r = Next[q])
    BY <1>1, <2>1 DEF Has
  <2>4. Has(p, r) \/ (p = i.probe /\ r = Next[q]) => Has(p, r)'
    BY <1>1, <2>1 DEF Has
  <2>5. Has(p, r)' \in BOOLEAN /\ Has(p, r) \in BOOLEAN
    BY DEF Has
  <2> QED BY <2>3, <2>4, <2>5
<1>8. Handing'
  <2>1. ASSUME NEW k \in Job, status'[k] = "completed", k.queue # Last
        PROVE  Has(k.probe, Next[k.queue])'
    BY <1>1, <1>2, <1>7, <2>1 DEF JobsInv, JobsTyped, Handing
  <2>2. ASSUME NEW r \in Queue, step'[r] \in {"add", "finish"}
        PROVE  r # Last /\ (step'[r] = "finish" => Has(at[r].probe, Next[r])')
    <3>1. CASE r = q
      <4>1. Has(at[r].probe, Next[r])'
        BY <1>1, <1>2, <3>1 DEF JobsInv, JobsTyped, Has, i
      <4> QED BY <1>0, <3>1, <4>1
    <3>2. CASE r # q
      <4>1. r # Last /\ (step'[r] = "finish" => Has(at[r].probe, Next[r]))
        BY <1>2, <2>2, <3>2 DEF JobsInv, JobsTyped, Handing
      <4>2. Has(at[r].probe, Next[r]) => Has(at[r].probe, Next[r])'
        BY <1>1, <1>2 DEF JobsInv, JobsTyped, Has
      <4> QED BY <4>1, <4>2
    <3> QED BY <3>1, <3>2
  <2>3. ASSUME NEW p \in Probe, NEW r \in Queue \ {Last}, Has(p, Next[r])' PROVE Has(p, r)'
    <3>1. CASE Has(p, Next[r])
      BY <1>7, <3>1 DEF JobsInv, Handing
    <3>2. CASE p = i.probe /\ Next[r] = Next[q]
      <4>1. r = q
        BY <1>0, <3>2, PipelineAssumption
      <4>2. Has(p, r)
        BY <1>0, <3>2, <4>1 DEF Has
      <4> QED BY <1>7, <4>2
    <3> QED BY <1>7, <2>3, <3>1, <3>2
  <2> QED BY <2>1, <2>2, <2>3 DEF Handing
<1>9. Single'
  <2> SUFFICES ASSUME faults = 0, NEW k \in Job, status'[k] # "none"
               PROVE  /\ k.copy = 1
                      /\ (k.queue # Last /\ Has(k.probe, Next[k.queue])') =>
                            \/ status'[k] = "completed"
                            \/ at[k.queue] = k /\ step'[k.queue] = "finish"
    BY <1>2 DEF Single
  <2>0. k.queue \in Queue /\ k.copy \in 1..MaxCopies
    BY DEF Job
  <2>1. ~Has(i.probe, Next[q])
    BY <1>0 DEF JobsInv, Single
  <2>2. n = 1
    <3> SUFFICES ASSUME n # 1 PROVE FALSE
      OBVIOUS
    <3>1. 1 \in 1..(n - 1) /\ 1 \in 1..MaxCopies
      BY PipelineAssumption
    <3>2. status[[j EXCEPT !.copy = 1]] # "none"
      BY <1>3, <3>1
    <3> QED BY <1>4, <1>5, <2>1, <3>1, <3>2 DEF Has
  <2>3. CASE k = j
    <3>1. Next[q] # Last => ~Has(i.probe, Next[Next[q]])
      <4>1. i.probe \in Probe /\ Next[q] \in Queue
        BY <1>0, PipelineAssumption DEF Job
      <4> QED BY <2>1, <4>1 DEF JobsInv, Handing
    <3>2. Next[q] # Last => Next[Next[q]] # Next[q]
      BY <1>0, PipelineAssumption
    <3> QED BY <1>1, <1>7, <2>2, <2>3, <3>1, <3>2
  <2>4. CASE k # j
    <3>1. status'[k] = status[k] /\ k.copy = 1
      BY <1>1, <1>2, <2>4 DEF JobsInv, JobsTyped, Single
    <3>2. ASSUME k.queue # Last, k.probe = i.probe, Next[k.queue] = Next[q]
          PROVE  k = i
      <4>1. k.queue = q
        BY <1>0, <2>0, <3>2, PipelineAssumption
      <4>2. i.copy = 1
        BY <1>0 DEF JobsInv, Single
      <4> QED BY <1>0, <3>1, <3>2, <4>1, <4>2 DEF Job
    <3>3. ASSUME k.queue # Last, Has(k.probe, Next[k.queue])
          PROVE  \/ status[k] = "completed"
                 \/ at[k.queue] = k /\ step'[k.queue] = "finish"
      BY <1>2, <2>0, <3>1, <3>3 DEF JobsInv, JobsTyped, Single
    <3>4. i = at[q] /\ step'[q] = "finish"
      BY <1>2 DEF JobsInv, JobsTyped, i
    <3> QED BY <1>0, <1>7, <3>1, <3>2, <3>3, <3>4
  <2> QED BY <2>3, <2>4
<1> QED BY <1>6, <1>8, <1>9 DEF JobsInv

\* A restart keeps it, a fault that it is.
LEMMA RestartsJobs == ASSUME JobsInv, faults \in Nat, Restarts PROVE JobsInv'
<1>1. JobsTyped'
  BY DEF JobsInv, JobsTyped, Idle, Restarts
<1>2. \A k \in Job : (status'[k] = "none") = (status[k] = "none")
  BY DEF JobsInv, JobsTyped, Restarts
<1>3. \A p, r : Has(p, r)' = Has(p, r)
  BY <1>2, HasSame
<1>4. Handing'
  <2>1. ASSUME NEW k \in Job, status'[k] = "completed" PROVE status[k] = "completed"
    BY <2>1 DEF JobsInv, JobsTyped, Restarts
  <2>2. \A q \in Queue : step'[q] = "idle"
    BY DEF Restarts
  <2> QED BY <1>3, <2>1, <2>2 DEF JobsInv, Handing
<1>5. Single'
  BY DEF Restarts, Faulty, Single
<1> QED BY <1>1, <1>4, <1>5 DEF JobsInv

----------------------------------------------------------------------------
(* The budget. *)

\* A step that leaves budget and reservation alone keeps the budget invariant.
LEMMA BudgetStays ==
    ASSUME BudgetInv, UNCHANGED <<counter, handed, uncounted, leaked, refused>>,
           day' \in Day, key' \in Day, faults' \in 0..MaxFaults,
           \/ key' = key /\ (step'["forge"] \in Reserving) = (step["forge"] \in Reserving)
           \/ ~(step["forge"] \in Reserving \/ step'["forge"] \in Reserving),
           step'["forge"] = "finish" => key' = key /\ step["forge"] = "finish"
    PROVE  BudgetInv'
<1>1. \A d \in Day : Reserved(d)' = Reserved(d)
  BY DEF Reserved
<1>2. BudgetTyped' /\ Accounts'
  BY <1>1 DEF BudgetInv, BudgetTyped, Accounts
<1>3. ForgeAtWork'
  BY DEF BudgetInv, ForgeAtWork
<1> QED BY <1>2, <1>3 DEF BudgetInv

\* A reservation, a refusal, an error of INCR keep it.
LEMMA ReserveBudget ==
    ASSUME BudgetInv, JobsInv, Reserves \/ Refuses \/ \E b \in BOOLEAN : ReserveErrs(b)
    PROVE  BudgetInv'
<1> USE DEF BudgetInv, BudgetTyped
<1>0. /\ step["forge"] = "reserve" /\ key \in Day /\ key' = key /\ day' = day
      /\ \A d \in Day : Reserved(d) = 0
      /\ Limit \in Nat /\ handed' = handed /\ uncounted' = uncounted
  BY PipelineAssumption DEF Reserves, Refuses, ReserveErrs, Reserved, Reserving
<1>1. step'["forge"] \in {"idle", "work"} /\ "forge" \in DOMAIN step
  BY Forge DEF JobsInv, JobsTyped, Reserves, Refuses, ReserveErrs, GoesTo, AttemptFails, Leaves
<1>2. \A d \in Day : Reserved(d)' = IF step'["forge"] = "work" /\ d = key THEN 1 ELSE 0
  BY <1>0, <1>1 DEF Reserved, Reserving
<1>3. CASE Reserves
  <2>1. step'["forge"] = "work" /\ counter' = [counter EXCEPT ![key] = @ + 1]
        /\ leaked' = leaked /\ refused' = refused /\ faults' = faults
    BY <1>1, <1>3, Forge DEF Reserves, GoesTo
  <2>0. counter[key] < Limit
    BY <1>3 DEF Reserves
  <2>2. refused[key] = 0 /\ handed[key] + 1 <= Limit + uncounted[key]
    <3>1. /\ counter[key] + uncounted[key] = handed[key] + leaked[key] + refused[key]
          /\ refused[key] > 0 => handed[key] + leaked[key] >= Limit + uncounted[key]
      BY <1>0 DEF Accounts
    <3>2. {counter[key], uncounted[key], handed[key], leaked[key], refused[key]} \subseteq Nat
      BY <1>0
    <3> QED BY <1>0, <2>0, <3>1, <3>2
  <2>3. BudgetTyped'
    BY <1>0, <2>1
  <2>4. Accounts'
    BY <1>0, <1>2, <2>1, <2>2 DEF Accounts
  <2>5. ForgeAtWork'
    BY <1>0, <2>1, <2>2 DEF ForgeAtWork
  <2> QED BY <2>3, <2>4, <2>5
<1>4. CASE Refuses
  <2>1. /\ counter' = [counter EXCEPT ![key] = @ + 1] /\ refused' = [refused EXCEPT ![key] = @ + 1]
        /\ leaked' = leaked /\ faults' = faults
    BY <1>4 DEF Refuses
  <2>2. step'["forge"] = "idle"
    BY <1>1, <1>4 DEF Refuses, AttemptFails, Leaves
  <2>3. handed[key] + leaked[key] >= Limit + uncounted[key]
    <3>1. /\ counter[key] + uncounted[key] = handed[key] + leaked[key] + refused[key]
          /\ refused[key] > 0 => handed[key] + leaked[key] >= Limit + uncounted[key]
          /\ counter[key] >= Limit
      BY <1>0, <1>4 DEF Accounts, Refuses
    <3>2. {counter[key], uncounted[key], handed[key], leaked[key], refused[key]} \subseteq Nat
      BY <1>0
    <3> QED BY <1>0, <3>1, <3>2
  <2>4. BudgetTyped'
    BY <1>0, <2>1
  <2>5. Accounts'
    BY <1>0, <1>2, <2>1, <2>2, <2>3 DEF Accounts
  <2> QED BY <2>2, <2>4, <2>5 DEF ForgeAtWork, Reserving
<1>5. ASSUME NEW b \in BOOLEAN, ReserveErrs(b) PROVE BudgetInv'
  <2>1. /\ counter' = [counter EXCEPT ![key] = IF b THEN @ + 1 ELSE @]
        /\ leaked' = [leaked EXCEPT ![key] = IF b THEN @ + 1 ELSE @]
        /\ refused' = refused /\ faults' \in 0..MaxFaults
    BY <1>5, PipelineAssumption DEF ReserveErrs, Faulty
  <2>2. step'["forge"] = "idle"
    BY <1>1, <1>5 DEF ReserveErrs, AttemptFails, Leaves
  <2>3. BudgetTyped'
    BY <1>0, <2>1
  <2>4. Accounts'
    <3> SUFFICES ASSUME NEW d \in Day
                 PROVE  /\ counter'[d] + uncounted'[d] = handed'[d] + leaked'[d] + refused'[d] + Reserved(d)'
                        /\ uncounted'[d] <= handed'[d]
                        /\ handed'[d] + Reserved(d)' <= Limit + uncounted'[d]
                        /\ refused'[d] > 0 => handed'[d] + leaked'[d] >= Limit + uncounted'[d]
      BY DEF Accounts
    <3>1. PICK i \in {0, 1} : counter'[d] = counter[d] + i /\ leaked'[d] = leaked[d] + i
      <4>1. \/ counter'[d] = counter[d] + 0 /\ leaked'[d] = leaked[d] + 0
            \/ counter'[d] = counter[d] + 1 /\ leaked'[d] = leaked[d] + 1
        BY <2>1
      <4> QED BY <4>1
    <3>2. /\ handed'[d] = handed[d] /\ uncounted'[d] = uncounted[d] /\ refused'[d] = refused[d]
          /\ Reserved(d) = 0 /\ Reserved(d)' = 0
      BY <1>0, <1>2, <2>1, <2>2
    <3>3. {counter[d], uncounted[d], handed[d], leaked[d], refused[d]} \subseteq Nat
      BY <1>0
    <3>4. /\ counter[d] + uncounted[d] = handed[d] + leaked[d] + refused[d] + Reserved(d)
          /\ uncounted[d] <= handed[d]
          /\ handed[d] + Reserved(d) <= Limit + uncounted[d]
          /\ refused[d] > 0 => handed[d] + leaked[d] >= Limit + uncounted[d]
      BY DEF Accounts
    <3> QED BY <1>0, <3>1, <3>2, <3>3, <3>4
  <2> QED BY <2>2, <2>3, <2>4 DEF ForgeAtWork, Reserving
<1> QED BY <1>3, <1>4, <1>5

\* Handing on turns the reservation into a content.
LEMMA AddsBudget ==
    ASSUME BudgetInv, JobsInv, NEW q \in Queue, NEW n \in 1..MaxCopies, Adds(q, n)
    PROVE  BudgetInv'
<1>1. CASE q = "forge"
  <2> USE DEF BudgetInv, BudgetTyped
  <2>1. /\ step["forge"] = "add" /\ step'["forge"] = "finish" /\ key' = key /\ key \in Day
        /\ handed' = [handed EXCEPT ![key] = @ + 1]
        /\ counter' = counter /\ uncounted' = uncounted /\ leaked' = leaked
        /\ refused' = refused /\ day' = day /\ faults' = faults
    BY <1>1, Forge DEF Adds, JobsInv, JobsTyped
  <2>2. \A d \in Day : Reserved(d)' = 0 /\ Reserved(d) = IF d = key THEN 1 ELSE 0
    BY <2>1 DEF Reserved, Reserving
  <2>3. BudgetTyped'
    BY <2>1
  <2>4. Accounts'
    <3> SUFFICES ASSUME NEW d \in Day
                 PROVE  /\ counter'[d] + uncounted'[d] = handed'[d] + leaked'[d] + refused'[d] + Reserved(d)'
                        /\ uncounted'[d] <= handed'[d]
                        /\ handed'[d] + Reserved(d)' <= Limit + uncounted'[d]
                        /\ refused'[d] > 0 => handed'[d] + leaked'[d] >= Limit + uncounted'[d]
      BY DEF Accounts
    <3>1. /\ counter[d] + uncounted[d] = handed[d] + leaked[d] + refused[d] + Reserved(d)
          /\ uncounted[d] <= handed[d]
          /\ handed[d] + Reserved(d) <= Limit + uncounted[d]
          /\ refused[d] > 0 => handed[d] + leaked[d] >= Limit + uncounted[d]
      BY DEF Accounts
    <3>2. {counter[d], uncounted[d], handed[d], leaked[d], refused[d], Limit} \subseteq Nat
      BY PipelineAssumption
    <3>3. CASE d = key
      <4>1. /\ counter'[d] = counter[d] /\ leaked'[d] = leaked[d] /\ refused'[d] = refused[d]
            /\ handed'[d] = handed[d] + 1 /\ uncounted'[d] = uncounted[d]
            /\ Reserved(d) = 1 /\ Reserved(d)' = 0
        BY <2>1, <2>2, <3>3
      <4> QED BY <3>1, <3>2, <3>3, <4>1
    <3>4. CASE d # key
      <4>1. /\ counter'[d] = counter[d] /\ leaked'[d] = leaked[d] /\ refused'[d] = refused[d]
            /\ handed'[d] = handed[d] /\ uncounted'[d] = uncounted[d]
            /\ Reserved(d) = 0 /\ Reserved(d)' = 0
        BY <2>1, <2>2, <3>4
      <4> QED BY <3>1, <3>2, <4>1
    <3> QED BY <3>3, <3>4
  <2>5. refused[key] = 0 /\ uncounted[key] <= handed[key]
    BY <2>1 DEF ForgeAtWork, Accounts, Reserving
  <2>6. ForgeAtWork'
    BY <2>1, <2>5 DEF ForgeAtWork, Reserving
  <2> QED BY <2>3, <2>4, <2>6
<1>2. CASE q # "forge"
  <2>1. step'["forge"] = step["forge"] /\ handed' = handed
    BY <1>2, Forge DEF Adds, JobsInv, JobsTyped
  <2> QED BY <2>1, BudgetStays DEF Adds, BudgetInv, BudgetTyped
<1> QED BY <1>1, <1>2

\* The catch block leaves the forge with its reservation to give back.
LEMMA CatchesSteps ==
    ASSUME JobsInv, NEW q \in Queue, Catches(q)
    PROVE  step'["forge"] = IF q = "forge" THEN "undo" ELSE step["forge"]
BY Forge DEF JobsInv, JobsTyped, Catches, GoesTo, AttemptFails, Leaves

\* A failed hand-over leaves a reservation to give back, also for a content that
\* the next queue has.
LEMMA AddErrsBudget ==
    ASSUME BudgetInv, JobsInv, NEW q \in Queue, AddErrs(q)
    PROVE  BudgetInv'
<1>0. faults' \in 0..MaxFaults
  BY PipelineAssumption DEF AddErrs, Faulty, BudgetInv, BudgetTyped
<1>1. CASE q = "forge"
  <2> USE DEF BudgetInv, BudgetTyped
  <2>1. /\ step["forge"] \in {"add", "finish"} /\ step'["forge"] = "undo" /\ key' = key /\ key \in Day
        /\ counter' = counter /\ handed' = handed /\ leaked' = leaked /\ refused' = refused /\ day' = day
    BY <1>1, CatchesSteps DEF AddErrs
  <2>2. refused[key] = 0
    BY <2>1 DEF ForgeAtWork, Reserving
  <2>3. ForgeAtWork'
    BY <2>1, <2>2 DEF ForgeAtWork
  <2>4. CASE step["forge"] = "add"
    <3>1. uncounted' = uncounted
      BY <1>1, <2>4 DEF AddErrs
    <3>2. \A d \in Day : Reserved(d)' = Reserved(d)
      BY <2>1, <2>4 DEF Reserved, Reserving
    <3> QED BY <1>0, <2>1, <2>3, <3>1, <3>2 DEF Accounts
  <2>5. CASE step["forge"] = "finish"
    <3>1. uncounted' = [uncounted EXCEPT ![key] = @ + 1]
      BY <1>1, <2>5 DEF AddErrs
    <3>2. \A d \in Day : Reserved(d) = 0 /\ Reserved(d)' = IF d = key THEN 1 ELSE 0
      BY <2>1, <2>5 DEF Reserved, Reserving
    <3>3. uncounted[key] < handed[key]
      BY <2>5 DEF ForgeAtWork
    <3>4. Accounts'
      <4> SUFFICES ASSUME NEW d \in Day
                   PROVE  /\ counter'[d] + uncounted'[d] = handed'[d] + leaked'[d] + refused'[d] + Reserved(d)'
                          /\ uncounted'[d] <= handed'[d]
                          /\ handed'[d] + Reserved(d)' <= Limit + uncounted'[d]
                          /\ refused'[d] > 0 => handed'[d] + leaked'[d] >= Limit + uncounted'[d]
        BY DEF Accounts
      <4>1. /\ counter[d] + uncounted[d] = handed[d] + leaked[d] + refused[d] + Reserved(d)
            /\ uncounted[d] <= handed[d]
            /\ handed[d] + Reserved(d) <= Limit + uncounted[d]
            /\ refused[d] > 0 => handed[d] + leaked[d] >= Limit + uncounted[d]
        BY DEF Accounts
      <4>2. {counter[d], uncounted[d], handed[d], leaked[d], refused[d], Limit} \subseteq Nat
        BY PipelineAssumption
      <4>3. CASE d = key
        <5>1. /\ counter'[d] = counter[d] /\ leaked'[d] = leaked[d] /\ refused'[d] = refused[d]
              /\ handed'[d] = handed[d] /\ uncounted'[d] = uncounted[d] + 1
              /\ Reserved(d) = 0 /\ Reserved(d)' = 1
          BY <2>1, <3>1, <3>2, <4>3
        <5> QED BY <2>2, <3>3, <4>1, <4>2, <4>3, <5>1
      <4>4. CASE d # key
        <5>1. /\ counter'[d] = counter[d] /\ leaked'[d] = leaked[d] /\ refused'[d] = refused[d]
              /\ handed'[d] = handed[d] /\ uncounted'[d] = uncounted[d]
              /\ Reserved(d) = 0 /\ Reserved(d)' = 0
          BY <2>1, <3>1, <3>2, <4>4
        <5> QED BY <4>1, <4>2, <5>1
      <4> QED BY <4>3, <4>4
    <3>5. BudgetTyped'
      BY <1>0, <2>1, <3>1
    <3> QED BY <2>3, <3>4, <3>5
  <2> QED BY <2>1, <2>4, <2>5
<1>2. CASE q # "forge"
  <2>1. step'["forge"] = step["forge"] /\ uncounted' = uncounted
    BY <1>2, CatchesSteps DEF AddErrs
  <2> QED BY <1>0, <2>1, BudgetStays DEF AddErrs, BudgetInv, BudgetTyped
<1> QED BY <1>1, <1>2

\* DECR, carried out or not, ends the reservation.
LEMMA UndoBudget ==
    ASSUME BudgetInv, JobsInv, Undoes \/ \E b \in BOOLEAN : UndoErrs(b)
    PROVE  BudgetInv'
<1> USE DEF BudgetInv, BudgetTyped
<1>0. /\ step["forge"] = "undo" /\ key \in Day /\ key' = key /\ day' = day
      /\ handed' = handed /\ uncounted' = uncounted /\ refused' = refused
      /\ faults' \in 0..MaxFaults /\ Limit \in Nat /\ refused[key] = 0
  BY PipelineAssumption DEF Undoes, UndoErrs, Faulty, ForgeAtWork, Reserving
<1>1. step'["forge"] = "idle"
  BY Forge DEF JobsInv, JobsTyped, Undoes, UndoErrs, AttemptFails, Leaves
<1>2. \A d \in Day : Reserved(d)' = 0 /\ Reserved(d) = IF d = key THEN 1 ELSE 0
  BY <1>0, <1>1 DEF Reserved, Reserving
<1>3. counter[key] > 0
  BY <1>0, <1>2 DEF Accounts
<1>4. \/ counter' = [counter EXCEPT ![key] = @ - 1] /\ leaked' = leaked
      \/ counter' = counter /\ leaked' = [leaked EXCEPT ![key] = @ + 1]
  <2>1. CASE Undoes
    BY <2>1 DEF Undoes
  <2>2. ASSUME NEW b \in BOOLEAN, UndoErrs(b)
        PROVE  \/ counter' = [counter EXCEPT ![key] = @ - 1] /\ leaked' = leaked
               \/ counter' = counter /\ leaked' = [leaked EXCEPT ![key] = @ + 1]
    <3>1. CASE b
      BY <2>2, <3>1 DEF UndoErrs
    <3>2. CASE ~b
      BY <2>2, <3>2 DEF UndoErrs
    <3> QED BY <3>1, <3>2
  <2> QED BY <2>1, <2>2
<1>5. BudgetTyped'
  BY <1>0, <1>3, <1>4
<1>6. Accounts'
  <2> SUFFICES ASSUME NEW d \in Day
               PROVE  /\ counter'[d] + uncounted'[d] = handed'[d] + leaked'[d] + refused'[d] + Reserved(d)'
                      /\ uncounted'[d] <= handed'[d]
                      /\ handed'[d] + Reserved(d)' <= Limit + uncounted'[d]
                      /\ refused'[d] > 0 => handed'[d] + leaked'[d] >= Limit + uncounted'[d]
    BY DEF Accounts
  <2>1. \/ counter'[d] + Reserved(d) = counter[d] /\ leaked'[d] = leaked[d]
        \/ counter'[d] = counter[d] /\ leaked'[d] = leaked[d] + Reserved(d)
    BY <1>0, <1>2, <1>4
  <2>2. /\ handed'[d] = handed[d] /\ uncounted'[d] = uncounted[d] /\ refused'[d] = refused[d]
        /\ Reserved(d)' = 0 /\ Reserved(d) \in {0, 1} /\ (Reserved(d) = 1 => refused[d] = 0)
    BY <1>0, <1>2
  <2>3. {counter[d], uncounted[d], handed[d], leaked[d], refused[d]} \subseteq Nat /\ counter'[d] \in Nat
    BY <1>0, <1>5
  <2>4. /\ counter[d] + uncounted[d] = handed[d] + leaked[d] + refused[d] + Reserved(d)
        /\ uncounted[d] <= handed[d]
        /\ handed[d] + Reserved(d) <= Limit + uncounted[d]
        /\ refused[d] > 0 => handed[d] + leaked[d] >= Limit + uncounted[d]
    BY DEF Accounts
  <2> QED BY <1>0, <2>1, <2>2, <2>3, <2>4
<1> QED BY <1>1, <1>5, <1>6 DEF ForgeAtWork, Reserving

\* A restart loses the reservation that nothing was handed on for.
LEMMA RestartsBudget == ASSUME BudgetInv, Restarts PROVE BudgetInv'
<1> USE DEF BudgetInv, BudgetTyped
<1>0. /\ key \in Day /\ key' = key /\ day' = day /\ counter' = counter
      /\ handed' = handed /\ uncounted' = uncounted /\ refused' = refused
      /\ faults' \in 0..MaxFaults /\ step'["forge"] = "idle"
  BY Forge, PipelineAssumption DEF Restarts, Faulty
<1>1. \A d \in Day : Reserved(d)' = 0
  BY <1>0 DEF Reserved, Reserving
<1>2. \A d \in Day : leaked'[d] = leaked[d] + Reserved(d)
  BY <1>0 DEF Restarts, Reserved
<1>3. BudgetTyped'
  BY <1>0 DEF Restarts
<1>4. Accounts'
  <2> SUFFICES ASSUME NEW d \in Day
               PROVE  /\ counter'[d] + uncounted'[d] = handed'[d] + leaked'[d] + refused'[d] + Reserved(d)'
                      /\ uncounted'[d] <= handed'[d]
                      /\ handed'[d] + Reserved(d)' <= Limit + uncounted'[d]
                      /\ refused'[d] > 0 => handed'[d] + leaked'[d] >= Limit + uncounted'[d]
    BY DEF Accounts
  <2>1. /\ counter'[d] = counter[d] /\ handed'[d] = handed[d] /\ uncounted'[d] = uncounted[d]
        /\ refused'[d] = refused[d] /\ leaked'[d] = leaked[d] + Reserved(d) /\ Reserved(d)' = 0
    BY <1>0, <1>1, <1>2
  <2>2. {counter[d], uncounted[d], handed[d], leaked[d], refused[d], Reserved(d), Limit} \subseteq Nat
    BY PipelineAssumption DEF Reserved
  <2> QED BY <2>1, <2>2 DEF Accounts
<1> QED BY <1>0, <1>3, <1>4 DEF ForgeAtWork, Reserving

----------------------------------------------------------------------------
(* The invariant. *)

\* At first there is no job, no failure and no budget used.
LEMMA InitHolds == Init => IInv
<1> SUFFICES ASSUME Init PROVE IInv
  OBVIOUS
<1>1. JobsInv
  BY PipelineAssumption DEF Init, JobsInv, JobsTyped, Idle, Handing, Single, Has
<1>2. CircuitInv
  BY Thresholds DEF Init, CircuitInv
<1>3. BudgetTyped
  BY PipelineAssumption DEF Init, BudgetTyped, Day
<1>4. \A d \in Day : Reserved(d) = 0
  BY Forge DEF Init, Reserved, Reserving
<1>5. Accounts /\ ForgeAtWork
  BY <1>4, Forge, PipelineAssumption DEF Init, Accounts, ForgeAtWork, Reserving
<1> QED BY <1>1, <1>2, <1>3, <1>5 DEF IInv, BudgetInv

\* Who is at a step is at a job.
LEMMA AtWork == ASSUME JobsInv, NEW q \in Queue, step[q] # "idle" PROVE ~Idle(q)
BY DEF JobsInv, JobsTyped

\* A recorded failure stays within the threshold.
LEMMA RecordHolds ==
    ASSUME CircuitInv, NEW q \in Queue, RecordFailure(q)
    PROVE  CircuitInv'
<1>1. (IF fails[q] < Threshold THEN fails[q] + 1 ELSE fails[q]) \in 0..Threshold
  BY Thresholds DEF CircuitInv
<1>2. fails' \in [Queue -> 0..Threshold]
  BY <1>1 DEF CircuitInv, RecordFailure
<1>3. open' \in BOOLEAN
  BY Zenon DEF CircuitInv, RecordFailure
<1> QED BY <1>2, <1>3 DEF CircuitInv

\* What the coordinator, the operator, the clock and the process do keeps it.
LEMMA OutsideHolds ==
    ASSUME IInv, (\E p \in Probe : Probes(p)) \/ ResetCircuit \/ DayPasses \/ Restarts
    PROVE  IInv'
<1>0. faults \in Nat /\ faults \in 0..MaxFaults /\ day \in Day /\ key \in Day
  BY PipelineAssumption DEF IInv, BudgetInv, BudgetTyped
<1>1. ASSUME NEW p \in Probe, Probes(p) PROVE IInv'
  <2>1. JobsInv'
    BY <1>1, ProbesJobs DEF IInv
  <2>2. BudgetInv'
    BY <1>0, <1>1, BudgetStays DEF IInv, Probes, budget
  <2> QED BY <1>1, <2>1, <2>2 DEF IInv, CircuitInv, Probes, circuit
<1>2. CASE ResetCircuit
  <2>1. JobsInv'
    BY <1>2 DEF IInv, JobsInv, JobsTyped, Idle, Handing, Single, Has, ResetCircuit, jobs
  <2>2. BudgetInv'
    BY <1>0, <1>2, BudgetStays DEF IInv, ResetCircuit, budget, jobs
  <2>3. CircuitInv'
    BY <1>2, Thresholds DEF ResetCircuit, CircuitInv
  <2> QED BY <2>1, <2>2, <2>3 DEF IInv
<1>3. CASE DayPasses
  <2>1. JobsInv'
    BY <1>3 DEF IInv, JobsInv, JobsTyped, Idle, Handing, Single, Has, DayPasses, jobs
  <2>2. day' \in Day
    BY <1>0, <1>3, PipelineAssumption DEF DayPasses, Day
  <2>3. BudgetInv'
    BY <1>0, <1>3, <2>2, BudgetStays DEF IInv, DayPasses, budget, jobs
  <2> QED BY <1>3, <2>1, <2>3 DEF IInv, CircuitInv, DayPasses, circuit
<1>4. CASE Restarts
  <2>1. CircuitInv'
    BY <1>4, Thresholds DEF Restarts, CircuitInv
  <2> QED BY <1>0, <1>4, <2>1, RestartsJobs, RestartsBudget DEF IInv
<1> QED BY <1>1, <1>2, <1>3, <1>4

\* What the forge does with the budget keeps it.
LEMMA ForgeStepHolds == ASSUME IInv, ForgeStep PROVE IInv'
<1>1. step["forge"] \in {"reserve", "undo"}
  BY DEF ForgeStep, Reserves, Refuses, Undoes, ReserveErrs, UndoErrs
<1>2. ~Idle("forge")
  BY <1>1, AtWork, Forge DEF IInv
<1>3. CASE Reserves
  <2>1. JobsInv'
    BY <1>1, <1>2, <1>3, GoesToHolds, Forge DEF IInv, Reserves
  <2> QED BY <1>3, <2>1, ReserveBudget DEF IInv, CircuitInv, Reserves, circuit
<1>4. CASE Refuses \/ \E b \in BOOLEAN : ReserveErrs(b)
  <2>1. AttemptFails("forge") /\ UNCHANGED circuit /\ (faults' = 0 => faults = 0)
    BY <1>4, PipelineAssumption DEF IInv, BudgetInv, BudgetTyped, Refuses, ReserveErrs, Faulty
  <2>2. step["forge"] # "finish"
    BY <1>1
  <2>3. JobsInv'
    BY <1>2, <2>1, <2>2, AttemptFailsHolds, Forge DEF IInv
  <2> QED BY <1>4, <2>1, <2>3, ReserveBudget DEF IInv, CircuitInv, circuit
<1>5. CASE Undoes \/ \E b \in BOOLEAN : UndoErrs(b)
  <2>1. AttemptFails("forge") /\ (faults' = 0 => faults = 0)
    BY <1>5, PipelineAssumption DEF IInv, BudgetInv, BudgetTyped, Undoes, UndoErrs, Faulty
  <2>2. step["forge"] # "finish"
    BY <1>1
  <2>3. JobsInv'
    BY <1>2, <2>1, <2>2, AttemptFailsHolds, Forge DEF IInv
  <2>4. CircuitInv'
    <3>1. CASE Undoes
      BY <3>1, RecordHolds, Forge DEF IInv, Undoes
    <3>2. CASE \E b \in BOOLEAN : UndoErrs(b)
      BY <3>2 DEF IInv, CircuitInv, UndoErrs, circuit
    <3> QED BY <1>5, <3>1, <3>2
  <2> QED BY <1>5, <2>3, <2>4, UndoBudget DEF IInv
<1> QED BY <1>3, <1>4, <1>5 DEF ForgeStep

\* What a worker does with its job keeps it.
LEMMA WorkerStepHolds == ASSUME IInv, NEW q \in Queue, WorkerStep(q) PROVE IInv'
<1>0. /\ faults \in Nat /\ faults \in 0..MaxFaults /\ day \in Day /\ key \in Day
      /\ JobsInv /\ CircuitInv /\ BudgetInv
  BY PipelineAssumption DEF IInv, BudgetInv, BudgetTyped
<1>1. ASSUME NEW j \in Job, j.queue = q, Takes(j) PROVE IInv'
  <2>1. JobsInv'
    BY <1>0, <1>1, TakesJobs
  <2>2. /\ key' \in Day /\ q \in Queue /\ step[q] = "idle"
        /\ step' = [step EXCEPT ![q] = IF q = "forge" THEN "reserve" ELSE "work"]
    BY <1>0, <1>1 DEF Takes, JobsInv, JobsTyped
  <2>3. IF q = "forge" THEN step["forge"] = "idle" /\ step'["forge"] = "reserve"
                       ELSE step'["forge"] = step["forge"] /\ key' = key
    BY <1>0, <1>1, <2>2, Forge DEF Takes, JobsInv, JobsTyped
  <2>4. BudgetInv'
    BY <1>0, <1>1, <2>2, <2>3, BudgetStays DEF Takes, Reserving
  <2> QED BY <1>0, <1>1, <2>1, <2>4 DEF IInv, CircuitInv, Takes, circuit
<1>2. CASE q = "forge" /\ ForgeStep
  BY <1>2, ForgeStepHolds
<1>3. CASE WorkSucceeds(q)
  <2>1. ~Idle(q)
    BY <1>0, <1>3, AtWork DEF WorkSucceeds
  <2>2. JobsInv'
    BY <1>0, <1>3, <2>1, GoesToHolds DEF WorkSucceeds
  <2>3. CircuitInv'
    BY <1>0, <1>3, PipelineAssumption DEF WorkSucceeds, CircuitInv
  <2>4. step'["forge"] = step["forge"] \/ (step["forge"] = "work" /\ step'["forge"] = "add")
    BY <1>0, <1>3, Forge DEF WorkSucceeds, GoesTo, JobsInv, JobsTyped
  <2>5. BudgetInv'
    BY <1>0, <1>3, <2>4, BudgetStays DEF WorkSucceeds, budget, Reserving
  <2> QED BY <2>2, <2>3, <2>5 DEF IInv
<1>4. CASE WorkFails(q)
  <2>1. ~Idle(q) /\ step[q] = "work" /\ Catches(q) /\ faults' = faults
    BY <1>0, <1>4, AtWork DEF WorkFails
  <2>2. JobsInv' /\ CircuitInv'
    BY <1>0, <2>1, CatchesHolds
  <2>3. (step'["forge"] \in Reserving) = (step["forge"] \in Reserving)
    BY <1>0, <2>1, CatchesSteps DEF Reserving
  <2>4. step'["forge"] = "finish" => step["forge"] = "finish"
    BY <1>0, <2>1, CatchesSteps
  <2>5. BudgetInv'
    BY <1>0, <1>4, <2>3, <2>4, BudgetStays DEF WorkFails, budget
  <2> QED BY <2>2, <2>5 DEF IInv
<1>5. ASSUME NEW n \in 1..MaxCopies, Adds(q, n) PROVE IInv'
  <2>1. JobsInv'
    BY <1>0, <1>5, AddsJobs
  <2>3. BudgetInv'
    BY <1>0, <1>5, AddsBudget
  <2> QED BY <1>0, <1>5, <2>1, <2>3 DEF IInv, CircuitInv, Adds, circuit
<1>6. CASE AddErrs(q)
  <2>1. ~Idle(q) /\ Catches(q) /\ faults' # 0
    BY <1>0, <1>6, AtWork DEF AddErrs, Faulty
  <2>2. JobsInv' /\ CircuitInv'
    BY <1>0, <2>1, CatchesHolds
  <2> QED BY <1>0, <1>6, <2>2, AddErrsBudget DEF IInv
<1>7. CASE Completes(q) \/ (q = Last /\ Harvests)
  <2>1. /\ Leaves(q, "completed", 0) /\ faults' = faults /\ (q = Last \/ step[q] = "finish")
        /\ step[q] # "idle"
    BY <1>7 DEF Completes, Harvests
  <2>2. JobsInv'
    <3>1. 0 \in 0..(Attempts - 1) /\ ~Idle(q)
      BY <1>0, <2>1, AtWork, PipelineAssumption
    <3> QED BY <1>0, <2>1, <3>1, LeavesHolds
  <2>3. CircuitInv'
    BY <1>0, <1>7, PipelineAssumption DEF Completes, Harvests, CircuitInv, circuit
  <2>4. step'["forge"] = step["forge"] \/ (step["forge"] = "finish" /\ step'["forge"] = "idle")
    BY <1>0, <2>1, Forge DEF Leaves, JobsInv, JobsTyped
  <2>5. BudgetInv'
    BY <1>0, <1>7, <2>4, BudgetStays DEF Completes, Harvests, budget, Reserving
  <2> QED BY <2>2, <2>3, <2>5 DEF IInv
<1> QED
  BY <1>1, <1>2, <1>3, <1>4, <1>5, <1>6, <1>7 DEF WorkerStep

\* Every step keeps the invariant.
LEMMA StepHolds == IInv /\ [Step]_vars => IInv'
<1> SUFFICES ASSUME IInv, [Step]_vars PROVE IInv'
  OBVIOUS
<1>1. CASE UNCHANGED vars
  <2>1. JobsInv'
    BY <1>1 DEF vars, IInv, JobsInv, JobsTyped, Idle, Handing, Single, Has
  <2>2. CircuitInv' /\ BudgetInv'
    BY <1>1 DEF vars, IInv, CircuitInv, BudgetInv, BudgetTyped, Accounts, Reserved, ForgeAtWork
  <2> QED BY <2>1, <2>2 DEF IInv
<1> QED BY <1>1, OutsideHolds, WorkerStepHolds DEF Step

\* The invariant always holds.
THEOREM Invariance == Spec => []IInv
BY InitHolds, StepHolds, PTL DEF Spec

----------------------------------------------------------------------------

\* Every variable keeps its type, and workers are at active jobs.
THEOREM PipelineTypes == Spec => []TypeOK
<1>1. IInv => TypeOK
  BY DEF IInv, JobsInv, JobsTyped, CircuitInv, BudgetInv, BudgetTyped, TypeOK
<1> QED BY <1>1, Invariance, PTL

\* The limit of a day is exceeded by no more than the adds that were carried out
\* and failed, and nobody is refused before it is used.
THEOREM BudgetIsHeld == Spec => []BudgetHeld
<1>1. IInv => BudgetHeld
  <2> SUFFICES ASSUME IInv, NEW d \in Day
               PROVE  /\ counter[d] + uncounted[d] = handed[d] + leaked[d] + refused[d] + Reserved(d)
                      /\ handed[d] <= Limit + uncounted[d]
                      /\ refused[d] > 0 => handed[d] + leaked[d] >= Limit + uncounted[d]
    BY DEF BudgetHeld
  <2>1. /\ Reserved(d) \in {0, 1} /\ handed[d] \in Nat /\ uncounted[d] \in Nat /\ Limit \in Nat
    BY PipelineAssumption DEF Reserved, IInv, BudgetInv, BudgetTyped
  <2> QED BY <2>1 DEF IInv, BudgetInv, Accounts
<1> QED BY <1>1, Invariance, PTL

\* No probe is lost between two queues, and without a fault none is doubled.
THEOREM ProbesAreHandedOn == Spec => []HandedOn
<1>1. IInv => HandedOn
  BY DEF IInv, JobsInv, Handing, Single, Has, HandedOn, Heirs
<1> QED BY <1>1, Invariance, PTL

=============================================================================
