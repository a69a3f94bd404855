------------------------ MODULE CronSchedulerProofs ------------------------
(* Invariants of CronScheduler, for all tasks, schedules, retries and bounds. *)
EXTENDS CronScheduler, TLAPS

(***************************************************************************)
(* The inductive invariant.                                                 *)
(***************************************************************************)

\* The task at hand was due, is not in the list any more, and has its attempts.
AtHand ==
    /\ cur \notin todo
    /\ cur # NoTask => copy[cur].next # Never
    /\ pc = "backoff" => try <= MaxRetries
    /\ cur = NoTask => try = 0

\* Runs that a once task can be credited with: none before it is recorded as
\* run, one as long as the stale copy has it scheduled once more, then two.
Credit(r) == IF ~r.ran THEN 0 ELSE IF r.next # Never THEN 1 ELSE 2

\* The run that has succeeded and is not recorded yet.
Unrecorded(t) == IF cur = t /\ pc = "record" THEN 1 ELSE 0

OnceCredited ==
    \A t \in Task \ raced : row[t].sched.kind = "once" =>
        wins[t] <= restarts + Credit(row[t]) + Unrecorded(t)

IInv == TypeOK /\ AtHand /\ CopyIsCurrent /\ OnceCredited

----------------------------------------------------------------------------
(* What the steps do to rows. *)

\* The next instant of a cron expression is a later one.
LEMMA NextFiringType == \A w \in Nat \ {0}, n \in Nat : NextFiring(w, n) \in Nat
<1> SUFFICES ASSUME NEW w \in Nat \ {0}, NEW n \in Nat PROVE NextFiring(w, n) \in Nat
  OBVIOUS
<1>1. n % w \in 0..(w - 1)
  OBVIOUS
<1> QED BY <1>1 DEF NextFiring

\* A next run is an instant or never.
LEMMA NextRunType == \A r \in Row, n \in Nat : NextRun(r, n) \in Nat \cup {Never}
<1> SUFFICES ASSUME NEW r \in Row, NEW n \in Nat PROVE NextRun(r, n) \in Nat \cup {Never}
  OBVIOUS
<1>1. r.sched \in Schedule
  BY DEF Row
<1>2. r.sched.when \in Nat /\ (r.sched.kind = "cron" => r.sched.when \in Nat \ {0})
  BY <1>1 DEF Schedule
<1> QED BY <1>2, NextFiringType DEF NextRun

\* The row of no task, and that of a new one, are rows.
LEMMA NewRows ==
    /\ Absent \in Row
    /\ \A s \in Schedule, e \in BOOLEAN, n \in Nat \cup {Never} :
          [sched |-> s, enabled |-> e, next |-> n, ran |-> FALSE] \in Row
BY DEF Absent, Row, Schedule, Never

\* update_run_status sets the columns next_run_at and last_run_at of its task.
LEMMA StatusColumns ==
    ASSUME TypeOK, cur \in Task, StatusUpdated
    PROVE  /\ row' \in [Task -> Row]
           /\ row'[cur].next = NextRun(copy[cur], tick + 1) /\ row'[cur].ran
           /\ row'[cur].sched = row[cur].sched /\ row'[cur].enabled = row[cur].enabled
           /\ \A t \in Task \ {cur} : row'[t] = row[t]
<1> DEFINE n == NextRun(copy[cur], tick + 1)
<1>1. tick + 1 \in Nat /\ copy[cur] \in Row /\ row[cur] \in Row
  BY DEF TypeOK
<1>2. n \in Nat \cup {Never}
  BY <1>1, NextRunType
<1>3. row' = [row EXCEPT ![cur] = [row[cur] EXCEPT !.next = n, !.ran = TRUE]]
  BY DEF StatusUpdated
<1> HIDE DEF n
<1>4. [row[cur] EXCEPT !.next = n, !.ran = TRUE] \in Row
  BY <1>1, <1>2 DEF Row
<1>5. row'[cur] = [row[cur] EXCEPT !.next = n, !.ran = TRUE] /\ row' \in [Task -> Row]
  BY <1>3, <1>4 DEF TypeOK
<1>6. row'[cur].next = n /\ row'[cur].ran
      /\ row'[cur].sched = row[cur].sched /\ row'[cur].enabled = row[cur].enabled
  BY <1>1, <1>5 DEF Row
<1>7. \A t \in Task \ {cur} : row'[t] = row[t]
  BY <1>3 DEF TypeOK
<1> QED BY <1>5, <1>6, <1>7 DEF n

\* Going over a task writes the listed row back, with a next run if it had none.
LEMMA PassedRow ==
    ASSUME TypeOK, NEW t \in Task, PassesOver(t)
    PROVE  /\ row' \in [Task -> Row]
           /\ \A u \in Task \ {t} : row'[u] = row[u]
           /\ \/ row'[t] = row[t]
              \/ /\ copy[t].next = Never
                 /\ row'[t] = [copy[t] EXCEPT !.next = NextRun(copy[t], tick)]
<1> DEFINE n == NextRun(copy[t], tick)
<1>1. tick \in Nat /\ copy[t] \in Row
  BY DEF TypeOK
<1>2. n \in Nat \cup {Never}
  BY <1>1, NextRunType
<1>3. row' = IF copy[t].next = Never THEN [row EXCEPT ![t] = [copy[t] EXCEPT !.next = n]] ELSE row
  BY DEF PassesOver
<1> HIDE DEF n
<1>4. [copy[t] EXCEPT !.next = n] \in Row
  BY <1>1, <1>2 DEF Row
<1>5. QED BY <1>3, <1>4 DEF TypeOK, n

----------------------------------------------------------------------------
(* The invariant, step by step. *)

\* Nothing is scheduled at first.
LEMMA InitHolds == Init => IInv
<1> SUFFICES ASSUME Init PROVE IInv
  OBVIOUS
<1>1. TypeOK
  BY NewRows, CronAssumption DEF Init, TypeOK, Enough
<1>2. AtHand /\ CopyIsCurrent
  BY CronAssumption DEF Init, AtHand, CopyIsCurrent, Held
<1>3. OnceCredited
  BY DEF Init, OnceCredited, Credit, Unrecorded, Absent, Never
<1> QED BY <1>1, <1>2, <1>3 DEF IInv

\* A new schedule keeps the invariant: a task the loop has is raced.
LEMMA AddTaskHolds ==
    ASSUME IInv, NEW t \in Task, NEW s \in Schedules, NEW e \in BOOLEAN, AddTask(t, s, e)
    PROVE  IInv'
<1> DEFINE r == [sched |-> s, enabled |-> e, next |-> Never, ran |-> FALSE]
           q == [r EXCEPT !.next = NextRun(r, now)]
<1>1. s \in Schedule /\ now \in Nat
  BY CronAssumption DEF IInv, TypeOK
<1>2. r \in Row
  BY <1>1, NewRows
<1>3. NextRun(r, now) \in Nat \cup {Never}
  BY <1>1, <1>2, NextRunType
<1>4. q \in Row /\ q.ran = FALSE
  BY <1>2, <1>3 DEF Row
<1>5. row' = [row EXCEPT ![t] = q]
  BY DEF AddTask
<1> HIDE DEF q, r
<1>6. TypeOK'
  <2>1. row' \in [Task -> Row]
    BY <1>4, <1>5 DEF IInv, TypeOK
  <2>2. wins' \in [Task -> 0..Enough] /\ raced' \subseteq Task /\ creates' \in Nat
    BY CronAssumption DEF IInv, TypeOK, AddTask, Enough
  <2> QED BY <2>1, <2>2 DEF IInv, TypeOK, AddTask, loop
<1>7. AtHand'
  BY DEF IInv, AtHand, AddTask, loop
<1>8. CopyIsCurrent'
  BY <1>5 DEF IInv, TypeOK, CopyIsCurrent, Held, AddTask, loop
<1>9. OnceCredited'
  <2> SUFFICES ASSUME NEW u \in Task \ raced', row'[u].sched.kind = "once"
               PROVE  wins'[u] <= restarts' + Credit(row'[u]) + Unrecorded(u)'
    BY DEF OnceCredited
  <2>1. CASE u = t
    <3>1. wins'[u] = 0 /\ restarts' = restarts /\ Credit(row'[u]) = 0
      BY <1>4, <1>5, <2>1 DEF IInv, TypeOK, AddTask, Credit
    <3> QED BY <3>1 DEF IInv, TypeOK, Unrecorded
  <2>2. CASE u # t
    <3>1. row'[u] = row[u] /\ wins'[u] = wins[u] /\ u \notin raced
      BY <1>5, <2>2 DEF IInv, TypeOK, AddTask
    <3>2. restarts' = restarts /\ Unrecorded(u)' = Unrecorded(u)
      BY DEF AddTask, loop, Unrecorded
    <3> QED BY <3>1, <3>2 DEF IInv, OnceCredited
  <2> QED BY <2>1, <2>2
<1> QED BY <1>6, <1>7, <1>8, <1>9 DEF IInv

\* Removing a task keeps it.
LEMMA RemoveTaskHolds == ASSUME IInv, NEW t \in Task, RemoveTask(t) PROVE IInv'
<1>1. /\ row' \in [Task -> Row]
      /\ \A u \in Task \ {t} : row'[u] = row[u]
      /\ row'[t].sched = row[t].sched /\ row'[t].next = row[t].next /\ row'[t].ran = row[t].ran
  BY DEF IInv, TypeOK, RemoveTask, Row
<1>2. TypeOK'
  BY <1>1 DEF IInv, TypeOK, RemoveTask, loop, bounds, Enough
<1>3. AtHand'
  BY DEF IInv, AtHand, RemoveTask, loop
<1>4. CopyIsCurrent'
  BY <1>1 DEF IInv, CopyIsCurrent, Held, RemoveTask, loop
<1>5. OnceCredited'
  BY <1>1 DEF IInv, OnceCredited, Credit, Unrecorded, RemoveTask, loop, bounds
<1> QED BY <1>2, <1>3, <1>4, <1>5 DEF IInv

\* A new list keeps it: its copies are the rows.
LEMMA TickStartsHolds == ASSUME IInv, TickStarts PROVE IInv'
<1>1. TypeOK'
  BY NewRows DEF IInv, TypeOK, TickStarts, bounds, Enough
<1>2. cur = NoTask
  BY DEF IInv, TypeOK, TickStarts
<1>3. AtHand'
  BY <1>2, CronAssumption DEF IInv, AtHand, TickStarts
<1>4. CopyIsCurrent'
  BY <1>2, CronAssumption DEF IInv, CopyIsCurrent, Held, TickStarts
<1>5. OnceCredited'
  BY <1>2 DEF IInv, OnceCredited, Unrecorded, TickStarts, bounds
<1> QED BY <1>1, <1>3, <1>4, <1>5 DEF IInv

\* Going over a task keeps it: what is written back is what the row says.
LEMMA PassesOverHolds == ASSUME IInv, NEW t \in Task, PassesOver(t) PROVE IInv'
<1>1. cur = NoTask /\ t \in todo
  BY DEF IInv, TypeOK, PassesOver
<1>2. TypeOK'
  BY PassedRow, NewRows DEF IInv, TypeOK, PassesOver, bounds, Enough
<1>3. AtHand'
  BY <1>1, CronAssumption DEF IInv, AtHand, PassesOver
<1>4. CopyIsCurrent'
  <2> SUFFICES ASSUME NEW u \in Task \ raced', Held(u)' PROVE copy'[u] = row'[u]
    BY DEF CopyIsCurrent
  <2>1. u \in todo /\ u # t /\ u \notin raced
    BY <1>1, CronAssumption DEF Held, PassesOver
  <2>2. row'[u] = row[u]
    BY <2>1, PassedRow DEF IInv
  <2> QED BY <2>1, <2>2 DEF IInv, TypeOK, CopyIsCurrent, Held, PassesOver
<1>5. ASSUME NEW u \in Task \ raced, row'[u].sched.kind = "once"
      PROVE  row[u].sched.kind = "once" /\ Credit(row'[u]) = Credit(row[u])
  <2>1. CASE row'[u] = row[u]
    BY <1>5, <2>1
  <2>2. CASE row'[u] # row[u]
    <3>1. u = t /\ copy[t].next = Never /\ row'[t] = [copy[t] EXCEPT !.next = NextRun(copy[t], tick)]
      BY <2>2, PassedRow DEF IInv
    <3>2. copy[t] = row[t] /\ row[t] \in Row
      BY <1>1, <3>1 DEF IInv, TypeOK, CopyIsCurrent, Held
    <3>3. row[t].sched.kind = "once"
      BY <1>5, <3>1, <3>2 DEF Row
    <3>4. CASE row[t].ran
      <4>1. NextRun(row[t], tick) = Never
        BY <3>3, <3>4 DEF NextRun
      <4> QED BY <3>1, <3>2, <3>3, <4>1 DEF Credit, Row
    <3>5. CASE ~row[t].ran
      BY <3>1, <3>2, <3>3, <3>5 DEF Credit, Row
    <3> QED BY <3>4, <3>5
  <2> QED BY <2>1, <2>2
<1>6. OnceCredited'
  BY <1>1, <1>5 DEF IInv, OnceCredited, Unrecorded, PassesOver, bounds
<1> QED BY <1>2, <1>3, <1>4, <1>6 DEF IInv

\* Beginning with a task that is due keeps it.
LEMMA ExecutesHolds == ASSUME IInv, NEW t \in Task, Executes(t) PROVE IInv'
<1>1. cur = NoTask /\ t # NoTask
  BY CronAssumption DEF IInv, TypeOK, Executes
<1>2. TypeOK'
  BY <1>1, CronAssumption DEF IInv, TypeOK, Executes, bounds, Enough
<1>3. AtHand'
  BY <1>1 DEF IInv, AtHand, Executes, Never
<1>4. CopyIsCurrent'
  BY <1>1 DEF IInv, CopyIsCurrent, Held, Executes
<1>5. OnceCredited'
  BY <1>1 DEF IInv, OnceCredited, Unrecorded, Executes, bounds
<1> QED BY <1>2, <1>3, <1>4, <1>5 DEF IInv

\* A success keeps it: it is credited when it is recorded.
LEMMA CallSucceedsHolds == ASSUME IInv, CallSucceeds PROVE IInv'
<1>1. cur \in Task
  BY DEF IInv, TypeOK, CallSucceeds
<1>2. TypeOK'
  <2>1. wins' \in [Task -> 0..Enough]
    BY <1>1, CronAssumption DEF IInv, TypeOK, CallSucceeds, Enough
  <2>2. pc = "call" /\ pc' = "record" /\ cur' = cur /\ cur # NoTask
    BY DEF IInv, TypeOK, CallSucceeds
  <2>3. /\ now' = now /\ row' = row /\ copy' = copy /\ tick' = tick /\ todo' = todo
        /\ try' = try /\ creates' = creates /\ restarts' = restarts /\ raced' = raced
    BY DEF CallSucceeds, bounds
  <2> QED BY <2>1, <2>2, <2>3 DEF IInv, TypeOK
<1>3. AtHand'
  BY DEF IInv, AtHand, CallSucceeds
<1>4. CopyIsCurrent'
  BY DEF IInv, CopyIsCurrent, Held, CallSucceeds
<1>5. OnceCredited'
  <2> SUFFICES ASSUME NEW t \in Task \ raced', row'[t].sched.kind = "once"
               PROVE  wins'[t] <= restarts' + Credit(row'[t]) + Unrecorded(t)'
    BY DEF OnceCredited
  <2>1. row' = row /\ raced' = raced /\ restarts' = restarts /\ cur' = cur /\ pc = "call" /\ pc' = "record"
    BY DEF CallSucceeds, bounds
  <2>2. wins[t] <= restarts + Credit(row[t]) /\ Credit(row[t]) \in Nat /\ restarts \in Nat
    BY <2>1 DEF IInv, TypeOK, OnceCredited, Unrecorded, Credit
  <2>3. wins[t] \in Nat /\ wins'[t] <= wins[t] + (IF t = cur THEN 1 ELSE 0)
    BY <1>1 DEF IInv, TypeOK, CallSucceeds, Enough
  <2>4. wins'[t] \in Nat
    BY <1>2 DEF TypeOK
  <2> QED BY <2>1, <2>2, <2>3, <2>4 DEF Unrecorded
<1> QED BY <1>2, <1>3, <1>4, <1>5 DEF IInv

\* Recording a run keeps it, whether it has succeeded or was given up.
LEMMA StatusUpdatedHolds ==
    ASSUME IInv, cur \in Task, StatusUpdated
    PROVE  IInv'
<1>1. TypeOK'
  <2>1. row' \in [Task -> Row]
    BY StatusColumns DEF IInv
  <2> QED BY <2>1, NewRows, CronAssumption DEF IInv, TypeOK, StatusUpdated, bounds, Enough
<1>2. cur' = NoTask /\ todo' = todo /\ cur \notin todo
  BY DEF IInv, AtHand, StatusUpdated
<1>3. AtHand'
  BY <1>2, CronAssumption DEF IInv, TypeOK, AtHand, StatusUpdated
<1>4. CopyIsCurrent'
  <2> SUFFICES ASSUME NEW t \in Task \ raced', Held(t)' PROVE copy'[t] = row'[t]
    BY DEF CopyIsCurrent
  <2>1. t \in todo /\ t # cur /\ t \notin raced
    BY <1>2, CronAssumption DEF Held, StatusUpdated
  <2> QED BY <2>1, StatusColumns DEF IInv, TypeOK, CopyIsCurrent, Held, StatusUpdated
<1>5. OnceCredited'
  <2> SUFFICES ASSUME NEW t \in Task \ raced', row'[t].sched.kind = "once"
               PROVE  wins'[t] <= restarts' + Credit(row'[t]) + Unrecorded(t)'
    BY DEF OnceCredited
  <2>1. wins' = wins /\ restarts' = restarts /\ raced' = raced /\ Unrecorded(t)' = 0
    BY <1>2, CronAssumption DEF StatusUpdated, bounds, Unrecorded
  <2>2. row[t].sched.kind = "once"
    BY StatusColumns DEF IInv
  <2>3. wins[t] <= restarts + Credit(row[t]) + Unrecorded(t) /\ wins[t] \in Nat /\ restarts \in Nat
    BY <2>1, <2>2 DEF IInv, OnceCredited, TypeOK, Enough
  <2>4. CASE t # cur
    <3>1. row'[t] = row[t] /\ Unrecorded(t) = 0
      BY <2>4, StatusColumns DEF IInv, Unrecorded
    <3> QED BY <2>1, <2>3, <3>1
  <2>5. CASE t = cur
    <3>1. copy[t] = row[t] /\ row[t].next # Never /\ row[t] \in Row
      BY <2>1, <2>5, CronAssumption DEF IInv, TypeOK, CopyIsCurrent, Held, AtHand
    <3>2. row'[t].next = NextRun(row[t], tick + 1) /\ row'[t].ran
      BY <2>5, <3>1, StatusColumns DEF IInv
    <3>3. row[t].sched.when # Never
      BY <3>1 DEF Row, Schedule, Never
    <3>4. Credit(row'[t]) = Credit(row[t]) + 1
      BY <2>2, <3>1, <3>2, <3>3 DEF Credit, NextRun, Row
    <3>5. Credit(row[t]) \in Nat /\ Unrecorded(t) \in {0, 1}
      BY DEF Credit, Unrecorded
    <3> QED BY <2>1, <2>3, <3>4, <3>5
  <2> QED BY <2>4, <2>5
<1> QED BY <1>1, <1>3, <1>4, <1>5 DEF IInv

\* So do the steps that only move the loop on.
LEMMA LoopMovesHolds == ASSUME IInv, Fails \/ BackoffEnds \/ TickEnds \/ Starts PROVE IInv'
<1>1. TypeOK'
  BY CronAssumption DEF IInv, TypeOK, AtHand, Fails, BackoffEnds, TickEnds, Starts, bounds, Enough
<1>2. AtHand'
  BY DEF IInv, TypeOK, AtHand, Fails, BackoffEnds, TickEnds, Starts
<1>3. CopyIsCurrent'
  BY DEF IInv, CopyIsCurrent, Held, Fails, BackoffEnds, TickEnds, Starts
<1>4. OnceCredited'
  BY DEF IInv, OnceCredited, Unrecorded, Fails, BackoffEnds, TickEnds, Starts, bounds
<1> QED BY <1>1, <1>2, <1>3, <1>4 DEF IInv

\* A death keeps it: the run that was not recorded is one restart more.
LEMMA DiesHolds == ASSUME IInv, Dies PROVE IInv'
<1>1. TypeOK'
  BY NewRows, CronAssumption DEF IInv, TypeOK, Dies, Enough
<1>2. AtHand'
  BY CronAssumption DEF IInv, AtHand, Dies
<1>3. CopyIsCurrent'
  BY CronAssumption DEF CopyIsCurrent, Held, Dies
<1>4. OnceCredited'
  <2> SUFFICES ASSUME NEW t \in Task \ raced', row'[t].sched.kind = "once"
               PROVE  wins'[t] <= restarts' + Credit(row'[t]) + Unrecorded(t)'
    BY DEF OnceCredited
  <2>1. /\ wins' = wins /\ row' = row /\ raced' = raced
        /\ restarts' = restarts + 1 /\ Unrecorded(t)' = 0
    BY DEF Dies, Unrecorded
  <2>2. wins[t] <= restarts + Credit(row[t]) + Unrecorded(t) /\ wins[t] \in Nat /\ restarts \in Nat
    BY <2>1 DEF IInv, OnceCredited, TypeOK, Enough
  <2>3. Credit(row[t]) \in Nat /\ Unrecorded(t) \in {0, 1}
    BY DEF Credit, Unrecorded
  <2> QED BY <2>1, <2>2, <2>3
<1> QED BY <1>1, <1>2, <1>3, <1>4 DEF IInv

\* The clock keeps it.
LEMMA TimePassesHolds == ASSUME IInv, TimePasses PROVE IInv'
<1>1. TypeOK'
  BY DEF IInv, TypeOK, TimePasses, loop, bounds, Enough
<1>2. AtHand' /\ CopyIsCurrent' /\ OnceCredited'
  BY DEF IInv, AtHand, CopyIsCurrent, Held, OnceCredited, Unrecorded, TimePasses, loop, bounds
<1> QED BY <1>1, <1>2 DEF IInv

\* The loop records a run only for the task it is at.
LEMMA AtTask == IInv /\ pc \in {"call", "record"} => cur \in Task
BY DEF IInv, TypeOK

\* Every step keeps the invariant.
LEMMA StepHolds == IInv /\ [Next]_vars => IInv'
<1> SUFFICES ASSUME IInv, [Next]_vars PROVE IInv'
  OBVIOUS
<1>1. CASE UNCHANGED vars
  <2>1. TypeOK'
    BY <1>1 DEF vars, loop, bounds, IInv, TypeOK, Enough
  <2>2. AtHand' /\ CopyIsCurrent' /\ OnceCredited'
    BY <1>1 DEF vars, loop, bounds, IInv, AtHand, CopyIsCurrent, Held, OnceCredited, Unrecorded
  <2> QED BY <2>1, <2>2 DEF IInv
<1>2. CASE \E t \in Task, s \in Schedules, e \in BOOLEAN : AddTask(t, s, e)
  BY <1>2, AddTaskHolds
<1>3. CASE \E t \in Task : RemoveTask(t)
  BY <1>3, RemoveTaskHolds
<1>4. CASE LoopStep
  <2>1. CASE RecordsSuccess \/ GivesUp
    BY <2>1, AtTask, StatusUpdatedHolds DEF RecordsSuccess, GivesUp
  <2>2. CASE \E t \in Task : PassesOver(t) \/ Executes(t)
    BY <2>2, PassesOverHolds, ExecutesHolds
  <2> QED
    BY <1>4, <2>1, <2>2, TickStartsHolds, CallSucceedsHolds, LoopMovesHolds DEF LoopStep
<1> QED
  BY <1>1, <1>2, <1>3, <1>4, DiesHolds, TimePassesHolds DEF Next

\* The invariant always holds.
THEOREM Invariance == Spec => []IInv
BY InitHolds, StepHolds, PTL DEF Spec

----------------------------------------------------------------------------

\* Every variable keeps its type, and the loop's state fits together.
THEOREM CronTypes == Spec => []TypeOK
BY Invariance, PTL DEF IInv

\* The loop never goes by a stale copy of a task no request has changed.
THEOREM CopiesAreCurrent == Spec => []CopyIsCurrent
BY Invariance, PTL DEF IInv

\* How far OnceOnly is missed: the first run of a once task that no request changes
\* under the loop schedules a second, whose end does not schedule a third, and a
\* death between the executor's answer and update_run_status has it run again.
OnceBounded ==
    \A t \in Task \ raced :
        row[t].sched.kind = "once" => wins[t] <= 2 + restarts

\* A once task succeeds twice at most, and once more for each death of the process.
THEOREM OnceIsBounded == Spec => []OnceBounded
<1>1. IInv => OnceBounded
  <2> SUFFICES ASSUME IInv, NEW t \in Task \ raced, row[t].sched.kind = "once"
               PROVE  wins[t] <= 2 + restarts
    BY DEF OnceBounded
  <2>1. wins[t] <= restarts + Credit(row[t]) + Unrecorded(t) /\ wins[t] \in Nat /\ restarts \in Nat
    BY DEF IInv, OnceCredited, TypeOK, Enough
  <2>2. CASE cur = t
    <3>1. row[t].next # Never
      BY <2>2, CronAssumption DEF IInv, CopyIsCurrent, Held, AtHand
    <3> QED BY <2>1, <3>1 DEF Credit, Unrecorded
  <2>3. CASE cur # t
    BY <2>1, <2>3 DEF Credit, Unrecorded
  <2> QED BY <2>2, <2>3
<1> QED BY <1>1, Invariance, PTL

\* What a step of the loop does to the schedules.
LEMMA LoopStepSchedules ==
    ASSUME IInv, LoopStep, NEW t \in Task
    PROVE  \/ row'[t].sched = row[t].sched /\ row'[t].enabled = row[t].enabled
           \/ t \in raced /\ copy[t].next = Never
<1>1. CASE RecordsSuccess \/ GivesUp
  <2>1. cur \in Task /\ StatusUpdated /\ TypeOK
    BY <1>1, AtTask DEF RecordsSuccess, GivesUp, IInv
  <2> QED BY <2>1, StatusColumns
<1>2. ASSUME NEW u \in Task, PassesOver(u) PROVE
           \/ row'[t].sched = row[t].sched /\ row'[t].enabled = row[t].enabled
           \/ t \in raced /\ copy[t].next = Never
  <2>1. CASE row'[t] = row[t]
    BY <2>1
  <2>2. CASE row'[t] # row[t]
    <3>1. t = u /\ copy[t].next = Never /\ row'[t] = [copy[t] EXCEPT !.next = NextRun(copy[t], tick)]
      BY <1>2, <2>2, PassedRow DEF IInv
    <3>2. t \in raced \/ (copy[t] = row[t] /\ row[t] \in Row)
      BY <1>2, <3>1 DEF IInv, TypeOK, CopyIsCurrent, Held, PassesOver
    <3> QED BY <3>1, <3>2 DEF Row
  <2> QED BY <2>1, <2>2
<1>3. CASE \/ TickStarts \/ TickEnds \/ CallSucceeds \/ Fails \/ BackoffEnds \/ Starts
           \/ \E u \in Task : Executes(u)
  BY <1>3 DEF TickStarts, TickEnds, CallSucceeds, Fails, BackoffEnds, Starts, Executes
<1> QED
  BY <1>1, <1>2, <1>3 DEF LoopStep

\* The loop never undoes what a request has set, but for the upsert of line 392.
THEOREM SchedulesAreLeftAlone == Spec => SchedulesStay
<1>1. IInv /\ [Next]_vars =>
          [LoopStep => \A t \in Task :
              \/ row'[t].sched = row[t].sched /\ row'[t].enabled = row[t].enabled
              \/ t \in raced /\ copy[t].next = Never]_vars
  BY LoopStepSchedules
<1> QED BY <1>1, Invariance, PTL DEF Spec, SchedulesStay

=============================================================================
