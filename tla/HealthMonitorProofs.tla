------------------------ MODULE HealthMonitorProofs ------------------------
(***************************************************************************)
(* The timing argument of HealthMonitor for any number of nodes: when a    *)
(* pass fits in the interval no two overlap; when an interval and a pass   *)
(* fit in the threshold as well, every verdict is in time, and the rule of *)
(* silence judges nothing but the monitor's own absence.                   *)
(***************************************************************************)
EXTENDS HealthMonitor, FiniteSetTheorems, TLAPS

N == Cardinality(Node)

\* A pass of N probes ends before the next one starts.
Fits == N < Interval

\* And a node is checked again before its heartbeat looks old.
Timely == Fits /\ Interval + N <= Threshold

\* What is left of the pass: checks to start and the probe under way.
Ahead == Cardinality(left) + (IF probe # None /\ ~waited THEN 1 ELSE 0)

\* The pass is never behind: timer units have gone, Ahead may still go.
OnSchedule ==
    /\ PassRuns => timer + Ahead <= N
    /\ waited => timer > 0

SInv == TypeOK /\ OnSchedule

\* The latest that something noticed about n in this pass or the last can date from.
Age(n) == IF Pending(n) THEN timer + Interval ELSE timer

\* A heartbeat is that old at most, unless n waits for the first check after a start.
BeatFresh ==
    \A n \in known : (armed \/ Pending(n)) /\ beat[n] # None =>
        \/ beat[n] <= Age(n)
        \/ Pending(n) /\ FirstPass

\* A verdict contradicts the node's condition only as long, and only as long before
\* the eyes of the monitor.
VerdictFresh ==
    armed => \A n \in known :
        (Failing(n) <=> health[n] # "unhealthy") => since[n] <= Age(n) \/ up <= Age(n)

Fresh == BeatFresh /\ VerdictFresh

\* Constants and sets of nodes: finite, and no larger than Node.
LEMMA NodeSets ==
    /\ N \in Nat
    /\ \A S \in SUBSET Node : IsFiniteSet(S) /\ Cardinality(S) \in Nat /\ Cardinality(S) <= N
    /\ \A S \in SUBSET Node : Cardinality(S) = 0 <=> S = {}
    /\ \A S \in SUBSET Node : \A x \in S : Cardinality(S \ {x}) = Cardinality(S) - 1
  <1>1. IsFiniteSet(Node)
    BY TimingAssumption
  <1>2. \A S \in SUBSET Node : IsFiniteSet(S) /\ Cardinality(S) <= N
    BY <1>1, FS_Subset DEF N
  <1>3. N \in Nat /\ \A S \in SUBSET Node : Cardinality(S) \in Nat
    BY <1>1, <1>2, FS_CardinalityType DEF N
  <1>4. \A S \in SUBSET Node : Cardinality(S) = 0 <=> S = {}
    BY <1>2, FS_EmptySet
  <1>5. \A S \in SUBSET Node : \A x \in S : Cardinality(S \ {x}) = Cardinality(S) - 1
    BY <1>2, FS_RemoveElement
  <1>6. QED
    BY <1>2, <1>3, <1>4, <1>5

\* Time passes by at most one unit, up to the cap.
LEMMA LaterStep ==
    ASSUME NEW x \in Capped
    PROVE  Later(x) \in Capped /\ Later(x) <= x + 1 /\ Later(x) >= x
  BY TimingAssumption DEF Capped, Later

\* The numbers that the proofs compute with.
LEMMA Numbers ==
    ASSUME TypeOK
    PROVE  /\ N \in Nat /\ Interval \in Nat /\ Threshold \in Nat
           /\ timer \in Nat /\ timer <= Interval /\ up \in Nat
           /\ Cardinality(left) \in Nat /\ Ahead \in Nat
           /\ since \in [Node -> Nat]
           /\ \A n \in Node : beat[n] # None => beat[n] \in Nat
  <1>1. N \in Nat /\ Cardinality(left) \in Nat /\ Interval \in Nat /\ Threshold \in Nat
    BY NodeSets, TimingAssumption DEF TypeOK
  <1>2. /\ timer \in Nat /\ timer <= Interval /\ up \in Nat /\ since \in [Node -> Nat]
        /\ \A n \in Node : beat[n] # None => beat[n] \in Nat
    BY <1>1 DEF TypeOK, Capped
  <1>3. QED
    BY <1>1, <1>2 DEF Ahead

----------------------------------------------------------------------------
(* Types need no timing. *)

\* The process starts with nothing running and nothing known.
LEMMA InitTypes == Init => TypeOK
  <1>1. 0 \in Capped /\ 0 \in 0..Interval
    BY TimingAssumption DEF Capped
  <1>2. QED
    BY <1>1 DEF Init, TypeOK, PassRuns, Health, Playwright

\* A verdict reached on a node keeps the record typed.
LEMMA ApplyTyped ==
    ASSUME TypeOK, NEW n \in Node, NEW v \in Health, NEW p \in Playwright, NEW age \in {0, 1},
           Apply(n, v, p, age)
    PROVE  /\ health' \in [Node -> Health]
           /\ playwright' \in [Node -> Playwright]
           /\ beat' \in [Node -> Capped \cup {None}]
           /\ health'[n] = v /\ beat'[n] = age
           /\ \A m \in Node : m # n => health'[m] = health[m] /\ beat'[m] = beat[m]
  <1>1. 0 \in Capped /\ 1 \in Capped
    BY TimingAssumption DEF Capped
  <1>2. QED
    BY <1>1 DEF TypeOK, Apply

\* Whatever Interval and Threshold are, a step keeps the types.
LEMMA TypesKept == TypeOK /\ [Next]_vars => TypeOK'
  <1> SUFFICES ASSUME TypeOK, [Next]_vars PROVE TypeOK'
    OBVIOUS
  <1>0. 0 \in Capped /\ 1 \in Capped /\ 0 \in 0..Interval
    BY TimingAssumption DEF Capped
  <1>1. CASE UNCHANGED vars
    BY <1>1 DEF vars, TypeOK, PassRuns
  <1>2. ASSUME NEW n \in Node, GiveUp(n) PROVE TypeOK'
    <2>1. left' \subseteq known' /\ n \in left /\ on /\ probe' = None
      BY <1>2 DEF GiveUp, TypeOK, PassRuns
    <2>2. /\ health' \in [Node -> Health] /\ playwright' \in [Node -> Playwright]
          /\ beat' \in [Node -> Capped \cup {None}]
      BY <1>2, ApplyTyped DEF GiveUp, Health, Playwright
    <2>3. QED
      BY <1>2, <2>1, <2>2 DEF GiveUp, TypeOK, PassRuns, process, world
  <1>3. ASSUME NEW n \in Node, ProbeStarts(n) PROVE TypeOK'
    BY <1>3 DEF ProbeStarts, TypeOK, PassRuns, record, process, world
  <1>4. ASSUME NEW n \in Node, Register(n) PROVE TypeOK'
    BY <1>0, <1>4 DEF Register, TypeOK, PassRuns, Health, Playwright, process
  <1>5. ASSUME NEW n \in Node, Change(n) PROVE TypeOK'
    BY <1>0, <1>5 DEF Change, TypeOK, PassRuns, record, process
  <1>6. CASE ProbeEnds
    <2> DEFINE c == cond[probe]
               p == Connection(c, playwright[probe])
               v == Verdict(c, p)
               age == IF waited THEN 1 ELSE 0
    <2>1. /\ probe \in Node /\ v \in Health /\ p \in Playwright /\ age \in {0, 1}
          /\ Apply(probe, v, p, age)
      BY <1>6 DEF ProbeEnds, TypeOK, Verdict, Connection, Health, Playwright
    <2> HIDE DEF v, p, age
    <2>2. /\ health' \in [Node -> Health] /\ playwright' \in [Node -> Playwright]
          /\ beat' \in [Node -> Capped \cup {None}]
      BY <2>1, ApplyTyped
    <2>3. QED
      BY <1>6, <2>2 DEF ProbeEnds, TypeOK, PassRuns, process, world
  <1>7. CASE TimerFires
    BY <1>0, <1>7 DEF TimerFires, TypeOK, PassRuns, record, process, world
  <1>8. CASE Start
    BY <1>0, <1>8 DEF Start, TypeOK, PassRuns, record, world
  <1>9. CASE Stop
    BY <1>9 DEF Stop, TypeOK, PassRuns, record, world
  <1>10. CASE Exit
    BY <1>0, <1>10 DEF Exit, TypeOK, PassRuns, record, world
  <1>11. CASE Tick
    <2>1. timer' \in 0..Interval /\ up' \in Capped
      BY <1>11, TimingAssumption, LaterStep DEF Tick, TypeOK
    <2>2. beat' \in [Node -> Capped \cup {None}] /\ since' \in [Node -> Capped]
      BY <1>11, LaterStep DEF Tick, TypeOK
    <2>3. QED
      BY <1>11, <2>1, <2>2 DEF Tick, TypeOK, PassRuns
  <1>12. QED
    BY <1>1, <1>2, <1>3, <1>4, <1>5, <1>6, <1>7, <1>8, <1>9, <1>10, <1>11 DEF Next

\* Every variable keeps its type; only a running process has a timer or a pass.
THEOREM HealthTypes == Spec => []TypeOK
  <1>1. QED
    BY InitTypes, TypesKept, PTL DEF Spec

----------------------------------------------------------------------------
(* The schedule: needs a pass to fit in the interval. *)

\* The last pass is over when the timer fires.
LEMMA Overlap == ASSUME Fits, SInv PROVE PassesNeverOverlap
  BY Numbers DEF SInv, OnSchedule, PassesNeverOverlap, Fits

\* A check that starts or ends uses none of the time that is left, and time passes
\* only while a probe is under way or the pass is over.
LEMMA ScheduleKept == Fits /\ SInv /\ [Next]_vars => SInv'
  <1> SUFFICES ASSUME Fits, SInv, [Next]_vars PROVE OnSchedule'
    BY TypesKept DEF SInv
  <1>0. /\ N \in Nat /\ timer \in Nat /\ timer <= Interval /\ Interval \in Nat
        /\ Cardinality(left) \in Nat /\ TypeOK
    BY Numbers DEF SInv
  <1>1. \A n \in left : Cardinality(left \ {n}) = Cardinality(left) - 1
    BY <1>0, NodeSets DEF TypeOK
  <1>2. Cardinality(known) \in Nat /\ Cardinality(known) <= N
    BY <1>0, NodeSets DEF TypeOK
  <1>3. CASE UNCHANGED <<timer, left, probe, waited>>
    BY <1>3 DEF SInv, OnSchedule, PassRuns, Ahead
  <1>4. ASSUME NEW n \in Node, GiveUp(n) PROVE OnSchedule'
    <2>1. n \in left /\ probe = None /\ left' = left \ {n} /\ UNCHANGED <<timer, probe, waited>>
      BY <1>4 DEF GiveUp
    <2>2. QED
      BY <1>0, <1>1, <2>1 DEF SInv, OnSchedule, PassRuns, Ahead
  <1>5. ASSUME NEW n \in Node, ProbeStarts(n) PROVE OnSchedule'
    <2>1. /\ n \in left /\ probe = None /\ ~waited /\ left' = left \ {n} /\ probe' = n
          /\ UNCHANGED <<timer, waited>>
      BY <1>5 DEF ProbeStarts, SInv, TypeOK
    <2>2. QED
      BY <1>0, <1>1, <2>1, TimingAssumption DEF SInv, OnSchedule, PassRuns, Ahead
  <1>6. CASE ProbeEnds
    <2>1. probe # None /\ probe' = None /\ waited' = FALSE /\ UNCHANGED <<timer, left>>
      BY <1>6 DEF ProbeEnds
    <2>2. QED
      BY <1>0, <2>1 DEF SInv, OnSchedule, PassRuns, Ahead
  <1>7. CASE TimerFires
    <2>1. ~PassRuns /\ probe = None /\ ~waited /\ timer' = 0 /\ left' = known
          /\ UNCHANGED <<probe, waited>>
      BY <1>7, Overlap DEF TimerFires, PassesNeverOverlap, SInv, TypeOK, PassRuns
    <2>2. QED
      BY <1>0, <1>2, <2>1 DEF OnSchedule, Ahead
  <1>8. CASE Start
    <2>1. probe = None /\ ~waited /\ timer' = 0 /\ left' = known /\ UNCHANGED <<probe, waited>>
      BY <1>8 DEF Start, SInv, TypeOK, PassRuns
    <2>2. QED
      BY <1>0, <1>2, <2>1 DEF OnSchedule, Ahead
  <1>9. CASE Exit
    BY <1>9 DEF Exit, OnSchedule, PassRuns
  <1>10. CASE Tick
    <2>1. CASE probe = None
      <3>1. ~PassRuns' /\ ~waited'
        BY <1>10, <2>1 DEF Tick, MayPass, PassRuns
      <3>2. QED
        BY <3>1 DEF OnSchedule
    <2>2. CASE probe # None
      <3>1. PassRuns /\ ~waited /\ on /\ waited' /\ UNCHANGED <<left, probe>>
        BY <1>10, <2>2 DEF Tick, MayPass, PassRuns, SInv, TypeOK
      <3>2. Ahead = Cardinality(left) + 1 /\ Ahead' = Cardinality(left)
        BY <1>0, <2>2, <3>1 DEF Ahead
      <3>3. timer + Ahead <= N
        BY <3>1 DEF SInv, OnSchedule
      <3>4. timer' = timer + 1
        BY <1>0, <1>10, <3>1, <3>2, <3>3 DEF Tick, Fits
      <3>5. QED
        BY <1>0, <3>1, <3>2, <3>3, <3>4 DEF OnSchedule
    <2>3. QED
      BY <2>1, <2>2
  <1>11. QED
    BY <1>3, <1>4, <1>5, <1>6, <1>7, <1>8, <1>9, <1>10
       DEF Next, vars, Register, Change, Stop, record, process

\* The schedule is kept in every reachable state.
LEMMA ScheduleInvariant == ASSUME Fits PROVE Spec => []SInv
  <1>1. Init => SInv
    BY InitTypes DEF Init, SInv, OnSchedule, PassRuns
  <1>2. SInv /\ [Next]_vars => SInv'
    BY ScheduleKept
  <1>3. QED
    BY <1>1, <1>2, PTL DEF Spec

\* However long the threshold is: when fewer nodes are registered than probe timeouts
\* fit in the interval, no pass meets the next (with 60 s and 5 s, 11 nodes).
THEOREM NoOverlap == ASSUME Fits PROVE Spec => []PassesNeverOverlap
  <1>1. SInv => PassesNeverOverlap
    BY Overlap
  <1>2. QED
    BY <1>1, ScheduleInvariant, PTL

----------------------------------------------------------------------------
(* Heartbeats and verdicts: need a node to be checked within the threshold. *)

\* A node still to be checked is checked within N units.
LEMMA AgeBound ==
    ASSUME Timely, SInv, NEW n \in known
    PROVE  Age(n) \in Nat /\ timer <= Age(n) /\ Age(n) <= Threshold
  <1>1. Pending(n) => PassRuns
    BY TimingAssumption DEF SInv, TypeOK, Pending, PassRuns
  <1>2. Pending(n) => timer <= N
    BY <1>1, Numbers DEF SInv, OnSchedule
  <1>3. QED
    BY <1>2, Numbers DEF SInv, Age, Timely, Fits

\* GiveUp: only the absence of the monitor makes a heartbeat look old.
LEMMA GivenUp ==
    ASSUME Timely, SInv, BeatFresh, NEW n \in Node, GiveUp(n)
    PROVE  FirstPass
  <1>1. n \in left /\ n \in known /\ beat[n] # None /\ beat[n] > Threshold
    BY DEF GiveUp, Silent, SInv, TypeOK
  <1>2. Pending(n)
    BY <1>1 DEF Pending
  <1>3. ~(beat[n] <= Age(n))
    BY <1>1, AgeBound, Numbers DEF SInv, TypeOK
  <1>4. QED
    BY <1>1, <1>2, <1>3 DEF BeatFresh

\* A check that is over leaves a new heartbeat and a verdict that agrees with the
\* node's condition, or, for its silence, one of the first pass.
LEMMA Checked ==
    ASSUME Timely, SInv, SInv', Fresh, NEW n \in known, n \in Node,
           Pending(n), ~Pending(n)', UNCHANGED <<process, timer, known, world>>,
           \A m \in known : m # n => /\ Pending(m)' <=> Pending(m)
                                     /\ health'[m] = health[m] /\ beat'[m] = beat[m],
           beat'[n] \in Nat, beat'[n] <= timer,
           (Failing(n) <=> health'[n] = "unhealthy") \/ FirstPass
    PROVE  Fresh'
  <1>1. \A m \in known : m # n => Age(m)' = Age(m)
    BY DEF Age
  <1>2. Age(n)' = timer /\ timer \in Nat
    BY Numbers DEF Age, SInv
  <1>3. BeatFresh'
    BY <1>1, <1>2 DEF Fresh, BeatFresh, FirstPass, process
  <1>4. VerdictFresh'
    BY <1>1, <1>2 DEF Fresh, VerdictFresh, FirstPass, Failing, process, world
  <1>5. QED
    BY <1>3, <1>4 DEF Fresh

\* Every step keeps heartbeats and verdicts fresh.
LEMMA FreshKept == Timely /\ SInv /\ SInv' /\ Fresh /\ [Next]_vars => Fresh'
  <1> SUFFICES ASSUME Timely, SInv, SInv', Fresh, [Next]_vars PROVE Fresh'
    OBVIOUS
  <1>0. /\ TypeOK /\ N \in Nat /\ timer \in Nat /\ timer <= Interval /\ Interval \in Nat
        /\ up \in Nat /\ since \in [Node -> Nat] /\ known \subseteq Node
        /\ \A n \in Node : beat[n] # None => beat[n] \in Nat
    BY Numbers DEF SInv, TypeOK
  <1>1. CASE UNCHANGED vars
    BY <1>1 DEF vars, Fresh, BeatFresh, VerdictFresh, Pending, Age, Failing, FirstPass
  <1>2. ASSUME NEW n \in Node, GiveUp(n) PROVE Fresh'
    <2>1. /\ n \in left /\ n \in known /\ probe = None /\ left' = left \ {n}
          /\ Apply(n, "unhealthy", "disconnected", 0)
          /\ UNCHANGED <<process, timer, probe, known, world>>
      BY <1>2 DEF GiveUp, SInv, TypeOK
    <2>2. /\ beat'[n] = 0
          /\ \A m \in known : m # n => health'[m] = health[m] /\ beat'[m] = beat[m]
      BY <1>0, <2>1, ApplyTyped DEF Health, Playwright
    <2>3. Pending(n) /\ ~Pending(n)' /\ \A m \in known : m # n => (Pending(m)' <=> Pending(m))
      BY <1>0, <2>1, TimingAssumption DEF Pending
    <2>4. FirstPass
      BY <1>2, GivenUp DEF Fresh
    <2>5. QED
      BY <1>0, <2>1, <2>2, <2>3, <2>4, Checked
  <1>3. ASSUME NEW n \in Node, ProbeStarts(n) PROVE Fresh'
    <2>1. /\ n \in left /\ probe = None /\ left' = left \ {n} /\ probe' = n
          /\ UNCHANGED <<process, timer, world, record>>
      BY <1>3 DEF ProbeStarts
    <2>2. \A m \in Node : Pending(m)' <=> Pending(m)
      BY <2>1, TimingAssumption DEF Pending
    <2>3. QED
      BY <1>0, <2>1, <2>2
         DEF Fresh, BeatFresh, VerdictFresh, Age, Failing, FirstPass, process, world, record
  <1>4. ASSUME NEW n \in Node, Register(n) PROVE Fresh'
    <2>1. /\ known' = known \cup {n} /\ n \notin known
          /\ health' = [health EXCEPT ![n] = "unknown"] /\ beat' = [beat EXCEPT ![n] = None]
          /\ since' = [since EXCEPT ![n] = 0]
          /\ UNCHANGED <<process, timer, left, probe, cond>>
      BY <1>4 DEF Register
    <2>2. \A m \in Node : (Pending(m)' <=> Pending(m)) /\ Age(m)' = Age(m) /\ Age(m) \in Nat
      BY <1>0, <2>1 DEF Pending, Age
    <2>3. /\ beat'[n] = None /\ since'[n] = 0
          /\ \A m \in known : beat'[m] = beat[m] /\ since'[m] = since[m] /\ health'[m] = health[m]
      BY <1>0, <2>1 DEF TypeOK
    <2>4. QED
      BY <1>0, <2>1, <2>2, <2>3
         DEF Fresh, BeatFresh, VerdictFresh, Failing, FirstPass, process
  <1>5. ASSUME NEW n \in Node, Change(n) PROVE Fresh'
    <2>1. /\ since' = [since EXCEPT ![n] = 0]
          /\ \A m \in Node : m # n => cond'[m] = cond[m]
          /\ UNCHANGED <<process, timer, left, probe, record>>
      BY <1>0, <1>5 DEF Change, TypeOK
    <2>2. \A m \in Node : (Pending(m)' <=> Pending(m)) /\ Age(m)' = Age(m) /\ Age(m) \in Nat
      BY <1>0, <2>1 DEF Pending, Age
    <2>3. since'[n] = 0 /\ \A m \in known : m # n => since'[m] = since[m]
      BY <1>0, <2>1 DEF TypeOK
    <2>4. QED
      BY <1>0, <2>1, <2>2, <2>3
         DEF Fresh, BeatFresh, VerdictFresh, Failing, FirstPass, process, record
  <1>6. CASE ProbeEnds
    <2>1. PICK n \in known : n = probe
      BY <1>0, <1>6 DEF ProbeEnds, TypeOK
    <2> DEFINE p == Connection(cond[n], playwright[n])
               v == Verdict(cond[n], p)
               age == IF waited THEN 1 ELSE 0
    <2>2. /\ Apply(n, v, p, age) /\ probe' = None
          /\ UNCHANGED <<process, timer, left, known, world>>
      BY <1>6, <2>1 DEF ProbeEnds
    <2>3. p \in Playwright /\ v \in Health /\ age \in {0, 1} /\ age <= timer
      BY <1>0 DEF Connection, Verdict, Playwright, Health, SInv, OnSchedule
    <2>4. Failing(n) <=> v = "unhealthy"
      BY <1>0 DEF Failing, Verdict, Answers, TypeOK
    <2> HIDE DEF p, v, age
    <2>5. /\ health'[n] = v /\ beat'[n] = age
          /\ \A m \in known : m # n => health'[m] = health[m] /\ beat'[m] = beat[m]
      BY <1>0, <2>1, <2>2, <2>3, ApplyTyped
    <2>6. \A m \in known : m # n => (Pending(m)' <=> Pending(m))
      BY <2>1, <2>2, TimingAssumption, <1>0 DEF Pending
    <2>7. CASE ~Pending(n)'
      BY <1>0, <2>1, <2>2, <2>3, <2>4, <2>5, <2>6, <2>7, Checked DEF Pending
    <2>8. CASE Pending(n)'
      <3>1. Pending(n) /\ \A m \in known : Age(m)' = Age(m)
        BY <2>1, <2>2, <2>6, <2>8 DEF Pending, Age
      <3>2. timer <= Age(n)' /\ Age(n)' \in Nat /\ age \in Nat
        BY <1>0, <2>1, <2>2, <2>3, <2>8 DEF Age
      <3>3. BeatFresh'
        BY <1>0, <2>1, <2>2, <2>3, <2>5, <2>6, <3>1, <3>2
           DEF Fresh, BeatFresh, FirstPass, process
      <3>4. VerdictFresh'
        BY <1>0, <2>1, <2>2, <2>4, <2>5, <3>1 DEF Fresh, VerdictFresh, Failing, process, world
      <3>5. QED
        BY <3>3, <3>4 DEF Fresh
    <2>9. QED
      BY <2>7, <2>8
  <1>7. CASE TimerFires
    <2>1. /\ armed /\ timer = Interval /\ timer' = 0 /\ left' = known /\ left = {} /\ probe = None
          /\ UNCHANGED <<process, probe, world, record>>
      BY <1>7, Overlap DEF TimerFires, PassesNeverOverlap, PassRuns, Timely
    <2>2. \A m \in known : ~Pending(m) /\ Pending(m)' /\ Age(m)' = Interval /\ Age(m) = Interval
      BY <1>0, <2>1, TimingAssumption DEF Pending, Age, TypeOK, record
    <2>3. QED
      BY <1>0, <2>1, <2>2 DEF Fresh, BeatFresh, VerdictFresh, Failing, process, world, record
  <1>8. CASE Start
    <2>1. /\ timer' = 0 /\ up' = 0 /\ left' = known
          /\ UNCHANGED <<world, record>>
      BY <1>8 DEF Start
    <2>2. \A m \in known : Pending(m)' /\ Age(m)' = Interval
      BY <1>0, <2>1 DEF Pending, Age
    <2>3. QED
      BY <1>0, <2>1, <2>2 DEF Fresh, BeatFresh, VerdictFresh, FirstPass, record
  <1>9. CASE Stop
    <2>1. ~armed' /\ UNCHANGED <<up, timer, left, probe, record>>
      BY <1>9 DEF Stop
    <2>2. \A m \in Node : (Pending(m)' <=> Pending(m)) /\ Age(m)' = Age(m)
      BY <2>1 DEF Pending, Age
    <2>3. QED
      BY <1>0, <2>1, <2>2 DEF Fresh, BeatFresh, VerdictFresh, FirstPass, record
  <1>10. CASE Exit
    <2>1. ~armed' /\ left' = {} /\ probe' = None /\ known' = known
      BY <1>10 DEF Exit, record
    <2>2. QED
      BY <1>0, <2>1, TimingAssumption DEF Fresh, BeatFresh, VerdictFresh, Pending
  <1>11. CASE Tick
    <2>1. /\ beat' = [n \in Node |-> IF beat[n] = None THEN None ELSE Later(beat[n])]
          /\ since' = [n \in Node |-> Later(since[n])]
          /\ UNCHANGED <<armed, on, left, probe, known, health, cond>>
      BY <1>11 DEF Tick
    <2>2. /\ up' \in Nat /\ up' <= up + 1
          /\ \A m \in Node :
                /\ since'[m] \in Nat /\ since'[m] <= since[m] + 1
                /\ beat[m] # None => beat'[m] \in Nat /\ beat'[m] <= beat[m] + 1
                /\ beat[m] = None => beat'[m] = None
      <3>1. \A x \in Capped : Later(x) \in Nat /\ Later(x) <= x + 1 /\ x \in Nat
        BY LaterStep, TimingAssumption DEF Capped
      <3>2. up' \in Nat /\ up' <= up + 1
        BY <1>0, <1>11, <3>1 DEF Tick, TypeOK
      <3>3. ASSUME NEW m \in Node
            PROVE  /\ since'[m] \in Nat /\ since'[m] <= since[m] + 1
                   /\ beat[m] # None => beat'[m] \in Nat /\ beat'[m] <= beat[m] + 1
                   /\ beat[m] = None => beat'[m] = None
        BY <1>0, <2>1, <3>1 DEF TypeOK
      <3>4. QED
        BY <3>2, <3>3
    <2>3. armed \/ PassRuns => timer' = timer + 1
      <3>1. on /\ timer < Interval => timer' = timer + 1
        BY <1>11 DEF Tick
      <3>2. armed => on /\ timer < Interval
        BY <1>0, <1>11 DEF Tick, MayPass, TypeOK
      <3>3. PassRuns => on /\ timer < Interval
        <4>1. PassRuns => timer + Ahead <= N
          BY DEF SInv, OnSchedule
        <4>2. QED
          BY <1>0, <4>1, Numbers DEF TypeOK, Timely, Fits
      <3>4. QED
        BY <3>1, <3>2, <3>3
    <2>4. \A m \in known : Pending(m) => PassRuns
      BY <1>0, TimingAssumption DEF Pending, PassRuns, TypeOK
    <2>5. ASSUME NEW m \in known, armed \/ Pending(m)
          PROVE  /\ timer' = timer + 1 /\ Age(m)' = Age(m) + 1 /\ Age(m) \in Nat
                 /\ Pending(m)' <=> Pending(m)
                 /\ FirstPass => FirstPass'
      <3>1. timer' = timer + 1 /\ (Pending(m)' <=> Pending(m))
        BY <2>1, <2>3, <2>4, <2>5 DEF Pending
      <3>2. QED
        BY <1>0, <2>2, <3>1 DEF Age, FirstPass
    <2>6. BeatFresh'
      <3>1. ASSUME NEW m \in known, armed \/ Pending(m), beat[m] # None
            PROVE  beat'[m] <= Age(m)' \/ (Pending(m)' /\ FirstPass')
        <4>1. beat[m] <= Age(m) \/ (Pending(m) /\ FirstPass)
          BY <3>1 DEF Fresh, BeatFresh
        <4>2. m \in Node
          BY <1>0
        <4>3. QED
          BY <1>0, <2>2, <2>5, <3>1, <4>1, <4>2
      <3>2. \A m \in known : Pending(m)' <=> Pending(m)
        BY <2>1 DEF Pending
      <3>3. QED
        BY <1>0, <2>1, <2>2, <3>1, <3>2 DEF BeatFresh
    <2>7. VerdictFresh'
      <3>1. ASSUME armed, NEW m \in known, since[m] <= Age(m) \/ up <= Age(m)
            PROVE  since'[m] <= Age(m)' \/ up' <= Age(m)'
        <4>1. m \in Node
          BY <1>0
        <4>2. Age(m)' = Age(m) + 1 /\ Age(m) \in Nat
          BY <2>5, <3>1
        <4>3. QED
          BY <1>0, <2>2, <3>1, <4>1, <4>2
      <3>2. QED
        BY <2>1, <3>1 DEF Fresh, VerdictFresh, Failing
    <2>8. QED
      BY <2>6, <2>7 DEF Fresh
  <1>12. QED
    BY <1>1, <1>2, <1>3, <1>4, <1>5, <1>6, <1>7, <1>8, <1>9, <1>10, <1>11 DEF Next

\* When the times fit, the schedule is kept and everything is fresh.
THEOREM TimelyInvariant == ASSUME Timely PROVE Spec => [](SInv /\ Fresh)
  <1>1. Init => Fresh
    BY TimingAssumption DEF Init, Fresh, BeatFresh, VerdictFresh
  <1>2. SInv /\ SInv' /\ Fresh /\ [Next]_vars => Fresh'
    BY FreshKept
  <1>3. Spec => []SInv
    BY ScheduleInvariant DEF Timely
  <1>4. QED
    BY <1>1, <1>2, <1>3, PTL DEF Spec

\* What is fresh is in time.
LEMMA InTime == ASSUME Timely, SInv, Fresh PROVE MarkedInTime /\ ClearedInTime
  <1>1. ASSUME NEW n \in known, armed, up > Threshold, since[n] > Threshold,
               Failing(n) <=> health[n] # "unhealthy"
        PROVE  FALSE
    <2>1. since[n] <= Age(n) \/ up <= Age(n)
      BY <1>1 DEF Fresh, VerdictFresh
    <2>2. Age(n) \in Nat /\ Age(n) <= Threshold
      BY AgeBound
    <2>3. since[n] \in Nat /\ up \in Nat /\ Threshold \in Nat
      BY Numbers DEF SInv, TypeOK
    <2>4. QED
      BY <1>1, <2>1, <2>2, <2>3
  <1>2. QED
    BY <1>1 DEF MarkedInTime, ClearedInTime

\* A failing node is marked before the threshold has passed, for any number of
\* nodes that fits the interval, in every process that has run as long.
THEOREM FailureDetectedInTime == ASSUME Timely PROVE Spec => []MarkedInTime
  <1>1. SInv /\ Fresh => MarkedInTime
    BY InTime
  <1>2. QED
    BY <1>1, TimelyInvariant, PTL

\* No node stays marked for longer than the threshold once it answers again, not
\* even one that was given up for the monitor's own absence.
THEOREM MarkRemovedInTime == ASSUME Timely PROVE Spec => []ClearedInTime
  <1>1. SInv /\ Fresh => ClearedInTime
    BY InTime
  <1>2. QED
    BY <1>1, TimelyInvariant, PTL

\* Behind the three-minute rule there is always an absence of the monitor, never
\* the silence of a node that it watches.
THEOREM SilenceIsTheMonitors == ASSUME Timely PROVE Spec => SilenceIsAbsence
  <1>1. SInv /\ Fresh /\ [Next]_vars => [\A n \in Node : GiveUp(n) => FirstPass]_vars
    BY GivenUp DEF Fresh
  <1>2. QED
    BY <1>1, TimelyInvariant, PTL DEF Spec, SilenceIsAbsence

=============================================================================
