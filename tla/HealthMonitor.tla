--------------------------- MODULE HealthMonitor ---------------------------
(***************************************************************************)
(* The health monitor of src/src/agent/health-monitor.ts in time: a timer  *)
(* starts a pass every Interval, a pass checks the nodes one after the     *)
(* other, and a node whose lastHeartbeatAt is older than Threshold is      *)
(* given up without a probe.                                               *)
(*                                                                         *)
(* The unit of time is the timeout of one probe, so a probe lasts one unit *)
(* at most; what happens between probes takes no time.  The heartbeat, the *)
(* verdict and the Playwright state are in Redis and survive a restart.    *)
(* A stopped monitor finishes the pass it is at; src/src/run.ts and the    *)
(* dashboard server start it once in a process and exit after stopping it. *)
(***************************************************************************)
EXTENDS Naturals, FiniteSets

CONSTANTS
    Node,       \* nodes that may be registered
    Interval,   \* intervalMs
    Threshold,  \* NO_RESPONSE_THRESHOLD_MS
    None        \* undefined

ASSUME TimingAssumption ==
    /\ IsFiniteSet(Node)
    /\ Interval \in Nat \ {0} /\ Threshold \in Nat
    /\ None \notin Node \cup Nat

\* What a probe would find: CDP answers and CPU below 60 %, up to 80 %, above; no answer.
Condition == {"well", "busy", "hot", "down"}
Health == {"unknown", "ok", "degraded", "unhealthy"}
Playwright == {"unknown", "connected", "disconnected"}
Capped == 0..(Threshold + 1)

VARIABLES
    on,      \* the process runs
    armed,   \* timerId is set
    timer,   \* time since the last pass began, up to Interval
    left,    \* nodes this pass has still to check
    probe,   \* the node being probed
    waited,  \* the probe has used up its unit of time
    known,   \* nodes in the pool
    health, playwright,   \* of each node's record
    beat,    \* time since lastHeartbeatAt
    cond,    \* each node's real condition
    since,   \* history: how long it has been so
    up       \* history: how long the process has been running

vars == <<on, armed, timer, left, probe, waited, known, health, playwright, beat, cond, since, up>>

record == <<known, health, playwright, beat>>
process == <<on, armed, up>>
world == <<cond, since>>

Later(x) == IF x > Threshold THEN x ELSE x + 1

----------------------------------------------------------------------------
Pending(n) == n \in left \/ probe = n
PassRuns == left # {} \/ probe # None

Answers(c) == c # "down"

\* Mutant: a connected Playwright counts as an answer.
VerdictTrustsPlaywright(c, p) ==
    IF (~Answers(c) /\ p # "connected") \/ c = "hot" THEN "unhealthy"
    ELSE IF c = "busy" THEN "degraded" ELSE "ok"
\* checkOne's verdict, c what it finds and p whether Playwright counts as connected.
Verdict(c, p) ==
    IF ~Answers(c) \/ c = "hot" THEN "unhealthy"
    ELSE IF p # "connected" \/ c = "busy" THEN "degraded" ELSE "ok"

\* Connected stays connected, disconnected disconnected; unknown becomes what the probe says.
Connection(c, p) ==
    IF p = "connected" \/ (Answers(c) /\ p # "disconnected")
      THEN "connected" ELSE "disconnected"

\* Mutant: the heartbeat is refreshed by a good verdict only.
ApplyGoodOnly(n, verdict, p, age) ==
    /\ health' = [health EXCEPT ![n] = verdict]
    /\ playwright' = [playwright EXCEPT ![n] = p]
    /\ beat' = [beat EXCEPT ![n] = IF verdict = "ok" THEN age ELSE @]
\* applyResult: whatever the verdict, lastHeartbeatAt becomes checkedAt.
Apply(n, verdict, p, age) ==
    /\ health' = [health EXCEPT ![n] = verdict]
    /\ playwright' = [playwright EXCEPT ![n] = p]
    /\ beat' = [beat EXCEPT ![n] = age]

Silent(n) == beat[n] # None /\ beat[n] > Threshold

\* checkOne gives the node up for its old heartbeat.
GiveUp(n) ==
    /\ n \in left /\ probe = None
    /\ Silent(n)
    /\ left' = left \ {n}
    /\ Apply(n, "unhealthy", "disconnected", 0)
    /\ UNCHANGED <<process, timer, probe, waited, known, world>>

ProbeStarts(n) ==
    /\ n \in left /\ probe = None
    /\ ~Silent(n)
    /\ left' = left \ {n}
    /\ probe' = n
    /\ UNCHANGED <<process, timer, waited, world, record>>

\* The probe answers, fails or times out; checkedAt was taken before it.
ProbeEnds ==
    /\ probe # None
    /\ LET c == cond[probe]
           p == Connection(c, playwright[probe])
       IN  Apply(probe, Verdict(c, p), p, IF waited THEN 1 ELSE 0)
    /\ probe' = None
    /\ waited' = FALSE
    /\ UNCHANGED <<process, timer, left, known, world>>

\* Mutant: the pass goes over every node there may be.
TimerFiresForAll ==
    /\ armed /\ timer = Interval
    /\ timer' = 0
    /\ left' = Node
    /\ UNCHANGED <<process, probe, waited, world, record>>
\* setInterval's callback: a pass over the nodes known now.
TimerFires ==
    /\ armed /\ timer = Interval
    /\ timer' = 0
    /\ left' = known
    /\ UNCHANGED <<process, probe, waited, world, record>>

----------------------------------------------------------------------------
\* start(): a pass at once, whatever time the process was away.
Start ==
    /\ ~on
    /\ on' = TRUE /\ armed' = TRUE /\ up' = 0
    /\ timer' = 0
    /\ left' = known
    /\ UNCHANGED <<probe, waited, world, record>>

\* stop(): no further pass; the running one goes on.
Stop ==
    /\ armed
    /\ armed' = FALSE
    /\ UNCHANGED <<on, up, timer, left, probe, waited, world, record>>

\* The process exits or dies, in the middle of anything.
Exit ==
    /\ on
    /\ on' = FALSE /\ armed' = FALSE
    /\ timer' = 0 /\ up' = 0
    /\ left' = {} /\ probe' = None /\ waited' = FALSE
    /\ UNCHANGED <<world, record>>

\* register, here or by spawning: no heartbeat yet.
Register(n) ==
    /\ n \notin known
    /\ known' = known \cup {n}
    /\ health' = [health EXCEPT ![n] = "unknown"]
    /\ \E p \in {"unknown", "connected"} : playwright' = [playwright EXCEPT ![n] = p]
    /\ beat' = [beat EXCEPT ![n] = None]
    /\ since' = [since EXCEPT ![n] = 0]
    /\ UNCHANGED <<process, timer, left, probe, waited, cond>>

Change(n) ==
    /\ \E c \in Condition \ {cond[n]} : cond' = [cond EXCEPT ![n] = c]
    /\ since' = [since EXCEPT ![n] = 0]
    /\ UNCHANGED <<process, timer, left, probe, waited, record>>

\* Mutant: the probe has no timeout.
MayPassForever == (armed => timer < Interval) /\ (PassRuns => probe # None)
\* Time stands still while the process has something to do.
MayPass ==
    /\ armed => timer < Interval
    /\ PassRuns => probe # None /\ ~waited

Tick ==
    /\ MayPass
    /\ timer' = IF on /\ timer < Interval THEN timer + 1 ELSE timer
    /\ up' = IF on THEN Later(up) ELSE up
    /\ waited' = (probe # None)
    /\ beat' = [n \in Node |-> IF beat[n] = None THEN None ELSE Later(beat[n])]
    /\ since' = [n \in Node |-> Later(since[n])]
    /\ UNCHANGED <<on, armed, left, probe, known, health, playwright, cond>>

Init ==
    /\ on = FALSE /\ armed = FALSE /\ timer = 0 /\ up = 0
    /\ left = {} /\ probe = None /\ waited = FALSE
    /\ known = {}
    /\ health = [n \in Node |-> "unknown"]
    /\ playwright = [n \in Node |-> "unknown"]
    /\ beat = [n \in Node |-> None]
    /\ cond \in [Node -> Condition]
    /\ since = [n \in Node |-> 0]

Next ==
    \/ \E n \in Node : GiveUp(n) \/ ProbeStarts(n) \/ Register(n) \/ Change(n)
    \/ ProbeEnds \/ TimerFires \/ Start \/ Stop \/ Exit \/ Tick

Spec == Init /\ [][Next]_vars

----------------------------------------------------------------------------
\* Every variable has its type, a pass is over registered nodes, and only a
\* running process has a timer or a pass.
TypeOK ==
    /\ on \in BOOLEAN /\ armed \in BOOLEAN /\ waited \in BOOLEAN
    /\ timer \in 0..Interval
    /\ known \subseteq Node /\ left \subseteq known /\ probe \in known \cup {None}
    /\ health \in [Node -> Health]
    /\ playwright \in [Node -> Playwright]
    /\ beat \in [Node -> Capped \cup {None}]
    /\ cond \in [Node -> Condition]
    /\ since \in [Node -> Capped] /\ up \in Capped
    /\ armed \/ PassRuns => on
    /\ waited => probe # None

Failing(n) == cond[n] \in {"down", "hot"}

\* runPass is never entered a second time while it runs (health-monitor.ts:150:
\* the timer does not wait for it).
PassesNeverOverlap == armed /\ timer = Interval => ~PassRuns

\* A node that has failed for longer than the threshold, all of it before the eyes
\* of a monitor that runs, is marked unhealthy.
MarkedInTime ==
    \A n \in known :
        armed /\ up > Threshold /\ Failing(n) /\ since[n] > Threshold => health[n] = "unhealthy"

\* A node that has answered, not overloaded, for longer than the threshold is not
\* unhealthy once the monitor has run as long, whatever happened before: nodes that
\* the first pass after an absence gave up have their marks removed.
ClearedInTime ==
    \A n \in known :
        armed /\ up > Threshold /\ ~Failing(n) /\ since[n] > Threshold => health[n] # "unhealthy"

\* No pass has begun since the one that start() began.
FirstPass == up <= timer

\* The silence rule (health-monitor.ts:67) judges the monitor's absence and nothing
\* else: a node is given up without a probe in the first pass after a start only, then
\* whether it answers or not; while the monitor runs no heartbeat ever looks old.
SilenceIsAbsence == [][\A n \in Node : GiveUp(n) => FirstPass]_vars

=============================================================================
