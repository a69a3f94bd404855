----------------------------- MODULE EdgeOutbox -----------------------------
(***************************************************************************)
(* The durable outbox of dragon-senate-saas-v2/edge_outbox.py with its two  *)
(* ways out: edges that poll (app.py's /edge/pull and /edge/ack, and the    *)
(* agent of apps/desktop-client that polls them), and a flush loop that     *)
(* posts batches to webhooks (app.py's _edge_push_sender).                  *)
(*                                                                         *)
(* The table is in SQLite and survives a crash of the cloud process; a      *)
(* flush and an HTTP request do not.  Every database operation runs under   *)
(* one lock on one event loop and has no await in it: it is one step.  Time *)
(* passes a deadline whenever it likes.                                     *)
(***************************************************************************)
EXTENDS Naturals, FiniteSets

CONSTANTS
    Msg,         \* messages that may be enqueued
    Edge,        \* node_id
    Modes,       \* delivery modes in use
    MaxRetries,  \* max_retries
    PullLimit, BatchSize,
    AgentAcks,   \* a polling edge acknowledges what it has executed
    WebhookAcks, \* so does one that is pushed to, besides answering the POST
    Lossy,       \* requests, responses and processes may be lost
    None

ASSUME OutboxAssumption ==
    /\ IsFiniteSet(Msg)
    /\ Modes \subseteq {"poll", "push"}
    /\ MaxRetries \in Nat
    /\ PullLimit \in Nat \ {0} /\ BatchSize \in Nat \ {0}
    /\ AgentAcks \in BOOLEAN /\ WebhookAcks \in BOOLEAN /\ Lossy \in BOOLEAN
    /\ None \notin Edge

VARIABLES
    mode, edge,  \* delivery_mode and node_id of each row, given at enqueue
    status,      \* "absent" before the row exists
    retries,     \* retry_count
    made,        \* created_at, as the number of rows made before
    ready,       \* next_retry_at has come
    lapsed,      \* ack_deadline_at has come
    sent,        \* history: how often the row has been claimed for sending
    flight,      \* rows claimed by the current flush and not yet answered for
    posting,     \* the edge the outstanding POST goes to
    heard,       \* what became of that POST: "lost", "out" or "heard"
    wire,        \* rows on their way to each edge's webhook
    inbox,       \* rows an edge has pulled and not executed yet
    acks,        \* acknowledgements on their way
    got          \* rows executed by their edge at least once

row == <<status, retries, ready, lapsed, sent>>
fixed == <<mode, edge, made>>
push == <<flight, posting, heard, wire>>
net == <<inbox, acks, got>>
vars == <<mode, edge, made, status, retries, ready, lapsed, sent,
          flight, posting, heard, wire, inbox, acks, got>>

----------------------------------------------------------------------------
(* The table. *)

Rows == {m \in Msg : status[m] # "absent"}

\* ORDER BY created_at ASC LIMIT limit
Oldest(S, limit) ==
    {m \in S : Cardinality({k \in S : made[k] < made[m]}) < limit}

\* Mutant: the selection does not look at the status.
EligibleAny(md) == {m \in Rows : status[m] # "failed" /\ mode[m] = md /\ ready[m]}
\* Rows whose turn has come.
Eligible(md) == {m \in Rows : status[m] = "pending" /\ mode[m] = md /\ ready[m]}

\* Mutant: every mode is recovered, _recover_expired_locked's default.
ExpiredEveryMode(md) == {m \in Rows : status[m] = "sending" /\ lapsed[m]}
\* Mutant: only polled rows are recovered.
ExpiredPolled(md) == {m \in Rows : status[m] = "sending" /\ mode[m] = "poll" /\ md = "poll" /\ lapsed[m]}
\* Claimed rows whose acknowledgement is overdue.
Expired(md) == {m \in Rows : status[m] = "sending" /\ mode[m] = md /\ lapsed[m]}

\* Mutant: one attempt too many.
ExhaustedLate(m) == retries[m] > MaxRetries
Exhausted(m) == retries[m] + 1 > MaxRetries

\* _schedule_retry_many_locked for the rows of back, then the claim of the rows of out.
RetryAndClaim(back, out) ==
    /\ status' = [m \in Msg |-> IF m \in out THEN "sending"
                                ELSE IF m \notin back THEN status[m]
                                ELSE IF Exhausted(m) THEN "failed" ELSE "pending"]
    /\ retries' = [m \in Msg |-> IF m \in back /\ ~Exhausted(m) THEN retries[m] + 1 ELSE retries[m]]
    /\ ready' = [m \in Msg |-> ready[m] /\ (m \in back => Exhausted(m))]
    /\ lapsed' = [m \in Msg |-> lapsed[m] /\ m \notin back \cup out]
    /\ sent' = [m \in Msg |-> IF m \in out THEN sent[m] + 1 ELSE sent[m]]

\* ack() of every row of S, whatever its status.
Deliver(S) ==
    /\ status' = [m \in Msg |-> IF m \in S THEN "delivered" ELSE status[m]]
    /\ lapsed' = [m \in Msg |-> lapsed[m] /\ m \notin S]
    /\ UNCHANGED <<retries, ready, sent>>

Enqueue(m) ==
    /\ status[m] = "absent"
    /\ status' = [status EXCEPT ![m] = "pending"]
    /\ made' = [made EXCEPT ![m] = Cardinality(Rows)]
    /\ UNCHANGED <<mode, edge, retries, ready, lapsed, sent, push, net>>

BackoffEnds(m) ==
    /\ status[m] # "absent" /\ ~ready[m]
    /\ ready' = [ready EXCEPT ![m] = TRUE]
    /\ UNCHANGED <<fixed, status, retries, lapsed, sent, push, net>>

AckTimesOut(m) ==
    /\ status[m] = "sending" /\ ~lapsed[m]
    /\ lapsed' = [lapsed EXCEPT ![m] = TRUE]
    /\ UNCHANGED <<fixed, status, retries, ready, sent, push, net>>

----------------------------------------------------------------------------
(* Edges that poll. *)

\* pull_batch, and the response, which may be lost; the agent asks for more
\* only when it is through with what it has.
Pull(e) ==
    /\ inbox[e] = {}
    /\ LET out == Oldest({m \in Eligible("poll") : edge[m] = e}, PullLimit)
       IN  /\ RetryAndClaim(Expired("poll"), out)
           /\ \/ inbox' = [inbox EXCEPT ![e] = out]
              \/ Lossy /\ inbox' = inbox
    /\ UNCHANGED <<fixed, push, acks, got>>

Execute(e, m) ==
    /\ m \in inbox[e]
    /\ inbox' = [inbox EXCEPT ![e] = @ \ {m}]
    /\ got' = got \cup {m}
    /\ acks' = IF AgentAcks THEN acks \cup {m} ELSE acks
    /\ UNCHANGED <<fixed, row, push>>

\* The agent dies, or an exception ends its pass over the packages.
EdgeDrops(e) ==
    /\ Lossy /\ inbox[e] # {}
    /\ inbox' = [inbox EXCEPT ![e] = {}]
    /\ UNCHANGED <<fixed, row, push, acks, got>>

\* POST /edge/ack/{outbox_id}
Ack(m) ==
    /\ m \in acks
    /\ acks' = acks \ {m}
    /\ Deliver({m})
    /\ UNCHANGED <<fixed, push, inbox, got>>

LoseAck(m) ==
    /\ Lossy /\ m \in acks
    /\ acks' = acks \ {m}
    /\ UNCHANGED <<fixed, row, push, inbox, got>>

----------------------------------------------------------------------------
(* The flush loop. *)

\* flush_once up to the first await: recover, claim a batch, group it by edge.
FlushStarts ==
    /\ flight = {}
    /\ LET out == Oldest(Eligible("push"), BatchSize)
       IN  RetryAndClaim(Expired("push"), out) /\ flight' = out
    /\ UNCHANGED <<fixed, posting, heard, wire, net>>

Group(e) == {m \in flight : edge[m] = e}

\* The sender posts one edge's group, or has no URL or no connection.
Post(e) ==
    /\ posting = None /\ Group(e) # {}
    /\ posting' = e
    /\ \/ heard' = "out" /\ wire' = [wire EXCEPT ![e] = @ \cup Group(e)]
       \/ heard' = "lost" /\ wire' = wire
    /\ UNCHANGED <<fixed, row, flight, net>>

\* The webhook takes what has been posted to it, perhaps long ago.
WebhookTakes(e) ==
    /\ wire[e] # {}
    /\ wire' = [wire EXCEPT ![e] = {}]
    /\ got' = got \cup wire[e]
    /\ acks' = IF WebhookAcks THEN acks \cup wire[e] ELSE acks
    /\ heard' = IF posting = e /\ heard = "out" THEN "heard" ELSE heard
    /\ UNCHANGED <<fixed, row, flight, posting, inbox>>

Answered ==
    /\ flight' = flight \ Group(posting)
    /\ posting' = None /\ heard' = "lost"
    /\ UNCHANGED <<fixed, wire, net>>

\* A status below 400: every row of the group is acknowledged.
PostAccepted ==
    /\ posting # None /\ heard = "heard"
    /\ Deliver(Group(posting))
    /\ Answered

\* Mutant: a refused batch is taken as delivered.
PostRefusedDelivers == posting # None /\ Deliver(Group(posting)) /\ Answered
\* Any other status, a timeout, an exception, no URL: every row is retried,
\* whatever has become of it meanwhile.
PostFails ==
    /\ posting # None
    /\ RetryAndClaim(Group(posting), {})
    /\ Answered

\* The cloud process dies and comes back.
Crash ==
    /\ Lossy /\ flight # {}
    /\ flight' = {} /\ posting' = None /\ heard' = "lost"
    /\ UNCHANGED <<fixed, row, wire, net>>

----------------------------------------------------------------------------
Init ==
    /\ mode \in [Msg -> Modes] /\ edge \in [Msg -> Edge]
    /\ made = [m \in Msg |-> 0]
    /\ status = [m \in Msg |-> "absent"]
    /\ retries = [m \in Msg |-> 0] /\ sent = [m \in Msg |-> 0]
    /\ ready = [m \in Msg |-> TRUE] /\ lapsed = [m \in Msg |-> FALSE]
    /\ flight = {} /\ posting = None /\ heard = "lost"
    /\ wire = [e \in Edge |-> {}]
    /\ inbox = [e \in Edge |-> {}] /\ acks = {} /\ got = {}

Next ==
    \/ \E m \in Msg : Enqueue(m) \/ BackoffEnds(m) \/ AckTimesOut(m) \/ Ack(m) \/ LoseAck(m)
    \/ \E e \in Edge : \/ Pull(e) \/ EdgeDrops(e) \/ Post(e) \/ WebhookTakes(e)
                       \/ \E m \in Msg : Execute(e, m)
    \/ FlushStarts \/ PostAccepted \/ PostFails \/ Crash

Spec == Init /\ [][Next]_vars

\* Time passes, the flush loop keeps flushing and its POSTs time out, edges keep
\* polling, and a request is answered where nothing is lost.
Fairness ==
    /\ \A m \in Msg : WF_vars(BackoffEnds(m)) /\ WF_vars(AckTimesOut(m))
    /\ WF_vars(FlushStarts) /\ WF_vars(PostAccepted \/ PostFails)
    /\ \A e \in Edge : WF_vars(Pull(e)) /\ WF_vars(Post(e)) /\ WF_vars(\E m \in Msg : Execute(e, m))
    /\ ~Lossy => \A m \in Msg : WF_vars(Ack(m))

FairSpec == Spec /\ Fairness

----------------------------------------------------------------------------
\* Every variable has its type, the counters of an attempt stay within max_retries,
\* and only rows of the table are sent, pulled, executed or acknowledged.
TypeOK ==
    /\ mode \in [Msg -> Modes] /\ edge \in [Msg -> Edge]
    /\ made \in [Msg -> Nat]
    /\ status \in [Msg -> {"absent", "pending", "sending", "delivered", "failed"}]
    /\ retries \in [Msg -> 0..MaxRetries]
    /\ sent \in [Msg -> 0..(MaxRetries + 1)]
    /\ ready \in [Msg -> BOOLEAN] /\ lapsed \in [Msg -> BOOLEAN]
    /\ flight \subseteq Rows
    /\ posting \in Edge \cup {None} /\ heard \in {"lost", "out", "heard"}
    /\ wire \in [Edge -> SUBSET Rows]
    /\ inbox \in [Edge -> SUBSET Rows]
    /\ acks \subseteq Rows /\ got \subseteq Rows

\* A row is marked delivered only if its edge has executed it: neither a POST
\* that failed nor one that was answered for another batch counts.
NoPhantomDelivery == \A m \in Msg : status[m] = "delivered" => m \in got

\* A row is handed over max_retries + 1 times at most, and is given up only when
\* it has been: no failure is counted twice, by the sender and by the recovery.
RetryBudget ==
    \A m \in Msg : /\ sent[m] <= MaxRetries + 1
                   /\ status[m] = "failed" => sent[m] = MaxRetries + 1

\* What Courier calls the phase of a row.
Phase(s) ==
    CASE s = "absent" -> "new"
      [] s \in {"pending", "sending"} -> "owed"
      [] s = "delivered" -> "acknowledged"
      [] s = "failed" -> "written_off"

C == INSTANCE Courier WITH phase <- [m \in Msg |-> Phase(status[m])], reached <- got

\* The outbox keeps the promise of Courier, where an edge that is pushed to does
\* not acknowledge besides answering the POST: an acknowledgement that comes in
\* while the POST is open is undone when that fails (edge_outbox.py:279).
Implements == C!Spec

\* Whatever is lost and whoever crashes, every message is delivered or given up
\* in the end, and stays so.
EverySettles ==
    \A m \in Msg : (status[m] # "absent") ~> [](status[m] \in {"delivered", "failed"})

=============================================================================
