-------------------------- MODULE EdgeOutboxProofs --------------------------
(***************************************************************************)
(* Proofs about EdgeOutbox for every set of messages and edges, every retry *)
(* limit and batch size, with and without losses and crashes.               *)
(*                                                                         *)
(* The inductive invariant IInv says what the claims of the code rely on    *)
(* without ever checking it: the retry counter lags the hand-overs by at    *)
(* most one (Ledger), only rows that are being sent, or were acknowledged   *)
(* meanwhile, are in the current flush (InFlight), a POST that has been     *)
(* heard has brought its whole group to the edge (Heard), and an            *)
(* acknowledgement stands for an execution (Acked).                         *)
(***************************************************************************)
EXTENDS EdgeOutbox, FiniteSetTheorems, TLAPS

LedgerOf(m) ==
    /\ sent[m] = retries[m] \/ sent[m] = retries[m] + 1
    /\ status[m] \in {"absent", "pending"} => sent[m] = retries[m]
    /\ status[m] = "sending" => sent[m] = retries[m] + 1
    /\ status[m] = "failed" => sent[m] = MaxRetries + 1
Ledger == \A m \in Msg : LedgerOf(m)

InFlight ==
    \A m \in flight :
        /\ mode[m] = "push" /\ sent[m] = retries[m] + 1
        /\ status[m] = "sending" \/ (WebhookAcks /\ status[m] = "delivered")

Heard ==
    /\ posting = None => heard = "lost"
    /\ posting # None => Group(posting) # {}
    /\ heard = "out" => Group(posting) \subseteq wire[posting]
    /\ heard = "heard" => Group(posting) \subseteq got

Acked ==
    /\ \A e \in Edge : /\ \A m \in inbox[e] : mode[m] = "poll"
                       /\ \A m \in wire[e] : mode[m] = "push"
    /\ \A m \in acks : m \in got /\ (mode[m] = "poll" \/ WebhookAcks)

IInv == TypeOK /\ Ledger /\ InFlight /\ Heard /\ Acked /\ NoPhantomDelivery

RowType ==
    /\ status \in [Msg -> {"absent", "pending", "sending", "delivered", "failed"}]
    /\ retries \in [Msg -> 0..MaxRetries]
    /\ sent \in [Msg -> 0..(MaxRetries + 1)]
    /\ ready \in [Msg -> BOOLEAN] /\ lapsed \in [Msg -> BOOLEAN]

----------------------------------------------------------------------------
(* The two ways the rows of the table change. *)

\* A selection of the oldest rows selects among the rows given.
LEMMA OldestSelects ==
    ASSUME NEW S, NEW k PROVE Oldest(S, k) \subseteq S
BY DEF Oldest

\* _schedule_retry_many_locked of rows under way, with a claim of pending rows,
\* keeps the table well formed and the ledger right, makes no row delivered and
\* leaves every other row alone.
LEMMA RetryStep ==
    ASSUME IInv, NEW back \in SUBSET Rows, NEW out \in SUBSET Rows,
           \A m \in back : sent[m] = retries[m] + 1,
           \A m \in out : status[m] = "pending" /\ m \notin back,
           RetryAndClaim(back, out)
    PROVE  /\ RowType' /\ Ledger' /\ Rows' = Rows
           /\ \A m \in Msg : status'[m] = "delivered" => status[m] = "delivered" /\ m \notin back
           /\ \A m \in out : status'[m] = "sending" /\ sent'[m] = retries'[m] + 1
           /\ \A m \in Msg \ (back \cup out) :
                 status'[m] = status[m] /\ retries'[m] = retries[m] /\ sent'[m] = sent[m]
<1>1. RowType'
  <2>1. ASSUME NEW m \in Msg PROVE sent'[m] \in 0..(MaxRetries + 1) /\ retries'[m] \in 0..MaxRetries
    BY <2>1, OutboxAssumption DEF IInv, TypeOK, Ledger, LedgerOf, RetryAndClaim, Exhausted
  <2> QED
    BY <2>1 DEF RowType, RetryAndClaim, IInv, TypeOK
<1>2. Ledger'
  <2> SUFFICES ASSUME NEW m \in Msg PROVE LedgerOf(m)'
    BY DEF Ledger
  <2>1. CASE m \in back
    BY <2>1, OutboxAssumption DEF IInv, TypeOK, Ledger, LedgerOf, RetryAndClaim, Exhausted
  <2>2. CASE m \in out
    BY <2>2 DEF IInv, TypeOK, Ledger, LedgerOf, RetryAndClaim
  <2>3. CASE m \notin back \cup out
    BY <2>3 DEF IInv, TypeOK, Ledger, LedgerOf, RetryAndClaim
  <2> QED
    BY <2>1, <2>2, <2>3
<1>3. Rows' = Rows
  BY DEF Rows, RetryAndClaim
<1>4. \A m \in Msg : status'[m] = "delivered" => status[m] = "delivered" /\ m \notin back
  BY DEF RetryAndClaim
<1>5. \A m \in out : status'[m] = "sending" /\ sent'[m] = retries'[m] + 1
  BY DEF RetryAndClaim, IInv, TypeOK, Ledger, LedgerOf, Rows
<1>6. \A m \in Msg \ (back \cup out) :
         status'[m] = status[m] /\ retries'[m] = retries[m] /\ sent'[m] = sent[m]
  BY DEF RetryAndClaim, IInv, TypeOK
<1> QED
  BY <1>1, <1>2, <1>3, <1>4, <1>5, <1>6

\* ack() keeps the table well formed and the ledger right.
LEMMA DeliverStep ==
    ASSUME IInv, NEW S \in SUBSET Rows, Deliver(S)
    PROVE  /\ RowType' /\ Ledger' /\ Rows' = Rows
           /\ \A m \in Msg : m \notin S => status'[m] = status[m]
           /\ \A m \in S : status'[m] = "delivered"
<1>1. RowType'
  BY DEF RowType, Deliver, IInv, TypeOK
<1>2. Ledger'
  BY DEF Ledger, LedgerOf, Deliver, IInv, TypeOK, Rows
<1> QED
  BY <1>1, <1>2 DEF Rows, Deliver

\* Rows to be recovered or claimed are under way or pending.
LEMMA Selected ==
    ASSUME IInv, NEW md
    PROVE  /\ Expired(md) \in SUBSET Rows /\ Eligible(md) \in SUBSET Rows
           /\ \A m \in Expired(md) : status[m] = "sending" /\ mode[m] = md /\ sent[m] = retries[m] + 1
           /\ \A m \in Eligible(md) : status[m] = "pending" /\ mode[m] = md /\ m \notin Expired(md)
BY DEF Expired, Eligible, Rows, IInv, Ledger, LedgerOf

----------------------------------------------------------------------------
(* The invariant is inductive. *)

\* The empty outbox satisfies the invariant.
LEMMA InitIInv == Init => IInv
<1> SUFFICES ASSUME Init PROVE IInv
  OBVIOUS
<1>1. TypeOK
  BY OutboxAssumption DEF Init, TypeOK, Rows
<1> QED
  BY <1>1 DEF Init, IInv, Ledger, LedgerOf, InFlight, Heard, Acked, NoPhantomDelivery, Group

\* enqueue() adds a pending row.
LEMMA EnqueueIInv ==
    ASSUME IInv, NEW m \in Msg, Enqueue(m) PROVE IInv'
<1>1. Rows' = Rows \cup {m}
  BY DEF Enqueue, Rows, IInv, TypeOK
<1>2. Cardinality(Rows) \in Nat
  BY OutboxAssumption, FS_Subset, FS_CardinalityType DEF Rows
<1>3. TypeOK'
  BY <1>1, <1>2 DEF Enqueue, IInv, TypeOK, push, net
<1>4. Ledger'
  BY DEF Enqueue, IInv, TypeOK, Ledger, LedgerOf
<1>5. InFlight' /\ Heard' /\ Acked' /\ NoPhantomDelivery'
  BY DEF Enqueue, IInv, TypeOK, InFlight, Heard, Acked, NoPhantomDelivery, Group, Rows, push, net
<1> QED
  BY <1>3, <1>4, <1>5 DEF IInv

\* Time only makes rows ready or overdue.
LEMMA TimeIInv ==
    ASSUME IInv, NEW m \in Msg, BackoffEnds(m) \/ AckTimesOut(m) PROVE IInv'
<1>1. UNCHANGED <<fixed, status, retries, sent, push, net>>
  BY DEF BackoffEnds, AckTimesOut
<1>2. ready' \in [Msg -> BOOLEAN] /\ lapsed' \in [Msg -> BOOLEAN]
  BY DEF BackoffEnds, AckTimesOut, IInv, TypeOK
<1>3. TypeOK'
  BY <1>1, <1>2 DEF IInv, TypeOK, Rows, fixed, push, net
<1>4. Ledger' /\ InFlight' /\ Heard' /\ Acked' /\ NoPhantomDelivery'
  BY <1>1 DEF IInv, Ledger, LedgerOf, InFlight, Heard, Acked, NoPhantomDelivery, Group, fixed, push, net
<1> QED
  BY <1>3, <1>4 DEF IInv

\* pull_batch recovers and claims polled rows only, and none of them is in the flush.
LEMMA PullIInv ==
    ASSUME IInv, NEW e \in Edge, Pull(e) PROVE IInv'
<1> DEFINE mine == {m \in Eligible("poll") : edge[m] = e}
<1>1. PICK out \in SUBSET mine : /\ RetryAndClaim(Expired("poll"), out)
                                 /\ inbox' = [inbox EXCEPT ![e] = out] \/ inbox' = inbox
  BY OldestSelects DEF Pull
<1>2. out \in SUBSET Rows /\ \A m \in out : status[m] = "pending" /\ mode[m] = "poll" /\ m \notin Expired("poll")
  BY Selected
<1>3. /\ RowType' /\ Ledger' /\ Rows' = Rows
      /\ \A m \in Msg : status'[m] = "delivered" => status[m] = "delivered"
      /\ \A m \in Msg \ (Expired("poll") \cup out) :
            status'[m] = status[m] /\ retries'[m] = retries[m] /\ sent'[m] = sent[m]
  BY <1>1, <1>2, Selected, RetryStep
<1>4. UNCHANGED <<fixed, push, acks, got>>
  BY DEF Pull
<1> HIDE DEF mine
<1>5. inbox' \in [Edge -> SUBSET Rows]
  BY <1>1, <1>2 DEF IInv, TypeOK
<1>6. TypeOK'
  BY <1>3, <1>4, <1>5 DEF IInv, TypeOK, RowType, fixed, push
<1>7. InFlight'
  <2> SUFFICES ASSUME NEW m \in flight
               PROVE  /\ mode[m] = "push" /\ sent'[m] = retries'[m] + 1
                      /\ status'[m] = "sending" \/ (WebhookAcks /\ status'[m] = "delivered")
    BY <1>4 DEF InFlight, fixed, push
  <2>1. m \in Msg /\ mode[m] = "push" /\ m \notin Expired("poll") \cup out
    BY <1>2, Selected DEF IInv, InFlight, TypeOK, Rows
  <2> QED
    BY <2>1, <1>3 DEF IInv, InFlight
<1>8. Heard' /\ NoPhantomDelivery'
  BY <1>3, <1>4 DEF IInv, Heard, NoPhantomDelivery, Group, fixed, push
<1>9. Acked'
  BY <1>1, <1>2, <1>4 DEF IInv, TypeOK, Acked, fixed, push
<1> QED
  BY <1>3, <1>6, <1>7, <1>8, <1>9 DEF IInv

\* What an edge or the network does changes no row.
LEMMA NetIInv ==
    ASSUME IInv, NEW e \in Edge, NEW m \in Msg, Execute(e, m) \/ EdgeDrops(e) \/ LoseAck(m)
    PROVE  IInv'
<1>1. UNCHANGED <<fixed, row, push>>
  BY DEF Execute, EdgeDrops, LoseAck
<1>2. /\ inbox' \in [Edge -> SUBSET Rows]
      /\ \A d \in Edge : inbox'[d] \subseteq inbox[d]
      /\ got \subseteq got' /\ got' \subseteq Rows
      /\ acks' \subseteq Rows
      /\ \A k \in acks' : k \in got' /\ (mode[k] = "poll" \/ WebhookAcks)
  <2>1. CASE Execute(e, m)
    <3>1. m \in Rows /\ mode[m] = "poll"
      BY <2>1 DEF Execute, IInv, TypeOK, Acked
    <3> QED
      BY <2>1, <3>1 DEF Execute, IInv, TypeOK, Acked
  <2>2. CASE EdgeDrops(e)
    BY <2>2 DEF EdgeDrops, IInv, TypeOK, Acked
  <2>3. CASE LoseAck(m)
    BY <2>3 DEF LoseAck, IInv, TypeOK, Acked
  <2> QED
    BY <2>1, <2>2, <2>3
<1>3. TypeOK'
  BY <1>1, <1>2 DEF IInv, TypeOK, Rows, fixed, row, push
<1>4. Ledger' /\ InFlight' /\ Heard' /\ NoPhantomDelivery'
  BY <1>1, <1>2 DEF IInv, TypeOK, Ledger, LedgerOf, InFlight, Heard, NoPhantomDelivery, Group, fixed, row, push
<1>5. Acked'
  BY <1>1, <1>2 DEF IInv, TypeOK, Acked, fixed, push
<1> QED
  BY <1>3, <1>4, <1>5 DEF IInv

\* An acknowledgement that arrives stands for an execution.
LEMMA AckIInv ==
    ASSUME IInv, NEW m \in Msg, Ack(m) PROVE IInv'
<1>1. /\ m \in Rows /\ m \in got /\ (mode[m] = "poll" \/ WebhookAcks)
      /\ Deliver({m}) /\ acks' = acks \ {m} /\ UNCHANGED <<fixed, push, inbox, got>>
  BY DEF Ack, IInv, TypeOK, Acked
<1>2. /\ RowType' /\ Ledger' /\ Rows' = Rows
      /\ \A k \in Msg : k \notin {m} => status'[k] = status[k]
      /\ \A k \in {m} : status'[k] = "delivered"
  BY <1>1, DeliverStep
<1>3. TypeOK'
  BY <1>1, <1>2 DEF IInv, TypeOK, RowType, fixed, push
<1>4. InFlight'
  BY <1>1, <1>2 DEF IInv, TypeOK, InFlight, Rows, Deliver, fixed, push
<1>5. Heard' /\ Acked' /\ NoPhantomDelivery'
  BY <1>1, <1>2 DEF IInv, Heard, Acked, NoPhantomDelivery, Group, fixed, push
<1> QED
  BY <1>2, <1>3, <1>4, <1>5 DEF IInv

\* flush_once starts when no other flush is under way, and what it claims is in flight.
LEMMA FlushIInv ==
    ASSUME IInv, FlushStarts PROVE IInv'
<1>1. flight' \in SUBSET Eligible("push") /\ RetryAndClaim(Expired("push"), flight')
  BY OldestSelects DEF FlushStarts
<1>2. PICK out \in SUBSET Eligible("push") : flight' = out
  BY <1>1
<1>3. out \in SUBSET Rows /\ \A m \in out : status[m] = "pending" /\ mode[m] = "push" /\ m \notin Expired("push")
  BY Selected
<1>4. /\ RowType' /\ Ledger' /\ Rows' = Rows
      /\ \A m \in Msg : status'[m] = "delivered" => status[m] = "delivered"
      /\ \A m \in out : status'[m] = "sending" /\ sent'[m] = retries'[m] + 1
  BY <1>1, <1>2, <1>3, Selected, RetryStep
<1>5. UNCHANGED <<fixed, posting, heard, wire, net>> /\ flight = {}
  BY DEF FlushStarts
<1>6. TypeOK'
  BY <1>2, <1>3, <1>4, <1>5 DEF IInv, TypeOK, RowType, fixed, net
<1>7. InFlight'
  BY <1>2, <1>3, <1>4, <1>5 DEF InFlight, fixed
<1>8. Heard'
  BY <1>5 DEF IInv, Heard, Group
<1>9. Acked' /\ NoPhantomDelivery'
  BY <1>4, <1>5 DEF IInv, Acked, NoPhantomDelivery, fixed, net
<1> QED
  BY <1>4, <1>6, <1>7, <1>8, <1>9 DEF IInv

\* A group that is posted is on its way to its edge, or nowhere.
LEMMA PostIInv ==
    ASSUME IInv, NEW e \in Edge, Post(e) PROVE IInv'
<1>1. /\ UNCHANGED <<fixed, row, flight, net>>
      /\ posting' = e /\ posting' # None /\ Group(e) # {}
      /\ \/ heard' = "out" /\ wire' = [wire EXCEPT ![e] = @ \cup Group(e)]
         \/ heard' = "lost" /\ wire' = wire
  BY OutboxAssumption DEF Post
<1>2. \A m \in Group(e) : m \in Rows /\ mode[m] = "push"
  BY DEF Group, IInv, TypeOK, InFlight
<1>3. TypeOK'
  BY <1>1, <1>2 DEF IInv, TypeOK, Rows, fixed, row, net
<1>4. Ledger' /\ InFlight' /\ NoPhantomDelivery'
  BY <1>1 DEF IInv, Ledger, LedgerOf, InFlight, NoPhantomDelivery, fixed, row, net
<1>5. Heard'
  <2>1. Group(e)' = Group(e)
    BY <1>1 DEF Group, fixed
  <2> QED
    BY <1>1, <2>1 DEF Heard, IInv, TypeOK
<1>6. Acked'
  BY <1>1, <1>2 DEF IInv, TypeOK, Acked, fixed, net
<1> QED
  BY <1>3, <1>4, <1>5, <1>6 DEF IInv

\* What the webhook takes has reached the edge, the posted group included.
LEMMA WebhookIInv ==
    ASSUME IInv, NEW e \in Edge, WebhookTakes(e) PROVE IInv'
<1>1. /\ UNCHANGED <<fixed, row, flight, posting, inbox>>
      /\ wire' = [wire EXCEPT ![e] = {}] /\ got' = got \cup wire[e]
      /\ acks' = IF WebhookAcks THEN acks \cup wire[e] ELSE acks
      /\ heard' = IF posting = e /\ heard = "out" THEN "heard" ELSE heard
  BY DEF WebhookTakes
<1>2. wire[e] \subseteq Rows
  BY DEF IInv, TypeOK
<1>3. TypeOK'
  BY <1>1, <1>2 DEF IInv, TypeOK, Rows, fixed, row
<1>4. Ledger' /\ InFlight' /\ NoPhantomDelivery'
  BY <1>1 DEF IInv, Ledger, LedgerOf, InFlight, NoPhantomDelivery, fixed, row
<1>5. Heard'
  <2>1. Group(posting)' = Group(posting)
    BY <1>1 DEF Group, fixed
  <2>2. CASE posting = e
    BY <1>1, <2>1, <2>2 DEF IInv, TypeOK, Heard
  <2>3. CASE posting # e
    BY <1>1, <2>1, <2>3 DEF IInv, TypeOK, Heard
  <2> QED
    BY <2>2, <2>3
<1>6. Acked'
  <2>1. \A d \in Edge : wire'[d] \subseteq wire[d]
    BY <1>1 DEF IInv, TypeOK
  <2>2. \A m \in acks' : m \in got' /\ (mode[m] = "poll" \/ WebhookAcks)
    BY <1>1 DEF IInv, Acked
  <2> QED
    BY <1>1, <2>1, <2>2 DEF IInv, Acked, fixed
<1> QED
  BY <1>3, <1>4, <1>5, <1>6 DEF IInv

\* A POST that is answered leaves the other groups in flight.
LEMMA AnsweredRest ==
    ASSUME IInv, Answered
    PROVE  /\ flight' \subseteq flight /\ \A m \in flight' : m \notin Group(posting)
           /\ posting' = None /\ heard' = "lost" /\ UNCHANGED <<fixed, wire, net>>
BY DEF Answered

\* An accepted batch has reached its edge.
LEMMA AcceptedIInv ==
    ASSUME IInv, PostAccepted PROVE IInv'
<1>1. Group(posting) \in SUBSET Rows /\ Group(posting) \subseteq got
  BY DEF PostAccepted, Group, IInv, TypeOK, Heard
<1>2. /\ RowType' /\ Ledger' /\ Rows' = Rows
      /\ \A m \in Msg : m \notin Group(posting) => status'[m] = status[m]
      /\ \A m \in Group(posting) : status'[m] = "delivered"
  BY <1>1, DeliverStep DEF PostAccepted
<1>3. UNCHANGED <<retries, sent>>
  BY DEF PostAccepted, Deliver
<1>4. /\ flight' \subseteq flight /\ \A m \in flight' : m \notin Group(posting)
      /\ posting' = None /\ heard' = "lost" /\ UNCHANGED <<fixed, wire, net>>
  BY AnsweredRest DEF PostAccepted
<1>5. TypeOK'
  BY <1>2, <1>4 DEF IInv, TypeOK, RowType, fixed, net
<1>6. InFlight'
  BY <1>2, <1>3, <1>4 DEF IInv, TypeOK, InFlight, Rows, fixed
<1>7. Heard' /\ Acked'
  BY <1>4 DEF IInv, Heard, Acked, fixed, net
<1>8. NoPhantomDelivery'
  BY <1>1, <1>2, <1>4 DEF IInv, NoPhantomDelivery, net
<1> QED
  BY <1>2, <1>5, <1>6, <1>7, <1>8 DEF IInv

\* A failed POST is counted once for each row of its group.
LEMMA FailsIInv ==
    ASSUME IInv, PostFails PROVE IInv'
<1>1. /\ Group(posting) \in SUBSET Rows
      /\ \A m \in Group(posting) : sent[m] = retries[m] + 1
  BY DEF Group, IInv, TypeOK, InFlight
<1>2. /\ RowType' /\ Ledger' /\ Rows' = Rows
      /\ \A m \in Msg : status'[m] = "delivered" => status[m] = "delivered"
      /\ \A m \in Msg \ (Group(posting) \cup {}) :
            status'[m] = status[m] /\ retries'[m] = retries[m] /\ sent'[m] = sent[m]
  BY <1>1, RetryStep DEF PostFails
<1>3. /\ flight' \subseteq flight /\ \A m \in flight' : m \notin Group(posting)
      /\ posting' = None /\ heard' = "lost" /\ UNCHANGED <<fixed, wire, net>>
  BY AnsweredRest DEF PostFails
<1>4. TypeOK'
  BY <1>2, <1>3 DEF IInv, TypeOK, RowType, fixed, net
<1>5. InFlight'
  BY <1>2, <1>3 DEF IInv, TypeOK, InFlight, Rows, fixed
<1>6. Heard' /\ Acked'
  BY <1>3 DEF IInv, Heard, Acked, fixed, net
<1>7. NoPhantomDelivery'
  BY <1>2, <1>3 DEF IInv, NoPhantomDelivery, net
<1> QED
  BY <1>2, <1>4, <1>5, <1>6, <1>7 DEF IInv

\* A crash forgets the flush, not the rows.
LEMMA CrashIInv ==
    ASSUME IInv, Crash PROVE IInv'
<1>1. /\ flight' = {} /\ posting' = None /\ heard' = "lost"
      /\ UNCHANGED <<fixed, row, wire, net>>
  BY DEF Crash
<1> QED
  BY <1>1 DEF IInv, TypeOK, Ledger, LedgerOf, InFlight, Heard, Acked, NoPhantomDelivery,
              Rows, fixed, row, net

\* Every step keeps the invariant.
LEMMA NextIInv == IInv /\ [Next]_vars => IInv'
<1> SUFFICES ASSUME IInv, [Next]_vars PROVE IInv'
  OBVIOUS
<1>1. ASSUME NEW m \in Msg, Enqueue(m) PROVE IInv'
  BY <1>1, EnqueueIInv
<1>2. ASSUME NEW m \in Msg, BackoffEnds(m) \/ AckTimesOut(m) PROVE IInv'
  BY <1>2, TimeIInv
<1>3. ASSUME NEW m \in Msg, Ack(m) PROVE IInv'
  BY <1>3, AckIInv
<1>4. ASSUME NEW m \in Msg, LoseAck(m) PROVE IInv'
  <2>1. PICK e \in Edge : TRUE
    BY <1>4 DEF IInv, TypeOK
  <2> QED
    BY <1>4, <2>1, NetIInv
<1>5. ASSUME NEW e \in Edge, Pull(e) PROVE IInv'
  BY <1>5, PullIInv
<1>6. ASSUME NEW e \in Edge, EdgeDrops(e) PROVE IInv'
  <2>1. PICK m \in Msg : TRUE
    BY <1>6 DEF EdgeDrops, IInv, TypeOK, Rows
  <2> QED
    BY <1>6, <2>1, NetIInv
<1>7. ASSUME NEW e \in Edge, Post(e) PROVE IInv'
  BY <1>7, PostIInv
<1>8. ASSUME NEW e \in Edge, WebhookTakes(e) PROVE IInv'
  BY <1>8, WebhookIInv
<1>9. ASSUME NEW e \in Edge, NEW m \in Msg, Execute(e, m) PROVE IInv'
  BY <1>9, NetIInv
<1>10. CASE FlushStarts
  BY <1>10, FlushIInv
<1>11. CASE PostAccepted
  BY <1>11, AcceptedIInv
<1>12. CASE PostFails
  BY <1>12, FailsIInv
<1>13. CASE Crash
  BY <1>13, CrashIInv
<1>14. CASE UNCHANGED vars
  BY <1>14 DEF vars, IInv, TypeOK, Ledger, LedgerOf, InFlight, Heard, Acked, NoPhantomDelivery, Rows, Group
<1> QED
  BY <1>1, <1>2, <1>3, <1>4, <1>5, <1>6, <1>7, <1>8, <1>9, <1>10, <1>11, <1>12, <1>13, <1>14 DEF Next

\* The invariant holds in every reachable state.
THEOREM OutboxInvariant == Spec => []IInv
BY InitIInv, NextIInv, PTL DEF Spec

\* Every variable of the outbox keeps its type; no counter leaves its bounds.
THEOREM OutboxTypes == Spec => []TypeOK
BY OutboxInvariant, PTL DEF IInv

\* No row is marked delivered before its edge has executed it.
THEOREM DeliveredIsExecuted == Spec => []NoPhantomDelivery
BY OutboxInvariant, PTL DEF IInv

\* A row is handed over at most max_retries + 1 times, and given up only after
\* that many, however crashes, time-outs and late acknowledgements interleave.
THEOREM BudgetKept == Spec => []RetryBudget
<1>1. IInv => RetryBudget
  BY OutboxAssumption DEF IInv, TypeOK, Ledger, LedgerOf, RetryBudget
<1> QED
  BY <1>1, OutboxInvariant, PTL

----------------------------------------------------------------------------
(* The outbox keeps its promise, where an edge that is pushed to answers the *)
(* POST and does not acknowledge by itself as well.                          *)

OneAnswer == WebhookAcks => "push" \notin Modes

\* A row in flight is being sent, and has not been acknowledged.
LEMMA FlightSending ==
    ASSUME IInv, OneAnswer PROVE \A m \in flight : status[m] = "sending"
BY DEF IInv, InFlight, OneAnswer, TypeOK, Rows

\* Rows given back by a failure were owed, and are owed or written off.
LEMMA RetryImplements ==
    ASSUME IInv, NEW back \in SUBSET Rows, NEW out \in SUBSET Rows,
           \A m \in back : status[m] = "sending",
           \A m \in out : status[m] = "pending" /\ m \notin back,
           RetryAndClaim(back, out), UNCHANGED got
    PROVE  C!Next
<1> DEFINE lost == {m \in back : Exhausted(m)}
<1>1. lost \in SUBSET Msg /\ \A m \in lost : Phase(status[m]) = "owed"
  BY DEF Rows, Phase
<1>2. ASSUME NEW m \in Msg
      PROVE  Phase(status[m])' = IF m \in lost THEN "written_off" ELSE Phase(status[m])
  <2>1. CASE m \in lost
    <3>1. status'[m] = "failed"
      BY <2>1 DEF RetryAndClaim
    <3> QED
      BY <2>1, <3>1 DEF Phase
  <2>2. CASE m \in back \ lost
    <3>1. status[m] = "sending" /\ status'[m] = "pending"
      BY <2>2 DEF RetryAndClaim
    <3> QED
      BY <2>2, <3>1 DEF Phase
  <2>3. CASE m \in out
    <3>1. status[m] = "pending" /\ status'[m] = "sending" /\ m \notin lost
      BY <2>3 DEF RetryAndClaim
    <3> QED
      BY <3>1 DEF Phase
  <2>4. CASE m \notin back \cup out
    <3>1. status'[m] = status[m] /\ m \notin lost
      BY <2>4 DEF RetryAndClaim
    <3> QED
      BY <3>1
  <2> QED
    BY <2>1, <2>2, <2>3, <2>4
<1>3. C!WriteOff(lost)
  BY <1>1, <1>2 DEF C!WriteOff
<1> QED
  BY <1>1, <1>3 DEF C!Next

\* A row that is acknowledged after its edge has executed it is acknowledged.
LEMMA DeliverImplements ==
    ASSUME NEW S \in SUBSET Msg, S \subseteq got, Deliver(S), UNCHANGED got
    PROVE  C!Next
<1>1. ASSUME NEW m \in Msg
      PROVE  Phase(status[m])' = IF m \in S THEN "acknowledged" ELSE Phase(status[m])
  <2>1. CASE m \in S
    <3>1. status'[m] = "delivered"
      BY <2>1 DEF Deliver
    <3> QED
      BY <2>1, <3>1 DEF Phase
  <2>2. CASE m \notin S
    <3>1. status'[m] = status[m]
      BY <2>2 DEF Deliver
    <3> QED
      BY <2>2, <3>1
  <2> QED
    BY <2>1, <2>2
<1>2. C!Acknowledge(S)
  BY <1>1 DEF C!Acknowledge
<1> QED
  BY <1>2 DEF C!Next

\* A copy that arrives is of a row that was accepted.
LEMMA ReachImplements ==
    ASSUME IInv, NEW S \in SUBSET Rows, got' = got \cup S, UNCHANGED status
    PROVE  C!Next
<1>1. S \in SUBSET Msg /\ \A m \in S : Phase(status[m]) # "new"
  BY DEF Rows, Phase, IInv, TypeOK
<1>2. C!Reach(S)
  BY <1>1 DEF C!Reach
<1> QED
  BY <1>1, <1>2 DEF C!Next

\* Every step of the outbox is a step of Courier or none.
LEMMA StepImplements ==
    ASSUME IInv, OneAnswer, [Next]_vars PROVE [C!Next]_C!vars
<1> USE DEF C!vars
<1>1. ASSUME NEW m \in Msg, Enqueue(m) PROVE C!Next
  <2>1. Phase(status[m]) = "new" /\ UNCHANGED got
    BY <1>1 DEF Enqueue, Phase, net
  <2>2. ASSUME NEW k \in Msg
        PROVE  Phase(status[k])' = IF k = m THEN "owed" ELSE Phase(status[k])
    BY <1>1 DEF Enqueue, Phase, IInv, TypeOK
  <2>3. C!Accept(m)
    BY <2>1, <2>2 DEF C!Accept
  <2> QED
    BY <2>3 DEF C!Next
<1>2. ASSUME NEW m \in Msg, BackoffEnds(m) \/ AckTimesOut(m) \/ LoseAck(m) PROVE UNCHANGED C!vars
  BY <1>2 DEF BackoffEnds, AckTimesOut, LoseAck, net, row
<1>3. ASSUME NEW m \in Msg, Ack(m) PROVE C!Next
  <2>1. {m} \subseteq got /\ Deliver({m}) /\ UNCHANGED got
    BY <1>3 DEF Ack, IInv, Acked
  <2> QED
    BY <2>1, DeliverImplements
<1>4. ASSUME NEW e \in Edge, Pull(e) PROVE C!Next
  <2>1. PICK out \in SUBSET {m \in Eligible("poll") : edge[m] = e} : RetryAndClaim(Expired("poll"), out)
    BY <1>4, OldestSelects DEF Pull
  <2>2. UNCHANGED got
    BY <1>4 DEF Pull
  <2> QED
    BY <2>1, <2>2, Selected, RetryImplements
<1>5. ASSUME NEW e \in Edge, EdgeDrops(e) \/ Post(e) PROVE UNCHANGED C!vars
  BY <1>5 DEF EdgeDrops, Post, row, net
<1>6. ASSUME NEW e \in Edge, WebhookTakes(e) PROVE C!Next
  <2>1. wire[e] \in SUBSET Rows /\ got' = got \cup wire[e] /\ UNCHANGED status
    BY <1>6 DEF WebhookTakes, IInv, TypeOK, row
  <2> QED
    BY <2>1, ReachImplements
<1>7. ASSUME NEW e \in Edge, NEW m \in Msg, Execute(e, m) PROVE C!Next
  <2>1. {m} \in SUBSET Rows /\ got' = got \cup {m} /\ UNCHANGED status
    BY <1>7 DEF Execute, IInv, TypeOK, row
  <2> QED
    BY <2>1, ReachImplements
<1>8. CASE FlushStarts
  <2>1. PICK out \in SUBSET Eligible("push") : RetryAndClaim(Expired("push"), out)
    BY <1>8, OldestSelects DEF FlushStarts
  <2>2. UNCHANGED got
    BY <1>8 DEF FlushStarts, net
  <2> QED
    BY <2>1, <2>2, Selected, RetryImplements
<1>9. CASE PostAccepted
  <2>1. Group(posting) \in SUBSET Msg /\ Group(posting) \subseteq got
    BY <1>9 DEF PostAccepted, Group, IInv, TypeOK, Heard, Rows
  <2> QED
    BY <1>9, <2>1, DeliverImplements DEF PostAccepted, Answered, net
<1>10. CASE PostFails
  <2>1. Group(posting) \in SUBSET Rows /\ \A m \in Group(posting) : status[m] = "sending"
    BY FlightSending DEF Group, IInv, TypeOK
  <2> QED
    BY <1>10, <2>1, RetryImplements DEF PostFails, Answered, net
<1>11. CASE Crash
  BY <1>11 DEF Crash, row, net
<1>12. CASE UNCHANGED vars
  BY <1>12 DEF vars
<1> QED
  BY <1>1, <1>2, <1>3, <1>4, <1>5, <1>6, <1>7, <1>8, <1>9, <1>10, <1>11, <1>12 DEF Next

\* The empty outbox owes nothing.
LEMMA InitImplements == Init => C!Init
BY DEF Init, C!Init, Phase

\* Where a webhook does not acknowledge by itself, the outbox keeps the promise
\* of Courier for any messages, edges, limits, losses and crashes.
THEOREM KeepsThePromise == ASSUME OneAnswer PROVE Spec => Implements
<1>1. IInv /\ [Next]_vars => [C!Next]_C!vars
  BY StepImplements
<1> QED
  BY <1>1, InitImplements, OutboxInvariant, PTL DEF Spec, Implements, C!Spec

=============================================================================
