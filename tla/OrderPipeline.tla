---------------------------- MODULE OrderPipeline ----------------------------
(***************************************************************************)
(* The life of an order through the three event-driven services and the    *)
(* two stores between them:                                                *)
(*                                                                         *)
(*   POST /orders -> orders, outbox (PostgreSQL) -> dispatcher ->          *)
(*   orders.created (JetStream) -> pricing worker -> price.* (JetStream)   *)
(*   -> settlement worker -> orders, settlements, order_activity.          *)
(*                                                                         *)
(* Delivery is at least once at every hop.  A step is one transaction, one *)
(* request to JetStream or one price lookup.  `faults' counts crashes,     *)
(* lost replies, failed requests and premature redeliveries; MaxFaults     *)
(* bounds them.                                                            *)
(*                                                                         *)
(* Orders are numbered in the order of their outbox event identifiers      *)
(* (random UUIDs), the order in which the dispatcher takes them; they may  *)
(* be created in any order.                                                *)
(***************************************************************************)
EXTENDS Integers, Sequences

CONSTANTS Orders,             \* order identifiers, in outbox order
          Copies,             \* 0: the event of the outbox; others: events a
                              \* producer republishes under a fresh event ID
          Prices, Codes,      \* what a price lookup can return
          None,               \* SQL NULL
          Dispatchers, Pricers, Settlers, \* a worker per pod of each service
          MaxFaults           \* bound on faults

ASSUME OrdersAssumption == Orders \subseteq Nat
ASSUME CopiesAssumption == Copies \subseteq Nat /\ 0 \in Copies
ASSUME ValuesAssumption == Prices \cap Codes = {} /\ None \notin Prices \cup Codes

VARIABLES
  status, code,   \* table orders: columns status and error_code
  settlement,     \* table settlements, keyed by order: the price, or None
  activity,       \* table order_activity
  outbox,         \* table outbox: published_at NULL is "pending"
  created,        \* stream ORDERS filtered by orders.created
  priced,         \* stream ORDERS filtered by price.*
  delivered,      \* per durable consumer: last sequence delivered
  ackState,       \* ... and what became of it (MaxAckPending is 1)
  dispatcher, pricer, settler,  \* local state of the workers
  faults

tables    == <<status, code, settlement, activity, outbox>>
streams   == <<created, priced>>
consumers == <<delivered, ackState>>
workers   == <<dispatcher, pricer, settler>>
vars      == <<tables, streams, consumers, workers, faults>>

Events   == [order : Orders, copy : Copies]
Values   == Prices \cup Codes
Messages == [event : Events, value : Values]
Durables == {"pricing", "settlement"}

Statuses == {"PENDING", "PRICE_RESOLVED", "SETTLED", "FAILED"}
Terminal == {"SETTLED", "FAILED"}
Kinds    == {"PENDING", "PRICE_RESOLVED", "PRICE_FAILED",
             "DUPLICATE_IGNORED", "SETTLED"}

(* The row of order_activity for event e: stage tells the row keyed by the *)
(* event's own ID from those keyed ID:price and ID:price:settled.          *)
Row(e, stage, kind) == [event |-> e, stage |-> stage, kind |-> kind]
ActivityRows == [event : Events, stage : {"created", "price", "settled"}, kind : Kinds]

IdleDispatcher == [pc |-> "idle", order |-> None]
IdlePricer     == [pc |-> "idle", seq |-> 0, value |-> None]
IdleSettler    == [pc |-> "idle", seq |-> 0, read |-> "none"]

TypeOK ==
  /\ status \in [Orders -> Statuses \cup {"none"}]
  /\ code \in [Orders -> Codes \cup {None}]
  /\ settlement \in [Orders -> Prices \cup {None}]
  /\ activity \subseteq ActivityRows
  /\ outbox \in [Orders -> {"none", "pending", "published"}]
  /\ created \in Seq(Events)
  /\ priced \in Seq(Messages)
  /\ delivered \in [Durables -> Nat]
  /\ ackState \in [Durables -> {"acked", "waiting", "due"}]
  /\ dispatcher \in [Dispatchers -> [pc : {"idle", "selected", "published"},
                                     order : Orders \cup {None}]]
  /\ pricer \in [Pricers -> [pc : {"idle", "lookup", "publish", "ack", "stuck"},
                             seq : Nat, value : Values \cup {None}]]
  /\ settler \in [Settlers -> [pc : {"idle", "begin", "locked", "ack", "stuck"},
                               seq : Nat, read : Statuses \cup {"none"}]]
  /\ faults \in Nat

Init ==
  /\ status = [o \in Orders |-> "none"]
  /\ code = [o \in Orders |-> None]
  /\ settlement = [o \in Orders |-> None]
  /\ activity = {}
  /\ outbox = [o \in Orders |-> "none"]
  /\ created = <<>>
  /\ priced = <<>>
  /\ delivered = [c \in Durables |-> 0]
  /\ ackState = [c \in Durables |-> "acked"]
  /\ dispatcher = [d \in Dispatchers |-> IdleDispatcher]
  /\ pricer = [w \in Pricers |-> IdlePricer]
  /\ settler = [w \in Settlers |-> IdleSettler]
  /\ faults = 0

Fault == faults < MaxFaults /\ faults' = faults + 1
-----------------------------------------------------------------------------
(* Orders service: POST /orders.  The three rows of a new order are one    *)
(* transaction.  A request that fails before its commit changes nothing;   *)
(* one whose commit succeeds but whose answer is lost is a Create.         *)
OutboxEvent(o) == [order |-> o, copy |-> 0]

(* Mutant of Create: the outbox row is committed without the order.        *)
CreateWithoutOrder(o) ==
  /\ outbox[o] = "none"
  /\ outbox' = [outbox EXCEPT ![o] = "pending"]
  /\ UNCHANGED <<status, code, settlement, activity, streams, consumers, workers, faults>>

Create(o) ==
  /\ status[o] = "none"
  /\ status' = [status EXCEPT ![o] = "PENDING"]
  /\ outbox' = [outbox EXCEPT ![o] = "pending"]
  /\ activity' = activity \cup {Row(OutboxEvent(o), "created", "PENDING")}
  /\ UNCHANGED <<code, settlement, streams, consumers, workers, faults>>
-----------------------------------------------------------------------------
(* JetStream.  A publish is deduplicated by event ID while the two-minute  *)
(* window lasts; later (or never, for an ID not seen) it is stored again.  *)
Stored(log, IDs, id, entry, log1) ==
  \/ log1 = Append(log, entry)
  \/ id \in IDs /\ log1 = log

CreatedIDs == {created[i] : i \in DOMAIN created}
PricedIDs  == {priced[i].event : i \in DOMAIN priced}

PublishCreated(e) == Stored(created, CreatedIDs, e, e, created')
PublishPriced(m)  == Stored(priced, PricedIDs, m.event, m, priced')

LogLen(c) == IF c = "pricing" THEN Len(created) ELSE Len(priced)

(* Mutant of Deliver: more than one message may be unacknowledged.         *)
DeliverUnlimited(c, i) ==
  /\ \/ i = delivered[c] + 1 /\ i <= LogLen(c)
     \/ ackState[c] = "due" /\ i = delivered[c]
  /\ delivered' = [delivered EXCEPT ![c] = i]
  /\ ackState' = [ackState EXCEPT ![c] = "waiting"]

(* With MaxAckPending 1 a consumer is given the next message only when the *)
(* last one is acknowledged, or the last one again when it is due.         *)
Deliver(c, i) ==
  /\ \/ ackState[c] = "acked" /\ i = delivered[c] + 1 /\ i <= LogLen(c)
     \/ ackState[c] = "due" /\ i = delivered[c]
  /\ delivered' = [delivered EXCEPT ![c] = i]
  /\ ackState' = [ackState EXCEPT ![c] = "waiting"]

Ack(c, i) ==
  /\ ackState' = IF i = delivered[c] THEN [ackState EXCEPT ![c] = "acked"]
                                     ELSE ackState
  /\ UNCHANGED delivered

(* Mutant of Nak: Consume acknowledges whatever the handler returned.      *)
AckAnyway(c, i) == Ack(c, i)

Nak(c, i) ==
  /\ ackState' = IF i = delivered[c] /\ ackState[c] = "waiting"
                 THEN [ackState EXCEPT ![c] = "due"] ELSE ackState
  /\ UNCHANGED delivered

Handled(c) ==
  \/ c = "pricing" /\ \E w \in Pricers :
        pricer[w].pc \notin {"idle", "stuck"} /\ pricer[w].seq = delivered[c]
  \/ c = "settlement" /\ \E w \in Settlers :
        settler[w].pc \notin {"idle", "stuck"} /\ settler[w].seq = delivered[c]

AckWait(c) ==
  /\ ackState[c] = "waiting"
  /\ ackState' = [ackState EXCEPT ![c] = "due"]
  /\ UNCHANGED <<tables, streams, delivered, workers>>

(* AckWait runs out on a message no worker handles any more, ...           *)
AckWaitElapses(c) == ~Handled(c) /\ AckWait(c) /\ UNCHANGED faults

(* ... or on one whose worker is only slow.                                *)
AckWaitOvertakes(c) == Handled(c) /\ AckWait(c) /\ Fault

(* A producer outside the services publishes the event of an existing      *)
(* order again under a fresh event ID.                                     *)
DuplicateCreated(e) ==
  /\ e.copy # 0 /\ e \notin CreatedIDs
  /\ status[e.order] # "none"
  /\ created' = Append(created, e)
  /\ UNCHANGED <<tables, priced, consumers, workers, faults>>
-----------------------------------------------------------------------------
(* Orders service: the outbox dispatcher.  The row it selects stays locked *)
(* until the transaction ends; other dispatchers skip it.                  *)
Selectable(o) ==
  /\ outbox[o] = "pending"
  /\ \A d \in Dispatchers : dispatcher[d].order # o

(* Mutant of DSelect: the row is marked published before the publish.      *)
MarkThenPublish(d) ==
  /\ dispatcher[d].pc = "idle"
  /\ \E o \in Orders :
       /\ Selectable(o)
       /\ dispatcher' = [dispatcher EXCEPT ![d] = [pc |-> "selected", order |-> o]]
       /\ outbox' = [outbox EXCEPT ![o] = "published"]
  /\ UNCHANGED <<status, code, settlement, activity, streams, consumers,
                 pricer, settler, faults>>

DSelect(d) ==
  /\ dispatcher[d].pc = "idle"
  /\ \E o \in Orders :
       /\ Selectable(o)
       /\ \A q \in Orders : Selectable(q) => o <= q
       /\ dispatcher' = [dispatcher EXCEPT ![d] = [pc |-> "selected", order |-> o]]
  /\ UNCHANGED <<tables, streams, consumers, pricer, settler, faults>>

DPublish(d) ==
  /\ dispatcher[d].pc = "selected"
  /\ PublishCreated(OutboxEvent(dispatcher[d].order))
  /\ dispatcher' = [dispatcher EXCEPT ![d].pc = "published"]
  /\ UNCHANGED <<tables, priced, consumers, pricer, settler, faults>>

DMark(d) ==
  /\ dispatcher[d].pc = "published"
  /\ outbox' = [outbox EXCEPT ![dispatcher[d].order] = "published"]
  /\ dispatcher' = [dispatcher EXCEPT ![d] = IdleDispatcher]
  /\ UNCHANGED <<status, code, settlement, activity, streams, consumers,
                 pricer, settler, faults>>

(* The publish is stored but its confirmation lost: dispatchOne rolls back. *)
DPublishUnconfirmed(d) ==
  /\ dispatcher[d].pc = "selected"
  /\ Fault
  /\ PublishCreated(OutboxEvent(dispatcher[d].order))
  /\ dispatcher' = [dispatcher EXCEPT ![d] = IdleDispatcher]
  /\ UNCHANGED <<tables, priced, consumers, pricer, settler>>

(* The publish is not stored, a statement or the commit fails, the three   *)
(* seconds run out, or the pod dies: the transaction is rolled back.       *)
DAbort(d) ==
  /\ dispatcher[d].pc # "idle"
  /\ Fault
  /\ dispatcher' = [dispatcher EXCEPT ![d] = IdleDispatcher]
  /\ UNCHANGED <<tables, streams, consumers, pricer, settler>>
-----------------------------------------------------------------------------
(* Pricing service: Consume and its handler.                               *)
PFetch(w) ==
  /\ pricer[w].pc = "idle"
  /\ \E i \in DOMAIN created :
       /\ Deliver("pricing", i)
       /\ pricer' = [pricer EXCEPT ![w] = [pc |-> "lookup", seq |-> i, value |-> None]]
  /\ UNCHANGED <<tables, streams, dispatcher, settler, faults>>

(* The lookup always answers: with a price, or with the code of the error  *)
(* that exhausted its attempts.  Two lookups may answer differently.       *)
PLookup(w) ==
  /\ pricer[w].pc = "lookup"
  /\ \E v \in Values :
       pricer' = [pricer EXCEPT ![w] =
                    [pc |-> "publish", seq |-> pricer[w].seq, value |-> v]]
  /\ UNCHANGED <<tables, streams, consumers, dispatcher, settler, faults>>

Quote(w) == [event |-> created[pricer[w].seq], value |-> pricer[w].value]

PPublish(w) ==
  /\ pricer[w].pc = "publish"
  /\ PublishPriced(Quote(w))
  /\ pricer' = [pricer EXCEPT ![w].pc = "ack"]
  /\ UNCHANGED <<tables, created, consumers, dispatcher, settler, faults>>

PAck(w) ==
  /\ pricer[w].pc = "ack"
  /\ Ack("pricing", pricer[w].seq)
  /\ pricer' = [pricer EXCEPT ![w] = IdlePricer]
  /\ UNCHANGED <<tables, streams, dispatcher, settler, faults>>

(* Publish and AckSync wait for the server's answer with the worker's      *)
(* context, which has no deadline.  When the answer is lost, whether or    *)
(* not the request arrived, the loop waits until the pod ends.             *)
PPublishUnanswered(w) ==
  /\ pricer[w].pc = "publish"
  /\ Fault
  /\ PublishPriced(Quote(w)) \/ UNCHANGED priced
  /\ pricer' = [pricer EXCEPT ![w].pc = "stuck"]
  /\ UNCHANGED <<tables, created, consumers, dispatcher, settler>>

PAckUnanswered(w) ==
  /\ pricer[w].pc = "ack"
  /\ Fault
  /\ Ack("pricing", pricer[w].seq) \/ UNCHANGED consumers
  /\ pricer' = [pricer EXCEPT ![w].pc = "stuck"]
  /\ UNCHANGED <<tables, streams, dispatcher, settler>>

(* The quote is not stored: the handler fails and the message is refused.  *)
PFail(w) ==
  /\ pricer[w].pc = "publish"
  /\ Fault
  /\ Nak("pricing", pricer[w].seq)
  /\ pricer' = [pricer EXCEPT ![w] = IdlePricer]
  /\ UNCHANGED <<tables, streams, dispatcher, settler>>

(* The pod dies or shuts down and is replaced, or AckSync fails with an    *)
(* error and the loop goes on: the message stays unacknowledged.           *)
PCrash(w) ==
  /\ pricer[w].pc # "idle"
  /\ Fault
  /\ pricer' = [pricer EXCEPT ![w] = IdlePricer]
  /\ UNCHANGED <<tables, streams, consumers, dispatcher, settler>>
-----------------------------------------------------------------------------
(* Settlement service: Consume and settle.                                 *)
SFetch(w) ==
  /\ settler[w].pc = "idle"
  /\ \E i \in DOMAIN priced :
       /\ Deliver("settlement", i)
       /\ settler' = [settler EXCEPT ![w] = [pc |-> "begin", seq |-> i, read |-> "none"]]
  /\ UNCHANGED <<tables, streams, dispatcher, pricer, faults>>

Message(w) == priced[settler[w].seq]
OrderOf(w) == Message(w).event.order

RowLocked(o) == \E w \in Settlers : settler[w].pc = "locked" /\ OrderOf(w) = o

(* SELECT ... FOR UPDATE.  A missing row is an error: the guard is false   *)
(* and only SFail, the refusal, can follow.                                *)
SLock(w) ==
  /\ settler[w].pc = "begin"
  /\ ~RowLocked(OrderOf(w))
  /\ status[OrderOf(w)] # "none"
  /\ settler' = [settler EXCEPT ![w] =
                   [pc |-> "locked", seq |-> settler[w].seq, read |-> status[OrderOf(w)]]]
  /\ UNCHANGED <<tables, streams, consumers, dispatcher, pricer, faults>>

Recorded(e) == \E a \in activity : a.event = e /\ a.stage = "price"

(* Mutant of KindFor: a duplicate is recorded as if it had an effect.      *)
KindByValue(read, v) == IF v \in Codes THEN "PRICE_FAILED" ELSE "PRICE_RESOLVED"

KindFor(read, v) == IF read \in Terminal THEN "DUPLICATE_IGNORED"
                    ELSE IF v \in Codes THEN "PRICE_FAILED" ELSE "PRICE_RESOLVED"

PriceRow(w) == Row(Message(w).event, "price", KindFor(settler[w].read, Message(w).value))

(* The event was recorded by an earlier delivery: nothing to do.           *)
AlreadyRecorded(w) ==
  /\ Recorded(Message(w).event)
  /\ UNCHANGED <<status, code, settlement, activity>>

(* A new event about an order that is no longer pending: record it only.   *)
RecordOnly(w) ==
  /\ ~Recorded(Message(w).event)
  /\ settler[w].read # "PENDING"
  /\ activity' = activity \cup {PriceRow(w)}
  /\ UNCHANGED <<status, code, settlement>>

FailOrder(w) ==
  /\ ~Recorded(Message(w).event)
  /\ settler[w].read = "PENDING" /\ Message(w).value \in Codes
  /\ activity' = activity \cup {PriceRow(w)}
  /\ status' = [status EXCEPT ![OrderOf(w)] = "FAILED"]
  /\ code' = [code EXCEPT ![OrderOf(w)] = Message(w).value]
  /\ UNCHANGED settlement

(* Mutant of SettleOrder: the status read under the lock is not consulted. *)
SettleAnyOrder(w) ==
  /\ ~Recorded(Message(w).event)
  /\ Message(w).value \notin Codes
  /\ activity' = activity \cup {PriceRow(w)}
  /\ status' = [status EXCEPT ![OrderOf(w)] = "SETTLED"]
  /\ settlement' = [settlement EXCEPT ![OrderOf(w)] = Message(w).value]
  /\ UNCHANGED code

(* Mutant of SettleOrder: the statements commit one by one, and the first  *)
(* three of them have.                                                     *)
SettleHalf(w) ==
  /\ ~Recorded(Message(w).event)
  /\ settler[w].read = "PENDING" /\ Message(w).value \notin Codes
  /\ activity' = activity \cup {PriceRow(w)}
  /\ status' = [status EXCEPT ![OrderOf(w)] = "PRICE_RESOLVED"]
  /\ settlement' = [settlement EXCEPT ![OrderOf(w)] = Message(w).value]
  /\ UNCHANGED code

SettleOrder(w) ==
  /\ ~Recorded(Message(w).event)
  /\ settler[w].read = "PENDING" /\ Message(w).value \notin Codes
  /\ activity' = activity \cup {PriceRow(w), Row(Message(w).event, "settled", "SETTLED")}
  /\ status' = [status EXCEPT ![OrderOf(w)] = "SETTLED"]
  /\ settlement' = [settlement EXCEPT ![OrderOf(w)] =
                      IF @ = None THEN Message(w).value ELSE @]
  /\ UNCHANGED code

Settle(w) ==
  /\ settler[w].pc = "locked"
  /\ AlreadyRecorded(w) \/ RecordOnly(w) \/ FailOrder(w) \/ SettleOrder(w)

SCommit(w) ==
  /\ Settle(w)
  /\ settler' = [settler EXCEPT ![w].pc = "ack"]
  /\ UNCHANGED <<outbox, streams, consumers, dispatcher, pricer, faults>>

(* The commit succeeds but its answer is lost: the message is refused.     *)
SCommitUnconfirmed(w) ==
  /\ Settle(w)
  /\ Fault
  /\ Nak("settlement", settler[w].seq)
  /\ settler' = [settler EXCEPT ![w] = IdleSettler]
  /\ UNCHANGED <<outbox, streams, dispatcher, pricer>>

SAck(w) ==
  /\ settler[w].pc = "ack"
  /\ Ack("settlement", settler[w].seq)
  /\ settler' = [settler EXCEPT ![w] = IdleSettler]
  /\ UNCHANGED <<tables, streams, dispatcher, pricer, faults>>

(* A statement or the commit fails: rollback, and the message is refused.  *)
SFail(w) ==
  /\ settler[w].pc \in {"begin", "locked"}
  /\ Fault
  /\ Nak("settlement", settler[w].seq)
  /\ settler' = [settler EXCEPT ![w] = IdleSettler]
  /\ UNCHANGED <<tables, streams, dispatcher, pricer>>

(* The answer to AckSync is lost: as for the pricing worker.               *)
SAckUnanswered(w) ==
  /\ settler[w].pc = "ack"
  /\ Fault
  /\ Ack("settlement", settler[w].seq) \/ UNCHANGED consumers
  /\ settler' = [settler EXCEPT ![w].pc = "stuck"]
  /\ UNCHANGED <<tables, streams, dispatcher, pricer>>

(* The pod dies or shuts down (rollback) and is replaced, or AckSync fails *)
(* with an error.                                                          *)
SCrash(w) ==
  /\ settler[w].pc # "idle"
  /\ Fault
  /\ settler' = [settler EXCEPT ![w] = IdleSettler]
  /\ UNCHANGED <<tables, streams, consumers, dispatcher, pricer>>
-----------------------------------------------------------------------------
Dispatching(d) == DSelect(d) \/ DPublish(d) \/ DMark(d)
Pricing(w)     == PFetch(w) \/ PLookup(w) \/ PPublish(w) \/ PAck(w)
Settling(w)    == SFetch(w) \/ SLock(w) \/ SCommit(w) \/ SAck(w)

DFault(d) == DPublishUnconfirmed(d) \/ DAbort(d)
PFault(w) == PPublishUnanswered(w) \/ PAckUnanswered(w) \/ PFail(w) \/ PCrash(w)
SFault(w) == SCommitUnconfirmed(w) \/ SAckUnanswered(w) \/ SFail(w) \/ SCrash(w)

Next ==
  \/ \E o \in Orders : Create(o)
  \/ \E e \in Events : DuplicateCreated(e)
  \/ \E d \in Dispatchers : Dispatching(d) \/ DFault(d)
  \/ \E w \in Pricers : Pricing(w) \/ PFault(w)
  \/ \E w \in Settlers : Settling(w) \/ SFault(w)
  \/ \E c \in Durables : AckWaitElapses(c) \/ AckWaitOvertakes(c)

Spec == Init /\ [][Next]_vars

(* Every running worker keeps polling, a worker that is not stuck gets its *)
(* answers, and the server's AckWait timer runs; nothing makes a client    *)
(* create orders, a fault happen or a stuck pod restart.                   *)
Fairness ==
  /\ \A d \in Dispatchers : WF_vars(Dispatching(d))
  /\ \A w \in Pricers : WF_vars(Pricing(w))
  /\ \A w \in Settlers : WF_vars(Settling(w))
  /\ \A c \in Durables : WF_vars(AckWaitElapses(c))

FairSpec == Spec /\ Fairness
-----------------------------------------------------------------------------
(* What GET /orders/{id} shows: the row joined with its settlement.        *)
OrderView(o) == [status |-> status[o], code |-> code[o], price |-> settlement[o]]

Concluded(o) == status[o] \in Terminal

(* A message of the pricing consumer is processed when its quote is in the *)
(* stream, one of the settlement consumer when its event is recorded.      *)
QuotedAt(i)  == created[i] \in PricedIDs
SettledAt(i) == Recorded(priced[i].event)

(* Acknowledged for good: JetStream will not deliver it again.             *)
Acked(c, i) == \/ i < delivered[c]
               \/ i = delivered[c] /\ ackState[c] = "acked"

(* No event of either stream is about an order whose row is not committed: *)
(* settle would refuse such an event for ever, and with MaxAckPending 1    *)
(* every later event behind it would wait (outbox in the order's own       *)
(* transaction, app.go create; "lock order" error of settle).              *)
NoPhantomEvent ==
  /\ \A i \in DOMAIN created : status[created[i].order] # "none"
  /\ \A i \in DOMAIN priced : status[priced[i].event.order] # "none"

(* A message is acknowledged only after its effect is durable, whichever   *)
(* worker acknowledged it and however often it was redelivered (Consume    *)
(* acknowledges after handle returns).                                     *)
AckedIsProcessed ==
  /\ \A i \in DOMAIN created : Acked("pricing", i) => QuotedAt(i)
  /\ \A i \in DOMAIN priced : Acked("settlement", i) =>
        SettledAt(i) /\ Concluded(priced[i].event.order)

(* An order that is still open always has something left in the system     *)
(* that will move it: an unpublished outbox row, or an unacknowledged      *)
(* message of its own in one of the two streams.                           *)
NeverStranded ==
  \A o \in Orders : status[o] \in {"PENDING", "PRICE_RESOLVED"} =>
    \/ outbox[o] = "pending"
    \/ \E i \in DOMAIN created : created[i].order = o /\ ~Acked("pricing", i)
    \/ \E i \in DOMAIN priced : priced[i].event.order = o /\ ~Acked("settlement", i)

(* The view a client reads is always one of: unknown, open, settled with   *)
(* its price and no error, failed with its code and no settlement.  No     *)
(* reader sees PRICE_RESOLVED or half a settlement (one transaction).      *)
ViewConsistent ==
  \A o \in Orders :
    \/ OrderView(o) \in [status : {"none", "PENDING"}, code : {None}, price : {None}]
    \/ OrderView(o) \in [status : {"SETTLED"}, code : {None}, price : Prices]
    \/ OrderView(o) \in [status : {"FAILED"}, code : Codes, price : {None}]

(* Every distinct source event is recorded, but its business effect        *)
(* applied only once (comment in settle): the audit rows of an order hold  *)
(* exactly one effect once it is concluded and none before, it is the one  *)
(* the order's status tells, and a "settled" row belongs to that event.    *)
EffectRows(o) == {a \in activity : /\ a.event.order = o
                                   /\ a.kind \in {"PRICE_RESOLVED", "PRICE_FAILED"}}

AuditMatchesOutcome ==
  \A o \in Orders :
    LET effect == IF status[o] = "SETTLED" THEN "PRICE_RESOLVED" ELSE "PRICE_FAILED"
        settledBy == {a.event : a \in {b \in activity : b.event.order = o /\ b.stage = "settled"}}
    IN IF Concluded(o)
       THEN \E e \in Events :
              /\ EffectRows(o) = {Row(e, "price", effect)}
              /\ settledBy = IF status[o] = "SETTLED" THEN {e} ELSE {}
       ELSE EffectRows(o) = {} /\ settledBy = {}

(* With several quotes of one order in the stream (duplicate events, or    *)
(* one event quoted twice after the deduplication window) the order        *)
(* concludes with the first, although any of the settlement workers may    *)
(* handle any of them at any time (MaxAckPending(1), FOR UPDATE).          *)
FirstQuote(o, i) ==
  /\ priced[i].event.order = o
  /\ \A j \in 1..(i - 1) : priced[j].event.order # o

FirstQuoteWins ==
  \A o \in Orders : Concluded(o) =>
    \E i \in DOMAIN priced :
      /\ FirstQuote(o, i)
      /\ priced[i].value = IF status[o] = "SETTLED" THEN settlement[o] ELSE code[o]

(* The pipeline implements the abstract order book.                        *)
LedgerOf(o) ==
  CASE status[o] = "none"    -> [how |-> "absent",  value |-> None]
    [] status[o] = "SETTLED" -> [how |-> "settled", value |-> settlement[o]]
    [] status[o] = "FAILED"  -> [how |-> "failed",  value |-> code[o]]
    [] OTHER                 -> [how |-> "open",    value |-> None]

Lifecycle == INSTANCE OrderLifecycle WITH ledger <- [o \in Orders |-> LedgerOf(o)]

(* Whatever is redelivered, duplicated or crashes, an accepted order       *)
(* concludes at most once and never changes afterwards.                    *)
ImplementsLifecycle == Lifecycle!Spec

(* Once faults stop, every accepted order is settled or failed, unless all *)
(* workers of a service it still needs wait for an answer that was lost    *)
(* (bus.go, no deadline): settlement's, or pricing's if it has no quote.   *)
(* It holds again from every state in which the order is still open, so a  *)
(* restarted pod takes up what the stuck one left.                         *)
SettlersStuck == \A w \in Settlers : settler[w].pc = "stuck"
PricersStuck  == \A w \in Pricers : pricer[w].pc = "stuck"
Quoted(o)     == \E i \in DOMAIN priced : priced[i].event.order = o

EveryOrderConcludes ==
  \A o \in Orders :
    status[o] = "PENDING" ~>
      Concluded(o) \/ SettlersStuck \/ (PricersStuck /\ ~Quoted(o))
=============================================================================
