------------------------- MODULE OrderPipelineProofs -------------------------
(***************************************************************************)
(* Theorems about OrderPipeline, for any sets of orders, values and        *)
(* workers and any number of faults.                                       *)
(***************************************************************************)
EXTENDS OrderPipeline, TLAPS

-----------------------------------------------------------------------------
(* Type correctness.  TypeOK is not inductive by itself: that an entry put *)
(* in a stream is well typed depends on what the worker remembers since    *)
(* earlier steps.                                                          *)
DispatcherOK == \A d \in Dispatchers :
  dispatcher[d].pc # "idle" => dispatcher[d].order \in Orders

PricerOK == \A w \in Pricers :
  /\ pricer[w].pc # "idle" => pricer[w].seq \in 1..delivered["pricing"]
  /\ pricer[w].pc = "publish" => pricer[w].value \in Values

SettlerOK == \A w \in Settlers :
  settler[w].pc # "idle" => settler[w].seq \in 1..delivered["settlement"]

DeliveredOK ==
  /\ delivered["pricing"] <= Len(created)
  /\ delivered["settlement"] <= Len(priced)

LocalOK == DispatcherOK /\ PricerOK /\ SettlerOK /\ DeliveredOK

TypeInv == TypeOK /\ LocalOK

(* Every operation of a consumer keeps its two variables well typed, and   *)
(* only delivers what is in the stream.                                    *)
LEMMA ConsumerType ==
  ASSUME delivered \in [Durables -> Nat],
         ackState \in [Durables -> {"acked", "waiting", "due"}],
         NEW c \in Durables, NEW i \in Nat,
         Deliver(c, i) \/ Ack(c, i) \/ Nak(c, i) \/ AckWait(c)
  PROVE  /\ delivered' \in [Durables -> Nat]
         /\ ackState' \in [Durables -> {"acked", "waiting", "due"}]
         /\ Deliver(c, i) => delivered' = [delivered EXCEPT ![c] = i] /\ delivered[c] <= i
         /\ ~Deliver(c, i) => delivered' = delivered
BY DEF Deliver, Ack, Nak, AckWait, consumers

(* A publish appends its entry or changes nothing.                         *)
LEMMA StoredGrows ==
  ASSUME NEW S, NEW log \in Seq(S), NEW IDs, NEW id, NEW entry \in S, NEW log1,
         Stored(log, IDs, id, entry, log1)
  PROVE  /\ log1 \in Seq(S)
         /\ Len(log) <= Len(log1)
         /\ \A i \in 1..Len(log) : log1[i] = log[i]
         /\ \/ log1 = log /\ id \in IDs
            \/ Len(log1) = Len(log) + 1 /\ log1[Len(log) + 1] = entry
BY DEF Stored

(* A busy worker handles an entry of its stream.                           *)
LEMMA InStream ==
  ASSUME TypeInv
  PROVE  /\ \A w \in Pricers : pricer[w].pc # "idle" =>
              pricer[w].seq \in DOMAIN created /\ created[pricer[w].seq] \in Events
         /\ \A w \in Settlers : settler[w].pc # "idle" =>
              /\ settler[w].seq \in DOMAIN priced
              /\ Message(w) \in Messages
              /\ Message(w).event \in Events /\ OrderOf(w) \in Orders
              /\ Message(w).value \in Values
<1> USE DEF TypeInv, LocalOK, DeliveredOK
<1>1. /\ DOMAIN created = 1..Len(created) /\ Len(created) \in Nat
      /\ DOMAIN priced = 1..Len(priced) /\ Len(priced) \in Nat
      /\ delivered["pricing"] \in Nat /\ delivered["settlement"] \in Nat
  BY DEF TypeOK, Durables
<1>2. ASSUME NEW w \in Pricers, pricer[w].pc # "idle"
      PROVE  pricer[w].seq \in DOMAIN created /\ created[pricer[w].seq] \in Events
  <2>1. pricer[w].seq \in DOMAIN created BY <1>1, <1>2 DEF PricerOK
  <2> QED BY <1>1, <2>1 DEF TypeOK
<1>3. ASSUME NEW w \in Settlers, settler[w].pc # "idle"
      PROVE  settler[w].seq \in DOMAIN priced /\ Message(w) \in Messages
  <2>1. settler[w].seq \in DOMAIN priced BY <1>1, <1>3 DEF SettlerOK
  <2> QED BY <1>1, <2>1 DEF TypeOK, Message
<1> QED BY <1>2, <1>3 DEF Messages, Events, OrderOf

(* A worker that only moves on keeps its message.                          *)
LEMMA PcType ==
  ASSUME NEW w \in Pricers, NEW p \in {"idle", "lookup", "publish", "ack", "stuck"},
         pricer \in [Pricers -> [pc : {"idle", "lookup", "publish", "ack", "stuck"},
                                 seq : Nat, value : Values \cup {None}]],
         pricer' = [pricer EXCEPT ![w].pc = p]
  PROVE  pricer' \in [Pricers -> [pc : {"idle", "lookup", "publish", "ack", "stuck"},
                                  seq : Nat, value : Values \cup {None}]]
<1>1. pricer[w] \in [pc : {"idle", "lookup", "publish", "ack", "stuck"},
                     seq : Nat, value : Values \cup {None}]
  OBVIOUS
<1>2. [pricer[w] EXCEPT !.pc = p] \in
        [pc : {"idle", "lookup", "publish", "ack", "stuck"},
         seq : Nat, value : Values \cup {None}]
  BY <1>1
<1> QED BY <1>2

LEMMA SettlerPcType ==
  ASSUME NEW w \in Settlers, NEW p \in {"idle", "begin", "locked", "ack", "stuck"},
         settler \in [Settlers -> [pc : {"idle", "begin", "locked", "ack", "stuck"},
                                   seq : Nat, read : Statuses \cup {"none"}]],
         settler' = [settler EXCEPT ![w].pc = p]
  PROVE  settler' \in [Settlers -> [pc : {"idle", "begin", "locked", "ack", "stuck"},
                                    seq : Nat, read : Statuses \cup {"none"}]]
<1>1. settler[w] \in [pc : {"idle", "begin", "locked", "ack", "stuck"},
                      seq : Nat, read : Statuses \cup {"none"}]
  OBVIOUS
<1>2. [settler[w] EXCEPT !.pc = p] \in
        [pc : {"idle", "begin", "locked", "ack", "stuck"},
         seq : Nat, read : Statuses \cup {"none"}]
  BY <1>1
<1> QED BY <1>2

LEMMA InitType == Init => TypeInv
BY DEF Init, TypeInv, TypeOK, LocalOK, DispatcherOK, PricerOK, SettlerOK, DeliveredOK,
       IdleDispatcher, IdlePricer, IdleSettler, Durables

LEMMA NextType == TypeInv /\ [Next]_vars => TypeInv'
<1> SUFFICES ASSUME TypeInv, [Next]_vars PROVE TypeInv'
  OBVIOUS
<1> USE DEF tables, streams, consumers, workers
<1>0. TypeOK /\ DispatcherOK /\ PricerOK /\ SettlerOK /\ DeliveredOK
  BY DEF TypeInv, LocalOK
<1>1. ASSUME NEW o \in Orders, Create(o) PROVE TypeInv'
  <2>1. Row(OutboxEvent(o), "created", "PENDING") \in ActivityRows
    BY CopiesAssumption DEF Row, OutboxEvent, ActivityRows, Events, Kinds
  <2>2. TypeOK' BY <1>0, <1>1, <2>1 DEF TypeOK, Create, Statuses
  <2>3. LocalOK'
    BY <1>0, <1>1 DEF LocalOK, DispatcherOK, PricerOK, SettlerOK, DeliveredOK, Create
  <2> QED BY <2>2, <2>3 DEF TypeInv
<1>2. ASSUME NEW e \in Events, DuplicateCreated(e) PROVE TypeInv'
  <2>1. TypeOK' BY <1>0, <1>2 DEF TypeOK, DuplicateCreated
  <2>2. Len(created') = Len(created) + 1 BY <1>0, <1>2 DEF TypeOK, DuplicateCreated
  <2>3. LocalOK'
    BY <1>0, <1>2, <2>2 DEF TypeOK, Durables, LocalOK, DispatcherOK, PricerOK, SettlerOK,
                            DeliveredOK, DuplicateCreated
  <2> QED BY <2>1, <2>3 DEF TypeInv
<1>3. ASSUME NEW d \in Dispatchers, Dispatching(d) \/ DFault(d) PROVE TypeInv'
  <2>0. PricerOK' /\ SettlerOK'
    BY <1>0, <1>3 DEF Dispatching, DFault, DSelect, DPublish, DMark, DPublishUnconfirmed,
                      DAbort, PricerOK, SettlerOK
  <2>1. CASE DSelect(d)
    <3>1. TypeOK' BY <1>0, <2>1 DEF TypeOK, DSelect
    <3>2. DispatcherOK' /\ DeliveredOK'
      BY <1>0, <2>1 DEF TypeOK, DispatcherOK, DeliveredOK, DSelect
    <3> QED BY <3>1, <3>2, <2>0 DEF TypeInv, LocalOK
  <2>2. ASSUME DPublish(d) \/ DPublishUnconfirmed(d)
        PROVE  created' \in Seq(Events) /\ Len(created) <= Len(created')
    <3>1. OutboxEvent(dispatcher[d].order) \in Events
      BY <1>0, <2>2, CopiesAssumption DEF DispatcherOK, DPublish, DPublishUnconfirmed,
                                          OutboxEvent, Events
    <3>2. PublishCreated(OutboxEvent(dispatcher[d].order))
      BY <2>2 DEF DPublish, DPublishUnconfirmed
    <3>3. created \in Seq(Events) BY <1>0 DEF TypeOK
    <3> QED BY <3>1, <3>2, <3>3 DEF PublishCreated, Stored
  <2>3. CASE DPublish(d)
    <3>6. dispatcher' \in [Dispatchers -> [pc : {"idle", "selected", "published"},
                                           order : Orders \cup {None}]]
      BY <1>0, <2>3 DEF TypeOK, DPublish
    <3>4. UNCHANGED <<tables, priced, consumers, pricer, settler, faults>>
      BY <2>3 DEF DPublish
    <3>5. created' \in Seq(Events) BY <2>2, <2>3
    <3>1. TypeOK' BY <1>0, <3>4, <3>5, <3>6 DEF TypeOK
    <3>2. DispatcherOK' BY <1>0, <2>3 DEF TypeOK, DispatcherOK, DPublish
    <3>3. DeliveredOK' BY <1>0, <2>2, <2>3 DEF TypeOK, Durables, DeliveredOK, DPublish
    <3> QED BY <3>1, <3>2, <3>3, <2>0 DEF TypeInv, LocalOK
  <2>4. CASE DPublishUnconfirmed(d)
    <3>1. TypeOK' BY <1>0, <2>2, <2>4 DEF TypeOK, DPublishUnconfirmed, Fault, IdleDispatcher
    <3>2. DispatcherOK'
      BY <1>0, <2>4 DEF TypeOK, DispatcherOK, DPublishUnconfirmed, IdleDispatcher
    <3>3. DeliveredOK' BY <1>0, <2>2, <2>4 DEF TypeOK, Durables, DeliveredOK, DPublishUnconfirmed
    <3> QED BY <3>1, <3>2, <3>3, <2>0 DEF TypeInv, LocalOK
  <2>5. CASE DMark(d)
    <3>1. TypeOK' BY <1>0, <2>5 DEF TypeOK, DMark, IdleDispatcher
    <3>2. DispatcherOK' /\ DeliveredOK'
      BY <1>0, <2>5 DEF TypeOK, DispatcherOK, DeliveredOK, DMark, IdleDispatcher
    <3> QED BY <3>1, <3>2, <2>0 DEF TypeInv, LocalOK
  <2>6. CASE DAbort(d)
    <3>1. TypeOK' BY <1>0, <2>6 DEF TypeOK, DAbort, Fault, IdleDispatcher
    <3>2. DispatcherOK' /\ DeliveredOK'
      BY <1>0, <2>6 DEF TypeOK, DispatcherOK, DeliveredOK, DAbort, IdleDispatcher
    <3> QED BY <3>1, <3>2, <2>0 DEF TypeInv, LocalOK
  <2> QED BY <1>3, <2>1, <2>3, <2>4, <2>5, <2>6 DEF Dispatching, DFault
<1>4. ASSUME NEW w \in Pricers, Pricing(w) \/ PFault(w) PROVE TypeInv'
  <2>0. DispatcherOK'
    BY <1>0, <1>4 DEF Pricing, PFault, PFetch, PLookup, PPublish, PAck, PPublishUnanswered,
                      PAckUnanswered, PFail, PCrash, DispatcherOK
  <2>1. CASE PFetch(w)
    <3>1. PICK i \in DOMAIN created :
            /\ Deliver("pricing", i)
            /\ pricer' = [pricer EXCEPT ![w] = [pc |-> "lookup", seq |-> i, value |-> None]]
      BY <2>1 DEF PFetch
    <3>2. i \in Nat /\ 1 <= i /\ i <= Len(created) BY <1>0 DEF TypeOK
    <3>3. /\ delivered' \in [Durables -> Nat]
          /\ ackState' \in [Durables -> {"acked", "waiting", "due"}]
          /\ delivered'["pricing"] = i /\ delivered["pricing"] <= i
          /\ delivered'["settlement"] = delivered["settlement"]
      BY <1>0, <3>1, <3>2, ConsumerType DEF TypeOK, Durables
    <3>4. TypeOK' BY <1>0, <2>1, <3>1, <3>2, <3>3 DEF TypeOK, PFetch
    <3>5. PricerOK' BY <1>0, <3>1, <3>2, <3>3 DEF TypeOK, PricerOK, Durables
    <3>6. SettlerOK' /\ DeliveredOK'
      BY <1>0, <2>1, <3>2, <3>3 DEF SettlerOK, DeliveredOK, PFetch
    <3> QED BY <2>0, <3>4, <3>5, <3>6 DEF TypeInv, LocalOK
  <2>2. CASE PLookup(w)
    <3>1. PICK v \in Values :
            pricer' = [pricer EXCEPT ![w] =
                         [pc |-> "publish", seq |-> pricer[w].seq, value |-> v]]
      BY <2>2 DEF PLookup
    <3>3. TypeOK' BY <1>0, <2>2, <3>1 DEF TypeOK, PLookup
    <3>4. PricerOK' BY <1>0, <2>2, <3>1 DEF TypeOK, PricerOK, PLookup
    <3>5. SettlerOK' /\ DeliveredOK' BY <1>0, <2>2 DEF SettlerOK, DeliveredOK, PLookup
    <3> QED BY <2>0, <3>3, <3>4, <3>5 DEF TypeInv, LocalOK
  <2>3. ASSUME PPublish(w) \/ PPublishUnanswered(w)
        PROVE  priced' \in Seq(Messages) /\ Len(priced) <= Len(priced')
    <3>1. created[pricer[w].seq] \in Events /\ pricer[w].value \in Values
      BY <1>0, <2>3, InStream DEF PricerOK, PPublish, PPublishUnanswered
    <3>2. Quote(w) \in Messages BY <3>1 DEF Quote, Messages
    <3>3. PublishPriced(Quote(w)) \/ UNCHANGED priced
      BY <2>3 DEF PPublish, PPublishUnanswered
    <3>4. priced \in Seq(Messages) /\ Len(priced) \in Nat BY <1>0 DEF TypeOK
    <3>5. CASE PublishPriced(Quote(w))
      BY <3>2, <3>4, <3>5, StoredGrows DEF PublishPriced
    <3>6. CASE UNCHANGED priced BY <3>4, <3>6
    <3> QED BY <3>3, <3>5, <3>6
  <2>4. CASE PPublish(w)
    <3>0. pricer' \in [Pricers -> [pc : {"idle", "lookup", "publish", "ack", "stuck"},
                                   seq : Nat, value : Values \cup {None}]]
      BY <1>0, <2>4, PcType DEF TypeOK, PPublish
    <3>4. UNCHANGED <<tables, created, consumers, dispatcher, settler, faults>>
      BY <2>4 DEF PPublish
    <3>1. TypeOK' BY <1>0, <2>3, <2>4, <3>0, <3>4 DEF TypeOK
    <3>2. PricerOK' BY <1>0, <2>4 DEF TypeOK, PricerOK, PPublish
    <3>3. SettlerOK' /\ DeliveredOK'
      BY <1>0, <2>3, <2>4 DEF TypeOK, Durables, SettlerOK, DeliveredOK, PPublish
    <3> QED BY <2>0, <3>1, <3>2, <3>3 DEF TypeInv, LocalOK
  <2>5. ASSUME PAck(w) \/ PAckUnanswered(w) \/ PFail(w)
        PROVE  /\ delivered' = delivered
               /\ ackState' \in [Durables -> {"acked", "waiting", "due"}]
    BY <1>0, <2>5 DEF TypeOK, PAck, PAckUnanswered, PFail, Ack, Nak, Durables
  <2>6. CASE PPublishUnanswered(w)
    <3>0. pricer' \in [Pricers -> [pc : {"idle", "lookup", "publish", "ack", "stuck"},
                                   seq : Nat, value : Values \cup {None}]]
      BY <1>0, <2>6, PcType DEF TypeOK, PPublishUnanswered
    <3>4. faults' \in Nat /\ UNCHANGED <<tables, created, consumers, dispatcher, settler>>
      BY <1>0, <2>6 DEF TypeOK, PPublishUnanswered, Fault
    <3>1. TypeOK' BY <1>0, <2>3, <2>6, <3>0, <3>4 DEF TypeOK
    <3>2. PricerOK' BY <1>0, <2>6 DEF TypeOK, PricerOK, PPublishUnanswered
    <3>3. SettlerOK' /\ DeliveredOK'
      BY <1>0, <2>3, <2>6 DEF TypeOK, Durables, SettlerOK, DeliveredOK, PPublishUnanswered
    <3> QED BY <2>0, <3>1, <3>2, <3>3 DEF TypeInv, LocalOK
  <2>10. CASE PAckUnanswered(w)
    <3>0. pricer' \in [Pricers -> [pc : {"idle", "lookup", "publish", "ack", "stuck"},
                                   seq : Nat, value : Values \cup {None}]]
      BY <1>0, <2>10, PcType DEF TypeOK, PAckUnanswered
    <3>4. faults' \in Nat /\ UNCHANGED <<tables, streams, dispatcher, settler>>
      BY <1>0, <2>10 DEF TypeOK, PAckUnanswered, Fault
    <3>1. TypeOK' BY <1>0, <2>5, <2>10, <3>0, <3>4 DEF TypeOK
    <3>2. PricerOK' BY <1>0, <2>5, <2>10 DEF TypeOK, PricerOK, PAckUnanswered
    <3>3. SettlerOK' /\ DeliveredOK'
      BY <1>0, <2>5, <2>10 DEF SettlerOK, DeliveredOK, PAckUnanswered
    <3> QED BY <2>0, <3>1, <3>2, <3>3 DEF TypeInv, LocalOK
  <2>7. CASE PAck(w)
    <3>1. TypeOK' BY <1>0, <2>5, <2>7 DEF TypeOK, PAck, IdlePricer
    <3>2. PricerOK' BY <1>0, <2>5, <2>7 DEF TypeOK, PricerOK, PAck, IdlePricer
    <3>3. SettlerOK' /\ DeliveredOK' BY <1>0, <2>5, <2>7 DEF SettlerOK, DeliveredOK, PAck
    <3> QED BY <2>0, <3>1, <3>2, <3>3 DEF TypeInv, LocalOK
  <2>8. CASE PFail(w)
    <3>1. TypeOK' BY <1>0, <2>5, <2>8 DEF TypeOK, PFail, Fault, IdlePricer
    <3>2. PricerOK' BY <1>0, <2>5, <2>8 DEF TypeOK, PricerOK, PFail, IdlePricer
    <3>3. SettlerOK' /\ DeliveredOK' BY <1>0, <2>5, <2>8 DEF SettlerOK, DeliveredOK, PFail
    <3> QED BY <2>0, <3>1, <3>2, <3>3 DEF TypeInv, LocalOK
  <2>9. CASE PCrash(w)
    <3>1. TypeOK' BY <1>0, <2>9 DEF TypeOK, PCrash, Fault, IdlePricer
    <3>2. PricerOK' BY <1>0, <2>9 DEF TypeOK, PricerOK, PCrash, IdlePricer
    <3>3. SettlerOK' /\ DeliveredOK' BY <1>0, <2>9 DEF SettlerOK, DeliveredOK, PCrash
    <3> QED BY <2>0, <3>1, <3>2, <3>3 DEF TypeInv, LocalOK
  <2> QED BY <1>4, <2>1, <2>2, <2>4, <2>6, <2>7, <2>8, <2>9, <2>10 DEF Pricing, PFault
<1>5. ASSUME NEW w \in Settlers, Settling(w) \/ SFault(w) PROVE TypeInv'
  <2>0. DispatcherOK'
    BY <1>0, <1>5 DEF Settling, SFault, SFetch, SLock, SCommit, SAck, SCommitUnconfirmed,
                      SAckUnanswered, SFail, SCrash, DispatcherOK
  <2>1. CASE SFetch(w)
    <3>1. PICK i \in DOMAIN priced :
            /\ Deliver("settlement", i)
            /\ settler' = [settler EXCEPT ![w] = [pc |-> "begin", seq |-> i, read |-> "none"]]
      BY <2>1 DEF SFetch
    <3>2. i \in Nat /\ 1 <= i /\ i <= Len(priced) BY <1>0 DEF TypeOK
    <3>3. /\ delivered' \in [Durables -> Nat]
          /\ ackState' \in [Durables -> {"acked", "waiting", "due"}]
          /\ delivered'["settlement"] = i /\ delivered["settlement"] <= i
          /\ delivered'["pricing"] = delivered["pricing"]
      BY <1>0, <3>1, <3>2, ConsumerType DEF TypeOK, Durables
    <3>4. TypeOK' BY <1>0, <2>1, <3>1, <3>2, <3>3 DEF TypeOK, SFetch
    <3>5. SettlerOK' BY <1>0, <3>1, <3>2, <3>3 DEF TypeOK, SettlerOK, Durables
    <3>6. PricerOK' /\ DeliveredOK'
      BY <1>0, <2>1, <3>2, <3>3 DEF PricerOK, DeliveredOK, SFetch
    <3> QED BY <2>0, <3>4, <3>5, <3>6 DEF TypeInv, LocalOK
  <2>2. CASE SLock(w)
    <3>0. OrderOf(w) \in Orders BY <2>2, InStream DEF SLock
    <3>1. status[OrderOf(w)] \in Statuses \cup {"none"} BY <1>0, <3>0 DEF TypeOK
    <3>2. settler' = [settler EXCEPT ![w] = [pc |-> "locked", seq |-> settler[w].seq,
                                             read |-> status[OrderOf(w)]]]
      BY <2>2 DEF SLock
    <3>3. TypeOK' BY <1>0, <2>2, <3>1, <3>2 DEF TypeOK, SLock
    <3>4. SettlerOK' BY <1>0, <2>2, <3>2 DEF TypeOK, SettlerOK, SLock
    <3>5. PricerOK' /\ DeliveredOK' BY <1>0, <2>2 DEF PricerOK, DeliveredOK, SLock
    <3> QED BY <2>0, <3>3, <3>4, <3>5 DEF TypeInv, LocalOK
  <2>3. ASSUME Settle(w)
        PROVE  /\ status' \in [Orders -> Statuses \cup {"none"}]
               /\ code' \in [Orders -> Codes \cup {None}]
               /\ settlement' \in [Orders -> Prices \cup {None}]
               /\ activity' \subseteq ActivityRows
    <3>2. OrderOf(w) \in Orders /\ Message(w).event \in Events /\ Message(w).value \in Values
      BY <2>3, InStream DEF Settle
    <3>3. /\ PriceRow(w) \in ActivityRows
          /\ Row(Message(w).event, "settled", "SETTLED") \in ActivityRows
      BY <3>2 DEF PriceRow, KindFor, Row, ActivityRows, Kinds
    <3>4. CASE AlreadyRecorded(w)
      BY <1>0, <3>4 DEF TypeOK, AlreadyRecorded
    <3>5. CASE RecordOnly(w)
      BY <1>0, <3>3, <3>5 DEF TypeOK, RecordOnly
    <3>6. CASE FailOrder(w)
      BY <1>0, <3>2, <3>3, <3>6 DEF TypeOK, FailOrder, Statuses
    <3>7. CASE SettleOrder(w)
      BY <1>0, <3>2, <3>3, <3>7 DEF TypeOK, SettleOrder, Statuses, Values
    <3> QED BY <2>3, <3>4, <3>5, <3>6, <3>7 DEF Settle
  <2>4. CASE SCommit(w)
    <3>0. Settle(w) BY <2>4 DEF SCommit
    <3>1. settler' \in [Settlers -> [pc : {"idle", "begin", "locked", "ack", "stuck"}, seq : Nat,
                                    read : Statuses \cup {"none"}]]
      BY <1>0, <2>4, SettlerPcType DEF TypeOK, SCommit
    <3>4. UNCHANGED <<outbox, streams, consumers, dispatcher, pricer, faults>>
      BY <2>4 DEF SCommit
    <3>5. TypeOK' BY <1>0, <2>3, <3>0, <3>1, <3>4 DEF TypeOK
    <3>2. SettlerOK' BY <1>0, <2>4 DEF TypeOK, SettlerOK, SCommit, Settle
    <3>3. PricerOK' /\ DeliveredOK' BY <1>0, <2>4 DEF PricerOK, DeliveredOK, SCommit
    <3> QED BY <2>0, <3>5, <3>2, <3>3 DEF TypeInv, LocalOK
  <2>5. ASSUME SAck(w) \/ SCommitUnconfirmed(w) \/ SAckUnanswered(w) \/ SFail(w)
        PROVE  /\ delivered' = delivered
               /\ ackState' \in [Durables -> {"acked", "waiting", "due"}]
    BY <1>0, <2>5 DEF TypeOK, SAck, SCommitUnconfirmed, SAckUnanswered, SFail, Ack, Nak, Durables
  <2>6. CASE SCommitUnconfirmed(w)
    <3>0. Settle(w) BY <2>6 DEF SCommitUnconfirmed
    <3>1. TypeOK'
      BY <1>0, <2>3, <2>5, <2>6, <3>0 DEF TypeOK, SCommitUnconfirmed, Fault, IdleSettler
    <3>2. SettlerOK' BY <1>0, <2>5, <2>6 DEF TypeOK, SettlerOK, SCommitUnconfirmed, IdleSettler
    <3>3. PricerOK' /\ DeliveredOK'
      BY <1>0, <2>5, <2>6 DEF PricerOK, DeliveredOK, SCommitUnconfirmed
    <3> QED BY <2>0, <3>1, <3>2, <3>3 DEF TypeInv, LocalOK
  <2>10. CASE SAckUnanswered(w)
    <3>0. settler' \in [Settlers -> [pc : {"idle", "begin", "locked", "ack", "stuck"}, seq : Nat,
                                    read : Statuses \cup {"none"}]]
      BY <1>0, <2>10, SettlerPcType DEF TypeOK, SAckUnanswered
    <3>4. faults' \in Nat /\ UNCHANGED <<tables, streams, dispatcher, pricer>>
      BY <1>0, <2>10 DEF TypeOK, SAckUnanswered, Fault
    <3>1. TypeOK' BY <1>0, <2>5, <2>10, <3>0, <3>4 DEF TypeOK
    <3>2. SettlerOK' BY <1>0, <2>5, <2>10 DEF TypeOK, SettlerOK, SAckUnanswered
    <3>3. PricerOK' /\ DeliveredOK'
      BY <1>0, <2>5, <2>10 DEF PricerOK, DeliveredOK, SAckUnanswered
    <3> QED BY <2>0, <3>1, <3>2, <3>3 DEF TypeInv, LocalOK
  <2>7. CASE SAck(w)
    <3>1. TypeOK' BY <1>0, <2>5, <2>7 DEF TypeOK, SAck, IdleSettler, Statuses
    <3>2. SettlerOK' BY <1>0, <2>5, <2>7 DEF TypeOK, SettlerOK, SAck, IdleSettler
    <3>3. PricerOK' /\ DeliveredOK' BY <1>0, <2>5, <2>7 DEF PricerOK, DeliveredOK, SAck
    <3> QED BY <2>0, <3>1, <3>2, <3>3 DEF TypeInv, LocalOK
  <2>8. CASE SFail(w)
    <3>1. TypeOK' BY <1>0, <2>5, <2>8 DEF TypeOK, SFail, Fault, IdleSettler
    <3>2. SettlerOK' BY <1>0, <2>5, <2>8 DEF TypeOK, SettlerOK, SFail, IdleSettler
    <3>3. PricerOK' /\ DeliveredOK' BY <1>0, <2>5, <2>8 DEF PricerOK, DeliveredOK, SFail
    <3> QED BY <2>0, <3>1, <3>2, <3>3 DEF TypeInv, LocalOK
  <2>9. CASE SCrash(w)
    <3>1. TypeOK' BY <1>0, <2>9 DEF TypeOK, SCrash, Fault, IdleSettler
    <3>2. SettlerOK' BY <1>0, <2>9 DEF TypeOK, SettlerOK, SCrash, IdleSettler
    <3>3. PricerOK' /\ DeliveredOK' BY <1>0, <2>9 DEF PricerOK, DeliveredOK, SCrash
    <3> QED BY <2>0, <3>1, <3>2, <3>3 DEF TypeInv, LocalOK
  <2> QED BY <1>5, <2>1, <2>2, <2>4, <2>6, <2>7, <2>8, <2>9, <2>10 DEF Settling, SFault
<1>6. ASSUME NEW c \in Durables, AckWaitElapses(c) \/ AckWaitOvertakes(c) PROVE TypeInv'
  <2>1. AckWait(c) /\ faults' \in Nat
    BY <1>0, <1>6 DEF AckWaitElapses, AckWaitOvertakes, Fault, TypeOK
  <2>2. TypeOK' BY <1>0, <2>1 DEF TypeOK, AckWait
  <2>3. LocalOK'
    BY <1>0, <2>1 DEF LocalOK, DispatcherOK, PricerOK, SettlerOK, DeliveredOK, AckWait
  <2> QED BY <2>2, <2>3 DEF TypeInv
<1>7. CASE UNCHANGED vars
  <2>1. TypeOK' BY <1>0, <1>7 DEF TypeOK, vars
  <2>2. LocalOK'
    BY <1>0, <1>7 DEF LocalOK, DispatcherOK, PricerOK, SettlerOK, DeliveredOK, vars
  <2> QED BY <2>1, <2>2 DEF TypeInv
<1> QED
  BY <1>1, <1>2, <1>3, <1>4, <1>5, <1>6, <1>7 DEF Next

(* Every variable always holds a value of its declared type, and a worker  *)
(* only ever handles an event that is in the stream.                       *)
THEOREM TypeCorrect == Spec => [](TypeOK /\ LocalOK)
BY InitType, NextType, PTL DEF Spec, TypeInv

-----------------------------------------------------------------------------
(***************************************************************************)
(* The safety invariants of OrderPipeline.  The first section says once    *)
(* what any step may do to each part of the state; the invariants follow   *)
(* from these facts without going through the actions again.               *)
(***************************************************************************)

(* What a step can do.                                                     *)

(* Only a new order and a settlement transaction change the order tables.  *)
LEMMA TableSteps ==
  ASSUME TypeInv, [Next]_vars
  PROVE  \/ UNCHANGED <<status, code, settlement, activity>>
         \/ \E o \in Orders : Create(o)
         \/ \E w \in Settlers : Settle(w) /\ settler'[w].pc # "locked" /\ UNCHANGED streams
<1> USE DEF tables
<1>1. ASSUME NEW e \in Events, DuplicateCreated(e)
      PROVE  UNCHANGED <<status, code, settlement, activity>>
  BY <1>1 DEF DuplicateCreated
<1>2. ASSUME NEW d \in Dispatchers, Dispatching(d) \/ DFault(d)
      PROVE  UNCHANGED <<status, code, settlement, activity>>
  BY <1>2 DEF Dispatching, DFault, DSelect, DPublish, DMark, DPublishUnconfirmed, DAbort
<1>3. ASSUME NEW w \in Pricers, Pricing(w) \/ PFault(w)
      PROVE  UNCHANGED <<status, code, settlement, activity>>
  BY <1>3 DEF Pricing, PFault, PFetch, PLookup, PPublish, PAck, PPublishUnanswered,
              PAckUnanswered, PFail, PCrash
<1>4. ASSUME NEW w \in Settlers, Settling(w) \/ SFault(w)
      PROVE  \/ UNCHANGED <<status, code, settlement, activity>>
             \/ Settle(w) /\ settler'[w].pc # "locked" /\ UNCHANGED streams
  BY <1>4 DEF TypeInv, TypeOK, IdleSettler, Settling, SFault, SFetch, SLock, SCommit, SAck,
              SCommitUnconfirmed, SAckUnanswered, SFail, SCrash
<1>5. ASSUME NEW c \in Durables, AckWaitElapses(c) \/ AckWaitOvertakes(c)
      PROVE  UNCHANGED <<status, code, settlement, activity>>
  BY <1>5 DEF AckWaitElapses, AckWaitOvertakes, AckWait
<1>6. CASE UNCHANGED vars
  BY <1>6 DEF vars
<1> QED BY <1>1, <1>2, <1>3, <1>4, <1>5, <1>6 DEF Next

(* The streams only grow, one entry at a time: an event of an existing     *)
(* order, the outbox event of the row a dispatcher holds, or the quote of  *)
(* a worker.                                                               *)
StreamStep ==
  \/ UNCHANGED streams
  \/ /\ UNCHANGED priced
     /\ \E e \in Events : /\ created' = Append(created, e)
                          /\ \/ status[e.order] # "none"
                             \/ \E d \in Dispatchers : /\ dispatcher[d].pc # "idle"
                                                       /\ e = OutboxEvent(dispatcher[d].order)
  \/ /\ UNCHANGED created
     /\ \E w \in Pricers : /\ pricer[w].pc = "publish"
                           /\ Quote(w) \in Messages
                           /\ priced' = Append(priced, Quote(w))

LEMMA StreamSteps == ASSUME TypeInv, [Next]_vars PROVE StreamStep
<1> USE DEF streams
<1>1. ASSUME NEW o \in Orders, Create(o) PROVE StreamStep
  BY <1>1 DEF Create, StreamStep
<1>2. ASSUME NEW e \in Events, DuplicateCreated(e) PROVE StreamStep
  BY <1>2 DEF DuplicateCreated, StreamStep
<1>3. ASSUME NEW d \in Dispatchers, Dispatching(d) \/ DFault(d) PROVE StreamStep
  <2>1. CASE DPublish(d) \/ DPublishUnconfirmed(d)
    <3>1. OutboxEvent(dispatcher[d].order) \in Events
      BY <2>1, CopiesAssumption DEF TypeInv, LocalOK, DispatcherOK, DPublish,
                                    DPublishUnconfirmed, OutboxEvent, Events
    <3> QED
      BY <2>1, <3>1 DEF DPublish, DPublishUnconfirmed, PublishCreated, Stored, StreamStep
  <2>2. CASE DSelect(d) \/ DMark(d) \/ DAbort(d)
    BY <2>2 DEF DSelect, DMark, DAbort, StreamStep
  <2> QED BY <1>3, <2>1, <2>2 DEF Dispatching, DFault
<1>4. ASSUME NEW w \in Pricers, Pricing(w) \/ PFault(w) PROVE StreamStep
  <2>1. CASE PPublish(w) \/ PPublishUnanswered(w)
    <3>1. Quote(w) \in Messages
      BY <2>1, InStream DEF TypeInv, LocalOK, PricerOK, PPublish, PPublishUnanswered,
                            Quote, Messages
    <3> QED
      BY <2>1, <3>1 DEF PPublish, PPublishUnanswered, PublishPriced, Stored, StreamStep
  <2>2. CASE PFetch(w) \/ PLookup(w) \/ PAck(w) \/ PAckUnanswered(w) \/ PFail(w) \/ PCrash(w)
    BY <2>2 DEF PFetch, PLookup, PAck, PAckUnanswered, PFail, PCrash, StreamStep
  <2> QED BY <1>4, <2>1, <2>2 DEF Pricing, PFault
<1>5. ASSUME NEW w \in Settlers, Settling(w) \/ SFault(w) PROVE StreamStep
  BY <1>5 DEF Settling, SFault, SFetch, SLock, SCommit, SAck, SCommitUnconfirmed,
              SAckUnanswered, SFail, SCrash, StreamStep
<1>6. ASSUME NEW c \in Durables, AckWaitElapses(c) \/ AckWaitOvertakes(c) PROVE StreamStep
  BY <1>6 DEF AckWaitElapses, AckWaitOvertakes, AckWait, StreamStep
<1>7. CASE UNCHANGED vars
  BY <1>7 DEF vars, StreamStep
<1> QED BY <1>1, <1>2, <1>3, <1>4, <1>5, <1>6, <1>7 DEF Next

LEMMA StreamsGrow ==
  ASSUME TypeInv, StreamStep
  PROVE  /\ \A i \in DOMAIN created : i \in DOMAIN created' /\ created'[i] = created[i]
         /\ \A i \in DOMAIN priced : i \in DOMAIN priced' /\ priced'[i] = priced[i]
         /\ CreatedIDs \subseteq CreatedIDs'
         /\ PricedIDs \subseteq PricedIDs'
<1>0. created \in Seq(Events) /\ priced \in Seq(Messages) BY DEF TypeInv, TypeOK
<1>1. /\ \A i \in DOMAIN created : i \in DOMAIN created' /\ created'[i] = created[i]
      /\ \A i \in DOMAIN priced : i \in DOMAIN priced' /\ priced'[i] = priced[i]
  <2>1. CASE UNCHANGED streams BY <2>1 DEF streams
  <2>2. CASE \E e \in Events : created' = Append(created, e) /\ UNCHANGED priced
    BY <1>0, <2>2
  <2>3. CASE \E m \in Messages : priced' = Append(priced, m) /\ UNCHANGED created
    BY <1>0, <2>3
  <2> QED BY <2>1, <2>2, <2>3 DEF StreamStep
<1> QED BY <1>1 DEF CreatedIDs, PricedIDs

(* A message becomes acknowledged only by a worker whose handler returned. *)
LEMMA AckSteps ==
  ASSUME TypeInv, [Next]_vars, NEW i \in Nat
  PROVE  /\ Acked("pricing", i)' => \/ Acked("pricing", i)
                                    \/ \E w \in Pricers : pricer[w].pc = "ack" /\ pricer[w].seq = i
         /\ Acked("settlement", i)' => \/ Acked("settlement", i)
                                       \/ \E w \in Settlers : settler[w].pc = "ack" /\ settler[w].seq = i
<1>0. /\ delivered \in [Durables -> Nat]
      /\ ackState \in [Durables -> {"acked", "waiting", "due"}]
      /\ "pricing" \in Durables /\ "settlement" \in Durables
  BY DEF TypeInv, TypeOK, Durables
<1>1. ASSUME UNCHANGED consumers
      PROVE  \A c \in Durables : Acked(c, i)' => Acked(c, i)
  BY <1>1 DEF consumers, Acked
<1>2. ASSUME NEW c \in Durables, NEW j \in Nat, Deliver(c, j)
      PROVE  \A b \in Durables : Acked(b, i)' => Acked(b, i)
  BY <1>0, <1>2 DEF Deliver, Acked
<1>3. ASSUME NEW c \in Durables, NEW j \in Nat, Nak(c, j) \/ AckWait(c)
      PROVE  \A b \in Durables : Acked(b, i)' => Acked(b, i)
  BY <1>0, <1>3 DEF Nak, AckWait, Acked
<1>4. ASSUME NEW c \in Durables, NEW j \in Nat, Ack(c, j)
      PROVE  \A b \in Durables : Acked(b, i)' => Acked(b, i) \/ (b = c /\ i = j)
  BY <1>0, <1>4 DEF Ack, Acked
<1>5. CASE (\E o \in Orders : Create(o)) \/ (\E e \in Events : DuplicateCreated(e))
  BY <1>0, <1>1, <1>5 DEF Create, DuplicateCreated
<1>6. CASE \E d \in Dispatchers : Dispatching(d) \/ DFault(d)
  BY <1>0, <1>1, <1>6 DEF Dispatching, DFault, DSelect, DPublish, DMark,
                          DPublishUnconfirmed, DAbort, consumers
<1>7. ASSUME NEW w \in Pricers, Pricing(w) \/ PFault(w)
      PROVE  \A b \in Durables : Acked(b, i)' => \/ Acked(b, i)
                                                 \/ b = "pricing" /\ pricer[w].pc = "ack" /\ pricer[w].seq = i
  <2>0. pricer[w].seq \in Nat BY DEF TypeInv, TypeOK
  <2>1. CASE PFetch(w)
    <3>1. PICK j \in DOMAIN created : Deliver("pricing", j) BY <2>1 DEF PFetch
    <3>2. j \in Nat BY DEF TypeInv, TypeOK
    <3> QED BY <1>0, <1>2, <3>1, <3>2
  <2>2. CASE PLookup(w) \/ PPublish(w) \/ PPublishUnanswered(w) \/ PCrash(w)
    BY <1>1, <2>2 DEF PLookup, PPublish, PPublishUnanswered, PCrash
  <2>3. CASE PAck(w) \/ PAckUnanswered(w)
    <3>1. CASE Ack("pricing", pricer[w].seq)
      BY <1>0, <1>4, <2>0, <2>3, <3>1 DEF PAck, PAckUnanswered
    <3>2. CASE UNCHANGED consumers BY <1>1, <3>2
    <3> QED BY <2>3, <3>1, <3>2 DEF PAck, PAckUnanswered
  <2>4. CASE PFail(w)
    BY <1>0, <1>3, <2>0, <2>4 DEF PFail
  <2> QED BY <1>7, <2>1, <2>2, <2>3, <2>4 DEF Pricing, PFault
<1>8. ASSUME NEW w \in Settlers, Settling(w) \/ SFault(w)
      PROVE  \A b \in Durables : Acked(b, i)' => \/ Acked(b, i)
                                                 \/ b = "settlement" /\ settler[w].pc = "ack" /\ settler[w].seq = i
  <2>0. settler[w].seq \in Nat BY DEF TypeInv, TypeOK
  <2>1. CASE SFetch(w)
    <3>1. PICK j \in DOMAIN priced : Deliver("settlement", j) BY <2>1 DEF SFetch
    <3>2. j \in Nat BY DEF TypeInv, TypeOK
    <3> QED BY <1>0, <1>2, <3>1, <3>2
  <2>2. CASE SLock(w) \/ SCommit(w) \/ SCrash(w)
    BY <1>1, <2>2 DEF SLock, SCommit, SCrash
  <2>3. CASE SAck(w) \/ SAckUnanswered(w)
    <3>1. CASE Ack("settlement", settler[w].seq)
      BY <1>0, <1>4, <2>0, <2>3, <3>1 DEF SAck, SAckUnanswered
    <3>2. CASE UNCHANGED consumers BY <1>1, <3>2
    <3> QED BY <2>3, <3>1, <3>2 DEF SAck, SAckUnanswered
  <2>4. CASE SCommitUnconfirmed(w) \/ SFail(w)
    BY <1>0, <1>3, <2>0, <2>4 DEF SCommitUnconfirmed, SFail
  <2> QED BY <1>8, <2>1, <2>2, <2>3, <2>4 DEF Settling, SFault
<1>9. CASE \E c \in Durables : AckWaitElapses(c) \/ AckWaitOvertakes(c)
  BY <1>0, <1>3, <1>9 DEF AckWaitElapses, AckWaitOvertakes
<1>10. CASE UNCHANGED vars
  BY <1>0, <1>1, <1>10 DEF vars
<1> QED BY <1>0, <1>5, <1>6, <1>7, <1>8, <1>9, <1>10 DEF Next
(* A worker reaches its locked or ack state only by its own step, and a    *)
(* settlement transaction ends with the lock given up.                     *)
LEMMA WorkerSteps ==
  ASSUME TypeInv, [Next]_vars
  PROVE  /\ \A w \in Pricers : pricer'[w].pc = "ack" => pricer'[w] = pricer[w] \/ PPublish(w)
         /\ \A w \in Settlers :
              /\ settler'[w].pc = "locked" => settler'[w] = settler[w] \/ SLock(w)
              /\ settler'[w].pc = "ack" => settler'[w] = settler[w] \/ SCommit(w)
<1> USE DEF workers
<1>0. pricer \in [Pricers -> [pc : {"idle", "lookup", "publish", "ack", "stuck"},
                             seq : Nat, value : Values \cup {None}]]
  BY DEF TypeInv, TypeOK
<1>00. settler \in [Settlers -> [pc : {"idle", "begin", "locked", "ack", "stuck"},
                                seq : Nat, read : Statuses \cup {"none"}]]
  BY DEF TypeInv, TypeOK
<1>1. CASE (\E o \in Orders : Create(o)) \/ (\E e \in Events : DuplicateCreated(e))
  BY <1>1 DEF Create, DuplicateCreated
<1>2. CASE \E d \in Dispatchers : Dispatching(d) \/ DFault(d)
  BY <1>2 DEF Dispatching, DFault, DSelect, DPublish, DMark, DPublishUnconfirmed, DAbort
<1>3. ASSUME NEW x \in Pricers, Pricing(x) \/ PFault(x)
      PROVE  /\ \A w \in Pricers : pricer'[w].pc = "ack" => pricer'[w] = pricer[w] \/ PPublish(w)
             /\ UNCHANGED settler
  BY <1>0, <1>3 DEF Pricing, PFault, PFetch, PLookup, PPublish, PAck, PPublishUnanswered,
                    PAckUnanswered, PFail, PCrash, IdlePricer
<1>4. ASSUME NEW x \in Settlers, Settling(x) \/ SFault(x)
      PROVE  /\ \A w \in Settlers :
                  /\ settler'[w].pc = "locked" => settler'[w] = settler[w] \/ SLock(w)
                  /\ settler'[w].pc = "ack" => settler'[w] = settler[w] \/ SCommit(w)
             /\ UNCHANGED pricer
  BY <1>00, <1>4 DEF Settling, SFault, SFetch, SLock, SCommit, SAck, SCommitUnconfirmed,
                     SAckUnanswered, SFail, SCrash, IdleSettler
<1>5. CASE \E c \in Durables : AckWaitElapses(c) \/ AckWaitOvertakes(c)
  BY <1>5 DEF AckWaitElapses, AckWaitOvertakes, AckWait
<1>6. CASE UNCHANGED vars
  BY <1>6 DEF vars
<1> QED BY <1>1, <1>2, <1>3, <1>4, <1>5, <1>6 DEF Next
-----------------------------------------------------------------------------
(* The row lock.  A settlement worker that holds the lock of an order      *)
(* holds it alone, and the status it read is still the order's status.     *)
LockInv ==
  /\ \A w \in Settlers : settler[w].pc = "locked" =>
       settler[w].read = status[OrderOf(w)] /\ settler[w].read # "none"
  /\ \A w, x \in Settlers :
       settler[w].pc = "locked" /\ settler[x].pc = "locked" /\ OrderOf(w) = OrderOf(x) => w = x

(* The message of a busy worker stays what it is.                          *)
LEMMA MessageStable ==
  ASSUME TypeInv, StreamStep, NEW w \in Settlers,
         settler'[w].seq = settler[w].seq, settler[w].pc # "idle"
  PROVE  Message(w)' = Message(w) /\ OrderOf(w)' = OrderOf(w)
BY InStream, StreamsGrow DEF Message, OrderOf

(* A settlement transaction touches the order it locked and no other.      *)
LEMMA SettleLocal ==
  ASSUME TypeInv, NEW w \in Settlers, Settle(w), NEW o \in Orders, o # OrderOf(w)
  PROVE  status'[o] = status[o] /\ code'[o] = code[o] /\ settlement'[o] = settlement[o]
BY DEF TypeInv, TypeOK, Settle, AlreadyRecorded, RecordOnly, FailOrder, SettleOrder

LEMMA LockStep == TypeInv /\ LockInv /\ [Next]_vars => LockInv'
<1> SUFFICES ASSUME TypeInv, LockInv, [Next]_vars PROVE LockInv'
  OBVIOUS
<1>0. StreamStep BY StreamSteps
<1>1. ASSUME NEW w \in Settlers, settler'[w].pc = "locked"
      PROVE  /\ settler'[w].read = status'[OrderOf(w)'] /\ settler'[w].read # "none"
  <2>1. CASE SLock(w)
    <3>1. Message(w)' = Message(w) /\ OrderOf(w)' = OrderOf(w)
      BY <1>0, <2>1, MessageStable DEF SLock, TypeInv, TypeOK
    <3>2. status' = status BY <2>1 DEF SLock, tables
    <3> QED BY <2>1, <3>1, <3>2 DEF SLock, TypeInv, TypeOK
  <2>2. CASE settler'[w] = settler[w]
    <3>1. OrderOf(w)' = OrderOf(w) /\ OrderOf(w) \in Orders
      BY <1>0, <1>1, <2>2, MessageStable, InStream
    <3>2. settler[w].read = status[OrderOf(w)] /\ settler[w].read # "none"
      BY <1>1, <2>2 DEF LockInv
    <3>3. ASSUME NEW o \in Orders, Create(o) PROVE status'[OrderOf(w)] = status[OrderOf(w)]
      BY <3>1, <3>2, <3>3 DEF Create, TypeInv, TypeOK
    <3>4. ASSUME NEW x \in Settlers, Settle(x), settler'[x].pc # "locked"
          PROVE  status'[OrderOf(w)] = status[OrderOf(w)]
      <4>1. OrderOf(x) # OrderOf(w) BY <1>1, <2>2, <3>4 DEF LockInv, Settle
      <4> QED BY <3>1, <3>4, <4>1, SettleLocal
    <3>5. status'[OrderOf(w)] = status[OrderOf(w)] BY <3>3, <3>4, TableSteps
    <3> QED BY <2>2, <3>1, <3>2, <3>5
  <2> QED BY <1>1, <2>1, <2>2, WorkerSteps
<1>2. ASSUME NEW w \in Settlers, NEW x \in Settlers, w # x,
             settler'[w].pc = "locked", settler'[x].pc = "locked", SLock(w)
      PROVE  OrderOf(w)' # OrderOf(x)'
  <2>1. settler'[x] = settler[x] BY <1>2 DEF SLock
  <2>2. OrderOf(x)' = OrderOf(x) /\ OrderOf(w)' = OrderOf(w)
    BY <1>0, <1>2, <2>1, MessageStable DEF SLock, TypeInv, TypeOK
  <2> QED BY <1>2, <2>1, <2>2 DEF SLock, RowLocked
<1>3. ASSUME NEW w \in Settlers, NEW x \in Settlers,
             settler'[w].pc = "locked", settler'[x].pc = "locked", OrderOf(w)' = OrderOf(x)'
      PROVE  w = x
  <2>1. CASE SLock(w) \/ SLock(x) BY <1>2, <1>3, <2>1
  <2>2. CASE settler'[w] = settler[w] /\ settler'[x] = settler[x]
    <3>1. OrderOf(x)' = OrderOf(x) /\ OrderOf(w)' = OrderOf(w)
      BY <1>0, <1>3, <2>2, MessageStable
    <3> QED BY <1>3, <2>2, <3>1 DEF LockInv
  <2> QED BY <1>3, <2>1, <2>2, WorkerSteps
<1> QED BY <1>1, <1>3 DEF LockInv
-----------------------------------------------------------------------------
(* The tables.  An event is recorded only in the transaction that finds or *)
(* makes its order concluded.                                              *)
RecordInv == \A e \in Events : Recorded(e) => Concluded(e.order)

TableInv == ViewConsistent /\ RecordInv

ViewCase(o) ==
  \/ status[o] \in {"none", "PENDING"} /\ code[o] = None /\ settlement[o] = None
  \/ status[o] = "SETTLED" /\ code[o] = None /\ settlement[o] \in Prices
  \/ status[o] = "FAILED" /\ code[o] \in Codes /\ settlement[o] = None

LEMMA ViewCases == ViewConsistent <=> \A o \in Orders : ViewCase(o)
BY DEF ViewConsistent, OrderView, ViewCase

(* A transaction's audit rows record its own event and no other.           *)
LEMMA RecordedRows ==
  ASSUME NEW f, NEW k,
         \/ activity' = activity \cup {Row(f, "price", k)}
         \/ activity' = activity \cup {Row(f, "price", k), Row(f, "settled", "SETTLED")},
         NEW e
  PROVE  Recorded(e)' <=> Recorded(e) \/ e = f
<1>1. /\ Row(f, "price", k).event = f /\ Row(f, "price", k).stage = "price"
      /\ Row(f, "settled", "SETTLED").stage # "price"
  BY DEF Row
<1> QED BY <1>1 DEF Recorded

(* What a settlement transaction does: the order is concluded when it      *)
(* ends, and a concluded order is left as it is.                           *)
LEMMA SettleEffect ==
  ASSUME TypeInv, LockInv, TableInv, NEW w \in Settlers, Settle(w)
  PROVE  /\ OrderOf(w) \in Orders
         /\ \/ status[OrderOf(w)] \in Terminal /\ UNCHANGED <<status, code, settlement>>
            \/ /\ status[OrderOf(w)] = "PENDING" /\ Message(w).value \in Codes
               /\ status' = [status EXCEPT ![OrderOf(w)] = "FAILED"]
               /\ code' = [code EXCEPT ![OrderOf(w)] = Message(w).value]
               /\ UNCHANGED settlement
            \/ /\ status[OrderOf(w)] = "PENDING" /\ Message(w).value \in Prices
               /\ status' = [status EXCEPT ![OrderOf(w)] = "SETTLED"]
               /\ settlement' = [settlement EXCEPT ![OrderOf(w)] = Message(w).value]
               /\ UNCHANGED code
         /\ \A e \in Events : Recorded(e)' <=> Recorded(e) \/ e = Message(w).event
<1>1. OrderOf(w) \in Orders /\ Message(w).value \in Values /\ Message(w).event \in Events
  BY InStream DEF Settle
<1>2. /\ settler[w].read = status[OrderOf(w)]
      /\ status[OrderOf(w)] \in {"PENDING", "SETTLED", "FAILED"}
  BY <1>1, ViewCases DEF Settle, LockInv, TableInv, ViewCase
<1>3. CASE AlreadyRecorded(w)
  <2>1. status[OrderOf(w)] \in Terminal
    BY <1>1, <1>3 DEF AlreadyRecorded, TableInv, RecordInv, Concluded, OrderOf
  <2>2. \A e \in Events : Recorded(e)' <=> Recorded(e) \/ e = Message(w).event
    BY <1>3 DEF AlreadyRecorded, Recorded
  <2> QED BY <1>1, <1>3, <2>1, <2>2 DEF AlreadyRecorded
<1>4. CASE RecordOnly(w)
  <2>1. status[OrderOf(w)] \in Terminal BY <1>2, <1>4 DEF RecordOnly, Terminal
  <2>2. \A e \in Events : Recorded(e)' <=> Recorded(e) \/ e = Message(w).event
    BY <1>4, RecordedRows DEF RecordOnly, PriceRow
  <2> QED BY <1>1, <1>4, <2>1, <2>2 DEF RecordOnly
<1>5. CASE FailOrder(w)
  <2>1. status[OrderOf(w)] = "PENDING" BY <1>2, <1>5 DEF FailOrder
  <2>2. \A e \in Events : Recorded(e)' <=> Recorded(e) \/ e = Message(w).event
    BY <1>5, RecordedRows DEF FailOrder, PriceRow
  <2> QED BY <1>1, <1>5, <2>1, <2>2 DEF FailOrder
<1>6. CASE SettleOrder(w)
  <2>1. status[OrderOf(w)] = "PENDING" /\ Message(w).value \in Prices
    BY <1>1, <1>2, <1>6 DEF SettleOrder, Values
  <2>2. settlement[OrderOf(w)] = None BY <1>1, <2>1, ViewCases DEF TableInv, ViewCase
  <2>3. settlement' = [settlement EXCEPT ![OrderOf(w)] = Message(w).value]
    BY <1>6, <2>2 DEF SettleOrder
  <2>4. \A e \in Events : Recorded(e)' <=> Recorded(e) \/ e = Message(w).event
    BY <1>6, RecordedRows DEF SettleOrder, PriceRow
  <2> QED BY <1>1, <1>6, <2>1, <2>3, <2>4 DEF SettleOrder
<1> QED BY <1>3, <1>4, <1>5, <1>6, <1>2 DEF Settle

(* A concluded order never changes again.                                  *)
LEMMA ConcludedStable ==
  ASSUME TypeInv, LockInv, TableInv, [Next]_vars, NEW o \in Orders, Concluded(o)
  PROVE  /\ status'[o] = status[o] /\ code'[o] = code[o] /\ settlement'[o] = settlement[o]
         /\ Concluded(o)'
<1>1. ASSUME NEW q \in Orders, Create(q)
      PROVE  status'[o] = status[o] /\ code'[o] = code[o] /\ settlement'[o] = settlement[o]
  BY <1>1 DEF Create, TypeInv, TypeOK, Concluded, Terminal
<1>2. ASSUME NEW w \in Settlers, Settle(w)
      PROVE  status'[o] = status[o] /\ code'[o] = code[o] /\ settlement'[o] = settlement[o]
  <2>1. CASE o = OrderOf(w) BY <1>2, <2>1, SettleEffect DEF Concluded, Terminal
  <2>2. CASE o # OrderOf(w) BY <1>2, <2>2, SettleLocal
  <2> QED BY <2>1, <2>2
<1> QED BY <1>1, <1>2, TableSteps DEF Concluded

(* A recorded event stays recorded; a new record is about the message of   *)
(* the transaction that makes it.                                          *)
LEMMA RecordSteps ==
  ASSUME TypeInv, LockInv, TableInv, [Next]_vars, NEW e \in Events
  PROVE  /\ Recorded(e) => Recorded(e)'
         /\ Recorded(e)' => \/ Recorded(e)
                            \/ \E w \in Settlers : Settle(w) /\ Message(w).event = e
<1>1. ASSUME NEW o \in Orders, Create(o) PROVE Recorded(e)' <=> Recorded(e)
  BY <1>1 DEF Create, Recorded, Row
<1>2. ASSUME NEW w \in Settlers, Settle(w)
      PROVE  Recorded(e)' <=> Recorded(e) \/ Message(w).event = e
  BY <1>2, SettleEffect
<1>3. CASE UNCHANGED activity
  BY <1>3 DEF Recorded
<1> QED BY <1>1, <1>2, <1>3, TableSteps

LEMMA TableStep == TypeInv /\ LockInv /\ TableInv /\ [Next]_vars => TableInv'
<1> SUFFICES ASSUME TypeInv, LockInv, TableInv, [Next]_vars PROVE TableInv'
  OBVIOUS
<1>1. ASSUME NEW o \in Orders PROVE ViewCase(o)'
  <2>0. ViewCase(o) BY ViewCases DEF TableInv
  <2>1. ASSUME NEW q \in Orders, Create(q) PROVE ViewCase(o)'
    BY <2>0, <2>1 DEF ViewCase, Create, TypeInv, TypeOK
  <2>2. ASSUME NEW w \in Settlers, Settle(w) PROVE ViewCase(o)'
    <3>1. CASE o # OrderOf(w) BY <2>0, <2>2, <3>1, SettleLocal DEF ViewCase
    <3>2. CASE o = OrderOf(w)
      <4>1. /\ status \in [Orders -> Statuses \cup {"none"}]
            /\ code \in [Orders -> Codes \cup {None}]
            /\ settlement \in [Orders -> Prices \cup {None}]
        BY DEF TypeInv, TypeOK
      <4> QED BY <2>0, <2>2, <3>2, <4>1, SettleEffect DEF ViewCase
    <3> QED BY <3>1, <3>2
  <2>3. CASE UNCHANGED <<status, code, settlement>> BY <2>0, <2>3 DEF ViewCase
  <2> QED BY <2>1, <2>2, <2>3, TableSteps
<1>2. ViewConsistent' BY <1>1 DEF ViewConsistent, OrderView, ViewCase
<1>3. ASSUME NEW e \in Events, Recorded(e)' PROVE Concluded(e.order)'
  <2>0. e.order \in Orders BY DEF Events
  <2>1. CASE Recorded(e) BY <2>0, <2>1, ConcludedStable DEF TableInv, RecordInv
  <2>2. ASSUME NEW w \in Settlers, Settle(w), Message(w).event = e PROVE Concluded(e.order)'
    <3>1. OrderOf(w) = e.order BY <2>2 DEF OrderOf
    <3>2. status \in [Orders -> Statuses \cup {"none"}] BY DEF TypeInv, TypeOK
    <3> QED BY <2>0, <2>2, <3>1, <3>2, SettleEffect DEF Concluded, Terminal
  <2> QED BY <1>3, <2>1, <2>2, RecordSteps
<1> QED BY <1>2, <1>3 DEF TableInv, RecordInv
-----------------------------------------------------------------------------
(* Acknowledged means processed, for what JetStream knows to be            *)
(* acknowledged and for what a worker is about to acknowledge.             *)
ProcessedInv ==
  /\ \A i \in DOMAIN created : Acked("pricing", i) => QuotedAt(i)
  /\ \A w \in Pricers : pricer[w].pc = "ack" => QuotedAt(pricer[w].seq)
  /\ \A i \in DOMAIN priced : Acked("settlement", i) => SettledAt(i)
  /\ \A w \in Settlers : settler[w].pc = "ack" => SettledAt(settler[w].seq)

LEMMA StreamDomains ==
  ASSUME TypeInv
  PROVE  /\ DOMAIN created = 1..Len(created) /\ Len(created) \in Nat
         /\ DOMAIN priced = 1..Len(priced) /\ Len(priced) \in Nat
         /\ \A i \in DOMAIN created : created[i] \in Events
         /\ \A i \in DOMAIN priced : priced[i] \in Messages /\ priced[i].event \in Events
         /\ delivered["pricing"] \in 0..Len(created)
         /\ delivered["settlement"] \in 0..Len(priced)
<1>1. created \in Seq(Events) /\ priced \in Seq(Messages) BY DEF TypeInv, TypeOK
<1>2. delivered["pricing"] \in Nat /\ delivered["settlement"] \in Nat
  BY DEF TypeInv, TypeOK, Durables
<1>3. ASSUME NEW i \in DOMAIN priced PROVE priced[i].event \in Events
  <2>1. priced[i] \in Messages BY <1>1
  <2> QED BY <2>1 DEF Messages
<1>4. delivered["pricing"] <= Len(created) /\ delivered["settlement"] <= Len(priced)
  BY DEF TypeInv, LocalOK, DeliveredOK
<1> QED BY <1>1, <1>2, <1>3, <1>4

LEMMA AckedInStream ==
  ASSUME TypeInv, NEW i \in Nat, i >= 1
  PROVE  /\ Acked("pricing", i) => i \in DOMAIN created
         /\ Acked("settlement", i) => i \in DOMAIN priced
BY StreamDomains DEF Acked

LEMMA ProcessedStep ==
  TypeInv /\ LockInv /\ TableInv /\ ProcessedInv /\ [Next]_vars => ProcessedInv'
<1> SUFFICES ASSUME TypeInv, LockInv, TableInv, ProcessedInv, [Next]_vars
             PROVE  ProcessedInv'
  OBVIOUS
<1>0. StreamStep /\ TypeInv' BY StreamSteps, NextType
<1>1. ASSUME NEW i \in DOMAIN created, QuotedAt(i) PROVE QuotedAt(i)'
  BY <1>0, <1>1, StreamsGrow DEF QuotedAt
<1>2. ASSUME NEW i \in DOMAIN priced, SettledAt(i) PROVE SettledAt(i)'
  <2>1. priced'[i] = priced[i] /\ priced[i].event \in Events
    BY <1>0, StreamsGrow, StreamDomains
  <2>2. Recorded(priced[i].event)' BY <1>2, <2>1, RecordSteps DEF SettledAt
  <2> QED BY <2>1, <2>2 DEF SettledAt, Recorded
<1>3. ASSUME NEW i \in DOMAIN created', Acked("pricing", i)' PROVE QuotedAt(i)'
  <2>0. i \in Nat /\ i >= 1 BY <1>0 DEF TypeInv, TypeOK
  <2>1. CASE Acked("pricing", i)
    BY <1>1, <2>0, <2>1, AckedInStream DEF ProcessedInv
  <2>2. ASSUME NEW w \in Pricers, pricer[w].pc = "ack", pricer[w].seq = i PROVE QuotedAt(i)'
    BY <1>1, <2>2, InStream DEF ProcessedInv
  <2> QED BY <1>3, <2>0, <2>1, <2>2, AckSteps
<1>4. ASSUME NEW i \in DOMAIN priced', Acked("settlement", i)' PROVE SettledAt(i)'
  <2>0. i \in Nat /\ i >= 1 BY <1>0 DEF TypeInv, TypeOK
  <2>1. CASE Acked("settlement", i)
    BY <1>2, <2>0, <2>1, AckedInStream DEF ProcessedInv
  <2>2. ASSUME NEW w \in Settlers, settler[w].pc = "ack", settler[w].seq = i PROVE SettledAt(i)'
    BY <1>2, <2>2, InStream DEF ProcessedInv
  <2> QED BY <1>4, <2>0, <2>1, <2>2, AckSteps
<1>5. ASSUME NEW w \in Pricers, pricer'[w].pc = "ack" PROVE QuotedAt(pricer[w].seq)' /\ pricer'[w].seq = pricer[w].seq
  <2>1. CASE pricer'[w] = pricer[w]
    BY <1>1, <1>5, <2>1, InStream DEF ProcessedInv
  <2>2. CASE PPublish(w)
    <3>1. pricer[w].seq \in DOMAIN created BY <2>2, InStream DEF PPublish
    <3>2. PublishPriced(Quote(w)) BY <2>2 DEF PPublish
    <3>3. priced \in Seq(Messages) BY DEF TypeInv, TypeOK
    <3>4. Quote(w).event = created[pricer[w].seq] BY DEF Quote
    <3>5. Quote(w).event \in PricedIDs'
      <4>1. CASE priced' = Append(priced, Quote(w))
        <5>1. Len(priced) + 1 \in DOMAIN priced' /\ priced'[Len(priced) + 1] = Quote(w)
          BY <3>3, <4>1
        <5> QED BY <5>1 DEF PricedIDs
      <4>2. CASE Quote(w).event \in PricedIDs /\ priced' = priced
        BY <4>2 DEF PricedIDs
      <4> QED BY <3>2, <4>1, <4>2 DEF PublishPriced, Stored
    <3>6. created'[pricer[w].seq] = created[pricer[w].seq] BY <1>0, <3>1, StreamsGrow
    <3>7. pricer'[w].seq = pricer[w].seq BY <2>2 DEF PPublish, TypeInv, TypeOK
    <3>8. QuotedAt(pricer[w].seq)' <=> created'[pricer'[w].seq] \in PricedIDs' BY DEF QuotedAt
    <3> QED BY <3>4, <3>5, <3>6, <3>7, <3>8
  <2> QED BY <1>5, <2>1, <2>2, WorkerSteps
<1>6. ASSUME NEW w \in Settlers, settler'[w].pc = "ack" PROVE SettledAt(settler[w].seq)' /\ settler'[w].seq = settler[w].seq
  <2>1. CASE settler'[w] = settler[w]
    BY <1>2, <1>6, <2>1, InStream DEF ProcessedInv
  <2>2. CASE SCommit(w)
    <3>1. Settle(w) /\ settler[w].pc # "idle" BY <2>2 DEF SCommit, Settle
    <3>2. settler[w].seq \in DOMAIN priced /\ Message(w).event \in Events BY <3>1, InStream
    <3>3. PICK e \in Events : e = Message(w).event /\ Recorded(e)'
      BY <3>1, <3>2, SettleEffect
    <3>4. priced'[settler[w].seq] = priced[settler[w].seq] BY <1>0, <3>2, StreamsGrow
    <3>5. settler'[w].seq = settler[w].seq BY <2>2 DEF SCommit, TypeInv, TypeOK
    <3>6. priced'[settler'[w].seq].event = e BY <3>3, <3>4, <3>5 DEF Message
    <3> QED BY <3>3, <3>5, <3>6 DEF SettledAt, Recorded
  <2> QED BY <1>6, <2>1, <2>2, WorkerSteps
<1> QED BY <1>3, <1>4, <1>5, <1>6 DEF ProcessedInv, QuotedAt, SettledAt, Recorded
-----------------------------------------------------------------------------
(* The first quote.  A worker that settles a pending order at sequence i   *)
(* has all earlier messages behind it, acknowledged, hence processed,      *)
(* hence about concluded orders: none is about this one.                   *)
LEMMA FirstQuoteStep ==
  TypeInv /\ LockInv /\ TableInv /\ ProcessedInv /\ FirstQuoteWins /\ [Next]_vars
    => FirstQuoteWins'
<1> SUFFICES ASSUME TypeInv, LockInv, TableInv, ProcessedInv, FirstQuoteWins, [Next]_vars,
                    NEW o \in Orders, Concluded(o)'
             PROVE  \E i \in DOMAIN priced' :
                      /\ FirstQuote(o, i)'
                      /\ priced'[i].value = IF status'[o] = "SETTLED" THEN settlement'[o] ELSE code'[o]
  BY DEF FirstQuoteWins
<1>0. StreamStep BY StreamSteps
<1>1. CASE Concluded(o)
  <2>1. PICK i \in DOMAIN priced :
          /\ FirstQuote(o, i)
          /\ priced[i].value = IF status[o] = "SETTLED" THEN settlement[o] ELSE code[o]
    BY <1>1 DEF FirstQuoteWins
  <2>2. \A j \in 1..i : j \in DOMAIN priced /\ priced'[j] = priced[j]
    BY <1>0, StreamsGrow, StreamDomains
  <2>3. i \in DOMAIN priced' /\ i \in 1..i BY <1>0, StreamsGrow, StreamDomains
  <2>4. FirstQuote(o, i)' BY <2>1, <2>2, <2>3 DEF FirstQuote
  <2>5. status'[o] = status[o] /\ code'[o] = code[o] /\ settlement'[o] = settlement[o]
    BY <1>1, ConcludedStable
  <2> QED BY <2>1, <2>2, <2>3, <2>4, <2>5
<1>2. CASE ~Concluded(o)
  <2>1. PICK w \in Settlers : Settle(w) /\ UNCHANGED streams /\ OrderOf(w) = o
    <3>1. ASSUME NEW q \in Orders, Create(q) PROVE FALSE
      BY <1>2, <3>1 DEF Create, Concluded, Terminal, TypeInv, TypeOK
    <3>2. ~UNCHANGED <<status, code, settlement, activity>> BY <1>2 DEF Concluded
    <3>3. PICK w \in Settlers : Settle(w) /\ UNCHANGED streams BY <3>1, <3>2, TableSteps
    <3>4. OrderOf(w) = o BY <1>2, <3>3, SettleLocal DEF Concluded
    <3> QED BY <3>3, <3>4
  <2>2. PICK i \in DOMAIN priced : i = settler[w].seq
    BY <2>1, InStream DEF Settle
  <2>3. i <= delivered["settlement"] /\ i \in Nat
    BY <2>1, <2>2 DEF Settle, TypeInv, LocalOK, SettlerOK, TypeOK
  <2>4. ASSUME NEW j \in 1..(i - 1) PROVE priced[j].event.order # o
    <3>1. j \in DOMAIN priced /\ j < delivered["settlement"]
      BY <2>2, <2>3, StreamDomains
    <3>2. Recorded(priced[j].event) BY <3>1 DEF ProcessedInv, Acked, SettledAt
    <3>3. Concluded(priced[j].event.order) BY <3>1, <3>2, StreamDomains DEF TableInv, RecordInv
    <3> QED BY <1>2, <3>3
  <2>5. FirstQuote(o, i) BY <2>1, <2>2, <2>4 DEF FirstQuote, OrderOf, Message
  <2>6. priced' = priced BY <2>1 DEF streams
  <2>7. FirstQuote(o, i)' BY <2>5, <2>6 DEF FirstQuote
  <2>8. priced[i].value = IF status'[o] = "SETTLED" THEN settlement'[o] ELSE code'[o]
    <3>1. /\ status \in [Orders -> Statuses \cup {"none"}]
          /\ code \in [Orders -> Codes \cup {None}]
          /\ settlement \in [Orders -> Prices \cup {None}]
      BY DEF TypeInv, TypeOK
    <3>2. priced[i] = Message(w) BY <2>2 DEF Message
    <3> QED BY <1>2, <2>1, <3>1, <3>2, SettleEffect DEF Concluded, Terminal
  <2> QED BY <2>2, <2>6, <2>7, <2>8
<1> QED BY <1>1, <1>2
-----------------------------------------------------------------------------
(* The outbox.  An event is published only of a committed order, and a row *)
(* is marked only after its event is in the stream.                        *)
OutboxInv ==
  /\ NoPhantomEvent
  /\ \A o \in Orders : outbox[o] = "none" <=> status[o] = "none"
  /\ \A d \in Dispatchers : dispatcher[d].pc # "idle" => status[dispatcher[d].order] # "none"
  /\ \A o \in Orders : outbox[o] = "published" => OutboxEvent(o) \in CreatedIDs
  /\ \A d \in Dispatchers :
       dispatcher[d].pc = "published" => OutboxEvent(dispatcher[d].order) \in CreatedIDs

(* The outbox changes with a new order and when a dispatcher marks a row.  *)
LEMMA OutboxSteps ==
  ASSUME TypeInv, [Next]_vars
  PROVE  /\ \/ UNCHANGED outbox
            \/ \E o \in Orders : Create(o)
            \/ \E d \in Dispatchers : DMark(d)
         /\ \A d \in Dispatchers : dispatcher'[d].pc # "idle" =>
              \/ dispatcher'[d] = dispatcher[d]
              \/ DSelect(d)
              \/ DPublish(d) /\ dispatcher'[d].order = dispatcher[d].order
<1> USE DEF tables, workers
<1>0. dispatcher \in [Dispatchers -> [pc : {"idle", "selected", "published"},
                                     order : Orders \cup {None}]]
  BY DEF TypeInv, TypeOK
<1>1. ASSUME NEW d \in Dispatchers, Dispatching(d) \/ DFault(d)
      PROVE  /\ UNCHANGED outbox \/ DMark(d)
             /\ \A x \in Dispatchers : dispatcher'[x].pc # "idle" =>
                  \/ dispatcher'[x] = dispatcher[x]
                  \/ DSelect(x)
                  \/ DPublish(x) /\ dispatcher'[x].order = dispatcher[x].order
  BY <1>0, <1>1 DEF Dispatching, DFault, DSelect, DPublish, DMark, DPublishUnconfirmed,
                    DAbort, IdleDispatcher
<1>2. CASE \E o \in Orders : Create(o) BY <1>2 DEF Create
<1>3. CASE \E e \in Events : DuplicateCreated(e) BY <1>3 DEF DuplicateCreated
<1>4. CASE \E w \in Pricers : Pricing(w) \/ PFault(w)
  BY <1>4 DEF Pricing, PFault, PFetch, PLookup, PPublish, PAck, PPublishUnanswered,
              PAckUnanswered, PFail, PCrash
<1>5. CASE \E w \in Settlers : Settling(w) \/ SFault(w)
  BY <1>5 DEF Settling, SFault, SFetch, SLock, SCommit, SAck, SCommitUnconfirmed,
              SAckUnanswered, SFail, SCrash
<1>6. CASE \E c \in Durables : AckWaitElapses(c) \/ AckWaitOvertakes(c)
  BY <1>6 DEF AckWaitElapses, AckWaitOvertakes, AckWait
<1>7. CASE UNCHANGED vars BY <1>7 DEF vars
<1> QED BY <1>1, <1>2, <1>3, <1>4, <1>5, <1>6, <1>7 DEF Next

(* An order that exists goes on existing.                                  *)
LEMMA KnownStable ==
  ASSUME TypeInv, LockInv, TableInv, [Next]_vars, NEW o \in Orders
  PROVE  /\ status[o] # "none" => status'[o] # "none"
         /\ status[o] = "none" /\ status'[o] # "none" => Create(o)
<1>0. status \in [Orders -> Statuses \cup {"none"}] BY DEF TypeInv, TypeOK
<1>1. ASSUME NEW q \in Orders, Create(q)
      PROVE  /\ status[o] # "none" => status'[o] # "none"
             /\ status[o] = "none" /\ status'[o] # "none" => Create(o)
  BY <1>0, <1>1 DEF Create
<1>2. ASSUME NEW w \in Settlers, Settle(w)
      PROVE  (status[o] = "none") = (status'[o] = "none")
  <2>1. CASE o # OrderOf(w) BY <1>2, <2>1, SettleLocal
  <2>2. CASE o = OrderOf(w) BY <1>0, <1>2, <2>2, SettleEffect DEF Terminal
  <2> QED BY <2>1, <2>2
<1> QED BY <1>1, <1>2, TableSteps

LEMMA OutboxStep == TypeInv /\ LockInv /\ TableInv /\ OutboxInv /\ [Next]_vars => OutboxInv'
<1> SUFFICES ASSUME TypeInv, LockInv, TableInv, OutboxInv, [Next]_vars PROVE OutboxInv'
  OBVIOUS
<1>0. /\ StreamStep /\ TypeInv'
      /\ created \in Seq(Events) /\ priced \in Seq(Messages)
      /\ outbox \in [Orders -> {"none", "pending", "published"}]
  BY StreamSteps, NextType DEF TypeInv, TypeOK
<1>1. \A o \in Orders : outbox'[o] = "none" <=> status'[o] = "none"
  <2>1. ASSUME NEW o \in Orders, Create(o)
        PROVE  \A q \in Orders : outbox'[q] = "none" <=> status'[q] = "none"
    BY <1>0, <2>1 DEF OutboxInv, Create, TypeInv, TypeOK
  <2>2. ASSUME NEW d \in Dispatchers, DMark(d)
        PROVE  \A q \in Orders : outbox'[q] = "none" <=> status'[q] = "none"
    <3>1. dispatcher[d].order \in Orders /\ status[dispatcher[d].order] # "none"
      BY <2>2 DEF DMark, OutboxInv, TypeInv, LocalOK, DispatcherOK
    <3> QED BY <1>0, <2>2, <3>1 DEF OutboxInv, DMark
  <2>3. ASSUME UNCHANGED outbox, \A o \in Orders : ~Create(o)
        PROVE  \A q \in Orders : outbox'[q] = "none" <=> status'[q] = "none"
    BY <2>3, KnownStable DEF OutboxInv
  <2> QED BY <2>1, <2>2, <2>3, OutboxSteps
<1>2. ASSUME NEW d \in Dispatchers, dispatcher'[d].pc # "idle"
      PROVE  status'[dispatcher'[d].order] # "none"
  <2>0. dispatcher'[d].order \in Orders BY <1>0, <1>2 DEF TypeInv, LocalOK, DispatcherOK
  <2>1. status[dispatcher'[d].order] # "none"
    <3>1. CASE DSelect(d)
      BY <1>0, <3>1 DEF DSelect, Selectable, OutboxInv, TypeInv, TypeOK
    <3>2. CASE dispatcher'[d] = dispatcher[d] BY <1>2, <3>2 DEF OutboxInv
    <3>3. CASE DPublish(d) /\ dispatcher'[d].order = dispatcher[d].order
      BY <3>3 DEF OutboxInv, DPublish
    <3> QED BY <1>2, <3>1, <3>2, <3>3, OutboxSteps
  <2> QED BY <2>0, <2>1, KnownStable
<1>3. ASSUME NEW o \in Orders, outbox'[o] = "published" PROVE OutboxEvent(o) \in CreatedIDs'
  <2>1. outbox[o] = "published" \/ OutboxEvent(o) \in CreatedIDs
    BY <1>0, <1>3, OutboxSteps DEF Create, DMark, OutboxInv
  <2> QED BY <1>0, <2>1, StreamsGrow DEF OutboxInv
<1>4. ASSUME NEW d \in Dispatchers, dispatcher'[d].pc = "published"
      PROVE  OutboxEvent(dispatcher'[d].order) \in CreatedIDs'
  <2>1. CASE dispatcher'[d] = dispatcher[d]
    BY <1>0, <1>4, <2>1, StreamsGrow DEF OutboxInv
  <2>2. CASE DSelect(d) BY <1>4, <2>2 DEF DSelect, TypeInv, TypeOK
  <2>3. CASE DPublish(d) /\ dispatcher'[d].order = dispatcher[d].order
    <3>1. PICK e : e = OutboxEvent(dispatcher[d].order) OBVIOUS
    <3>2. Stored(created, CreatedIDs, e, e, created') BY <2>3, <3>1 DEF DPublish, PublishCreated
    <3>3. e \in CreatedIDs'
      <4>1. CASE created' = Append(created, e)
        <5>1. Len(created) + 1 \in DOMAIN created' /\ created'[Len(created) + 1] = e
          BY <1>0, <4>1
        <5> QED BY <5>1 DEF CreatedIDs
      <4>2. CASE e \in CreatedIDs /\ created' = created BY <4>2 DEF CreatedIDs
      <4> QED BY <3>2, <4>1, <4>2 DEF Stored
    <3> QED BY <2>3, <3>1, <3>3 DEF OutboxEvent
  <2> QED BY <1>4, <2>1, <2>2, <2>3, OutboxSteps
<1>5. ASSUME NEW i \in DOMAIN created' PROVE status'[created'[i].order] # "none"
  <2>0. created'[i] \in Events BY <1>0, StreamDomains DEF TypeInv, TypeOK
  <2>1. status[created'[i].order] # "none"
    <3>1. CASE i \in DOMAIN created BY <1>0, <3>1, StreamsGrow DEF OutboxInv, NoPhantomEvent
    <3>2. CASE i \notin DOMAIN created
      <4>1. PICK e \in Events :
              /\ created' = Append(created, e)
              /\ \/ status[e.order] # "none"
                 \/ \E d \in Dispatchers : /\ dispatcher[d].pc # "idle"
                                           /\ e = OutboxEvent(dispatcher[d].order)
        BY <1>0, <3>2 DEF StreamStep, streams
      <4>2. created'[i] = e BY <1>0, <3>2, <4>1
      <4>3. status[e.order] # "none" BY <4>1 DEF OutboxInv, OutboxEvent
      <4> QED BY <4>2, <4>3
    <3> QED BY <3>1, <3>2
  <2> QED BY <2>0, <2>1, KnownStable DEF Events
<1>6. ASSUME NEW i \in DOMAIN priced' PROVE status'[priced'[i].event.order] # "none"
  <2>0. priced'[i].event \in Events
    <3>1. priced' \in Seq(Messages) BY <1>0 DEF TypeInv, TypeOK
    <3>2. priced'[i] \in Messages BY <3>1
    <3> QED BY <3>2 DEF Messages
  <2>1. status[priced'[i].event.order] # "none"
    <3>1. CASE i \in DOMAIN priced BY <1>0, <3>1, StreamsGrow DEF OutboxInv, NoPhantomEvent
    <3>2. CASE i \notin DOMAIN priced
      <4>1. PICK w \in Pricers : pricer[w].pc = "publish" /\ priced' = Append(priced, Quote(w))
        BY <1>0, <3>2 DEF StreamStep, streams
      <4>2. priced'[i] = Quote(w) BY <1>0, <3>2, <4>1
      <4>3. pricer[w].seq \in DOMAIN created BY <4>1, InStream
      <4> QED BY <4>2, <4>3 DEF Quote, OutboxInv, NoPhantomEvent
    <3> QED BY <3>1, <3>2
  <2> QED BY <2>0, <2>1, KnownStable DEF Events
<1> QED BY <1>1, <1>2, <1>3, <1>4, <1>5, <1>6 DEF OutboxInv, NoPhantomEvent, OutboxEvent, CreatedIDs
-----------------------------------------------------------------------------
(* The inductive invariant, and the theorems about the specification.      *)
IInv == /\ TypeInv /\ LockInv /\ TableInv
        /\ ProcessedInv /\ FirstQuoteWins /\ OutboxInv

LEMMA InitIInv == Init => IInv
<1> SUFFICES ASSUME Init PROVE IInv
  OBVIOUS
<1>1. TypeInv BY InitType
<1>2. LockInv BY DEF Init, LockInv, IdleSettler
<1>3. TableInv
  <2>1. ViewConsistent BY DEF Init, ViewConsistent, OrderView
  <2>2. RecordInv BY DEF Init, RecordInv, Recorded
  <2> QED BY <2>1, <2>2 DEF TableInv
<1>4. DOMAIN created = {} /\ DOMAIN priced = {} BY DEF Init
<1>5. ProcessedInv BY <1>4 DEF Init, ProcessedInv, IdlePricer, IdleSettler
<1>6. FirstQuoteWins BY DEF Init, FirstQuoteWins, Concluded, Terminal
<1>7. OutboxInv BY <1>4 DEF Init, OutboxInv, NoPhantomEvent, IdleDispatcher
<1> QED BY <1>1, <1>2, <1>3, <1>5, <1>6, <1>7 DEF IInv

LEMMA NextIInv == IInv /\ [Next]_vars => IInv'
BY NextType, LockStep, TableStep, ProcessedStep, FirstQuoteStep, OutboxStep DEF IInv

(* The inductive invariant holds in every reachable state.                 *)
THEOREM Invariance == Spec => []IInv
BY InitIInv, NextIInv, PTL DEF Spec

(* No event of either stream is about an order that is not committed.      *)
THEOREM NoPhantoms == Spec => []NoPhantomEvent
<1>1. IInv => NoPhantomEvent BY DEF IInv, OutboxInv
<1> QED BY <1>1, Invariance, PTL

(* A message is acknowledged only after its effect is durable.             *)
THEOREM AcknowledgedAfterEffect == Spec => []AckedIsProcessed
<1>1. IInv => AckedIsProcessed
  BY StreamDomains DEF IInv, ProcessedInv, TableInv, RecordInv, SettledAt, AckedIsProcessed
<1> QED BY <1>1, Invariance, PTL

(* A client never reads half a settlement.                                 *)
THEOREM ViewsAreConsistent == Spec => []ViewConsistent
<1>1. IInv => ViewConsistent BY DEF IInv, TableInv
<1> QED BY <1>1, Invariance, PTL

(* An order concludes with its first quote.                                *)
THEOREM FirstQuotes == Spec => []FirstQuoteWins
<1>1. IInv => FirstQuoteWins BY DEF IInv
<1> QED BY <1>1, Invariance, PTL

(* An open order has an unpublished outbox row or an unacknowledged        *)
(* message: published means the event is in the stream, acknowledged there *)
(* means quoted, and a quote acknowledged means the order is concluded.    *)
THEOREM NobodyStranded == Spec => []NeverStranded
<1>1. IInv => NeverStranded
  <2> SUFFICES ASSUME IInv, NEW o \in Orders, status[o] \in {"PENDING", "PRICE_RESOLVED"},
                      outbox[o] # "pending",
                      \A i \in DOMAIN created : created[i].order = o => Acked("pricing", i),
                      \A i \in DOMAIN priced : priced[i].event.order = o => Acked("settlement", i)
               PROVE  FALSE
    BY DEF NeverStranded
  <2>1. outbox[o] = "published" BY DEF IInv, OutboxInv, TypeInv, TypeOK
  <2>2. PICK i \in DOMAIN created : created[i] = OutboxEvent(o)
    BY <2>1 DEF IInv, OutboxInv, CreatedIDs
  <2>3. created[i].order = o BY <2>2 DEF OutboxEvent
  <2>4. PICK j \in DOMAIN priced : priced[j].event = created[i]
    BY <2>3 DEF IInv, ProcessedInv, QuotedAt, PricedIDs
  <2>5. Recorded(priced[j].event) BY <2>3, <2>4 DEF IInv, ProcessedInv, SettledAt
  <2>6. Concluded(o) BY <2>3, <2>4, <2>5, StreamDomains DEF IInv, TableInv, RecordInv
  <2> QED BY <2>6 DEF Concluded, Terminal
<1> QED BY <1>1, Invariance, PTL

(* The pipeline implements the abstract order book: the initial states map *)
(* to its initial state, an order accepted to Accept, a settlement         *)
(* transaction that finds its order pending to Conclude, and every other   *)
(* step to a stutter.                                                      *)
THEOREM Implementation == Spec => ImplementsLifecycle
<1> DEFINE ledger == [o \in Orders |-> LedgerOf(o)]
<1>1. Init => Lifecycle!Init
  BY DEF Init, Lifecycle!Init, LedgerOf, Lifecycle!Absent, Lifecycle!Entry
<1>2. IInv /\ [Next]_vars => [Lifecycle!Next]_ledger
  <2> SUFFICES ASSUME IInv, [Next]_vars PROVE [Lifecycle!Next]_ledger
    OBVIOUS
  <2>0. /\ TypeInv /\ LockInv /\ TableInv
        /\ status \in [Orders -> Statuses \cup {"none"}]
        /\ code \in [Orders -> Codes \cup {None}]
        /\ settlement \in [Orders -> Prices \cup {None}]
    BY DEF IInv, TypeInv, TypeOK
  <2>1. ASSUME NEW o \in Orders, Create(o) PROVE Lifecycle!Accept(o)
    <3>1. LedgerOf(o) = Lifecycle!Absent
      BY <2>1 DEF Create, LedgerOf, Lifecycle!Absent, Lifecycle!Entry
    <3>2. LedgerOf(o)' = Lifecycle!Open
      BY <2>0, <2>1 DEF Create, LedgerOf, Lifecycle!Open, Lifecycle!Entry
    <3>3. \A q \in Orders : q # o => LedgerOf(q)' = LedgerOf(q)
      BY <2>0, <2>1 DEF Create, LedgerOf
    <3> QED BY <3>1, <3>2, <3>3 DEF Lifecycle!Accept
  <2>2. ASSUME NEW w \in Settlers, Settle(w), status[OrderOf(w)] = "PENDING"
        PROVE  Lifecycle!Conclude(OrderOf(w))
    <3>1. PICK o \in Orders : o = OrderOf(w) BY <2>0, <2>2, SettleEffect
    <3>2. LedgerOf(o) = Lifecycle!Open
      BY <2>2, <3>1 DEF LedgerOf, Lifecycle!Open, Lifecycle!Entry
    <3>3. \A q \in Orders : q # o => LedgerOf(q)' = LedgerOf(q)
      BY <2>0, <2>2, <3>1, SettleLocal DEF LedgerOf
    <3>4. LedgerOf(o)' \in Lifecycle!Conclusions
      BY <2>0, <2>2, <3>1, SettleEffect DEF LedgerOf, Lifecycle!Conclusions, Lifecycle!Entry,
                                            Terminal
    <3> QED BY <3>1, <3>2, <3>3, <3>4 DEF Lifecycle!Conclude
  <2>3. ASSUME NEW w \in Settlers, Settle(w), status[OrderOf(w)] # "PENDING"
        PROVE  UNCHANGED ledger
    BY <2>0, <2>3, SettleEffect DEF LedgerOf
  <2>4. CASE UNCHANGED <<status, code, settlement>> BY <2>4 DEF LedgerOf
  <2>5. ASSUME NEW w \in Settlers, Settle(w) PROVE OrderOf(w) \in Orders
    BY <2>0, <2>5, SettleEffect
  <2> QED BY <2>0, <2>1, <2>2, <2>3, <2>4, <2>5, TableSteps DEF Lifecycle!Next
<1> QED BY <1>1, <1>2, Invariance, PTL DEF ImplementsLifecycle, Lifecycle!Spec, Spec
-----------------------------------------------------------------------------
(* The audit trail tells exactly what became of an order.                  *)

(* AuditMatchesOutcome, order by order and row by row.                     *)
IsEffect(a, o)  == a.event.order = o /\ a.kind \in {"PRICE_RESOLVED", "PRICE_FAILED"}
IsSettled(a, o) == a.event.order = o /\ a.stage = "settled"

EffectKind(s) == IF s = "SETTLED" THEN "PRICE_RESOLVED" ELSE "PRICE_FAILED"

(* The event e, and no other, had its effect on order o.                   *)
Effected(o, e) ==
  /\ Row(e, "price", EffectKind(status[o])) \in activity
  /\ \A a \in activity : IsEffect(a, o) => a = Row(e, "price", EffectKind(status[o]))
  /\ \A a \in activity : IsSettled(a, o) => a.event = e /\ status[o] = "SETTLED"
  /\ status[o] = "SETTLED" => \E a \in activity : IsSettled(a, o)

NoEffect(o) == \A a \in activity : ~IsEffect(a, o) /\ ~IsSettled(a, o)

AuditAt(o) == IF Concluded(o) THEN \E e \in Events : e.order = o /\ Effected(o, e)
                              ELSE NoEffect(o)

AuditInv == \A o \in Orders : AuditAt(o)

LEMMA AuditFollows == AuditInv => AuditMatchesOutcome
<1> SUFFICES ASSUME AuditInv, NEW o \in Orders
             PROVE  LET effect == IF status[o] = "SETTLED" THEN "PRICE_RESOLVED" ELSE "PRICE_FAILED"
                        settledBy == {a.event : a \in {b \in activity : b.event.order = o
                                                                      /\ b.stage = "settled"}}
                    IN IF Concluded(o)
                       THEN \E e \in Events :
                              /\ EffectRows(o) = {Row(e, "price", effect)}
                              /\ settledBy = IF status[o] = "SETTLED" THEN {e} ELSE {}
                       ELSE EffectRows(o) = {} /\ settledBy = {}
  BY DEF AuditMatchesOutcome
<1>1. CASE Concluded(o)
  <2>1. PICK e \in Events : e.order = o /\ Effected(o, e) BY <1>1 DEF AuditInv, AuditAt
  <2>2. IsEffect(Row(e, "price", EffectKind(status[o])), o)
    BY <2>1 DEF Row, IsEffect, EffectKind
  <2>3. EffectRows(o) = {Row(e, "price", EffectKind(status[o]))}
    BY <2>1, <2>2 DEF EffectRows, Effected, IsEffect
  <2>4. {a.event : a \in {b \in activity : b.event.order = o /\ b.stage = "settled"}}
          = IF status[o] = "SETTLED" THEN {e} ELSE {}
    BY <2>1 DEF Effected, IsSettled
  <2> QED BY <1>1, <2>3, <2>4 DEF EffectKind
<1>2. CASE ~Concluded(o)
  BY <1>2 DEF AuditInv, AuditAt, NoEffect, EffectRows, IsEffect, IsSettled
<1> QED BY <1>1, <1>2

LEMMA InitAudit == Init => AuditInv
BY DEF Init, AuditInv, AuditAt, NoEffect, Concluded, Terminal

LEMMA AuditStep == IInv /\ AuditInv /\ [Next]_vars => AuditInv'
<1> SUFFICES ASSUME IInv, AuditInv, [Next]_vars, NEW o \in Orders PROVE AuditAt(o)'
  BY DEF AuditInv
<1>0. /\ TypeInv /\ LockInv /\ TableInv /\ AuditAt(o)
      /\ status \in [Orders -> Statuses \cup {"none"}]
  BY DEF IInv, AuditInv, TypeInv, TypeOK
(* Rows that are no effect on this order change nothing for it.            *)
<1>1. ASSUME status'[o] = status[o], activity \subseteq activity',
             \A a \in activity' \ activity : ~IsEffect(a, o) /\ ~IsSettled(a, o)
      PROVE  AuditAt(o)'
  <2>1. ASSUME NEW e, Effected(o, e) PROVE Effected(o, e)'
    BY <1>1, <2>1 DEF Effected
  <2> QED BY <1>0, <1>1, <2>1 DEF AuditAt, NoEffect, Concluded
<1>2. ASSUME NEW q \in Orders, Create(q) PROVE AuditAt(o)'
  <2>1. activity' = activity \cup {Row(OutboxEvent(q), "created", "PENDING")}
    BY <1>2 DEF Create
  <2>2. \A a \in activity' \ activity : ~IsEffect(a, o) /\ ~IsSettled(a, o)
    BY <2>1 DEF Row, IsEffect, IsSettled
  <2>3. CASE q = o
    <3>1. ~Concluded(o) /\ ~Concluded(o)' BY <1>0, <1>2, <2>3 DEF Create, Concluded, Terminal
    <3> QED BY <1>0, <2>1, <2>2, <3>1 DEF AuditAt, NoEffect
  <2>4. CASE q # o BY <1>0, <1>1, <1>2, <2>1, <2>2, <2>4 DEF Create
  <2> QED BY <2>3, <2>4
<1>3. ASSUME NEW w \in Settlers, Settle(w) PROVE AuditAt(o)'
  <2>e. PICK e \in Events, q \in Orders : e = Message(w).event /\ q = OrderOf(w)
    BY <1>0, <1>3, InStream DEF Settle
  <2>0. /\ e.order = q /\ e = Message(w).event /\ q = OrderOf(w)
        /\ settler[w].read = status[q] /\ status[q] \in {"PENDING", "SETTLED", "FAILED"}
    <3>1. settler[w].read = status[q] /\ status[q] # "none"
      BY <1>0, <1>3, <2>e DEF Settle, LockInv
    <3>2. ViewCase(q) BY <1>0, ViewCases DEF TableInv
    <3> QED BY <2>e, <3>1, <3>2 DEF ViewCase, OrderOf
  <2>1. CASE AlreadyRecorded(w) BY <1>1, <2>1 DEF AlreadyRecorded
  <2>2. CASE RecordOnly(w)
    <3>1. activity' = activity \cup {Row(e, "price", "DUPLICATE_IGNORED")}
      BY <2>0, <2>2 DEF RecordOnly, PriceRow, KindFor, Terminal
    <3>2. \A a \in activity' \ activity : ~IsEffect(a, o) /\ ~IsSettled(a, o)
      BY <3>1 DEF Row, IsEffect, IsSettled
    <3> QED BY <1>1, <2>2, <3>1, <3>2 DEF RecordOnly
  <2>3. CASE FailOrder(w)
    <3>1. /\ activity' = activity \cup {Row(e, "price", "PRICE_FAILED")}
          /\ status' = [status EXCEPT ![q] = "FAILED"] /\ status[q] = "PENDING"
      BY <2>0, <2>3 DEF FailOrder, PriceRow, KindFor, Terminal
    <3>2. CASE o = q
      <4>1. NoEffect(o) BY <1>0, <3>1, <3>2 DEF AuditAt, Concluded, Terminal
      <4>2. status'[o] = "FAILED" BY <1>0, <3>1, <3>2
      <4>3. Effected(o, e)'
        BY <3>1, <4>1, <4>2 DEF Effected, NoEffect, EffectKind, Row, IsEffect, IsSettled
      <4> QED BY <2>0, <3>2, <4>2, <4>3 DEF AuditAt, Concluded, Terminal
    <3>3. CASE o # q
      <4>1. \A a \in activity' \ activity : ~IsEffect(a, o) /\ ~IsSettled(a, o)
        BY <2>0, <3>1, <3>3 DEF Row, IsEffect, IsSettled
      <4> QED BY <1>0, <1>1, <3>1, <3>3, <4>1
    <3> QED BY <3>2, <3>3
  <2>4. CASE SettleOrder(w)
    <3>1. /\ activity' = activity \cup {Row(e, "price", "PRICE_RESOLVED"),
                                        Row(e, "settled", "SETTLED")}
          /\ status' = [status EXCEPT ![q] = "SETTLED"] /\ status[q] = "PENDING"
      BY <2>0, <2>4 DEF SettleOrder, PriceRow, KindFor, Terminal
    <3>2. CASE o = q
      <4>1. NoEffect(o) BY <1>0, <3>1, <3>2 DEF AuditAt, Concluded, Terminal
      <4>2. status'[o] = "SETTLED" BY <1>0, <3>1, <3>2
      <4>3. IsSettled(Row(e, "settled", "SETTLED"), o) BY <2>0, <3>2 DEF IsSettled, Row
      <4>4. EffectKind(status'[o]) = "PRICE_RESOLVED" BY <4>2 DEF EffectKind
      <4>5. \A a \in activity' : IsEffect(a, o) => a = Row(e, "price", "PRICE_RESOLVED")
        BY <3>1, <4>1 DEF NoEffect, Row, IsEffect
      <4>6. \A a \in activity' : IsSettled(a, o) => a.event = e
        BY <3>1, <4>1 DEF NoEffect, Row, IsSettled
      <4>7. Effected(o, e)' BY <3>1, <4>2, <4>3, <4>4, <4>5, <4>6 DEF Effected
      <4> QED BY <2>0, <3>2, <4>2, <4>7 DEF AuditAt, Concluded, Terminal
    <3>3. CASE o # q
      <4>1. \A a \in activity' \ activity : ~IsEffect(a, o) /\ ~IsSettled(a, o)
        BY <2>0, <3>1, <3>3 DEF Row, IsEffect, IsSettled
      <4> QED BY <1>0, <1>1, <3>1, <3>3, <4>1
    <3> QED BY <3>2, <3>3
  <2> QED BY <1>3, <2>1, <2>2, <2>3, <2>4 DEF Settle
<1>4. CASE UNCHANGED <<status, code, settlement, activity>> BY <1>1, <1>4
<1> QED BY <1>0, <1>2, <1>3, <1>4, TableSteps

(* Once an order is concluded its audit trail holds exactly one effect,    *)
(* the one its status tells, whatever was delivered how often to whom.     *)
THEOREM AuditTrails == Spec => []AuditMatchesOutcome
<1>1. IInv /\ AuditInv /\ [Next]_vars => AuditInv' BY AuditStep
<1>2. Spec => []AuditInv BY <1>1, InitAudit, Invariance, PTL DEF Spec
<1> QED BY <1>2, AuditFollows, PTL
=============================================================================
