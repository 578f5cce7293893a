------------------------------- MODULE Worker -------------------------------
(***************************************************************************)
(* The life of a pod that consumes events: the Consume loop of the event   *)
(* bus, the process around it (Run of the pricing and settlement services, *)
(* Serve of the runtime) from its start to its shutdown, and the durable   *)
(* consumer on the server with AckWait, MaxAckPending(1) and the stream's  *)
(* retention.  It implements Delivery.                                     *)
(*                                                                         *)
(* The handler is one step that takes effect (a publish or a transaction)  *)
(* or fails, with or without its effect; OrderPipeline has it in full.     *)
(***************************************************************************)
EXTENDS Naturals

CONSTANTS Pods,
          N,            \* messages of the stream's subject
          Valid,        \* those Consume does not terminate
          MaxExpired,   \* how many may reach the age of 24 hours
          MaxFaults     \* failures, signals and early redeliveries

Messages == 1..N

ASSUME NAssumption == N \in Nat /\ Valid \subseteq Messages
ASSUME BoundsAssumption == MaxExpired \in Nat /\ MaxFaults \in Nat

VARIABLES
  stored,     \* the stream: its last message
  expired,    \* ... the last one it has dropped
  floor,      \* the consumer: the last message it is done with
  out,        \* ... what became of the message after it
  effects,    \* the messages whose effect is durable
  main,       \* per pod: where Run is
  cancelled,  \* ... whether the context of the worker is cancelled
  worker,     \* ... where Consume is
  holds,      \* ... the message it works on
  healthy,    \* ... the flag Ready reads
  faults

server  == <<stored, expired, floor, out>>
process == <<main, cancelled>>
vars    == <<server, effects, process, worker, holds, healthy, faults>>

TypeOK ==
  /\ stored \in 0..N /\ expired \in 0..N /\ floor \in 0..N
  /\ out \in {"undelivered", "delivered", "due"}
  /\ effects \subseteq Messages
  /\ main \in [Pods -> {"serving", "stopping", "waiting", "down"}]
  /\ cancelled \in [Pods -> BOOLEAN]
  /\ worker \in [Pods -> {"fetch", "pause", "handle", "ack", "stuck", "returned"}]
  /\ holds \in [Pods -> 0..N]
  /\ healthy \in [Pods -> BOOLEAN]
  /\ faults \in 0..MaxFaults

Init ==
  /\ stored = 0 /\ expired = 0 /\ floor = 0
  /\ out = "undelivered"
  /\ effects = {}
  /\ main = [p \in Pods |-> "serving"]
  /\ cancelled = [p \in Pods |-> FALSE]
  /\ worker = [p \in Pods |-> "fetch"]
  /\ holds = [p \in Pods |-> 0]
  /\ healthy = [p \in Pods |-> TRUE]
  /\ faults = 0

Fault   == faults < MaxFaults /\ faults' = faults + 1
NoFault == UNCHANGED faults

-----------------------------------------------------------------------------
(* The server. *)

\* With MaxAckPending(1) one message at most can be fetched.
Available == floor < stored /\ out # "delivered"

Arrive ==
  /\ stored < N
  /\ stored' = stored + 1
  /\ UNCHANGED <<expired, floor, out, effects, process, worker, holds, healthy, faults>>

\* Retention: the oldest message goes, acknowledged, outstanding or neither.
Expire ==
  /\ expired < stored /\ expired < MaxExpired
  /\ expired' = expired + 1
  /\ IF floor = expired THEN floor' = expired + 1 /\ out' = "undelivered"
                        ELSE UNCHANGED <<floor, out>>
  /\ UNCHANGED <<stored, effects, process, worker, holds, healthy, faults>>

WorkedOn == \E p \in Pods : worker[p] \in {"handle", "ack"} /\ holds[p] = floor + 1

\* Fifteen seconds without an answer; early for a worker that is still busy.
AckWait ==
  /\ out = "delivered"
  /\ out' = "due"
  /\ IF WorkedOn THEN Fault ELSE NoFault
  /\ UNCHANGED <<stored, expired, floor, effects, process, worker, holds, healthy>>

\* What a fetch, an acknowledgement or a nak does when it reaches the server;
\* an acknowledgement counts whoever the message was given to last.
Delivered == Available /\ out' = "delivered" /\ UNCHANGED floor

Acked(m)  == IF m = floor + 1 THEN floor' = m /\ out' = "undelivered"
                              ELSE UNCHANGED <<floor, out>>
Naked(m)  == IF m = floor + 1 /\ out = "delivered" THEN out' = "due" /\ UNCHANGED floor
                                                   ELSE UNCHANGED <<floor, out>>
Unreached == UNCHANGED <<floor, out>>

-----------------------------------------------------------------------------
(* Consume. *)

Goes(p, to)  == worker' = [worker EXCEPT ![p] = to]
Health(p, h) == healthy' = [healthy EXCEPT ![p] = h]

\* A context error or a failed call: the next turn of the loop, if there is one.
LoopOrReturn(p) == Goes(p, IF cancelled[p] THEN "returned" ELSE "fetch")

\* Mutation: the fields of an event are not looked at.
FetchAny(p) ==
  /\ worker[p] = "fetch" /\ ~cancelled[p]
  /\ Delivered
  /\ Goes(p, "handle")
  /\ holds' = [holds EXCEPT ![p] = floor + 1]
  /\ Health(p, TRUE)
  /\ UNCHANGED <<stored, expired, effects, process, faults>>

FetchValid(p) ==
  /\ worker[p] = "fetch" /\ ~cancelled[p]
  /\ floor + 1 \in Valid /\ Delivered
  /\ Goes(p, "handle")
  /\ holds' = [holds EXCEPT ![p] = floor + 1]
  /\ Health(p, TRUE)
  /\ UNCHANGED <<stored, expired, effects, process, faults>>

\* Mutation: it is left to be redelivered.
InvalidKept(p) ==
  /\ worker[p] = "fetch" /\ ~cancelled[p]
  /\ floor + 1 \notin Valid
  /\ Delivered /\ NoFault
  /\ Health(p, TRUE)
  /\ UNCHANGED <<stored, expired, effects, process, worker, holds>>

\* An event that does not decode is terminated; the call is not confirmed.
FetchInvalid(p) ==
  /\ worker[p] = "fetch" /\ ~cancelled[p]
  /\ floor + 1 \notin Valid /\ Available
  /\ \/ Acked(floor + 1) /\ NoFault
     \/ Delivered /\ Fault
  /\ Health(p, TRUE)
  /\ UNCHANGED <<stored, expired, effects, process, worker, holds>>

\* Mutation: a timeout is not told from other errors.
TimeoutUnhealthy(p) ==
  /\ worker[p] = "fetch" /\ ~cancelled[p]
  /\ ~Available
  /\ Health(p, FALSE)
  /\ UNCHANGED <<server, effects, process, worker, holds, faults>>

\* Five seconds with no message.
FetchTimeout(p) ==
  /\ worker[p] = "fetch" /\ ~cancelled[p]
  /\ ~Available
  /\ Health(p, TRUE)
  /\ UNCHANGED <<server, effects, process, worker, holds, faults>>

\* Another error, perhaps with a message on its way.
FetchFails(p) ==
  /\ worker[p] = "fetch" /\ ~cancelled[p]
  /\ Fault
  /\ Delivered \/ Unreached
  /\ Goes(p, "pause")
  /\ Health(p, FALSE)
  /\ UNCHANGED <<stored, expired, effects, process, holds>>

\* A fetch that ends after the context does, perhaps with a message.
FetchCancelled(p) ==
  /\ worker[p] = "fetch" /\ cancelled[p]
  /\ Delivered \/ Unreached
  /\ Goes(p, "returned")
  /\ UNCHANGED <<stored, expired, effects, process, holds, healthy, faults>>

PauseEnds(p) ==
  /\ worker[p] = "pause"
  /\ LoopOrReturn(p)
  /\ UNCHANGED <<server, effects, process, holds, healthy, faults>>

TakesEffect(p) == effects' = effects \cup {holds[p]}

Handle(p) ==
  /\ worker[p] = "handle" /\ ~cancelled[p]
  /\ TakesEffect(p)
  /\ Goes(p, "ack")
  /\ UNCHANGED <<server, process, holds, healthy, faults>>

\* Mutation: a failed message is acknowledged after all.
HandleFailsAcked(p) ==
  /\ worker[p] = "handle"
  /\ TakesEffect(p) \/ UNCHANGED effects
  /\ IF cancelled[p] THEN NoFault ELSE Fault
  /\ Unreached
  /\ Goes(p, IF cancelled[p] THEN "returned" ELSE "ack")
  /\ UNCHANGED <<stored, expired, process, holds, healthy>>

\* The handler returns an error, its effect made or not.  Without a
\* cancellation the message is given back, if the nak arrives.
HandleFails(p) ==
  /\ worker[p] = "handle"
  /\ TakesEffect(p) \/ UNCHANGED effects
  /\ IF cancelled[p] THEN NoFault /\ Unreached
                     ELSE Fault /\ (Naked(holds[p]) \/ Unreached)
  /\ LoopOrReturn(p)
  /\ UNCHANGED <<stored, expired, process, holds, healthy>>

Ack(p) ==
  /\ worker[p] = "ack" /\ ~cancelled[p]
  /\ Acked(holds[p])
  /\ Goes(p, "fetch")
  /\ UNCHANGED <<stored, expired, effects, process, holds, healthy, faults>>

\* AckSync returns an error: the acknowledgement has arrived or has not.
AckFails(p) ==
  /\ worker[p] = "ack"
  /\ IF cancelled[p] THEN NoFault ELSE Fault
  /\ Acked(holds[p]) \/ Unreached
  /\ LoopOrReturn(p)
  /\ UNCHANGED <<stored, expired, effects, process, holds, healthy>>

\* Publish and AckSync have the worker's context and no deadline: when the
\* reply is lost with a connection that comes back, they wait for the context.
ReplyLost(p) ==
  /\ Fault
  /\ \/ worker[p] = "handle" /\ (TakesEffect(p) \/ UNCHANGED effects) /\ Unreached
     \/ worker[p] = "ack" /\ (Acked(holds[p]) \/ Unreached) /\ UNCHANGED effects
  /\ Goes(p, "stuck")
  /\ UNCHANGED <<stored, expired, process, holds, healthy>>

Unstuck(p) ==
  /\ worker[p] = "stuck" /\ cancelled[p]
  /\ Goes(p, "returned")
  /\ UNCHANGED <<server, effects, process, holds, healthy, faults>>

Consume(p) == \/ FetchValid(p) \/ FetchInvalid(p) \/ FetchTimeout(p) \/ FetchCancelled(p)
              \/ PauseEnds(p) \/ Handle(p) \/ Ack(p) \/ Unstuck(p)
              \/ (cancelled[p] /\ (HandleFails(p) \/ AckFails(p)))

-----------------------------------------------------------------------------
(* The process: Serve, then the deferred calls of Run. *)

Main(p, from, to) == main[p] = from /\ main' = [main EXCEPT ![p] = to]
Cancel(p) == cancelled' = [cancelled EXCEPT ![p] = TRUE]

Sigterm(p) ==
  /\ Main(p, "serving", "stopping") /\ Cancel(p)
  /\ Fault
  /\ UNCHANGED <<server, effects, worker, holds, healthy>>

\* The HTTP server is drained, or closed after eight seconds.
Drained(p) ==
  /\ Main(p, "stopping", "waiting")
  /\ UNCHANGED <<server, effects, cancelled, worker, holds, healthy, faults>>

\* Mutation: ... and wg.Wait without the cancel.
ServeFailsUncancelled(p) ==
  /\ Main(p, "serving", "waiting")
  /\ Fault
  /\ UNCHANGED <<server, effects, cancelled, worker, holds, healthy>>

\* The listener fails: Serve returns, the deferred cancel stops the worker.
ServeFails(p) ==
  /\ Main(p, "serving", "waiting") /\ Cancel(p)
  /\ Fault
  /\ UNCHANGED <<server, effects, worker, holds, healthy>>

\* wg.Wait is over: the connections are closed and the process ends.
Exit(p) ==
  /\ Main(p, "waiting", "down")
  /\ worker[p] = "returned"
  /\ UNCHANGED <<server, effects, cancelled, worker, holds, healthy, faults>>

Kill(p) ==
  /\ main[p] # "down" /\ main' = [main EXCEPT ![p] = "down"]
  /\ Fault
  /\ Goes(p, "returned")
  /\ UNCHANGED <<server, effects, cancelled, holds, healthy>>

\* Kubernetes starts a container.
Start(p) ==
  /\ Main(p, "down", "serving")
  /\ cancelled' = [cancelled EXCEPT ![p] = FALSE]
  /\ Goes(p, "fetch")
  /\ Health(p, TRUE)
  /\ UNCHANGED <<server, effects, holds, faults>>

Shutdown(p) == Drained(p) \/ Exit(p)

Next ==
  \/ Arrive \/ Expire \/ AckWait
  \/ \E p \in Pods : \/ Consume(p) \/ FetchFails(p) \/ HandleFails(p) \/ AckFails(p)
                     \/ ReplyLost(p) \/ Sigterm(p) \/ ServeFails(p) \/ Shutdown(p)
                     \/ Kill(p) \/ Start(p)

Spec == Init /\ [][Next]_vars

\* The loop and the shutdown of a pod go on, Kubernetes restarts it, the
\* server's timer runs.  Nothing is assumed of arrivals, retention and faults.
Fairness == /\ WF_vars(~WorkedOn /\ AckWait)
            /\ \A p \in Pods : /\ WF_vars(Consume(p)) /\ WF_vars(Shutdown(p))
                               /\ WF_vars(Start(p))

FairSpec == Spec /\ Fairness

-----------------------------------------------------------------------------
(* Properties. *)

\* The server forgets a valid message only after its effect, or by its age:
\* no failure, redelivery, shutdown or crash makes the consumer pass one over.
PassedHadEffect ==
  \A m \in Valid : m <= floor => m \in effects \/ m <= expired

Fate(m) == CASE m > stored -> "absent"
             [] m <= stored /\ m \in effects -> "done"
             [] m <= stored /\ m \notin effects /\ m > floor -> "due"
             [] m <= floor /\ m \notin effects /\ m \notin Valid -> "terminated"
             [] OTHER -> "expired"

D == INSTANCE Delivery WITH fate <- [m \in Messages |-> Fate(m)]

\* First effects come in the order of the stream, and invalid messages hold up
\* nobody: what OrderPipeline assumes of the server and the loop.
ImplementsDelivery == D!Spec

\* Once failures stop, every message of the stream is through, unless every
\* pod waits for a reply that was lost: one pod that does, an invalid message
\* or a pod that was killed or stopped do not hold up those behind.
EveryMessageConcludes ==
  \A m \in Messages :
    (m <= stored) ~> (m <= floor \/ \A p \in Pods : worker[p] = "stuck")

\* A shutdown ends, whatever the worker waits for: wg.Wait cannot wait for a
\* call that only the worker's context ends.
EveryShutdownEnds ==
  \A p \in Pods : main[p] \in {"stopping", "waiting"} ~> main[p] = "down"

\* A failed fetch makes a pod unready only until a later one, also when no
\* message ever comes.
ReadyAgain ==
  \A p \in Pods : main[p] = "serving" /\ ~healthy[p] ~> healthy[p] \/ main[p] # "serving"
=============================================================================
