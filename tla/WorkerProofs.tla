---------------------------- MODULE WorkerProofs ----------------------------
(***************************************************************************)
(* For any number of pods, messages and failures: the consumer passes over *)
(* no valid message before its effect, and Worker implements Delivery.     *)
(***************************************************************************)
EXTENDS Worker, TLAPS

\* What a worker holds was delivered to it, so nothing before it is outstanding.
Holding ==
  \A p \in Pods :
    /\ worker[p] \in {"handle", "ack"} => /\ holds[p] \in Valid
                                          /\ holds[p] <= floor + 1
                                          /\ holds[p] <= stored
    /\ worker[p] = "ack" => holds[p] \in effects

Progress == /\ expired <= floor /\ floor <= stored
            /\ \A m \in effects : m \in Valid /\ m <= floor + 1 /\ m <= stored

Inv == TypeOK /\ Progress /\ Holding /\ PassedHadEffect

USE NAssumption, BoundsAssumption DEF Messages

-----------------------------------------------------------------------------
(* What a step does to the stream, the consumer and the effects. *)

log == <<stored, expired, floor, effects>>

Grows    == stored < N /\ stored' = stored + 1 /\ UNCHANGED <<expired, floor, effects>>
Drops    == /\ expired < stored /\ expired' = expired + 1
            /\ floor' = IF floor = expired THEN expired + 1 ELSE floor
            /\ UNCHANGED <<stored, effects>>
Affects  == \E m \in Valid : /\ m <= floor + 1 /\ m <= stored
                             /\ effects' = effects \cup {m}
                             /\ UNCHANGED <<stored, expired, floor>>
Forgets  == /\ floor + 1 <= stored
            /\ floor + 1 \in effects \/ floor + 1 \notin Valid
            /\ floor' = floor + 1
            /\ UNCHANGED <<stored, expired, effects>>
LogStep  == Grows \/ Drops \/ Affects \/ Forgets \/ UNCHANGED log

LEMMA LogSteps ==
  ASSUME Inv, Next
  PROVE  LogStep
<1> USE DEF Inv, TypeOK, Progress, Holding, LogStep, log
<1>0. ASSUME NEW p \in Pods, worker[p] = "ack",
             Acked(holds[p]) \/ Unreached, UNCHANGED <<stored, expired, effects>>
      PROVE  LogStep
  BY <1>0 DEF Acked, Unreached, Forgets
<1>a. ASSUME NEW p \in Pods, worker[p] = "handle", UNCHANGED <<stored, expired, floor>>,
             TakesEffect(p) \/ UNCHANGED effects
      PROVE  LogStep
  BY <1>a DEF TakesEffect, Affects
<1>1. CASE Arrive
  BY <1>1 DEF Arrive, Grows
<1>2. CASE Expire
  BY <1>2 DEF Expire, Drops
<1>3. CASE AckWait
  BY <1>3 DEF AckWait
<1>4. ASSUME NEW p \in Pods, FetchValid(p) PROVE LogStep
  BY <1>4 DEF FetchValid, Delivered
<1>5. ASSUME NEW p \in Pods, FetchInvalid(p) PROVE LogStep
  BY <1>5 DEF FetchInvalid, Delivered, Available, Acked, Forgets
<1>6. ASSUME NEW p \in Pods, FetchFails(p) \/ FetchCancelled(p) PROVE LogStep
  BY <1>6 DEF FetchFails, FetchCancelled, Delivered, Unreached
<1>7. ASSUME NEW p \in Pods, FetchTimeout(p) \/ PauseEnds(p) \/ Unstuck(p) PROVE LogStep
  BY <1>7 DEF FetchTimeout, PauseEnds, Unstuck, server
<1>8. ASSUME NEW p \in Pods, Handle(p) PROVE LogStep
  BY <1>8, <1>a DEF Handle, server
<1>9. ASSUME NEW p \in Pods, HandleFails(p) PROVE LogStep
  BY <1>9, <1>a DEF HandleFails, Naked, Unreached
<1>10. ASSUME NEW p \in Pods, Ack(p) PROVE LogStep
  BY <1>10, <1>0 DEF Ack
<1>11. ASSUME NEW p \in Pods, AckFails(p) PROVE LogStep
  BY <1>11, <1>0 DEF AckFails
<1>12. ASSUME NEW p \in Pods, ReplyLost(p) PROVE LogStep
  BY <1>12, <1>0, <1>a DEF ReplyLost, Unreached
<1>13. ASSUME NEW p \in Pods,
              Sigterm(p) \/ ServeFails(p) \/ Drained(p) \/ Exit(p) \/ Kill(p) \/ Start(p)
       PROVE  LogStep
  BY <1>13 DEF Sigterm, ServeFails, Drained, Exit, Kill, Start, server
<1> QED
  BY <1>1, <1>2, <1>3, <1>4, <1>5, <1>6, <1>7, <1>8, <1>9, <1>10, <1>11, <1>12, <1>13
  DEF Next, Consume, Shutdown

\* What a step does to the worker of a pod.
LEMMA WorkerSteps ==
  ASSUME Inv, Next, NEW p \in Pods
  PROVE  \/ worker'[p] \notin {"handle", "ack"}
         \/ worker'[p] = worker[p] /\ holds'[p] = holds[p]
         \/ worker'[p] = "handle" /\ holds'[p] = floor + 1 /\ floor + 1 \in Valid /\ floor < stored
         \/ worker[p] = "handle" /\ holds'[p] = holds[p] /\ holds[p] \in effects'
<1> USE DEF Inv, TypeOK, Goes, LoopOrReturn
<1>1. CASE Arrive \/ Expire \/ AckWait
  BY <1>1 DEF Arrive, Expire, AckWait
<1>2. ASSUME NEW q \in Pods, FetchValid(q) PROVE ~(p = q) => worker'[p] = worker[p] /\ holds'[p] = holds[p]
  BY <1>2 DEF FetchValid
<1>3. ASSUME FetchValid(p)
      PROVE  worker'[p] = "handle" /\ holds'[p] = floor + 1 /\ floor + 1 \in Valid /\ floor < stored
  BY <1>3 DEF FetchValid, Delivered, Available
<1>4. ASSUME NEW q \in Pods,
             FetchInvalid(q) \/ FetchTimeout(q) \/ Sigterm(q) \/ ServeFails(q) \/ Drained(q) \/ Exit(q)
      PROVE  worker'[p] = worker[p] /\ holds'[p] = holds[p]
  BY <1>4 DEF FetchInvalid, FetchTimeout, Sigterm, ServeFails, Drained, Exit
<1>5. ASSUME NEW q \in Pods,
             FetchFails(q) \/ FetchCancelled(q) \/ PauseEnds(q) \/ Unstuck(q) \/ HandleFails(q)
               \/ Ack(q) \/ AckFails(q) \/ ReplyLost(q) \/ Kill(q) \/ Start(q)
      PROVE  \/ worker'[p] \notin {"handle", "ack"}
             \/ worker'[p] = worker[p] /\ holds'[p] = holds[p]
  BY <1>5 DEF FetchFails, FetchCancelled, PauseEnds, Unstuck, HandleFails, Ack, AckFails,
              ReplyLost, Kill, Start
<1>6. ASSUME NEW q \in Pods, Handle(q)
      PROVE  \/ worker'[p] = worker[p] /\ holds'[p] = holds[p]
             \/ worker[p] = "handle" /\ holds'[p] = holds[p] /\ holds[p] \in effects'
  BY <1>6 DEF Handle, TakesEffect
<1> QED
  BY <1>1, <1>2, <1>3, <1>4, <1>5, <1>6 DEF Next, Consume, Shutdown

\* The log keeps its order and its types.
LEMMA LogKept ==
  ASSUME Inv, LogStep
  PROVE  /\ stored' \in 0..N /\ expired' \in 0..N /\ floor' \in 0..N
         /\ effects' \subseteq Messages
         /\ Progress' /\ PassedHadEffect'
         /\ floor' >= floor /\ stored' >= stored /\ effects \subseteq effects'
<1> USE DEF Inv, TypeOK, Progress, PassedHadEffect
<1>1. CASE Grows
  BY <1>1 DEF Grows
<1>2. CASE Drops
  <2>1. floor' \in {floor, floor + 1} /\ floor' >= expired' /\ floor' <= stored
    BY <1>2 DEF Drops
  <2> QED
    BY <1>2, <2>1 DEF Drops
<1>3. CASE Affects
  <2> PICK m \in Valid : /\ m <= floor + 1 /\ m <= stored
                         /\ effects' = effects \cup {m}
                         /\ stored' = stored /\ expired' = expired /\ floor' = floor
    BY <1>3 DEF Affects
  <2> QED
    OBVIOUS
<1>4. CASE Forgets
  BY <1>4 DEF Forgets
<1>5. CASE UNCHANGED log
  BY <1>5 DEF log
<1> QED
  BY <1>1, <1>2, <1>3, <1>4, <1>5 DEF LogStep

LEMMA TypeStep == TypeOK /\ Inv /\ Next => TypeOK'
<1> SUFFICES ASSUME TypeOK, Inv, Next PROVE TypeOK'
  OBVIOUS
<1> USE DEF TypeOK, Goes, Health, LoopOrReturn, Main, Cancel, Fault, NoFault, server, process
<1>0. /\ stored' \in 0..N /\ expired' \in 0..N /\ floor' \in 0..N /\ effects' \subseteq Messages
  BY LogSteps, LogKept
<1>1. CASE Arrive \/ Expire \/ AckWait
  BY <1>0, <1>1 DEF Arrive, Expire, AckWait
<1>2. ASSUME NEW p \in Pods, FetchValid(p) PROVE TypeOK'
  BY <1>0, <1>2 DEF FetchValid, Delivered, Available
<1>3. ASSUME NEW p \in Pods, FetchInvalid(p) PROVE TypeOK'
  BY <1>0, <1>3 DEF FetchInvalid, Delivered, Available, Acked
<1>4. ASSUME NEW p \in Pods, FetchFails(p) PROVE TypeOK'
  BY <1>0, <1>4 DEF FetchFails, Delivered, Unreached
<1>5. ASSUME NEW p \in Pods, FetchCancelled(p) PROVE TypeOK'
  BY <1>0, <1>5 DEF FetchCancelled, Delivered, Unreached
<1>6. ASSUME NEW p \in Pods, FetchTimeout(p) PROVE TypeOK'
  BY <1>0, <1>6 DEF FetchTimeout
<1>7. ASSUME NEW p \in Pods, PauseEnds(p) PROVE TypeOK'
  BY <1>0, <1>7 DEF PauseEnds
<1>8. ASSUME NEW p \in Pods, Unstuck(p) PROVE TypeOK'
  BY <1>0, <1>8 DEF Unstuck
<1>9. ASSUME NEW p \in Pods, Handle(p) PROVE TypeOK'
  BY <1>0, <1>9 DEF Handle
<1>10. ASSUME NEW p \in Pods, HandleFails(p) PROVE TypeOK'
  BY <1>0, <1>10 DEF HandleFails, Naked, Unreached
<1>11. ASSUME NEW p \in Pods, Ack(p) PROVE TypeOK'
  BY <1>0, <1>11 DEF Ack, Acked
<1>12. ASSUME NEW p \in Pods, AckFails(p) PROVE TypeOK'
  BY <1>0, <1>12 DEF AckFails, Acked, Unreached
<1>13. ASSUME NEW p \in Pods, ReplyLost(p) PROVE TypeOK'
  BY <1>0, <1>13 DEF ReplyLost, Acked, Unreached
<1>14. ASSUME NEW p \in Pods, Sigterm(p) PROVE TypeOK'
  BY <1>0, <1>14 DEF Sigterm
<1>15. ASSUME NEW p \in Pods, ServeFails(p) PROVE TypeOK'
  BY <1>0, <1>15 DEF ServeFails
<1>16. ASSUME NEW p \in Pods, Drained(p) PROVE TypeOK'
  BY <1>0, <1>16 DEF Drained
<1>17. ASSUME NEW p \in Pods, Exit(p) PROVE TypeOK'
  BY <1>0, <1>17 DEF Exit
<1>18. ASSUME NEW p \in Pods, Kill(p) PROVE TypeOK'
  BY <1>0, <1>18 DEF Kill
<1>19. ASSUME NEW p \in Pods, Start(p) PROVE TypeOK'
  BY <1>0, <1>19 DEF Start
<1> QED
  BY <1>1, <1>2, <1>3, <1>4, <1>5, <1>6, <1>7, <1>8, <1>9,
     <1>10, <1>11, <1>12, <1>13, <1>14, <1>15, <1>16, <1>17, <1>18, <1>19
  DEF Next, Consume, Shutdown

LEMMA InitInv == Init => Inv
BY DEF Init, Inv, TypeOK, Progress, Holding, PassedHadEffect

LEMMA NextInv == Inv /\ [Next]_vars => Inv'
<1> SUFFICES ASSUME Inv, [Next]_vars PROVE Inv'
  OBVIOUS
<1>1. CASE UNCHANGED vars
  BY <1>1 DEF Inv, TypeOK, Progress, Holding, PassedHadEffect, vars, server, process
<1>2. CASE Next
  <2>1. TypeOK'
    BY <1>2, TypeStep DEF Inv
  <2>2. LogStep
    BY <1>2, LogSteps
  <2>3. /\ Progress' /\ PassedHadEffect'
        /\ floor' >= floor /\ stored' >= stored /\ effects \subseteq effects'
    BY <2>2, LogKept
  <2>6. Holding'
    <3> SUFFICES ASSUME NEW p \in Pods, worker'[p] \in {"handle", "ack"}
                 PROVE  /\ holds'[p] \in Valid /\ holds'[p] <= floor' + 1 /\ holds'[p] <= stored'
                        /\ worker'[p] = "ack" => holds'[p] \in effects'
      BY DEF Holding
    <3> QED
      BY <1>2, <2>1, <2>3, WorkerSteps DEF Inv, TypeOK, Holding
  <2> QED
    BY <2>1, <2>3, <2>6 DEF Inv
<1> QED
  BY <1>1, <1>2

THEOREM Invariance == Spec => []Inv
BY InitInv, NextInv, PTL DEF Spec

\* Every variable stays in its range.
THEOREM TypeCorrect == Spec => []TypeOK
BY Invariance, PTL DEF Inv

\* The acknowledgements of Consume (bus.go:106-114): a message leaves the
\* consumer after its effect, or with its age, in every interleaving of pods,
\* failures, redeliveries and shutdowns.
THEOREM NothingPassedOver == Spec => []PassedHadEffect
BY Invariance, PTL DEF Inv

-----------------------------------------------------------------------------
(* Refinement. *)

fates == [m \in Messages |-> Fate(m)]

\* The five fates, told apart.
FateIs(m, f) ==
  /\ f \in {"absent", "done", "due", "terminated", "expired"}
  /\ f = "absent" <=> m > stored
  /\ f = "done" <=> m <= stored /\ m \in effects
  /\ f = "due" <=> m <= stored /\ m \notin effects /\ m > floor
  /\ f = "terminated" <=> m <= floor /\ m \notin effects /\ m \notin Valid
  /\ f = "expired" <=> m <= floor /\ m \notin effects /\ m \in Valid

LEMMA FateOf ==
  ASSUME stored \in Nat, floor \in Nat, floor <= stored, effects \subseteq Messages,
         NEW m \in Messages
  PROVE  FateIs(m, Fate(m))
BY DEF Fate, FateIs

LEMMA FateOfNext ==
  ASSUME stored' \in Nat, floor' \in Nat, floor' <= stored', effects' \subseteq Messages,
         NEW m \in Messages
  PROVE  FateIs(m, Fate(m))'
BY DEF Fate, FateIs

LEMMA InitRefines == Init => D!Init
BY DEF Init, D!Init, D!Messages, Fate

LEMMA LogStepRefines ==
  ASSUME Inv, LogStep
  PROVE  [D!Next]_fates
<1>1. /\ stored \in Nat /\ floor \in Nat /\ expired \in Nat /\ floor <= stored
      /\ expired <= floor /\ effects \subseteq Messages /\ stored <= N
      /\ \A m \in effects : m \in Valid /\ m <= floor + 1 /\ m <= stored
      /\ \A m \in Valid : m <= floor => m \in effects \/ m <= expired
  BY DEF Inv, TypeOK, Progress, PassedHadEffect
<1>2. /\ stored' \in Nat /\ floor' \in Nat /\ floor' <= stored' /\ effects' \subseteq Messages
  BY LogKept DEF Progress
<1>3. \A m \in Messages : FateIs(m, Fate(m)) /\ fates[m] = Fate(m)
  BY <1>1, FateOf DEF fates
<1>4. \A m \in Messages : FateIs(m, Fate(m))' /\ fates'[m] = Fate(m)'
  BY <1>2, FateOfNext DEF fates
<1>5. ASSUME NEW m \in Messages, NEW f,
             Fate(m)' = f, \A k \in Messages : k # m => Fate(k)' = Fate(k)
      PROVE  fates' = [fates EXCEPT ![m] = f]
  BY <1>5 DEF fates
<1>6. ASSUME \A m \in Messages : Fate(m)' = Fate(m)
      PROVE  fates' = fates
  BY <1>6 DEF fates
<1>7. ASSUME NEW m \in Messages, m = floor + 1, m <= stored
      PROVE  \A k \in Messages : k < m => Fate(k) \notin {"absent", "due"}
  BY <1>1, <1>3, <1>7 DEF FateIs
<1> USE DEF D!Next, D!Messages, D!ItsTurn
<1>a. CASE Grows
  <2> PICK m \in Messages : m = stored + 1
    BY <1>a, <1>1 DEF Grows
  <2>1. m \in Messages /\ Fate(m) = "absent" /\ Fate(m)' = "due"
    BY <1>a, <1>1, <1>3, <1>4 DEF Grows, FateIs
  <2>2. \A k \in Messages : k # m => Fate(k)' = Fate(k)
    BY <1>a, <1>1, <1>3, <1>4 DEF Grows, FateIs
  <2>3. \A k \in Messages : k < m => fates[k] # "absent"
    BY <1>a, <1>1, <1>3 DEF Grows, FateIs
  <2>4. D!Arrive(m)
    BY <2>1, <2>2, <2>3, <1>3, <1>5 DEF D!Arrive, D!Becomes, fates
  <2> QED
    BY <2>1, <2>4
<1>b. CASE Drops
  <2> PICK m \in Messages : m = expired + 1
    BY <1>b, <1>1 DEF Drops
  <2>1. CASE floor # expired \/ m \in effects
    <3>1. \A k \in Messages : Fate(k)' = Fate(k)
      BY <1>b, <2>1, <1>1, <1>3, <1>4 DEF Drops, FateIs
    <3> QED
      BY <3>1, <1>6
  <2>2. CASE floor = expired /\ m \notin effects
    <3>1. m \in Messages /\ m = floor + 1 /\ m <= stored
      BY <1>b, <2>2, <1>1 DEF Drops
    <3>2. /\ Fate(m) = "due"
          /\ Fate(m)' = IF m \in Valid THEN "expired" ELSE "terminated"
          /\ \A k \in Messages : k # m => Fate(k)' = Fate(k)
      BY <1>b, <2>2, <3>1, <1>1, <1>3, <1>4 DEF Drops, FateIs
    <3>3. D!Expire(m) \/ D!Terminate(m)
      BY <3>1, <3>2, <1>3, <1>5, <1>7 DEF D!Expire, D!Terminate, D!Becomes, fates
    <3> QED
      BY <3>1, <3>3
  <2> QED
    BY <2>1, <2>2
<1>c. CASE Affects
  <2> PICK m \in Valid : /\ m <= floor + 1 /\ m <= stored /\ effects' = effects \cup {m}
                         /\ stored' = stored /\ expired' = expired /\ floor' = floor
    BY <1>c DEF Affects
  <2>0. m \in Messages
    OBVIOUS
  <2>1. CASE m \in effects
    <3>1. \A k \in Messages : Fate(k)' = Fate(k)
      BY <2>1, <1>1, <1>3, <1>4 DEF FateIs
    <3> QED
      BY <3>1, <1>6
  <2>2. CASE m \notin effects
    <3>1. /\ Fate(m)' = "done"
          /\ Fate(m) = IF m = floor + 1 THEN "due" ELSE "expired"
          /\ \A k \in Messages : k # m => Fate(k)' = Fate(k)
      BY <2>2, <2>0, <1>1, <1>3, <1>4 DEF FateIs
    <3>2. D!Conclude(m) \/ D!ComeLate(m)
      BY <3>1, <2>0, <1>3, <1>5, <1>7 DEF D!Conclude, D!ComeLate, D!Becomes, fates
    <3> QED
      BY <2>0, <3>2
  <2> QED
    BY <2>1, <2>2
<1>d. CASE Forgets
  <2> PICK m \in Messages : m = floor + 1
    BY <1>d, <1>1 DEF Forgets
  <2>1. m \in Messages /\ m <= stored /\ floor' = m /\ stored' = stored /\ effects' = effects
    BY <1>d, <1>1 DEF Forgets
  <2>2. CASE m \in effects
    <3>1. \A k \in Messages : Fate(k)' = Fate(k)
      BY <2>1, <2>2, <1>1, <1>3, <1>4 DEF FateIs
    <3> QED
      BY <3>1, <1>6
  <2>3. CASE m \notin effects
    <3>1. /\ m \notin Valid /\ Fate(m) = "due" /\ Fate(m)' = "terminated"
          /\ \A k \in Messages : k # m => Fate(k)' = Fate(k)
      BY <1>d, <2>1, <2>3, <1>1, <1>3, <1>4 DEF Forgets, FateIs
    <3>2. D!Terminate(m)
      BY <3>1, <2>1, <1>3, <1>5, <1>7 DEF D!Terminate, D!Becomes, fates
    <3> QED
      BY <2>1, <3>2
  <2> QED
    BY <2>2, <2>3
<1>e. CASE UNCHANGED log
  <2>1. \A k \in Messages : Fate(k)' = Fate(k)
    BY <1>e, <1>3, <1>4 DEF log, FateIs
  <2> QED
    BY <2>1, <1>6
<1> QED
  BY <1>a, <1>b, <1>c, <1>d, <1>e DEF LogStep

\* The consumer and the loop keep the order OrderPipeline assumes: every step
\* is a step of Delivery, or none.
THEOREM Refinement == Spec => ImplementsDelivery
<1>1. Inv /\ [Next]_vars => [D!Next]_fates
  <2>1. Inv /\ UNCHANGED vars => UNCHANGED log
    BY DEF vars, log, server
  <2> QED
    BY <2>1, LogSteps, LogStepRefines DEF LogStep
<1>2. Spec => D!Init /\ [][D!Next]_fates
  BY <1>1, InitRefines, Invariance, PTL DEF Spec
<1> QED
  BY <1>2, PTL DEF ImplementsDelivery, D!Spec, fates
=============================================================================
