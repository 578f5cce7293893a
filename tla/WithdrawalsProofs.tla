-------------------------- MODULE WithdrawalsProofs --------------------------
(***************************************************************************)
(* Theorems about Withdrawals, for any number of handlers, idempotency     *)
(* keys, wallets and amounts.                                              *)
(***************************************************************************)
EXTENDS Withdrawals, FiniteSetTheorems, TLAPS

-----------------------------------------------------------------------------
(* Type correctness, and what a handler knows at each step.                *)
HandlerOK(r) ==
  /\ r.pc \in {"waiting", "done"} \cup Working => r.idem \in Idems /\ r.amount \in Amounts
  /\ r.pc \in Working => r.wallet \in Wallets
  /\ r.pc \in {"waiting", "refresh"} => r.token = "stored"
  /\ r.pc = "commit" => r.outcome \in Final \cup {"REQUIRES_2FA"}

LocalOK == \A h \in Handlers : HandlerOK(request[h])

TypeInv == TypeOK /\ LocalOK

LEMMA BusinessType ==
  ASSUME TypeInv, NEW h \in Handlers, request[h].pc \in Working
  PROVE  Business(h) \in Businesses /\ Idem(h) \in Idems
BY DEF TypeInv, LocalOK, HandlerOK, Business, Businesses, Idem

LEMMA WalletType ==
  ASSUME TypeInv, NEW b \in balances PROVE b.wallet \in Wallets
BY DEF TypeInv, TypeOK, Wallets

LEMMA ReceiveType ==
  ASSUME TypeInv, NEW h \in Handlers, request[h].pc = "send", MayReceive(h) \/ (Receive(h) /\ (Execute(h) \/ UNCHANGED executed))
  PROVE  /\ sent' \in [Idems -> SUBSET Businesses]
         /\ executed' \in [Idems -> Businesses \cup {None}]
<1>1. Business(h) \in Businesses BY BusinessType DEF Working
<1> QED BY <1>1 DEF TypeInv, TypeOK, MayReceive, Receive, Execute, coinbase

LEMMA InitType == Init => TypeInv
<1>1. Idle \in Requests /\ HandlerOK(Idle)
  BY DEF Idle, Requests, Codes, HandlerOK, Working
<1> QED BY <1>1 DEF Init, TypeInv, TypeOK, LocalOK

(* What a handler's record becomes: the handler is h, the others keep      *)
(* theirs.                                                                 *)
LEMMA BecomesType ==
  ASSUME TypeInv, NEW h \in Handlers, NEW r \in Requests, HandlerOK(r), Becomes(h, r)
  PROVE  /\ request' \in [Handlers -> Requests] /\ LocalOK'
         /\ request'[h] = r
         /\ \A g \in Handlers \ {h} : request'[g] = request[g]
BY DEF TypeInv, TypeOK, LocalOK, Becomes

(* An answer leaves a well-typed record.                                   *)
LEMMA AnswerType ==
  ASSUME TypeInv, NEW h \in Handlers, NEW a \in Answers, request[h].pc # "idle"
  PROVE  LET r == [request[h] EXCEPT !.pc = "done", !.outcome = a]
         IN  r \in Requests /\ HandlerOK(r)
<1>1. request[h] \in Requests /\ HandlerOK(request[h])
  BY DEF TypeInv, TypeOK, LocalOK
<1>2. request[h].idem \in Idems /\ request[h].amount \in Amounts
  BY <1>1 DEF Requests, HandlerOK, Working
<1> QED BY <1>1, <1>2 DEF Requests, HandlerOK, Working

(* A step of a handler: it keeps its own record well typed.                *)
HandlerStep(h) == Begin(h) \/ Decide(h) \/ Progress(h) \/ CutOff(h)

LEMMA HandlerSteps ==
  ASSUME TypeInv, NEW h \in Handlers, HandlerStep(h)
  PROVE  \E r \in Requests : HandlerOK(r) /\ Becomes(h, r)
<1> USE DEF Working
<1>0. request[h] \in Requests /\ HandlerOK(request[h])
  BY DEF TypeInv, TypeOK, LocalOK
<1>1. CASE Begin(h)
  <2>1. PICK i \in Idems, a \in Amounts, c \in Codes :
          Becomes(h, [Idle EXCEPT !.pc = "waiting", !.idem = i, !.amount = a, !.code = c])
    BY <1>1 DEF Begin
  <2> DEFINE r == [Idle EXCEPT !.pc = "waiting", !.idem = i, !.amount = a, !.code = c]
  <2>2. r \in Requests /\ HandlerOK(r) BY DEF Idle, Requests, HandlerOK
  <2> QED BY <2>1, <2>2
<1>2. ASSUME NEW a \in Answers, Answer(h, a), request[h].pc # "idle"
      PROVE  \E r \in Requests : HandlerOK(r) /\ Becomes(h, r)
  BY <1>2, AnswerType DEF Answer
<1>3. CASE Decide(h)
  <2>1. ASSUME NEW b \in balances, Proceed(h, b)
        PROVE  \E r \in Requests : HandlerOK(r) /\ Becomes(h, r)
    <3> DEFINE r == [request[h] EXCEPT !.pc = IF expiring THEN "refresh" ELSE "send",
                                       !.wallet = b.wallet]
    <3>1. b.wallet \in Wallets BY WalletType
    <3>2. r \in Requests BY <1>0, <3>1 DEF Requests
    <3>3. HandlerOK(r) BY <1>0, <1>3, <3>1 DEF Requests, HandlerOK, Decide
    <3> QED BY <2>1, <3>2, <3>3 DEF Proceed
  <2> QED BY <1>2, <1>3, <2>1 DEF Decide, Unknown, Conflict, Replay, Rechallenge,
                                 Insufficient, Answers
<1>4. CASE Refresh(h)
  <2> DEFINE r == [request[h] EXCEPT !.pc = "send", !.token = "new"]
  <2>1. r \in Requests BY <1>0 DEF Requests
  <2>2. HandlerOK(r) BY <1>0, <1>4 DEF Requests, HandlerOK, Refresh
  <2> QED BY <1>4, <2>1, <2>2 DEF Refresh
<1>5. CASE RefreshFails(h) BY <1>2, <1>5 DEF RefreshFails, Answers
<1>6. CASE SendAccepted(h) \/ SendChallenged(h) \/ SendRejected(h) \/ SendUnanswered(h)
  <2>1. PICK o \in Final \cup {"REQUIRES_2FA"} : Outcome(h, o)
    BY <1>6 DEF SendAccepted, SendChallenged, SendRejected, SendUnanswered, Final
  <2>2. request[h].pc = "send"
    BY <1>6 DEF SendAccepted, SendChallenged, SendRejected, SendUnanswered
  <2> DEFINE r == [request[h] EXCEPT !.pc = "commit", !.outcome = o]
  <2>3. r \in Requests BY <1>0 DEF Requests
  <2>4. HandlerOK(r) BY <1>0, <2>2 DEF Requests, HandlerOK
  <2> QED BY <2>1, <2>3, <2>4 DEF Outcome
<1>7. CASE Commit(h) BY <1>2, <1>7 DEF Commit, AnswerFor, Answers
<1>8. CASE Done(h) \/ CutOff(h)
  <2>1. Idle \in Requests /\ HandlerOK(Idle) BY DEF Idle, Requests, Codes, HandlerOK
  <2> QED BY <1>8, <2>1 DEF Done, CutOff
<1> QED BY <1>1, <1>3, <1>4, <1>5, <1>6, <1>7, <1>8 DEF HandlerStep, Progress

(* What a step does to the other variables.                                *)
LEMMA NextType == TypeInv /\ [Next]_vars => TypeInv'
<1> SUFFICES ASSUME TypeInv, [Next]_vars PROVE TypeInv'
  OBVIOUS
<1> USE DEF account, coinbase, Working
<1>0. TypeOK BY DEF TypeInv
<1>1. ASSUME NEW h \in Handlers, HandlerStep(h) PROVE TypeInv'
  <2>1. request' \in [Handlers -> Requests] /\ LocalOK'
    BY <1>1, HandlerSteps, BecomesType
  <2>2. UNCHANGED balances
    BY <1>1 DEF HandlerStep, Begin, Decide, Progress, Refresh, RefreshFails, SendAccepted,
                SendChallenged, SendRejected, SendUnanswered, Commit, Done, CutOff
  <2>3. expiring' \in BOOLEAN /\ stale' \in BOOLEAN
    <3>1. CASE Commit(h) BY <1>0, <3>1, Zenon DEF TypeOK, Commit
    <3>2. CASE Refresh(h) \/ RefreshFails(h)
      BY <1>0, <3>2, Zenon DEF TypeOK, Refresh, RefreshFails
    <3>3. CASE ~(Commit(h) \/ Refresh(h) \/ RefreshFails(h))
      <4>1. UNCHANGED <<expiring, stale>>
        BY <1>1, <3>3 DEF HandlerStep, Begin, Decide, Progress, SendAccepted,
                SendChallenged, SendRejected, SendUnanswered, Done, CutOff
      <4> QED BY <1>0, <4>1, Zenon DEF TypeOK
    <3> QED BY <3>1, <3>2, <3>3
  <2>4. rows' \in [Idems -> Rows \cup {None}]
    <3>1. CASE Commit(h)
      <4>1. [business |-> Business(h), status |-> request[h].outcome] \in Rows
        BY <3>1, BusinessType DEF Rows, Commit, TypeInv, LocalOK, HandlerOK
      <4> QED BY <1>0, <3>1, <4>1 DEF TypeOK, Commit
    <3>2. CASE ~Commit(h)
      BY <1>0, <1>1, <3>2 DEF TypeOK, HandlerStep, Begin, Decide, Progress, Refresh,
           RefreshFails, SendAccepted, SendChallenged, SendRejected, SendUnanswered, Done, CutOff
    <3> QED BY <3>1, <3>2
  <2>5. sent' \in [Idems -> SUBSET Businesses] /\ executed' \in [Idems -> Businesses \cup {None}]
    <3>1. CASE UNCHANGED coinbase BY <1>0, <3>1 DEF TypeOK
    <3>2. CASE ~UNCHANGED coinbase
      <4>1. /\ request[h].pc = "send"
            /\ MayReceive(h) \/ (Receive(h) /\ (Execute(h) \/ UNCHANGED executed))
        BY <1>1, <3>2 DEF HandlerStep, Begin, Decide, Progress, Refresh, RefreshFails,
             SendAccepted, SendChallenged, SendRejected, SendUnanswered, Commit, Done, CutOff
      <4> QED BY <4>1, ReceiveType
    <3> QED BY <3>1, <3>2
  <2>6. cut' \subseteq Idems
    <3>1. CASE CutOff(h)
      <4>1. request[h].pc \in {"send", "commit"} => Idem(h) \in Idems
        BY BusinessType DEF Working
      <4> QED BY <1>0, <3>1, <4>1 DEF CutOff, TypeOK
    <3>2. CASE ~CutOff(h)
      <4>1. cut' = cut
        BY <1>1, <3>2 DEF HandlerStep, Begin, Decide, Progress, Refresh, RefreshFails,
           SendAccepted, SendChallenged, SendRejected, SendUnanswered, Commit, Done
      <4> QED BY <1>0, <4>1 DEF TypeOK
    <3> QED BY <3>1, <3>2
  <2> QED BY <1>0, <2>1, <2>2, <2>3, <2>4, <2>5, <2>6 DEF TypeOK, TypeInv
<1>2. ASSUME TokenExpires \/ Reconnect \/ UNCHANGED vars PROVE TypeInv'
  <2>1. request' = request /\ rows' = rows /\ sent' = sent /\ executed' = executed /\ cut' = cut
    BY <1>2 DEF TokenExpires, Reconnect, vars
  <2>2. balances' \in Snapshots \cup {{}}
    BY <1>0, <1>2 DEF TypeOK, TokenExpires, Reconnect, vars
  <2>3. expiring' \in BOOLEAN /\ stale' \in BOOLEAN
    BY <1>0, <1>2, Zenon DEF TypeOK, TokenExpires, Reconnect, vars
  <2> QED BY <1>0, <2>1, <2>2, <2>3 DEF TypeInv, TypeOK, LocalOK
<1> QED BY <1>1, <1>2 DEF Next, HandlerStep

(* Every reachable state is well typed.                                    *)
THEOREM TypeCorrect == Spec => [](TypeOK /\ LocalOK)
<1> QED BY InitType, NextType, PTL DEF Spec, TypeInv
-----------------------------------------------------------------------------
(* The account's row lock.  At most one handler is past it, and what that  *)
(* handler found under it is still so: the row of its idem awaits a code   *)
(* for the same business request or is missing, and the balance is there.  *)
OneWorking == \A g, h \in Handlers :
  request[g].pc \in Working /\ request[h].pc \in Working => g = h

RowMatches == \A h \in Handlers :
  request[h].pc \in Working /\ RowOf(h) # None => RowOf(h).business = Business(h)

HoldInv == OneWorking /\ RowMatches /\ NoSendAfterFinal /\ BalanceHeld

(* The five ways a handler moves with respect to the lock.  It leaves it   *)
(* with nothing sent yet, or cut off behind a send.                        *)
Unsent(h)    == request[h].pc \notin {"send", "commit"} /\ UNCHANGED <<coinbase, cut>>
CutBehind(h) == /\ request'[h].pc = "idle" /\ Idem(h) \in Idems
                /\ cut' = cut \cup {Idem(h)}
                /\ \A i \in Idems \ {Idem(h)} : sent'[i] = sent[i] /\ executed'[i] = executed[i]
Leaves(h) == /\ request'[h].pc \notin Working
             /\ UNCHANGED <<balances, rows>>
             /\ Unsent(h) \/ CutBehind(h)
Enters(h) == /\ Decide(h) /\ request'[h].pc \in {"refresh", "send"}
             /\ \E b \in balances : Proceed(h, b)
Refreshes(h) == Refresh(h)
Sends(h) == SendAccepted(h) \/ SendChallenged(h) \/ SendRejected(h) \/ SendUnanswered(h)

LEMMA HandlerMoves ==
  ASSUME TypeInv, NEW h \in Handlers, HandlerStep(h)
  PROVE  Leaves(h) \/ Enters(h) \/ Refreshes(h) \/ Sends(h) \/ Commit(h)
<1>1. request[h] \in Requests BY DEF TypeInv, TypeOK
<1>4. ASSUME NEW a, Answer(h, a) PROVE request'[h].pc = "done"
  BY <1>1, <1>4 DEF TypeInv, TypeOK, Requests, Answer, Becomes
<1> USE DEF Unsent
<1>5. CASE Begin(h)
  BY <1>5 DEF TypeInv, TypeOK, Begin, Becomes, Idle, Leaves, Working, account
<1>6. CASE Decide(h)
  <2>1. ASSUME NEW b \in balances, Proceed(h, b) PROVE request'[h].pc \in {"refresh", "send"}
    BY <1>1, <2>1 DEF TypeInv, TypeOK, Requests, Proceed, Becomes
  <2>2. CASE \E b \in balances : Proceed(h, b) BY <1>6, <2>1, <2>2 DEF Enters
  <2>3. CASE ~\E b \in balances : Proceed(h, b)
    <3>1. \E a : Answer(h, a)
      BY <1>6, <2>3 DEF Decide, Unknown, Conflict, Replay, Rechallenge, Insufficient
    <3> QED BY <1>4, <1>6, <3>1 DEF Decide, Leaves, Working, account
  <2> QED BY <2>2, <2>3
<1>7. CASE RefreshFails(h)
  <2>1. request'[h].pc = "done" BY <1>4, <1>7 DEF RefreshFails
  <2> QED BY <1>7, <2>1 DEF RefreshFails, Leaves, Working
<1>8. CASE Done(h)
  BY <1>8 DEF TypeInv, TypeOK, Done, Becomes, Idle, Leaves, Working, account
<1>9. CASE CutOff(h)
  <2>1. request'[h].pc = "idle" /\ UNCHANGED <<balances, rows>>
    BY <1>9 DEF TypeInv, TypeOK, CutOff, Becomes, Idle, account
  <2>2. CASE request[h].pc \in {"send", "commit"}
    <3>1. Idem(h) \in Idems BY <2>2, BusinessType DEF Working
    <3>2. \A i \in Idems \ {Idem(h)} : sent'[i] = sent[i] /\ executed'[i] = executed[i]
      BY <1>9 DEF CutOff, MayReceive, Receive, Execute, coinbase, TypeInv, TypeOK
    <3> QED BY <1>9, <2>1, <2>2, <3>1, <3>2 DEF CutOff, CutBehind, Leaves, Working
  <2>3. CASE request[h].pc \notin {"send", "commit"}
    BY <1>9, <2>1, <2>3 DEF CutOff, Leaves, Working
  <2> QED BY <2>2, <2>3
<1> QED BY <1>5, <1>6, <1>7, <1>8, <1>9 DEF HandlerStep, Progress, Refreshes, Sends

(* A refresh or a send keeps the handler past the lock with the same       *)
(* request; an answered request keeps its request too.                     *)
LEMMA SameRequest ==
  ASSUME TypeInv, NEW h \in Handlers, Refresh(h) \/ Sends(h) \/ Commit(h)
  PROVE  /\ Idem(h)' = Idem(h) /\ Business(h)' = Business(h)
         /\ request[h].pc \in Working
         /\ Refresh(h) => request'[h].pc = "send"
         /\ Sends(h) => request'[h].pc = "commit"
         /\ Commit(h) => request'[h].pc = "done"
         /\ ~Commit(h) => UNCHANGED <<balances, rows>>
<1>1. request[h] \in Requests BY DEF TypeInv, TypeOK
<1>2. CASE Refresh(h)
  BY <1>1, <1>2 DEF TypeInv, TypeOK, Requests, Refresh, Becomes, Idem, Business, Working,
                    Sends, SendAccepted, SendChallenged, SendRejected, SendUnanswered, Commit
<1>3. CASE Sends(h)
  <2>1. PICK o : Outcome(h, o)
    BY <1>3 DEF Sends, SendAccepted, SendChallenged, SendRejected, SendUnanswered
  <2>2. request[h].pc = "send" /\ UNCHANGED <<balances, rows>>
    BY <1>3 DEF Sends, SendAccepted, SendChallenged, SendRejected, SendUnanswered, account
  <2> QED BY <1>1, <2>1, <2>2 DEF TypeInv, TypeOK, Requests, Outcome, Becomes, Idem, Business,
                                  Working, Refresh, Commit
<1>4. CASE Commit(h)
  BY <1>1, <1>4 DEF TypeInv, TypeOK, Requests, Commit, Answer, Becomes, Idem, Business, Working,
                    Sends, SendAccepted, SendChallenged, SendRejected, SendUnanswered, Refresh
<1> QED BY <1>2, <1>3, <1>4

(* A handler's step is its own.                                            *)
LEMMA OthersStay ==
  ASSUME TypeInv, NEW h \in Handlers, HandlerStep(h)
  PROVE  \A g \in Handlers \ {h} : request'[g] = request[g]
<1>1. PICK r \in Requests : HandlerOK(r) /\ Becomes(h, r) BY HandlerSteps
<1> QED BY <1>1, BecomesType

(* Every request's amount is a number, which a balance compares to.        *)
LEMMA AmountType == ASSUME TypeInv, NEW h \in Handlers PROVE request[h].amount \in Nat
<1>1. request[h] \in Requests BY DEF TypeInv, TypeOK
<1>2. request[h].amount \in Amounts \/ request[h].amount = 0 BY <1>1 DEF Requests
<1>3. CASE request[h].amount \in Amounts BY <1>3, AmountsAssumption
<1>4. CASE request[h].amount = 0 BY <1>4
<1> QED BY <1>2, <1>3, <1>4

LEMMA HoldStep == TypeInv /\ HoldInv /\ [Next]_vars => HoldInv'
<1> SUFFICES ASSUME TypeInv, HoldInv, [Next]_vars PROVE HoldInv'
  OBVIOUS
<1> USE DEF HoldInv, OneWorking, RowMatches, NoSendAfterFinal, BalanceHeld, RowOf
<1>1. ASSUME NEW h \in Handlers, HandlerStep(h) PROVE HoldInv'
  <2>0. \A g \in Handlers \ {h} : /\ request'[g] = request[g]
                                  /\ Idem(g)' = Idem(g) /\ Business(g)' = Business(g)
    BY <1>1, OthersStay DEF Idem, Business
  <2>1. CASE Leaves(h) BY <2>0, <2>1 DEF Leaves, Idem
  <2>2. CASE Enters(h)
    <3>1. \A g \in Handlers : request[g].pc \notin Working
      BY <2>2 DEF Enters, Decide, Locked
    <3>2. PICK b \in balances : Proceed(h, b) BY <2>2 DEF Enters
    <3>3. /\ request'[h].idem = request[h].idem /\ request'[h].amount = request[h].amount
          /\ request'[h].wallet = b.wallet
      BY <3>2 DEF TypeInv, TypeOK, Requests, Proceed, Becomes
    <3>4. UNCHANGED <<balances, rows>> BY <2>2 DEF Enters, Decide, account
    <3>5. b.amount \in Nat
      BY SnapshotsAssumption DEF TypeInv, TypeOK
    <3>6. request[h].amount \in Nat
      BY AmountType
    <3>7. RowMatches' /\ NoSendAfterFinal'
      BY <2>0, <3>1, <3>2, <3>3, <3>4 DEF Proceed, Matches, Business, Final, Accepted
    <3>8. BalanceHeld'
      BY <2>0, <3>1, <3>2, <3>3, <3>4, <3>5, <3>6 DEF Proceed, Matches
    <3>9. OneWorking' BY <2>0, <3>1
    <3> QED BY <3>7, <3>8, <3>9
  <2>3. CASE Refreshes(h) \/ Sends(h)
    <3>1. /\ Idem(h)' = Idem(h) /\ Business(h)' = Business(h)
          /\ request[h].pc \in Working /\ UNCHANGED <<balances, rows>>
      BY <2>3, SameRequest DEF Refreshes, Refresh, Sends, Commit, SendAccepted, SendChallenged,
                               SendRejected, SendUnanswered
    <3>2. request'[h].wallet = request[h].wallet /\ request'[h].amount = request[h].amount
      BY <3>1 DEF Business
    <3>3. OneWorking' BY <2>0, <3>1
    <3>4. RowMatches' BY <2>0, <3>1 DEF Idem
    <3>5. NoSendAfterFinal' BY <2>0, <3>1 DEF Idem
    <3>6. BalanceHeld' BY <2>0, <3>1, <3>2 DEF Idem
    <3> QED BY <3>3, <3>4, <3>5, <3>6
  <2>4. CASE Commit(h)
    <3>1. request[h].pc \in Working /\ request'[h].pc \notin Working
      BY <2>4, SameRequest DEF Working
    <3>2. \A g \in Handlers : request'[g].pc \notin Working BY <2>0, <3>1
    <3> QED BY <3>2
  <2> QED BY <1>1, HandlerMoves, <2>1, <2>2, <2>3, <2>4
<1>2. CASE Reconnect BY <1>2 DEF Reconnect, Locked, Business
<1>3. CASE TokenExpires \/ UNCHANGED vars
  BY <1>3 DEF TokenExpires, vars, account, Business
<1> QED BY <1>1, <1>2, <1>3 DEF Next, HandlerStep

LEMMA InitHold == Init => HoldInv
BY DEF Init, HoldInv, OneWorking, RowMatches, NoSendAfterFinal, BalanceHeld, Idle, Working

(* The lock excludes, whatever is cut off and whenever the account is      *)
(* connected again.                                                        *)
THEOREM Holding == Spec => [](TypeInv /\ HoldInv)
BY InitType, NextType, InitHold, HoldStep, PTL DEF Spec

(* No handler is on its way to Coinbase for a final row.                   *)
THEOREM NoneSentAfterFinal == Spec => []NoSendAfterFinal
<1>1. HoldInv => NoSendAfterFinal BY DEF HoldInv
<1> QED BY <1>1, Holding, PTL

(* A first attempt keeps the balance it was checked against.               *)
THEOREM BalancesHeld == Spec => []BalanceHeld
<1>1. HoldInv => BalanceHeld BY DEF HoldInv
<1> QED BY <1>1, Holding, PTL

(* A row keeps its business request, and a final row never changes.        *)
THEOREM RowsAreFinal == Spec => RowsSettle
<1>1. TypeInv /\ HoldInv /\ [Next]_vars =>
        [\A i \in Idems : rows[i] # None =>
           /\ rows'[i] # None /\ rows'[i].business = rows[i].business
           /\ rows[i].status \in Final => rows'[i] = rows[i]]_vars
  <2> SUFFICES ASSUME TypeInv, HoldInv, [Next]_vars, NEW i \in Idems, rows[i] # None
               PROVE  /\ rows'[i] # None /\ rows'[i].business = rows[i].business
                      /\ rows[i].status \in Final => rows'[i] = rows[i]
    OBVIOUS
  <2>1. CASE rows' = rows BY <2>1
  <2>2. CASE rows' # rows
    <3>1. PICK h \in Handlers : Commit(h)
      BY <2>2 DEF Next, Begin, Decide, Progress, Refresh, RefreshFails, SendAccepted,
           SendChallenged, SendRejected, SendUnanswered, Done, CutOff, TokenExpires,
           Reconnect, vars
    <3>2. request[h].pc \in Working BY <3>1 DEF Commit, Working
    <3> DEFINE row == [business |-> Business(h), status |-> request[h].outcome]
    <3>3. /\ i = Idem(h) => rows'[i] = row
          /\ i # Idem(h) => rows'[i] = rows[i]
      BY <3>1 DEF Commit, TypeInv, TypeOK
    <3>4. row \in Rows
      BY <3>1, <3>2, BusinessType DEF Rows, Commit, TypeInv, LocalOK, HandlerOK
    <3>5. row # None /\ row.business = Business(h) BY <3>4, NoneAssumption
    <3>6. i = Idem(h) => rows[i].business = Business(h) /\ rows[i].status = "REQUIRES_2FA"
      BY <3>2 DEF HoldInv, RowMatches, NoSendAfterFinal, RowOf, Idem
    <3> QED BY <3>3, <3>5, <3>6 DEF Final, Accepted
  <2> QED BY <2>1, <2>2
<1> QED BY <1>1, Holding, PTL DEF Spec, RowsSettle
-----------------------------------------------------------------------------
(* Of an idem no request of which was cut off behind its send: what        *)
(* Coinbase received and did, what the row says and what the clients are   *)
(* told agree.                                                             *)

(* The business request s of idem i is in its row, or with the handler     *)
(* that is about to commit it.                                             *)
Traced(i, s) ==
  \/ rows[i] # None /\ rows[i].business = s
  \/ \E h \in Handlers : request[h].pc = "commit" /\ Idem(h) = i /\ Business(h) = s

SentTraced == \A i \in Idems \ cut : \A s \in sent[i] : Traced(i, s)

AcceptedMade ==
  /\ \A i \in Idems \ cut :
       rows[i] # None /\ rows[i].status \in Accepted => executed[i] # None
  /\ \A h \in Handlers :
       request[h].pc = "commit" /\ request[h].outcome \in Accepted /\ Idem(h) \notin cut
       => executed[Idem(h)] # None

TraceInv == SentTraced /\ TransferHasRow /\ AcceptedMade /\ AcceptedIsExecuted

LEMMA InitTrace == Init => TraceInv
BY DEF Init, TraceInv, SentTraced, TransferHasRow, AcceptedMade, AcceptedIsExecuted, Idle

(* Before a handler past the lock commits, its idem has no transfer but    *)
(* its own, and everything sent under it is its business request.          *)
LEMMA Alone ==
  ASSUME TypeInv, HoldInv, TraceInv, NEW h \in Handlers, request[h].pc \in Working,
         Idem(h) \notin cut
  PROVE  /\ \A s \in sent[Idem(h)] : s = Business(h)
         /\ executed[Idem(h)] # None =>
              /\ request[h].pc = "commit" /\ request[h].outcome \in Final
              /\ executed[Idem(h)] = Business(h)
<1>1. Idem(h) \in Idems BY BusinessType
<1>2. \A g \in Handlers : request[g].pc = "commit" => g = h
  BY DEF HoldInv, OneWorking, Working
<1>3. rows[Idem(h)] # None => /\ rows[Idem(h)].business = Business(h)
                              /\ rows[Idem(h)].status \notin Final
  BY DEF HoldInv, RowMatches, NoSendAfterFinal, RowOf, Idem, Final, Accepted
<1>4. \A s \in sent[Idem(h)] : s = Business(h)
  BY <1>1, <1>2, <1>3 DEF TraceInv, SentTraced, Traced
<1>5. executed[Idem(h)] # None =>
        /\ request[h].pc = "commit" /\ request[h].outcome \in Final
        /\ executed[Idem(h)] = Business(h)
  BY <1>1, <1>2, <1>3 DEF TraceInv, TransferHasRow
<1> QED BY <1>4, <1>5

(* Only the replay of an accepted row answers "accepted" without a commit. *)
LEMMA ReplayTells ==
  ASSUME TypeInv, NEW h \in Handlers, Leaves(h), HandlerStep(h),
         request'[h].pc = "done", request'[h].outcome = "accepted"
  PROVE  /\ Idem(h)' = Idem(h) /\ Idem(h) \in Idems
         /\ request'[h].amount = request[h].amount
         /\ RowOf(h) # None /\ RowOf(h).status \in Accepted
         /\ RowOf(h).business.amount = request[h].amount
<1>1. request[h] \in Requests BY DEF TypeInv, TypeOK
<1>2. request[h].pc \notin {"send", "commit"} BY DEF Leaves, Unsent, CutBehind
<1>0. ASSUME NEW a, Answer(h, a) PROVE a = "accepted"
  BY <1>0, <1>1 DEF Answer, Becomes, Requests, TypeInv, TypeOK
<1>3. Decide(h)
  <2>1. ~Refresh(h) BY SameRequest
  <2>2. ~RefreshFails(h) BY <1>0 DEF RefreshFails
  <2>3. ASSUME Begin(h) PROVE request'[h].pc = "waiting"
    BY <2>3 DEF Begin, Becomes, Idle, TypeInv, TypeOK
  <2>4. ASSUME Done(h) PROVE request'[h].pc = "idle"
    BY <2>4 DEF Done, Becomes, Idle, TypeInv, TypeOK
  <2>5. ASSUME CutOff(h) PROVE request'[h].pc = "idle"
    BY <2>5 DEF CutOff, Becomes, Idle, TypeInv, TypeOK
  <2> QED BY <1>2, <2>1, <2>2, <2>3, <2>4, <2>5 DEF HandlerStep, Progress, SendAccepted,
            SendChallenged, SendRejected, SendUnanswered, Commit
<1>4. PICK b \in balances : Replay(h, b)
  <2>1. ASSUME NEW b \in balances, Proceed(h, b) PROVE request'[h].pc \in {"refresh", "send"}
    BY <1>1, <2>1 DEF Proceed, Becomes, Requests, TypeInv, TypeOK
  <2> QED BY <1>0, <1>3, <2>1 DEF Decide, Unknown, Conflict, Rechallenge, Insufficient
<1>5. RowOf(h).status # "FAILED"
  BY <1>0, <1>4 DEF Replay
<1>6. Idem(h) \in Idems BY <1>3 DEF Decide, Idem, TypeInv, LocalOK, HandlerOK
<1>7. Idem(h)' = Idem(h) /\ request'[h].amount = request[h].amount
  BY <1>1, <1>4 DEF Replay, Answer, Becomes, Idem, TypeInv, TypeOK
<1> QED BY <1>4, <1>5, <1>6, <1>7 DEF Replay, Matches, Final

(* What a send does: only its own business request reaches Coinbase under  *)
(* its idem; a transfer is made only with a final outcome, and an accepted *)
(* outcome only with a transfer.                                           *)
Sent(h) ==
  /\ \A i \in Idems \ {Idem(h)} : sent'[i] = sent[i] /\ executed'[i] = executed[i]
  /\ \A s \in sent'[Idem(h)] : s = Business(h)
  /\ executed[Idem(h)] = None
  /\ executed'[Idem(h)] # None => /\ executed'[Idem(h)] = Business(h)
                                  /\ request'[h].outcome \in Final
  /\ request'[h].outcome \in Accepted => executed'[Idem(h)] # None

LEMMA SendDoes ==
  ASSUME TypeInv, HoldInv, TraceInv, NEW h \in Handlers, Sends(h), Idem(h) \notin cut
  PROVE  Sent(h)
<1>1. request[h].pc = "send"
  BY DEF Sends, SendAccepted, SendChallenged, SendRejected, SendUnanswered
<1>2. Idem(h) \in Idems /\ Business(h) # None
  BY <1>1, BusinessType, NoneAssumption DEF Working
<1>3. executed[Idem(h)] = None /\ \A s \in sent[Idem(h)] : s = Business(h)
  BY <1>1, Alone DEF Working
<1>4. ASSUME NEW o, Outcome(h, o) PROVE request'[h].outcome = o
  BY <1>4 DEF Outcome, Becomes, TypeInv, TypeOK, Requests
<1>5. ASSUME Receive(h) PROVE /\ \A i \in Idems \ {Idem(h)} : sent'[i] = sent[i]
                              /\ \A s \in sent'[Idem(h)] : s = Business(h)
  BY <1>2, <1>3, <1>5 DEF Receive, TypeInv, TypeOK
<1>6. ASSUME Execute(h) PROVE /\ \A i \in Idems \ {Idem(h)} : executed'[i] = executed[i]
                              /\ executed'[Idem(h)] = Business(h)
  BY <1>2, <1>3, <1>6 DEF Execute, TypeInv, TypeOK
<1>7. CASE SendAccepted(h)
  <2>1. request'[h].outcome \in Accepted BY <1>4, <1>7 DEF SendAccepted
  <2> QED BY <1>2, <1>3, <1>5, <1>6, <1>7, <2>1 DEF SendAccepted, Sent, Final
<1>8. CASE SendChallenged(h)
  <2>1. request'[h].outcome = "REQUIRES_2FA" BY <1>4, <1>8 DEF SendChallenged
  <2> QED BY <1>2, <1>3, <1>5, <1>8, <2>1 DEF SendChallenged, Sent, Accepted
<1>9. CASE SendRejected(h)
  <2>1. request'[h].outcome = "FAILED" BY <1>4, <1>9 DEF SendRejected
  <2> QED BY <1>2, <1>3, <1>5, <1>9, <2>1 DEF SendRejected, Sent, Accepted
<1>10. CASE SendUnanswered(h)
  <2>1. request'[h].outcome = "FAILED" BY <1>4, <1>10 DEF SendUnanswered
  <2>2. MayReceive(h) BY <1>10 DEF SendUnanswered
  <2> QED BY <1>2, <1>3, <1>5, <1>6, <2>1, <2>2 DEF MayReceive, Sent, Accepted, Final, coinbase
<1> QED BY <1>7, <1>8, <1>9, <1>10 DEF Sends

(* A step of a handler whose idem is in cut disturbs no other idem.        *)
LEMMA Elsewhere ==
  ASSUME TypeInv, TraceInv, NEW h \in Handlers, HandlerStep(h), Idem(h) \in cut',
         cut' = cut \cup {Idem(h)}, Idem(h)' = Idem(h) \/ request'[h].pc = "idle",
         \A i \in Idems \ {Idem(h)} : /\ sent'[i] = sent[i] /\ executed'[i] = executed[i]
                                      /\ rows'[i] = rows[i]
  PROVE  TraceInv'
<1>1. \A g \in Handlers \ {h} : /\ request'[g] = request[g]
                                /\ Idem(g)' = Idem(g) /\ Business(g)' = Business(g)
  BY OthersStay DEF Idem, Business
<1>2. \A g \in Handlers : request[g].pc \in {"commit", "done"} => Idem(g) \in Idems
  BY DEF TypeInv, LocalOK, HandlerOK, Idem, Working
<1>3. \A g \in Handlers : Idem(g) \notin cut /\ request[g].pc \in {"commit", "done"}
                            /\ Idem(g) # Idem(h) => g # h
  OBVIOUS
<1>4. \A g \in Handlers : request'[g].pc \in {"commit", "done"} /\ Idem(g)' \notin cut' => g # h
  OBVIOUS
<1>5. SentTraced' BY <1>1, <1>2 DEF TraceInv, SentTraced, Traced
<1>6. TransferHasRow' BY <1>1, <1>2 DEF TraceInv, TransferHasRow
<1>7. AcceptedMade' BY <1>1, <1>2, <1>4 DEF TraceInv, AcceptedMade
<1>8. AcceptedIsExecuted' BY <1>1, <1>2, <1>4 DEF TraceInv, AcceptedIsExecuted
<1> QED BY <1>5, <1>6, <1>7, <1>8 DEF TraceInv

LEMMA TraceStep ==
  ASSUME TypeInv, HoldInv, TraceInv, [Next]_vars PROVE TraceInv'
<1> USE DEF TraceInv
<1>1. ASSUME NEW h \in Handlers, HandlerStep(h) PROVE TraceInv'
  <2>0. \A g \in Handlers \ {h} : /\ request'[g] = request[g]
                                  /\ Idem(g)' = Idem(g) /\ Business(g)' = Business(g)
    BY <1>1, OthersStay DEF Idem, Business
  <2>1. CASE (Leaves(h) /\ Unsent(h)) \/ Enters(h) \/ Refreshes(h)
    <3>1. UNCHANGED <<rows, cut, coinbase>> /\ request[h].pc # "commit" /\ request'[h].pc # "commit"
      <4>1. CASE Leaves(h) /\ Unsent(h) BY <4>1 DEF Leaves, Unsent, Working
      <4>2. CASE Enters(h) BY <4>2 DEF Enters, Decide
      <4>3. CASE Refreshes(h) BY <4>3, SameRequest DEF Refreshes, Refresh
      <4> QED BY <2>1, <4>1, <4>2, <4>3
    <3>2. SentTraced' BY <2>0, <3>1 DEF SentTraced, Traced, coinbase
    <3>3. TransferHasRow' BY <2>0, <3>1 DEF TransferHasRow, coinbase
    <3>4. AcceptedMade' BY <2>0, <3>1 DEF AcceptedMade, coinbase
    <3>5. ASSUME request'[h].pc = "done", request'[h].outcome = "accepted", Idem(h)' \notin cut
          PROVE  executed'[Idem(h)'] # None /\ executed'[Idem(h)'].amount = request'[h].amount
      <4>1. Leaves(h)
        BY <2>1, <3>5, SameRequest DEF Enters, Refreshes
      <4>2. /\ Idem(h)' = Idem(h) /\ Idem(h) \in Idems
            /\ request'[h].amount = request[h].amount
            /\ RowOf(h) # None /\ RowOf(h).status \in Accepted
            /\ RowOf(h).business.amount = request[h].amount
        BY <1>1, <3>5, <4>1, ReplayTells
      <4>0. Idem(h) \notin cut BY <3>5, <4>2
      <4>3. executed[Idem(h)] # None BY <4>0, <4>2 DEF AcceptedMade, RowOf, Idem
      <4>4. executed[Idem(h)] = RowOf(h).business
        <5>1. CASE \E g \in Handlers : request[g].pc = "commit" /\ Idem(g) = Idem(h)
          BY <4>2, <5>1 DEF HoldInv, NoSendAfterFinal, RowOf, Idem, Working, Accepted
        <5>2. CASE ~\E g \in Handlers : request[g].pc = "commit" /\ Idem(g) = Idem(h)
          BY <4>0, <4>2, <4>3, <5>2 DEF TransferHasRow, RowOf, Idem
        <5> QED BY <5>1, <5>2
      <4> QED BY <3>1, <4>2, <4>3, <4>4 DEF coinbase
    <3>6. AcceptedIsExecuted' BY <2>0, <3>1, <3>5 DEF AcceptedIsExecuted, coinbase
    <3> QED BY <3>2, <3>3, <3>4, <3>6
  <2>2. CASE Leaves(h) /\ CutBehind(h)
    BY <1>1, <2>2, Elsewhere DEF Leaves, CutBehind
  <2>3. CASE (Sends(h) \/ Commit(h)) /\ Idem(h) \in cut
    <3>1. /\ Idem(h)' = Idem(h) /\ cut' = cut
          /\ \A i \in Idems \ {Idem(h)} : /\ sent'[i] = sent[i] /\ executed'[i] = executed[i]
                                          /\ rows'[i] = rows[i]
      BY <2>3, SameRequest DEF Sends, SendAccepted, SendChallenged, SendRejected, SendUnanswered,
           Commit, MayReceive, Receive, Execute, coinbase, TypeInv, TypeOK
    <3> QED BY <1>1, <2>3, <3>1, Elsewhere
  <2>4. CASE Sends(h) /\ Idem(h) \notin cut
    <3>0. UNCHANGED cut
      BY <2>4 DEF Sends, SendAccepted, SendChallenged, SendRejected, SendUnanswered
    <3>1. /\ Idem(h)' = Idem(h) /\ Business(h)' = Business(h) /\ UNCHANGED rows
          /\ request[h].pc \in Working /\ request'[h].pc = "commit"
      BY <2>4, SameRequest DEF Sends, Commit, SendAccepted, SendChallenged, SendRejected,
                               SendUnanswered
    <3>2. Sent(h) BY <2>4, SendDoes
    <3>3. Idem(h) \in Idems /\ \A g \in Handlers \ {h} : request[g].pc # "commit"
      BY <3>1, BusinessType DEF HoldInv, OneWorking, Working
    <3>4. SentTraced' BY <3>0, <2>0, <3>1, <3>2, <3>3 DEF SentTraced, Traced, Sent
    <3>5. TransferHasRow' BY <3>0, <2>0, <3>1, <3>2, <3>3 DEF TransferHasRow, Sent
    <3>6. AcceptedMade' BY <3>0, <2>0, <3>1, <3>2, <3>3 DEF AcceptedMade, Sent, Idem
    <3>7. \A g \in Handlers : request[g].pc = "done" => Idem(g) \in Idems
      BY DEF TypeInv, LocalOK, HandlerOK, Idem
    <3>8. \A g \in Handlers : request'[g].pc = "done" => g # h BY <3>1
    <3>9. ASSUME NEW g \in Handlers, request'[g].pc = "done", request'[g].outcome = "accepted",
                 Idem(g)' \notin cut
          PROVE  executed'[Idem(g)'] # None /\ executed'[Idem(g)'].amount = request'[g].amount
      <4>1. /\ request'[g] = request[g] /\ Idem(g)' = Idem(g) /\ Idem(g) \in Idems
        BY <2>0, <3>7, <3>8, <3>9
      <4>2. executed[Idem(g)] # None /\ executed[Idem(g)].amount = request[g].amount
        BY <3>9, <4>1 DEF AcceptedIsExecuted
      <4>3. executed'[Idem(g)] = executed[Idem(g)] BY <3>2, <4>1, <4>2 DEF Sent
      <4> QED BY <4>1, <4>2, <4>3
    <3>10. AcceptedIsExecuted' BY <3>0, <3>9 DEF AcceptedIsExecuted
    <3> QED BY <3>4, <3>5, <3>6, <3>10
  <2>5. CASE Commit(h) /\ Idem(h) \notin cut
    <3>1. /\ Idem(h)' = Idem(h) /\ Business(h)' = Business(h)
          /\ request[h].pc = "commit" /\ request'[h].pc = "done"
          /\ UNCHANGED <<coinbase, cut>>
      BY <2>5, SameRequest DEF Commit
    <3>2. /\ Idem(h) \in Idems
          /\ \A g \in Handlers \ {h} : request[g].pc # "commit"
      BY <3>1, BusinessType DEF HoldInv, OneWorking, Working
    <3> DEFINE row == [business |-> Business(h), status |-> request[h].outcome]
    <3>3. /\ rows'[Idem(h)] = row
          /\ \A i \in Idems \ {Idem(h)} : rows'[i] = rows[i]
      BY <2>5, <3>2 DEF Commit, TypeInv, TypeOK
    <3>4. row # None
      <4>1. row \in Rows
        BY <3>1, BusinessType DEF Rows, TypeInv, LocalOK, HandlerOK, Working
      <4> QED BY <4>1, NoneAssumption
    <3>5. /\ \A s \in sent[Idem(h)] : s = Business(h)
          /\ executed[Idem(h)] # None => /\ request[h].outcome \in Final
                                         /\ executed[Idem(h)] = Business(h)
      BY <2>5, <3>1, Alone DEF Working
    <3>6. request'[h].outcome = "accepted" => request[h].outcome \in Accepted
      <4>1. request'[h].outcome = AnswerFor(h)
        BY <2>5 DEF Commit, Answer, Becomes, TypeInv, TypeOK, Requests
      <4> QED BY <4>1 DEF AnswerFor
    <3>7. SentTraced' BY <2>0, <3>1, <3>2, <3>3, <3>4, <3>5 DEF SentTraced, Traced, coinbase
    <3>8. TransferHasRow' BY <2>0, <3>1, <3>2, <3>3, <3>4, <3>5 DEF TransferHasRow, coinbase
    <3>9. AcceptedMade' BY <2>0, <3>1, <3>2, <3>3, <3>4 DEF AcceptedMade, coinbase
    <3>10. ASSUME request'[h].outcome = "accepted"
           PROVE  executed[Idem(h)] # None /\ executed[Idem(h)].amount = request'[h].amount
      BY <2>5, <3>1, <3>5, <3>6, <3>10 DEF AcceptedMade, Business
    <3>11. AcceptedIsExecuted' BY <2>0, <3>1, <3>10 DEF AcceptedIsExecuted, coinbase
    <3> QED BY <3>7, <3>8, <3>9, <3>11
  <2> QED BY <1>1, HandlerMoves, <2>1, <2>2, <2>3, <2>4, <2>5 DEF Leaves
<1>2. CASE TokenExpires \/ Reconnect \/ UNCHANGED vars
  <2>1. UNCHANGED <<rows, cut, request, coinbase>> BY <1>2 DEF TokenExpires, Reconnect, vars
  <2> QED BY <2>1 DEF SentTraced, Traced, TransferHasRow, AcceptedMade, AcceptedIsExecuted,
                      Idem, Business, coinbase
<1> QED BY <1>1, <1>2 DEF Next, HandlerStep

(* Up to the first request cut off behind its send, what Coinbase received *)
(* and did, what the rows say and what the clients are told agree.         *)
THEOREM Tracing == Spec => []TraceInv
BY TraceStep, InitTrace, Holding, PTL DEF Spec

(* Coinbase never sees two different business requests under one idem.     *)
THEOREM OneRequest == Spec => []OneRequestPerIdem
<1>1. TypeInv /\ HoldInv /\ TraceInv => OneRequestPerIdem
  <2> SUFFICES ASSUME TypeInv, HoldInv, TraceInv, NEW i \in Idems \ cut
               PROVE  Cardinality(sent[i]) <= 1
    BY DEF OneRequestPerIdem
  <2>1. CASE sent[i] = {} BY <2>1, FS_EmptySet
  <2>2. CASE sent[i] # {}
    <3>1. PICK s : s \in sent[i] BY <2>2
    <3>2. ASSUME NEW t \in sent[i] PROVE t = s
      <4>1. Traced(i, s) /\ Traced(i, t) BY <3>1 DEF TraceInv, SentTraced
      <4>2. CASE \E h \in Handlers : request[h].pc = "commit" /\ Idem(h) = i
        <5>1. PICK h \in Handlers : request[h].pc = "commit" /\ Idem(h) = i BY <4>2
        <5> QED BY <3>1, <5>1, Alone DEF Working
      <4>3. CASE ~\E h \in Handlers : request[h].pc = "commit" /\ Idem(h) = i
        BY <4>1, <4>3 DEF Traced
      <4> QED BY <4>2, <4>3
    <3>3. sent[i] = {s} BY <3>1, <3>2
    <3>4. Cardinality({s}) = 1 BY FS_Singleton
    <3> QED BY <3>3, <3>4
  <2> QED BY <2>1, <2>2
<1> QED BY <1>1, Holding, Tracing, PTL

(* No transfer is left without a trace, or awaiting a code.                *)
THEOREM TransfersHaveRows == Spec => []TransferHasRow
<1>1. TraceInv => TransferHasRow BY DEF TraceInv
<1> QED BY <1>1, Tracing, PTL

(* "accepted" is told of a transfer that Coinbase made.                    *)
THEOREM AcceptedAreExecuted == Spec => []AcceptedIsExecuted
<1>1. TraceInv => AcceptedIsExecuted BY DEF TraceInv
<1> QED BY <1>1, Tracing, PTL

(* New tokens are stored whenever the request that obtained them answers.  *)
THEOREM TokensKept == Spec => RefreshedTokensKept
<1>1. TypeInv /\ [Next]_vars =>
        [\A h \in Handlers :
           request[h].pc \in Working /\ request[h].token = "new"
             /\ request'[h].pc = "done" => ~stale']_vars
  <2> SUFFICES ASSUME TypeInv, [Next]_vars, NEW h \in Handlers, request[h].pc \in Working,
                      request[h].token = "new", request'[h].pc = "done"
               PROVE  ~stale'
    OBVIOUS
  <2>1. request[h].pc \in {"send", "commit"} BY DEF TypeInv, LocalOK, HandlerOK, Working
  <2>2. PICK g \in Handlers : HandlerStep(g)
    BY DEF Next, HandlerStep, TokenExpires, Reconnect, vars, Working
  <2>3. g = h BY <2>1, <2>2, OthersStay
  <2>4. Commit(h)
    <3>1. ~Leaves(h) BY <2>1 DEF Leaves, Unsent, CutBehind
    <3>2. ~Enters(h) BY DEF Enters, Decide, Working
    <3>3. ~Refreshes(h) /\ ~Sends(h) BY SameRequest DEF Refreshes
    <3> QED BY <2>2, <2>3, <3>1, <3>2, <3>3, HandlerMoves
  <2> QED BY <2>4 DEF Commit
<1> QED BY <1>1, TypeCorrect, PTL DEF Spec, RefreshedTokensKept, TypeInv
-----------------------------------------------------------------------------
(* The refinement.  A handler past the lock finds its key open, for its    *)
(* own business request.                                                   *)
LEMMA Opened ==
  ASSUME TypeInv, HoldInv, TraceInv, NEW h \in Handlers, request[h].pc \in Working
  PROVE  /\ Idem(h) \in Idems /\ Business(h) \in Businesses
         /\ Ledger!Open(Idem(h), Business(h)) /\ Ledger!Pure(Idem(h), Business(h))
<1>1. Ledger!Open(Idem(h), Business(h))
  BY DEF Ledger!Open, HoldInv, RowMatches, NoSendAfterFinal, RowOf, Idem
<1>2. Ledger!Pure(Idem(h), Business(h))
  BY Alone DEF Ledger!Pure
<1> QED BY <1>1, <1>2, BusinessType

(* A send reaches Coinbase as the ledger has it, or not at all.            *)
LEMMA Reaches ==
  ASSUME TypeInv, NEW h \in Handlers, request[h].pc = "send",
         MayReceive(h) \/ (Receive(h) /\ (Execute(h) \/ UNCHANGED executed))
  PROVE  Ledger!Reach(Idem(h), Business(h)) \/ UNCHANGED coinbase
<1>1. CASE Receive(h) /\ Execute(h)
  <2>1. Idem(h) \in Idems BY BusinessType DEF Working
  <2>2. executed[Idem(h)] # None => executed' = executed
    BY <1>1, <2>1 DEF Execute, TypeInv, TypeOK
  <2>3. executed[Idem(h)] = None => executed' = [executed EXCEPT ![Idem(h)] = Business(h)]
    BY <1>1, <2>1 DEF Execute, TypeInv, TypeOK
  <2> QED BY <1>1, <2>2, <2>3 DEF Receive, Ledger!Reach
<1>2. CASE Receive(h) /\ UNCHANGED executed
  BY <1>2 DEF Receive, Ledger!Reach
<1> QED BY <1>1, <1>2 DEF MayReceive

(* A send asks; a commit records; a request cut off behind its send tears; *)
(* everything else is a step the ledger does not see.                      *)
LEMMA LedgerStep ==
  ASSUME TypeInv, HoldInv, TraceInv, [Next]_vars
  PROVE  [Ledger!Next]_(Ledger!ledgerVars)
<1>1. ASSUME NEW h \in Handlers, Sends(h) PROVE [Ledger!Next]_(Ledger!ledgerVars)
  <2>1. request[h].pc = "send" /\ UNCHANGED <<rows, cut>>
    BY <1>1 DEF Sends, SendAccepted, SendChallenged, SendRejected, SendUnanswered
  <2>2. Ledger!Reach(Idem(h), Business(h)) \/ UNCHANGED coinbase
    BY <1>1, <2>1, Reaches DEF Sends, SendAccepted, SendChallenged, SendRejected, SendUnanswered
  <2>3. Idem(h) \in cut \/ executed[Idem(h)] = None
    BY <2>1, Alone DEF Working
  <2>4. CASE Ledger!Reach(Idem(h), Business(h))
    BY <2>1, <2>3, <2>4, Opened DEF Working, Ledger!Ask, Ledger!Next
  <2>5. CASE UNCHANGED coinbase BY <2>1, <2>5 DEF coinbase, Ledger!ledgerVars
  <2> QED BY <2>2, <2>4, <2>5
<1>2. ASSUME NEW h \in Handlers, Commit(h) PROVE [Ledger!Next]_(Ledger!ledgerVars)
  <2>1. request[h].pc = "commit" /\ UNCHANGED <<coinbase, cut>> BY <1>2 DEF Commit
  <2>2. request[h].outcome \in Ledger!Statuses
    BY <2>1 DEF TypeInv, LocalOK, HandlerOK, Ledger!Statuses, Ledger!Final, Ledger!Accepted,
                Final, Accepted
  <2>3. \/ Idem(h) \in cut
        \/ executed[Idem(h)] = None /\ request[h].outcome \notin Ledger!Accepted
        \/ executed[Idem(h)] = Business(h) /\ request[h].outcome \in Ledger!Final
    BY <2>1, Alone DEF Working, TraceInv, AcceptedMade, Ledger!Final, Ledger!Accepted,
                       Final, Accepted
  <2>4. Ledger!Record(Idem(h), Business(h), request[h].outcome)
    BY <1>2, <2>1, <2>3, Opened DEF Commit, Working, coinbase, Ledger!Record
  <2> QED BY <2>1, <2>2, <2>4, Opened DEF Working, Ledger!Next
<1>3. ASSUME NEW h \in Handlers, CutOff(h) PROVE [Ledger!Next]_(Ledger!ledgerVars)
  <2>1. CASE request[h].pc \in {"send", "commit"}
    <3>1. UNCHANGED rows /\ cut' = cut \cup {Idem(h)} BY <1>3, <2>1 DEF CutOff
    <3>2. Ledger!Reach(Idem(h), Business(h)) \/ UNCHANGED coinbase
      BY <1>3, <2>1, Reaches DEF CutOff
    <3>3. Ledger!Tear(Idem(h), Business(h))
      BY <2>1, <3>1, <3>2, Opened DEF Working, coinbase, Ledger!Tear
    <3> QED BY <2>1, <3>3, Opened DEF Working, Ledger!Next
  <2>2. CASE request[h].pc \notin {"send", "commit"}
    BY <1>3, <2>2 DEF CutOff, coinbase, Ledger!ledgerVars
  <2> QED BY <2>1, <2>2
<1>4. ASSUME NEW h \in Handlers, Begin(h) \/ Decide(h) \/ Refresh(h) \/ RefreshFails(h) \/ Done(h)
      PROVE  UNCHANGED Ledger!ledgerVars
  BY <1>4 DEF Begin, Decide, Refresh, RefreshFails, Done, coinbase, Ledger!ledgerVars
<1>5. CASE TokenExpires \/ Reconnect \/ UNCHANGED vars
  BY <1>5 DEF TokenExpires, Reconnect, vars, coinbase, Ledger!ledgerVars
<1> QED BY <1>1, <1>2, <1>3, <1>4, <1>5 DEF Next, Progress, Sends

(* The lock, the row and the key Coinbase is given implement the ledger of *)
(* transfers: one business request for a key, asked for only while its row *)
(* is open, and a row that says what became of it.                         *)
THEOREM LedgerKept == Spec => ImplementsLedger
<1>1. Init => Ledger!Init BY DEF Init, Ledger!Init
<1> QED BY <1>1, LedgerStep, Holding, Tracing, PTL DEF Spec, Ledger!Spec, ImplementsLedger
=============================================================================
