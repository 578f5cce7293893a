----------------------------- MODULE Withdrawals -----------------------------
(***************************************************************************)
(* POST .../withdrawals of the exchange service, for one connected account *)
(* (withdrawals of different accounts share nothing).  Each request runs   *)
(* one transaction that locks the account's row and stays open across the  *)
(* token refresh and the send; Coinbase is the environment.                *)
(*                                                                         *)
(* A business request is a wallet of the asset and an amount; destination  *)
(* and network play the same role in the fingerprint and are left out.     *)
(* A request may be cut off between any two steps: the pod dies, the       *)
(* database fails, or the caller (the gateway after its three seconds)     *)
(* goes away and the request's context is cancelled.                       *)
(***************************************************************************)
EXTENDS Naturals, FiniteSets

CONSTANTS Handlers,    \* requests in flight
          Idems,       \* idempotency keys the clients use
          Amounts,     \* amounts they ask for
          Snapshots,   \* balance snapshots a (re)connection can store: sets
                       \* of records [wallet, amount]
          None

ASSUME AmountsAssumption == Amounts \subseteq Nat \ {0}
ASSUME SnapshotsAssumption == \A s \in Snapshots : \A b \in s : b.amount \in Nat

VARIABLES
  balances,  \* cex_balances: the rows of the asset
  expiring,  \* cex_accounts: the access token expires within 30 seconds
  stale,     \* ... the stored refresh token is not the one Coinbase honours
  rows,      \* cex_withdrawals, keyed by idem; None if there is no row
  request,   \* per handler: the request in flight and its progress
  sent,      \* Coinbase: the business requests received under each idem
  executed,  \* Coinbase: the transfer made under each idem, or None
  cut        \* history: the idems a request of which was cut off with its
             \* send under way or behind it

account  == <<balances, expiring, stale>>
coinbase == <<sent, executed>>
vars     == <<account, rows, request, coinbase, cut>>

Wallets    == {b.wallet : b \in UNION Snapshots}
Businesses == [wallet : Wallets, amount : Amounts]
Codes      == {"none", "valid", "wrong"}
Accepted   == {"PROVIDER_PENDING", "COMPLETED"}
Final      == Accepted \cup {"FAILED"}
Rows       == [business : Businesses, status : Final \cup {"REQUIRES_2FA"}]
Answers    == {"accepted", "failed", "challenge", "invalid code", "conflict",
               "insufficient", "not found", "error"}

Idle == [pc |-> "idle", idem |-> None, amount |-> 0, code |-> "none",
         wallet |-> None, token |-> "stored", outcome |-> None]

Requests ==
  [pc : {"idle", "waiting", "refresh", "send", "commit", "done"},
   idem : Idems \cup {None}, amount : Amounts \cup {0}, code : Codes,
   wallet : Wallets \cup {None}, token : {"stored", "new"},
   outcome : Final \cup {"REQUIRES_2FA", None} \cup Answers]

ASSUME NoneAssumption == None \notin Rows \cup Businesses

TypeOK ==
  /\ balances \in Snapshots \cup {{}}
  /\ expiring \in BOOLEAN /\ stale \in BOOLEAN
  /\ rows \in [Idems -> Rows \cup {None}]
  /\ request \in [Handlers -> Requests]
  /\ sent \in [Idems -> SUBSET Businesses]
  /\ executed \in [Idems -> Businesses \cup {None}]
  /\ cut \subseteq Idems

Init ==
  /\ balances = {} /\ expiring = FALSE /\ stale = FALSE
  /\ rows = [i \in Idems |-> None]
  /\ request = [h \in Handlers |-> Idle]
  /\ sent = [i \in Idems |-> {}]
  /\ executed = [i \in Idems |-> None]
  /\ cut = {}

Idem(h)     == request[h].idem
RowOf(h)    == rows[request[h].idem]
Business(h) == [wallet |-> request[h].wallet, amount |-> request[h].amount]
Working     == {"refresh", "send", "commit"}
Locked      == \E h \in Handlers : request[h].pc \in Working

Becomes(h, r) == request' = [request EXCEPT ![h] = r]

Answer(h, a) == Becomes(h, [request[h] EXCEPT !.pc = "done", !.outcome = a])
-----------------------------------------------------------------------------
(* A client, or its retry logic, sends any request at any time.            *)
Begin(h) ==
  /\ request[h].pc = "idle"
  /\ \E i \in Idems, a \in Amounts, c \in Codes :
       Becomes(h, [Idle EXCEPT !.pc = "waiting", !.idem = i, !.amount = a, !.code = c])
  /\ UNCHANGED <<account, rows, cut, coinbase>>

(* SELECT ... FOR UPDATE on the account, and the decision taken under the  *)
(* lock: each disjunct below is a way out of it.  The wallet is that of    *)
(* any balance row of the asset: the query has no ORDER BY.                *)
Unknown(h) ==
  /\ balances = {}
  /\ Answer(h, "not found")

MatchesIdem(h, b) == RowOf(h) # None   \* mutant: the hash is not compared

Matches(h, b) ==
  /\ RowOf(h) # None
  /\ RowOf(h).business = [wallet |-> b.wallet, amount |-> request[h].amount]

Conflict(h, b) ==
  /\ RowOf(h) # None /\ ~Matches(h, b)
  /\ Answer(h, "conflict")

ReplayAsAccepted(h, b) ==   \* mutant: a stored failure is replayed as a success
  /\ Matches(h, b) /\ RowOf(h).status \in Final
  /\ Answer(h, "accepted")

Replay(h, b) ==
  /\ Matches(h, b) /\ RowOf(h).status \in Final
  /\ Answer(h, IF RowOf(h).status = "FAILED" THEN "failed" ELSE "accepted")

Rechallenge(h, b) ==
  /\ Matches(h, b) /\ RowOf(h).status = "REQUIRES_2FA" /\ request[h].code = "none"
  /\ Answer(h, "challenge")

Insufficient(h, b) ==
  /\ RowOf(h) = None /\ request[h].amount > b.amount
  /\ Answer(h, "insufficient")

ProceedAfterFailure(h, b) ==   \* mutant: a recorded failure is sent again
  /\ \/ RowOf(h) = None /\ request[h].amount <= b.amount
     \/ Matches(h, b) /\ RowOf(h).status \in {"REQUIRES_2FA", "FAILED"}
  /\ Becomes(h, [request[h] EXCEPT !.pc = IF expiring THEN "refresh" ELSE "send",
                                   !.wallet = b.wallet])

Proceed(h, b) ==
  /\ \/ RowOf(h) = None /\ request[h].amount <= b.amount
     \/ Matches(h, b) /\ RowOf(h).status = "REQUIRES_2FA" /\ request[h].code # "none"
  /\ Becomes(h, [request[h] EXCEPT !.pc = IF expiring THEN "refresh" ELSE "send",
                                   !.wallet = b.wallet])

DecideUnlocked(h) ==   \* mutant: SELECT without FOR UPDATE
  /\ request[h].pc = "waiting"
  /\ \/ Unknown(h)
     \/ \E b \in balances : Conflict(h, b) \/ Replay(h, b) \/ Rechallenge(h, b)
                              \/ Insufficient(h, b) \/ Proceed(h, b)
  /\ UNCHANGED <<account, rows, cut, coinbase>>

Decide(h) ==
  /\ request[h].pc = "waiting" /\ ~Locked
  /\ \/ Unknown(h)
     \/ \E b \in balances : Conflict(h, b) \/ Replay(h, b) \/ Rechallenge(h, b)
                              \/ Insufficient(h, b) \/ Proceed(h, b)
  /\ UNCHANGED <<account, rows, cut, coinbase>>

(* accessTokenForSend.  Coinbase may rotate the refresh token; what it     *)
(* returned is stored by the transaction's commit.                         *)
Refresh(h) ==
  /\ request[h].pc = "refresh" /\ ~stale
  /\ stale' \in BOOLEAN
  /\ Becomes(h, [request[h] EXCEPT !.pc = "send", !.token = "new"])
  /\ UNCHANGED <<balances, expiring, rows, cut, coinbase>>

(* The refresh is refused, or its answer lost after a rotation or before:  *)
(* the error ends the request and rolls it back.                           *)
RefreshRetried(h) ==   \* mutant: the refresh is tried again under the lock
  /\ request[h].pc = "refresh"
  /\ stale' \in {stale, TRUE}
  /\ UNCHANGED <<balances, expiring, rows, cut, request, coinbase>>

RefreshFails(h) ==
  /\ request[h].pc = "refresh"
  /\ stale' \in {stale, TRUE}
  /\ Answer(h, "error")
  /\ UNCHANGED <<balances, expiring, rows, cut, coinbase>>
-----------------------------------------------------------------------------
(* Coinbase receives a send.  It makes at most one transfer per idem.      *)
Receive(h) == sent' = [sent EXCEPT ![Idem(h)] = @ \cup {Business(h)}]

Outcome(h, o) == Becomes(h, [request[h] EXCEPT !.pc = "commit", !.outcome = o])

Execute(h) ==
  executed' = [executed EXCEPT ![Idem(h)] = IF @ = None THEN Business(h) ELSE @]

MayReceive(h) ==
  \/ UNCHANGED coinbase
  \/ Receive(h) /\ UNCHANGED executed
  \/ Receive(h) /\ request[h].code # "wrong" /\ Execute(h)

SendAccepted(h) ==
  /\ request[h].pc = "send" /\ request[h].code # "wrong"
  /\ Receive(h) /\ Execute(h)
  /\ \E o \in Accepted : Outcome(h, o)
  /\ UNCHANGED <<account, rows, cut>>

(* 402 two_factor_required: no code, or one that is not accepted.          *)
SendChallenged(h) ==
  /\ request[h].pc = "send" /\ request[h].code # "valid"
  /\ Receive(h) /\ Outcome(h, "REQUIRES_2FA")
  /\ UNCHANGED <<account, rows, cut, executed>>

(* Any other answer of an error status.                                    *)
SendRejected(h) ==
  /\ request[h].pc = "send"
  /\ Receive(h) /\ Outcome(h, "FAILED")
  /\ UNCHANGED <<account, rows, cut, executed>>

SendLost(h) ==   \* mutant: an unanswered send is an error like any other
  /\ request[h].pc = "send"
  /\ Answer(h, "error")
  /\ MayReceive(h)
  /\ UNCHANGED <<account, rows, cut>>

(* No usable answer (timeout, connection error, a body that does not       *)
(* decode): Coinbase may have received the send, and made the transfer.    *)
SendUnanswered(h) ==
  /\ request[h].pc = "send"
  /\ Outcome(h, "FAILED")
  /\ MayReceive(h)
  /\ UNCHANGED <<account, rows, cut>>

AnswerFor(h) ==
  CASE request[h].outcome \in Accepted -> "accepted"
    [] request[h].outcome = "FAILED"   -> "failed"
    [] request[h].code = "none"        -> "challenge"
    [] OTHER                           -> "invalid code"

CommitAccessToken(h) ==   \* mutant: only the access token is stored
  /\ request[h].pc = "commit"
  /\ rows' = [rows EXCEPT ![Idem(h)] = [business |-> Business(h), status |-> request[h].outcome]]
  /\ expiring' = (expiring /\ request[h].token = "stored")
  /\ Answer(h, AnswerFor(h))
  /\ UNCHANGED <<balances, stale, coinbase, cut>>

(* The row, with its final or awaiting status, and the refreshed tokens    *)
(* become durable together.                                                *)
Commit(h) ==
  /\ request[h].pc = "commit"
  /\ rows' = [rows EXCEPT ![Idem(h)] = [business |-> Business(h), status |-> request[h].outcome]]
  /\ IF request[h].token = "new" THEN stale' = FALSE /\ expiring' = FALSE
                             ELSE UNCHANGED <<stale, expiring>>
  /\ Answer(h, AnswerFor(h))
  /\ UNCHANGED <<balances, coinbase, cut>>

Done(h) ==
  /\ request[h].pc = "done"
  /\ Becomes(h, Idle)
  /\ UNCHANGED <<account, rows, cut, coinbase>>

(* The request is cut off: its transaction is rolled back and the lock     *)
(* released.  A send cut off midway may have reached Coinbase or not.      *)
CutOff(h) ==
  /\ request[h].pc \in {"waiting"} \cup Working
  /\ (request[h].pc = "send" /\ MayReceive(h)) \/ UNCHANGED coinbase
  /\ cut' = IF request[h].pc \in {"send", "commit"} THEN cut \cup {Idem(h)} ELSE cut
  /\ Becomes(h, Idle)
  /\ UNCHANGED <<account, rows>>
-----------------------------------------------------------------------------
TokenExpires ==
  /\ balances # {} /\ ~expiring
  /\ expiring' = TRUE
  /\ UNCHANGED <<balances, stale, rows, cut, request, coinbase>>

ReconnectUnlocked ==   \* mutant: the snapshot is replaced before the account is locked
  /\ balances' \in Snapshots
  /\ expiring' = FALSE /\ stale' = FALSE
  /\ UNCHANGED <<rows, cut, request, coinbase>>

(* The OAuth callback stores new tokens and a new balance snapshot.  Its   *)
(* upsert needs the row lock.                                              *)
Reconnect ==
  /\ ~Locked
  /\ balances' \in Snapshots
  /\ expiring' = FALSE /\ stale' = FALSE
  /\ UNCHANGED <<rows, cut, request, coinbase>>

Progress(h) == \/ Refresh(h) \/ RefreshFails(h)
               \/ SendAccepted(h) \/ SendChallenged(h) \/ SendRejected(h) \/ SendUnanswered(h)
               \/ Commit(h) \/ Done(h)

Next == \/ \E h \in Handlers : Begin(h) \/ Decide(h) \/ Progress(h) \/ CutOff(h)
        \/ TokenExpires \/ Reconnect

Spec == Init /\ [][Next]_vars

(* Every call of a handler returns: the HTTP client has a timeout and the  *)
(* database answers.  PostgreSQL queues the waiters of a row lock, so one  *)
(* that keeps finding it free gets it.                                     *)
FairSpec == Spec /\ \A h \in Handlers : WF_vars(Progress(h)) /\ SF_vars(Decide(h))
-----------------------------------------------------------------------------
(* The row of an idem, once final, is what the client is told forever: no  *)
(* handler is on its way to the provider for it, whatever two handlers do  *)
(* with the same idem.                                                     *)
NoSendAfterFinal ==
  \A h \in Handlers : request[h].pc \in Working =>
    RowOf(h) = None \/ RowOf(h).status = "REQUIRES_2FA"

(* A first attempt holds the balance it was checked against: no            *)
(* reconnection replaces the snapshot while it is on its way.              *)
BalanceHeld ==
  \A h \in Handlers : request[h].pc \in Working /\ RowOf(h) = None =>
    \E b \in balances : b.wallet = request[h].wallet /\ b.amount >= request[h].amount

(* A row never disappears or changes its business request, and only one    *)
(* that awaits its code changes status.  ImplementsLedger says it too.     *)
RowsSettle ==
  [][\A i \in Idems : rows[i] # None =>
       /\ rows'[i] # None /\ rows'[i].business = rows[i].business
       /\ rows[i].status \in Final => rows'[i] = rows[i]]_vars

(* Coinbase never sees two different business requests under one idem, up  *)
(* to the first request cut off behind a send: the code ensures it with    *)
(* the row of the first attempt, which such a request takes back.          *)
OneRequestPerIdem == \A i \in Idems \ cut : Cardinality(sent[i]) <= 1

(* A client told that its withdrawal was accepted asked for the transfer   *)
(* that Coinbase made under that idem, unless one was cut off before.      *)
AcceptedIsExecuted ==
  \A h \in Handlers :
    request[h].pc = "done" /\ request[h].outcome = "accepted" /\ Idem(h) \notin cut =>
    executed[Idem(h)] # None /\ executed[Idem(h)].amount = request[h].amount

(* Every transfer Coinbase made is the business request of a final row, or *)
(* of one a handler is about to commit: none is left without a trace, or   *)
(* awaiting a code, unless a request was cut off behind its send.          *)
TransferHasRow ==
  \A i \in Idems \ cut : executed[i] # None =>
    \/ rows[i] # None /\ rows[i].business = executed[i] /\ rows[i].status \in Final
    \/ \E h \in Handlers : request[h].pc = "commit" /\ Idem(h) = i
          /\ Business(h) = executed[i] /\ request[h].outcome \in Final

(* A handler that obtained new tokens does not answer, whatever became of  *)
(* the send, without the account holding a refresh token Coinbase honours. *)
RefreshedTokensKept ==
  [][\A h \in Handlers :
       request[h].pc \in Working /\ request[h].token = "new" /\ request'[h].pc = "done"
         => ~stale']_vars

(* What becomes of a key is what TransferLedger promises: whatever the      *)
(* handlers do with one key, Coinbase is asked for one business request,   *)
(* while the row is open, and the row then says whether the transfer was   *)
(* made.  The withdrawal table, the key Coinbase is given and the lock     *)
(* stand behind it together.                                               *)
Ledger == INSTANCE TransferLedger
          WITH entry <- rows, asked <- sent, made <- executed, torn <- cut

ImplementsLedger == Ledger!Spec

(* Every request is answered, whatever the others of the account do.       *)
EveryRequestEnds ==
  \A h \in Handlers : request[h].pc # "idle" ~> request[h].pc = "idle"
-----------------------------------------------------------------------------
(* What a comment of withdrawal.go says, and the code does not do: a       *)
(* FAILED row records a genuine provider failure.  See the finding.         *)
FailedMeansNotExecuted ==
  \A i \in Idems : rows[i] # None /\ rows[i].status = "FAILED" => executed[i] = None
=============================================================================
