------------------------------ MODULE Connection ------------------------------
(***************************************************************************)
(* Connecting one account to Coinbase: authorization URLs, their OAuth     *)
(* callbacks, and those who use the connection meanwhile: withdrawals,     *)
(* which refresh its tokens, and valuations, which read its balances.      *)
(* Sessions, connections and balances of different accounts share nothing. *)
(*                                                                         *)
(* A flow is what one authorization yields: tokens and a balance snapshot, *)
(* both named by the state of its session.  Coinbase may rotate a refresh  *)
(* token when it is used; gen counts the rotations, and only the last one  *)
(* is honoured.  Of a withdrawal, see Withdrawals, only the row lock and   *)
(* the tokens are of interest here.                                        *)
(***************************************************************************)
EXTENDS Naturals

CONSTANTS States,      \* OAuth states, issued or made up
          Callbacks,   \* callback requests in flight
          Senders,     \* withdrawals in flight
          Readers,     \* valuations in flight
          None,
          MaxRotations \* bound of a refresh token's rotations

ASSUME RotationsAssumption == MaxRotations \in Nat

VARIABLES
  session,   \* cex_oauth_sessions: "none", "open" or "used" (consumed_at)
  expired,   \* ... those past expires_at
  tokens,    \* cex_accounts: the stored refresh token, None if not connected
  snapshot,  \* cex_balances: the flow its rows are from
  callback, sender, reader,   \* local state of the requests
  exchanged, \* Coinbase: how often the code of a state was received
  honoured,  \* ... the rotation it honours of each flow
  lost       \* history: flows of which a rotation was never stored

sessions == <<session, expired>>
account  == <<tokens, snapshot>>
coinbase == <<exchanged, honoured>>
vars     == <<sessions, account, callback, sender, reader, coinbase, lost>>

Tokens == [flow : States, gen : Nat]

ASSUME NoneAssumption == None \notin States \cup Tokens

Places  == {"idle", "begin", "consuming", "miss", "exchange", "fetch", "persist", "upserted", "done"}
Answers == {"connected", "invalid", "used", "expired", "error"}

(* late is history, kept by a miss and by the answer "expired": whether the *)
(* state had been used when the UPDATE missed.                             *)
IdleCallback == [pc |-> "idle", state |-> None, late |-> FALSE, answer |-> None]
IdleSender   == [pc |-> "idle", token |-> None]
IdleReader   == [pc |-> "idle", saw |-> None]

TypeOK ==
  /\ session \in [States -> {"none", "open", "used"}]
  /\ expired \subseteq States
  /\ tokens \in Tokens \cup {None}
  /\ snapshot \in States \cup {None}
  /\ callback \in [Callbacks ->
       [pc : Places, state : States \cup {None}, late : BOOLEAN,
        answer : Answers \cup {None}]]
  /\ sender \in [Senders -> [pc : {"idle", "locked", "refreshed"},
                             token : Tokens \cup {None}]]
  /\ reader \in [Readers -> [pc : {"idle", "found", "done"}, saw : States \cup {None}]]
  /\ exchanged \in [States -> Nat]
  /\ honoured \in [States -> Nat]
  /\ lost \subseteq States

Init ==
  /\ session = [s \in States |-> "none"] /\ expired = {}
  /\ tokens = None /\ snapshot = None
  /\ callback = [c \in Callbacks |-> IdleCallback]
  /\ sender = [w \in Senders |-> IdleSender]
  /\ reader = [r \in Readers |-> IdleReader]
  /\ exchanged = [s \in States |-> 0] /\ honoured = [s \in States |-> 0]
  /\ lost = {}

(* The lock of the account's row: held by a withdrawal from its SELECT ... *)
(* FOR UPDATE on, and by persistConnection from its upsert on.             *)
Locked == \/ \E w \in Senders : sender[w].pc # "idle"
          \/ \E c \in Callbacks : callback[c].pc = "upserted"

State(c)     == callback[c].state
Moves(c, pc) == callback' = [callback EXCEPT ![c].pc = pc]
Answer(c, a) == callback' = [callback EXCEPT ![c].pc = "done", ![c].answer = a]
-----------------------------------------------------------------------------
(* A new state is random: nobody has presented it yet.                     *)
CreateURL(s) ==
  /\ session[s] = "none"
  /\ \A c \in Callbacks : State(c) # s
  /\ session' = [session EXCEPT ![s] = "open"]
  /\ UNCHANGED <<expired, account, callback, sender, reader, coinbase, lost>>

Expire(s) ==
  /\ session[s] # "none"
  /\ expired' = expired \cup {s}
  /\ UNCHANGED <<session, account, callback, sender, reader, coinbase, lost>>

(* A browser calls back with any state, and possibly more than once.       *)
Begin(c) ==
  /\ callback[c].pc = "idle"
  /\ \E s \in States :
       callback' = [callback EXCEPT ![c] = [IdleCallback EXCEPT !.pc = "begin", !.state = s]]
  /\ UNCHANGED <<sessions, account, sender, reader, coinbase, lost>>

(* Mutant of Unconsumed: consumed_at is not part of the condition.         *)
Issued(s) == session[s] # "none"

Unconsumed(s) == session[s] = "open"

(* UPDATE ... RETURNING finds and consumes the session in one statement.   *)
(* It reads the clock and the committed row when it starts, ...            *)
StartConsume(c) ==
  /\ callback[c].pc = "begin"
  /\ Unconsumed(State(c)) /\ State(c) \notin expired
  /\ Moves(c, "consuming")
  /\ UNCHANGED <<sessions, account, sender, reader, coinbase, lost>>

(* ... and is seen by others when it commits.  One that waited for the     *)
(* row's lock meanwhile looks at consumed_at again, at the clock it read.  *)
Consume(c) == /\ callback[c].pc = "consuming" /\ Unconsumed(State(c))
              /\ session' = [session EXCEPT ![State(c)] = "used"]

ConsumeSession(c) ==
  /\ Consume(c)
  /\ Moves(c, "exchange")
  /\ UNCHANGED <<expired, account, sender, reader, coinbase, lost>>

(* It fails, or its answer is lost although it took effect.                *)
ConsumeUnanswered(c) ==
  /\ callback[c].pc \in {"begin", "consuming"}
  /\ UNCHANGED session \/ Consume(c)
  /\ Answer(c, "error")
  /\ UNCHANGED <<expired, account, sender, reader, coinbase, lost>>

(* No row, an expired one, or one that another callback has consumed.      *)
MissSession(c) ==
  /\ \/ callback[c].pc = "begin" /\ (~Unconsumed(State(c)) \/ State(c) \in expired)
     \/ callback[c].pc = "consuming" /\ ~Unconsumed(State(c))
  /\ callback' = [callback EXCEPT ![c].pc = "miss", ![c].late = (session[State(c)] = "used")]
  /\ UNCHANGED <<sessions, account, sender, reader, coinbase, lost>>

(* Mutant of Classification: expiry is looked at first.                    *)
ExpiryFirst(s) == CASE session[s] = "none" -> "invalid"
                    [] session[s] # "none" /\ s \in expired -> "expired"
                    [] OTHER -> "used"

Classification(s) == CASE session[s] = "none" -> "invalid"
                       [] session[s] = "used" -> "used"
                       [] session[s] = "open" -> "expired"

(* Why there was none is a second query, after the first.                  *)
ClassifySessionMiss(c) ==
  /\ callback[c].pc = "miss"
  /\ \E a \in {Classification(State(c)), "error"} :
       callback' = [callback EXCEPT ![c].pc = "done", ![c].answer = a,
                                    ![c].late = @ /\ a = "expired"]
  /\ UNCHANGED <<sessions, account, sender, reader, coinbase, lost>>
-----------------------------------------------------------------------------
(* The code is sent to Coinbase once: token requests are not retried.      *)
Receive(c) == exchanged' = [exchanged EXCEPT ![State(c)] = @ + 1]

ExchangeCode(c) ==
  /\ callback[c].pc = "exchange"
  /\ Receive(c)
  /\ Moves(c, "fetch")
  /\ UNCHANGED <<sessions, account, sender, reader, honoured, lost>>

ExchangeFails(c) ==
  /\ callback[c].pc = "exchange"
  /\ UNCHANGED exchanged \/ Receive(c)
  /\ Answer(c, "error")
  /\ UNCHANGED <<sessions, account, sender, reader, honoured, lost>>

(* GetUser and ListAccounts: reads, retried a bounded number of times.     *)
Fetch(c) ==
  /\ callback[c].pc = "fetch"
  /\ Moves(c, "persist") \/ Answer(c, "error")
  /\ UNCHANGED <<sessions, account, sender, reader, coinbase, lost>>

(* Mutant of Upsert: it does not wait for the lock of a withdrawal.        *)
UpsertUnlocked(c) ==
  /\ callback[c].pc = "persist"
  /\ Moves(c, "upserted")
  /\ UNCHANGED <<sessions, account, sender, reader, coinbase, lost>>

(* Mutant of Upsert: the statements are not one transaction.               *)
UpsertAutocommit(c) ==
  /\ callback[c].pc = "persist" /\ ~Locked
  /\ tokens' = [flow |-> State(c), gen |-> 0] /\ snapshot' = None
  /\ Moves(c, "upserted")
  /\ UNCHANGED <<sessions, sender, reader, coinbase, lost>>

(* persistConnection: INSERT ... ON CONFLICT waits for the row's lock, or  *)
(* for the transaction that inserts it; what it writes is seen by others   *)
(* when the balances are replaced and the transaction commits.             *)
Upsert(c) ==
  /\ callback[c].pc = "persist" /\ ~Locked
  /\ Moves(c, "upserted")
  /\ UNCHANGED <<sessions, account, sender, reader, coinbase, lost>>

CommitConnection(c) ==
  /\ callback[c].pc = "upserted"
  /\ tokens' = [flow |-> State(c), gen |-> 0] /\ snapshot' = State(c)
  /\ \E a \in {"connected", "error"} : Answer(c, a)   \* or its answer is lost
  /\ UNCHANGED <<sessions, sender, reader, coinbase, lost>>

PersistFails(c) ==
  /\ callback[c].pc \in {"persist", "upserted"}
  /\ Answer(c, "error")
  /\ UNCHANGED <<sessions, account, sender, reader, coinbase, lost>>

Done(c) ==
  /\ callback[c].pc = "done"
  /\ callback' = [callback EXCEPT ![c] = IdleCallback]
  /\ UNCHANGED <<sessions, account, sender, reader, coinbase, lost>>

(* The pod dies or the caller goes away: what was committed stays.         *)
CutOff(c) ==
  /\ callback[c].pc \notin {"idle", "done"}
  /\ UNCHANGED session \/ Consume(c)
  /\ UNCHANGED exchanged \/ (callback[c].pc = "exchange" /\ Receive(c))
  /\ callback' = [callback EXCEPT ![c] = IdleCallback]
  /\ UNCHANGED <<expired, account, sender, reader, honoured, lost>>
-----------------------------------------------------------------------------
(* A withdrawal reads the tokens under the row's lock.                     *)
SLockUnlocked(w) ==   \* mutant of SLock: SELECT without FOR UPDATE
  /\ sender[w].pc = "idle"
  /\ tokens # None
  /\ sender' = [sender EXCEPT ![w] = [pc |-> "locked", token |-> tokens]]
  /\ UNCHANGED <<sessions, account, callback, reader, coinbase, lost>>

SLock(w) ==
  /\ sender[w].pc = "idle"
  /\ tokens # None /\ ~Locked
  /\ sender' = [sender EXCEPT ![w] = [pc |-> "locked", token |-> tokens]]
  /\ UNCHANGED <<sessions, account, callback, reader, coinbase, lost>>

Honours(t)     == t.gen = honoured[t.flow]
Rotations(t)   == {t.gen} \cup IF t.gen < MaxRotations THEN {t.gen + 1} ELSE {}
Rotate(t, g)   == honoured' = [honoured EXCEPT ![t.flow] = g]

SRefresh(w) ==
  /\ sender[w].pc = "locked" /\ Honours(sender[w].token)
  /\ \E g \in Rotations(sender[w].token) :
       /\ Rotate(sender[w].token, g)
       /\ sender' = [sender EXCEPT ![w] =
                       [pc |-> "refreshed", token |-> [sender[w].token EXCEPT !.gen = g]]]
  /\ UNCHANGED <<sessions, account, callback, reader, exchanged, lost>>

(* The answer to a refresh is lost, and the withdrawal is rolled back.     *)
SRefreshLost(w) ==
  /\ sender[w].pc = "locked" /\ Honours(sender[w].token)
  /\ \E g \in Rotations(sender[w].token) \ {sender[w].token.gen} : Rotate(sender[w].token, g)
  /\ lost' = lost \cup {sender[w].token.flow}
  /\ sender' = [sender EXCEPT ![w] = IdleSender]
  /\ UNCHANGED <<sessions, account, callback, reader, exchanged>>

(* The withdrawal commits, and the refreshed tokens with it.                *)
SCommit(w) ==
  /\ sender[w].pc = "refreshed"
  /\ tokens' = sender[w].token
  /\ sender' = [sender EXCEPT ![w] = IdleSender]
  /\ UNCHANGED <<sessions, snapshot, callback, reader, coinbase, lost>>

(* Mutant of SEnd: the lock is kept, as by a transaction never ended.      *)
SEndsOnlyRefreshed(w) ==
  /\ sender[w].pc = "refreshed"
  /\ lost' = IF sender[w].token = tokens THEN lost ELSE lost \cup {sender[w].token.flow}
  /\ sender' = [sender EXCEPT ![w] = IdleSender]
  /\ UNCHANGED <<sessions, account, callback, reader, coinbase>>

(* It needs no refresh, the refresh is refused, or it is cut off; then a   *)
(* rotated token is lost.                                                  *)
SEnd(w) ==
  /\ sender[w].pc # "idle"
  /\ lost' = IF sender[w].token = tokens THEN lost ELSE lost \cup {sender[w].token.flow}
  /\ sender' = [sender EXCEPT ![w] = IdleSender]
  /\ UNCHANGED <<sessions, account, callback, reader, coinbase>>
-----------------------------------------------------------------------------
(* A valuation: the connection, then its balances, in two queries.         *)
RFind(r) ==
  /\ reader[r].pc = "idle" /\ tokens # None
  /\ reader' = [reader EXCEPT ![r].pc = "found"]
  /\ UNCHANGED <<sessions, account, callback, sender, coinbase, lost>>

RRead(r) ==
  /\ reader[r].pc = "found"
  /\ reader' = [reader EXCEPT ![r] = [pc |-> "done", saw |-> snapshot]]
  /\ UNCHANGED <<sessions, account, callback, sender, coinbase, lost>>

RDone(r) ==
  /\ reader[r].pc = "done"
  /\ reader' = [reader EXCEPT ![r] = IdleReader]
  /\ UNCHANGED <<sessions, account, callback, sender, coinbase, lost>>

Progress(c) == \/ StartConsume(c) \/ ConsumeSession(c) \/ ConsumeUnanswered(c) \/ MissSession(c)
               \/ ClassifySessionMiss(c) \/ ExchangeCode(c) \/ ExchangeFails(c) \/ Fetch(c)
               \/ CommitConnection(c) \/ Done(c)

Sending(w) == SRefresh(w) \/ SRefreshLost(w) \/ SCommit(w) \/ SEnd(w)

Next == \/ \E s \in States : CreateURL(s) \/ Expire(s)
        \/ \E c \in Callbacks : Begin(c) \/ Progress(c) \/ Upsert(c) \/ PersistFails(c) \/ CutOff(c)
        \/ \E w \in Senders : SLock(w) \/ Sending(w)
        \/ \E r \in Readers : RFind(r) \/ RRead(r) \/ RDone(r)

Spec == Init /\ [][Next]_vars

(* Every call of a request returns, with an answer or an error; the waiter *)
(* of a row lock gets it if it keeps being free.                           *)
FairSpec == /\ Spec
            /\ \A c \in Callbacks : WF_vars(Progress(c)) /\ SF_vars(Upsert(c))
            /\ \A w \in Senders : WF_vars(Sending(w))
-----------------------------------------------------------------------------
(* A state is good for one token exchange, however many callbacks present  *)
(* it and whatever fails: Coinbase never receives a code twice.            *)
ExchangedOnce == \A s \in States : exchanged[s] <= 1

(* The stored tokens and balances are of one flow.  Neither two callbacks  *)
(* of an account nor a withdrawal that stores what it refreshed mix them.  *)
OneFlow == IF tokens = None THEN snapshot = None ELSE snapshot = tokens.flow

(* Coinbase honours the stored refresh token, or the withdrawal that holds *)
(* the row's lock is about to store the one it does, unless an answer was  *)
(* lost.  No older token ever overwrites a newer one.                      *)
StoredIsHonoured ==
  tokens # None => \/ Honours(tokens) \/ tokens.flow \in lost
                   \/ \E w \in Senders : /\ sender[w].pc = "refreshed"
                                          /\ sender[w].token.flow = tokens.flow
                                          /\ Honours(sender[w].token)

(* A valuation that found the connection values the complete balances of   *)
(* an authorization that went through, although it asks for them later.    *)
ValuedIsStored ==
  \A r \in Readers : reader[r].pc = "done" =>
    reader[r].saw \in States /\ exchanged[reader[r].saw] > 0

(* What a callback without a session is told stays true while it is told.  *)
(* The second query does not blame the clock for what another callback did *)
(* before the first one missed.  (A callback whose UPDATE started in time  *)
(* may still commit, and exchange the code, after "expired" is told.)      *)
MissExplained ==
  \A c \in Callbacks : callback[c].pc = "done" =>
    CASE callback[c].answer = "invalid" -> session[State(c)] = "none"
      [] callback[c].answer = "used"    -> session[State(c)] = "used"
      [] callback[c].answer = "expired" -> State(c) \in expired /\ ~callback[c].late
      [] OTHER -> TRUE

(* Every callback is answered, whatever withdrawals do with the account.   *)
EveryCallbackEnds ==
  \A c \in Callbacks : callback[c].pc # "idle" ~> callback[c].pc = "idle"
=============================================================================
