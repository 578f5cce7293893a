--------------------------- MODULE ConnectionProofs ---------------------------
(***************************************************************************)
(* Theorems about Connection, for any number of states, callbacks,         *)
(* withdrawals, valuations and token rotations.                            *)
(***************************************************************************)
EXTENDS Connection, TLAPS

-----------------------------------------------------------------------------
(* Type correctness, and what a request holds while it is in flight.       *)
LocalOK ==
  /\ \A c \in Callbacks : callback[c].pc # "idle" => State(c) \in States
  /\ \A w \in Senders : sender[w].pc # "idle" => sender[w].token \in Tokens

TypeInv == TypeOK /\ LocalOK

LEMMA InitType == Init => TypeInv
BY DEF Init, TypeInv, TypeOK, LocalOK, IdleCallback, IdleSender, IdleReader, Places

(* The ways a callback's record changes.                                   *)
Record == [pc : Places, state : States \cup {None}, late : BOOLEAN, answer : Answers \cup {None}]

Others(c) == \A d \in Callbacks \ {c} : callback'[d] = callback[d]

CallbackOK(f) == /\ f \in [Callbacks -> Record]
                 /\ \A c \in Callbacks : f[c].pc # "idle" => f[c].state \in States

LEMMA CallbackType == TypeInv => CallbackOK(callback)
BY DEF TypeInv, TypeOK, LocalOK, State, CallbackOK, Record

LEMMA Becomes ==
  ASSUME TypeInv, NEW c \in Callbacks, NEW r \in Record, r.pc # "idle" => r.state \in States,
         callback' = [callback EXCEPT ![c] = r]
  PROVE  CallbackOK(callback') /\ callback'[c] = r /\ Others(c)
BY CallbackType DEF CallbackOK, Others

LEMMA MovesTo ==
  ASSUME TypeInv, NEW c \in Callbacks, NEW pc \in Places, callback[c].pc # "idle", Moves(c, pc)
  PROVE  /\ CallbackOK(callback') /\ Others(c)
         /\ callback'[c].pc = pc /\ State(c)' = State(c)
<1> DEFINE r == [callback[c] EXCEPT !.pc = pc]
<1>1. callback[c] \in Record /\ callback[c].state \in States BY CallbackType DEF CallbackOK
<1>2. r \in Record /\ r.pc = pc /\ r.state = State(c) BY <1>1 DEF Record, State
<1>3. callback' = [callback EXCEPT ![c] = r] BY DEF Moves
<1> HIDE DEF r
<1>4. CallbackOK(callback') /\ callback'[c] = r /\ Others(c)
  BY <1>1, <1>2, <1>3, Becomes DEF State
<1> QED BY <1>2, <1>4 DEF State

LEMMA AnswersWith ==
  ASSUME TypeInv, NEW c \in Callbacks, NEW a \in Answers, callback[c].pc # "idle", Answer(c, a)
  PROVE  /\ CallbackOK(callback') /\ Others(c)
         /\ callback'[c].pc = "done" /\ callback'[c].answer = a /\ State(c)' = State(c)
<1> DEFINE r == [callback[c] EXCEPT !.pc = "done", !.answer = a]
<1>1. callback[c] \in Record /\ callback[c].state \in States BY CallbackType DEF CallbackOK
<1>2. r \in Record /\ r.pc = "done" /\ r.answer = a /\ r.state = State(c)
  BY <1>1 DEF Record, State, Places
<1>3. callback' = [callback EXCEPT ![c] = r] BY DEF Answer
<1> HIDE DEF r
<1>4. CallbackOK(callback') /\ callback'[c] = r /\ Others(c)
  BY <1>1, <1>2, <1>3, Becomes DEF State
<1> QED BY <1>2, <1>4 DEF State

LEMMA Misses ==
  ASSUME TypeInv, NEW c \in Callbacks, MissSession(c)
  PROVE  /\ CallbackOK(callback') /\ Others(c)
         /\ callback'[c].pc = "miss" /\ State(c)' = State(c)
         /\ callback'[c].late = (session[State(c)] = "used")
<1> DEFINE r == [callback[c] EXCEPT !.pc = "miss", !.late = (session[State(c)] = "used")]
<1>1. callback[c] \in Record /\ callback[c].state \in States
  BY CallbackType DEF CallbackOK, MissSession
<1>2. /\ r \in Record /\ r.pc = "miss" /\ r.state = State(c)
      /\ r.late = (session[State(c)] = "used")
  BY <1>1 DEF Record, State, Places
<1>3. callback' = [callback EXCEPT ![c] = r] BY DEF MissSession
<1> HIDE DEF r
<1>4. CallbackOK(callback') /\ callback'[c] = r /\ Others(c)
  BY <1>1, <1>2, <1>3, Becomes DEF State
<1> QED BY <1>2, <1>4 DEF State

LEMMA Classifies ==
  ASSUME TypeInv, NEW c \in Callbacks, ClassifySessionMiss(c)
  PROVE  /\ CallbackOK(callback') /\ Others(c)
         /\ callback'[c].pc = "done" /\ State(c)' = State(c) /\ UNCHANGED session
         /\ callback'[c].answer \in {Classification(State(c)), "error"}
         /\ callback'[c].late => callback[c].late
<1>1. PICK a \in {Classification(State(c)), "error"} :
        callback' = [callback EXCEPT ![c].pc = "done", ![c].answer = a,
                                     ![c].late = @ /\ a = "expired"]
  BY DEF ClassifySessionMiss
<1> DEFINE r == [callback[c] EXCEPT !.pc = "done", !.answer = a, !.late = @ /\ a = "expired"]
<1>2. callback[c] \in Record /\ callback[c].state \in States
  BY CallbackType DEF CallbackOK, ClassifySessionMiss
<1>3. session[State(c)] \in {"none", "open", "used"} BY <1>2 DEF State, TypeInv, TypeOK
<1>4. a \in Answers BY <1>3 DEF Classification, Answers
<1>5. callback[c].late \in BOOLEAN BY <1>2 DEF Record
<1>6. /\ r \in Record /\ r.pc = "done" /\ r.state = State(c) /\ r.answer = a
      /\ r.late => callback[c].late
  BY <1>2, <1>4, <1>5 DEF Record, State, Places
<1>7. callback' = [callback EXCEPT ![c] = r] BY <1>1
<1> HIDE DEF r
<1>8. CallbackOK(callback') /\ callback'[c] = r /\ Others(c)
  BY <1>2, <1>6, <1>7, Becomes DEF State
<1> QED BY <1>6, <1>8 DEF State, ClassifySessionMiss, sessions

LEMMA Begins ==
  ASSUME TypeInv, NEW c \in Callbacks, Begin(c)
  PROVE  /\ CallbackOK(callback') /\ Others(c) /\ callback'[c].pc = "begin"
<1>1. PICK s \in States :
        callback' = [callback EXCEPT ![c] = [IdleCallback EXCEPT !.pc = "begin", !.state = s]]
  BY DEF Begin
<1> DEFINE r == [IdleCallback EXCEPT !.pc = "begin", !.state = s]
<1>2. r \in Record /\ r.pc = "begin" /\ r.state = s
  BY DEF Record, Places, IdleCallback
<1>3. callback' = [callback EXCEPT ![c] = r] BY <1>1
<1> HIDE DEF r
<1> QED BY <1>2, <1>3, Becomes

LEMMA Resets ==
  ASSUME TypeInv, NEW c \in Callbacks, callback' = [callback EXCEPT ![c] = IdleCallback]
  PROVE  CallbackOK(callback') /\ Others(c) /\ callback'[c].pc = "idle"
<1>1. IdleCallback \in Record /\ IdleCallback.pc = "idle" BY DEF Record, Places, IdleCallback
<1> QED BY <1>1, Becomes

Calling(c) == Begin(c) \/ Progress(c) \/ Upsert(c) \/ PersistFails(c) \/ CutOff(c)

LEMMA CallbackSteps ==
  ASSUME TypeInv, NEW c \in Callbacks, Calling(c)
  PROVE  CallbackOK(callback') /\ Others(c)
<1> USE DEF Places, Answers
<1>1. CASE Begin(c) BY <1>1, Begins
<1>2. CASE Done(c) \/ CutOff(c) BY <1>2, Resets DEF Done, CutOff
<1>3. CASE StartConsume(c) \/ ConsumeSession(c) \/ Upsert(c)
  BY <1>3, MovesTo DEF StartConsume, ConsumeSession, Consume, Upsert
<1>4. CASE ConsumeUnanswered(c) \/ PersistFails(c)
  BY <1>4, AnswersWith DEF ConsumeUnanswered, PersistFails
<1>5. CASE MissSession(c) \/ ClassifySessionMiss(c) BY <1>5, Misses, Classifies
<1>6. CASE ExchangeCode(c) \/ ExchangeFails(c)
  BY <1>6, MovesTo, AnswersWith DEF ExchangeCode, ExchangeFails
<1>7. CASE Fetch(c) BY <1>7, MovesTo, AnswersWith DEF Fetch
<1>8. CASE CommitConnection(c) BY <1>8, AnswersWith DEF CommitConnection
<1> QED BY <1>1, <1>2, <1>3, <1>4, <1>5, <1>6, <1>7, <1>8 DEF Calling, Progress

LEMMA NextType == TypeInv /\ [Next]_vars => TypeInv'
<1> SUFFICES ASSUME TypeInv, [Next]_vars PROVE TypeInv'
  OBVIOUS
<1> USE DEF sessions, account, coinbase
<1>0. TypeOK /\ LocalOK BY DEF TypeInv
<1>1. ASSUME NEW s \in States, CreateURL(s) \/ Expire(s) PROVE TypeInv'
  BY <1>0, <1>1 DEF CreateURL, Expire, TypeInv, TypeOK, LocalOK, State
<1>2. ASSUME NEW c \in Callbacks, Calling(c) PROVE TypeInv'
  <2>1. CallbackOK(callback') BY <1>2, CallbackSteps
  <2>2. callback[c].pc # "idle" => State(c) \in States BY <1>0 DEF LocalOK
  <2>3. UNCHANGED <<sender, reader, honoured, lost, expired>>
    BY <1>2 DEF Calling, Progress, Begin, StartConsume, ConsumeSession, ConsumeUnanswered, Consume, MissSession,
         ClassifySessionMiss, ExchangeCode, ExchangeFails, Fetch, Upsert, CommitConnection,
         PersistFails, Done, CutOff
  <2>4. session' \in [States -> {"none", "open", "used"}]
    BY <1>0, <1>2 DEF Calling, Progress, Begin, StartConsume, ConsumeSession, ConsumeUnanswered, Consume, MissSession,
         ClassifySessionMiss, ExchangeCode, ExchangeFails, Fetch, Upsert, CommitConnection,
         PersistFails, Done, CutOff, TypeOK
  <2>5. exchanged' \in [States -> Nat]
    <3>1. UNCHANGED exchanged \/ Receive(c)
      BY <1>2 DEF Calling, Progress, Begin, StartConsume, ConsumeSession, ConsumeUnanswered, Consume, MissSession,
         ClassifySessionMiss, ExchangeCode, ExchangeFails, Fetch, Upsert, CommitConnection,
         PersistFails, Done, CutOff
    <3>2. CASE Receive(c)
      <4>1. \A s \in States : exchanged'[s] \in Nat
        <5>1. ASSUME NEW s \in States PROVE exchanged'[s] \in {exchanged[s], exchanged[s] + 1}
          BY <1>0, <3>2 DEF Receive, TypeOK
        <5> QED BY <1>0, <5>1 DEF TypeOK
      <4> QED BY <1>0, <3>2, <4>1 DEF Receive, TypeOK
    <3> QED BY <1>0, <3>1, <3>2 DEF TypeOK
  <2>6. tokens' \in Tokens \cup {None} /\ snapshot' \in States \cup {None}
    <3>1. UNCHANGED account \/ CommitConnection(c)
      BY <1>2 DEF Calling, Progress, Begin, StartConsume, ConsumeSession, ConsumeUnanswered, Consume, MissSession,
         ClassifySessionMiss, ExchangeCode, ExchangeFails, Fetch, Upsert, CommitConnection,
         PersistFails, Done, CutOff
    <3>2. CASE CommitConnection(c)
      <4>1. State(c) \in States BY <2>2, <3>2 DEF CommitConnection
      <4> QED BY <3>2, <4>1 DEF CommitConnection, Tokens
    <3> QED BY <1>0, <3>1, <3>2 DEF TypeOK
  <2> QED BY <1>0, <2>1, <2>3, <2>4, <2>5, <2>6 DEF TypeInv, TypeOK, LocalOK, CallbackOK, Record, State
<1>3. ASSUME NEW w \in Senders, SLock(w) \/ Sending(w) PROVE TypeInv'
  <2>1. CASE SLock(w) BY <1>0, <2>1 DEF SLock, TypeInv, TypeOK, LocalOK, State
  <2>2. CASE SRefresh(w) \/ SRefreshLost(w)
    <3>1. sender[w].token \in Tokens BY <1>0, <2>2 DEF SRefresh, SRefreshLost, LocalOK
    <3>2. Rotations(sender[w].token) \subseteq Nat BY <3>1 DEF Rotations, Tokens
    <3>3. \A g \in Nat : [sender[w].token EXCEPT !.gen = g] \in Tokens BY <3>1 DEF Tokens
    <3>4. sender' \in [Senders -> [pc : {"idle", "locked", "refreshed"},
                                   token : Tokens \cup {None}]]
          /\ \A x \in Senders : sender'[x].pc # "idle" => sender'[x].token \in Tokens
      <4>1. CASE SRefresh(w)
        <5>1. PICK g \in Rotations(sender[w].token) :
                sender' = [sender EXCEPT ![w] =
                  [pc |-> "refreshed", token |-> [sender[w].token EXCEPT !.gen = g]]]
          BY <4>1 DEF SRefresh
        <5>2. PICK t \in Tokens : sender' = [sender EXCEPT ![w] = [pc |-> "refreshed", token |-> t]]
          BY <3>2, <3>3, <5>1
        <5> QED BY <1>0, <5>2 DEF TypeOK, LocalOK
      <4>2. CASE SRefreshLost(w) BY <1>0, <4>2 DEF SRefreshLost, IdleSender, TypeOK, LocalOK
      <4> QED BY <2>2, <4>1, <4>2
    <3>5. honoured' \in [States -> Nat] /\ lost' \subseteq States
      <4>1. sender[w].token.flow \in States BY <3>1 DEF Tokens
      <4>2. PICK g \in Nat : Rotate(sender[w].token, g)
        BY <2>2, <3>2 DEF SRefresh, SRefreshLost
      <4>3. honoured' \in [States -> Nat] BY <1>0, <4>2 DEF Rotate, TypeOK
      <4>4. lost' \subseteq States BY <1>0, <2>2, <4>1 DEF SRefresh, SRefreshLost, TypeOK
      <4> QED BY <4>3, <4>4
    <3>6. UNCHANGED <<session, expired, tokens, snapshot, callback, reader, exchanged>>
      BY <2>2 DEF SRefresh, SRefreshLost
    <3> QED BY <1>0, <3>4, <3>5, <3>6 DEF TypeInv, TypeOK, LocalOK, State
  <2>3. CASE SCommit(w) \/ SEnd(w)
    <3>1. sender[w].pc # "idle" /\ sender' = [sender EXCEPT ![w] = IdleSender]
      BY <2>3 DEF SCommit, SEnd
    <3>2. sender[w].token \in Tokens BY <1>0, <3>1 DEF LocalOK
    <3>3. /\ sender' \in [Senders -> [pc : {"idle", "locked", "refreshed"},
                                      token : Tokens \cup {None}]]
          /\ \A x \in Senders : sender'[x].pc # "idle" => sender'[x].token \in Tokens
      BY <1>0, <3>1 DEF IdleSender, TypeOK, LocalOK
    <3>4. tokens' \in Tokens \cup {None} /\ lost' \subseteq States
      BY <1>0, <2>3, <3>2 DEF SCommit, SEnd, Tokens, TypeOK
    <3>5. UNCHANGED <<session, expired, snapshot, callback, reader, exchanged, honoured>>
      BY <2>3 DEF SCommit, SEnd
    <3> QED BY <1>0, <3>3, <3>4, <3>5 DEF TypeInv, TypeOK, LocalOK, State
  <2> QED BY <1>3, <2>1, <2>2, <2>3 DEF Sending
<1>4. ASSUME NEW r \in Readers, RFind(r) \/ RRead(r) \/ RDone(r) PROVE TypeInv'
  BY <1>0, <1>4 DEF RFind, RRead, RDone, IdleReader, TypeInv, TypeOK, LocalOK, State
<1>5. CASE UNCHANGED vars BY <1>0, <1>5 DEF vars, TypeInv, TypeOK, LocalOK, State
<1> QED BY <1>1, <1>2, <1>3, <1>4, <1>5 DEF Next, Calling

(* Every reachable state is well typed.                                    *)
THEOREM TypeCorrect == Spec => []TypeOK
<1>1. TypeInv => TypeOK BY DEF TypeInv
<1> QED BY <1>1, InitType, NextType, PTL DEF Spec

-----------------------------------------------------------------------------
(***************************************************************************)
(* The safety theorems of Connection.  The invariant relates three things. *)
(* The row's lock: whoever holds it is alone, and a withdrawal that does   *)
(* holds the stored token or its successor.  The sessions: a callback past *)
(* consumption is the only one of its state, whose code Coinbase has not   *)
(* received before.  The answers: what a callback was told of a session it *)
(* did not get stays true.                                                 *)
(***************************************************************************)

Past == {"exchange", "fetch", "persist", "upserted"}   \* has consumed its session

Alone ==
  /\ \A w, x \in Senders : sender[w].pc # "idle" /\ sender[x].pc # "idle" => w = x
  /\ \A c, d \in Callbacks : callback[c].pc = "upserted" /\ callback[d].pc = "upserted" => c = d
  /\ \A w \in Senders, c \in Callbacks : sender[w].pc = "idle" \/ callback[c].pc # "upserted"

HoldsToken ==
  \A w \in Senders :
    /\ sender[w].pc # "idle" => tokens \in Tokens /\ sender[w].token.flow = tokens.flow
    /\ sender[w].pc = "locked" => sender[w].token = tokens
    /\ sender[w].pc = "refreshed" => Honours(sender[w].token)

LockInv == Alone /\ HoldsToken

Stored(s) == tokens # None /\ tokens.flow = s

Claimed ==
  \A c \in Callbacks : callback[c].pc \in Past =>
    /\ session[State(c)] = "used" /\ ~Stored(State(c)) /\ honoured[State(c)] = 0
    /\ exchanged[State(c)] = IF callback[c].pc = "exchange" THEN 0 ELSE 1
    /\ \A d \in Callbacks : callback[d].pc \in Past /\ State(d) = State(c) => d = c

Unclaimed ==
  \A s \in States : session[s] # "used" => ~Stored(s) /\ honoured[s] = 0 /\ exchanged[s] = 0

StoredIsExchanged == tokens # None => exchanged[tokens.flow] > 0

SessionInv == Claimed /\ Unclaimed /\ StoredIsExchanged /\ ExchangedOnce

ReaderInv == \A r \in Readers : reader[r].pc = "found" => tokens # None

AnswerInv ==
  \A c \in Callbacks :
    /\ callback[c].pc = "miss" =>
         /\ session[State(c)] # "open" \/ State(c) \in expired
         /\ callback[c].late => session[State(c)] = "used"
    /\ callback[c].pc = "done" =>
         /\ callback[c].answer = "invalid" => session[State(c)] = "none"
         /\ callback[c].answer = "used" => session[State(c)] = "used"
         /\ callback[c].answer = "expired" => State(c) \in expired /\ ~callback[c].late

IInv == /\ TypeInv /\ LockInv /\ SessionInv /\ OneFlow /\ StoredIsHonoured
        /\ ReaderInv /\ ValuedIsStored /\ AnswerInv
-----------------------------------------------------------------------------
(* What a step of a callback amounts to.  Each kind says what becomes of   *)
(* the callback, its session, the account and Coinbase's count.            *)
Keeps(c) == State(c)' = State(c)

Consumes(c) == session' = [session EXCEPT ![State(c)] = "used"]

Claims(c) == /\ callback[c].pc = "consuming" /\ callback'[c].pc = "exchange" /\ Keeps(c)
             /\ Unconsumed(State(c)) /\ Consumes(c)
             /\ UNCHANGED <<account, exchanged>>

Sends(c) == /\ callback[c].pc = "exchange" /\ callback'[c].pc = "fetch" /\ Keeps(c)
            /\ Receive(c)
            /\ UNCHANGED <<session, account>>

Advances(c) == /\ \/ callback[c].pc = "fetch" /\ callback'[c].pc = "persist"
                  \/ callback[c].pc = "persist" /\ callback'[c].pc = "upserted" /\ ~Locked
               /\ Keeps(c)
               /\ UNCHANGED <<session, account, exchanged>>

Stores(c) == /\ callback[c].pc = "upserted" /\ callback'[c].pc = "done"
             /\ tokens' = [flow |-> State(c), gen |-> 0] /\ snapshot' = State(c)
             /\ UNCHANGED <<session, exchanged>>

Leaves(c) == /\ callback'[c].pc \notin Past
             /\ UNCHANGED session \/ (callback[c].pc = "consuming" /\ Unconsumed(State(c)) /\ Consumes(c))
             /\ UNCHANGED exchanged \/ (callback[c].pc = "exchange" /\ Receive(c))
             /\ UNCHANGED account

(* What a callback is told of a session it did not get.                    *)
Told(c) ==
  /\ callback'[c].pc = "miss" =>
       /\ Keeps(c) /\ UNCHANGED session
       /\ session[State(c)] # "open" \/ State(c) \in expired
       /\ callback'[c].late => session[State(c)] = "used"
  /\ callback'[c].pc = "done" =>
       \/ callback'[c].answer \in {"connected", "error"}
       \/ /\ Keeps(c) /\ UNCHANGED session /\ callback[c].pc = "miss"
          /\ callback'[c].answer = Classification(State(c))
          /\ callback'[c].late => callback[c].late

Kind(c) == Claims(c) \/ Sends(c) \/ Advances(c) \/ Stores(c) \/ Leaves(c)

LEMMA CallbackKinds ==
  ASSUME TypeInv, NEW c \in Callbacks, Calling(c)
  PROVE  /\ Kind(c) /\ Told(c)
         /\ UNCHANGED <<expired, sender, reader, honoured, lost>>
<1> USE DEF Places, Answers, Past, sessions, account, coinbase, Kind, Told, Keeps
<1>1. CASE Begin(c)
  BY <1>1, Begins DEF Begin, Leaves
<1>2. CASE ConsumeSession(c)
  BY <1>2, MovesTo DEF ConsumeSession, Consume, Claims, Consumes
<1>14. CASE StartConsume(c)
  BY <1>14, MovesTo DEF StartConsume, Leaves
<1>3. CASE ConsumeUnanswered(c)
  BY <1>3, AnswersWith DEF ConsumeUnanswered, Consume, Leaves, Consumes
<1>4. CASE MissSession(c)
  <2>1. /\ callback'[c].pc = "miss" /\ State(c)' = State(c)
        /\ callback'[c].late = (session[State(c)] = "used")
    BY <1>4, Misses
  <2>2. session[State(c)] # "open" \/ State(c) \in expired
    BY <1>4 DEF MissSession, Unconsumed
  <2> QED BY <1>4, <2>1, <2>2 DEF MissSession, Leaves
<1>5. CASE ClassifySessionMiss(c)
  BY <1>5, Classifies DEF ClassifySessionMiss, Leaves
<1>6. CASE ExchangeCode(c)
  BY <1>6, MovesTo DEF ExchangeCode, Sends
<1>7. CASE ExchangeFails(c)
  BY <1>7, AnswersWith DEF ExchangeFails, Leaves
<1>8. CASE Fetch(c)
  <2>1. CASE Moves(c, "persist") BY <1>8, <2>1, MovesTo DEF Fetch, Advances
  <2>2. CASE Answer(c, "error") BY <1>8, <2>2, AnswersWith DEF Fetch, Leaves
  <2> QED BY <1>8, <2>1, <2>2 DEF Fetch
<1>9. CASE Upsert(c)
  BY <1>9, MovesTo DEF Upsert, Advances
<1>10. CASE CommitConnection(c)
  BY <1>10, AnswersWith DEF CommitConnection, Stores
<1>11. CASE PersistFails(c)
  BY <1>11, AnswersWith DEF PersistFails, Leaves
<1>12. CASE Done(c)
  BY <1>12, Resets DEF Done, Leaves
<1>13. CASE CutOff(c)
  BY <1>13, Resets DEF CutOff, Consume, Leaves, Consumes
<1> QED BY <1>1, <1>2, <1>3, <1>4, <1>5, <1>6, <1>7, <1>8, <1>9, <1>10, <1>11, <1>12, <1>13, <1>14
        DEF Calling, Progress
-----------------------------------------------------------------------------
(* What a step of a withdrawal does to its record and to Coinbase.         *)
LEMMA Refreshes ==
  ASSUME TypeInv, NEW w \in Senders, SRefresh(w)
  PROVE  \E t \in Tokens :
           /\ t.flow = sender[w].token.flow
           /\ sender' = [sender EXCEPT ![w] = [pc |-> "refreshed", token |-> t]]
           /\ honoured' = [honoured EXCEPT ![t.flow] = t.gen]
<1>1. sender[w].token \in Tokens BY DEF SRefresh, TypeInv, LocalOK
<1>2. PICK g \in Rotations(sender[w].token) :
        /\ Rotate(sender[w].token, g)
        /\ sender' = [sender EXCEPT ![w] =
                        [pc |-> "refreshed", token |-> [sender[w].token EXCEPT !.gen = g]]]
  BY DEF SRefresh
<1>3. g \in Nat BY <1>1 DEF Rotations, Tokens
<1> DEFINE t == [sender[w].token EXCEPT !.gen = g]
<1>4. t \in Tokens /\ t.flow = sender[w].token.flow /\ t.gen = g BY <1>1, <1>3 DEF Tokens
<1>5. honoured' = [honoured EXCEPT ![t.flow] = t.gen] BY <1>2, <1>4 DEF Rotate
<1> QED BY <1>2, <1>4, <1>5

Frees(w) == SRefreshLost(w) \/ SCommit(w) \/ SEnd(w)

(* All but the sender and what it may write is left alone by a withdrawal. *)
LEMMA SenderFrame ==
  ASSUME NEW w \in Senders, SLock(w) \/ Sending(w)
  PROVE  /\ UNCHANGED <<session, expired, snapshot, callback, reader, exchanged>>
         /\ UNCHANGED tokens \/ SCommit(w)
         /\ UNCHANGED honoured \/ SRefresh(w) \/ SRefreshLost(w)
BY DEF SLock, Sending, SRefresh, SRefreshLost, SCommit, SEnd, sessions, account, coinbase

LEMMA Freeing ==
  ASSUME TypeInv, NEW w \in Senders, Frees(w)
  PROVE  /\ sender[w].pc # "idle" /\ sender'[w].pc = "idle"
         /\ \A x \in Senders \ {w} : sender'[x] = sender[x]
BY DEF Frees, SRefreshLost, SCommit, SEnd, IdleSender, TypeInv, TypeOK

(* Whoever holds the lock is alone.                                        *)
LEMMA NextAlone == TypeInv /\ Alone /\ [Next]_vars => Alone'
<1> SUFFICES ASSUME TypeInv, Alone, [Next]_vars PROVE Alone'
  OBVIOUS
<1>1. CASE UNCHANGED <<sender, callback>> BY <1>1 DEF Alone
<1>2. ASSUME NEW c \in Callbacks, Calling(c) PROVE Alone'
  <2>1. UNCHANGED sender /\ Kind(c) /\ Others(c) BY <1>2, CallbackKinds, CallbackSteps
  <2>2. callback'[c].pc = "upserted" => ~Locked BY <2>1 DEF Kind, Claims, Sends, Advances, Stores, Leaves, Past
  <2> QED BY <2>1, <2>2 DEF Alone, Locked, Others
<1>3. ASSUME NEW w \in Senders, SLock(w) PROVE Alone'
  <2>1. /\ \A x \in Senders \ {w} : sender'[x] = sender[x]
        /\ ~Locked /\ UNCHANGED callback
    BY <1>3 DEF SLock, TypeInv, TypeOK
  <2> QED BY <2>1 DEF Alone, Locked
<1>4. ASSUME NEW w \in Senders, Sending(w) PROVE Alone'
  <2>1. UNCHANGED callback BY <1>4, SenderFrame
  <2>2. sender[w].pc # "idle" /\ \A x \in Senders \ {w} : sender'[x] = sender[x]
    <3>1. CASE SRefresh(w) BY <3>1, Refreshes DEF SRefresh, TypeInv, TypeOK
    <3>2. CASE Frees(w) BY <3>2, Freeing
    <3> QED BY <1>4, <3>1, <3>2 DEF Sending, Frees
  <2> QED BY <2>1, <2>2 DEF Alone
<1> QED BY <1>1, <1>2, <1>3, <1>4 DEF Next, Calling, CreateURL, Expire, RFind, RRead, RDone, vars

(* A withdrawal past the lock holds the stored token or its successor.     *)
LEMMA NextHolds == TypeInv /\ LockInv /\ [Next]_vars => HoldsToken'
<1> SUFFICES ASSUME TypeInv, LockInv, [Next]_vars PROVE HoldsToken'
  OBVIOUS
<1> USE DEF LockInv
<1>1. CASE UNCHANGED <<sender, tokens, honoured>> BY <1>1 DEF HoldsToken, Honours
<1>2. ASSUME NEW c \in Callbacks, Calling(c) PROVE HoldsToken'
  <2>1. UNCHANGED <<sender, honoured>> /\ Kind(c) BY <1>2, CallbackKinds
  <2>2. CASE Stores(c) BY <2>1, <2>2 DEF Stores, Alone, HoldsToken
  <2> QED BY <1>1, <2>1, <2>2 DEF Kind, Claims, Sends, Advances, Leaves, account
<1>3. ASSUME NEW w \in Senders, SLock(w) PROVE HoldsToken'
  <2>1. /\ \A x \in Senders \ {w} : sender'[x].pc = "idle"
        /\ sender'[w] = [pc |-> "locked", token |-> tokens]
        /\ tokens \in Tokens /\ UNCHANGED tokens
    BY <1>3 DEF SLock, Locked, TypeInv, TypeOK, account
  <2> QED BY <2>1 DEF HoldsToken
<1>4. ASSUME NEW w \in Senders, SRefresh(w) PROVE HoldsToken'
  <2>1. PICK t \in Tokens :
          /\ t.flow = sender[w].token.flow
          /\ sender' = [sender EXCEPT ![w] = [pc |-> "refreshed", token |-> t]]
          /\ honoured' = [honoured EXCEPT ![t.flow] = t.gen]
    BY <1>4, Refreshes
  <2>2. /\ tokens \in Tokens /\ t.flow = tokens.flow /\ UNCHANGED tokens
        /\ \A x \in Senders \ {w} : sender[x].pc = "idle"
    BY <1>4, <2>1 DEF SRefresh, Alone, HoldsToken, account
  <2>3. honoured'[t.flow] = t.gen BY <2>1 DEF Tokens, TypeInv, TypeOK
  <2>4. sender'[w] = [pc |-> "refreshed", token |-> t] /\ \A x \in Senders \ {w} : sender'[x] = sender[x]
    BY <2>1 DEF TypeInv, TypeOK
  <2> QED BY <2>2, <2>3, <2>4 DEF HoldsToken, Honours
<1>5. ASSUME NEW w \in Senders, Frees(w) PROVE HoldsToken'
  BY <1>5, Freeing DEF Alone, HoldsToken
<1> QED BY <1>1, <1>2, <1>3, <1>4, <1>5 DEF Next, Calling, Sending, Frees, CreateURL, Expire, RFind, RRead, RDone, vars, account, coinbase
-----------------------------------------------------------------------------
(* A withdrawal stores a token of the flow that is stored, and a rotation  *)
(* only concerns that flow.                                                *)
LEMMA SenderKeeps ==
  ASSUME TypeInv, LockInv, NEW w \in Senders, SLock(w) \/ Sending(w)
  PROVE  /\ tokens # None <=> tokens' # None
         /\ tokens # None => tokens'.flow = tokens.flow
         /\ \A s \in States : Stored(s)' = Stored(s)
         /\ \A s \in States : ~Stored(s) => honoured'[s] = honoured[s]
<1> USE DEF LockInv
<1>1. CASE SLock(w) BY <1>1 DEF SLock, Stored, account, coinbase
<1>2. CASE SRefresh(w)
  <2>1. PICK t \in Tokens :
          t.flow = sender[w].token.flow /\ honoured' = [honoured EXCEPT ![t.flow] = t.gen]
    BY <1>2, Refreshes
  <2>2. tokens \in Tokens /\ t.flow = tokens.flow /\ UNCHANGED tokens
    BY <1>2, <2>1 DEF SRefresh, HoldsToken, account
  <2>3. tokens # None BY <2>2, NoneAssumption
  <2> QED BY <2>1, <2>2, <2>3 DEF Stored, TypeInv, TypeOK
<1>3. CASE SRefreshLost(w)
  <2>1. PICK g \in Nat \cup Rotations(sender[w].token) :
          honoured' = [honoured EXCEPT ![sender[w].token.flow] = g]
    BY <1>3 DEF SRefreshLost, Rotate
  <2>2. tokens \in Tokens /\ sender[w].token.flow = tokens.flow /\ UNCHANGED tokens
    BY <1>3 DEF SRefreshLost, HoldsToken, account
  <2>3. tokens # None BY <2>2, NoneAssumption
  <2> QED BY <2>1, <2>2, <2>3 DEF Stored, TypeInv, TypeOK
<1>4. CASE SCommit(w)
  <2>1. /\ tokens \in Tokens /\ tokens' \in Tokens /\ tokens'.flow = tokens.flow
        /\ UNCHANGED honoured
    BY <1>4 DEF SCommit, HoldsToken, TypeInv, LocalOK, coinbase
  <2>2. tokens # None /\ tokens' # None BY <2>1, NoneAssumption
  <2> QED BY <2>1, <2>2 DEF Stored
<1>5. CASE SEnd(w) BY <1>5 DEF SEnd, Stored, account, coinbase
<1> QED BY <1>1, <1>2, <1>3, <1>4, <1>5 DEF Sending

(* What everything but callbacks does to the sessions and what they guard. *)
Aside == \/ \E s \in States : CreateURL(s) \/ Expire(s)
         \/ \E w \in Senders : SLock(w) \/ Sending(w)
         \/ \E r \in Readers : RFind(r) \/ RRead(r) \/ RDone(r)
         \/ UNCHANGED vars

LEMMA Asides ==
  ASSUME TypeInv, LockInv, Aside
  PROVE  /\ UNCHANGED <<snapshot, callback, exchanged>>
         /\ tokens # None <=> tokens' # None
         /\ tokens # None => tokens'.flow = tokens.flow
         /\ \A s \in States : Stored(s)' = Stored(s) /\ (~Stored(s) => honoured'[s] = honoured[s])
         /\ UNCHANGED session \/ \E s \in States : CreateURL(s)
<1>1. CASE \E w \in Senders : SLock(w) \/ Sending(w) BY <1>1, SenderFrame, SenderKeeps
<1>2. CASE UNCHANGED <<account, callback, coinbase>> /\ (UNCHANGED session \/ \E s \in States : CreateURL(s))
  BY <1>2 DEF Stored, account, coinbase
<1> QED BY <1>1, <1>2 DEF Aside, CreateURL, Expire, RFind, RRead, RDone, vars, sessions

LEMMA Steps == [Next]_vars <=> Aside \/ \E c \in Callbacks : Calling(c)
BY DEF Next, Calling, Aside
-----------------------------------------------------------------------------
(* The sessions: the effect of an aside, then of each kind of step.        *)
LEMMA AsideSessions == TypeInv /\ LockInv /\ SessionInv /\ Aside => SessionInv'
<1> SUFFICES ASSUME TypeInv, LockInv, SessionInv, Aside PROVE SessionInv'
  OBVIOUS
<1>1. /\ UNCHANGED <<callback, exchanged>>
      /\ tokens # None <=> tokens' # None
      /\ tokens # None => tokens'.flow = tokens.flow
      /\ \A s \in States : Stored(s)' = Stored(s) /\ (~Stored(s) => honoured'[s] = honoured[s])
  BY Asides
<1>2. \A s \in States : session'[s] = session[s] \/ (session[s] = "none" /\ session'[s] = "open")
  BY Asides DEF CreateURL, TypeInv, TypeOK
<1>3. \A c \in Callbacks : callback[c].pc \in Past => State(c) \in States
  BY DEF TypeInv, LocalOK, Past
<1>4. Claimed' BY <1>1, <1>2, <1>3 DEF SessionInv, Claimed, State, Stored
<1>5. Unclaimed' BY <1>1, <1>2 DEF SessionInv, Unclaimed
<1>6. StoredIsExchanged' /\ ExchangedOnce'
  BY <1>1 DEF SessionInv, StoredIsExchanged, ExchangedOnce
<1> QED BY <1>4, <1>5, <1>6 DEF SessionInv

(* No code is received while another callback of its state is past.        *)
LEMMA CallbackSessions ==
  ASSUME TypeInv, SessionInv, NEW c \in Callbacks, Calling(c)
  PROVE  SessionInv'
<1>1. Kind(c) /\ UNCHANGED honoured /\ Others(c) BY CallbackKinds, CallbackSteps
<1> DEFINE s == State(c)
<1>2. \A d \in Callbacks : callback[d].pc \in Past => State(d) \in States
  BY DEF TypeInv, LocalOK, Past
<1>3. \A d \in Callbacks \ {c} : callback'[d].pc = callback[d].pc /\ State(d)' = State(d)
  BY <1>1 DEF Others, State
<1> USE DEF SessionInv, account
<1>4. CASE Claims(c)
  <2>1. /\ s \in States /\ session[s] = "open" /\ session' = [session EXCEPT ![s] = "used"]
        /\ callback'[c].pc = "exchange" /\ State(c)' = s
        /\ UNCHANGED <<tokens, exchanged>>
    BY <1>4 DEF Claims, Keeps, Unconsumed, Consumes, TypeInv, LocalOK, account
  <2>2. ~Stored(s) /\ honoured[s] = 0 /\ exchanged[s] = 0 BY <2>1 DEF Unclaimed
  <2>3. \A d \in Callbacks : callback[d].pc \in Past => State(d) # s BY <2>1 DEF Claimed
  <2>4. session'[s] = "used" /\ \A r \in States \ {s} : session'[r] = session[r]
    BY <2>1 DEF TypeInv, TypeOK
  <2> HIDE DEF s
  <2>5. Claimed' BY <1>1, <1>2, <1>3, <2>1, <2>2, <2>3, <2>4 DEF Claimed, Stored, Past
  <2>6. Unclaimed' BY <1>1, <2>1, <2>4 DEF Unclaimed, Stored
  <2> QED BY <2>1, <2>5, <2>6 DEF StoredIsExchanged, ExchangedOnce
<1>5. CASE Sends(c)
  <2>1. /\ s \in States /\ callback[c].pc = "exchange" /\ callback'[c].pc = "fetch" /\ State(c)' = s
        /\ UNCHANGED <<tokens, session>>
    BY <1>5 DEF Sends, Keeps, account, TypeInv, LocalOK
  <2>2. exchanged[s] = 0 /\ session[s] = "used" /\ ~Stored(s) /\ honoured[s] = 0
    BY <2>1 DEF Claimed, Past
  <2>3. exchanged'[s] = 1 /\ \A r \in States \ {s} : exchanged'[r] = exchanged[r]
    BY <1>5, <2>1, <2>2 DEF Sends, Receive, TypeInv, TypeOK
  <2>4. \A d \in Callbacks \ {c} : callback[d].pc \in Past => State(d) # s BY <2>1 DEF Claimed, Past
  <2> HIDE DEF s
  <2>5. Claimed' BY <1>1, <1>2, <1>3, <2>1, <2>2, <2>3, <2>4 DEF Claimed, Stored, Past
  <2>6. Unclaimed' BY <1>1, <2>1, <2>2, <2>3 DEF Unclaimed, Stored
  <2>7. StoredIsExchanged' BY <2>1, <2>2, <2>3 DEF StoredIsExchanged, Stored, TypeInv, TypeOK, Tokens
  <2>8. ExchangedOnce' BY <2>3 DEF ExchangedOnce
  <2> QED BY <2>5, <2>6, <2>7, <2>8
<1>6. CASE Advances(c)
  BY <1>1, <1>2, <1>3, <1>6
     DEF Advances, Keeps, Claimed, Unclaimed, StoredIsExchanged, ExchangedOnce, Stored, Past
<1>7. CASE Stores(c)
  <2>1. /\ s \in States /\ callback[c].pc = "upserted" /\ callback'[c].pc = "done"
        /\ tokens' = [flow |-> s, gen |-> 0] /\ UNCHANGED <<session, exchanged>>
    BY <1>7 DEF Stores, TypeInv, LocalOK
  <2>2. exchanged[s] = 1 /\ session[s] = "used" BY <2>1 DEF Claimed, Past
  <2>3. \A d \in Callbacks \ {c} : callback[d].pc \in Past => State(d) # s BY <2>1 DEF Claimed, Past
  <2>4. \A r \in States : Stored(r)' => r = s BY <2>1 DEF Stored
  <2> HIDE DEF s
  <2>5. Claimed' BY <1>1, <1>2, <1>3, <2>1, <2>3, <2>4 DEF Claimed, Past
  <2>6. Unclaimed' BY <1>1, <2>1, <2>2, <2>4 DEF Unclaimed
  <2> QED BY <2>1, <2>2, <2>5, <2>6 DEF StoredIsExchanged, ExchangedOnce
<1>8. CASE Leaves(c)
  <2>1. UNCHANGED tokens /\ callback'[c].pc \notin Past BY <1>8 DEF Leaves, account
  <2>2. \A r \in States : session'[r] = session[r] \/ session'[r] = "used"
    BY <1>8 DEF Leaves, Consumes, TypeInv, TypeOK
  <2>3. CASE UNCHANGED exchanged
    <3>1. Claimed' BY <1>1, <1>2, <1>3, <2>1, <2>2, <2>3 DEF Claimed, Stored
    <3>2. Unclaimed' BY <1>1, <2>1, <2>2, <2>3 DEF Unclaimed, Stored
    <3> QED BY <2>1, <2>3, <3>1, <3>2 DEF StoredIsExchanged, ExchangedOnce
  <2>4. CASE callback[c].pc = "exchange" /\ Receive(c)
    <3>1. s \in States /\ exchanged[s] = 0 /\ session[s] = "used" /\ ~Stored(s)
      BY <1>2, <2>4 DEF Claimed, Past
    <3>2. exchanged'[s] = 1 /\ \A r \in States \ {s} : exchanged'[r] = exchanged[r]
      BY <2>4, <3>1 DEF Receive, TypeInv, TypeOK
    <3>3. \A d \in Callbacks \ {c} : callback[d].pc \in Past => State(d) # s
      BY <2>4 DEF Claimed, Past
    <3>4. UNCHANGED session BY <1>8, <2>4 DEF Leaves
    <3> HIDE DEF s
    <3>5. Claimed' BY <1>1, <1>2, <1>3, <2>1, <3>2, <3>3, <3>4 DEF Claimed, Stored
    <3>6. Unclaimed' BY <1>1, <2>1, <3>1, <3>2, <3>4 DEF Unclaimed, Stored
    <3>7. StoredIsExchanged' BY <2>1, <3>1, <3>2 DEF StoredIsExchanged, Stored, TypeInv, TypeOK, Tokens
    <3>8. ExchangedOnce' BY <3>2 DEF ExchangedOnce
    <3> QED BY <3>5, <3>6, <3>7, <3>8
  <2> QED BY <1>8, <2>3, <2>4 DEF Leaves
<1> QED BY <1>1, <1>4, <1>5, <1>6, <1>7, <1>8 DEF Kind
-----------------------------------------------------------------------------
(* The stored token: it is honoured, or its successor is about to be.      *)
LEMMA NextHonoured ==
  TypeInv /\ LockInv /\ SessionInv /\ StoredIsHonoured /\ [Next]_vars => StoredIsHonoured'
<1> SUFFICES ASSUME TypeInv, LockInv, SessionInv, StoredIsHonoured, [Next]_vars
             PROVE  StoredIsHonoured'
  OBVIOUS
<1>1. CASE UNCHANGED <<tokens, sender, honoured, lost>> BY <1>1 DEF StoredIsHonoured, Honours
<1>2. ASSUME NEW c \in Callbacks, Calling(c) PROVE StoredIsHonoured'
  <2>1. UNCHANGED <<sender, honoured, lost>> /\ Kind(c) BY <1>2, CallbackKinds
  <2>2. CASE Stores(c)
    <3>1. tokens' = [flow |-> State(c), gen |-> 0] /\ honoured[State(c)] = 0
      BY <2>2 DEF Stores, SessionInv, Claimed, Past
    <3> QED BY <2>1, <3>1 DEF StoredIsHonoured, Honours
  <2> QED BY <1>1, <2>1, <2>2 DEF Kind, Claims, Sends, Advances, Leaves, account
<1>3. ASSUME NEW w \in Senders, SLock(w) PROVE StoredIsHonoured'
  <2>1. /\ UNCHANGED <<tokens, honoured, lost>>
        /\ \A x \in Senders : sender[x].pc = "refreshed" => sender'[x] = sender[x]
    BY <1>3 DEF SLock, account, coinbase
  <2> QED BY <2>1 DEF StoredIsHonoured, Honours
<1>4. ASSUME NEW w \in Senders, SRefresh(w) PROVE StoredIsHonoured'
  <2>1. PICK t \in Tokens :
          /\ t.flow = sender[w].token.flow
          /\ sender' = [sender EXCEPT ![w] = [pc |-> "refreshed", token |-> t]]
          /\ honoured' = [honoured EXCEPT ![t.flow] = t.gen]
    BY <1>4, Refreshes
  <2>2. t.flow = tokens'.flow BY <1>4, <2>1 DEF SRefresh, LockInv, HoldsToken, account
  <2>3. /\ sender'[w].pc = "refreshed" /\ sender'[w].token = t
        /\ honoured'[t.flow] = t.gen
    BY <2>1 DEF TypeInv, TypeOK, Tokens
  <2> QED BY <2>2, <2>3 DEF StoredIsHonoured, Honours
<1>5. ASSUME NEW w \in Senders, SRefreshLost(w) PROVE StoredIsHonoured'
  BY <1>5 DEF SRefreshLost, LockInv, HoldsToken, StoredIsHonoured, account
<1>6. ASSUME NEW w \in Senders, SCommit(w) PROVE StoredIsHonoured'
  BY <1>6 DEF SCommit, LockInv, HoldsToken, StoredIsHonoured, Honours, coinbase
<1>7. ASSUME NEW w \in Senders, SEnd(w) PROVE StoredIsHonoured'
  <2>1. UNCHANGED <<tokens, honoured>> /\ sender[w].pc # "idle" BY <1>7 DEF SEnd, account, coinbase
  <2>2. sender[w].token.flow = tokens.flow BY <2>1 DEF LockInv, HoldsToken
  <2>3. \A x \in Senders \ {w} : sender[x].pc # "refreshed" BY <2>1 DEF LockInv, Alone
  <2>4. CASE sender[w].token # tokens BY <1>7, <2>1, <2>2, <2>4 DEF SEnd, StoredIsHonoured
  <2>5. CASE sender[w].token = tokens
    <3>1. lost' = lost BY <1>7, <2>5 DEF SEnd
    <3> QED BY <2>1, <2>3, <2>5, <3>1 DEF StoredIsHonoured, Honours
  <2> QED BY <2>4, <2>5
<1> QED BY <1>1, <1>2, <1>3, <1>4, <1>5, <1>6, <1>7
        DEF Next, Calling, Sending, CreateURL, Expire, RFind, RRead, RDone, vars, account, coinbase

(* Tokens and balances are written together, and stay once written.        *)
LEMMA NextOneFlow == TypeInv /\ LockInv /\ OneFlow /\ [Next]_vars => OneFlow'
<1> SUFFICES ASSUME TypeInv, LockInv, OneFlow, [Next]_vars PROVE OneFlow'
  OBVIOUS
<1>1. CASE Aside BY <1>1, Asides DEF OneFlow
<1>2. ASSUME NEW c \in Callbacks, Calling(c) PROVE OneFlow'
  <2>1. Kind(c) BY <1>2, CallbackKinds
  <2>2. CASE Stores(c)
    <3>1. State(c) \in States BY <2>2 DEF Stores, TypeInv, LocalOK
    <3>2. tokens' \in Tokens BY <2>2, <3>1 DEF Stores, Tokens
    <3>3. tokens' # None BY <3>2, NoneAssumption
    <3> QED BY <2>2, <3>3 DEF Stores, OneFlow
  <2> QED BY <2>1, <2>2 DEF Kind, Claims, Sends, Advances, Leaves, account, OneFlow
<1> QED BY <1>1, <1>2, Steps

(* What is stored stays so, and Coinbase's count only grows.               *)
LEMMA Grows ==
  ASSUME TypeInv, LockInv, [Next]_vars
  PROVE  (tokens # None => tokens' # None) /\ \A s \in States : exchanged'[s] >= exchanged[s]
<1>1. CASE Aside BY <1>1, Asides DEF TypeInv, TypeOK
<1>2. ASSUME NEW c \in Callbacks, Calling(c)
      PROVE (tokens # None => tokens' # None) /\ \A s \in States : exchanged'[s] >= exchanged[s]
  <2>1. Kind(c) BY <1>2, CallbackKinds
  <2>2. UNCHANGED exchanged \/ Receive(c) BY <2>1 DEF Kind, Claims, Sends, Advances, Stores, Leaves
  <2>3. \A s \in States : exchanged'[s] >= exchanged[s]
    <3>1. ASSUME NEW s \in States PROVE exchanged'[s] \in {exchanged[s], exchanged[s] + 1}
      BY <2>2 DEF Receive, TypeInv, TypeOK
    <3> QED BY <3>1 DEF TypeInv, TypeOK
  <2>4. CASE Stores(c)
    <3>1. State(c) \in States BY <2>4 DEF Stores, TypeInv, LocalOK
    <3>2. tokens' \in Tokens BY <2>4, <3>1 DEF Stores, Tokens
    <3> QED BY <2>3, <3>2, NoneAssumption
  <2> QED BY <2>1, <2>3, <2>4 DEF Kind, Claims, Sends, Advances, Leaves, account
<1> QED BY <1>1, <1>2, Steps

LEMMA NextReaders ==
  /\ TypeInv /\ LockInv /\ SessionInv /\ OneFlow /\ ReaderInv /\ ValuedIsStored /\ [Next]_vars
  => ReaderInv' /\ ValuedIsStored'
<1> SUFFICES ASSUME TypeInv, LockInv, SessionInv, OneFlow, ReaderInv, ValuedIsStored, [Next]_vars
             PROVE  ReaderInv' /\ ValuedIsStored'
  OBVIOUS
<1>1. (tokens # None => tokens' # None) /\ \A s \in States : exchanged'[s] >= exchanged[s] BY Grows
<1>2. CASE UNCHANGED reader
  <2>1. \A s \in States : exchanged[s] \in Nat /\ exchanged'[s] \in Nat
    BY NextType DEF TypeInv, TypeOK
  <2>2. \A s \in States : exchanged[s] > 0 => exchanged'[s] > 0 BY <1>1, <2>1
  <2> QED BY <1>1, <1>2, <2>2 DEF ReaderInv, ValuedIsStored
<1>3. ASSUME NEW r \in Readers, RFind(r) \/ RRead(r) \/ RDone(r) PROVE ReaderInv' /\ ValuedIsStored'
  <2>1. UNCHANGED <<tokens, exchanged>> BY <1>3 DEF RFind, RRead, RDone, account, coinbase
  <2>2. CASE RFind(r) BY <2>1, <2>2 DEF RFind, ReaderInv, ValuedIsStored, TypeInv, TypeOK
  <2>3. CASE RRead(r)
    <3>1. tokens \in Tokens BY <2>3 DEF RRead, ReaderInv, TypeInv, TypeOK
    <3>2. snapshot \in States /\ exchanged[snapshot] > 0
      BY <2>3, <3>1 DEF RRead, ReaderInv, OneFlow, SessionInv, StoredIsExchanged, Tokens
    <3> QED BY <2>1, <2>3, <3>2 DEF RRead, ReaderInv, ValuedIsStored, TypeInv, TypeOK
  <2>4. CASE RDone(r) BY <2>1, <2>4 DEF RDone, IdleReader, ReaderInv, ValuedIsStored, TypeInv, TypeOK
  <2> QED BY <1>3, <2>2, <2>3, <2>4
<1>4. ASSUME NEW c \in Callbacks, Calling(c) PROVE UNCHANGED reader BY <1>4, CallbackKinds
<1>5. ASSUME NEW w \in Senders, SLock(w) \/ Sending(w) PROVE UNCHANGED reader BY <1>5, SenderFrame
<1> QED BY <1>2, <1>3, <1>4, <1>5 DEF Next, Calling, CreateURL, Expire, vars
-----------------------------------------------------------------------------
(* A miss stays a miss: a state is issued once, consumed once, and expires *)
(* for good.                                                               *)
LEMMA NextAnswers == TypeInv /\ AnswerInv /\ [Next]_vars => AnswerInv'
<1> SUFFICES ASSUME TypeInv, AnswerInv, [Next]_vars PROVE AnswerInv'
  OBVIOUS
<1>1. CASE UNCHANGED <<session, expired, callback>> BY <1>1 DEF AnswerInv, State
<1>2. ASSUME NEW s \in States, CreateURL(s) PROVE AnswerInv'
  <2>1. UNCHANGED <<expired, callback>> /\ \A c \in Callbacks : State(c) # s
    BY <1>2 DEF CreateURL
  <2>2. \A r : r # s => session'[r] = session[r] BY <1>2 DEF CreateURL, TypeInv, TypeOK
  <2> QED BY <2>1, <2>2 DEF AnswerInv, State
<1>3. ASSUME NEW s \in States, Expire(s) PROVE AnswerInv'
  BY <1>3 DEF Expire, AnswerInv, State
<1>4. ASSUME NEW c \in Callbacks, Calling(c) PROVE AnswerInv'
  <2>1. Kind(c) /\ Told(c) /\ UNCHANGED expired /\ Others(c) BY <1>4, CallbackKinds, CallbackSteps
  <2>2. UNCHANGED session \/ (Unconsumed(State(c)) /\ Consumes(c))
    BY <2>1 DEF Kind, Claims, Sends, Advances, Stores, Leaves
  <2>3. \A r \in States : \/ session'[r] = session[r]
                          \/ session[r] = "open" /\ session'[r] = "used"
    BY <2>2 DEF Consumes, Unconsumed, TypeInv, TypeOK
  <2>4. ASSUME NEW d \in Callbacks \ {c}
        PROVE  /\ callback'[d].pc = "miss" =>
                    /\ session'[State(d)'] # "open" \/ State(d)' \in expired'
                    /\ callback'[d].late => session'[State(d)'] = "used"
               /\ callback'[d].pc = "done" =>
                    /\ callback'[d].answer = "invalid" => session'[State(d)'] = "none"
                    /\ callback'[d].answer = "used" => session'[State(d)'] = "used"
                    /\ callback'[d].answer = "expired" =>
                         State(d)' \in expired' /\ ~callback'[d].late
    <3>1. callback'[d] = callback[d] /\ UNCHANGED expired BY <2>1 DEF Others
    <3>2. callback[d].pc # "idle" => State(d) \in States BY DEF TypeInv, LocalOK
    <3> QED BY <2>3, <3>1, <3>2 DEF AnswerInv, State
  <2>5. /\ callback'[c].pc = "miss" =>
             /\ session'[State(c)'] # "open" \/ State(c)' \in expired'
             /\ callback'[c].late => session'[State(c)'] = "used"
        /\ callback'[c].pc = "done" =>
             /\ callback'[c].answer = "invalid" => session'[State(c)'] = "none"
             /\ callback'[c].answer = "used" => session'[State(c)'] = "used"
             /\ callback'[c].answer = "expired" => State(c)' \in expired' /\ ~callback'[c].late
    <3>1. callback[c].pc = "miss" => session[State(c)] \in {"none", "open", "used"}
      BY DEF TypeInv, TypeOK, LocalOK
    <3>2. callback[c].pc = "miss" =>
            /\ Classification(State(c)) = "invalid" => session[State(c)] = "none"
            /\ Classification(State(c)) = "used" => session[State(c)] = "used"
            /\ Classification(State(c)) = "expired" => session[State(c)] = "open"
      BY <3>1 DEF Classification
    <3>3. callback[c].pc = "miss" =>
            /\ session[State(c)] # "open" \/ State(c) \in expired
            /\ callback[c].late => session[State(c)] = "used"
      BY DEF AnswerInv
    <3> QED BY <2>1, <3>2, <3>3 DEF Told, Keeps
  <2> QED BY <2>4, <2>5 DEF AnswerInv
<1>5. ASSUME NEW w \in Senders, SLock(w) \/ Sending(w) PROVE AnswerInv'
  BY <1>1, <1>5, SenderFrame
<1> QED BY <1>1, <1>2, <1>3, <1>4, <1>5
        DEF Next, Calling, RFind, RRead, RDone, vars, sessions

-----------------------------------------------------------------------------
LEMMA InitInv == Init => IInv
<1> SUFFICES ASSUME Init PROVE IInv
  OBVIOUS
<1>1. TypeInv BY InitType
<1>2. Alone /\ HoldsToken BY DEF Init, Alone, HoldsToken, IdleSender, IdleCallback
<1>3. Claimed /\ AnswerInv BY DEF Init, Claimed, AnswerInv, IdleCallback, Past
<1>4. Unclaimed /\ StoredIsExchanged /\ ExchangedOnce
  BY DEF Init, Unclaimed, StoredIsExchanged, ExchangedOnce, Stored
<1>5. OneFlow /\ StoredIsHonoured BY DEF Init, OneFlow, StoredIsHonoured
<1>6. ReaderInv /\ ValuedIsStored BY DEF Init, ReaderInv, ValuedIsStored, IdleReader
<1> QED BY <1>1, <1>2, <1>3, <1>4, <1>5, <1>6 DEF IInv, LockInv, SessionInv

LEMMA NextInv == IInv /\ [Next]_vars => IInv'
<1> SUFFICES ASSUME IInv, [Next]_vars PROVE IInv'
  OBVIOUS
<1>1. /\ TypeInv /\ LockInv /\ Alone /\ SessionInv /\ OneFlow /\ StoredIsHonoured
      /\ ReaderInv /\ ValuedIsStored /\ AnswerInv
  BY DEF IInv, LockInv
<1>2. TypeInv' BY <1>1, NextType
<1>3. LockInv' BY <1>1, NextAlone, NextHolds DEF LockInv
<1>4. SessionInv' BY <1>1, AsideSessions, CallbackSessions, Steps
<1>5. OneFlow' /\ StoredIsHonoured' BY <1>1, NextOneFlow, NextHonoured
<1>6. ReaderInv' /\ ValuedIsStored' BY <1>1, NextReaders
<1>7. AnswerInv' BY <1>1, NextAnswers
<1> QED BY <1>2, <1>3, <1>4, <1>5, <1>6, <1>7 DEF IInv

(* Lock, sessions, tokens and answers keep their invariant together.       *)
THEOREM Invariance == Spec => []IInv
BY InitInv, NextInv, PTL DEF Spec

(* Coinbase never receives the code of a state twice, however many         *)
(* callbacks present the state and whatever fails.                         *)
THEOREM CodesOnce == Spec => []ExchangedOnce
<1>1. IInv => ExchangedOnce BY DEF IInv, SessionInv
<1> QED BY <1>1, Invariance, PTL

(* persistConnection keeps tokens and balances of one flow.                *)
THEOREM FlowsDoNotMix == Spec => []OneFlow
<1>1. IInv => OneFlow BY DEF IInv
<1> QED BY <1>1, Invariance, PTL

(* The row's lock keeps the stored token the one Coinbase honours, unless  *)
(* an answer with a rotated token was lost.                                *)
THEOREM TokensHonoured == Spec => []StoredIsHonoured
<1>1. IInv => StoredIsHonoured BY DEF IInv
<1> QED BY <1>1, Invariance, PTL

(* A valuation's second query finds the balances of a stored connection.   *)
THEOREM ValuationsAreStored == Spec => []ValuedIsStored
<1>1. IInv => ValuedIsStored BY DEF IInv
<1> QED BY <1>1, Invariance, PTL

(* What classifySessionMiss answers is true while it is told: "invalid" of *)
(* a state never issued, "used" of one that was consumed, "expired" of one *)
(* that did expire and was not consumed when the callback's UPDATE missed. *)
THEOREM MissesExplained == Spec => []MissExplained
<1>1. IInv => MissExplained BY DEF IInv, AnswerInv, MissExplained
<1> QED BY <1>1, Invariance, PTL
=============================================================================
