---------------------------- MODULE TransferLedger ----------------------------
(***************************************************************************)
(* What the withdrawals of an account promise for each idempotency key,    *)
(* without handlers, locks, tokens or balances: a key is asked of Coinbase *)
(* for one business request only, and only while its entry is open; the    *)
(* entry made of it says what became of the transfer.                      *)
(*                                                                         *)
(* A request cut off behind its send takes its entry back.  Its key is     *)
(* torn then: what Coinbase did for it and the entry may part, but an      *)
(* entry is still made for good.                                           *)
(***************************************************************************)
CONSTANTS Idems,       \* idempotency keys
          Businesses,  \* business requests
          None

VARIABLES
  entry,  \* entry[i]: the business request of key i and its status, or None
  asked,  \* asked[i]: the business requests Coinbase was asked for under i
  made,   \* made[i]: the transfer Coinbase made under i, or None
  torn    \* the keys a request of which was cut off behind its send

ledgerVars == <<entry, asked, made, torn>>

Accepted == {"PROVIDER_PENDING", "COMPLETED"}
Final    == Accepted \cup {"FAILED"}
Statuses == Final \cup {"REQUIRES_2FA"}

Init ==
  /\ entry = [i \in Idems |-> None]
  /\ asked = [i \in Idems |-> {}]
  /\ made  = [i \in Idems |-> None]
  /\ torn  = {}

(* Key i can still be worked on, for the business request b alone.         *)
Open(i, b) ==
  entry[i] # None => entry[i].status = "REQUIRES_2FA" /\ entry[i].business = b

(* Nothing else was ever asked for under i.                                *)
Pure(i, b) == i \in torn \/ asked[i] \subseteq {b}

(* Coinbase receives b under i; it makes at most one transfer for a key.   *)
Reach(i, b) ==
  /\ asked' = [asked EXCEPT ![i] = @ \cup {b}]
  /\ \/ UNCHANGED made
     \/ made[i] = None /\ made' = [made EXCEPT ![i] = b]

(* A key is asked for again only if no transfer was made under it.         *)
Ask(i, b) ==
  /\ Open(i, b) /\ Pure(i, b)
  /\ i \in torn \/ made[i] = None
  /\ Reach(i, b)
  /\ UNCHANGED <<entry, torn>>

(* An entry is final if a transfer was made, and "accepted" only then.     *)
Record(i, b, s) ==
  /\ Open(i, b) /\ Pure(i, b)
  /\ \/ i \in torn
     \/ made[i] = None /\ s \notin Accepted
     \/ made[i] = b /\ s \in Final
  /\ entry' = [entry EXCEPT ![i] = [business |-> b, status |-> s]]
  /\ UNCHANGED <<asked, made, torn>>

(* A request is cut off, with its send under way or behind it.             *)
Tear(i, b) ==
  /\ Open(i, b) /\ Pure(i, b)
  /\ torn' = torn \cup {i}
  /\ Reach(i, b) \/ UNCHANGED <<asked, made>>
  /\ UNCHANGED entry

Next == \E i \in Idems, b \in Businesses :
          \/ Ask(i, b) \/ Tear(i, b)
          \/ \E s \in Statuses : Record(i, b, s)

Spec == Init /\ [][Next]_ledgerVars
=============================================================================
