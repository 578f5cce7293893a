---------------------------- MODULE Fingerprint ----------------------------
(***************************************************************************)
(* How a withdrawal request is compared with the one its idem was first    *)
(* used for: validate, normalizeAmount and requestFingerprint, and the     *)
(* answer processWithdrawal gives by them.  Texts are sequences of         *)
(* characters; SHA-256 is taken for the text it digests.  Withdrawals      *)
(* holds the rest of the handler; there a business request is a value.     *)
(***************************************************************************)
EXTENDS Integers, Sequences, FiniteSets

CONSTANTS Assets,      \* texts
          Amounts,     \* the spellings of amounts: [whole, fraction], two
                       \* texts of digits, the fraction empty without a point
          Recipients, Networks,  \* texts
          WalletsOf,   \* the provider accounts of each asset over time, texts
          Places       \* of a fraction: 18 in the code

\* Characters are numbers, of which a digit is its own.
Digits == 0..9
Point  == 10
NL     == 11
Texts  == Seq(Nat)
Lines  == Seq(Nat \ {NL})

Requests == [asset : Assets, amount : Amounts, to : Recipients, network : Networks]

\* amountPattern, but for its limit of twenty digits; symbolPattern.
ASSUME AmountsAssumption ==
  /\ Places \in Nat
  /\ Amounts \subseteq [whole : Seq(Digits) \ {<<>>}, fraction : Seq(Digits)]
  /\ \A a \in Amounts : Len(a.fraction) <= Places
ASSUME TextsAssumption ==
  /\ Assets \subseteq Lines /\ Recipients \cup Networks \subseteq Texts
  /\ \A a \in Assets : WalletsOf[a] \subseteq Lines

\* Requests in first and last are kept with the provider account that was
\* looked up for them.
VARIABLES
  first,   \* the request whose row was committed for the idem; none at first
  hash,    \* cex_withdrawals.request_hash of that row
  last,    \* the request in hand, under this idem
  answer   \* ... and how it is taken

vars == <<first, hash, last, answer>>

-----------------------------------------------------------------------------
(* Amounts. *)

Number(s) == LET n[i \in 0..Len(s)] == IF i = 0 THEN 0 ELSE 10 * n[i - 1] + s[i]
             IN  n[Len(s)]

Padded(f) == f \o [i \in 1..(Places - Len(f)) |-> 0]

\* The value of an amount, in units of the last place.
Value(a) == Number(a.whole \o Padded(a.fraction))

Significant(s) == {i \in DOMAIN s : s[i] # 0}
First(s) == CHOOSE i \in Significant(s) : \A j \in Significant(s) : i <= j
Last(s)  == CHOOSE i \in Significant(s) : \A j \in Significant(s) : i >= j

Leading(s)  == IF Significant(s) = {} THEN <<0>> ELSE SubSeq(s, First(s), Len(s))
Trailing(s) == IF Significant(s) = {} THEN <<>> ELSE SubSeq(s, 1, Last(s))

Behind(f) == IF f = <<>> THEN <<>> ELSE <<Point>> \o f

\* Mutation: the fraction keeps its zeros.
KeepsZeros(a) == Leading(a.whole) \o Behind(a.fraction)

\* normalizeAmount: no zeros before the number nor behind its fraction.
normalizeAmount(a) == Leading(a.whole) \o Behind(Trailing(a.fraction))

-----------------------------------------------------------------------------
(* The fingerprint. *)

\* Mutation: the fields are only put one behind the other.
Joined(wallet, asset, amount, to, network) == wallet \o asset \o amount \o to \o network

Line(part) == part \o <<NL>>

\* RequestHash: each part and a newline.
RequestHash(wallet, asset, amount, to, network) ==
  Line(wallet) \o (Line(asset) \o (Line(amount) \o (Line(to) \o Line(network))))

requestFingerprint(wallet, r) ==
  RequestHash(wallet, r.asset, normalizeAmount(r.amount), r.to, r.network)

\* A positive amount and non-empty texts.
validate(r) == Value(r.amount) > 0 /\ r.to # <<>> /\ r.network # <<>>

None == <<>>

Init == first = None /\ hash = None /\ last = None /\ answer = "none"

\* A request that is not valid, or fails before its hash is looked at or its
\* row committed: no connection, no wallet of the asset, not enough on it.
Refuse(r) ==
  /\ last' = [request |-> r, wallet |-> None]
  /\ answer' = "refused" /\ UNCHANGED <<first, hash>>

\* The wallet is looked up for each request anew: any row of the asset, of the
\* connection there then is.  The request is the first of the idem, or has the
\* row's fingerprint or not.
Compare(r, wallet) ==
  /\ last' = [request |-> r, wallet |-> wallet]
  /\ \/ /\ first = None
        /\ answer' = "new" /\ first' = last' /\ hash' = requestFingerprint(wallet, r)
     \/ /\ first # None
        /\ answer' = IF hash = requestFingerprint(wallet, r) THEN "replay" ELSE "conflict"
        /\ UNCHANGED <<first, hash>>

Submit ==
  \E r \in Requests :
    /\ last = None
    /\ \/ Refuse(r)
       \/ validate(r) /\ \E wallet \in WalletsOf[r.asset] : Compare(r, wallet)

\* The answer is written.
Answered ==
  /\ last # None /\ last' = None /\ answer' = "none"
  /\ UNCHANGED <<first, hash>>

Next == Submit \/ Answered
Spec == Init /\ [][Next]_vars

-----------------------------------------------------------------------------
(* Properties. *)

\* p and q are requests with their wallets.
SameMoney(p, q) ==
  /\ p.wallet = q.wallet /\ p.request.asset = q.request.asset
  /\ Value(p.request.amount) = Value(q.request.amount)
SameTarget(p, q) == p.request.to = q.request.to /\ p.request.network = q.request.network

\* Destination and network of one line, as addresses and networks have.
OneLine(p) == {p.request.to, p.request.network} \subseteq Lines

\* "Same idem, different business request: never replay": a request taken for
\* the one before it moves the same value of the same asset from the same
\* wallet, whatever its texts; and to the same destination, if that of either
\* is of one line (validate lets newlines through, which RequestHash takes for
\* impossible).  A conflict is never only another spelling of the amount: if
\* the business is the same, the wallet looked up has changed.
ReplayOfTheSame ==
  /\ answer = "replay" =>
       SameMoney(first, last) /\ (OneLine(first) \/ OneLine(last) => SameTarget(first, last))
  /\ answer = "conflict" => ~(SameMoney(first, last) /\ SameTarget(first, last))
=============================================================================
