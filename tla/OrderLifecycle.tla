--------------------------- MODULE OrderLifecycle ---------------------------
(***************************************************************************)
(* What the order system promises its clients, without queues, workers or  *)
(* tables: an accepted order concludes at most once, with one price or one *)
(* error code, and the conclusion is then permanent.                       *)
(***************************************************************************)
CONSTANTS Orders,   \* order identifiers
          Prices,   \* prices an order can be settled at
          Codes,    \* error codes an order can fail with
          None      \* the value of an order that has not concluded

VARIABLE ledger     \* ledger[o]: how order o stands, and its price or code

Entry(how, value) == [how |-> how, value |-> value]

Absent == Entry("absent", None)
Open   == Entry("open", None)

Conclusions == {Entry("settled", p) : p \in Prices} \cup {Entry("failed", c) : c \in Codes}

Init == ledger = [o \in Orders |-> Absent]

Accept(o) == /\ ledger[o] = Absent
             /\ ledger' = [ledger EXCEPT ![o] = Open]

Conclude(o) == /\ ledger[o] = Open
               /\ \E c \in Conclusions : ledger' = [ledger EXCEPT ![o] = c]

Next == \E o \in Orders : Accept(o) \/ Conclude(o)

Spec == Init /\ [][Next]_ledger
=============================================================================
