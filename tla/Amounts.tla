------------------------------ MODULE Amounts ------------------------------
(***************************************************************************)
(* The decimal numbers of an order on their way through the services: the  *)
(* amount a client writes, the price an exchange answers, and what the     *)
(* columns of orders and settlements make of them.  OrderPipeline leaves   *)
(* the numbers out.  A decimal is units / 10^places.                       *)
(***************************************************************************)
EXTENDS Integers

CONSTANTS Whole,     \* digits before the point: 20 in the code
          Fraction,  \* digits behind it: 8 in the code
          Inputs     \* decimals a client or an exchange may write:
                     \* records [units, places]

ASSUME WidthAssumption == Whole \in Nat \ {0} /\ Fraction \in Nat
ASSUME InputsAssumption == Inputs \subseteq [units : Int, places : Nat]

VARIABLES
  status,  \* of the order
  amount,  \* orders.amount, in units of 10^-Fraction; 0 before
  wanted,  \* the amount and the price that were written
  price,   \* settlements.price, in the same units; 0 before
  total    \* settlements.total, in units of 10^-(2 * Fraction); 0 before

amountsVars == <<status, amount, wanted, price, total>>

Zero == [units |-> 0, places |-> 0]

\* The powers of ten.
Ten[n \in Nat] == IF n = 0 THEN 1 ELSE 10 * Ten[n - 1]

-----------------------------------------------------------------------------
(* Columns: numeric(precision, scale) rounds to its scale, half away from  *)
(* zero, and refuses what has too many digits then.                        *)

Rounded(d, scale) ==
  IF d.places <= scale THEN d.units * Ten[scale - d.places]
  ELSE (d.units + Ten[d.places - scale] \div 2) \div Ten[d.places - scale]

Column(precision, scale) ==
  [scale |-> scale, most |-> Ten[precision] - 1]

PriceColumn == Column(Whole + Fraction, Fraction)          \* numeric(28, 8)

\* Mutation: the total has the scale of its factors.
NarrowColumn == Column(2 * (Whole + Fraction), Fraction)

TotalColumn == Column(2 * (Whole + Fraction), 2 * Fraction)  \* numeric(56, 16)

\* CHECK (column > 0) included.
Accepts(c, d) == Rounded(d, c.scale) \in 1..c.most

Product(d, e) == [units |-> d.units * e.units, places |-> d.places + e.places]

-----------------------------------------------------------------------------
(* The patterns and the handlers. *)

\* Mutation: the number of digits is not looked at.
AnyPositive(d) == d.units > 0

\* {1,20} digits, a point and {1,8} digits, and positive.
Valid(d) == d.units > 0 /\ d.places <= Fraction /\ d.units < Ten[Whole + d.places]

AmountsInit == /\ status = "none" /\ amount = 0 /\ price = 0 /\ total = 0
               /\ wanted = [amount |-> Zero, price |-> Zero]

\* create: an order is refused with 400, or its row is inserted; an insert
\* that fails is a 503.
Create ==
  /\ status = "none"
  /\ \E d \in Inputs :
       \/ /\ ~Valid(d)
          /\ status' = "refused" /\ UNCHANGED <<amount, wanted>>
       \/ /\ Valid(d) /\ wanted' = [wanted EXCEPT !.amount = d]
          /\ IF Accepts(PriceColumn, d)
             THEN status' = "PENDING" /\ amount' = Rounded(d, Fraction)
             ELSE status' = "unavailable" /\ UNCHANGED amount
  /\ UNCHANGED <<price, total>>

\* parsePrice fails: price.failed.
Malformed ==
  /\ status = "PENDING"
  /\ \E d \in Inputs : ~Valid(d)
  /\ status' = "FAILED"
  /\ UNCHANGED <<amount, wanted, price, total>>

\* A price is resolved and settle inserts amount * price; an insert that
\* fails leaves the event unacknowledged, to fail again.
Settle ==
  /\ status = "PENDING"
  /\ \E d \in Inputs :
       LET t == Product([units |-> amount, places |-> Fraction], d)
       IN  /\ Valid(d)
           /\ wanted' = [wanted EXCEPT !.price = d]
           /\ IF Accepts(PriceColumn, d) /\ Accepts(TotalColumn, t)
              THEN /\ status' = "SETTLED"
                   /\ price' = Rounded(d, Fraction)
                   /\ total' = Rounded(t, TotalColumn.scale)
              ELSE status' = "stuck" /\ UNCHANGED <<price, total>>
  /\ UNCHANGED amount

AmountsNext == Create \/ Malformed \/ Settle
AmountsSpec == AmountsInit /\ [][AmountsNext]_amountsVars

-----------------------------------------------------------------------------
(* Properties. *)

\* What the patterns let through, the columns hold, and exactly: no order is
\* refused by its row, no settlement by its own, which every redelivery would
\* repeat, and a settled order was settled at the amount and the price that
\* were written, not at what a column rounded them to.
ColumnsHoldTheAccepted ==
  /\ status \notin {"unavailable", "stuck"}
  /\ status = "SETTLED" =>
       /\ total = amount * price
       /\ amount * Ten[wanted.amount.places] = wanted.amount.units * Ten[Fraction]
       /\ price * Ten[wanted.price.places] = wanted.price.units * Ten[Fraction]
=============================================================================
