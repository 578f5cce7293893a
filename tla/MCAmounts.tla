----------------------------- MODULE MCAmounts -----------------------------
(***************************************************************************)
(* An instance of Amounts for TLC.                                         *)
(***************************************************************************)
EXTENDS Amounts

\* Up to one digit more than is allowed on either side of the point.
AnyDecimal == [units : {-1} \cup 0..25 \cup {49, 50, 51, 90, 95, 99, 100, 101, 499, 500, 989, 990,
                                             998, 999, 1000, 9990, 9999, 10000, 99990, 99999},
               places : 0..3]
=============================================================================
