--------------------------- MODULE MCOrderPipeline ---------------------------
(***************************************************************************)
(* Instances of OrderPipeline for TLC.  Workers of one service are         *)
(* interchangeable, and so are prices.                                     *)
(***************************************************************************)
EXTENDS OrderPipeline, FiniteSets, TLC

Symmetry == Permutations(Prices) \cup Permutations(Dispatchers)
              \cup Permutations(Pricers) \cup Permutations(Settlers)
=============================================================================
