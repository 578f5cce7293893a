--------------------------- MODULE MCCoinbaseReads ---------------------------
(***************************************************************************)
(* An instance of CoinbaseReads for TLC.                                   *)
(***************************************************************************)
EXTENDS CoinbaseReads

\* No wallet, less than a page, pages that end with the list, and too many.
OpenAtFirst == {{}, {3}, {2, 4}, {1, 2, 4}, {1, 2, 3, 4}, {1, 2, 3, 4, 5}}
=============================================================================
