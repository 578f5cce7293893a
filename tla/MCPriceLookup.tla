---------------------------- MODULE MCPriceLookup ----------------------------
(***************************************************************************)
(* Instances of PriceLookup for TLC: ticks of 100 ms, and headers.         *)
(***************************************************************************)
EXTENDS PriceLookup

Seconds(S) == [unit : {"seconds"}, n : S]
Dates(S)   == [unit : {"date"}, n : S]

\* The headers of TestRetryAfterBound, dates past, near and far, and seconds
\* that no longer fit a duration once they are multiplied.
Headers == Seconds({-1, 0, 1, 360, 410}) \cup Dates({-5, 3, 40})
=============================================================================
