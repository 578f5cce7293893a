---------------------------- MODULE PriceLookup ----------------------------
(***************************************************************************)
(* One lookup of the pricing service: exchangeClient.price with its timed  *)
(* attempts and waits, and what the consumer's handler makes of the result *)
(* when the pod is told to stop at any point.                              *)
(*                                                                         *)
(* Time is counted in ticks; a call or a wait is one step that moves the   *)
(* clock.  Durations are Width-bit signed integers, as in Go.              *)
(***************************************************************************)
EXTENDS Integers, Sequences

CONSTANTS Attempts,   \* EXCHANGE_MAX_ATTEMPTS
          Timeout,    \* EXCHANGE_TIMEOUT, in ticks
          Backoff,    \* EXCHANGE_BACKOFF, in ticks
          Second,     \* time.Second, in ticks
          HalfRange,  \* durations are in -HalfRange .. HalfRange - 1
          Asked       \* Retry-After headers: records [unit, n], a number of
                      \* seconds or an HTTP date n ticks away

ASSUME AttemptsAssumption == Attempts \in 1..5
ASSUME TimeAssumption == /\ Timeout \in Nat /\ Backoff \in Nat \ {0}
                         /\ Second \in Nat \ {0} /\ HalfRange \in Nat \ {0}
ASSUME AskedAssumption == Asked \subseteq [unit : {"seconds", "date"}, n : Int]

VARIABLES
  phase,      \* where the handler is
  attempt,
  clock,      \* ticks since the lookup began
  cancelled,  \* the worker's context
  answers,    \* what each finished attempt was answered
  waits,      \* how long each wait lasted
  cut,        \* the error returned comes of the cancellation
  code,       \* what price returned: "price", an error code, or "none" yet
  published   \* the event published, or "none"

vars == <<phase, attempt, clock, cancelled, answers, waits, cut, code, published>>

Codes == {"UPSTREAM_STATUS", "MALFORMED_RESPONSE", "UPSTREAM_UNAVAILABLE",
          "UPSTREAM_TIMEOUT", "INVALID_EXCHANGE"}

Kinds   == {"price", "malformed", "status", "busy", "error"}
NoAsk   == [unit |-> "seconds", n |-> 0]
Answers == [kind : Kinds, asked : Asked \cup {NoAsk}]

TypeOK ==
  /\ phase \in {"call", "wait", "returned", "publish", "done"}
  /\ attempt \in 1..Attempts
  /\ clock \in Nat
  /\ cancelled \in BOOLEAN /\ cut \in BOOLEAN
  /\ answers \in Seq(Answers)
  /\ waits \in Seq(0..Second)
  /\ code \in Codes \cup {"price", "none"}
  /\ published \in {"none", "resolved", "failed"}

-----------------------------------------------------------------------------
(* Durations. *)

Wrap(d) == ((d + HalfRange) % (2 * HalfRange)) - HalfRange
Least(a, b)    == IF a < b THEN a ELSE b
Greatest(a, b) == IF a > b THEN a ELSE b

\* Mutation: the header is not capped.
Uncapped(a) == Greatest(IF a.unit = "seconds" THEN a.n * Second ELSE a.n, 0)

\* retryAfter: the seconds are multiplied, then held between zero and a second.
Delay(a) == Least(Greatest(IF a.unit = "seconds" THEN Wrap(a.n * Second) ELSE a.n, 0), Second)

Power == <<1, 2, 4, 8, 16>>
BackoffAfter(n) == Least(Wrap(Backoff * Power[n]), Second)

\* Mutation: the header replaces the backoff.
HeaderOnly(n, a) == Delay(a)

\* A timer of a negative duration fires at once.
Wait(n, a) == Greatest(Greatest(BackoffAfter(n), Delay(a)), 0)

-----------------------------------------------------------------------------
(* price and once. *)

Init ==
  /\ \/ phase = "call" /\ code = "none"
     \/ phase = "returned" /\ code = "INVALID_EXCHANGE"  \* no base URL: no request
  /\ attempt = 1 /\ clock = 0
  /\ cancelled = FALSE /\ cut = FALSE
  /\ answers = <<>> /\ waits = <<>>
  /\ published = "none"

Returns(c) == phase' = "returned" /\ code' = c

\* An attempt ends within the client's timeout.
Ends(kind, a) ==
  /\ phase = "call"
  /\ \E d \in 0..Timeout : clock' = clock + d
  /\ answers' = Append(answers, [kind |-> kind, asked |-> a])
  /\ UNCHANGED <<attempt, cancelled, waits, published>>

\* ... and is repeated, unless it was the last.
RetryOr(c) ==
  /\ UNCHANGED cut
  /\ IF attempt = Attempts THEN Returns(c) ELSE phase' = "wait" /\ UNCHANGED code

\* A price, a malformed or refused answer: final.
Final ==
  \E k \in {"price", "malformed", "status"} :
    /\ Ends(k, NoAsk)
    /\ Returns(CASE k = "price"     -> "price"
                 [] k = "malformed" -> "MALFORMED_RESPONSE"
                 [] k = "status"    -> "UPSTREAM_STATUS")
    /\ UNCHANGED cut

\* 429, 500, 502, 503, 504, with a Retry-After header or none.
Busy == \E a \in Asked \cup {NoAsk} : Ends("busy", a) /\ RetryOr("UPSTREAM_STATUS")

\* The request or the reading of the body fails.
Error ==
  \E c \in {"UPSTREAM_UNAVAILABLE", "UPSTREAM_TIMEOUT"} :
    /\ Ends("error", NoAsk)
    /\ IF cancelled THEN Returns(c) /\ cut' = TRUE ELSE RetryOr(c)

Again ==
  /\ phase = "wait"
  /\ LET w == Wait(attempt, answers[attempt].asked)
     IN  clock' = clock + w /\ waits' = Append(waits, w)
  /\ phase' = "call"
  /\ attempt' = attempt + 1
  /\ UNCHANGED <<cancelled, answers, cut, code, published>>

\* The context ends the wait: price returns its error.
WaitCut ==
  /\ phase = "wait" /\ cancelled
  /\ Returns("none") /\ cut' = TRUE
  /\ UNCHANGED <<attempt, clock, cancelled, answers, waits, published>>

-----------------------------------------------------------------------------
(* The handler. *)

Cancel ==
  /\ ~cancelled /\ cancelled' = TRUE
  /\ UNCHANGED <<phase, attempt, clock, answers, waits, cut, code, published>>

\* Mutation: the context is not looked at after the lookup.
CheckNothing ==
  /\ phase = "returned"
  /\ phase' = "publish"
  /\ UNCHANGED <<attempt, clock, cancelled, answers, waits, cut, code, published>>

\* A cancelled lookup is left to be redelivered.
Check ==
  /\ phase = "returned"
  /\ phase' = IF cancelled THEN "done" ELSE "publish"
  /\ UNCHANGED <<attempt, clock, cancelled, answers, waits, cut, code, published>>

\* The publish may fail, above all when the context has ended meanwhile.
Publish ==
  /\ phase = "publish"
  /\ phase' = "done"
  /\ published' \in {"none", IF code = "price" THEN "resolved" ELSE "failed"}
  /\ UNCHANGED <<attempt, clock, cancelled, answers, waits, cut, code>>

Next == Final \/ Busy \/ Error \/ Again \/ WaitCut \/ Cancel \/ Check \/ Publish

Spec == Init /\ [][Next]_vars

-----------------------------------------------------------------------------
(* Properties. *)

\* A lookup takes at most its attempts' timeouts and a second between two,
\* whatever the upstream asks for: six seconds at five attempts of 400 ms,
\* less than AckWait's fifteen and the ten of the HTTP server.
LookupBounded == clock <= Attempts * Timeout + (Attempts - 1) * Second

\* Only an answer that may pass is asked for again: every attempt but the
\* last was busy or failed, and a final answer is the one returned.
OnlyTransientRepeated ==
  /\ Len(answers) <= Attempts
  /\ \A i \in 1..(Len(answers) - 1) : answers[i].kind \in {"busy", "error"}
  /\ code = "price" => answers # <<>> /\ answers[Len(answers)].kind = "price"

Fits(d) == -HalfRange <= d /\ d < HalfRange

\* "Retry-After": between two attempts pass at least the doubled backoff and
\* what the exchange asked for, both up to a second.  It cannot be claimed of
\* seconds that no longer fit a duration when they are multiplied.
WaitsAsAsked ==
  \A i \in DOMAIN waits :
    LET a == answers[i].asked
        d == IF a.unit = "seconds" THEN a.n * Second ELSE a.n
        b == Backoff * Power[i]
    IN  /\ Fits(d) => waits[i] >= Least(d, Second)
        /\ Fits(b) => waits[i] >= Least(b, Second)

\* A lookup that a shutdown cuts says nothing of the order: no price.failed
\* is published for the error of a cancelled request or wait.
CutSaysNothing == cut => published = "none"
=============================================================================
