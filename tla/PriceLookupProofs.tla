------------------------- MODULE PriceLookupProofs -------------------------
(***************************************************************************)
(* Proofs about PriceLookup: the lookup is bounded, repeats only what may  *)
(* pass, says nothing when it is cut, and waits as it is asked wherever no *)
(* duration overflows, for all timeouts and headers.                       *)
(***************************************************************************)
EXTENDS PriceLookup, SequenceTheorems, TLAPS

Ended == {"returned", "publish", "done"}

\* One wait for every attempt but the current one, one answer for every
\* attempt that has ended.
Counted ==
  /\ Len(waits) = attempt - 1
  /\ Len(answers) \in {attempt - 1, attempt}
  /\ phase = "call" => Len(answers) = attempt - 1
  /\ phase = "wait" => Len(answers) = attempt /\ attempt < Attempts

Clocked == clock <= Len(answers) * Timeout + (attempt - 1) * Second

\* What has been answered so far may pass, until an answer ends the lookup.
Transient ==
  \A i \in 1..Len(answers) :
    i < Len(answers) \/ phase \notin Ended => answers[i].kind \in {"busy", "error"}

Priced == code = "price" => /\ phase \in Ended
                            /\ answers # <<>> /\ answers[Len(answers)].kind = "price"

Silent == /\ cut => cancelled /\ phase \in Ended
          /\ published # "none" => phase = "done"
          /\ phase = "publish" \/ published # "none" => ~cut

IInv == TypeOK /\ Counted /\ Clocked /\ Transient /\ Priced /\ Silent

-----------------------------------------------------------------------------
(* Arithmetic. *)

LEMMA Product == ASSUME NEW a \in Nat, NEW b \in Nat, NEW t \in Nat, a <= b
                 PROVE  a * t \in Nat /\ b * t \in Nat /\ a * t <= b * t
  <1>1. b * t = a * t + (b - a) * t
    BY SMT
  <1>2. (b - a) * t \in Nat
    BY SMT
  <1>. QED  BY <1>1, <1>2

LEMMA OneMore == ASSUME NEW a \in Nat, NEW t \in Nat
                 PROVE  (a + 1) * t = a * t + t
  BY SMT

LEMMA WrapType == ASSUME NEW d \in Int PROVE Wrap(d) \in Int
  BY TimeAssumption DEF Wrap

LEMMA DelayType == ASSUME NEW a \in Asked \cup {NoAsk} PROVE Delay(a) \in 0..Second
  <1>1. a.n \in Int /\ a.n * Second \in Int
    BY AskedAssumption, TimeAssumption DEF NoAsk
  <1>2. Wrap(a.n * Second) \in Int
    BY <1>1, WrapType
  <1>3. Second \in Nat
    BY TimeAssumption
  <1>. QED  BY <1>1, <1>2, <1>3 DEF Delay, Least, Greatest

LEMMA BackoffType == ASSUME NEW n \in 1..4
                     PROVE  /\ Backoff * Power[n] \in Int
                            /\ BackoffAfter(n) \in Int /\ BackoffAfter(n) <= Second
  <1>1. Power[n] \in Nat
    BY DEF Power
  <1>2. Backoff * Power[n] \in Int
    BY <1>1, TimeAssumption
  <1>3. Wrap(Backoff * Power[n]) \in Int
    BY <1>2, WrapType
  <1>4. Second \in Nat
    BY TimeAssumption
  <1>. QED  BY <1>2, <1>3, <1>4 DEF BackoffAfter, Least

LEMMA WaitType == ASSUME NEW n \in 1..4, NEW a \in Asked \cup {NoAsk}
                  PROVE  Wait(n, a) \in 0..Second
  <1>1. Second \in Nat
    BY TimeAssumption
  <1>. QED  BY <1>1, DelayType, BackoffType DEF Wait, Greatest

-----------------------------------------------------------------------------
(* The invariant. *)

\* An attempt that ends: either the lookup returns, or a transient answer is
\* followed by a wait.
Concludes(k, c) ==
  \/ Returns(c) /\ c \in Codes \cup {"price"} /\ (c = "price" => k = "price")
     /\ (cut' = cut \/ (cancelled /\ cut' = TRUE))
  \/ k \in {"busy", "error"} /\ attempt # Attempts /\ phase' = "wait" /\ UNCHANGED <<code, cut>>

LEMMA EndsKeeps ==
  ASSUME IInv, NEW k \in Kinds, NEW a \in Asked \cup {NoAsk}, NEW c,
         Ends(k, a), Concludes(k, c)
  PROVE  IInv'
<1> USE DEF IInv, TypeOK, Ends, Concludes, Returns, Ended
<1> DEFINE last == [kind |-> k, asked |-> a]
<1>1. last \in Answers /\ answers \in Seq(Answers) /\ answers' = Append(answers, last)
  BY DEF Answers
<1>2. /\ answers' \in Seq(Answers) /\ Len(answers') = Len(answers) + 1
      /\ \A i \in 1..Len(answers) : answers'[i] = answers[i]
      /\ answers'[Len(answers) + 1] = last
  BY <1>1, AppendProperties
<1>3. Len(answers) \in Nat /\ Len(answers) = attempt - 1 /\ Len(answers') = attempt
  BY <1>1, <1>2 DEF Counted
<1>4. PICK d \in 0..Timeout : clock' = clock + d
  OBVIOUS
<1>5. TypeOK'
  <2>1. clock + d \in Nat
    BY <1>4, TimeAssumption
  <2>2. /\ code' \in Codes \cup {"price", "none"} /\ cut' \in BOOLEAN
        /\ phase' \in {"wait", "returned"}
    OBVIOUS
  <2>. QED  BY <1>2, <1>4, <2>1, <2>2
<1>6. Counted'
  BY <1>3, AttemptsAssumption DEF Counted
<1>7. Clocked'
  <2>1. Len(answers') * Timeout = Len(answers) * Timeout + Timeout
    BY <1>2, <1>3, OneMore, TimeAssumption
  <2>2. Len(answers) * Timeout \in Nat /\ (attempt - 1) * Second \in Nat
    BY <1>3, TimeAssumption, AttemptsAssumption
  <2>. QED  BY <1>4, <2>1, <2>2, TimeAssumption DEF Clocked
<1>8. Transient'
  BY <1>2, <1>3 DEF Transient
<1>9. Priced'
  BY <1>2, <1>3 DEF Priced, Codes
<1>10. Silent'
  BY DEF Silent
<1>. QED  BY <1>5, <1>6, <1>7, <1>8, <1>9, <1>10

LEMMA AgainKeeps == ASSUME IInv, Again PROVE IInv'
<1> USE DEF IInv, TypeOK, Again, Ended
<1> DEFINE w == Wait(attempt, answers[attempt].asked)
<1>1. attempt \in 1..4 /\ attempt + 1 \in 1..Attempts /\ Len(answers) = attempt
  BY AttemptsAssumption DEF Counted
<1>2. answers[attempt].asked \in Asked \cup {NoAsk}
  <2>1. answers[attempt] \in Answers
    BY <1>1
  <2>. QED  BY <2>1 DEF Answers
<1>3. w \in 0..Second
  BY <1>1, <1>2, WaitType
<1>4. /\ waits' \in Seq(0..Second) /\ Len(waits') = Len(waits) + 1
      /\ \A i \in 1..Len(waits) : waits'[i] = waits[i]
      /\ waits'[Len(waits) + 1] = w
  BY <1>3, AppendProperties
<1>5. TypeOK'
  BY <1>1, <1>3, <1>4, TimeAssumption
<1>6. Counted'
  BY <1>1, <1>4 DEF Counted
<1>7. Clocked'
  <2>1. attempt * Second = (attempt - 1) * Second + Second
    BY <1>1, OneMore, TimeAssumption
  <2>2. Len(answers) * Timeout \in Nat /\ (attempt - 1) * Second \in Nat
    BY <1>1, TimeAssumption
  <2>. QED  BY <1>1, <1>3, <2>1, <2>2, TimeAssumption DEF Clocked
<1>8. Transient' /\ Priced' /\ Silent'
  BY DEF Transient, Priced, Silent
<1>. QED  BY <1>5, <1>6, <1>7, <1>8

\* IInv, the invariant the properties follow from, holds in every reachable
\* state.
THEOREM Invariance == Spec => []IInv
<1>1. Init => IInv
  <2> SUFFICES ASSUME Init PROVE IInv
    OBVIOUS
  <2>1. TypeOK
    <3>1. answers \in Seq(Answers) /\ waits \in Seq(0..Second)
      BY EmptySeq DEF Init
    <3>2. attempt \in 1..Attempts
      BY AttemptsAssumption DEF Init
    <3>3. /\ phase \in {"call", "wait", "returned", "publish", "done"}
          /\ code \in Codes \cup {"price", "none"}
      BY DEF Init, Codes
    <3>4. /\ clock \in Nat /\ cancelled \in BOOLEAN /\ cut \in BOOLEAN
          /\ published \in {"none", "resolved", "failed"}
      BY DEF Init
    <3>. QED  BY <3>1, <3>2, <3>3, <3>4 DEF TypeOK
  <2>2. Clocked
    <3>1. 0 * Timeout = 0 /\ 0 * Second = 0
      BY TimeAssumption
    <3>. QED  BY <3>1 DEF Init, Clocked
  <2>3. Counted /\ Transient /\ Priced /\ Silent
    BY DEF Init, Counted, Transient, Priced, Silent, Ended
  <2>. QED  BY <2>1, <2>2, <2>3 DEF IInv
<1>2. IInv /\ [Next]_vars => IInv'
  <2> SUFFICES ASSUME IInv, [Next]_vars PROVE IInv'
    OBVIOUS
  <2>1. CASE Final
    <3>1. PICK k \in {"price", "malformed", "status"} :
            /\ Ends(k, NoAsk)
            /\ Returns(CASE k = "price"     -> "price"
                         [] k = "malformed" -> "MALFORMED_RESPONSE"
                         [] k = "status"    -> "UPSTREAM_STATUS")
            /\ UNCHANGED cut
      BY <2>1 DEF Final
    <3>2. k \in Kinds /\ NoAsk \in Asked \cup {NoAsk}
      BY DEF Kinds
    <3>3. \E c : Concludes(k, c)
      BY <3>1 DEF Concludes, Returns, Codes
    <3>. QED  BY <3>1, <3>2, <3>3, EndsKeeps
  <2>2. CASE Busy
    <3>1. PICK a \in Asked \cup {NoAsk} : Ends("busy", a) /\ RetryOr("UPSTREAM_STATUS")
      BY <2>2 DEF Busy
    <3>2. Concludes("busy", "UPSTREAM_STATUS")
      BY <3>1 DEF RetryOr, Concludes, Returns, Codes
    <3>. QED  BY <3>1, <3>2, EndsKeeps DEF Kinds
  <2>3. CASE Error
    <3>1. PICK c \in {"UPSTREAM_UNAVAILABLE", "UPSTREAM_TIMEOUT"} :
            /\ Ends("error", NoAsk)
            /\ IF cancelled THEN Returns(c) /\ cut' = TRUE ELSE RetryOr(c)
      BY <2>3 DEF Error
    <3>2. Concludes("error", c)
      BY <3>1 DEF RetryOr, Concludes, Returns, Codes, IInv, TypeOK
    <3>. QED  BY <3>1, <3>2, EndsKeeps DEF Kinds
  <2>4. CASE Again
    BY <2>4, AgainKeeps
  <2> USE DEF IInv, TypeOK, Counted, Clocked, Transient, Priced, Silent, Ended
  <2>5. CASE WaitCut
    BY <2>5 DEF WaitCut, Returns
  <2>6. CASE Cancel
    BY <2>6 DEF Cancel
  <2>7. CASE Check
    BY <2>7 DEF Check
  <2>8. CASE Publish
    BY <2>8 DEF Publish
  <2>9. CASE UNCHANGED vars
    BY <2>9 DEF vars
  <2>. QED  BY <2>1, <2>2, <2>3, <2>4, <2>5, <2>6, <2>7, <2>8, <2>9 DEF Next
<1>. QED  BY <1>1, <1>2, PTL DEF Spec

\* Every variable keeps its type: no attempt more than configured, no wait
\* longer than a second.
THEOREM TypeCorrect == Spec => []TypeOK
<1>1. IInv => TypeOK
  BY DEF IInv
<1>. QED  BY Invariance, <1>1, PTL

\* A lookup takes no longer than its timeouts and a second between two.
THEOREM Bounded == Spec => []LookupBounded
<1>1. IInv => LookupBounded
  <2> SUFFICES ASSUME IInv PROVE LookupBounded
    OBVIOUS
  <2>1. /\ Len(answers) \in Nat /\ Len(answers) <= Attempts
        /\ attempt - 1 \in Nat /\ attempt - 1 <= Attempts - 1
        /\ Attempts \in Nat /\ Attempts - 1 \in Nat
    BY AttemptsAssumption DEF IInv, TypeOK, Counted
  <2>2. Len(answers) * Timeout <= Attempts * Timeout
    BY <2>1, Product, TimeAssumption
  <2>3. (attempt - 1) * Second <= (Attempts - 1) * Second
    BY <2>1, Product, TimeAssumption
  <2>4. /\ Len(answers) * Timeout \in Nat /\ (attempt - 1) * Second \in Nat
        /\ Attempts * Timeout \in Nat /\ (Attempts - 1) * Second \in Nat /\ clock \in Nat
    BY <2>1, TimeAssumption DEF IInv, TypeOK
  <2>. QED  BY <2>2, <2>3, <2>4 DEF IInv, Clocked, LookupBounded
<1>. QED  BY Invariance, <1>1, PTL

\* No final answer is asked for again, and a price returned was answered.
THEOREM TransientOnly == Spec => []OnlyTransientRepeated
<1>1. IInv => OnlyTransientRepeated
  BY AttemptsAssumption DEF IInv, TypeOK, Counted, Transient, Priced, OnlyTransientRepeated
<1>. QED  BY Invariance, <1>1, PTL

\* A lookup that a shutdown cuts publishes nothing.
THEOREM NothingSaid == Spec => []CutSaysNothing
<1>1. IInv => CutSaysNothing
  BY DEF IInv, Silent, CutSaysNothing
<1>. QED  BY Invariance, <1>1, PTL

-----------------------------------------------------------------------------
(* The waits. *)

LEMMA WrapFits == ASSUME NEW d \in Int, Fits(d) PROVE Wrap(d) = d
  <1>1. d + HalfRange \in 0..(2 * HalfRange - 1) /\ 2 * HalfRange \in Nat \ {0}
    BY TimeAssumption DEF Fits
  <1>2. \A x \in Nat, m \in Nat \ {0} : x < m => x % m = x
    BY SMT
  <1>3. (d + HalfRange) % (2 * HalfRange) = d + HalfRange
    BY <1>1, <1>2
  <1>. QED  BY <1>3, TimeAssumption DEF Wrap

\* Each wait was computed from the answer before it.
Waited == \A i \in 1..Len(waits) : waits[i] = Wait(i, answers[i].asked)

LEMMA WaitedStep == ASSUME IInv, Waited, [Next]_vars PROVE Waited'
<1> USE DEF IInv, TypeOK, Waited
<1>1. Len(waits) \in Nat /\ Len(answers) \in Nat /\ Len(waits) <= Len(answers)
  BY AttemptsAssumption DEF Counted
<1>2. ASSUME NEW k, NEW a, Ends(k, a) PROVE Waited'
  BY <1>1, <1>2, AppendProperties DEF Ends
<1>3. CASE Again
  <2>1. /\ attempt \in 1..4 /\ Len(answers) = attempt /\ Len(waits) = attempt - 1
        /\ answers[attempt] \in Answers
    BY <1>3, AttemptsAssumption DEF Again, Counted
  <2>2. Wait(attempt, answers[attempt].asked) \in 0..Second
    BY <2>1, WaitType DEF Answers
  <2>. QED  BY <1>3, <2>1, <2>2, AppendProperties DEF Again
<1>4. CASE WaitCut \/ Cancel \/ Check \/ Publish \/ UNCHANGED vars
  BY <1>4 DEF WaitCut, Cancel, Check, Publish, vars
<1>. QED  BY <1>2, <1>3, <1>4 DEF Next, Final, Busy, Error

\* Each wait is at least the backoff and at least what the exchange asked for,
\* both up to a second, unless their product overflows.
THEOREM AsAsked == Spec => []WaitsAsAsked
<1>1. Init => Waited
  BY DEF Init, Waited
<1>2. IInv /\ Waited => WaitsAsAsked
  <2> SUFFICES ASSUME IInv, Waited, NEW i \in DOMAIN waits
               PROVE  LET a == answers[i].asked
                          d == IF a.unit = "seconds" THEN a.n * Second ELSE a.n
                          b == Backoff * Power[i]
                      IN  /\ Fits(d) => waits[i] >= Least(d, Second)
                          /\ Fits(b) => waits[i] >= Least(b, Second)
    BY DEF WaitsAsAsked
  <2> DEFINE a == answers[i].asked
             d == IF a.unit = "seconds" THEN a.n * Second ELSE a.n
             b == Backoff * Power[i]
  <2>1. i \in 1..Len(waits) /\ i \in 1..4 /\ i \in 1..Len(answers)
    BY AttemptsAssumption DEF IInv, TypeOK, Counted
  <2>2. a \in Asked \cup {NoAsk}
    <3>1. answers[i] \in Answers
      BY <2>1 DEF IInv, TypeOK
    <3>. QED  BY <3>1 DEF Answers
  <2>3. Second \in Nat \ {0} /\ d \in Int /\ a.n \in Int /\ a.n * Second \in Int
    BY <2>2, AskedAssumption, TimeAssumption DEF NoAsk
  <2>4. Delay(a) \in 0..Second /\ b \in Int /\ BackoffAfter(i) \in Int
    BY <2>1, <2>2, DelayType, BackoffType
  <2>5. ASSUME Fits(d) PROVE Delay(a) = Least(Greatest(d, 0), Second)
    <3>1. a.unit = "seconds" => Wrap(a.n * Second) = a.n * Second
      BY <2>3, <2>5, WrapFits
    <3>. QED  BY <3>1 DEF Delay
  <2>6. ASSUME Fits(b) PROVE BackoffAfter(i) = Least(b, Second)
    BY <2>4, <2>6, WrapFits DEF BackoffAfter
  <2>7. waits[i] = Greatest(Greatest(BackoffAfter(i), Delay(a)), 0)
    BY <2>1 DEF Waited, Wait
  <2>. HIDE DEF a, d, b
  <2>8. Fits(d) => waits[i] >= Least(d, Second)
    BY <2>3, <2>4, <2>5, <2>7 DEF Least, Greatest
  <2>9. Fits(b) => waits[i] >= Least(b, Second)
    BY <2>3, <2>4, <2>6, <2>7 DEF Least, Greatest
  <2>. QED  BY <2>8, <2>9 DEF a, d, b
<1>. QED  BY Invariance, WaitedStep, <1>1, <1>2, PTL DEF Spec
=============================================================================
