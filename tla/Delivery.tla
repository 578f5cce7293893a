------------------------------ MODULE Delivery ------------------------------
(***************************************************************************)
(* What a durable consumer with one message outstanding promises, without  *)
(* fetches, acknowledgements, processes or crashes: valid messages take    *)
(* effect in the order of the stream, an invalid one only costs its turn,  *)
(* and none is passed over unless the stream has dropped it.               *)
(***************************************************************************)
EXTENDS Naturals

CONSTANTS N,      \* messages, numbered in the order of the stream
          Valid   \* those that decode to an event of this version

VARIABLE fate     \* per message

Messages == 1..N

Init == fate = [m \in Messages |-> "absent"]

Becomes(m, f) == fate' = [fate EXCEPT ![m] = f]

\* Every message before m is through.
ItsTurn(m) == \A k \in Messages : k < m => fate[k] \notin {"absent", "due"}

Arrive(m) == /\ fate[m] = "absent"
             /\ \A k \in Messages : k < m => fate[k] # "absent"
             /\ Becomes(m, "due")

Conclude(m) == m \in Valid /\ fate[m] = "due" /\ ItsTurn(m) /\ Becomes(m, "done")

Terminate(m) == m \notin Valid /\ fate[m] = "due" /\ ItsTurn(m) /\ Becomes(m, "terminated")

\* The stream drops a message too old; its effect may still come, out of turn.
Expire(m)   == m \in Valid /\ fate[m] = "due" /\ ItsTurn(m) /\ Becomes(m, "expired")
ComeLate(m) == fate[m] = "expired" /\ Becomes(m, "done")

Next == \E m \in Messages : \/ Arrive(m) \/ Conclude(m) \/ Terminate(m)
                            \/ Expire(m) \/ ComeLate(m)

Spec == Init /\ [][Next]_fate
=============================================================================
