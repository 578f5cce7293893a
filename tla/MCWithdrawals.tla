---------------------------- MODULE MCWithdrawals ----------------------------
(***************************************************************************)
(* Instances of Withdrawals for TLC: the wallets of the asset, and the     *)
(* snapshots of their balances a connection can find.                      *)
(***************************************************************************)
EXTENDS Withdrawals, TLC

OneWallet  == {{[wallet |-> "main", amount |-> 1]}, {[wallet |-> "main", amount |-> 2]}}
\* The asset is not held, held in one wallet, or in two.
AnySnapshot == {{}, {[wallet |-> "main", amount |-> 2]},
                {[wallet |-> "main", amount |-> 1], [wallet |-> "vault", amount |-> 2]}}

Symmetry == Permutations(Handlers) \cup Permutations(Idems)
=============================================================================
