----------------------------- MODULE MCDeposits -----------------------------
(* Small instances of Deposits.                                            *)
EXTENDS Deposits, TLC

Symmetry == Permutations(Orders) \cup Permutations(Transfers) \cup Permutations(Handlers)
=============================================================================
