--------------------------- MODULE MCWithdrawals ----------------------------
(* Small instances of Withdrawals: no open tasks.                          *)
EXTENDS Withdrawals, TLC

NoOpenTasks == [u \in Users |-> 0]

Symmetry == Permutations(Users) \cup Permutations(Handlers)
=============================================================================
