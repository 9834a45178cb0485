------------------------------ MODULE MCEscrow ------------------------------
(* Small instances of Escrow: a platform fee of half the price, rounded    *)
(* down, so that one price of two pays a fee.                              *)
EXTENDS Escrow, TLC

HalfFee == [p \in Prices |-> p \div 2]
NoFee == [p \in Prices |-> 0]

Symmetry == Permutations(Users \ Depositors) \cup Permutations(Tasks) \cup Permutations(Handlers)
=============================================================================
