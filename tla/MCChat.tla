------------------------------- MODULE MCChat -------------------------------
(* Small instances of Chat: one user with two connections, one with one.   *)
EXTENDS Chat, TLC

CONSTANTS ann, bob, a1, b1

OwnerOf == [c \in Conns |-> IF c = b1 THEN bob ELSE ann]
BothAreMembers == [k \in Conversations |-> {ann, bob}]

Symmetry == Permutations(Conns \ {b1}) \cup Permutations(Conversations)
=============================================================================
