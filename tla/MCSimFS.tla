------------------------------- MODULE MCSimFS -------------------------------
(* Finite instances of the file system for TLC. *)
EXTENDS SimFSClaims

CONSTANTS p1, p2, p3, F1, F2, B1, B2

NoPayloads == {}
Text   == {<<B1, B2>>}
Texts  == {<<B1>>, <<B1, B2>>}

(* One that compresses to nothing, and two of one and of two words. *)
Contents == {<<B1, B1, B1>>, <<B1, B2>>, <<B1, B2, B1>>}

Symmetric == Permutations(Pids) \cup Permutations(Names)
=============================================================================
