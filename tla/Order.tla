-------------------------------- MODULE Order --------------------------------
(* Orderings of numbered bytes, shared by the specifications and the proofs. *)
EXTENDS Naturals, Sequences

\* Every element of A is smaller than every element of B.
Below(A, B) == \A a \in A, b \in B : a < b

\* The elements of s grow.
Increasing(s) == \A i, j \in DOMAIN s : i < j => s[i] < s[j]
===============================================================================
