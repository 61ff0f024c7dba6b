-------------------------------- MODULE Lists --------------------------------
(***************************************************************************)
(* A loop over a list, and the orders in which an unordered container may   *)
(* yield its elements.  Small on purpose: the modules about frame delivery  *)
(* build on it, and their proofs carry along all that it extends.           *)
(***************************************************************************)
EXTENDS Integers, Sequences, FiniteSets, Functions

\* What op makes of base with the elements of q, one after the other.
Fold(op(_, _), base, q) ==
    LET after[n \in 0 .. Len(q)] ==
            IF n = 0 THEN base ELSE op(after[n - 1], q[n])
    IN after[Len(q)]

\* The sequences that hold each element of S once.
Orders(S) == Injection(1 .. Cardinality(S), S)
=============================================================================
