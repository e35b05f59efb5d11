------------------------------- MODULE Powers -------------------------------
(* Powers of two as a function on the naturals.                            *)
EXTENDS Integers

Pow2[k \in Nat] == IF k = 0 THEN 1 ELSE 2 * Pow2[k - 1]
=============================================================================
