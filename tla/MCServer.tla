------------------------------- MODULE MCServer -------------------------------
EXTENDS ServerScene, TLC

CONSTANTS p1, p2, k1, i1, a, b, c

(* The two resources have the same content.                                *)
OneObject(r) == 1

Symmetric == Permutations({p1, p2})
=============================================================================
