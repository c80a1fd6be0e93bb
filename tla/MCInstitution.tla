---------------------------- MODULE MCInstitution -----------------------------
EXTENDS InstitutionScene

CONSTANTS w1, w2, r1, r2, s1, s2, s3, d1, d2

(* Two sources of one content, the second of a job no device can do.       *)
SameContents == <<"a", "a">>
AbleOne == [w \in {w1, w2} |-> {1}]

(* Two analyses of one result, and a result the document did not have.     *)
MCEvidence == [s \in {s1, s2, s3} |-> IF s = s3 THEN "new" ELSE "old"]

(* Two handlers share a process, the third has the other one.              *)
MCHome(h) == IF h = "h3" THEN r2 ELSE r1
=============================================================================
