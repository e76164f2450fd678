------------------------------ MODULE MCAsn1Model -----------------------------
(* Small sessions for TLC: one project or two, one file or two.                *)
EXTENDS Asn1Model, TLC
Symm == Permutations(Projects) \cup Permutations(Files) \cup Permutations(Handlers)
===============================================================================
