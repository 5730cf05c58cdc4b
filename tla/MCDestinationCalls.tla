------------------------- MODULE MCDestinationCalls -------------------------
(* The two kinds of certificates are alike: one of them stands for both.      *)
EXTENDS DestinationCalls, TLC

CONSTANTS t1, t2, c1, s1, s2, p1, p2, p3

TwoThreads    == {t1, t2}
TwoKinds      == {"password", "certificate"}
OneCallback   == {c1}
TwoStrings    == {s1, s2}
ThreePointers == {p1, p2, p3}
Symmetry == UNION {Permutations(S) : S \in {TwoThreads, TwoStrings, ThreePointers}}
=============================================================================
