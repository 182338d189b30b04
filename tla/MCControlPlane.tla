--------------------------- MODULE MCControlPlane ---------------------------
(***************************************************************************)
(* TLC instances of ControlPlane.                                          *)
(***************************************************************************)
EXTENDS ControlPlane

CONSTANTS n1, r1, r2, rx

\* Two valid revisions of one name, listed newest first.
TwoRevs   == {r1, r2}
OneName   == {n1}
TwoNameOf == [r \in TwoRevs |-> n1]
TwoRank   == [r \in TwoRevs |-> IF r = r2 THEN 1 ELSE 2]
TwoPrec   == [r \in TwoRevs |-> IF r = r2 THEN 2 ELSE 1]

\* ... and a revision whose version is not a semantic version.
ThreeRevs   == {r1, r2, rx}
ThreeNameOf == [r \in ThreeRevs |-> n1]
ThreeRank   == [r \in ThreeRevs |-> CASE r = rx -> 1 [] r = r2 -> 2 [] r = r1 -> 3]
ThreePrec   == [r \in ThreeRevs |-> IF r = r2 THEN 2 ELSE 1]
=============================================================================
