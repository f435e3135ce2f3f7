--------------------------- MODULE MCLiveTakeover ---------------------------
(* The second provider has a file of its own beside the shared one, and    *)
(* requests are interchangeable.                                           *)
EXTENDS LiveTakeover, TLC
CONSTANTS f1, f2, p1, p2
MCTargets == [p \in {p1, p2} |-> IF p = p1 THEN {f1} ELSE {f1, f2}]
MCSymmetry == Permutations(Requests)
=============================================================================
