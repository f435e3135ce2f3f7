------------------------ MODULE MCObservationWriter -------------------------
(* The normal events form one group.  Events of a kind are interchangeable *)
(* and no run of this module checks liveness.                              *)
EXTENDS ObservationWriter
CONSTANTS g
MCGroup == [e \in Events \ Critical |-> g]
T == INSTANCE TLC
MCSymmetry == T!Permutations(Critical) \cup T!Permutations(Events \ Critical)
=============================================================================
