---------------------------- MODULE MCEnrollment ----------------------------
(* Instances of Enrollment for TLC.                                         *)
EXTENDS Enrollment, TLC

\* Devices installed with the same key, as a copied disk image is.
SameKey == [d \in Devices |-> CHOOSE k \in Keys : TRUE]
=============================================================================
