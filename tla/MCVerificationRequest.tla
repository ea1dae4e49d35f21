------------------------ MODULE MCVerificationRequest ------------------------
(***************************************************************************)
(* VerificationRequest for TLC: the sessions are interchangeable.          *)
(***************************************************************************)
EXTENDS VerificationRequest, TLC

Symmetry == Permutations(Sessions)
=============================================================================
