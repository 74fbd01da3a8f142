------------------------- MODULE MCRequestLifecycle -------------------------
(***************************************************************************)
(* Small instances of RequestLifecycle for TLC.                            *)
(***************************************************************************)
EXTENDS RequestLifecycle, TLC

\* Requests are interchangeable in every safety property.
Symmetry == Permutations(Requests)
=============================================================================
