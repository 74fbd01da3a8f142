--------------------------- MODULE MCRevalidation ---------------------------
(***************************************************************************)
(* The instance of Revalidation TLC checks.                                *)
(***************************************************************************)
EXTENDS Revalidation

CONSTANTS c1, c2
=============================================================================
