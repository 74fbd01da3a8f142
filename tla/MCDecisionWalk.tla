--------------------------- MODULE MCDecisionWalk ---------------------------
(***************************************************************************)
(* The walk with every known method and one unknown method.                *)
(***************************************************************************)
EXTENDS DecisionWalk

AllMethods == KNOWN_METHODS \cup {"BREW"}
=============================================================================
