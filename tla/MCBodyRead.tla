----------------------------- MODULE MCBodyRead -----------------------------
(***************************************************************************)
(* A small instance of BodyRead for TLC: the limit is met exactly,         *)
(* exceeded by one, and what follows an overflow is under the limit, at    *)
(* it and over it again.                                                   *)
(***************************************************************************)
EXTENDS BodyRead
=============================================================================
