----------------------------- MODULE MCNotesApp -----------------------------
(***************************************************************************)
(* Small instances of NotesApp for TLC.                                    *)
(***************************************************************************)
EXTENDS NotesApp, TLC

\* Requests are interchangeable.
Symmetry == Permutations(Requests)
=============================================================================
