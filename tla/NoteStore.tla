------------------------------ MODULE NoteStore ------------------------------
(***************************************************************************)
(* What the notes application promises whoever reads its store, with no    *)
(* mention of requests that wait for their bodies: every change is one of  *)
(* three atomic ones.  A new note is put under an id, by an admin or under *)
(* the id minted for it; the note under an id gets its next version, from  *)
(* an admin or its owner; an id is freed.  A note that left the store, or  *)
(* was displaced, never returns, whatever is still done to it.             *)
(*                                                                         *)
(* NotesApp implements this specification.                                 *)
(***************************************************************************)
EXTENDS Naturals

CONSTANTS Ids, Notes, Users, Admins,
  Vacant     \* what is under an id that names no note

VARIABLES
  store,     \* id -> what a client finds there
  used       \* notes that were ever in the store

svars == <<store, used>>

\* A note is named after the text it was made with; a later text displaces it.
Texts == Notes
Entry == [note : Notes, owner : Users, by : Users, text : Texts, version : Nat \ {0}]

StoreTypeOK ==
  /\ store \in [Ids -> Entry \cup {Vacant}]
  /\ used \subseteq Notes

SInit ==
  /\ store = [i \in Ids |-> Vacant]
  /\ used = {}

\* A new note n of user u under the id i, at its first version.
Fill(i, n, u) ==
  /\ used' = used \cup {n}
  /\ u \in Admins \/ (i = n /\ store[i] = Vacant)
  /\ store' = [store EXCEPT ![i] =
                 [note |-> n, owner |-> u, by |-> u, text |-> n, version |-> 1]]

\* The next version of the note under the id i, by user u.
Revise(i, u, t) ==
  /\ store' = [store EXCEPT ![i].by = u, ![i].text = t, ![i].version = @ + 1]
  /\ UNCHANGED used

Remove(i) ==
  /\ store' = [store EXCEPT ![i] = Vacant]
  /\ UNCHANGED used

SNext ==
  \/ \E i \in Ids, n \in Notes \ used, u \in Users : Fill(i, n, u)
  \/ \E i \in {i \in Ids : store[i] # Vacant} :
       \/ \E u \in Admins \cup {store[i].owner}, t \in Texts : Revise(i, u, t)
       \/ Remove(i)

SSpec == SInit /\ [][SNext]_svars
=============================================================================
