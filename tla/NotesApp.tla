------------------------------ MODULE NotesApp ------------------------------
(***************************************************************************)
(* examples/notes_app.py on the resource lane: concurrent requests on one  *)
(* in-memory store.  The walk of a request suspends in one place only, at  *)
(* `await ctx.request.body()` in core._apply: what precedes it (the        *)
(* authentication, the loading of ctx.note, the policy, the preconditions) *)
(* is one step, what follows it (apply) another, and the other requests    *)
(* run in between.  GET and DELETE read no body and are one step; so is    *)
(* the command lane's token exchange, which touches the store only after   *)
(* its body is there.                                                      *)
(***************************************************************************)
EXTENDS Naturals, FiniteSets

CONSTANTS
  Requests,     \* requests the server receives; each writes a text of its own
  Users,        \* users with credentials in the store
  Admins,       \* those with the role "admin"
  Paths,        \* ids a client names of its own accord
  None,         \* Python's None, and an absent header
  Star          \* If-Match: *

ASSUME UsersAssumption == Admins \subseteq Users /\ None \notin Users
ASSUME MatchAssumption == None \notin Nat /\ Star \notin Nat
ASSUME IdsAssumption   == Paths \cap Requests = {} /\ None \notin Requests \cup Paths

\* A POST mints an id nobody can guess: request r mints the id r.  A Note
\* object and a text are named after the request that made them.
Ids   == Requests \cup Paths

VARIABLES
  notes,     \* Store.notes: id -> Note
  heap,      \* the Note objects, those no longer in the store included
  tokens,    \* users a token was issued to; none is ever revoked
  pc,        \* "new", "body" (suspended in body()), "done"
  kind,      \* the method, POST being the collection's
  user,      \* who sent it
  target,    \* the id in the path; for POST the id minted
  ifMatch,   \* If-Match: None, Star, or the version in the tag
  held,      \* ctx.note
  answer,    \* status sent, 0 before
  raced,     \* pairs of requests that were suspended at the same time
  shown      \* every <<note, id, version, text>> that was ever current

request == <<kind, user, target, ifMatch, held>>
vars == <<notes, heap, tokens, pc, request, answer, raced, shown>>

Versions == 1 .. Cardinality(Requests)
Matches  == {None, Star} \cup Versions
Note     == [owner : Users, text : Requests, version : Nat \ {0}]

TypeOK ==
  /\ notes \in [Ids -> Requests \cup {None}]
  /\ heap \in [Requests -> Note \cup {None}]
  /\ tokens \subseteq Users
  /\ pc \in [Requests -> {"new", "body", "done"}]
  /\ kind \in [Requests -> {"none", "GET", "PUT", "DELETE", "POST"}]
  /\ user \in [Requests -> Users \cup {None}]
  /\ target \in [Requests -> Ids \cup {None}]
  /\ ifMatch \in [Requests -> Matches]
  /\ held \in [Requests -> Requests \cup {None}]
  /\ answer \in [Requests -> {0, 200, 201, 204, 400, 401, 403, 404, 412}]
  /\ raced \subseteq SUBSET Requests
  /\ shown \subseteq Requests \X Ids \X (Nat \ {0}) \X Requests

Nobody == [r \in Requests |-> None]

Init ==
  /\ notes = [i \in Ids |-> None]
  /\ heap = Nobody
  /\ tokens = {}
  /\ pc = [r \in Requests |-> "new"]
  /\ kind = [r \in Requests |-> "none"]
  /\ user = Nobody /\ target = Nobody /\ ifMatch = Nobody /\ held = Nobody
  /\ answer = [r \in Requests |-> 0]
  /\ raced = {}
  /\ shown = {}

\* An id a client can name: its own choice, or one a 201 has announced.
Known == Paths \cup {r \in Requests : kind[r] = "POST" /\ answer[r] = 201}

Current(ns, hp) == {<<ns[i], i, hp[ns[i]].version, hp[ns[i]].text>> :
                      i \in {j \in Ids : ns[j] # None}}

(***************************************************************************)
(* The policy.                                                             *)
(***************************************************************************)
\* RuleEngine.evaluate: the first rule that does not abstain decides, and the
\* default where all do.
Evaluate(effects, default) ==
  LET fired == {k \in DOMAIN effects : effects[k] # "abstain"}
  IN IF fired = {} THEN default
     ELSE effects[CHOOSE k \in fired : \A j \in fired : k <= j]

RuleAdmin(u) == IF u \in Admins THEN "allow" ELSE "abstain"
RuleOwner(u, n) == IF n # None /\ heap[n].owner = u THEN "allow" ELSE "abstain"

MutAllowed(u, n) == n = None \/ Evaluate(<<RuleAdmin(u), RuleOwner(u, n)>>, "deny") = "allow"
Allowed(u, n) == Evaluate(<<RuleAdmin(u), RuleOwner(u, n)>>, "deny") = "allow"

\* if_match_matches on the tag "<id>-<version>"; the id is the target's own.
MutIfMatchHolds(m, n) == TRUE
IfMatchHolds(m, n) == m \in {None, Star} \/ m = heap[n].version

(***************************************************************************)
(* The steps of a request.                                                 *)
(***************************************************************************)
\* TokenCommand: the right password buys a token; anything else changes nothing.
IssueToken(u) ==
  /\ u \notin tokens
  /\ tokens' = tokens \cup {u}
  /\ UNCHANGED <<notes, heap, pc, request, answer, raced, shown>>

\* authenticate finds no user for the token: B8, whatever was asked for.
Unauthorized(r) ==
  /\ pc[r] = "new"
  /\ pc' = [pc EXCEPT ![r] = "done"]
  /\ answer' = [answer EXCEPT ![r] = 401]
  /\ UNCHANGED <<notes, heap, tokens, request, raced, shown>>

\* The request, of a user whose token the store knows, and what its gates
\* loaded for it.
Enters(r, method, u, id, match, note) ==
  /\ pc[r] = "new"
  /\ u \in tokens
  /\ kind' = [kind EXCEPT ![r] = method]
  /\ user' = [user EXCEPT ![r] = u]
  /\ target' = [target EXCEPT ![r] = id]
  /\ ifMatch' = [ifMatch EXCEPT ![r] = match]
  /\ held' = [held EXCEPT ![r] = note]
  /\ UNCHANGED tokens

Answers(r, status) ==
  /\ pc' = [pc EXCEPT ![r] = "done"]
  /\ answer' = [answer EXCEPT ![r] = status]

\* The walk reaches core._apply and waits for the body.
Suspends(r) ==
  /\ pc' = [pc EXCEPT ![r] = "body"]
  /\ raced' = raced \cup {{r, s} : s \in {t \in Requests : pc[t] = "body"}}
  /\ UNCHANGED answer

Store(ns, hp) ==
  /\ notes' = ns
  /\ heap' = hp
  /\ shown' = shown \cup Current(ns, hp)

\* is_authorized loads the note, forbidden asks the policy, resource_exists
\* and the preconditions look at what was loaded.  If-None-Match, and If-Match on
\* a GET or a POST, are not sent: all they can do is turn a step into a 304 or a
\* 412 that leaves the store as it is.
Refusal(u, match, note) ==
  IF ~Allowed(u, note) THEN 403
  ELSE IF note = None THEN (IF match # None THEN 412 ELSE 0)
  ELSE IF ~IfMatchHolds(match, note) THEN 412
  ELSE 0

Get(r) ==
  \E u \in Users, id \in Known :
    /\ Enters(r, "GET", u, id, None, notes[id])
    /\ LET refusal == Refusal(u, None, notes[id])
       IN Answers(r, IF refusal # 0 THEN refusal
                     ELSE IF notes[id] = None THEN 404 ELSE 200)
    /\ UNCHANGED <<notes, heap, raced, shown>>

Delete(r) ==
  \E u \in Users, id \in Known, match \in Matches :
    /\ Enters(r, "DELETE", u, id, match, notes[id])
    /\ LET refusal == Refusal(u, match, notes[id]) IN
       \/ /\ refusal # 0 \/ notes[id] = None
          /\ Answers(r, IF refusal # 0 THEN refusal ELSE 404)
          /\ UNCHANGED <<notes, heap, shown>>
       \/ /\ refusal = 0 /\ notes[id] # None
          /\ Answers(r, 204)
          /\ Store([notes EXCEPT ![id] = None], heap)
    /\ UNCHANGED raced

Put(r) ==
  \E u \in Users, id \in Known, match \in Matches :
    /\ Enters(r, "PUT", u, id, match, notes[id])
    /\ LET refusal == Refusal(u, match, notes[id]) IN
       \/ refusal # 0 /\ Answers(r, refusal) /\ UNCHANGED raced
       \/ refusal = 0 /\ Suspends(r)
    /\ UNCHANGED <<notes, heap, shown>>

\* The collection always exists and any user may create; create_path mints.
Post(r) ==
  \E u \in Users :
    /\ Enters(r, "POST", u, r, None, None)
    /\ Suspends(r)
    /\ UNCHANGED <<notes, heap, shown>>

\* A new Note is at version 1; an update moves the version of the one there is.
MutCreated(r) == [owner |-> user[r], text |-> r, version |-> 0]
Created(r) == [owner |-> user[r], text |-> r, version |-> 1]

MutUpdated(n, r) == [n EXCEPT !.text = r]
Updated(n, r) == [n EXCEPT !.text = r, !.version = @ + 1]

MutApply(r) ==
  /\ pc[r] = "body"
  /\ \/ /\ held[r] = None
        /\ Store([notes EXCEPT ![target[r]] = r],
                 [heap EXCEPT ![r] = Created(r)])
        /\ Answers(r, 201)
     \/ /\ held[r] # None
        /\ Store([notes EXCEPT ![target[r]] = held[r]],
                 [heap EXCEPT ![held[r]] = Updated(@, r)])
        /\ Answers(r, 204)
  /\ UNCHANGED <<tokens, request, raced>>

MutApplyReplaces(r) ==
  /\ pc[r] = "body"
  /\ Store([notes EXCEPT ![target[r]] = r], [heap EXCEPT ![r] = Created(r)])
  /\ Answers(r, IF held[r] = None THEN 201 ELSE 204)
  /\ UNCHANGED <<tokens, request, raced>>

\* The body arrives and parses: apply.  A note that was there at the gates is
\* changed in place, wherever it is by now; otherwise one is put under the
\* id, whatever is there by now.
Apply(r) ==
  /\ pc[r] = "body"
  /\ \/ /\ held[r] = None
        /\ Store([notes EXCEPT ![target[r]] = r],
                 [heap EXCEPT ![r] = Created(r)])
        /\ Answers(r, 201)
     \/ /\ held[r] # None
        /\ Store(notes, [heap EXCEPT ![held[r]] = Updated(@, r)])
        /\ Answers(r, 204)
  /\ UNCHANGED <<tokens, request, raced>>

\* The body is malformed (or too large, or the client goes away: all end the
\* request before apply, and 400 stands for what is then answered).
BodyFails(r) ==
  /\ pc[r] = "body"
  /\ Answers(r, 400)
  /\ UNCHANGED <<notes, heap, tokens, request, raced, shown>>

Next ==
  \/ \E u \in Users : IssueToken(u)
  \/ \E r \in Requests : Unauthorized(r) \/ Get(r) \/ Delete(r) \/ Put(r) \/ Post(r)
                            \/ Apply(r) \/ BodyFails(r)
  \/ (\A r \in Requests : pc[r] = "done") /\ UNCHANGED vars

Spec == Init /\ [][Next]_vars

(***************************************************************************)
(* Properties.                                                             *)
(***************************************************************************)
Succeeded(r) == answer[r] \in {200, 201, 204}

\* Notes are private: on a member only an admin or the note's owner succeeds,
\* though the owner was checked before the body was awaited.
OnlyOwnersSucceed ==
  \A r \in Requests :
    kind[r] # "POST" /\ Succeeded(r) =>
      user[r] \in Admins \/ (held[r] # None /\ heap[held[r]].owner = user[r])

Posted(r)  == kind[r] = "POST" /\ answer[r] = 201
Deleted(r) == \E s \in Requests : /\ kind[s] = "DELETE" /\ answer[s] = 204
                                  /\ target[s] = r /\ held[s] = r

\* A note that was posted stays where its Location says: once its id is empty,
\* or names another note, a DELETE of the posted note itself has succeeded.  A
\* PUT that found the id empty and awaits its body fills it after that DELETE
\* and displaces no posted note, whatever was decided before the body came.
PostedNotesSurvive ==
  \A r \in Requests : Posted(r) /\ notes[r] # r => Deleted(r)

\* Two updates acknowledged against the same version of the same note were
\* in the server at the same time: without overlap the guard does guard.
SerialUpdatesGuarded ==
  \A r, s \in Requests :
    /\ r # s /\ answer[r] = 204 /\ answer[s] = 204
    /\ kind[r] = "PUT" /\ kind[s] = "PUT"
    /\ held[r] = held[s]
    /\ ifMatch[r] \in Versions /\ ifMatch[s] = ifMatch[r]
    => {r, s} \in raced

\* During the life of one note a tag stands for one text.
TagsStableWithinLife ==
  \A a, b \in shown : a[1] = b[1] /\ a[3] = b[3] => a[4] = b[4]

(***************************************************************************)
(* The store as its clients see it: the objects behind the ids.            *)
(***************************************************************************)
Vacant == [note |-> None, owner |-> None, by |-> None, text |-> None, version |-> 0]
Visible(i) ==
  LET n == notes[i]
  IN  IF n = None THEN Vacant
      ELSE [note |-> n, owner |-> heap[n].owner, by |-> user[heap[n].text],
            text |-> heap[n].text, version |-> heap[n].version]

view == [i \in Ids |-> Visible(i)]

Client == INSTANCE NoteStore WITH
  Notes <- Requests,
  store <- view,
  used  <- {r \in Requests : answer[r] = 201}

\* Whatever waits for its body meanwhile, the store changes by atomic fills,
\* revisions and removals, each by a user who may: a version is never skipped
\* or taken back, the text under an id is an admin's or its owner's, an id that
\* is not the note's own is filled by admins alone, and no late apply brings
\* back a note that was deleted or displaced.
ImplementsStore == Client!SSpec
=============================================================================
