--------------------------- MODULE NotesApp_proofs ---------------------------
(***************************************************************************)
(* NotesApp, proved for any requests, users, admins and paths: who may     *)
(* change a note and who comes to own an id, that posted notes survive,    *)
(* that the If-Match guard holds between updates which did not overlap,    *)
(* that a tag stands for one text while its note lives, and that NoteStore *)
(* is implemented.  Of RuleEngine.evaluate: any rules, the first decides.  *)
(***************************************************************************)
EXTENDS NotesApp, WellFoundedInduction, TLAPS

(***************************************************************************)
(* The inductive invariant.                                                *)
(***************************************************************************)
\* The request made the Note object named after it.
Made(n) == answer[n] = 201

\* The policy allowed the request, on the note it holds.
Permitted(r) == \/ user[r] \in Admins
                \/ held[r] # None /\ heap[held[r]].owner = user[r]

PhaseInv(r) ==
  /\ pc[r] # "done" <=> answer[r] = 0
  /\ pc[r] = "new" => kind[r] = "none" /\ held[r] = None
  /\ pc[r] = "body" => /\ kind[r] \in {"PUT", "POST"}
                       /\ target[r] \in Ids
                       /\ user[r] \in Users
  /\ pc[r] = "body" /\ kind[r] = "POST" => target[r] = r /\ held[r] = None
  /\ pc[r] = "body" /\ kind[r] = "PUT" => target[r] \in Known
  /\ held[r] # None => Made(held[r])

\* What a request made is its own, and what made it was allowed to.
MadeInv(r) ==
  /\ Made(r) => /\ heap[r] \in Note
                /\ heap[r].owner = user[r]
                /\ kind[r] = "PUT" => user[r] \in Admins
  /\ pc[r] = "body" \/ Succeeded(r) => kind[r] = "POST" \/ Permitted(r)

\* A name in the store is a known id, of a note that was made.
NamesInv == \A i \in Ids : notes[i] # None => Made(notes[i]) /\ i \in Known

\* Past its precondition a guarded update never sees the version it named
\* again once it has been applied.
VersionInv(r) ==
  kind[r] = "PUT" /\ ifMatch[r] \in Versions =>
    /\ pc[r] = "body" => held[r] # None /\ ifMatch[r] <= heap[held[r]].version
    /\ answer[r] = 204 => held[r] # None /\ ifMatch[r] < heap[held[r]].version

\* A PUT that found the id of a posted note empty came after the DELETE of it.
LateFillInv ==
  \A r, s \in Requests :
    /\ Posted(r)
    /\ pc[s] = "body" /\ kind[s] = "PUT" /\ held[s] = None /\ target[s] = r
    => Deleted(r)

\* An update that passed the gates.
Underway(r) == kind[r] = "PUT" /\ (pc[r] = "body" \/ answer[r] = 204)

RaceInv ==
  \A r, s \in Requests :
    /\ r # s /\ Underway(r) /\ Underway(s)
    /\ held[r] = held[s]
    /\ ifMatch[r] \in Versions /\ ifMatch[s] = ifMatch[r]
    => {r, s} \in raced

\* What was shown of a note is at most its version, and at its version its text.
ShownInv ==
  \A a \in shown :
    /\ Made(a[1])
    /\ a[3] <= heap[a[1]].version
    /\ a[3] = heap[a[1]].version => a[4] = heap[a[1]].text

IInv ==
  /\ TypeOK
  /\ \A r \in Requests : PhaseInv(r) /\ MadeInv(r) /\ VersionInv(r)
  /\ NamesInv
  /\ PostedNotesSurvive
  /\ LateFillInv
  /\ RaceInv
  /\ ShownInv
  /\ TagsStableWithinLife

-----------------------------------------------------------------------------
\* A set of numbers that is not empty has a least one.
LEMMA LeastOf ==
  ASSUME NEW T \in SUBSET Nat, T # {}
  PROVE  \E k \in T : \A j \in T : k <= j
<1> DEFINE R == {p \in Nat \X Nat : p[1] < p[2]}
<1>1. IsWellFoundedOn(R, Nat)
  BY NatLessThanWellFounded DEF OpToRel
<1>2. \E x \in T : \A y \in T : ~ (<<y, x>> \in R)
  <2> HIDE DEF R
  <2> QED BY <1>1, WFMin, Zenon
<1>3. \A x, y \in Nat : ~ (<<y, x>> \in R) => x <= y
  <2> TAKE x, y \in Nat
  <2>1. <<y, x>> \in Nat \X Nat /\ <<y, x>>[1] = y /\ <<y, x>>[2] = x
    OBVIOUS
  <2> QED BY <2>1
<1> HIDE DEF R
<1> QED BY <1>2, <1>3

\* RuleEngine.evaluate over any sequence of effects, of any rules: the first
\* that does not abstain decides, and the default where all abstain.
THEOREM FirstRuleDecides ==
  ASSUME NEW effects, DOMAIN effects \subseteq Nat, NEW default
  PROVE  \/ /\ \A k \in DOMAIN effects : effects[k] = "abstain"
            /\ Evaluate(effects, default) = default
         \/ \E k \in DOMAIN effects :
              /\ effects[k] # "abstain"
              /\ \A j \in DOMAIN effects : j < k => effects[j] = "abstain"
              /\ Evaluate(effects, default) = effects[k]
<1> DEFINE fired == {k \in DOMAIN effects : effects[k] # "abstain"}
           first == CHOOSE k \in fired : \A j \in fired : k <= j
<1>1. CASE fired = {}
  BY <1>1 DEF Evaluate
<1>2. CASE fired # {}
  <2>1. \E k \in fired : \A j \in fired : k <= j
    BY <1>2, LeastOf
  <2>2. first \in fired /\ \A j \in fired : first <= j
    BY <2>1
  <2>3. Evaluate(effects, default) = effects[first]
    BY <1>2 DEF Evaluate
  <2>4. ASSUME NEW j \in DOMAIN effects, j < first PROVE effects[j] = "abstain"
    BY <2>2, <2>4
  <2> QED BY <2>2, <2>3, <2>4
<1> QED BY <1>1, <1>2

\* RuleEngine.evaluate over the two rules: an admin, or the owner.
LEMMA AllowedIs ==
  ASSUME NEW u, NEW n
  PROVE  Allowed(u, n) <=> u \in Admins \/ (n # None /\ heap[n].owner = u)
<1> DEFINE e == <<RuleAdmin(u), RuleOwner(u, n)>>
           fired == {k \in DOMAIN e : e[k] # "abstain"}
           first == CHOOSE k \in fired : \A j \in fired : k <= j
<1>1. DOMAIN e = {1, 2} /\ e[1] = RuleAdmin(u) /\ e[2] = RuleOwner(u, n)
  OBVIOUS
<1>2. \A k \in fired : e[k] = "allow"
  BY <1>1 DEF RuleAdmin, RuleOwner
<1>3. fired # {} => first \in fired
  <2>1. ASSUME fired # {} PROVE \E k \in fired : \A j \in fired : k <= j
    <3>1. CASE 1 \in fired
      BY <1>1, <3>1
    <3>2. CASE 1 \notin fired
      BY <1>1, <2>1, <3>2
    <3> QED BY <3>1, <3>2
  <2> QED BY <2>1
<1>4. Allowed(u, n) <=> fired # {}
  BY <1>2, <1>3 DEF Allowed, Evaluate
<1>5. fired # {} <=> (e[1] # "abstain" \/ e[2] # "abstain")
  BY <1>1
<1> QED BY <1>1, <1>4, <1>5 DEF RuleAdmin, RuleOwner

USE UsersAssumption, IdsAssumption, MatchAssumption
DEF TypeOK, PhaseInv, MadeInv, NamesInv, VersionInv, RaceInv, ShownInv, Made, Permitted,
    Succeeded, Known, Ids, Underway, request

\* An empty store satisfies the invariant.
LEMMA InitIInv == Init => IInv
  BY DEF Init, IInv, Nobody, PostedNotesSurvive, LateFillInv, Posted, Deleted, TagsStableWithinLife, Matches

\* A request that ends without touching the store: refused, not found, read, or
\* failed in its body.
Ends(r, k, u, i, m, n, st) ==
  /\ k \in {"none", "GET", "PUT", "DELETE", "POST"} /\ u \in Users \cup {None}
  /\ i \in Ids \cup {None} /\ m \in Matches /\ n \in Requests \cup {None}
  /\ st \in {200, 400, 401, 403, 404, 412}
  /\ pc[r] # "done"
  /\ kind' = [kind EXCEPT ![r] = k]
  /\ user' = [user EXCEPT ![r] = u]
  /\ target' = [target EXCEPT ![r] = i]
  /\ ifMatch' = [ifMatch EXCEPT ![r] = m]
  /\ held' = [held EXCEPT ![r] = n]
  /\ n # None => answer[n] = 201
  /\ st = 200 => u \in Admins \/ (n # None /\ heap[n].owner = u)
  /\ pc' = [pc EXCEPT ![r] = "done"]
  /\ answer' = [answer EXCEPT ![r] = st]
  /\ UNCHANGED <<notes, heap, tokens, raced, shown>>

\* Such an end keeps the invariant: it makes nothing, frees nothing, races nobody.
LEMMA EndsIInv ==
  ASSUME IInv, NEW r \in Requests, NEW k, NEW u, NEW i, NEW m, NEW n, NEW st,
         Ends(r, k, u, i, m, n, st)
  PROVE  IInv'
<1> USE DEF IInv, Ends
<1>1. TypeOK'
  OBVIOUS
<1>2. \A p \in Requests : Made(p)' <=> Made(p)
  OBVIOUS
<1>3. Known' = Known
  BY <1>2
<1>4. ASSUME NEW p \in Requests PROVE PhaseInv(p)'
  BY <1>2, <1>3
<1>5. ASSUME NEW p \in Requests PROVE MadeInv(p)'
  BY <1>2
<1>6. ASSUME NEW p \in Requests PROVE VersionInv(p)'
  OBVIOUS
<1>7. NamesInv'
  BY <1>2, <1>3
<1>8. PostedNotesSurvive' /\ LateFillInv'
  BY DEF PostedNotesSurvive, LateFillInv, Posted, Deleted
<1>9. RaceInv'
  OBVIOUS
<1>10. ShownInv' /\ TagsStableWithinLife'
  BY <1>2 DEF TagsStableWithinLife
<1> QED BY <1>1, <1>4, <1>5, <1>6, <1>7, <1>8, <1>9, <1>10

\* What is shown of a store whose names stand for notes.
LEMMA CurrentIs ==
  ASSUME NEW ns \in [Ids -> Requests \cup {None}], NEW hp,
         \A j \in Ids : ns[j] # None => hp[ns[j]] \in Note,
         NEW a \in Current(ns, hp)
  PROVE  /\ a \in Requests \X Ids \X (Nat \ {0}) \X Requests
         /\ a[3] = hp[a[1]].version /\ a[4] = hp[a[1]].text
         /\ \E j \in Ids : ns[j] # None /\ ns[j] = a[1]
<1>1. PICK j \in Ids : ns[j] # None /\ a = <<ns[j], j, hp[ns[j]].version, hp[ns[j]].text>>
  BY DEF Current
<1>2. hp[ns[j]].version \in Nat \ {0} /\ hp[ns[j]].text \in Requests
  BY <1>1 DEF Note
<1> QED BY <1>1, <1>2

\* A token issued changes nothing else.
LEMMA IssueTokenIInv ==
  ASSUME IInv, NEW u \in Users, IssueToken(u)
  PROVE  IInv'
  BY DEF IInv, IssueToken, PostedNotesSurvive, LateFillInv, Posted, Deleted, TagsStableWithinLife

\* What the policy and the precondition answered, on the note that was loaded.
LEMMA RefusalIs ==
  ASSUME IInv, NEW u \in Users, NEW m \in Matches, NEW i \in Ids
  PROVE  /\ Refusal(u, m, notes[i]) \in {0, 403, 412}
         /\ Refusal(u, m, notes[i]) = 0 =>
              /\ u \in Admins \/ (notes[i] # None /\ heap[notes[i]].owner = u)
              /\ m \in Versions => notes[i] # None /\ m = heap[notes[i]].version
<1>1. m \in Versions => m \in Nat
  BY DEF Versions
<1> QED BY <1>1, AllowedIs DEF Refusal, IfMatchHolds

\* No valid token: 401, and nothing was looked at.
LEMMA UnauthorizedIInv ==
  ASSUME IInv, NEW r \in Requests, Unauthorized(r)
  PROVE  IInv'
<1>1. /\ kind' = [kind EXCEPT ![r] = kind[r]]
      /\ user' = [user EXCEPT ![r] = user[r]]
      /\ target' = [target EXCEPT ![r] = target[r]]
      /\ ifMatch' = [ifMatch EXCEPT ![r] = ifMatch[r]]
      /\ held' = [held EXCEPT ![r] = held[r]]
  BY DEF Unauthorized, IInv
<1>2. held[r] # None => answer[held[r]] = 201
  BY DEF IInv
<1>3. /\ kind[r] \in {"none", "GET", "PUT", "DELETE", "POST"}
      /\ user[r] \in Users \cup {None} /\ target[r] \in Ids \cup {None}
      /\ ifMatch[r] \in Matches /\ held[r] \in Requests \cup {None}
  BY DEF IInv
<1>4. 401 \in {200, 400, 401, 403, 404, 412} /\ 401 # 200 /\ pc[r] # "done"
  BY DEF Unauthorized
<1>5. Ends(r, kind[r], user[r], target[r], ifMatch[r], held[r], 401)
  BY <1>1, <1>2, <1>3, <1>4, Zenon DEF Ends, Unauthorized
<1> QED BY ONLY <1>5, IInv, EndsIInv

\* The body did not come, or was not one: the write is given up.
LEMMA BodyFailsIInv ==
  ASSUME IInv, NEW r \in Requests, BodyFails(r)
  PROVE  IInv'
<1>1. /\ kind' = [kind EXCEPT ![r] = kind[r]]
      /\ user' = [user EXCEPT ![r] = user[r]]
      /\ target' = [target EXCEPT ![r] = target[r]]
      /\ ifMatch' = [ifMatch EXCEPT ![r] = ifMatch[r]]
      /\ held' = [held EXCEPT ![r] = held[r]]
  BY DEF BodyFails, IInv
<1>2. held[r] # None => answer[held[r]] = 201
  BY DEF IInv
<1>3. /\ kind[r] \in {"none", "GET", "PUT", "DELETE", "POST"}
      /\ user[r] \in Users \cup {None} /\ target[r] \in Ids \cup {None}
      /\ ifMatch[r] \in Matches /\ held[r] \in Requests \cup {None}
  BY DEF IInv
<1>4. 400 \in {200, 400, 401, 403, 404, 412} /\ 400 # 200 /\ pc[r] # "done"
  BY DEF BodyFails
<1>5. Ends(r, kind[r], user[r], target[r], ifMatch[r], held[r], 400)
  BY <1>1, <1>2, <1>3, <1>4, Zenon DEF Ends, BodyFails, Answers
<1> QED BY ONLY <1>5, IInv, EndsIInv

\* What a request that enters loads is a note somebody made.
LEMMA LoadedIsMade ==
  ASSUME IInv, NEW i \in Known
  PROVE  i \in Ids /\ notes[i] \in Requests \cup {None} /\ (notes[i] # None => answer[notes[i]] = 201)
  BY DEF IInv

\* A GET ends where it began, with or without a note.
LEMMA GetIInv ==
  ASSUME IInv, NEW r \in Requests, Get(r)
  PROVE  IInv'
<1>1. PICK u \in Users, i \in Known :
        /\ Enters(r, "GET", u, i, None, notes[i])
        /\ LET refusal == Refusal(u, None, notes[i])
           IN Answers(r, IF refusal # 0 THEN refusal
                         ELSE IF notes[i] = None THEN 404 ELSE 200)
        /\ UNCHANGED <<notes, heap, raced, shown>>
  BY DEF Get
<1> DEFINE refusal == Refusal(u, None, notes[i])
           st == IF refusal # 0 THEN refusal ELSE IF notes[i] = None THEN 404 ELSE 200
<1>2. i \in Ids /\ notes[i] \in Requests \cup {None} /\ (notes[i] # None => answer[notes[i]] = 201)
  BY LoadedIsMade
<1>3. None \in Matches
  BY DEF Matches
<1>4. /\ st \in {200, 403, 404, 412}
      /\ st = 200 => u \in Admins \/ (notes[i] # None /\ heap[notes[i]].owner = u)
  BY <1>2, <1>3, RefusalIs
<1> HIDE DEF st, refusal
<1>5. Answers(r, st)
  BY <1>1 DEF st, refusal
<1>6. /\ u \in Users \cup {None} /\ i \in Ids \cup {None} /\ pc[r] # "done"
      /\ "GET" \in {"none", "GET", "PUT", "DELETE", "POST"}
      /\ st \in {200, 400, 401, 403, 404, 412}
  BY <1>1, <1>2, <1>4 DEF Enters
<1>7. Ends(r, "GET", u, i, None, notes[i], st)
  BY <1>1, <1>2, <1>3, <1>4, <1>5, <1>6, Zenon DEF Ends, Enters, Answers
<1> QED BY ONLY <1>7, IInv, EndsIInv

\* A DELETE that is refused, or finds nothing, ends the same way; one that
\* succeeds takes the name away, and is the witness of what it took.
LEMMA DeleteIInv ==
  ASSUME IInv, NEW r \in Requests, Delete(r)
  PROVE  IInv'
<1>1. PICK u \in Users, i \in Known, m \in Matches :
        /\ Enters(r, "DELETE", u, i, m, notes[i])
        /\ LET refusal == Refusal(u, m, notes[i]) IN
           \/ /\ refusal # 0 \/ notes[i] = None
              /\ Answers(r, IF refusal # 0 THEN refusal ELSE 404)
              /\ UNCHANGED <<notes, heap, shown>>
           \/ /\ refusal = 0 /\ notes[i] # None
              /\ Answers(r, 204)
              /\ Store([notes EXCEPT ![i] = None], heap)
        /\ UNCHANGED raced
  BY DEF Delete
<1> DEFINE refusal == Refusal(u, m, notes[i])
<1>2. i \in Ids /\ notes[i] \in Requests \cup {None} /\ (notes[i] # None => answer[notes[i]] = 201)
  BY LoadedIsMade
<1>3. /\ refusal \in {0, 403, 412}
      /\ refusal = 0 => u \in Admins \/ (notes[i] # None /\ heap[notes[i]].owner = u)
  BY <1>2, RefusalIs
<1> HIDE DEF refusal
<1>4. CASE (refusal # 0 \/ notes[i] = None) /\ Answers(r, IF refusal # 0 THEN refusal ELSE 404)
           /\ UNCHANGED <<notes, heap, shown>>
  <2> DEFINE st == IF refusal # 0 THEN refusal ELSE 404
  <2>1. st \in {403, 404, 412}
    BY <1>3
  <2> HIDE DEF st
  <2>2. Answers(r, st)
    BY <1>4 DEF st
  <2>3. /\ u \in Users \cup {None} /\ i \in Ids \cup {None} /\ pc[r] # "done"
        /\ "DELETE" \in {"none", "GET", "PUT", "DELETE", "POST"}
        /\ st \in {200, 400, 401, 403, 404, 412} /\ st # 200
    BY <1>1, <1>2, <2>1 DEF Enters
  <2>4. Ends(r, "DELETE", u, i, m, notes[i], st)
    BY <1>1, <1>2, <1>4, <2>2, <2>3, Zenon DEF Ends, Enters, Answers
  <2> QED BY ONLY <2>4, IInv, EndsIInv
<1>5. CASE /\ refusal = 0 /\ notes[i] # None /\ Answers(r, 204)
           /\ Store([notes EXCEPT ![i] = None], heap)
  <2> USE <1>1, <1>2, <1>3, <1>5 DEF IInv, Enters, Answers, Store
  <2>1. /\ pc[r] = "new" /\ answer[r] = 0
        /\ \A p \in Requests : Made(p)' <=> Made(p)
    OBVIOUS
  <2>2. Known' = Known
    BY <2>1
  <2>3. shown' = shown \cup Current(notes', heap)
    OBVIOUS
  <2>4. /\ notes' \in [Ids -> Requests \cup {None}]
        /\ \A j \in Ids : notes'[j] # None => Made(notes'[j]) /\ heap[notes'[j]] \in Note
    OBVIOUS
  <2>5. TypeOK'
    <3>1. shown' \subseteq Requests \X Ids \X (Nat \ {0}) \X Requests
      <4>1. \A a \in Current(notes', heap) : a \in Requests \X Ids \X (Nat \ {0}) \X Requests
        BY ONLY <2>4, CurrentIs
      <4> QED BY ONLY <2>3, <4>1, IInv DEF IInv, TypeOK
    <3>2. /\ answer' \in [Requests -> {0, 200, 201, 204, 400, 401, 403, 404, 412}]
          /\ pc' \in [Requests -> {"new", "body", "done"}]
          /\ kind' \in [Requests -> {"none", "GET", "PUT", "DELETE", "POST"}]
          /\ raced' \subseteq SUBSET Requests
      OBVIOUS
    <3>3. /\ user' \in [Requests -> Users \cup {None}]
          /\ target' \in [Requests -> Ids \cup {None}]
          /\ ifMatch' \in [Requests -> Matches]
          /\ held' \in [Requests -> Requests \cup {None}]
      OBVIOUS
    <3>4. heap' \in [Requests -> Note \cup {None}] /\ tokens' \subseteq Users
      OBVIOUS
    <3> QED BY ONLY <2>4, <3>1, <3>2, <3>3, <3>4 DEF TypeOK
  <2>6. ASSUME NEW p \in Requests PROVE PhaseInv(p)' /\ MadeInv(p)'
    BY <2>1, <2>2
  <2>7. ASSUME NEW p \in Requests PROVE VersionInv(p)'
    BY <2>1
  <2>8. NamesInv'
    BY <2>1, <2>2
  <2>9. PostedNotesSurvive' /\ LateFillInv'
    BY <2>1 DEF PostedNotesSurvive, LateFillInv, Posted, Deleted
  <2>10. RaceInv'
    BY <2>1
  <2>11. \A a \in Current(notes', heap) :
           Made(a[1]) /\ a[3] = heap[a[1]].version /\ a[4] = heap[a[1]].text
    BY ONLY <2>4, CurrentIs DEF Made
  <2>12. ShownInv' /\ TagsStableWithinLife'
    <3>1. ShownInv /\ TagsStableWithinLife /\ heap' = heap /\ shown \subseteq shown'
      BY <2>3
    <3>2. \A a \in Current(notes', heap) :
            a[1] \in Requests /\ heap[a[1]].version <= heap[a[1]].version
      BY ONLY <2>4, CurrentIs DEF Note
    <3>3. \A a \in shown : a[1] \in Requests
      BY ONLY IInv DEF IInv, TypeOK
    <3>4. ShownInv'
      BY ONLY <2>1, <2>3, <2>11, <3>1, <3>2, <3>3 DEF ShownInv
    <3>5. \A a \in shown, b \in Current(notes', heap) :
            a[1] = b[1] /\ a[3] = b[3] => a[4] = b[4]
      BY ONLY <2>11, <3>1 DEF ShownInv
    <3>6. TagsStableWithinLife'
      BY ONLY <2>3, <2>11, <3>1, <3>5 DEF TagsStableWithinLife
    <3> QED BY <3>4, <3>6
  <2> QED BY ONLY <2>5, <2>6, <2>7, <2>8, <2>9, <2>10, <2>12 DEF IInv
<1> QED BY <1>1, <1>4, <1>5 DEF refusal

\* A PUT that is refused ends; one that is let in waits for its body, and was
\* in the server together with every other that waits.
LEMMA PutIInv ==
  ASSUME IInv, NEW r \in Requests, Put(r)
  PROVE  IInv'
<1>1. PICK u \in Users, i \in Known, m \in Matches :
        /\ Enters(r, "PUT", u, i, m, notes[i])
        /\ LET refusal == Refusal(u, m, notes[i]) IN
           \/ refusal # 0 /\ Answers(r, refusal) /\ UNCHANGED raced
           \/ refusal = 0 /\ Suspends(r)
        /\ UNCHANGED <<notes, heap, shown>>
  BY DEF Put
<1> DEFINE refusal == Refusal(u, m, notes[i])
<1>2. i \in Ids /\ notes[i] \in Requests \cup {None} /\ (notes[i] # None => answer[notes[i]] = 201)
  BY LoadedIsMade
<1>3. /\ refusal \in {0, 403, 412}
      /\ refusal = 0 =>
           /\ u \in Admins \/ (notes[i] # None /\ heap[notes[i]].owner = u)
           /\ m \in Versions => notes[i] # None /\ m = heap[notes[i]].version
  BY <1>2, RefusalIs
<1> HIDE DEF refusal
<1>4. CASE refusal # 0 /\ Answers(r, refusal) /\ UNCHANGED raced
  <2>1. /\ u \in Users \cup {None} /\ i \in Ids \cup {None} /\ pc[r] # "done"
        /\ "PUT" \in {"none", "GET", "PUT", "DELETE", "POST"}
        /\ refusal \in {200, 400, 401, 403, 404, 412} /\ refusal # 200
    BY <1>1, <1>2, <1>3, <1>4 DEF Enters
  <2>2. Ends(r, "PUT", u, i, m, notes[i], refusal)
    BY <1>1, <1>2, <1>4, <2>1, Zenon DEF Ends, Enters, Answers
  <2> QED BY ONLY <2>2, IInv, EndsIInv
<1>5. CASE refusal = 0 /\ Suspends(r)
  <2> USE <1>1, <1>2, <1>3, <1>5 DEF IInv, Enters, Suspends
  <2>1. /\ pc[r] = "new" /\ answer[r] = 0 /\ answer' = answer
        /\ \A p \in Requests : Made(p)' <=> Made(p)
    OBVIOUS
  <2>2. Known' = Known
    BY <2>1
  <2>3. TypeOK'
    OBVIOUS
  <2>4. ASSUME NEW p \in Requests PROVE PhaseInv(p)' /\ MadeInv(p)'
    BY <2>1, <2>2
  <2>5. ASSUME NEW p \in Requests PROVE VersionInv(p)'
    <3>1. notes[i] # None => heap[notes[i]].version \in Nat
      BY DEF Note
    <3> QED BY <2>1, <3>1 DEF Versions
  <2>6. NamesInv'
    BY <2>1, <2>2
  <2>7. PostedNotesSurvive' /\ LateFillInv'
    BY <2>1 DEF PostedNotesSurvive, LateFillInv, Posted, Deleted
  <2>8. RaceInv'
    <3>1. ASSUME NEW p \in Requests, p # r, Underway(p), held[p] = notes[i],
                 ifMatch[p] \in Versions, m = ifMatch[p]
          PROVE  {p, r} \in raced'
      <4>1. VersionInv(p)
        OBVIOUS
      <4>2. pc[p] = "body"
        <5>1. m = heap[notes[i]].version
          BY <3>1
        <5>2. heap[notes[i]].version \in Nat
          BY <3>1 DEF Note
        <5> QED BY ONLY <3>1, <4>1, <5>1, <5>2 DEF VersionInv, Underway
      <4> QED BY <4>2
    <3>2. \A p \in Requests : p # r => (Underway(p)' <=> Underway(p))
      BY <2>1
    <3>3. raced \subseteq raced'
      OBVIOUS
    <3>4. /\ held' = [held EXCEPT ![r] = notes[i]]
          /\ ifMatch' = [ifMatch EXCEPT ![r] = m]
          /\ held \in [Requests -> Requests \cup {None}]
          /\ ifMatch \in [Requests -> Matches]
      OBVIOUS
    <3>5. ASSUME NEW p \in Requests, NEW q \in Requests,
                 p # q, Underway(p)', Underway(q)', held'[p] = held'[q],
                 ifMatch'[p] \in Versions, ifMatch'[q] = ifMatch'[p]
          PROVE  {p, q} \in raced'
      <4>1. CASE p # r /\ q # r
        BY ONLY <3>2, <3>3, <3>4, <3>5, <4>1, IInv DEF IInv, RaceInv
      <4>2. CASE q = r
        BY ONLY <3>1, <3>2, <3>4, <3>5, <4>2
      <4>3. CASE p = r
        <5>1. {q, p} \in raced'
          BY ONLY <3>1, <3>2, <3>4, <3>5, <4>3
        <5>2. {q, p} = {p, q}
          OBVIOUS
        <5> QED BY ONLY <5>1, <5>2
      <4> QED BY ONLY <4>1, <4>2, <4>3
    <3>6. Versions' = Versions
      BY DEF Versions
    <3> QED BY ONLY <3>5, <3>6 DEF RaceInv
  <2>9. ShownInv' /\ TagsStableWithinLife'
    BY <2>1 DEF TagsStableWithinLife
  <2> QED BY ONLY <2>3, <2>4, <2>5, <2>6, <2>7, <2>8, <2>9 DEF IInv
<1> QED BY <1>1, <1>4, <1>5 DEF refusal

\* A POST waits for its body with a new id of its own.
LEMMA PostIInv ==
  ASSUME IInv, NEW r \in Requests, Post(r)
  PROVE  IInv'
<1>1. PICK u \in Users :
        Enters(r, "POST", u, r, None, None) /\ Suspends(r) /\ UNCHANGED <<notes, heap, shown>>
  BY DEF Post
<1> USE <1>1 DEF IInv, Enters, Suspends
<1>2. /\ pc[r] = "new" /\ answer[r] = 0 /\ answer' = answer
      /\ \A p \in Requests : Made(p)' <=> Made(p)
  OBVIOUS
<1>3. Known' = Known
  BY <1>2
<1>4. TypeOK'
  BY DEF Matches
<1>5. ASSUME NEW p \in Requests PROVE PhaseInv(p)' /\ MadeInv(p)'
  BY <1>2, <1>3
<1>6. ASSUME NEW p \in Requests PROVE VersionInv(p)'
  BY <1>2
<1>7. NamesInv'
  BY <1>2, <1>3
<1>8. PostedNotesSurvive' /\ LateFillInv'
  BY <1>2 DEF PostedNotesSurvive, LateFillInv, Posted, Deleted
<1>9. RaceInv'
  BY <1>2
<1>10. ShownInv' /\ TagsStableWithinLife'
  BY <1>2 DEF TagsStableWithinLife
<1> QED BY ONLY <1>4, <1>5, <1>6, <1>7, <1>8, <1>9, <1>10 DEF IInv

\* A body that arrives for a request with no note: a new note, of the user's,
\* under an id that is the request's own or that only an admin may fill.
LEMMA CreateIInv ==
  ASSUME IInv, NEW r \in Requests, Apply(r), held[r] = None
  PROVE  IInv'
<1> USE DEF IInv
<1>1. /\ pc[r] = "body"
      /\ notes' = [notes EXCEPT ![target[r]] = r]
      /\ heap' = [heap EXCEPT ![r] = Created(r)]
      /\ shown' = shown \cup Current(notes', heap')
      /\ pc' = [pc EXCEPT ![r] = "done"] /\ answer' = [answer EXCEPT ![r] = 201]
      /\ UNCHANGED <<tokens, kind, user, target, ifMatch, held, raced>>
  BY DEF Apply, Store, Answers
<1>2. /\ answer[r] = 0 /\ target[r] \in Ids /\ user[r] \in Users
      /\ kind[r] = "POST" => target[r] = r
      /\ kind[r] = "PUT" => target[r] \in Known /\ user[r] \in Admins
      /\ kind[r] \in {"PUT", "POST"}
  BY <1>1
<1>3. /\ Created(r) \in Note /\ Created(r).owner = user[r]
  BY <1>2 DEF Created, Note
<1>4. /\ \A p \in Requests : Made(p)' <=> p = r \/ Made(p)
      /\ \A p \in Requests : p # r => heap'[p] = heap[p]
      /\ heap'[r] = Created(r)
  BY <1>1
<1>5. Known \subseteq Known' /\ target[r] \in Known'
  BY <1>1, <1>2
<1>6. /\ notes' \in [Ids -> Requests \cup {None}]
      /\ \A j \in Ids : notes'[j] # None =>
           answer'[notes'[j]] = 201 /\ heap'[notes'[j]] \in Note /\ j \in Known'
  BY <1>1, <1>2, <1>3, <1>4, <1>5
<1>7. \A a \in Current(notes', heap') :
        /\ a \in Requests \X Ids \X (Nat \ {0}) \X Requests
        /\ a[1] \in Requests /\ answer'[a[1]] = 201
        /\ a[3] = heap'[a[1]].version /\ a[4] = heap'[a[1]].text
        /\ heap'[a[1]].version \in Nat
  BY ONLY <1>6, CurrentIs DEF Note
<1>8. TypeOK'
  <2>1. shown' \subseteq Requests \X Ids \X (Nat \ {0}) \X Requests
    BY ONLY <1>1, <1>7, IInv DEF IInv, TypeOK
  <2>2. /\ answer' \in [Requests -> {0, 200, 201, 204, 400, 401, 403, 404, 412}]
        /\ pc' \in [Requests -> {"new", "body", "done"}]
        /\ heap' \in [Requests -> Note \cup {None}]
    BY <1>1, <1>3
  <2> QED BY ONLY <1>1, <1>6, <2>1, <2>2, IInv DEF IInv, TypeOK
<1>9. ASSUME NEW p \in Requests PROVE PhaseInv(p)'
  BY <1>1, <1>2, <1>4, <1>5
<1>10. ASSUME NEW p \in Requests PROVE MadeInv(p)'
  <2>1. held[p] # None => Made(held[p]) /\ held[p] \in Requests /\ held[p] # r
    BY <1>2
  <2>2. CASE p = r
    BY <1>1, <1>2, <1>3, <1>4, <2>2
  <2>3. CASE p # r
    BY <1>1, <1>4, <2>1, <2>3
  <2> QED BY <2>2, <2>3
<1>11. ASSUME NEW p \in Requests PROVE VersionInv(p)'
  <2>1. held[p] # None => Made(held[p]) /\ held[p] \in Requests /\ held[p] # r
    BY <1>2
  <2> QED BY <1>1, <1>4, <2>1 DEF Versions
<1>12. NamesInv'
  BY ONLY <1>6 DEF NamesInv, Made
<1>13. PostedNotesSurvive' /\ LateFillInv'
  <2>1. \A p \in Requests : Deleted(p) => Deleted(p)'
    BY <1>1, <1>2 DEF Deleted
  <2>2. ASSUME NEW p \in Requests, Posted(p)', notes'[p] # p
        PROVE  Deleted(p)'
    <3>1. p # r /\ Posted(p)
      BY <1>1, <1>2, <2>2 DEF Posted
    <3>2. CASE target[r] = p
      <4>1. kind[r] = "PUT" /\ Deleted(p)
        BY <1>1, <1>2, <3>1, <3>2 DEF LateFillInv
      <4> QED BY <2>1, <4>1
    <3>3. CASE target[r] # p
      BY <1>1, <1>2, <2>1, <2>2, <3>1, <3>3 DEF PostedNotesSurvive
    <3> QED BY <3>2, <3>3
  <2>3. ASSUME NEW p \in Requests, NEW q \in Requests, Posted(p)',
               pc'[q] = "body", kind[q] = "PUT", held[q] = None, target[q] = p
        PROVE  Deleted(p)'
    <3>1. p \in Known /\ p \notin Paths /\ q # r /\ pc[q] = "body"
      BY <1>1, <2>3
    <3>2. Posted(p)
      BY <3>1 DEF Posted
    <3> QED BY <2>1, <2>3, <3>1, <3>2 DEF LateFillInv
  <2> QED BY <1>1, <2>2, <2>3 DEF PostedNotesSurvive, LateFillInv
<1>14. RaceInv'
  <2>1. \A p \in Requests : Underway(p)' => Underway(p)
    BY <1>1
  <2>2. Versions' = Versions
    BY DEF Versions
  <2> QED BY ONLY <1>1, <2>1, <2>2, IInv DEF IInv, RaceInv
<1>15. ShownInv' /\ TagsStableWithinLife'
  <2>1. \A a \in shown : /\ a[1] \in Requests /\ a[1] # r
                         /\ heap'[a[1]] = heap[a[1]] /\ answer'[a[1]] = 201
    BY <1>1, <1>2, <1>4
  <2>2. \A a \in Current(notes', heap') : heap'[a[1]].version <= heap'[a[1]].version
    BY <1>7
  <2>3. shown' = shown \cup Current(notes', heap') /\ ShownInv /\ TagsStableWithinLife
    BY <1>1
  <2>4. ShownInv'
    BY ONLY <1>7, <2>1, <2>2, <2>3 DEF ShownInv, Made
  <2>5. TagsStableWithinLife'
    BY ONLY <1>7, <2>1, <2>3 DEF ShownInv, TagsStableWithinLife
  <2> QED BY <2>4, <2>5
<1> QED BY ONLY <1>8, <1>9, <1>10, <1>11, <1>12, <1>13, <1>14, <1>15 DEF IInv

\* An update moves the version and keeps the owner.
LEMMA UpdatedIs ==
  ASSUME NEW n \in Note, NEW r \in Requests
  PROVE  /\ Updated(n, r) \in Note
         /\ Updated(n, r).owner = n.owner
         /\ Updated(n, r).version = n.version + 1
         /\ n.version \in Nat
<1>1. n.version + 1 \in Nat \ {0}
  BY DEF Note
<1>2. [n EXCEPT !.text = r, !.version = n.version + 1] \in Note
  BY <1>1 DEF Note
<1>3. Updated(n, r) \in Note
  BY <1>2 DEF Updated, Note
<1> QED BY <1>3 DEF Updated, Note

\* A body that arrives for a request with a note: the note moves on to its next
\* version, wherever it is by now.
LEMMA UpdateIInv ==
  ASSUME IInv, NEW r \in Requests, Apply(r), held[r] # None
  PROVE  IInv'
<1> USE DEF IInv
<1> DEFINE h == held[r]
<1>1. /\ pc[r] = "body"
      /\ notes' = notes
      /\ heap' = [heap EXCEPT ![h] = Updated(heap[h], r)]
      /\ shown' = shown \cup Current(notes', heap')
      /\ pc' = [pc EXCEPT ![r] = "done"] /\ answer' = [answer EXCEPT ![r] = 204]
      /\ UNCHANGED <<tokens, kind, user, target, ifMatch, held, raced>>
  BY DEF Apply, Store, Answers
<1>2. /\ answer[r] = 0 /\ kind[r] = "PUT" /\ Permitted(r)
      /\ h \in Requests /\ Made(h) /\ heap[h] \in Note
  BY <1>1
<1> HIDE DEF h
<1>3. /\ Updated(heap[h], r) \in Note
      /\ Updated(heap[h], r).owner = heap[h].owner
      /\ Updated(heap[h], r).version = heap[h].version + 1
      /\ heap[h].version \in Nat
  BY <1>2, UpdatedIs
<1>4. /\ \A p \in Requests : Made(p)' <=> Made(p)
      /\ \A p \in Requests : p # h => heap'[p] = heap[p]
      /\ heap'[h] = Updated(heap[h], r)
  BY <1>1, <1>2
<1>5. Known' = Known
  BY <1>1, <1>2
<1>6. /\ notes' \in [Ids -> Requests \cup {None}]
      /\ \A j \in Ids : notes'[j] # None =>
           answer'[notes'[j]] = 201 /\ heap'[notes'[j]] \in Note /\ j \in Known'
  BY <1>1, <1>2, <1>3, <1>4, <1>5
<1>7. \A a \in Current(notes', heap') :
        /\ a \in Requests \X Ids \X (Nat \ {0}) \X Requests
        /\ a[1] \in Requests /\ answer'[a[1]] = 201
        /\ a[3] = heap'[a[1]].version /\ a[4] = heap'[a[1]].text
        /\ heap'[a[1]].version \in Nat
  BY ONLY <1>6, CurrentIs DEF Note
<1>8. TypeOK'
  <2>1. shown' \subseteq Requests \X Ids \X (Nat \ {0}) \X Requests
    BY ONLY <1>1, <1>7, IInv DEF IInv, TypeOK
  <2>2. /\ answer' \in [Requests -> {0, 200, 201, 204, 400, 401, 403, 404, 412}]
        /\ pc' \in [Requests -> {"new", "body", "done"}]
        /\ heap' \in [Requests -> Note \cup {None}]
    BY <1>1, <1>2, <1>3
  <2> QED BY ONLY <1>1, <1>6, <2>1, <2>2, IInv DEF IInv, TypeOK
<1>9. ASSUME NEW p \in Requests PROVE PhaseInv(p)'
  BY <1>1, <1>2, <1>4, <1>5
<1>10. \A n \in Requests : Made(n) => heap'[n] \in Note /\ heap'[n].owner = heap[n].owner
  BY <1>2, <1>3, <1>4
<1>11. ASSUME NEW p \in Requests PROVE MadeInv(p)'
  <2>1. held[p] # None => Made(held[p]) /\ held[p] \in Requests
    OBVIOUS
  <2> QED BY <1>1, <1>2, <1>4, <1>10, <2>1
<1>12. ASSUME NEW p \in Requests PROVE VersionInv(p)'
  <2>1. SUFFICES ASSUME kind[p] = "PUT", ifMatch[p] \in Versions,
                        pc'[p] = "body" \/ answer'[p] = 204
                 PROVE  /\ held[p] # None
                        /\ pc'[p] = "body" => ifMatch[p] <= heap'[held[p]].version
                        /\ answer'[p] = 204 => ifMatch[p] < heap'[held[p]].version
    BY <1>1 DEF Versions
  <2>2. VersionInv(p) /\ ifMatch[p] \in Nat
    BY <2>1 DEF Versions
  <2>3. held[p] # None => held[p] \in Requests /\ heap[held[p]].version \in Nat
    BY DEF Note
  <2>4. CASE p = r
    <3>1. held[p] = h /\ answer'[p] = 204 /\ pc'[p] = "done"
      BY <1>1, <2>4 DEF h
    <3> QED BY <1>1, <1>3, <1>4, <2>1, <2>2, <2>4, <3>1
  <2>5. CASE p # r
    <3>1. pc'[p] = pc[p] /\ answer'[p] = answer[p] /\ held[p] # None
      BY <1>1, <2>1, <2>2, <2>5
    <3>2. heap[held[p]].version <= heap'[held[p]].version /\ heap'[held[p]].version \in Nat
      BY <1>3, <1>4, <2>3, <3>1
    <3> QED BY ONLY <2>1, <2>2, <2>3, <3>1, <3>2 DEF VersionInv
  <2> QED BY <2>4, <2>5
<1>13. NamesInv'
  BY ONLY <1>6 DEF NamesInv, Made
<1>14. PostedNotesSurvive' /\ LateFillInv'
  BY <1>1, <1>2 DEF PostedNotesSurvive, LateFillInv, Posted, Deleted
<1>15. RaceInv'
  <2>1. \A p \in Requests : Underway(p)' => Underway(p)
    BY <1>1, <1>2
  <2>2. Versions' = Versions
    BY DEF Versions
  <2> QED BY ONLY <1>1, <2>1, <2>2, IInv DEF IInv, RaceInv
<1>16. ShownInv' /\ TagsStableWithinLife'
  <2>1. \A a \in shown : /\ a[1] \in Requests /\ answer'[a[1]] = 201 /\ a[3] \in Nat
                         /\ heap[a[1]].version \in Nat
                         /\ a[3] <= heap[a[1]].version
                         /\ a[3] = heap[a[1]].version => a[4] = heap[a[1]].text
    BY <1>1, <1>4 DEF Note
  <2>2. \A a \in shown : a[3] <= heap'[a[1]].version
                         /\ (a[3] = heap'[a[1]].version => a[4] = heap'[a[1]].text)
    BY <1>3, <1>4, <2>1
  <2>3. \A a \in Current(notes', heap') : heap'[a[1]].version <= heap'[a[1]].version
    BY <1>7
  <2>4. shown' = shown \cup Current(notes', heap') /\ ShownInv /\ TagsStableWithinLife
    BY <1>1
  <2>5. ShownInv'
    BY ONLY <1>7, <2>1, <2>2, <2>3, <2>4 DEF ShownInv, Made
  <2>6. TagsStableWithinLife'
    BY ONLY <1>7, <2>2, <2>4 DEF TagsStableWithinLife
  <2> QED BY <2>5, <2>6
<1> QED BY ONLY <1>8, <1>9, <1>11, <1>12, <1>13, <1>14, <1>15, <1>16 DEF IInv

-----------------------------------------------------------------------------
\* Every behaviour of the application keeps the invariant.
THEOREM NotesInductive == Spec => []IInv
<1>1. ASSUME IInv, [Next]_vars PROVE IInv'
  <2>1. ASSUME NEW r \in Requests, Apply(r) PROVE IInv'
    BY ONLY <1>1, <2>1, CreateIInv, UpdateIInv
  <2>2. CASE UNCHANGED vars
    BY <1>1, <2>2 DEF vars, IInv, PostedNotesSurvive, LateFillInv, Posted, Deleted, TagsStableWithinLife
  <2> QED BY ONLY <1>1, <2>1, <2>2, IssueTokenIInv, UnauthorizedIInv, GetIInv, DeleteIInv,
             PutIInv, PostIInv, BodyFailsIInv DEF Next
<1> QED BY InitIInv, <1>1, PTL DEF Spec

\* The store, the objects and the requests keep their types.
THEOREM NotesTypeCorrect == Spec => []TypeOK
<1>1. IInv => TypeOK
  BY DEF IInv
<1> QED BY <1>1, NotesInductive, PTL

\* On a member only an admin or the note's owner ever succeeds.
THEOREM OnlyOwners == Spec => []OnlyOwnersSucceed
<1>1. IInv => OnlyOwnersSucceed
  BY DEF IInv, OnlyOwnersSucceed
<1> QED BY <1>1, NotesInductive, PTL

\* A posted note is at its Location until a DELETE of it succeeds.
THEOREM PostedSurvive == Spec => []PostedNotesSurvive
<1>1. IInv => PostedNotesSurvive
  BY DEF IInv
<1> QED BY <1>1, NotesInductive, PTL

\* Of updates acknowledged against one version, any two overlapped.
THEOREM SerialUpdatesAreGuarded == Spec => []SerialUpdatesGuarded
<1>1. IInv => SerialUpdatesGuarded
  <2> SUFFICES ASSUME IInv PROVE SerialUpdatesGuarded
    OBVIOUS
  <2>1. RaceInv
    BY DEF IInv
  <2> QED BY ONLY <2>1 DEF RaceInv, SerialUpdatesGuarded, Underway
<1> QED BY <1>1, NotesInductive, PTL

\* A tag stands for one text during the life of its note.
THEOREM TagsAreStable == Spec => []TagsStableWithinLife
<1>1. IInv => TagsStableWithinLife
  BY DEF IInv
<1> QED BY <1>1, NotesInductive, PTL

\* An id never comes to name another note of a plain user: what a PUT puts
\* under an id is an admin's, and a POST only ever fills its own fresh id.
OwnershipStable ==
  [][\A i \in Ids :
       notes'[i] \notin {notes[i], None} =>
         \/ heap'[notes'[i]].owner \in Admins
         \/ i \in Requests /\ notes[i] = None /\ notes'[i] = i]_vars

\* An id only ever comes to name an admin's note, or the one minted with it.
THEOREM OwnershipIsStable == Spec => OwnershipStable
<1> DEFINE Stable == \A i \in Ids :
                       notes'[i] \notin {notes[i], None} =>
                         \/ heap'[notes'[i]].owner \in Admins
                         \/ i \in Requests /\ notes[i] = None /\ notes'[i] = i
<1>1. ASSUME IInv, NEW r \in Requests, Apply(r) PROVE Stable
  <2>1. CASE held[r] # None
    BY <1>1, <2>1 DEF Apply, Store
  <2>2. CASE held[r] = None
    <3>1. /\ notes' = [notes EXCEPT ![target[r]] = r]
          /\ heap'[r].owner = user[r]
          /\ pc[r] = "body" /\ answer[r] = 0
      BY <1>1, <2>2 DEF Apply, Store, Created, IInv
    <3>2. notes \in [Ids -> Requests \cup {None}] /\ target[r] \in Ids
      BY <1>1, <3>1 DEF IInv
    <3>3. CASE kind[r] = "PUT"
      <4>1. user[r] \in Admins
        BY <1>1, <2>2, <3>1, <3>3 DEF IInv
      <4> QED BY <3>1, <3>2, <4>1
    <3>4. CASE kind[r] = "POST"
      <4>1. target[r] = r /\ notes[r] = None
        BY <1>1, <3>1, <3>4 DEF IInv
      <4> QED BY <3>1, <3>2, <4>1
    <3> QED BY <1>1, <3>1, <3>3, <3>4 DEF IInv
  <2> QED BY <2>1, <2>2
<1>2. ASSUME IInv, NEW r \in Requests, Delete(r) PROVE Stable
  <2>1. notes' = notes \/ \E i \in Known : notes' = [notes EXCEPT ![i] = None]
    BY <1>2 DEF Delete, Store
  <2>2. notes \in [Ids -> Requests \cup {None}] /\ Known \subseteq Ids
    BY <1>2 DEF IInv
  <2> QED BY <2>1, <2>2
<1>3. ASSUME notes' = notes PROVE Stable
  BY <1>3
<1>4. ASSUME IInv, Next PROVE Stable
  <2>1. \/ notes' = notes \/ \E r \in Requests : Apply(r) \/ Delete(r)
    BY <1>4 DEF Next, IssueToken, Unauthorized, Get, Put, Post, BodyFails, vars
  <2> QED BY ONLY <1>1, <1>2, <1>3, <1>4, <2>1
<1>5. IInv /\ [Next]_vars => [Stable]_vars
  BY <1>4
<1> QED BY <1>5, NotesInductive, PTL DEF Spec, OwnershipStable

-----------------------------------------------------------------------------
(***************************************************************************)
(* NotesApp implements NoteStore.  Two facts join the invariant: a note is *)
(* under the id its maker was sent to, so under one id at most, and a text *)
(* is that of a request which has been answered.                           *)
(***************************************************************************)
PlaceInv == \A i \in Ids : notes[i] # None => target[notes[i]] = i
TextInv  == \A n \in Requests : Made(n) => answer[heap[n].text] \in {201, 204}

\* What became of a request that has been answered.
Settled(p) == user'[p] = user[p] /\ target'[p] = target[p] /\ answer'[p] = answer[p]

LEMMA AnsweredSettled ==
  ASSUME IInv, Next, NEW p \in Requests, answer[p] # 0
  PROVE  Settled(p)
<1>1. pc[p] = "done" BY DEF IInv
<1>2. ASSUME NEW r \in Requests, r # p,
             \/ Unauthorized(r) \/ Apply(r) \/ BodyFails(r)
      PROVE  Settled(p)
  BY <1>2 DEF IInv, Unauthorized, Apply, BodyFails, Answers, Settled
<1>3. ASSUME NEW r \in Requests, r # p, Get(r) \/ Delete(r) \/ Put(r) \/ Post(r)
      PROVE  Settled(p)
  <2>1. ASSUME NEW k, NEW u, NEW i, NEW m, NEW n, Enters(r, k, u, i, m, n)
        PROVE  user'[p] = user[p] /\ target'[p] = target[p]
    BY <1>3, <2>1 DEF IInv, Enters
  <2>2. ASSUME NEW st, Answers(r, st) PROVE answer'[p] = answer[p]
    BY <1>3, <2>2 DEF IInv, Answers
  <2>3. CASE Get(r) BY <2>1, <2>2, <2>3 DEF Get, Settled
  <2>4. CASE Delete(r) BY <2>1, <2>2, <2>4 DEF Delete, Settled
  <2>5. CASE Put(r) BY <2>1, <2>2, <2>5 DEF Put, Suspends, Settled
  <2>6. CASE Post(r) BY <2>1, <2>2, <2>6 DEF Post, Suspends, Settled
  <2> QED BY <1>3, <2>3, <2>4, <2>5, <2>6
<1>4. ASSUME NEW r \in Requests, Unauthorized(r) \/ Apply(r) \/ BodyFails(r)
                                   \/ Get(r) \/ Delete(r) \/ Put(r) \/ Post(r)
      PROVE  r # p
  BY <1>1, <1>4 DEF Unauthorized, Apply, BodyFails, Get, Delete, Put, Post, Enters
<1>5. CASE (\E u \in Users : IssueToken(u)) \/ UNCHANGED vars
  BY <1>5 DEF IssueToken, vars, Settled
<1> QED BY <1>2, <1>3, <1>4, <1>5 DEF Next

\* A step applies a write, frees an id, or leaves the store as it is.
Untouched == heap' = heap /\ \A p \in Requests : Made(p)' <=> Made(p)
Frees(i)  == notes[i] # None /\ notes' = [notes EXCEPT ![i] = None]

LEMMA StepKinds ==
  ASSUME IInv, Next
  PROVE  \/ \E r \in Requests : Apply(r)
         \/ Untouched /\ (notes' = notes \/ \E i \in Ids : Frees(i))
<1>1. ASSUME NEW r \in Requests, Unauthorized(r) \/ BodyFails(r)
      PROVE  Untouched /\ notes' = notes
  BY <1>1 DEF IInv, Unauthorized, BodyFails, Answers, Untouched
<1>2. ASSUME NEW r \in Requests, Put(r) \/ Post(r)
      PROVE  Untouched /\ notes' = notes
  <2>1. pc[r] = "new" BY <1>2 DEF Put, Post, Enters
  <2>2. notes' = notes /\ heap' = heap BY <1>2 DEF Put, Post
  <2>3. answer' = answer \/ \E u \in Users, i \in Known, m \in Matches :
          Refusal(u, m, notes[i]) # 0 /\ answer' = [answer EXCEPT ![r] = Refusal(u, m, notes[i])]
    BY <1>2 DEF Put, Post, Answers, Suspends
  <2>4. \A u \in Users, i \in Known, m \in Matches : Refusal(u, m, notes[i]) \in {0, 403, 412}
    BY RefusalIs
  <2> QED BY <2>1, <2>2, <2>3, <2>4 DEF IInv, Untouched
<1>3. ASSUME NEW r \in Requests, Get(r)
      PROVE  Untouched /\ notes' = notes
  <2>1. PICK u \in Users, i \in Known :
          /\ Enters(r, "GET", u, i, None, notes[i])
          /\ Answers(r, IF Refusal(u, None, notes[i]) # 0 THEN Refusal(u, None, notes[i])
                        ELSE IF notes[i] = None THEN 404 ELSE 200)
          /\ UNCHANGED <<notes, heap, raced, shown>>
    BY <1>3 DEF Get
  <2>2. Refusal(u, None, notes[i]) \in {0, 403, 412}
    BY RefusalIs DEF Matches
  <2>3. pc[r] = "new" BY <2>1 DEF Enters
  <2> QED BY <2>1, <2>2, <2>3 DEF IInv, Answers, Untouched
<1>4. ASSUME NEW r \in Requests, Delete(r)
      PROVE  Untouched /\ (notes' = notes \/ \E i \in Ids : Frees(i))
  <2>1. PICK u \in Users, i \in Known, m \in Matches :
          /\ Enters(r, "DELETE", u, i, m, notes[i])
          /\ \/ /\ Answers(r, IF Refusal(u, m, notes[i]) # 0 THEN Refusal(u, m, notes[i])
                              ELSE 404)
                /\ UNCHANGED <<notes, heap, shown>>
             \/ /\ notes[i] # None
                /\ Answers(r, 204)
                /\ Store([notes EXCEPT ![i] = None], heap)
    BY <1>4 DEF Delete
  <2>2. Refusal(u, m, notes[i]) \in {0, 403, 412}
    BY RefusalIs
  <2>3. pc[r] = "new" /\ i \in Ids BY <2>1 DEF Enters
  <2>4. Untouched
    BY <2>1, <2>2, <2>3 DEF IInv, Answers, Store, Untouched
  <2> QED BY <2>1, <2>3, <2>4 DEF Store, Frees
<1>5. CASE (\E u \in Users : IssueToken(u)) \/ UNCHANGED vars
  BY <1>5 DEF IssueToken, vars, Untouched
<1> QED BY <1>1, <1>2, <1>3, <1>4, <1>5 DEF Next

\* The body applied to no note: a new one. To a note: its next version.
LEMMA CreateIs ==
  ASSUME IInv, NEW r \in Requests, Apply(r), held[r] = None
  PROVE  /\ notes' = [notes EXCEPT ![target[r]] = r]
         /\ heap' = [heap EXCEPT ![r] = Created(r)]
         /\ answer' = [answer EXCEPT ![r] = 201]
         /\ UNCHANGED <<user, target>>
         /\ answer[r] = 0 /\ target[r] \in Ids /\ user[r] \in Users
         /\ user[r] \in Admins \/ (target[r] = r /\ notes[r] = None)
  BY DEF IInv, Apply, Store, Answers

LEMMA UpdateIs ==
  ASSUME IInv, NEW r \in Requests, Apply(r), held[r] # None
  PROVE  /\ notes' = notes
         /\ heap' = [heap EXCEPT ![held[r]] = Updated(heap[held[r]], r)]
         /\ answer' = [answer EXCEPT ![r] = 204]
         /\ UNCHANGED <<user, target>>
         /\ answer[r] = 0 /\ held[r] \in Requests /\ Made(held[r])
         /\ heap[held[r]] \in Note
         /\ user[r] \in Admins \cup {heap[held[r]].owner}
  BY DEF IInv, Apply, Store, Answers

LEMMA PlaceKept == IInv /\ PlaceInv /\ Next => PlaceInv'
<1> SUFFICES ASSUME IInv, PlaceInv, Next PROVE PlaceInv' OBVIOUS
<1>1. ASSUME NEW i \in Ids, notes[i] # None
      PROVE  notes[i] \in Requests /\ target'[notes[i]] = i
  <2>1. notes[i] \in Requests /\ answer[notes[i]] # 0
    BY <1>1 DEF IInv
  <2> QED BY <1>1, <2>1, AnsweredSettled DEF PlaceInv, Settled
<1>2. CASE Untouched /\ (notes' = notes \/ \E i \in Ids : Frees(i))
  BY <1>1, <1>2 DEF IInv, PlaceInv, Frees
<1>3. ASSUME NEW r \in Requests, Apply(r) PROVE PlaceInv'
  <2>1. CASE held[r] = None
    BY <1>1, <1>3, <2>1, CreateIs DEF IInv, PlaceInv
  <2>2. CASE held[r] # None
    BY <1>1, <1>3, <2>2, UpdateIs DEF PlaceInv
  <2> QED BY <2>1, <2>2
<1> QED BY <1>2, <1>3, StepKinds

LEMMA TextKept == IInv /\ TextInv /\ Next => TextInv'
<1> SUFFICES ASSUME IInv, TextInv, Next, NEW n \in Requests, Made(n)'
             PROVE  answer'[heap'[n].text] \in {201, 204}
  BY DEF TextInv
<1>1. ASSUME Made(n)
      PROVE  heap[n].text \in Requests /\ answer'[heap[n].text] \in {201, 204}
  <2>1. heap[n] \in Note BY <1>1 DEF IInv
  <2>2. heap[n].text \in Requests /\ answer[heap[n].text] \in {201, 204}
    BY <1>1, <2>1 DEF TextInv, Note
  <2> QED BY <2>2, AnsweredSettled DEF Settled
<1>2. CASE Untouched BY <1>1, <1>2 DEF Untouched
<1>3. ASSUME NEW r \in Requests, Apply(r) PROVE answer'[heap'[n].text] \in {201, 204}
  <2>1. CASE held[r] = None
    <3>1. n # r => Made(n) /\ heap'[n] = heap[n]
      BY <1>3, <2>1, CreateIs DEF IInv
    <3>2. n = r => heap'[n].text = r /\ answer'[r] = 201
      BY <1>3, <2>1, CreateIs DEF IInv, Created
    <3> QED BY <1>1, <3>1, <3>2
  <2>2. CASE held[r] # None
    <3>1. Made(n) /\ answer'[r] = 204
      BY <1>3, <2>2, UpdateIs DEF IInv
    <3>2. n # held[r] => heap'[n] = heap[n]
      BY <1>3, <2>2, UpdateIs DEF IInv
    <3>3. ASSUME n = held[r] PROVE heap'[n].text = r
      <4>1. heap'[n] = Updated(heap[n], r) /\ heap[n] \in Note
        BY <1>3, <2>2, <3>3, UpdateIs DEF IInv
      <4> QED BY <4>1 DEF Updated, Note
    <3> QED BY <1>1, <3>1, <3>2, <3>3
  <2> QED BY <2>1, <2>2
<1> QED BY <1>2, <1>3, StepKinds

\* A note whose object did not change is seen as before.
LEMMA SeenAsBefore ==
  ASSUME IInv, TextInv, Next, NEW i \in Ids, notes'[i] = notes[i],
         notes[i] # None => heap'[notes[i]] = heap[notes[i]]
  PROVE  Visible(i)' = Visible(i)
<1>1. CASE notes[i] = None BY <1>1 DEF Visible
<1>2. CASE notes[i] # None
  <2>1. notes[i] \in Requests /\ Made(notes[i]) /\ heap[notes[i]] \in Note
    BY <1>2 DEF IInv
  <2>2. heap[notes[i]].text \in Requests /\ answer[heap[notes[i]].text] # 0
    BY <2>1 DEF TextInv, Note
  <2>3. user'[heap[notes[i]].text] = user[heap[notes[i]].text]
    BY <2>2, AnsweredSettled DEF Settled
  <2> QED BY <1>2, <2>3 DEF Visible
<1> QED BY <1>1, <1>2

\* Each step of the application is one of the store, or none.
LEMMA FillStep ==
  ASSUME IInv, TextInv, Next, NEW r \in Requests, Apply(r), held[r] = None,
         NEW i \in Ids, i = target[r]
  PROVE  Client!SNext
<1> DEFINE e == [note |-> r, owner |-> user[r], by |-> user[r], text |-> r, version |-> 1]
<1>1. /\ notes' = [notes EXCEPT ![i] = r]
      /\ heap' = [heap EXCEPT ![r] = Created(r)]
      /\ answer' = [answer EXCEPT ![r] = 201]
      /\ UNCHANGED <<user, target>>
      /\ answer[r] = 0 /\ user[r] \in Users
      /\ user[r] \in Admins \/ (i = r /\ notes[i] = None)
  BY CreateIs
<1>2. Visible(i)' = e
  <2>1. notes'[i] = r /\ heap'[r] = Created(r) /\ r # None
    BY <1>1 DEF IInv
  <2> QED BY <1>1, <2>1 DEF Visible, Created
<1>3. ASSUME NEW j \in Ids, j # i PROVE Visible(j)' = Visible(j)
  <2>1. notes'[j] = notes[j] BY <1>1, <1>3 DEF IInv
  <2>2. notes[j] # None => notes[j] # r /\ notes[j] \in Requests
    BY <1>1 DEF IInv
  <2>3. notes[j] # None => heap'[notes[j]] = heap[notes[j]]
    BY <1>1, <2>2 DEF IInv
  <2> QED BY <2>1, <2>3, SeenAsBefore
<1>4. view' = [view EXCEPT ![i] = e]
  <2> HIDE DEF e
  <2> QED BY <1>2, <1>3, Zenon DEF view
<1>5. /\ r \notin {p \in Requests : answer[p] = 201}
      /\ {p \in Requests : answer'[p] = 201} = {p \in Requests : answer[p] = 201} \cup {r}
  BY <1>1 DEF IInv
<1>6. user[r] \in Admins \/ (i = r /\ view[i] = Vacant)
  BY <1>1 DEF view, Visible
<1>7. Client!Fill(i, r, user[r])
  BY <1>4, <1>5, <1>6 DEF Client!Fill
<1>8. r \in Requests \ {p \in Requests : answer[p] = 201} BY <1>5
<1>9. user[r] \in Users BY <1>1
<1> HIDE DEF e
<1> QED BY ONLY <1>7, <1>8, <1>9, i \in Ids DEF Client!SNext, Client!Fill

LEMMA ReviseStep ==
  ASSUME IInv, PlaceInv, TextInv, Next, NEW r \in Requests, Apply(r), held[r] # None
  PROVE  Client!SNext \/ UNCHANGED Client!svars
<1> DEFINE h == held[r]
<1>1. /\ notes' = notes
      /\ heap' = [heap EXCEPT ![h] = Updated(heap[h], r)]
      /\ answer' = [answer EXCEPT ![r] = 204]
      /\ UNCHANGED <<user, target>>
      /\ answer[r] = 0 /\ h \in Requests /\ Made(h) /\ heap[h] \in Note
      /\ user[r] \in Admins \cup {heap[h].owner}
  BY UpdateIs
<1> HIDE DEF h
<1>2. {p \in Requests : answer'[p] = 201} = {p \in Requests : answer[p] = 201}
  BY <1>1 DEF IInv
<1>3. ASSUME NEW j \in Ids, notes[j] # h PROVE Visible(j)' = Visible(j)
  <2>1. notes[j] # None => heap'[notes[j]] = heap[notes[j]]
    BY <1>1, <1>3 DEF IInv
  <2> QED BY <1>1, <2>1, SeenAsBefore
<1>4. CASE \A j \in Ids : notes[j] # h
  <2>1. view' = view BY <1>3, <1>4, Zenon DEF view
  <2> QED BY <1>2, <2>1 DEF Client!svars
<1>5. ASSUME NEW i \in Ids, notes[i] = h PROVE Client!SNext
  <2>1. h # None BY <1>1
  <2>2. \A j \in Ids : notes[j] = h => j = i
    BY <1>5, <2>1 DEF PlaceInv
  <2>3. heap'[h] = Updated(heap[h], r) BY <1>1 DEF IInv
  <2>4. /\ Updated(heap[h], r).owner = heap[h].owner
        /\ Updated(heap[h], r).text = r
        /\ Updated(heap[h], r).version = heap[h].version + 1
    BY <1>1 DEF Updated, Note
  <2>5. Visible(i)' = [note |-> h, owner |-> heap[h].owner, by |-> user[r],
                       text |-> r, version |-> heap[h].version + 1]
    BY <1>1, <1>5, <2>1, <2>3, <2>4 DEF Visible
  <2>6. Visible(i) = [note |-> h, owner |-> heap[h].owner, by |-> user[heap[h].text],
                      text |-> heap[h].text, version |-> heap[h].version]
    BY <1>5, <2>1 DEF Visible
  <2>7. Visible(i)' = [Visible(i) EXCEPT !.by = user[r], !.text = r,
                                         !.version = heap[h].version + 1]
    <3>1. DOMAIN Visible(i) = {"note", "owner", "by", "text", "version"}
      BY <2>6
    <3>2. Visible(i)' =
            [k \in DOMAIN Visible(i) |-> IF k = "version" THEN heap[h].version + 1
                                         ELSE IF k = "text" THEN r
                                         ELSE IF k = "by" THEN user[r] ELSE Visible(i)[k]]
      BY <2>5, <2>6
    <3> QED BY <3>1, <3>2
  <2>8. view' = [j \in Ids |-> IF j = i THEN Visible(i)' ELSE Visible(j)]
    BY <1>3, <2>2, Zenon DEF view
  <2>9. view' = [view EXCEPT ![i].by = user[r], ![i].text = r, ![i].version = @ + 1]
    <3>1. view[i] = Visible(i) /\ view[i].version = heap[h].version
      BY <1>5, <2>6 DEF view
    <3> QED BY <2>7, <2>8, <3>1 DEF view
  <2>10. Client!Revise(i, user[r], r)
    BY <1>2, <2>9 DEF Client!Revise
  <2>11. view[i] # Vacant /\ view[i].owner = heap[h].owner
    BY <1>5, <2>1, <2>6 DEF view, Vacant
  <2> QED BY <1>1, <1>5, <2>10, <2>11 DEF Client!SNext, Client!Texts
<1> QED BY <1>4, <1>5

LEMMA OtherStep ==
  ASSUME IInv, TextInv, Next, Untouched, notes' = notes \/ \E i \in Ids : Frees(i)
  PROVE  Client!SNext \/ UNCHANGED Client!svars
<1>1. {p \in Requests : answer'[p] = 201} = {p \in Requests : answer[p] = 201}
  BY DEF Untouched
<1>2. CASE notes' = notes
  <2>1. \A j \in Ids : Visible(j)' = Visible(j)
    BY <1>2, SeenAsBefore DEF Untouched
  <2>2. view' = view BY <2>1, Zenon DEF view
  <2> QED BY <1>1, <2>2 DEF Client!svars
<1>3. ASSUME NEW i \in Ids, Frees(i) PROVE Client!SNext
  <2>1. notes[i] # None /\ notes' = [notes EXCEPT ![i] = None]
    BY <1>3 DEF Frees
  <2>2. Visible(i)' = Vacant BY <2>1 DEF IInv, Visible
  <2>3. ASSUME NEW j \in Ids, j # i PROVE Visible(j)' = Visible(j)
    <3>1. notes'[j] = notes[j] BY <2>1, <2>3 DEF IInv
    <3> QED BY <3>1, SeenAsBefore DEF Untouched
  <2>4. view' = [view EXCEPT ![i] = Vacant]
    BY <2>2, <2>3, Zenon DEF view
  <2>5. Client!Remove(i) BY <1>1, <2>4 DEF Client!Remove
  <2>6. view[i] # Vacant BY <2>1 DEF view, Visible, Vacant
  <2> QED BY <2>5, <2>6 DEF Client!SNext
<1> QED BY <1>2, <1>3

\* Whoever watches the store sees atomic fills, revisions and removals, for any
\* requests, users and ids: the application implements NoteStore.
THEOREM NotesImplementStore == Spec => ImplementsStore
<1>1. Init => Client!SInit
  BY DEF Init, Client!SInit, view, Visible
<1>2. Init => PlaceInv /\ TextInv
  BY DEF Init, PlaceInv, TextInv
<1>3. IInv /\ PlaceInv /\ TextInv /\ [Next]_vars => PlaceInv' /\ TextInv'
  <2>1. UNCHANGED vars /\ PlaceInv /\ TextInv => PlaceInv' /\ TextInv'
    BY DEF vars, PlaceInv, TextInv
  <2> QED BY <2>1, PlaceKept, TextKept
<1>4. IInv /\ PlaceInv /\ TextInv /\ [Next]_vars => [Client!SNext]_(Client!svars)
  <2>1. UNCHANGED vars => UNCHANGED Client!svars
    BY DEF vars, Client!svars, view, Visible
  <2>2. \A r \in Requests : Apply(r) /\ held[r] = None /\ IInv => target[r] \in Ids
    BY CreateIs
  <2> QED BY <2>1, <2>2, StepKinds, FillStep, ReviseStep, OtherStep
<1> QED BY <1>1, <1>2, <1>3, <1>4, NotesInductive, PTL
        DEF Spec, ImplementsStore, Client!SSpec
==============================================================================
