---------------------------- MODULE DecisionWalk ----------------------------
(***************************************************************************)
(* core._walk and its helpers: one request's walk through the decision     *)
(* graph, and the error body core.run gives the response of a halt.  Each  *)
(* action is one node (or one call between two nodes); what the resource's *)
(* callbacks answer is chosen when the walk asks.  Header values are       *)
(* abstracted to the names of the headers a response carries.              *)
(***************************************************************************)
EXTENDS Naturals

CONSTANTS Methods     \* request methods; those outside KNOWN_METHODS are unknown

KNOWN_METHODS == {"GET", "HEAD", "POST", "PUT", "PATCH", "DELETE", "OPTIONS"}
SAFE_METHODS == {"GET", "HEAD"}
BODY_METHODS == {"POST", "PUT", "PATCH"}
CONDITIONAL_WRITE_METHODS == {"PUT", "PATCH", "DELETE"}

VARIABLES
  method,      \* the request's method
  cond,        \* its conditional headers, each against the representation G7 found
  node,        \* where the walk is
  axes,        \* Accept* headers a choice was negotiated on
  exists,      \* resource_exists answered True
  vary,        \* names in the Vary header
  guarded,     \* require_conditional_write answered True
  validators,  \* ETag and Last-Modified, those the resource generates
  caching,     \* likewise Expires and Cache-Control, under the one name Cache-Control
  effects,     \* side-effecting callbacks that have run
  passed,      \* nodes the trace records as passed
  response,    \* status, names of headers, body
  ending       \* how the walk ended

facts   == <<cond, axes, exists, vary, guarded, validators, caching>>
vars    == <<method, node, facts, effects, passed, response, ending>>

(***************************************************************************)
(* What a conditional header is worth against the current representation.  *)
(* "star" is the value *; "unusable" a date that does not parse or that    *)
(* has no Last-Modified to compare with.                                   *)
(***************************************************************************)
Conditions == [ifMatch : {"absent", "star", "same", "other"},
               ifUnmodifiedSince : {"absent", "unmodified", "modified", "unusable"},
               ifNoneMatch : {"absent", "matches", "other"},
               ifModifiedSince : {"absent", "unmodified", "modified", "unusable"}]
Unconditional == [ifMatch |-> "absent", ifUnmodifiedSince |-> "absent",
                  ifNoneMatch |-> "absent", ifModifiedSince |-> "absent"]
IfMatchOnly == {[Unconditional EXCEPT !.ifMatch = m] : m \in {"absent", "star", "other"}}

\* The validators those comparisons presuppose.
Presupposed ==
  (IF cond.ifMatch = "same" THEN {"ETag"} ELSE {}) \cup
  (IF {cond.ifUnmodifiedSince, cond.ifModifiedSince} \cap {"unmodified", "modified"} # {}
   THEN {"Last-Modified"} ELSE {})

SideEffects == {"create_path", "apply", "process_post", "delete_resource"}
NoResponse  == [status |-> 0, headers |-> {}, body |-> "empty"]
Make(status, headers, body) == [status |-> status, headers |-> headers, body |-> body]

Init ==
  /\ method \in Methods
  /\ cond = Unconditional
  /\ node = "B13"
  /\ axes = {}
  /\ exists = FALSE
  /\ vary = {}
  /\ guarded = FALSE
  /\ validators = {}
  /\ caching = {}
  /\ effects = {}
  /\ passed = {}
  /\ response = NoResponse
  /\ ending = "walking"

(***************************************************************************)
(* How a node ends.                                                        *)
(***************************************************************************)
\* Go on without a trace record; go on with one.
Skip(next) == node' = next /\ UNCHANGED <<passed, response, ending>>
Pass(n, next) ==
  /\ passed' = passed \cup {n}
  /\ node' = next
  /\ UNCHANGED <<response, ending>>

\* raise _halt(...): core.run then gives the response an error body.
Halt(n, status, headers) ==
  /\ response' = Make(status, headers, "empty")
  /\ ending' = "halted"
  /\ node' = "errorBody"
  /\ UNCHANGED passed

\* return HttpResponse(...)
Return(n, status, headers, body) ==
  /\ response' = Make(status, headers, body)
  /\ ending' = "returned"
  /\ node' = "end"
  /\ UNCHANGED passed

At(n) == node = n /\ UNCHANGED method

\* A gate whose callback answers yes or no and that records its passing.
Gate(n, status, next) ==
  /\ At(n)
  /\ Pass(n, next) \/ Halt(n, status, {})
  /\ UNCHANGED <<facts, effects>>

\* An additive gate: recorded only when it fires.
QuietGate(n, status, next) ==
  /\ At(n)
  /\ Skip(next) \/ Halt(n, status, {})
  /\ UNCHANGED <<facts, effects>>

(***************************************************************************)
(* B: service, method, authorization and body gates.                       *)
(***************************************************************************)
RetryAfter(hint) == IF hint THEN {"Retry-After"} ELSE {}

B13 == /\ At("B13")
       /\ \/ Pass("B13", "B13a")
          \/ \E hint \in BOOLEAN : Halt("B13", 503, RetryAfter(hint))
       /\ UNCHANGED <<facts, effects>>

B13a == /\ At("B13a")
        /\ \/ Skip("B12")
           \/ \E hint \in BOOLEAN : Halt("B13a", 429, RetryAfter(hint))
        /\ UNCHANGED <<facts, effects>>

B12 == /\ At("B12")
       /\ \/ method \in KNOWN_METHODS /\ Pass("B12", "B11")
          \/ method \notin KNOWN_METHODS /\ Halt("B12", 501, {})
       /\ UNCHANGED <<facts, effects>>

B11 == QuietGate("B11", 414, "B10")

\* OPTIONS is always available; any other method may be missing from
\* allowed_methods.
B10 == /\ At("B10")
       /\ \/ Pass("B10", IF method \in BODY_METHODS THEN "B9" ELSE "B8")
          \/ method # "OPTIONS" /\ Halt("B10", 405, {"Allow"})
       /\ UNCHANGED <<facts, effects>>

MutB9 == Gate("B9", 400, "B7")
B9 == Gate("B9", 400, "B8")

B8 == /\ At("B8")
      /\ \/ Pass("B8", "B7")
         \/ \E challenge \in {{}, {"WWW-Authenticate"}} : Halt("B8", 401, challenge)
      /\ UNCHANGED <<facts, effects>>

B7 == Gate("B7", 403, "B7a")

B7a == QuietGate("B7a", 451, IF method \in BODY_METHODS THEN "B6" ELSE "B3")

B6 == Gate("B6", 501, "B5")
B5 == Gate("B5", 415, "B4")
B4 == Gate("B4", 413, "C4")

B3 == /\ At("B3")
      /\ IF method = "OPTIONS" THEN Return("B3", 200, {"Allow"}, "empty") ELSE Skip("C4")
      /\ UNCHANGED <<facts, effects>>

(***************************************************************************)
(* C, D, F: proactive negotiation.                                         *)
(***************************************************************************)
\* One media type or several are offered; one is acceptable, or the default
\* is served anyway (C4a), or the request is refused.
C4 == /\ At("C4")
      /\ axes' \in {{}, {"Accept"}}
      /\ Pass("C4", "D5") \/ Pass("C4a", "D5") \/ Halt("C4", 406, {})
      /\ UNCHANGED <<cond, exists, vary, guarded, validators, caching, effects>>

\* An axis with nothing offered is not negotiated.
Axis(n, header, next) ==
  /\ At(n)
  /\ \/ Skip(next) /\ UNCHANGED axes
     \/ Pass(n, next) /\ axes' = axes \cup {header}
     \/ Halt(n, 406, {}) /\ UNCHANGED axes
  /\ UNCHANGED <<cond, exists, vary, guarded, validators, caching, effects>>

D5 == Axis("D5", "Accept-Language", "F7")
F7 == Axis("F7", "Accept-Encoding", "G7")

(***************************************************************************)
(* G: existence, Vary, validators and preconditions.                       *)
(***************************************************************************)
\* From here on the request's conditional headers have a meaning: they are
\* read at W1 and the precondition nodes, If-Match alone at H7 if there is
\* nothing to compare with.
G7 == /\ At("G7")
      /\ \E answer \in BOOLEAN :
           /\ exists' = answer
           /\ cond' \in IF answer THEN Conditions ELSE IfMatchOnly
           /\ Pass("G7", IF answer THEN "vary" ELSE "H7")
      /\ UNCHANGED <<axes, vary, guarded, validators, caching, effects>>

\* _vary_headers: the resource's own variances, Accept when several types
\* are offered, and each negotiated axis.
MutVaryHeaders(own) == own \cup (axes \ {"Accept-Language"})
VaryHeaders(own) == own \cup axes

Vary == /\ At("vary")
        /\ \E own \in {{}, {"X-Own"}} : vary' = VaryHeaders(own)
        /\ Skip(IF method \in CONDITIONAL_WRITE_METHODS THEN "W1" ELSE "validators")
        /\ UNCHANGED <<cond, axes, exists, guarded, validators, caching, effects>>

MutUpdatePrecondition == TRUE
UpdatePrecondition == cond.ifMatch # "absent" \/ cond.ifUnmodifiedSince # "absent"

W1 == /\ At("W1")
      /\ \E required \in BOOLEAN :
           /\ guarded' = required
           /\ \/ required /\ ~UpdatePrecondition /\ Halt("W1", 428, {})
              \/ (required => UpdatePrecondition) /\ Skip("validators")
      /\ UNCHANGED <<cond, axes, exists, vary, validators, caching, effects>>

Validators ==
  /\ At("validators")
  /\ validators' \in {v \in SUBSET {"ETag", "Last-Modified"} : Presupposed \subseteq v}
  /\ caching' \in SUBSET {"Cache-Control"}
  /\ Skip("preconditions")
  /\ UNCHANGED <<cond, axes, exists, vary, guarded, effects>>

VaryHeader == IF vary = {} THEN {} ELSE {"Vary"}
CacheableHeaders == validators \cup caching \cup VaryHeader

\* _check_preconditions, in canonical order; If-Match silences
\* If-Unmodified-Since and If-None-Match silences If-Modified-Since.
IfMatchFails == cond.ifMatch = "other"
ModifiedSince == cond.ifUnmodifiedSince = "modified" /\ cond.ifMatch = "absent"
NoneMatchFails == cond.ifNoneMatch = "matches"
MutUnmodified == cond.ifModifiedSince = "unmodified"
Unmodified == cond.ifModifiedSince = "unmodified" /\ cond.ifNoneMatch = "absent"

MutDispatch == CASE method = "GET"    -> "O18"
                 [] method = "DELETE" -> "M20"
                 [] method = "POST"   -> "N11"
                 [] OTHER             -> "O14"
Dispatch == CASE method \in SAFE_METHODS -> "O18"
              [] method = "DELETE"       -> "M20"
              [] method = "POST"         -> "N11"
              [] OTHER                   -> "O14"

\* K13 for the entity tag, L17 for the date.
NotModified ==
  method \in SAFE_METHODS /\ (NoneMatchFails \/ Unmodified)

Preconditions ==
  /\ At("preconditions")
  /\ \/ IfMatchFails /\ Halt("G11", 412, validators)
     \/ ~IfMatchFails /\ ModifiedSince /\ Halt("H12", 412, validators)
     \/ /\ ~IfMatchFails /\ ~ModifiedSince
        /\ \/ NotModified /\ Halt("K13", 304, CacheableHeaders)
           \/ ~NotModified /\ NoneMatchFails /\ Halt("K13", 412, validators)
           \/ ~NotModified /\ ~NoneMatchFails /\ Skip(Dispatch)
  /\ UNCHANGED <<facts, effects>>

(***************************************************************************)
(* O18: the representation of a safe request.                              *)
(***************************************************************************)
\* _representation_headers: Content-Type, the chosen language, the base.
MutRepresented(base) == base \cup {"Content-Type"} \cup (axes \cap {"Accept-Language"})
Represented(base) ==
  base \cup {"Content-Type"}
       \cup (IF "Accept-Language" \in axes THEN {"Content-Language"} ELSE {})

Body(head) == IF head THEN "empty" ELSE "full"

O18 == /\ At("O18")
       /\ \E status \in {200, 300} :
            Return("O18", status, Represented(CacheableHeaders), Body(method = "HEAD"))
       /\ UNCHANGED <<facts, effects>>

(***************************************************************************)
(* M, N, O, P: the writes.  A side effect is recorded when its callback    *)
(* has run.                                                                *)
(***************************************************************************)
Did(callback) == effects' = effects \cup {callback}

\* delete_resource has run.  It says that the DELETE was not enacted, whatever
\* it did until then; or delete_completed says how far it went.
M20 == /\ At("M20")
       /\ Did("delete_resource")
       /\ \/ Halt("M20", 500, {})
          \/ \E status \in {204, 202} : Return("M20", status, VaryHeader, "empty")
       /\ UNCHANGED facts

N11 == /\ At("N11")
       /\ Pass("N11", "create_path") \/ Pass("N11", "process_post")
       /\ UNCHANGED <<facts, effects>>

CreatePath == /\ At("create_path")
              /\ Skip("decode")
              /\ Did("create_path")
              /\ UNCHANGED facts

ProcessPost == /\ At("process_post")
               /\ Skip("N11a")
               /\ Did("process_post")
               /\ UNCHANGED facts

\* is_conflict, for an update (O14) and for a PUT that creates (P3).
O14 == Gate("O14", 409, "decode")
P3  == Gate("P3", 409, "decode")

\* _apply up to apply(): a codec, the body within its bound, a parse.
Decode == /\ At("decode")
          /\ \/ Pass("P0", "apply")
             \/ Halt("B5", 415, {})
             \/ Halt("B4", 413, {})
             \/ Halt("B9", 400, {})
             \/ Halt("P0", 400, {})
          /\ UNCHANGED <<facts, effects>>

\* A conflict that is_conflict is asked about too late.
MutApply == /\ At("apply")
            /\ Skip(IF method = "POST" THEN "N11a" ELSE "O20") \/ Halt("O14", 409, {})
            /\ Did("apply")
            /\ UNCHANGED facts
Apply == /\ At("apply")
         /\ Skip(IF method = "POST" THEN "N11a" ELSE "O20")
         /\ Did("apply")
         /\ UNCHANGED facts

\* see_other: the redirect that follows a POST's side effects.
N11a == /\ At("N11a")
        /\ Return("N11a", 303, VaryHeader \cup {"Location"}, "empty") \/ Skip("O20")
        /\ UNCHANGED <<facts, effects>>

\* A POST that created, or a PUT to a resource that did not exist.
Creates == "create_path" \in effects \/ ~exists
MutFinishHeaders == VaryHeader
FinishHeaders ==
  IF ~exists THEN {}
  ELSE VaryHeader \cup (IF "create_path" \in effects THEN {"Location"} ELSE {})

\* _finish: accepted (202) or done, each with a body or without.
O20 == /\ At("O20")
       /\ \/ Return("O20a", 202, FinishHeaders \cup {"Location"}, "empty")
          \/ Return("O20a", 202, Represented(FinishHeaders \cup {"Location"}), Body(FALSE))
          \/ Return("O20", IF Creates THEN 201 ELSE 204, FinishHeaders, "empty")
          \/ Return("O20", IF Creates THEN 201 ELSE 200, Represented(FinishHeaders), Body(FALSE))
       /\ UNCHANGED <<facts, effects>>

(***************************************************************************)
(* The missing branch.                                                     *)
(***************************************************************************)
H7 == /\ At("H7")
      /\ \/ cond.ifMatch # "absent" /\ Halt("H7", 412, {})
         \/ cond.ifMatch = "absent" /\ method = "PUT" /\ Pass("I7", "P3")
         \/ cond.ifMatch = "absent" /\ method # "PUT" /\ Skip("K7")
      /\ UNCHANGED <<facts, effects>>

\* previously_existed
K7 == /\ At("K7")
      /\ Pass("K7", "K5") \/ Pass("K7", "L7")
      /\ UNCHANGED <<facts, effects>>

\* moved_permanently, permanent_redirect, moved_temporarily, or gone.
Moved(n, status, next) ==
  /\ At(n)
  /\ Halt(n, status, {"Location"}) \/ Skip(next)
  /\ UNCHANGED <<facts, effects>>

K5  == Moved("K5", 301, "K5a")
K5a == Moved("K5a", 308, "L5")
L5  == Moved("L5", 307, "M5")

Refuse(n, status) ==
  /\ At(n)
  /\ Halt(n, status, {})
  /\ UNCHANGED <<facts, effects>>

M5 == Refuse("M5", 410)
L7 == Refuse("L7", 404)

(***************************************************************************)
(* core.run around the walk.                                               *)
(***************************************************************************)
\* _apply_error_body: nothing below 400, where nothing is offered, or where
\* error_body declines; HEAD gets the header alone.
ErrorBody ==
  /\ At("errorBody")
  /\ node' = "end"
  /\ \/ UNCHANGED response
     \/ /\ response.status >= 400
        /\ response.body = "empty"
        /\ response' = Make(response.status, response.headers \cup {"Content-Type"},
                            Body(method = "HEAD"))
  /\ UNCHANGED <<facts, effects, passed, ending>>

\* Where no callback is asked, and of these where the response is built without
\* a header, so that MalformedHeader cannot be raised either.
NoCallback == {"B12", "B3", "preconditions", "H7", "M5", "L7", "end"}
Pure == NoCallback \ {"B3", "preconditions"}

EffectAt(n) == CASE n = "create_path"  -> {"create_path"}
                 [] n = "apply"        -> {"apply"}
                 [] n = "process_post" -> {"process_post"}
                 [] n = "M20"          -> {"delete_resource"}
                 [] OTHER              -> {}

\* A callback's own HaltResponse (any status, a body or none), or an
\* exception or a cancellation: a callback's, or MalformedHeader for a header
\* value of its that is not one.  A side-effecting callback may have had its
\* effect by then.
CallbackEscapes ==
  /\ node \notin Pure
  /\ effects' \in {effects, effects \cup EffectAt(node)}
  /\ \/ /\ node \notin NoCallback \cup {"errorBody"}
        /\ \E status \in {200, 400}, body \in {"empty", "full"} : response' = Make(status, {}, body)
        /\ ending' = "custom" /\ node' = "errorBody"
     \/ response' = NoResponse /\ ending' = "crashed" /\ node' = "end"
  /\ UNCHANGED <<method, facts, passed>>

Finished == node = "end" /\ UNCHANGED vars

Walk ==
  \/ B13 \/ B13a \/ B12 \/ B11 \/ B10 \/ B9 \/ B8 \/ B7 \/ B7a \/ B6 \/ B5 \/ B4 \/ B3
  \/ C4 \/ D5 \/ F7
  \/ G7 \/ Vary \/ W1 \/ Validators \/ Preconditions
  \/ O18 \/ M20 \/ N11 \/ CreatePath \/ ProcessPost \/ O14 \/ P3 \/ Decode \/ Apply
  \/ N11a \/ O20
  \/ H7 \/ K7 \/ K5 \/ K5a \/ L5 \/ M5 \/ L7

Next == Walk \/ ErrorBody \/ CallbackEscapes \/ Finished

Spec == Init /\ [][Next]_vars

(***************************************************************************)
(* Properties.                                                             *)
(***************************************************************************)
Nodes == {"B13", "B13a", "B12", "B11", "B10", "B9", "B8", "B7", "B7a", "B6", "B5", "B4",
          "B3", "C4", "D5", "F7", "G7", "vary", "W1", "validators", "preconditions",
          "O18", "M20", "N11", "create_path", "process_post", "N11a", "O14", "P3",
          "decode", "apply", "O20", "H7", "K7", "K5", "K5a", "L5", "M5", "L7",
          "errorBody", "end"}
Axes    == {"Accept", "Accept-Language", "Accept-Encoding"}
Headers == {"Retry-After", "Allow", "WWW-Authenticate", "ETag", "Last-Modified",
            "Cache-Control", "Vary", "Content-Type", "Content-Language",
            "Location"}

PathTyped ==
  /\ method \in Methods
  /\ node \in Nodes
  /\ passed \subseteq Nodes \cup {"C4a", "P0", "I7"}
  /\ ending \in {"walking", "returned", "halted", "custom", "crashed"}

FactsTyped ==
  /\ cond \in Conditions
  /\ axes \subseteq Axes
  /\ exists \in BOOLEAN
  /\ vary \subseteq Axes \cup {"X-Own"}
  /\ guarded \in BOOLEAN
  /\ validators \subseteq {"ETag", "Last-Modified"}
  /\ caching \subseteq {"Cache-Control"}
  /\ effects \subseteq SideEffects

Responses   == [status : 0..599, headers : SUBSET Headers, body : {"empty", "full"}]
AnswerTyped == response \in Responses

TypeOK == PathTyped /\ FactsTyped /\ AnswerTyped

\* Answers the core wrote itself.
Answered == node = "end" /\ ending \in {"returned", "halted"}

Mutations == SideEffects \ {"create_path"}

\* PLAN.md 7a: a halt of the graph closes the lifespan cleanly, that is
\* commits it, which is right only because none fires after a mutation ran.
\* Two halts do follow a callback with effects.  After create_path it is a
\* refusal of the body that _apply decodes next.  After delete_resource it is
\* the 500 for a delete that says it was not enacted: that it has then changed
\* nothing is left to the resource.  No halt follows apply or process_post.
NoHaltAfterMutation ==
  ending = "halted" =>
    /\ effects \cap Mutations # {} =>
         effects = {"delete_resource"} /\ response.status = 500
    /\ "create_path" \in effects => response.status \in {400, 413, 415}

\* GET, HEAD, OPTIONS and unknown methods reach no side-effecting callback.
OnlyWritesHaveEffects ==
  effects # {} => method \in {"POST", "PUT", "PATCH", "DELETE"}

\* No side effect precedes the gates: available, known, allowed, authorized,
\* not forbidden, well formed and of a known type; and nobody who was not let
\* through them learns whether the resource exists, moved or changed.
Disclosing == {200, 201, 202, 204, 300, 301, 303, 304, 307, 308, 404, 409, 410, 412, 428}
GatesFirst ==
  effects # {} \/ (Answered /\ response.status \in Disclosing) =>
    /\ {"B13", "B12", "B10", "B8", "B7"} \subseteq passed
    /\ method \in BODY_METHODS => {"B9", "B6", "B5", "B4"} \subseteq passed

\* The lost-update guard: a write that took effect was not refused by any
\* precondition the request carried, with the precedence of RFC 9110, and
\* where the resource demands a precondition it carried one.
WritesHonourPreconditions ==
  effects # {} =>
    IF exists
    THEN /\ cond.ifMatch # "other"
         /\ cond.ifMatch = "absent" => cond.ifUnmodifiedSince # "modified"
         /\ cond.ifNoneMatch # "matches"
         /\ guarded => cond.ifMatch # "absent" \/ cond.ifUnmodifiedSince # "absent"
    ELSE method = "PUT" /\ cond.ifMatch = "absent"

\* A 304 answers a safe request whose validators say nothing changed (a date
\* only where there was no entity tag to go by), and carries the validators,
\* the Vary and the caching headers the 200 would have.
NotModifiedIsSound ==
  response.status = 304 =>
    /\ method \in SAFE_METHODS
    /\ \/ cond.ifNoneMatch = "matches"
       \/ cond.ifNoneMatch = "absent" /\ cond.ifModifiedSince = "unmodified"
    /\ validators \cup caching \cup VaryHeader \subseteq response.headers
    /\ response.body = "empty"

\* What a shared cache may store is keyed on every axis it was chosen on.
CacheKeySound ==
  Answered /\ method \in SAFE_METHODS /\ response.status \in {200, 300, 304} =>
    /\ axes \subseteq vary
    /\ vary # {} => "Vary" \in response.headers

\* The status and the headers agree, whichever of the write paths produced
\* them: a redirection, an accepted write and a POST that created say where to
\* go; a body says what it is; an entity is never labelled on a 204; HEAD gets
\* no body, be it of a representation, of the choices or of an error.
SelfDescribing ==
  Answered =>
    /\ response.status \in {301, 303, 307, 308} => "Location" \in response.headers
    /\ response.status = 202 /\ method # "DELETE" => "Location" \in response.headers
    /\ response.status = 201 /\ method = "POST" => "Location" \in response.headers
    /\ response.body = "full" => "Content-Type" \in response.headers
    /\ response.status = 204 => response.body = "empty" /\ "Content-Type" \notin response.headers
    /\ response.status = 405 => "Allow" \in response.headers
    /\ method = "HEAD" => response.body = "empty"
=============================================================================
