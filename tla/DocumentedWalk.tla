---------------------------- MODULE DocumentedWalk ----------------------------
(***************************************************************************)
(* The OpenAPI document of schema.py against the walk it documents.  A     *)
(* resource overrides some callbacks and declares some attributes; every   *)
(* other callback is the default of resource.py.  DecisionWalk lets each   *)
(* callback answer anything; here one that is not overridden answers its   *)
(* default, and _auto_error_statuses derives from the same overrides the   *)
(* statuses the document lists.                                            *)
(***************************************************************************)
EXTENDS DecisionWalk

CONSTANT Overrides     \* the sets of overrides a resource may have

VARIABLE overrides     \* those of the resource

documented == <<vars, overrides>>

_DOCUMENTABLE == {"GET", "POST", "PUT", "PATCH", "DELETE"}
_BODY_METHODS == {"POST", "PUT", "PATCH"}
_EXISTENCE_METHODS == {"GET", "HEAD", "DELETE", "PATCH"}
_READ_METHODS == {"GET", "HEAD"}
Mut_CONDITIONAL_WRITE_METHODS == {"PUT", "DELETE"}
_CONDITIONAL_WRITE_METHODS == {"PUT", "PATCH", "DELETE"}

Callbacks ==
  {"allowed_methods", "service_available", "within_rate_limit", "uri_too_long",
   "malformed_request", "is_authorized", "forbidden", "is_legally_restricted",
   "valid_content_headers", "valid_entity_length", "resource_exists", "variances", "require_conditional_write",
   "generate_etag", "last_modified", "expires", "cache_control", "multiple_choices", "represent",
   "delete_resource", "delete_completed", "post_is_create", "create_path",
   "process_post", "is_conflict", "apply", "see_other", "accepted", "previously_existed",
   "moved_permanently", "permanent_redirect", "moved_temporarily", "error_body"}
\* PRODUCES is declared by every resource: here it stands for one that is empty.
Declarations == {"PRODUCES", "CONSUMES", "LANGUAGES", "ENCODINGS", "IGNORE_UNACCEPTABLE"}

ASSUME OverridesAssumption == Overrides \subseteq SUBSET (Callbacks \cup Declarations)

(***************************************************************************)
(* resource.py: what a step from a node does when the callback asked there *)
(* is the default.                                                         *)
(***************************************************************************)
Default(callback, n, outcome) == node = n /\ callback \notin overrides => outcome

\* The gates pass.  The document lists the methods in ALLOWED_METHODS alone.
DefaultGates ==
  /\ Default("service_available", "B13", node' = "B13a")
  /\ Default("within_rate_limit", "B13a", node' = "B12")
  /\ Default("uri_too_long", "B11", node' = "B10")
  /\ Default("allowed_methods", "B10", node' \in {"B9", "B8"})
  /\ Default("malformed_request", "B9", node' = "B8")
  /\ Default("is_authorized", "B8", node' = "B7")
  /\ Default("forbidden", "B7", node' = "B7a")
  /\ Default("is_legally_restricted", "B7a", node' \in {"B6", "B3"})
  /\ Default("valid_content_headers", "B6", node' = "B5")
  /\ Default("CONSUMES", "B5", node' = "B4")

\* An axis with nothing offered is skipped; one that is disregarded never refuses.
\* Accept is never skipped, and disregarded only where something is offered.
DefaultNegotiation ==
  /\ node = "C4" /\ "PRODUCES" \in overrides => response'.status = 406 /\ axes' = {}
  /\ Default("IGNORE_UNACCEPTABLE", "C4", passed' \subseteq passed \cup {"C4"})
  /\ Default("LANGUAGES", "D5", node' = "F7" /\ axes' = axes)
  /\ Default("ENCODINGS", "F7", node' = "G7" /\ axes' = axes)
  /\ "IGNORE_UNACCEPTABLE" \in overrides =>
       /\ node \in {"D5", "F7"} => ending' # "halted"
       /\ Default("PRODUCES", "C4", ending' # "halted")

\* The resource exists, varies on nothing of its own, and has no validators.
DefaultState ==
  /\ Default("resource_exists", "G7", exists')
  /\ Default("variances", "vary", vary' = axes)
  /\ Default("require_conditional_write", "W1", ~guarded' /\ node' = "validators")
  /\ Default("generate_etag", "validators", "ETag" \notin validators')
  /\ Default("last_modified", "validators", "Last-Modified" \notin validators')
  /\ {"expires", "cache_control"} \cap overrides = {} /\ node = "validators" => caching' = {}
  /\ Default("multiple_choices", "O18", response'.status # 300)

\* A handler that is not implemented raises; the others decline.
DefaultWrites ==
  /\ Default("represent", "O18", response'.status # 200)
  /\ Default("delete_resource", "M20", ending' = "crashed")
  /\ Default("delete_completed", "M20", response'.status # 202)
  /\ Default("post_is_create", "N11", node' = "process_post")
  /\ \A callback \in {"create_path", "process_post", "apply"} :
       Default(callback, callback, ending' = "crashed")
  /\ Default("is_conflict", "O14", node' = "decode")
  /\ Default("is_conflict", "P3", node' = "decode")
  /\ Default("see_other", "N11a", node' = "O20")
  /\ Default("accepted", "O20", response'.status # 202)

\* What is missing never existed, and an error has a body.
DefaultMissing ==
  /\ Default("previously_existed", "K7", node' = "L7")
  /\ Default("moved_permanently", "K5", node' = "K5a")
  /\ Default("permanent_redirect", "K5a", node' = "L5")
  /\ Default("moved_temporarily", "L5", node' = "M5")
  /\ Default("error_body", "errorBody",
             response.status >= 400 => "Content-Type" \in response'.headers \/ response.body # "empty")

Defaults ==
  DefaultGates /\ DefaultNegotiation /\ DefaultState /\ DefaultWrites /\ DefaultMissing

DocumentedInit == Init /\ method \in _DOCUMENTABLE /\ overrides \in Overrides

\* Only a default handler that is not implemented escapes: the halts and the
\* failures of an override are the resource's own to document.
NotImplementedError == CallbackEscapes /\ ending' = "crashed" /\ EffectAt(node) \cap overrides = {}

DocumentedNext ==
  /\ Walk \/ ErrorBody \/ NotImplementedError \/ Finished
  /\ Defaults
  /\ UNCHANGED overrides
DocumentedSpec == DocumentedInit /\ [][DocumentedNext]_documented

(***************************************************************************)
(* schema.py: the statuses derived for a method.                           *)
(***************************************************************************)
Listed(status, condition) == IF condition THEN {status} ELSE {}

_overrides(callback) == callback \in overrides

OffersVariants == _overrides("LANGUAGES") \/ _overrides("ENCODINGS")
HasValidators  == _overrides("generate_etag") \/ _overrides("last_modified")

_auto_error_statuses(m) ==
  Listed(429, _overrides("within_rate_limit"))
    \cup Listed(414, _overrides("uri_too_long"))
    \cup Listed(401, _overrides("is_authorized"))
    \cup Listed(403, _overrides("forbidden"))
    \cup Listed(451, _overrides("is_legally_restricted"))
    \cup Listed(404, m \in _EXISTENCE_METHODS /\ _overrides("resource_exists"))
    \cup Listed(406, ~_overrides("IGNORE_UNACCEPTABLE") /\ (m \in _READ_METHODS \/ OffersVariants))
    \cup Listed(415, m \in _BODY_METHODS /\ _overrides("CONSUMES"))
    \cup Listed(400, m \in _BODY_METHODS /\ (_overrides("CONSUMES") \/ _overrides("malformed_request")))
    \cup Listed(413, m \in _BODY_METHODS /\ _overrides("valid_entity_length"))
    \cup Listed(501, m \in _BODY_METHODS /\ _overrides("valid_content_headers"))
    \cup Listed(409, m \in _BODY_METHODS /\ _overrides("is_conflict"))
    \cup Listed(412, HasValidators)
    \cup Listed(304, m \in _READ_METHODS /\ HasValidators)
    \cup Listed(428, m \in _CONDITIONAL_WRITE_METHODS /\ _overrides("require_conditional_write"))
    \cup Listed(202, m \in _BODY_METHODS /\ _overrides("accepted"))

(***************************************************************************)
(* Properties.                                                             *)
(***************************************************************************)
\* The statuses for which the document has a rule.
Derivable == {202, 304, 400, 401, 403, 404, 406, 409, 412, 413, 414, 415, 428, 429, 451, 501}

\* Where the rules fall short of the walk: POST to what is missing; Accept on
\* writes; PRODUCES empty where Accept is disregarded; bodies that _apply finds undecodable although CONSUMES is empty, or
\* longer than MAX_BODY_BYTES; If-Match and * where there is no validator; a
\* DELETE accepted for later.
ByEntityTag == cond.ifMatch # "absent" \/ cond.ifNoneMatch = "matches"
Shortfall ==
  Listed(404, method = "POST" /\ ~exists)
    \cup Listed(406, method \notin SAFE_METHODS /\ ~OffersVariants)
    \cup Listed(406, _overrides("PRODUCES") /\ _overrides("IGNORE_UNACCEPTABLE"))
    \cup Listed(415, method \in BODY_METHODS /\ ~_overrides("CONSUMES") /\ "B5" \in passed)
    \cup Listed(400, method \in BODY_METHODS /\ ~_overrides("CONSUMES") /\ "B9" \in passed)
    \cup Listed(413, method \in BODY_METHODS /\ ~_overrides("valid_entity_length"))
    \cup Listed(412, ~HasValidators /\ ByEntityTag)
    \cup Listed(304, ~HasValidators /\ ByEntityTag /\ method \in SAFE_METHODS)
    \cup Listed(202, method = "DELETE")

\* openapi.md: "the document tracks behavior by construction".  Whatever a
\* resource overrides, an answer of the walk for whose status the document has
\* a rule is listed for its method, but for the shortfall named above.
DocumentCovers ==
  Answered /\ response.status \in Derivable =>
    response.status \in _auto_error_statuses(method) \cup Shortfall
=============================================================================
