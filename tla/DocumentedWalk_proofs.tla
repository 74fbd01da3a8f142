------------------------ MODULE DocumentedWalk_proofs ------------------------
(***************************************************************************)
(* DocumentCovers, proved for every set of overrides a resource may have:  *)
(* a status the document has a rule for is listed, or is one of the named  *)
(* shortfalls.  WalkInv tells which methods reach which node; DocumentInv  *)
(* adds which overrides do.                                                *)
(***************************************************************************)
EXTENDS DocumentedWalk, DecisionWalk_proofs

\* A status is listed for the request's method, or falls short.
Expected(s) ==
  \/ s = 429 /\ "within_rate_limit" \in overrides
  \/ s = 414 /\ "uri_too_long" \in overrides
  \/ s = 401 /\ "is_authorized" \in overrides
  \/ s = 403 /\ "forbidden" \in overrides
  \/ s = 451 /\ "is_legally_restricted" \in overrides
  \/ s = 404 /\ method = "POST" /\ ~exists
  \/ s = 404 /\ method \in _EXISTENCE_METHODS /\ "resource_exists" \in overrides
  \/ s = 406 /\ "IGNORE_UNACCEPTABLE" \notin overrides
       /\ (method \in SAFE_METHODS \/ {"LANGUAGES", "ENCODINGS"} \cap overrides # {})
  \/ s = 406 /\ {"PRODUCES", "IGNORE_UNACCEPTABLE"} \subseteq overrides
  \/ s = 406 /\ method \notin SAFE_METHODS /\ {"LANGUAGES", "ENCODINGS"} \cap overrides = {}
  \/ s = 415 /\ method \in BODY_METHODS /\ ("CONSUMES" \in overrides \/ "B5" \in passed)
  \/ s = 400 /\ method \in BODY_METHODS
       /\ (overrides \cap {"CONSUMES", "malformed_request"} # {} \/ "B9" \in passed)
  \/ s = 413 /\ method \in BODY_METHODS
  \/ s = 501 /\ method \in BODY_METHODS /\ "valid_content_headers" \in overrides
  \/ s = 409 /\ method \in BODY_METHODS /\ "is_conflict" \in overrides
  \/ s = 412 /\ (HasValidators \/ ByEntityTag)
  \/ s = 304 /\ method \in SAFE_METHODS /\ (HasValidators \/ ByEntityTag)
  \/ s = 428 /\ method \in CONDITIONAL_WRITE_METHODS
       /\ "require_conditional_write" \in overrides
  \/ s = 202 /\ (method = "DELETE" \/ (method \in BODY_METHODS /\ "accepted" \in overrides))

MissingNodes == {"H7", "P3", "K7", "K5", "K5a", "L5", "M5", "L7"}

DocumentInv ==
  /\ method \in _DOCUMENTABLE
  /\ node \in MissingNodes => ~exists /\ "resource_exists" \in overrides
  /\ node \in MissingNodes \ {"H7", "P3"} => method # "PUT"
  /\ node = "W1" => method \in CONDITIONAL_WRITE_METHODS
  /\ node = "decode" => {"B9", "B5"} \subseteq passed
  /\ node = "preconditions" /\ ~HasValidators => validators = {}
  /\ node = "preconditions" => Presupposed \subseteq validators
  /\ ending \in {"returned", "halted"} /\ response.status \in Derivable => Expected(response.status)

-----------------------------------------------------------------------------
(***************************************************************************)
(* DocumentInv is inductive, given WalkInv.                                *)
(***************************************************************************)
USE DEF DocumentInv, WalkInv, MissingNodes, Expected, Derivable, HasValidators, ByEntityTag, _overrides,
        Default, EffectInv, At, Skip, Pass, Halt, Return, Make, NoResponse, facts,
        Over, SAFE_METHODS, BODY_METHODS, CONDITIONAL_WRITE_METHODS

\* A gate that refuses is overridden.
LEMMA DocumentedGates ==
  ASSUME WalkInv, DocumentInv, DefaultGates, UNCHANGED overrides, B13 \/ B13a \/ B12 \/
       B11 \/ B10 \/ B9 \/ B8 \/ B7 \/ B7a \/ B6 \/ B5 \/ B4 \/ B3
  PROVE  DocumentInv'
<1>1. CASE B13
  BY <1>1 DEF B13, RetryAfter, DefaultGates, GateInv, KNOWN_METHODS, _DOCUMENTABLE
<1>2. CASE B13a
  BY <1>2 DEF B13a, RetryAfter, DefaultGates, GateInv, KNOWN_METHODS, _DOCUMENTABLE
<1>3. CASE B12
  BY <1>3 DEF B12, DefaultGates, GateInv, KNOWN_METHODS, _DOCUMENTABLE
<1>4. CASE B11
  BY <1>4 DEF B11, QuietGate, DefaultGates, GateInv, KNOWN_METHODS, _DOCUMENTABLE
<1>5. CASE B10
  BY <1>5 DEF B10, DefaultGates, GateInv, KNOWN_METHODS, _DOCUMENTABLE
<1>6. CASE B9
  BY <1>6 DEF B9, Gate, DefaultGates, GateInv, KNOWN_METHODS, _DOCUMENTABLE
<1>7. CASE B8
  BY <1>7 DEF B8, DefaultGates, GateInv, KNOWN_METHODS, _DOCUMENTABLE
<1>8. CASE B7
  BY <1>8 DEF B7, Gate, DefaultGates, GateInv, KNOWN_METHODS, _DOCUMENTABLE
<1>9. CASE B7a
  BY <1>9 DEF B7a, QuietGate, DefaultGates, GateInv, KNOWN_METHODS, _DOCUMENTABLE
<1>10. CASE B6
  BY <1>10 DEF B6, Gate, DefaultGates, GateInv, KNOWN_METHODS, _DOCUMENTABLE
<1>11. CASE B5
  BY <1>11 DEF B5, Gate, DefaultGates, GateInv, KNOWN_METHODS, _DOCUMENTABLE
<1>12. CASE B4
  BY <1>12 DEF B4, Gate, DefaultGates, GateInv, KNOWN_METHODS, _DOCUMENTABLE
<1>13. CASE B3
  BY <1>13 DEF B3, DefaultGates, GateInv, KNOWN_METHODS, _DOCUMENTABLE
<1> QED BY <1>1, <1>2, <1>3, <1>4, <1>5, <1>6, <1>7, <1>8, <1>9, <1>10, <1>11, <1>12, <1>13

\* A 406 has an axis that is offered and not disregarded, or nothing to produce.
LEMMA DocumentedNegotiation ==
  ASSUME WalkInv, DocumentInv, DefaultNegotiation, UNCHANGED overrides, C4 \/ D5 \/ F7
  PROVE  DocumentInv'
<1>1. CASE C4
  BY <1>1 DEF C4, DefaultNegotiation, GateInv, Presupposed
<1>2. CASE D5
  BY <1>2 DEF D5, Axis, DefaultNegotiation, GateInv, Presupposed
<1>3. CASE F7
  BY <1>3 DEF F7, Axis, DefaultNegotiation, GateInv, Presupposed
<1> QED BY <1>1, <1>2, <1>3

\* Only an overridden resource_exists leads to what is missing.
LEMMA DocumentedMissing ==
  ASSUME WalkInv, DocumentInv, DefaultMissing, UNCHANGED overrides, H7 \/ K7 \/ K5 \/
       K5a \/ L5 \/ M5 \/ L7
  PROVE  DocumentInv'
<1>1. CASE H7
  BY <1>1 DEF H7, DefaultMissing, GateInv, DispatchInv, KNOWN_METHODS,
       _EXISTENCE_METHODS, ToB12, ToB3, ToB4, ToB8, ToB10, WriteNodes, ConditionInv
<1>2. CASE K7
  BY <1>2 DEF K7, DefaultMissing, GateInv, DispatchInv, KNOWN_METHODS,
       _EXISTENCE_METHODS, ToB12, ToB3, ToB4, ToB8, ToB10, WriteNodes, ConditionInv
<1>3. CASE K5
  BY <1>3 DEF K5, Moved, DefaultMissing, GateInv, DispatchInv, KNOWN_METHODS,
       _EXISTENCE_METHODS, ToB12, ToB3, ToB4, ToB8, ToB10, WriteNodes, ConditionInv
<1>4. CASE K5a
  BY <1>4 DEF K5a, Moved, DefaultMissing, GateInv, DispatchInv, KNOWN_METHODS,
       _EXISTENCE_METHODS, ToB12, ToB3, ToB4, ToB8, ToB10, WriteNodes, ConditionInv
<1>5. CASE L5
  BY <1>5 DEF L5, Moved, DefaultMissing, GateInv, DispatchInv, KNOWN_METHODS,
       _EXISTENCE_METHODS, ToB12, ToB3, ToB4, ToB8, ToB10, WriteNodes, ConditionInv
<1>6. CASE M5
  BY <1>6 DEF M5, Refuse, DefaultMissing, GateInv, DispatchInv, KNOWN_METHODS,
       _EXISTENCE_METHODS, ToB12, ToB3, ToB4, ToB8, ToB10, WriteNodes, ConditionInv
<1>7. CASE L7
  BY <1>7 DEF L7, Refuse, DefaultMissing, GateInv, DispatchInv, KNOWN_METHODS,
       _EXISTENCE_METHODS, ToB12, ToB3, ToB4, ToB8, ToB10, WriteNodes, ConditionInv
<1> QED BY <1>1, <1>2, <1>3, <1>4, <1>5, <1>6, <1>7

\* Existence, the guard and the validators are those overridden.
LEMMA DocumentedState ==
  ASSUME WalkInv, DocumentInv, DefaultState, UNCHANGED overrides, G7 \/ Vary \/ W1 \/
       Validators \/ Preconditions
  PROVE  DocumentInv'
<1>1. CASE G7
  BY <1>1 DEF G7, DefaultState
<1>2. CASE Vary
  BY <1>2 DEF Vary, VaryHeaders, DefaultState
<1>3. CASE W1
  BY <1>3 DEF W1, UpdatePrecondition, DefaultState
<1>4. CASE Validators
  BY <1>4 DEF Validators, Presupposed, DefaultState
<1>5. CASE Preconditions
  <2>1. HasValidators \/ ByEntityTag \/ (~ModifiedSince /\ ~IfMatchFails /\ ~NotModified /\ ~NoneMatchFails)
    <3>1. CASE "Last-Modified" \in Presupposed
      BY <1>5, <3>1 DEF Preconditions
    <3>2. CASE "Last-Modified" \notin Presupposed
      BY <3>2 DEF Presupposed, ModifiedSince, IfMatchFails, NotModified, Unmodified,
           NoneMatchFails
    <3> QED BY <3>1, <3>2
  <2>2. CASE ending' = "halted"
    <3>1. response'.status = 412 \/ (response'.status = 304 /\ method \in SAFE_METHODS)
      BY <1>5, <2>2 DEF Preconditions, NotModified
    <3>2. HasValidators' \/ ByEntityTag'
      BY <1>5, <2>1, <2>2 DEF Preconditions
    <3> QED BY <1>5, <2>2, <3>1, <3>2 DEF Preconditions, Presupposed
  <2>3. CASE ending' = "walking"
    BY <1>5, <2>3 DEF Preconditions, Dispatch
  <2> QED BY <1>5, <2>2, <2>3 DEF Preconditions, Dispatch
<1> QED BY <1>1, <1>2, <1>3, <1>4, <1>5

\* A representation is no error.
LEMMA DocumentedRepresentations ==
  ASSUME WalkInv, DocumentInv, DefaultWrites, UNCHANGED overrides, O18
  PROVE  DocumentInv'
<1> QED BY DEF O18, Represented, Body, CacheableHeaders, VaryHeader, DefaultWrites

\* A write refused or accepted for later is one whose callback is overridden.
LEMMA DocumentedWrites ==
  ASSUME WalkInv, DocumentInv, DefaultWrites, UNCHANGED overrides, M20 \/ N11 \/
       CreatePath \/ ProcessPost \/ O14 \/ P3 \/ Decode \/ Apply \/ N11a \/ O20
  PROVE  DocumentInv'
<1>1. CASE M20
  <2>1. method' = "DELETE" /\ response'.status \in {500, 204, 202} /\ node' \in Over
    BY <1>1 DEF M20, DispatchInv
  <2> QED BY <1>1, <2>1 DEF M20
<1>2. CASE N11
  BY <1>2 DEF N11, DefaultWrites, GateInv, DispatchInv, ToB3, ToB4, ToB8, ToB10, ToB12
<1>3. CASE CreatePath
  BY <1>3 DEF CreatePath, Did, DefaultWrites, GateInv, DispatchInv, ToB3, ToB4, ToB8,
       ToB10, ToB12
<1>4. CASE ProcessPost
  BY <1>4 DEF ProcessPost, Did, DefaultWrites, GateInv, DispatchInv, ToB3, ToB4, ToB8,
       ToB10, ToB12
<1>5. CASE O14
  BY <1>5 DEF O14, Gate, DefaultWrites, GateInv, DispatchInv, ToB3, ToB4, ToB8, ToB10, ToB12
<1>6. CASE P3
  BY <1>6 DEF P3, Gate, DefaultWrites, GateInv, DispatchInv, ToB3, ToB4, ToB8, ToB10, ToB12
<1>7. CASE Decode
  BY <1>7 DEF Decode, DefaultWrites, GateInv, DispatchInv, ToB3, ToB4, ToB8, ToB10, ToB12
<1>8. CASE Apply
  BY <1>8 DEF Apply, Did, DefaultWrites, GateInv, DispatchInv, ToB3, ToB4, ToB8, ToB10,
       ToB12
<1>9. CASE N11a
  BY <1>9 DEF N11a, VaryHeader, DefaultWrites, GateInv, DispatchInv, ToB3, ToB4, ToB8,
       ToB10, ToB12
<1>10. CASE O20
  BY <1>10 DEF O20, Creates, FinishHeaders, Represented, Body, VaryHeader,
       DefaultWrites, GateInv, DispatchInv, ToB3, ToB4, ToB8, ToB10, ToB12
<1> QED BY <1>1, <1>2, <1>3, <1>4, <1>5, <1>6, <1>7, <1>8, <1>9, <1>10

\* An error body keeps the status.
LEMMA DocumentedErrorBody ==
  ASSUME WalkInv, DocumentInv, DefaultMissing, UNCHANGED overrides, ErrorBody
  PROVE  DocumentInv'
<1> QED BY DEF ErrorBody, Body, DefaultMissing

\* A handler that is not implemented gives no answer.
LEMMA DocumentedEscapes ==
  ASSUME WalkInv, DocumentInv, DefaultWrites, UNCHANGED overrides, NotImplementedError
  PROVE  DocumentInv'
<1> QED BY DEF NotImplementedError, CallbackEscapes, EffectAt, Pure, DefaultWrites

-----------------------------------------------------------------------------
(***************************************************************************)
(* The theorem.                                                            *)
(***************************************************************************)
HIDE DEF DocumentInv, WalkInv, EffectInv, Expected, Derivable, Default, At, Skip, Pass, Halt, Return, Make,
         NoResponse, facts

\* A documented walk is a walk: each of its steps is one of DecisionWalk.
THEOREM DocumentedIsWalk == DocumentedSpec => Spec
<1>1. DocumentedInit => Init
  BY DEF DocumentedInit
<1>2. [DocumentedNext]_documented => [Next]_vars
  BY DEF DocumentedNext, documented, Next, NotImplementedError
<1> QED BY <1>1, <1>2, PTL DEF DocumentedSpec, Spec

\* Every documented walk keeps DocumentInv, whatever is overridden.
THEOREM DocumentInductive == DocumentedSpec => []DocumentInv
<1>1. DocumentedInit => DocumentInv
  BY DEF DocumentedInit, Init, DocumentInv, MissingNodes
<1>2. ASSUME WalkInv, DocumentInv, [DocumentedNext]_documented PROVE DocumentInv'
  <2>1. CASE DocumentedNext
    <3>1. UNCHANGED overrides /\ DefaultGates /\ DefaultNegotiation /\ DefaultState
            /\ DefaultWrites /\ DefaultMissing
      BY <2>1 DEF DocumentedNext, Defaults
    <3>2. CASE Walk
      BY <1>2, <3>1, <3>2, DocumentedGates, DocumentedNegotiation, DocumentedMissing,
         DocumentedState, DocumentedRepresentations, DocumentedWrites DEF Walk
    <3>3. CASE ErrorBody
      BY <1>2, <3>1, <3>3, DocumentedErrorBody
    <3>4. CASE NotImplementedError
      BY <1>2, <3>1, <3>4, DocumentedEscapes
    <3>5. CASE Finished
      BY <1>2, <3>1, <3>5 DEF Finished, vars, facts, DocumentInv, MissingNodes,
           Presupposed, Expected,
         HasValidators, ByEntityTag, _overrides
    <3> QED BY <2>1, <3>2, <3>3, <3>4, <3>5 DEF DocumentedNext
  <2>2. CASE UNCHANGED documented
    BY <1>2, <2>2 DEF documented, vars, facts, DocumentInv, MissingNodes, Presupposed,
         Expected,
       HasValidators, ByEntityTag, _overrides
  <2> QED BY <1>2, <2>1, <2>2
<1> QED BY <1>1, <1>2, DocumentedIsWalk, WalkInductive, PTL DEF DocumentedSpec

\* What is expected is listed or named as a shortfall.
LEMMA ExpectedIsDocumented ==
  ASSUME NEW s, Expected(s)
  PROVE  s \in _auto_error_statuses(method) \cup Shortfall
<1> USE DEF Expected, Listed, _overrides, _BODY_METHODS, _READ_METHODS, _CONDITIONAL_WRITE_METHODS,
            _EXISTENCE_METHODS, OffersVariants, HasValidators
<1>1. CASE s \in {429, 414, 401, 403, 451}
  BY <1>1 DEF _auto_error_statuses
<1>2. CASE s \in {404, 406}
  BY <1>2 DEF _auto_error_statuses, Shortfall
<1>3. CASE s \in {415, 400, 413, 501, 409}
  BY <1>3 DEF _auto_error_statuses, Shortfall
<1>4. CASE s \in {412, 304, 428, 202}
  BY <1>4 DEF _auto_error_statuses, Shortfall
<1> QED BY <1>1, <1>2, <1>3, <1>4

\* Whatever a resource overrides, its answers are documented.
THEOREM AnswersAreDocumented == DocumentedSpec => []DocumentCovers
<1>1. DocumentInv => DocumentCovers
  BY ExpectedIsDocumented DEF DocumentInv, DocumentCovers, Answered
<1> QED BY <1>1, DocumentInductive, PTL
=============================================================================
