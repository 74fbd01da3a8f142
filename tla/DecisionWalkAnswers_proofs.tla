--------------------- MODULE DecisionWalkAnswers_proofs ---------------------
(***************************************************************************)
(* What the answers of DecisionWalk say, proved for any set of request     *)
(* methods: a 304 is sound, a shared cache's key names every axis, status  *)
(* and headers agree, and HEAD gets no body.  WalkInv tells which methods  *)
(* reach which node; AnswerInv adds what the walk knows of its answer.     *)
(***************************************************************************)
EXTENDS DecisionWalk_proofs

\* Nothing is answered while the walk goes on.
Unanswered == node \notin Over => response = NoResponse

\* From W1 on, Vary names every axis a choice was negotiated on.
Keyed ==
  /\ node \in {"W1", "validators", "preconditions", "O18"} => axes \subseteq vary
  /\ ending \in {"returned", "halted"} /\ method \in SAFE_METHODS
       /\ response.status \in {200, 300, 304} =>
       axes \subseteq vary /\ (vary # {} => "Vary" \in response.headers)

\* A 304 comes from the preconditions alone.
Evidence ==
  response.status = 304 =>
    /\ ending = "halted"
    /\ method \in SAFE_METHODS
    /\ \/ cond.ifNoneMatch = "matches"
       \/ cond.ifNoneMatch = "absent" /\ cond.ifModifiedSince = "unmodified"
    /\ validators \cup caching \cup VaryHeader \subseteq response.headers
    /\ response.body = "empty"

\* Status, headers and body agree, with or without the error body.
Described ==
  ending \in {"returned", "halted"} =>
    /\ response.status \in {301, 303, 307, 308} => "Location" \in response.headers
    /\ response.status = 202 /\ method # "DELETE" => "Location" \in response.headers
    /\ response.status = 201 /\ method = "POST" => "Location" \in response.headers
    /\ response.body = "full" => "Content-Type" \in response.headers
    /\ response.status = 204 => response.body = "empty" /\ "Content-Type" \notin response.headers
    /\ response.status = 405 => "Allow" \in response.headers
    /\ method = "HEAD" => response.body = "empty"

AnswerInv == Unanswered /\ Keyed /\ Evidence /\ Described

-----------------------------------------------------------------------------
(***************************************************************************)
(* AnswerInv is inductive, given WalkInv.                                  *)
(***************************************************************************)
USE DEF AnswerInv, WalkInv, EffectInv, At, Skip, Pass, Halt, Return, Make, NoResponse, facts,
        Over, SAFE_METHODS, BODY_METHODS, CONDITIONAL_WRITE_METHODS

\* A gate halts without a body; only 405 owes a header.
LEMMA GatesAnswer ==
  ASSUME WalkInv, AnswerInv, B13 \/ B13a \/ B12 \/ B11 \/ B10 \/ B9 \/ B8 \/ B7 \/ B7a
       \/ B6 \/ B5 \/ B4 \/ B3
  PROVE  AnswerInv'
<1>1. CASE B13
  BY <1>1 DEF B13, RetryAfter, Unanswered, Keyed, Evidence, Described, VaryHeader
<1>2. CASE B13a
  BY <1>2 DEF B13a, RetryAfter, Unanswered, Keyed, Evidence, Described, VaryHeader
<1>3. CASE B12
  BY <1>3 DEF B12, Unanswered, Keyed, Evidence, Described, VaryHeader
<1>4. CASE B11
  BY <1>4 DEF B11, QuietGate, Unanswered, Keyed, Evidence, Described, VaryHeader
<1>5. CASE B10
  BY <1>5 DEF B10, Unanswered, Keyed, Evidence, Described, VaryHeader
<1>6. CASE B9
  BY <1>6 DEF B9, Gate, Unanswered, Keyed, Evidence, Described, VaryHeader
<1>7. CASE B8
  BY <1>7 DEF B8, Unanswered, Keyed, Evidence, Described, VaryHeader
<1>8. CASE B7
  BY <1>8 DEF B7, Gate, Unanswered, Keyed, Evidence, Described, VaryHeader
<1>9. CASE B7a
  BY <1>9 DEF B7a, QuietGate, Unanswered, Keyed, Evidence, Described, VaryHeader
<1>10. CASE B6
  BY <1>10 DEF B6, Gate, Unanswered, Keyed, Evidence, Described, VaryHeader
<1>11. CASE B5
  BY <1>11 DEF B5, Gate, Unanswered, Keyed, Evidence, Described, VaryHeader
<1>12. CASE B4
  BY <1>12 DEF B4, Gate, Unanswered, Keyed, Evidence, Described, VaryHeader
<1>13. CASE B3
  BY <1>13 DEF B3, Unanswered, Keyed, Evidence, Described, VaryHeader
<1> QED BY <1>1, <1>2, <1>3, <1>4, <1>5, <1>6, <1>7, <1>8, <1>9, <1>10, <1>11, <1>12, <1>13

\* Negotiation halts with 406, before Vary is written.
LEMMA NegotiationAnswers ==
  ASSUME WalkInv, AnswerInv, C4 \/ D5 \/ F7
  PROVE  AnswerInv'
<1>1. CASE C4
  BY <1>1 DEF C4, Unanswered, Keyed, Evidence, Described, VaryHeader
<1>2. CASE D5
  BY <1>2 DEF D5, Axis, Unanswered, Keyed, Evidence, Described, VaryHeader
<1>3. CASE F7
  BY <1>3 DEF F7, Axis, Unanswered, Keyed, Evidence, Described, VaryHeader
<1> QED BY <1>1, <1>2, <1>3

\* What is missing is refused or moved elsewhere.
LEMMA MissingAnswers ==
  ASSUME WalkInv, AnswerInv, H7 \/ K7 \/ K5 \/ K5a \/ L5 \/ M5 \/ L7
  PROVE  AnswerInv'
<1>1. CASE H7
  BY <1>1 DEF H7, Unanswered, Keyed, Evidence, Described, VaryHeader
<1>2. CASE K7
  BY <1>2 DEF K7, Unanswered, Keyed, Evidence, Described, VaryHeader
<1>3. CASE K5
  BY <1>3 DEF K5, Moved, Unanswered, Keyed, Evidence, Described, VaryHeader
<1>4. CASE K5a
  BY <1>4 DEF K5a, Moved, Unanswered, Keyed, Evidence, Described, VaryHeader
<1>5. CASE L5
  BY <1>5 DEF L5, Moved, Unanswered, Keyed, Evidence, Described, VaryHeader
<1>6. CASE M5
  BY <1>6 DEF M5, Refuse, Unanswered, Keyed, Evidence, Described, VaryHeader
<1>7. CASE L7
  BY <1>7 DEF L7, Refuse, Unanswered, Keyed, Evidence, Described, VaryHeader
<1> QED BY <1>1, <1>2, <1>3, <1>4, <1>5, <1>6, <1>7

\* Existence, Vary, the guard and the validators.
LEMMA StateAnswers ==
  ASSUME WalkInv, AnswerInv, G7 \/ Vary \/ W1 \/ Validators
  PROVE  AnswerInv'
<1>1. CASE G7
  BY <1>1 DEF G7, Unanswered, Keyed, Evidence, Described, VaryHeader
<1>2. CASE Vary
  BY <1>2 DEF Vary, VaryHeaders, Unanswered, Keyed, Evidence, Described, VaryHeader
<1>3. CASE W1
  BY <1>3 DEF W1, UpdatePrecondition, Unanswered, Keyed, Evidence, Described, VaryHeader
<1>4. CASE Validators
  BY <1>4 DEF Validators, Unanswered, Keyed, Evidence, Described, VaryHeader
<1> QED BY <1>1, <1>2, <1>3, <1>4

\* A 304 has its evidence and its headers; a 412 has no body.
LEMMA PreconditionsAnswer ==
  ASSUME WalkInv, AnswerInv, Preconditions
  PROVE  AnswerInv'
<1>1. Unanswered'
  BY DEF Preconditions, IfMatchFails, ModifiedSince, NoneMatchFails, Unmodified,
       NotModified, Dispatch, CacheableHeaders, VaryHeader, Unanswered
<1>2. Keyed'
  BY DEF Preconditions, IfMatchFails, ModifiedSince, NoneMatchFails, Unmodified,
       NotModified, Dispatch, CacheableHeaders, VaryHeader, Unanswered, Keyed,
       DispatchInv, ConditionInv
<1>3. Evidence'
  BY DEF Preconditions, IfMatchFails, ModifiedSince, NoneMatchFails, Unmodified,
       NotModified, Dispatch, CacheableHeaders, VaryHeader, Unanswered, Evidence
<1>4. Described'
  BY DEF Preconditions, IfMatchFails, ModifiedSince, NoneMatchFails, Unmodified,
       NotModified, Dispatch, CacheableHeaders, VaryHeader, Unanswered, Described,
       DispatchInv, ConditionInv, GateInv, Honoured, WriteNodes
<1> QED BY <1>1, <1>2, <1>3, <1>4

\* A representation is described, and HEAD sees none of it.
LEMMA RepresentationAnswers ==
  ASSUME WalkInv, AnswerInv, O18
  PROVE  AnswerInv'
<1>1. Unanswered'
  BY DEF O18, Represented, Body, CacheableHeaders, VaryHeader, Unanswered
<1>2. Keyed'
  BY DEF O18, Represented, Body, CacheableHeaders, VaryHeader, Unanswered, Keyed,
       DispatchInv, ConditionInv
<1>3. Evidence'
  BY DEF O18, Represented, Body, CacheableHeaders, VaryHeader, Unanswered, Evidence
<1>4. Described'
  BY DEF O18, Represented, Body, CacheableHeaders, VaryHeader, Unanswered, Described,
       DispatchInv, ConditionInv, GateInv, Honoured, WriteNodes
<1> QED BY <1>1, <1>2, <1>3, <1>4

\* The writes up to O20 halt, redirect or go on.
LEMMA WritesAnswer ==
  ASSUME WalkInv, AnswerInv, M20 \/ N11 \/ CreatePath \/ ProcessPost \/ O14 \/ P3 \/
       Decode \/ Apply \/ N11a
  PROVE  AnswerInv'
<1>1. CASE M20
  BY <1>1 DEF M20, Did, VaryHeader, DispatchInv, Unanswered, Keyed, Evidence, Described
<1>2. CASE N11
  BY <1>2 DEF N11, Unanswered, Keyed, Evidence, Described, VaryHeader
<1>3. CASE CreatePath
  BY <1>3 DEF CreatePath, Did, Unanswered, Keyed, Evidence, Described, VaryHeader
<1>4. CASE ProcessPost
  BY <1>4 DEF ProcessPost, Did, Unanswered, Keyed, Evidence, Described, VaryHeader
<1>5. CASE O14
  BY <1>5 DEF O14, Gate, Unanswered, Keyed, Evidence, Described, VaryHeader
<1>6. CASE P3
  BY <1>6 DEF P3, Gate, Unanswered, Keyed, Evidence, Described, VaryHeader
<1>7. CASE Decode
  BY <1>7 DEF Decode, Unanswered, Keyed, Evidence, Described, VaryHeader
<1>8. CASE Apply
  BY <1>8 DEF Apply, Did, Unanswered, Keyed, Evidence, Described, VaryHeader
<1>9. CASE N11a
  BY <1>9 DEF N11a, VaryHeader, DispatchInv, Unanswered, Keyed, Evidence, Described
<1> QED BY <1>1, <1>2, <1>3, <1>4, <1>5, <1>6, <1>7, <1>8, <1>9

\* A POST that created has a Location, for it was made of what exists.
LEMMA FinishAnswers ==
  ASSUME WalkInv, AnswerInv, O20
  PROVE  AnswerInv'
<1>1. Unanswered'
  BY DEF O20, Creates, FinishHeaders, Represented, Body, VaryHeader, Unanswered
<1>2. Keyed'
  BY DEF O20, Creates, FinishHeaders, Represented, Body, VaryHeader, Unanswered, Keyed,
       DispatchInv, ConditionInv
<1>3. Evidence'
  BY DEF O20, Creates, FinishHeaders, Represented, Body, VaryHeader, Unanswered, Evidence
<1>4. Described'
  BY DEF O20, Creates, FinishHeaders, Represented, Body, VaryHeader, Unanswered,
       Described, DispatchInv, ConditionInv, GateInv, Honoured, WriteNodes
<1> QED BY <1>1, <1>2, <1>3, <1>4

\* An error body brings its Content-Type, and none to HEAD.
LEMMA ErrorBodyAnswers ==
  ASSUME WalkInv, AnswerInv, ErrorBody
  PROVE  AnswerInv'
<1>1. Unanswered'
  BY DEF ErrorBody, Body, Unanswered
<1>2. Keyed'
  BY DEF ErrorBody, Body, Unanswered, Keyed, DispatchInv, ConditionInv
<1>3. Evidence'
  BY DEF ErrorBody, Body, Unanswered, Evidence, VaryHeader
<1>4. Described'
  BY DEF ErrorBody, Body, Unanswered, Described, DispatchInv, ConditionInv, GateInv,
       Honoured, WriteNodes
<1> QED BY <1>1, <1>2, <1>3, <1>4

\* What escapes a callback is no answer of the graph.
LEMMA EscapesAnswer ==
  ASSUME WalkInv, AnswerInv, CallbackEscapes
  PROVE  AnswerInv'
<1>1. Unanswered'
  BY DEF CallbackEscapes, Unanswered
<1>2. Keyed'
  BY DEF CallbackEscapes, Unanswered, Keyed, DispatchInv, ConditionInv
<1>3. Evidence'
  BY DEF CallbackEscapes, Unanswered, Evidence, VaryHeader
<1>4. Described'
  BY DEF CallbackEscapes, Unanswered, Described, DispatchInv, ConditionInv, GateInv,
       Honoured, WriteNodes
<1> QED BY <1>1, <1>2, <1>3, <1>4

-----------------------------------------------------------------------------
(***************************************************************************)
(* The theorems.                                                           *)
(***************************************************************************)
HIDE DEF AnswerInv, WalkInv, EffectInv, At, Skip, Pass, Halt, Return, Make, NoResponse, facts

\* Every walk keeps AnswerInv, whatever the callbacks answer.
THEOREM AnswersInductive == Spec => []AnswerInv
<1>1. Init => AnswerInv
  BY DEF Init, AnswerInv, Unanswered, Keyed, Evidence, Described, NoResponse
<1>2. ASSUME WalkInv, AnswerInv, [Next]_vars PROVE AnswerInv'
  <2>1. CASE Walk
    BY <1>2, <2>1, GatesAnswer, NegotiationAnswers, MissingAnswers, StateAnswers,
       PreconditionsAnswer, RepresentationAnswers, WritesAnswer, FinishAnswers DEF Walk
  <2>2. CASE ErrorBody
    BY <1>2, <2>2, ErrorBodyAnswers
  <2>3. CASE CallbackEscapes
    BY <1>2, <2>3, EscapesAnswer
  <2>4. CASE UNCHANGED vars
    BY <1>2, <2>4 DEF vars, facts, AnswerInv, Unanswered, Keyed, Evidence, Described,
         VaryHeader
  <2> QED BY <1>2, <2>1, <2>2, <2>3, <2>4 DEF Next, Finished
<1> QED BY <1>1, <1>2, WalkInductive, PTL DEF Spec

\* A 304 is sound: the client's validator is current and the headers are there.
THEOREM NotModifiedSound == Spec => []NotModifiedIsSound
<1>1. AnswerInv => NotModifiedIsSound
  BY DEF AnswerInv, Evidence, NotModifiedIsSound
<1> QED BY <1>1, AnswersInductive, PTL

\* A cacheable answer is keyed on every axis it was chosen on.
THEOREM CacheKeyIsSound == Spec => []CacheKeySound
<1>1. AnswerInv => CacheKeySound
  BY DEF AnswerInv, Keyed, CacheKeySound, Answered
<1> QED BY <1>1, AnswersInductive, PTL

\* Status, headers and body agree.
THEOREM AnswersDescribeThemselves == Spec => []SelfDescribing
<1>1. AnswerInv => SelfDescribing
  BY DEF AnswerInv, Described, SelfDescribing, Answered
<1> QED BY <1>1, AnswersInductive, PTL
=============================================================================
