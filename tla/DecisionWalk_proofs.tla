------------------------ MODULE DecisionWalk_proofs ------------------------
(***************************************************************************)
(* DecisionWalk, proved for any set of request methods: no halt of the     *)
(* graph fires after a mutation, only writes have effects, the gates come  *)
(* first, and a write that took effect honoured every precondition.  All   *)
(* rest on one inductive invariant, WalkInv, that says what is known at    *)
(* each node.  Besides: the graph has no cycle, and mutates at most once.  *)
(***************************************************************************)
EXTENDS DecisionWalk, TLAPS

(***************************************************************************)
(* What is known at each node.                                             *)
(***************************************************************************)
\* The gates before a node, in the order the walk meets them.
ToB12 == {"B13", "B13a", "B12"}
ToB10 == ToB12 \cup {"B11", "B10"}
ToB8  == ToB10 \cup {"B9", "B8"}
ToB4  == ToB8 \cup {"B7", "B7a", "B6", "B5", "B4"}
ToB3  == ToB4 \cup {"B3"}
ToW1  == ToB3 \cup {"C4", "D5", "F7", "G7", "vary", "W1"}
Over  == {"errorBody", "end"}

GateInv ==
  /\ node # "B13" /\ node \notin Over => "B13" \in passed
  /\ node \notin ToB12 \cup Over => "B12" \in passed /\ method \in KNOWN_METHODS
  /\ node \notin ToB10 \cup Over => "B10" \in passed
  /\ node \notin ToB10 \cup {"B9"} \cup Over /\ method \in BODY_METHODS => "B9" \in passed
  /\ node \notin ToB8 \cup Over => "B8" \in passed
  /\ node \notin ToB8 \cup {"B7"} \cup Over => "B7" \in passed
  /\ node \in {"B9", "B6", "B5", "B4"} => method \in BODY_METHODS
  /\ node \in {"B5", "B4"} => "B6" \in passed
  /\ node = "B4" => "B5" \in passed
  /\ node \notin ToB4 \cup Over /\ method \in BODY_METHODS =>
       {"B6", "B5", "B4"} \subseteq passed
  /\ node \notin ToB3 \cup Over => method # "OPTIONS"

Cleared ==
  /\ {"B13", "B12", "B10", "B8", "B7"} \subseteq passed
  /\ method \in BODY_METHODS => {"B9", "B6", "B5", "B4"} \subseteq passed

\* Which method is dispatched to which nodes.
DispatchInv ==
  /\ node = "O18" => method \in SAFE_METHODS
  /\ node = "M20" => method = "DELETE"
  /\ node \in {"N11", "create_path", "process_post", "N11a"} => method = "POST"
  /\ node = "O14" => method \in {"PUT", "PATCH"}
  /\ node = "P3" => method = "PUT"
  /\ node \in {"decode", "apply", "O20"} => method \in BODY_METHODS

\* The preconditions the request carried let a write through.
Honoured ==
  IF exists
  THEN /\ cond.ifMatch # "other"
       /\ cond.ifMatch = "absent" => cond.ifUnmodifiedSince # "modified"
       /\ cond.ifNoneMatch # "matches"
       /\ guarded => cond.ifMatch # "absent" \/ cond.ifUnmodifiedSince # "absent"
  ELSE method = "PUT" /\ cond.ifMatch = "absent"

WriteNodes == {"M20", "N11", "create_path", "process_post", "N11a", "O14", "P3",
               "decode", "apply", "O20"}

ConditionInv ==
  /\ node \in {"vary", "W1", "validators", "preconditions", "O18"} => exists
  /\ node \in ToW1 => ~guarded
  /\ node \in {"validators", "preconditions"} /\ guarded =>
       cond.ifMatch # "absent" \/ cond.ifUnmodifiedSince # "absent"
  /\ node \in {"H7", "P3"} => ~exists
  /\ node \in WriteNodes => Honoured

EffectInv ==
  /\ ending = "walking" <=> node \notin Over
  /\ effects # {} => Cleared /\ Honoured /\ method \in {"POST", "PUT", "PATCH", "DELETE"}
  /\ effects # {} /\ node \notin Over => node \in {"decode", "apply", "N11a", "O20"}
  /\ effects \cap Mutations # {} /\ node \notin Over => node \in {"N11a", "O20"}
  /\ ending = "halted" /\ effects \cap Mutations # {} =>
       effects = {"delete_resource"} /\ response.status = 500
  /\ ending = "halted" /\ "create_path" \in effects => response.status \in {400, 413, 415}
  /\ ending \in {"returned", "halted"} /\ response.status \in Disclosing => Cleared

WalkInv == TypeOK /\ GateInv /\ DispatchInv /\ ConditionInv /\ EffectInv

-----------------------------------------------------------------------------
(***************************************************************************)
(* WalkInv is inductive: one lemma per node.                               *)
(***************************************************************************)
USE DEF WalkInv, At, Skip, Pass, Halt, Return, facts,
    Over, ToB12, ToB10, ToB8, ToB4, ToB3, ToW1, WriteNodes,
    KNOWN_METHODS, SAFE_METHODS, BODY_METHODS, CONDITIONAL_WRITE_METHODS

\* A response is well formed when its parts are.
LEMMA MakeTyped ==
  \A s, h, b : s \in 0..599 /\ h \subseteq Headers /\ b \in {"empty", "full"}
               => Make(s, h, b) \in Responses
<1> SUFFICES ASSUME NEW s \in 0..599, NEW h \in SUBSET Headers,
                    NEW b \in {"empty", "full"}
             PROVE  Make(s, h, b) \in Responses
  OBVIOUS
<1> QED BY DEF Make, Responses

\* A walk starts with nothing passed, nothing done and nothing answered.
LEMMA InitInv == Init => WalkInv
<1> SUFFICES ASSUME Init PROVE WalkInv
  OBVIOUS
<1>1. NoResponse \in Responses
  BY DEF NoResponse, Responses, Headers
<1>2. TypeOK
  BY <1>1 DEF Init, TypeOK, PathTyped, FactsTyped, AnswerTyped, Nodes, Unconditional, Conditions
<1>3. GateInv /\ DispatchInv /\ ConditionInv /\ EffectInv
  BY DEF Init, GateInv, DispatchInv, ConditionInv, EffectInv
<1> QED BY <1>2, <1>3

\* Service unavailable: a halt that discloses nothing.
LEMMA B13Inv ==
  ASSUME WalkInv, B13
  PROVE  WalkInv'
<1>1. TypeOK'
  <2>1. PathTyped'
    BY DEF B13, RetryAfter, TypeOK, PathTyped, Nodes
  <2>2. FactsTyped'
    BY DEF B13, RetryAfter, TypeOK, FactsTyped, Axes, SideEffects
  <2>3. AnswerTyped'
    BY MakeTyped DEF B13, RetryAfter, TypeOK, FactsTyped, AnswerTyped, Headers
  <2> QED BY <2>1, <2>2, <2>3 DEF TypeOK
<1>2. GateInv'
  BY DEF B13, RetryAfter, GateInv, EffectInv
<1>3. DispatchInv'
  BY DEF B13, RetryAfter, GateInv, DispatchInv
<1>4. ConditionInv'
  BY DEF B13, RetryAfter, ConditionInv, DispatchInv, Honoured
<1>5. EffectInv'
  BY DEF B13, RetryAfter, GateInv, DispatchInv, ConditionInv, EffectInv, Cleared, Honoured,
         Disclosing, Mutations, SideEffects, Make, NoResponse
<1> QED BY <1>1, <1>2, <1>3, <1>4, <1>5

\* Rate limit: likewise.
LEMMA B13aInv ==
  ASSUME WalkInv, B13a
  PROVE  WalkInv'
<1>1. TypeOK'
  <2>1. PathTyped'
    BY DEF B13a, RetryAfter, TypeOK, PathTyped, Nodes
  <2>2. FactsTyped'
    BY DEF B13a, RetryAfter, TypeOK, FactsTyped, Axes, SideEffects
  <2>3. AnswerTyped'
    BY MakeTyped DEF B13a, RetryAfter, TypeOK, FactsTyped, AnswerTyped, Headers
  <2> QED BY <2>1, <2>2, <2>3 DEF TypeOK
<1>2. GateInv'
  BY DEF B13a, RetryAfter, GateInv, EffectInv
<1>3. DispatchInv'
  BY DEF B13a, RetryAfter, GateInv, DispatchInv
<1>4. ConditionInv'
  BY DEF B13a, RetryAfter, ConditionInv, DispatchInv, Honoured
<1>5. EffectInv'
  BY DEF B13a, RetryAfter, GateInv, DispatchInv, ConditionInv, EffectInv, Cleared,
         Honoured, Disclosing, Mutations, SideEffects, Make, NoResponse
<1> QED BY <1>1, <1>2, <1>3, <1>4, <1>5

\* Past B12 the method is a known one.
LEMMA B12Inv ==
  ASSUME WalkInv, B12
  PROVE  WalkInv'
<1>1. TypeOK'
  <2>1. PathTyped'
    BY DEF B12, TypeOK, PathTyped, Nodes
  <2>2. FactsTyped'
    BY DEF B12, TypeOK, FactsTyped, Axes, SideEffects
  <2>3. AnswerTyped'
    BY MakeTyped DEF B12, TypeOK, FactsTyped, AnswerTyped, Headers
  <2> QED BY <2>1, <2>2, <2>3 DEF TypeOK
<1>2. GateInv'
  BY DEF B12, GateInv, EffectInv
<1>3. DispatchInv'
  BY DEF B12, GateInv, DispatchInv
<1>4. ConditionInv'
  BY DEF B12, ConditionInv, DispatchInv, Honoured
<1>5. EffectInv'
  BY DEF B12, GateInv, DispatchInv, ConditionInv, EffectInv, Cleared, Honoured, Disclosing,
         Mutations, SideEffects, Make, NoResponse
<1> QED BY <1>1, <1>2, <1>3, <1>4, <1>5

\* Target too long: a quiet gate.
LEMMA B11Inv ==
  ASSUME WalkInv, B11
  PROVE  WalkInv'
<1>1. TypeOK'
  <2>1. PathTyped'
    BY DEF B11, QuietGate, TypeOK, PathTyped, Nodes
  <2>2. FactsTyped'
    BY DEF B11, QuietGate, TypeOK, FactsTyped, Axes, SideEffects
  <2>3. AnswerTyped'
    BY MakeTyped DEF B11, QuietGate, TypeOK, FactsTyped, AnswerTyped, Headers
  <2> QED BY <2>1, <2>2, <2>3 DEF TypeOK
<1>2. GateInv'
  BY DEF B11, QuietGate, GateInv, EffectInv
<1>3. DispatchInv'
  BY DEF B11, QuietGate, GateInv, DispatchInv
<1>4. ConditionInv'
  BY DEF B11, QuietGate, ConditionInv, DispatchInv, Honoured
<1>5. EffectInv'
  BY DEF B11, QuietGate, GateInv, DispatchInv, ConditionInv, EffectInv, Cleared, Honoured,
         Disclosing, Mutations, SideEffects, Make, NoResponse
<1> QED BY <1>1, <1>2, <1>3, <1>4, <1>5

\* Past B10 the method is allowed; a body method goes to B9.
LEMMA B10Inv ==
  ASSUME WalkInv, B10
  PROVE  WalkInv'
<1>1. TypeOK'
  <2>1. PathTyped'
    BY DEF B10, TypeOK, PathTyped, Nodes
  <2>2. FactsTyped'
    BY DEF B10, TypeOK, FactsTyped, Axes, SideEffects
  <2>3. AnswerTyped'
    BY MakeTyped DEF B10, TypeOK, FactsTyped, AnswerTyped, Headers
  <2> QED BY <2>1, <2>2, <2>3 DEF TypeOK
<1>2. GateInv'
  BY DEF B10, GateInv, EffectInv
<1>3. DispatchInv'
  BY DEF B10, GateInv, DispatchInv
<1>4. ConditionInv'
  BY DEF B10, ConditionInv, DispatchInv, Honoured
<1>5. EffectInv'
  BY DEF B10, GateInv, DispatchInv, ConditionInv, EffectInv, Cleared, Honoured, Disclosing,
         Mutations, SideEffects, Make, NoResponse
<1> QED BY <1>1, <1>2, <1>3, <1>4, <1>5

\* Past B9 a request with a body is well formed.
LEMMA B9Inv ==
  ASSUME WalkInv, B9
  PROVE  WalkInv'
<1>1. TypeOK'
  <2>1. PathTyped'
    BY DEF B9, Gate, TypeOK, PathTyped, Nodes
  <2>2. FactsTyped'
    BY DEF B9, Gate, TypeOK, FactsTyped, Axes, SideEffects
  <2>3. AnswerTyped'
    BY MakeTyped DEF B9, Gate, TypeOK, FactsTyped, AnswerTyped, Headers
  <2> QED BY <2>1, <2>2, <2>3 DEF TypeOK
<1>2. GateInv'
  BY DEF B9, Gate, GateInv, EffectInv
<1>3. DispatchInv'
  BY DEF B9, Gate, GateInv, DispatchInv
<1>4. ConditionInv'
  BY DEF B9, Gate, ConditionInv, DispatchInv, Honoured
<1>5. EffectInv'
  BY DEF B9, Gate, GateInv, DispatchInv, ConditionInv, EffectInv, Cleared, Honoured,
         Disclosing, Mutations, SideEffects, Make, NoResponse
<1> QED BY <1>1, <1>2, <1>3, <1>4, <1>5

\* Past B8 the client is authorized.
LEMMA B8Inv ==
  ASSUME WalkInv, B8
  PROVE  WalkInv'
<1>1. TypeOK'
  <2>1. PathTyped'
    BY DEF B8, TypeOK, PathTyped, Nodes
  <2>2. FactsTyped'
    BY DEF B8, TypeOK, FactsTyped, Axes, SideEffects
  <2>3. AnswerTyped'
    BY MakeTyped DEF B8, TypeOK, FactsTyped, AnswerTyped, Headers
  <2> QED BY <2>1, <2>2, <2>3 DEF TypeOK
<1>2. GateInv'
  BY DEF B8, GateInv, EffectInv
<1>3. DispatchInv'
  BY DEF B8, GateInv, DispatchInv
<1>4. ConditionInv'
  BY DEF B8, ConditionInv, DispatchInv, Honoured
<1>5. EffectInv'
  BY DEF B8, GateInv, DispatchInv, ConditionInv, EffectInv, Cleared, Honoured, Disclosing,
         Mutations, SideEffects, Make, NoResponse
<1> QED BY <1>1, <1>2, <1>3, <1>4, <1>5

\* Past B7 it is not forbidden.
LEMMA B7Inv ==
  ASSUME WalkInv, B7
  PROVE  WalkInv'
<1>1. TypeOK'
  <2>1. PathTyped'
    BY DEF B7, Gate, TypeOK, PathTyped, Nodes
  <2>2. FactsTyped'
    BY DEF B7, Gate, TypeOK, FactsTyped, Axes, SideEffects
  <2>3. AnswerTyped'
    BY MakeTyped DEF B7, Gate, TypeOK, FactsTyped, AnswerTyped, Headers
  <2> QED BY <2>1, <2>2, <2>3 DEF TypeOK
<1>2. GateInv'
  BY DEF B7, Gate, GateInv, EffectInv
<1>3. DispatchInv'
  BY DEF B7, Gate, GateInv, DispatchInv
<1>4. ConditionInv'
  BY DEF B7, Gate, ConditionInv, DispatchInv, Honoured
<1>5. EffectInv'
  BY DEF B7, Gate, GateInv, DispatchInv, ConditionInv, EffectInv, Cleared, Honoured,
         Disclosing, Mutations, SideEffects, Make, NoResponse
<1> QED BY <1>1, <1>2, <1>3, <1>4, <1>5

\* Legal restriction: a quiet gate before the body gates.
LEMMA B7aInv ==
  ASSUME WalkInv, B7a
  PROVE  WalkInv'
<1>1. TypeOK'
  <2>1. PathTyped'
    BY DEF B7a, QuietGate, TypeOK, PathTyped, Nodes
  <2>2. FactsTyped'
    BY DEF B7a, QuietGate, TypeOK, FactsTyped, Axes, SideEffects
  <2>3. AnswerTyped'
    BY MakeTyped DEF B7a, QuietGate, TypeOK, FactsTyped, AnswerTyped, Headers
  <2> QED BY <2>1, <2>2, <2>3 DEF TypeOK
<1>2. GateInv'
  BY DEF B7a, QuietGate, GateInv, EffectInv
<1>3. DispatchInv'
  BY DEF B7a, QuietGate, GateInv, DispatchInv
<1>4. ConditionInv'
  BY DEF B7a, QuietGate, ConditionInv, DispatchInv, Honoured
<1>5. EffectInv'
  BY DEF B7a, QuietGate, GateInv, DispatchInv, ConditionInv, EffectInv, Cleared, Honoured,
         Disclosing, Mutations, SideEffects, Make, NoResponse
<1> QED BY <1>1, <1>2, <1>3, <1>4, <1>5

\* Past B6 the content headers are valid.
LEMMA B6Inv ==
  ASSUME WalkInv, B6
  PROVE  WalkInv'
<1>1. TypeOK'
  <2>1. PathTyped'
    BY DEF B6, Gate, TypeOK, PathTyped, Nodes
  <2>2. FactsTyped'
    BY DEF B6, Gate, TypeOK, FactsTyped, Axes, SideEffects
  <2>3. AnswerTyped'
    BY MakeTyped DEF B6, Gate, TypeOK, FactsTyped, AnswerTyped, Headers
  <2> QED BY <2>1, <2>2, <2>3 DEF TypeOK
<1>2. GateInv'
  BY DEF B6, Gate, GateInv, EffectInv
<1>3. DispatchInv'
  BY DEF B6, Gate, GateInv, DispatchInv
<1>4. ConditionInv'
  BY DEF B6, Gate, ConditionInv, DispatchInv, Honoured
<1>5. EffectInv'
  BY DEF B6, Gate, GateInv, DispatchInv, ConditionInv, EffectInv, Cleared, Honoured,
         Disclosing, Mutations, SideEffects, Make, NoResponse
<1> QED BY <1>1, <1>2, <1>3, <1>4, <1>5

\* Past B5 the content type is known.
LEMMA B5Inv ==
  ASSUME WalkInv, B5
  PROVE  WalkInv'
<1>1. TypeOK'
  <2>1. PathTyped'
    BY DEF B5, Gate, TypeOK, PathTyped, Nodes
  <2>2. FactsTyped'
    BY DEF B5, Gate, TypeOK, FactsTyped, Axes, SideEffects
  <2>3. AnswerTyped'
    BY MakeTyped DEF B5, Gate, TypeOK, FactsTyped, AnswerTyped, Headers
  <2> QED BY <2>1, <2>2, <2>3 DEF TypeOK
<1>2. GateInv'
  BY DEF B5, Gate, GateInv, EffectInv
<1>3. DispatchInv'
  BY DEF B5, Gate, GateInv, DispatchInv
<1>4. ConditionInv'
  BY DEF B5, Gate, ConditionInv, DispatchInv, Honoured
<1>5. EffectInv'
  BY DEF B5, Gate, GateInv, DispatchInv, ConditionInv, EffectInv, Cleared, Honoured,
         Disclosing, Mutations, SideEffects, Make, NoResponse
<1> QED BY <1>1, <1>2, <1>3, <1>4, <1>5

\* Past B4 the body is not declared too long.
LEMMA B4Inv ==
  ASSUME WalkInv, B4
  PROVE  WalkInv'
<1>1. TypeOK'
  <2>1. PathTyped'
    BY DEF B4, Gate, TypeOK, PathTyped, Nodes
  <2>2. FactsTyped'
    BY DEF B4, Gate, TypeOK, FactsTyped, Axes, SideEffects
  <2>3. AnswerTyped'
    BY MakeTyped DEF B4, Gate, TypeOK, FactsTyped, AnswerTyped, Headers
  <2> QED BY <2>1, <2>2, <2>3 DEF TypeOK
<1>2. GateInv'
  BY DEF B4, Gate, GateInv, EffectInv
<1>3. DispatchInv'
  BY DEF B4, Gate, GateInv, DispatchInv
<1>4. ConditionInv'
  BY DEF B4, Gate, ConditionInv, DispatchInv, Honoured
<1>5. EffectInv'
  BY DEF B4, Gate, GateInv, DispatchInv, ConditionInv, EffectInv, Cleared, Honoured,
         Disclosing, Mutations, SideEffects, Make, NoResponse
<1> QED BY <1>1, <1>2, <1>3, <1>4, <1>5

\* OPTIONS is answered here, so every later node has another method.
LEMMA B3Inv ==
  ASSUME WalkInv, B3
  PROVE  WalkInv'
<1>1. TypeOK'
  <2>1. PathTyped'
    BY DEF B3, TypeOK, PathTyped, Nodes
  <2>2. FactsTyped'
    BY DEF B3, TypeOK, FactsTyped, Axes, SideEffects
  <2>3. AnswerTyped'
    BY MakeTyped DEF B3, TypeOK, FactsTyped, AnswerTyped, Headers
  <2> QED BY <2>1, <2>2, <2>3 DEF TypeOK
<1>2. GateInv'
  BY DEF B3, GateInv, EffectInv
<1>3. DispatchInv'
  BY DEF B3, GateInv, DispatchInv
<1>4. ConditionInv'
  BY DEF B3, ConditionInv, DispatchInv, Honoured
<1>5. EffectInv'
  BY DEF B3, GateInv, DispatchInv, ConditionInv, EffectInv, Cleared, Honoured, Disclosing,
         Mutations, SideEffects, Make, NoResponse
<1> QED BY <1>1, <1>2, <1>3, <1>4, <1>5

\* The media type.
LEMMA C4Inv ==
  ASSUME WalkInv, C4
  PROVE  WalkInv'
<1>1. TypeOK'
  <2>1. PathTyped'
    BY DEF C4, TypeOK, PathTyped, Nodes
  <2>2. FactsTyped'
    BY DEF C4, TypeOK, FactsTyped, Axes, SideEffects
  <2>3. AnswerTyped'
    BY MakeTyped DEF C4, TypeOK, FactsTyped, AnswerTyped, Headers
  <2> QED BY <2>1, <2>2, <2>3 DEF TypeOK
<1>2. GateInv'
  BY DEF C4, GateInv, EffectInv
<1>3. DispatchInv'
  BY DEF C4, GateInv, DispatchInv
<1>4. ConditionInv'
  BY DEF C4, ConditionInv, DispatchInv, Honoured
<1>5. EffectInv'
  BY DEF C4, GateInv, DispatchInv, ConditionInv, EffectInv, Cleared, Honoured, Disclosing,
         Mutations, SideEffects, Make, NoResponse
<1> QED BY <1>1, <1>2, <1>3, <1>4, <1>5

\* The language.
LEMMA D5Inv ==
  ASSUME WalkInv, D5
  PROVE  WalkInv'
<1>1. TypeOK'
  <2>1. PathTyped'
    BY DEF D5, Axis, TypeOK, PathTyped, Nodes
  <2>2. FactsTyped'
    BY DEF D5, Axis, TypeOK, FactsTyped, Axes, SideEffects
  <2>3. AnswerTyped'
    BY MakeTyped DEF D5, Axis, TypeOK, FactsTyped, AnswerTyped, Headers
  <2> QED BY <2>1, <2>2, <2>3 DEF TypeOK
<1>2. GateInv'
  BY DEF D5, Axis, GateInv, EffectInv
<1>3. DispatchInv'
  BY DEF D5, Axis, GateInv, DispatchInv
<1>4. ConditionInv'
  BY DEF D5, Axis, ConditionInv, DispatchInv, Honoured
<1>5. EffectInv'
  BY DEF D5, Axis, GateInv, DispatchInv, ConditionInv, EffectInv, Cleared, Honoured,
         Disclosing, Mutations, SideEffects, Make, NoResponse
<1> QED BY <1>1, <1>2, <1>3, <1>4, <1>5

\* The content coding.
LEMMA F7Inv ==
  ASSUME WalkInv, F7
  PROVE  WalkInv'
<1>1. TypeOK'
  <2>1. PathTyped'
    BY DEF F7, Axis, TypeOK, PathTyped, Nodes
  <2>2. FactsTyped'
    BY DEF F7, Axis, TypeOK, FactsTyped, Axes, SideEffects
  <2>3. AnswerTyped'
    BY MakeTyped DEF F7, Axis, TypeOK, FactsTyped, AnswerTyped, Headers
  <2> QED BY <2>1, <2>2, <2>3 DEF TypeOK
<1>2. GateInv'
  BY DEF F7, Axis, GateInv, EffectInv
<1>3. DispatchInv'
  BY DEF F7, Axis, GateInv, DispatchInv
<1>4. ConditionInv'
  BY DEF F7, Axis, ConditionInv, DispatchInv, Honoured
<1>5. EffectInv'
  BY DEF F7, Axis, GateInv, DispatchInv, ConditionInv, EffectInv, Cleared, Honoured,
         Disclosing, Mutations, SideEffects, Make, NoResponse
<1> QED BY <1>1, <1>2, <1>3, <1>4, <1>5

\* The fork: what exists goes on to Vary, what does not to H7.
LEMMA G7Inv ==
  ASSUME WalkInv, G7
  PROVE  WalkInv'
<1>1. TypeOK'
  <2>1. PathTyped'
    BY DEF G7, TypeOK, PathTyped, Nodes
  <2>2. FactsTyped'
    <3>1. cond' \in Conditions
      BY DEF G7, Conditions, IfMatchOnly, Unconditional
    <3> QED BY <3>1 DEF G7, TypeOK, FactsTyped
  <2>3. AnswerTyped'
    BY MakeTyped DEF G7, TypeOK, FactsTyped, AnswerTyped, Headers
  <2> QED BY <2>1, <2>2, <2>3 DEF TypeOK
<1>2. GateInv'
  BY DEF G7, GateInv, EffectInv
<1>3. DispatchInv'
  BY DEF G7, GateInv, DispatchInv
<1>4. ConditionInv'
  BY DEF G7, ConditionInv, DispatchInv, Honoured
<1>5. EffectInv'
  BY DEF G7, GateInv, DispatchInv, ConditionInv, EffectInv, Cleared, Honoured, Disclosing,
         Mutations, SideEffects, Make, NoResponse
<1> QED BY <1>1, <1>2, <1>3, <1>4, <1>5

\* Writes go by W1; nothing is guarded yet.
LEMMA VaryInv ==
  ASSUME WalkInv, Vary
  PROVE  WalkInv'
<1>1. TypeOK'
  <2>1. PathTyped'
    BY DEF Vary, VaryHeaders, TypeOK, PathTyped, Nodes
  <2>2. FactsTyped'
    BY DEF Vary, VaryHeaders, TypeOK, FactsTyped, Axes, SideEffects
  <2>3. AnswerTyped'
    BY MakeTyped DEF Vary, VaryHeaders, TypeOK, FactsTyped, AnswerTyped, Headers
  <2> QED BY <2>1, <2>2, <2>3 DEF TypeOK
<1>2. GateInv'
  BY DEF Vary, VaryHeaders, GateInv, EffectInv
<1>3. DispatchInv'
  BY DEF Vary, VaryHeaders, GateInv, DispatchInv
<1>4. ConditionInv'
  BY DEF Vary, VaryHeaders, ConditionInv, DispatchInv, Honoured
<1>5. EffectInv'
  BY DEF Vary, VaryHeaders, GateInv, DispatchInv, ConditionInv, EffectInv, Cleared,
         Honoured, Disclosing, Mutations, SideEffects, Make, NoResponse
<1> QED BY <1>1, <1>2, <1>3, <1>4, <1>5

\* A guarded write passes only with a precondition to evaluate.
LEMMA W1Inv ==
  ASSUME WalkInv, W1
  PROVE  WalkInv'
<1>1. TypeOK'
  <2>1. PathTyped'
    BY DEF W1, UpdatePrecondition, TypeOK, PathTyped, Nodes
  <2>2. FactsTyped'
    BY DEF W1, UpdatePrecondition, TypeOK, FactsTyped, Axes, SideEffects
  <2>3. AnswerTyped'
    BY MakeTyped DEF W1, UpdatePrecondition, TypeOK, FactsTyped, AnswerTyped, Headers
  <2> QED BY <2>1, <2>2, <2>3 DEF TypeOK
<1>2. GateInv'
  BY DEF W1, UpdatePrecondition, GateInv, EffectInv
<1>3. DispatchInv'
  BY DEF W1, UpdatePrecondition, GateInv, DispatchInv
<1>4. ConditionInv'
  <2>1. CASE node' = "validators"
    BY <2>1 DEF W1, UpdatePrecondition, ConditionInv, Honoured
  <2>2. CASE node' = "errorBody"
    BY <2>2 DEF W1, ConditionInv, Honoured
  <2> QED BY <2>1, <2>2 DEF W1
<1>5. EffectInv'
  BY DEF W1, UpdatePrecondition, GateInv, DispatchInv, ConditionInv, EffectInv, Cleared,
         Honoured, Disclosing, Mutations, SideEffects, Make, NoResponse
<1> QED BY <1>1, <1>2, <1>3, <1>4, <1>5

\* The validators decide nothing.
LEMMA ValidatorsInv ==
  ASSUME WalkInv, Validators
  PROVE  WalkInv'
<1>1. TypeOK'
  <2>1. PathTyped'
    BY DEF Validators, Presupposed, TypeOK, PathTyped, Nodes
  <2>2. FactsTyped'
    BY DEF Validators, Presupposed, TypeOK, FactsTyped, Axes, SideEffects
  <2>3. AnswerTyped'
    BY MakeTyped DEF Validators, Presupposed, TypeOK, FactsTyped, AnswerTyped, Headers
  <2> QED BY <2>1, <2>2, <2>3 DEF TypeOK
<1>2. GateInv'
  BY DEF Validators, Presupposed, GateInv, EffectInv
<1>3. DispatchInv'
  BY DEF Validators, Presupposed, GateInv, DispatchInv
<1>4. ConditionInv'
  BY DEF Validators, Presupposed, ConditionInv, DispatchInv, Honoured
<1>5. EffectInv'
  BY DEF Validators, Presupposed, GateInv, DispatchInv, ConditionInv, EffectInv, Cleared,
         Honoured, Disclosing, Mutations, SideEffects, Make, NoResponse
<1> QED BY <1>1, <1>2, <1>3, <1>4, <1>5

\* What is dispatched to a write has honoured its preconditions.
LEMMA PreconditionsInv ==
  ASSUME WalkInv, Preconditions
  PROVE  WalkInv'
<1>1. TypeOK'
  <2>1. PathTyped'
    BY DEF Preconditions, IfMatchFails, ModifiedSince, NoneMatchFails, Unmodified,
           NotModified, Dispatch, CacheableHeaders, VaryHeader, TypeOK, PathTyped, Nodes
  <2>2. FactsTyped'
    BY DEF Preconditions, IfMatchFails, ModifiedSince, NoneMatchFails, Unmodified,
           NotModified, Dispatch, CacheableHeaders, VaryHeader, TypeOK, FactsTyped, Axes,
           SideEffects
  <2>3. AnswerTyped'
    BY MakeTyped DEF Preconditions, IfMatchFails, ModifiedSince, NoneMatchFails, Unmodified,
                     NotModified, Dispatch, CacheableHeaders, VaryHeader, TypeOK,
                     FactsTyped, AnswerTyped, Headers
  <2> QED BY <2>1, <2>2, <2>3 DEF TypeOK
<1>2. GateInv'
  <2>1. node' \in {"errorBody", "O18", "M20", "N11", "O14"}
    BY DEF Preconditions, Dispatch
  <2> QED BY <2>1 DEF Preconditions, GateInv, EffectInv
<1>3. DispatchInv'
  BY DEF Preconditions, IfMatchFails, ModifiedSince, NoneMatchFails, Unmodified,
         NotModified, Dispatch, CacheableHeaders, VaryHeader, GateInv, DispatchInv
<1>4. ConditionInv'
  BY DEF Preconditions, IfMatchFails, ModifiedSince, NoneMatchFails, Unmodified,
         NotModified, Dispatch, CacheableHeaders, VaryHeader, ConditionInv, DispatchInv,
         Honoured
<1>5. EffectInv'
  BY DEF Preconditions, IfMatchFails, ModifiedSince, NoneMatchFails, Unmodified,
         NotModified, Dispatch, CacheableHeaders, VaryHeader, GateInv, DispatchInv,
         ConditionInv, EffectInv, Cleared, Honoured, Disclosing, Mutations, SideEffects,
         Make, NoResponse
<1> QED BY <1>1, <1>2, <1>3, <1>4, <1>5

\* A safe answer has no effects to answer for.
LEMMA O18Inv ==
  ASSUME WalkInv, O18
  PROVE  WalkInv'
<1>1. TypeOK'
  <2>1. PathTyped'
    BY DEF O18, Represented, Body, CacheableHeaders, VaryHeader, TypeOK, PathTyped, Nodes
  <2>2. FactsTyped'
    BY DEF O18, Represented, Body, CacheableHeaders, VaryHeader, TypeOK, FactsTyped, Axes,
           SideEffects
  <2>3. AnswerTyped'
    <3>1. Represented(CacheableHeaders) \subseteq Headers
      BY DEF TypeOK, FactsTyped, Represented, CacheableHeaders, VaryHeader, Headers
    <3>2. Body(method = "HEAD") \in {"empty", "full"}
      BY DEF Body
    <3> QED BY <3>1, <3>2, MakeTyped DEF O18, AnswerTyped
  <2> QED BY <2>1, <2>2, <2>3 DEF TypeOK
<1>2. GateInv'
  BY DEF O18, Represented, Body, CacheableHeaders, VaryHeader, GateInv, EffectInv
<1>3. DispatchInv'
  BY DEF O18, Represented, Body, CacheableHeaders, VaryHeader, GateInv, DispatchInv
<1>4. ConditionInv'
  BY DEF O18, Represented, Body, CacheableHeaders, VaryHeader, ConditionInv, DispatchInv,
         Honoured
<1>5. EffectInv'
  BY DEF O18, Represented, Body, CacheableHeaders, VaryHeader, GateInv, DispatchInv,
         ConditionInv, EffectInv, Cleared, Honoured, Disclosing, Mutations, SideEffects,
         Make, NoResponse
<1> QED BY <1>1, <1>2, <1>3, <1>4, <1>5

\* The delete has run: it is answered, or halts with the 500 that says it failed.
LEMMA M20Inv ==
  ASSUME WalkInv, M20
  PROVE  WalkInv'
<1>1. TypeOK'
  <2>1. PathTyped'
    BY DEF M20, Did, VaryHeader, TypeOK, PathTyped, Nodes
  <2>2. FactsTyped'
    BY DEF M20, Did, VaryHeader, TypeOK, FactsTyped, Axes, SideEffects
  <2>3. AnswerTyped'
    BY MakeTyped DEF M20, Did, VaryHeader, TypeOK, FactsTyped, AnswerTyped, Headers
  <2> QED BY <2>1, <2>2, <2>3 DEF TypeOK
<1>2. GateInv'
  BY DEF M20, Did, VaryHeader, GateInv, EffectInv
<1>3. DispatchInv'
  BY DEF M20, Did, VaryHeader, GateInv, DispatchInv
<1>4. ConditionInv'
  BY DEF M20, Did, VaryHeader, ConditionInv, DispatchInv, Honoured
<1>5. EffectInv'
  BY DEF M20, Did, VaryHeader, GateInv, DispatchInv, ConditionInv, EffectInv, Cleared,
         Honoured, Disclosing, Mutations, SideEffects, Make, NoResponse
<1> QED BY <1>1, <1>2, <1>3, <1>4, <1>5

\* Create or process: still no effect.
LEMMA N11Inv ==
  ASSUME WalkInv, N11
  PROVE  WalkInv'
<1>1. TypeOK'
  <2>1. PathTyped'
    BY DEF N11, TypeOK, PathTyped, Nodes
  <2>2. FactsTyped'
    BY DEF N11, TypeOK, FactsTyped, Axes, SideEffects
  <2>3. AnswerTyped'
    BY MakeTyped DEF N11, TypeOK, FactsTyped, AnswerTyped, Headers
  <2> QED BY <2>1, <2>2, <2>3 DEF TypeOK
<1>2. GateInv'
  BY DEF N11, GateInv, EffectInv
<1>3. DispatchInv'
  BY DEF N11, GateInv, DispatchInv
<1>4. ConditionInv'
  BY DEF N11, ConditionInv, DispatchInv, Honoured
<1>5. EffectInv'
  BY DEF N11, GateInv, DispatchInv, ConditionInv, EffectInv, Cleared, Honoured, Disclosing,
         Mutations, SideEffects, Make, NoResponse
<1> QED BY <1>1, <1>2, <1>3, <1>4, <1>5

\* The first effect of a creation, before its body is read.
LEMMA CreatePathInv ==
  ASSUME WalkInv, CreatePath
  PROVE  WalkInv'
<1>1. TypeOK'
  <2>1. PathTyped'
    BY DEF CreatePath, Did, TypeOK, PathTyped, Nodes
  <2>2. FactsTyped'
    BY DEF CreatePath, Did, TypeOK, FactsTyped, Axes, SideEffects
  <2>3. AnswerTyped'
    BY MakeTyped DEF CreatePath, Did, TypeOK, FactsTyped, AnswerTyped, Headers
  <2> QED BY <2>1, <2>2, <2>3 DEF TypeOK
<1>2. GateInv'
  BY DEF CreatePath, Did, GateInv, EffectInv
<1>3. DispatchInv'
  BY DEF CreatePath, Did, GateInv, DispatchInv
<1>4. ConditionInv'
  BY DEF CreatePath, Did, ConditionInv, DispatchInv, Honoured
<1>5. EffectInv'
  BY DEF CreatePath, Did, GateInv, DispatchInv, ConditionInv, EffectInv, Cleared, Honoured,
         Disclosing, Mutations, SideEffects, Make, NoResponse
<1> QED BY <1>1, <1>2, <1>3, <1>4, <1>5

\* After process_post only a redirect or O20 follow.
LEMMA ProcessPostInv ==
  ASSUME WalkInv, ProcessPost
  PROVE  WalkInv'
<1>1. TypeOK'
  <2>1. PathTyped'
    BY DEF ProcessPost, Did, TypeOK, PathTyped, Nodes
  <2>2. FactsTyped'
    BY DEF ProcessPost, Did, TypeOK, FactsTyped, Axes, SideEffects
  <2>3. AnswerTyped'
    BY MakeTyped DEF ProcessPost, Did, TypeOK, FactsTyped, AnswerTyped, Headers
  <2> QED BY <2>1, <2>2, <2>3 DEF TypeOK
<1>2. GateInv'
  BY DEF ProcessPost, Did, GateInv, EffectInv
<1>3. DispatchInv'
  BY DEF ProcessPost, Did, GateInv, DispatchInv
<1>4. ConditionInv'
  BY DEF ProcessPost, Did, ConditionInv, DispatchInv, Honoured
<1>5. EffectInv'
  BY DEF ProcessPost, Did, GateInv, DispatchInv, ConditionInv, EffectInv, Cleared,
         Honoured, Disclosing, Mutations, SideEffects, Make, NoResponse
<1> QED BY <1>1, <1>2, <1>3, <1>4, <1>5

\* A conflict is found before anything is applied.
LEMMA O14Inv ==
  ASSUME WalkInv, O14
  PROVE  WalkInv'
<1>1. TypeOK'
  <2>1. PathTyped'
    BY DEF O14, Gate, TypeOK, PathTyped, Nodes
  <2>2. FactsTyped'
    BY DEF O14, Gate, TypeOK, FactsTyped, Axes, SideEffects
  <2>3. AnswerTyped'
    BY MakeTyped DEF O14, Gate, TypeOK, FactsTyped, AnswerTyped, Headers
  <2> QED BY <2>1, <2>2, <2>3 DEF TypeOK
<1>2. GateInv'
  BY DEF O14, Gate, GateInv, EffectInv
<1>3. DispatchInv'
  BY DEF O14, Gate, GateInv, DispatchInv
<1>4. ConditionInv'
  BY DEF O14, Gate, ConditionInv, DispatchInv, Honoured
<1>5. EffectInv'
  BY DEF O14, Gate, GateInv, DispatchInv, ConditionInv, EffectInv, Cleared, Honoured,
         Disclosing, Mutations, SideEffects, Make, NoResponse
<1> QED BY <1>1, <1>2, <1>3, <1>4, <1>5

\* Likewise for a PUT that creates.
LEMMA P3Inv ==
  ASSUME WalkInv, P3
  PROVE  WalkInv'
<1>1. TypeOK'
  <2>1. PathTyped'
    BY DEF P3, Gate, TypeOK, PathTyped, Nodes
  <2>2. FactsTyped'
    BY DEF P3, Gate, TypeOK, FactsTyped, Axes, SideEffects
  <2>3. AnswerTyped'
    BY MakeTyped DEF P3, Gate, TypeOK, FactsTyped, AnswerTyped, Headers
  <2> QED BY <2>1, <2>2, <2>3 DEF TypeOK
<1>2. GateInv'
  BY DEF P3, Gate, GateInv, EffectInv
<1>3. DispatchInv'
  BY DEF P3, Gate, GateInv, DispatchInv
<1>4. ConditionInv'
  BY DEF P3, Gate, ConditionInv, DispatchInv, Honoured
<1>5. EffectInv'
  BY DEF P3, Gate, GateInv, DispatchInv, ConditionInv, EffectInv, Cleared, Honoured,
         Disclosing, Mutations, SideEffects, Make, NoResponse
<1> QED BY <1>1, <1>2, <1>3, <1>4, <1>5

\* The body gates that fire late: before apply, whatever ran.
LEMMA DecodeInv ==
  ASSUME WalkInv, Decode
  PROVE  WalkInv'
<1>1. TypeOK'
  <2>1. PathTyped'
    BY DEF Decode, TypeOK, PathTyped, Nodes
  <2>2. FactsTyped'
    BY DEF Decode, TypeOK, FactsTyped, Axes, SideEffects
  <2>3. AnswerTyped'
    BY MakeTyped DEF Decode, TypeOK, FactsTyped, AnswerTyped, Headers
  <2> QED BY <2>1, <2>2, <2>3 DEF TypeOK
<1>2. GateInv'
  BY DEF Decode, GateInv, EffectInv
<1>3. DispatchInv'
  BY DEF Decode, GateInv, DispatchInv
<1>4. ConditionInv'
  BY DEF Decode, ConditionInv, DispatchInv, Honoured
<1>5. EffectInv'
  BY DEF Decode, GateInv, DispatchInv, ConditionInv, EffectInv, Cleared, Honoured,
         Disclosing, Mutations, SideEffects, Make, NoResponse
<1> QED BY <1>1, <1>2, <1>3, <1>4, <1>5

\* After apply only a redirect or O20 follow.
LEMMA ApplyInv ==
  ASSUME WalkInv, Apply
  PROVE  WalkInv'
<1>1. TypeOK'
  <2>1. PathTyped'
    BY DEF Apply, Did, TypeOK, PathTyped, Nodes
  <2>2. FactsTyped'
    BY DEF Apply, Did, TypeOK, FactsTyped, Axes, SideEffects
  <2>3. AnswerTyped'
    BY MakeTyped DEF Apply, Did, TypeOK, FactsTyped, AnswerTyped, Headers
  <2> QED BY <2>1, <2>2, <2>3 DEF TypeOK
<1>2. GateInv'
  BY DEF Apply, Did, GateInv, EffectInv
<1>3. DispatchInv'
  BY DEF Apply, Did, GateInv, DispatchInv
<1>4. ConditionInv'
  BY DEF Apply, Did, ConditionInv, DispatchInv, Honoured
<1>5. EffectInv'
  BY DEF Apply, Did, GateInv, DispatchInv, ConditionInv, EffectInv, Cleared, Honoured,
         Disclosing, Mutations, SideEffects, Make, NoResponse
<1> QED BY <1>1, <1>2, <1>3, <1>4, <1>5

\* The redirect answers, it does not halt.
LEMMA N11aInv ==
  ASSUME WalkInv, N11a
  PROVE  WalkInv'
<1>1. TypeOK'
  <2>1. PathTyped'
    BY DEF N11a, VaryHeader, TypeOK, PathTyped, Nodes
  <2>2. FactsTyped'
    BY DEF N11a, VaryHeader, TypeOK, FactsTyped, Axes, SideEffects
  <2>3. AnswerTyped'
    BY MakeTyped DEF N11a, VaryHeader, TypeOK, FactsTyped, AnswerTyped, Headers
  <2> QED BY <2>1, <2>2, <2>3 DEF TypeOK
<1>2. GateInv'
  BY DEF N11a, VaryHeader, GateInv, EffectInv
<1>3. DispatchInv'
  BY DEF N11a, VaryHeader, GateInv, DispatchInv
<1>4. ConditionInv'
  BY DEF N11a, VaryHeader, ConditionInv, DispatchInv, Honoured
<1>5. EffectInv'
  BY DEF N11a, VaryHeader, GateInv, DispatchInv, ConditionInv, EffectInv, Cleared,
         Honoured, Disclosing, Mutations, SideEffects, Make, NoResponse
<1> QED BY <1>1, <1>2, <1>3, <1>4, <1>5

\* The result is framed, not halted.
LEMMA O20Inv ==
  ASSUME WalkInv, O20
  PROVE  WalkInv'
<1>1. TypeOK'
  <2>1. PathTyped'
    BY DEF O20, Creates, FinishHeaders, Represented, Body, VaryHeader, TypeOK, PathTyped,
           Nodes
  <2>2. FactsTyped'
    BY DEF O20, Creates, FinishHeaders, Represented, Body, VaryHeader, TypeOK, FactsTyped,
           Axes, SideEffects
  <2>3. AnswerTyped'
    BY MakeTyped DEF O20, Creates, FinishHeaders, Represented, Body, VaryHeader, TypeOK,
                     FactsTyped, AnswerTyped, Headers
  <2> QED BY <2>1, <2>2, <2>3 DEF TypeOK
<1>2. GateInv'
  BY DEF O20, Creates, FinishHeaders, Represented, Body, VaryHeader, GateInv, EffectInv
<1>3. DispatchInv'
  BY DEF O20, Creates, FinishHeaders, Represented, Body, VaryHeader, GateInv, DispatchInv
<1>4. ConditionInv'
  BY DEF O20, Creates, FinishHeaders, Represented, Body, VaryHeader, ConditionInv,
         DispatchInv, Honoured
<1>5. EffectInv'
  BY DEF O20, Creates, FinishHeaders, Represented, Body, VaryHeader, GateInv, DispatchInv,
         ConditionInv, EffectInv, Cleared, Honoured, Disclosing, Mutations, SideEffects,
         Make, NoResponse
<1> QED BY <1>1, <1>2, <1>3, <1>4, <1>5

\* A missing resource is written only by a PUT without If-Match.
LEMMA H7Inv ==
  ASSUME WalkInv, H7
  PROVE  WalkInv'
<1>1. TypeOK'
  <2>1. PathTyped'
    BY DEF H7, TypeOK, PathTyped, Nodes
  <2>2. FactsTyped'
    BY DEF H7, TypeOK, FactsTyped, Axes, SideEffects
  <2>3. AnswerTyped'
    BY MakeTyped DEF H7, TypeOK, FactsTyped, AnswerTyped, Headers
  <2> QED BY <2>1, <2>2, <2>3 DEF TypeOK
<1>2. GateInv'
  BY DEF H7, GateInv, EffectInv
<1>3. DispatchInv'
  BY DEF H7, GateInv, DispatchInv
<1>4. ConditionInv'
  <2>1. CASE node' = "P3"
    BY <2>1 DEF H7, ConditionInv, Honoured
  <2>2. CASE node' = "K7"
    BY <2>2 DEF H7, ConditionInv, Honoured
  <2>3. CASE node' = "errorBody"
    BY <2>3 DEF H7, ConditionInv, Honoured
  <2> QED BY <2>1, <2>2, <2>3 DEF H7
<1>5. EffectInv'
  BY DEF H7, GateInv, DispatchInv, ConditionInv, EffectInv, Cleared, Honoured, Disclosing,
         Mutations, SideEffects, Make, NoResponse
<1> QED BY <1>1, <1>2, <1>3, <1>4, <1>5

\* Gone or never there.
LEMMA K7Inv ==
  ASSUME WalkInv, K7
  PROVE  WalkInv'
<1>1. TypeOK'
  <2>1. PathTyped'
    BY DEF K7, TypeOK, PathTyped, Nodes
  <2>2. FactsTyped'
    BY DEF K7, TypeOK, FactsTyped, Axes, SideEffects
  <2>3. AnswerTyped'
    BY MakeTyped DEF K7, TypeOK, FactsTyped, AnswerTyped, Headers
  <2> QED BY <2>1, <2>2, <2>3 DEF TypeOK
<1>2. GateInv'
  BY DEF K7, GateInv, EffectInv
<1>3. DispatchInv'
  BY DEF K7, GateInv, DispatchInv
<1>4. ConditionInv'
  BY DEF K7, ConditionInv, DispatchInv, Honoured
<1>5. EffectInv'
  BY DEF K7, GateInv, DispatchInv, ConditionInv, EffectInv, Cleared, Honoured, Disclosing,
         Mutations, SideEffects, Make, NoResponse
<1> QED BY <1>1, <1>2, <1>3, <1>4, <1>5

\* 301.
LEMMA K5Inv ==
  ASSUME WalkInv, K5
  PROVE  WalkInv'
<1>1. TypeOK'
  <2>1. PathTyped'
    BY DEF K5, Moved, TypeOK, PathTyped, Nodes
  <2>2. FactsTyped'
    BY DEF K5, Moved, TypeOK, FactsTyped, Axes, SideEffects
  <2>3. AnswerTyped'
    BY MakeTyped DEF K5, Moved, TypeOK, FactsTyped, AnswerTyped, Headers
  <2> QED BY <2>1, <2>2, <2>3 DEF TypeOK
<1>2. GateInv'
  BY DEF K5, Moved, GateInv, EffectInv
<1>3. DispatchInv'
  BY DEF K5, Moved, GateInv, DispatchInv
<1>4. ConditionInv'
  BY DEF K5, Moved, ConditionInv, DispatchInv, Honoured
<1>5. EffectInv'
  BY DEF K5, Moved, GateInv, DispatchInv, ConditionInv, EffectInv, Cleared, Honoured,
         Disclosing, Mutations, SideEffects, Make, NoResponse
<1> QED BY <1>1, <1>2, <1>3, <1>4, <1>5

\* 308.
LEMMA K5aInv ==
  ASSUME WalkInv, K5a
  PROVE  WalkInv'
<1>1. TypeOK'
  <2>1. PathTyped'
    BY DEF K5a, Moved, TypeOK, PathTyped, Nodes
  <2>2. FactsTyped'
    BY DEF K5a, Moved, TypeOK, FactsTyped, Axes, SideEffects
  <2>3. AnswerTyped'
    BY MakeTyped DEF K5a, Moved, TypeOK, FactsTyped, AnswerTyped, Headers
  <2> QED BY <2>1, <2>2, <2>3 DEF TypeOK
<1>2. GateInv'
  BY DEF K5a, Moved, GateInv, EffectInv
<1>3. DispatchInv'
  BY DEF K5a, Moved, GateInv, DispatchInv
<1>4. ConditionInv'
  BY DEF K5a, Moved, ConditionInv, DispatchInv, Honoured
<1>5. EffectInv'
  BY DEF K5a, Moved, GateInv, DispatchInv, ConditionInv, EffectInv, Cleared, Honoured,
         Disclosing, Mutations, SideEffects, Make, NoResponse
<1> QED BY <1>1, <1>2, <1>3, <1>4, <1>5

\* 307.
LEMMA L5Inv ==
  ASSUME WalkInv, L5
  PROVE  WalkInv'
<1>1. TypeOK'
  <2>1. PathTyped'
    BY DEF L5, Moved, TypeOK, PathTyped, Nodes
  <2>2. FactsTyped'
    BY DEF L5, Moved, TypeOK, FactsTyped, Axes, SideEffects
  <2>3. AnswerTyped'
    BY MakeTyped DEF L5, Moved, TypeOK, FactsTyped, AnswerTyped, Headers
  <2> QED BY <2>1, <2>2, <2>3 DEF TypeOK
<1>2. GateInv'
  BY DEF L5, Moved, GateInv, EffectInv
<1>3. DispatchInv'
  BY DEF L5, Moved, GateInv, DispatchInv
<1>4. ConditionInv'
  BY DEF L5, Moved, ConditionInv, DispatchInv, Honoured
<1>5. EffectInv'
  BY DEF L5, Moved, GateInv, DispatchInv, ConditionInv, EffectInv, Cleared, Honoured,
         Disclosing, Mutations, SideEffects, Make, NoResponse
<1> QED BY <1>1, <1>2, <1>3, <1>4, <1>5

\* 410.
LEMMA M5Inv ==
  ASSUME WalkInv, M5
  PROVE  WalkInv'
<1>1. TypeOK'
  <2>1. PathTyped'
    BY DEF M5, Refuse, TypeOK, PathTyped, Nodes
  <2>2. FactsTyped'
    BY DEF M5, Refuse, TypeOK, FactsTyped, Axes, SideEffects
  <2>3. AnswerTyped'
    BY MakeTyped DEF M5, Refuse, TypeOK, FactsTyped, AnswerTyped, Headers
  <2> QED BY <2>1, <2>2, <2>3 DEF TypeOK
<1>2. GateInv'
  BY DEF M5, Refuse, GateInv, EffectInv
<1>3. DispatchInv'
  BY DEF M5, Refuse, GateInv, DispatchInv
<1>4. ConditionInv'
  BY DEF M5, Refuse, ConditionInv, DispatchInv, Honoured
<1>5. EffectInv'
  BY DEF M5, Refuse, GateInv, DispatchInv, ConditionInv, EffectInv, Cleared, Honoured,
         Disclosing, Mutations, SideEffects, Make, NoResponse
<1> QED BY <1>1, <1>2, <1>3, <1>4, <1>5

\* 404.
LEMMA L7Inv ==
  ASSUME WalkInv, L7
  PROVE  WalkInv'
<1>1. TypeOK'
  <2>1. PathTyped'
    BY DEF L7, Refuse, TypeOK, PathTyped, Nodes
  <2>2. FactsTyped'
    BY DEF L7, Refuse, TypeOK, FactsTyped, Axes, SideEffects
  <2>3. AnswerTyped'
    BY MakeTyped DEF L7, Refuse, TypeOK, FactsTyped, AnswerTyped, Headers
  <2> QED BY <2>1, <2>2, <2>3 DEF TypeOK
<1>2. GateInv'
  BY DEF L7, Refuse, GateInv, EffectInv
<1>3. DispatchInv'
  BY DEF L7, Refuse, GateInv, DispatchInv
<1>4. ConditionInv'
  BY DEF L7, Refuse, ConditionInv, DispatchInv, Honoured
<1>5. EffectInv'
  BY DEF L7, Refuse, GateInv, DispatchInv, ConditionInv, EffectInv, Cleared, Honoured,
         Disclosing, Mutations, SideEffects, Make, NoResponse
<1> QED BY <1>1, <1>2, <1>3, <1>4, <1>5

\* The error body keeps the status.
LEMMA ErrorBodyInv ==
  ASSUME WalkInv, ErrorBody
  PROVE  WalkInv'
<1>1. TypeOK'
  <2>1. PathTyped'
    BY DEF ErrorBody, Body, TypeOK, PathTyped, Nodes
  <2>2. FactsTyped'
    BY DEF ErrorBody, Body, TypeOK, FactsTyped, Axes, SideEffects
  <2>3. AnswerTyped'
    <3>1. response.status \in 0..599 /\ response.headers \subseteq Headers
      BY DEF TypeOK, AnswerTyped, Responses
    <3>2. response.headers \cup {"Content-Type"} \subseteq Headers
      BY <3>1 DEF Headers
    <3>3. Body(method = "HEAD") \in {"empty", "full"}
      BY DEF Body
    <3> QED BY <3>1, <3>2, <3>3, MakeTyped DEF ErrorBody, TypeOK, AnswerTyped
  <2> QED BY <2>1, <2>2, <2>3 DEF TypeOK
<1>2. GateInv'
  BY DEF ErrorBody, Body, GateInv, EffectInv
<1>3. DispatchInv'
  BY DEF ErrorBody, Body, GateInv, DispatchInv
<1>4. ConditionInv'
  BY DEF ErrorBody, Body, ConditionInv, DispatchInv, Honoured
<1>5. EffectInv'
  BY DEF ErrorBody, Body, GateInv, DispatchInv, ConditionInv, EffectInv, Cleared, Honoured,
         Disclosing, Mutations, SideEffects, Make, NoResponse
<1> QED BY <1>1, <1>2, <1>3, <1>4, <1>5

\* A callback's own halt or exception ends the walk; its effect came after
\* the gates and the preconditions.
LEMMA CallbackEscapesInv ==
  ASSUME WalkInv, CallbackEscapes
  PROVE  WalkInv'
<1>1. TypeOK'
  <2>1. PathTyped'
    BY DEF CallbackEscapes, NoCallback, Pure, EffectAt, TypeOK, PathTyped, Nodes
  <2>2. FactsTyped'
    BY DEF CallbackEscapes, NoCallback, Pure, EffectAt, TypeOK, FactsTyped, Axes, SideEffects
  <2>3. AnswerTyped'
    <3>1. NoResponse \in Responses
      BY DEF NoResponse, Responses, Headers
    <3> QED BY <3>1, MakeTyped DEF CallbackEscapes, TypeOK, AnswerTyped, Headers
  <2> QED BY <2>1, <2>2, <2>3 DEF TypeOK
<1>2. GateInv'
  BY DEF CallbackEscapes, NoCallback, Pure, EffectAt, GateInv, EffectInv
<1>3. DispatchInv'
  BY DEF CallbackEscapes, NoCallback, Pure, EffectAt, GateInv, DispatchInv
<1>4. ConditionInv'
  BY DEF CallbackEscapes, NoCallback, Pure, EffectAt, ConditionInv, DispatchInv, Honoured
<1>5. EffectInv'
  BY DEF CallbackEscapes, NoCallback, Pure, EffectAt, GateInv, DispatchInv, ConditionInv, EffectInv,
         Cleared, Honoured, Disclosing, Mutations, SideEffects, Make, NoResponse
<1> QED BY <1>1, <1>2, <1>3, <1>4, <1>5

-----------------------------------------------------------------------------
(***************************************************************************)
(* The theorems.                                                           *)
(***************************************************************************)
HIDE DEF WalkInv, At, Skip, Pass, Halt, Return, facts

\* Every walk keeps the invariant, whatever the callbacks answer.
THEOREM WalkInductive == Spec => []WalkInv
<1>1. ASSUME WalkInv, [Next]_vars PROVE WalkInv'
  <2>1. CASE Walk
    BY <1>1, <2>1, B13Inv, B13aInv, B12Inv, B11Inv, B10Inv, B9Inv, B8Inv, B7Inv, B7aInv, B6Inv,
         B5Inv, B4Inv, B3Inv, C4Inv, D5Inv, F7Inv, G7Inv, VaryInv, W1Inv,
         ValidatorsInv, PreconditionsInv, O18Inv, M20Inv, N11Inv, CreatePathInv,
         ProcessPostInv, O14Inv, P3Inv, DecodeInv, ApplyInv, N11aInv, O20Inv, H7Inv,
         K7Inv, K5Inv, K5aInv, L5Inv, M5Inv, L7Inv DEF Walk
  <2>2. CASE ErrorBody
    BY <1>1, <2>2, ErrorBodyInv
  <2>3. CASE CallbackEscapes
    BY <1>1, <2>3, CallbackEscapesInv
  <2>4. CASE UNCHANGED vars
    BY <1>1, <2>4 DEF vars, facts, WalkInv, TypeOK, PathTyped, FactsTyped, AnswerTyped, GateInv, DispatchInv,
                ConditionInv, EffectInv, Cleared, Honoured
  <2> QED BY <1>1, <2>1, <2>2, <2>3, <2>4 DEF Next, Finished
<1> QED BY InitInv, <1>1, PTL DEF Spec

\* The variables keep their types, for any set of request methods.
THEOREM WalkTypeCorrect == Spec => []TypeOK
<1>1. WalkInv => TypeOK
  BY DEF WalkInv
<1> QED BY <1>1, WalkInductive, PTL

\* No halt of the graph fires after apply or process_post ran, only the body's
\* refusals after create_path, and after delete_resource only the 500 that says
\* it failed: a halt commits no other mutation.
THEOREM HaltsPrecedeMutations == Spec => []NoHaltAfterMutation
<1>1. WalkInv => NoHaltAfterMutation
  BY DEF WalkInv, EffectInv, NoHaltAfterMutation
<1> QED BY <1>1, WalkInductive, PTL

\* GET, HEAD, OPTIONS and unknown methods reach no side-effecting callback.
THEOREM SafeMethodsAreSafe == Spec => []OnlyWritesHaveEffects
<1>1. WalkInv => OnlyWritesHaveEffects
  BY DEF WalkInv, EffectInv, OnlyWritesHaveEffects
<1> QED BY <1>1, WalkInductive, PTL

\* The gates come before every effect and every disclosure.
THEOREM GatesComeFirst == Spec => []GatesFirst
<1>1. WalkInv => GatesFirst
  BY DEF WalkInv, EffectInv, Cleared, GatesFirst, Answered
<1> QED BY <1>1, WalkInductive, PTL

\* A write that took effect honoured every precondition the request carried.
THEOREM PreconditionsAreHonoured == Spec => []WritesHonourPreconditions
<1>1. WalkInv => WritesHonourPreconditions
  BY DEF WalkInv, EffectInv, Honoured, WritesHonourPreconditions
<1> QED BY <1>1, WalkInductive, PTL
-----------------------------------------------------------------------------
(***************************************************************************)
(* The shape of the graph: it has no cycle, so a walk meets each node at   *)
(* most once and ends after at most Rank("B13") steps.                     *)
(***************************************************************************)
\* The most steps a walk may still take from a node.
Rank(n) ==
  CASE n = "end"                                 -> 0
    [] n = "errorBody"                           -> 1
    [] n \in {"O20", "M20", "O18", "M5", "L7"}   -> 2
    [] n \in {"N11a", "L5"}                      -> 3
    [] n \in {"apply", "process_post", "K5a"}    -> 4
    [] n \in {"decode", "K5"}                    -> 5
    [] n \in {"create_path", "O14", "P3", "K7"}  -> 6
    [] n \in {"N11", "H7"}                       -> 7
    [] n = "preconditions"                       -> 8
    [] n = "validators"                          -> 9
    [] n = "W1"                                  -> 10
    [] n = "vary"                                -> 11
    [] n = "G7"                                  -> 12
    [] n = "F7"                                  -> 13
    [] n = "D5"                                  -> 14
    [] n = "C4"                                  -> 15
    [] n \in {"B3", "B4"}                        -> 16
    [] n = "B5"                                  -> 17
    [] n = "B6"                                  -> 18
    [] n = "B7a"                                 -> 19
    [] n = "B7"                                  -> 20
    [] n = "B8"                                  -> 21
    [] n = "B9"                                  -> 22
    [] n = "B10"                                 -> 23
    [] n = "B11"                                 -> 24
    [] n = "B12"                                 -> 25
    [] n = "B13a"                                -> 26
    [] OTHER                                     -> 27

\* Every step comes nearer to the end: the sequence of steps of _walk and
\* its helpers has no way back, so no node is met twice.
RankFalls == [][Rank(node') < Rank(node)]_vars

\* A request has one mutation at most, and the one callback with an effect
\* that may have run before it is create_path.
OneMutation ==
  [][effects' # effects =>
       /\ effects \cap Mutations = {}
       /\ EffectAt(node) \cap effects = {}
       /\ effects # {} => effects = {"create_path"} /\ node = "apply"]_vars

\* One step of the walk, whichever it is, comes nearer to the end.
LEMMA WalkFalls == Walk => Rank(node') < Rank(node)
<1> SUFFICES ASSUME Walk PROVE Rank(node') < Rank(node)
  OBVIOUS
<1> USE DEF Rank, At, Skip, Pass, Halt, Return
<1>1. CASE B13 \/ B13a \/ B12 \/ B11 \/ B10
  BY <1>1 DEF B13, B13a, B12, B11, B10, QuietGate
<1>2. CASE B9 \/ B8 \/ B7 \/ B7a \/ B6 \/ B5 \/ B4 \/ B3
  BY <1>2 DEF B9, B8, B7, B7a, B6, B5, B4, B3, Gate, QuietGate
<1>3. CASE C4 \/ D5 \/ F7
  BY <1>3 DEF C4, D5, F7, Axis
<1>4. CASE G7 \/ Vary \/ W1 \/ Validators \/ Preconditions
  BY <1>4 DEF G7, Vary, W1, Validators, Preconditions, Dispatch
<1>5. CASE O18 \/ M20 \/ N11 \/ CreatePath \/ ProcessPost
  BY <1>5 DEF O18, M20, N11, CreatePath, ProcessPost
<1>6. CASE O14 \/ P3 \/ Decode \/ Apply
  BY <1>6 DEF O14, P3, Gate, Decode, Apply
<1>7. CASE N11a \/ O20
  <2>1. node \in {"N11a", "O20"} /\ node' \in {"O20", "end"} /\ node' # node
    <3> HIDE DEF Rank
    <3> QED BY <1>7, Zenon DEF N11a, O20
  <2> QED BY <2>1
<1>8. CASE H7 \/ K7 \/ K5 \/ K5a \/ L5 \/ M5 \/ L7
  BY <1>8 DEF H7, K7, K5, K5a, L5, M5, L7, Moved, Refuse
<1> QED BY <1>1, <1>2, <1>3, <1>4, <1>5, <1>6, <1>7, <1>8 DEF Walk

\* The graph has no cycle: every walk ends, and meets no node twice.
THEOREM WalkDescends == Spec => RankFalls
<1>1. ASSUME [Next]_vars PROVE [Rank(node') < Rank(node)]_vars
  <2>1. CASE Walk
    BY <2>1, WalkFalls
  <2>2. CASE ErrorBody
    BY <2>2 DEF ErrorBody, At, Rank
  <2>3. CASE CallbackEscapes
    BY <2>3 DEF CallbackEscapes, NoCallback, Pure, Rank
  <2>4. CASE UNCHANGED vars
    BY <2>4
  <2> QED BY <1>1, <2>1, <2>2, <2>3, <2>4 DEF Next, Finished
<1> QED BY <1>1, PTL DEF Spec, RankFalls

\* Where an effect is recorded, none was before, or only create_path's.
LEMMA EffectsOf ==
  ASSUME WalkInv, Next, effects' # effects
  PROVE  /\ node \in {"M20", "create_path", "process_post", "apply"}
         /\ effects' = effects \cup EffectAt(node)
<1>1. CASE Walk
  <2>1. CreatePath \/ ProcessPost \/ Apply \/ M20
    BY <1>1 DEF Walk, B13, B13a, B12, B11, B10, B9, B8, B7, B7a, B6, B5, B4, B3, C4, D5, F7,
                G7, Vary, W1, Validators, Preconditions, O18, N11, O14, P3, Decode, N11a, O20,
                H7, K7, K5, K5a, L5, M5, L7, Gate, QuietGate, Axis, Moved, Refuse
  <2> QED BY <2>1 DEF CreatePath, ProcessPost, Apply, M20, At, Did, EffectAt
<1>2. CASE CallbackEscapes
  BY <1>2 DEF CallbackEscapes, EffectAt
<1> QED BY <1>1, <1>2 DEF Next, ErrorBody, Finished, vars

\* At most one mutation per request, after create_path at most.
THEOREM OneMutationAtMost == Spec => OneMutation
<1>1. ASSUME WalkInv, Next, effects' # effects
      PROVE  /\ effects \cap Mutations = {}
             /\ EffectAt(node) \cap effects = {}
             /\ effects # {} => effects = {"create_path"} /\ node = "apply"
  <2>1. /\ node \in {"M20", "create_path", "process_post", "apply"}
        /\ effects \subseteq SideEffects
    BY <1>1, EffectsOf DEF WalkInv, TypeOK, FactsTyped
  <2>2. /\ effects \cap Mutations = {}
        /\ effects # {} => node = "apply"
    BY <1>1, <2>1 DEF WalkInv, EffectInv, Over
  <2>3. effects \subseteq {"create_path"}
    BY <2>1, <2>2 DEF Mutations, SideEffects
  <2> QED BY <2>1, <2>2, <2>3 DEF EffectAt
<1>2. WalkInv /\ [Next]_vars =>
        [effects' # effects =>
           /\ effects \cap Mutations = {}
           /\ EffectAt(node) \cap effects = {}
           /\ effects # {} => effects = {"create_path"} /\ node = "apply"]_vars
  BY <1>1 DEF vars
<1> QED BY <1>2, WalkInductive, PTL DEF Spec, OneMutation
=============================================================================
