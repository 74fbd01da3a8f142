--------------------------- MODULE BodyRead_proofs ---------------------------
(***************************************************************************)
(* Proofs about BodyRead, for every limit and every body.                  *)
(*                                                                         *)
(* That a 400 is deserved although the read that found the mismatch may    *)
(* have started in the middle of the stream is the reason the invariant    *)
(* relates failed to the stream: after a failure that can be resumed, more *)
(* than MaxBytes bytes have been pulled, and no declared length that let   *)
(* the read start is as great.                                             *)
(***************************************************************************)
EXTENDS BodyRead, TLAPS

\* What a read in progress, and one that is over, know of the stream.
StreamInv ==
  /\ total <= pulled /\ total <= MaxBytes
  /\ reading => /\ ~ended /\ cached = None /\ raised = "none" /\ ~DeclaredOver
                /\ ~failed => total = pulled
                /\ stage # "over"
  /\ ~reading => total = 0
  /\ ~failed /\ ~reading /\ cached = None => pulled = 0 /\ ~ended
  /\ failed => gone \/ DeclaredOver \/ pulled > MaxBytes \/ ended

\* The cache is a piece of the body that ends where the body ends.
CacheInv ==
  /\ cached # None =>
       /\ ended /\ cached <= pulled
       /\ pulled - cached <= MaxBytes
       /\ declared # None => pulled - cached = declared
       /\ ~failed => cached = 0
  /\ given # None => given = cached

\* An exception in flight has its cause.
RaisedInv ==
  /\ raised = "tooLarge" => pulled > MaxBytes \/ DeclaredOver
  /\ raised = "malformed" => ended /\ declared # None /\ pulled # declared
  /\ raised = "consumed" => failed /\ ended
  /\ raised # "none" => stage # "over"

\* Each lane keeps to its stages, and a command is silent until it ends.
LaneInv ==
  /\ lane = "command" => stage \in {"command", "over"}
  /\ lane = "resource" => stage # "command" /\ events = 0
  /\ stage = "command" => events = 0 /\ status = 0 /\ escaped = "none"

IInv == TypeOK /\ StreamInv /\ CacheInv /\ RaisedInv /\ LaneInv
           /\ VerdictTruthful /\ CommandReported

LEMMA InitInv == Init => IInv
  <1> SUFFICES ASSUME Init PROVE IInv OBVIOUS
  <1> USE MaxBytesAssumption, LongestAssumption, NoneAssumption DEF Init, IInv
  <1>1. TypeOK
    <2>1. 0 \in 0..Longest OBVIOUS
    <2>2. /\ lane \in {"resource", "command"} /\ stage \in Stages
          /\ raised \in Errors \cup {"none"} /\ escaped \in Errors \cup {"none"}
          /\ status \in Statuses \cup {0} /\ events \in 0..1
      BY DEF Stages
    <2> QED BY <2>1, <2>2 DEF TypeOK
  <1>2. StreamInv /\ CacheInv /\ RaisedInv
    BY DEF StreamInv, CacheInv, RaisedInv
  <1>3. LaneInv /\ VerdictTruthful /\ CommandReported
    BY DEF LaneInv, VerdictTruthful, CommandReported
  <1> QED BY <1>1, <1>2, <1>3

LEMMA ReadInv == IInv /\ Read => IInv'
  <1> SUFFICES ASSUME IInv, Read PROVE IInv' OBVIOUS
  <1> USE MaxBytesAssumption, LongestAssumption, NoneAssumption
      DEF IInv, Read, BodyRaises, Idle, DeclaredOver, stream, answer, Callbacks, Handling
  <1>1. TypeOK'
    <2>1. 0 \in 0..Longest /\ raised \in Errors \cup {"none"} BY DEF TypeOK
    <2>2. raised' \in Errors \cup {"none"} BY <2>1 DEF Errors, BodyErrors
    <2>3. failed' \in BOOLEAN /\ reading' \in BOOLEAN BY DEF TypeOK
    <2>4. total' \in 0..Longest BY <2>1 DEF TypeOK
    <2> QED BY <2>2, <2>3, <2>4 DEF TypeOK
  <1>2. StreamInv' BY DEF TypeOK, StreamInv
  <1>3. CacheInv' BY DEF TypeOK, CacheInv
  <1>4. RaisedInv' BY DEF TypeOK, StreamInv, RaisedInv
  <1>5. LaneInv' BY DEF LaneInv
  <1>6. VerdictTruthful' BY DEF VerdictTruthful
  <1>7. CommandReported' BY DEF CommandReported
  <1> QED BY <1>1, <1>2, <1>3, <1>4, <1>5, <1>6, <1>7

LEMMA ReceiveInv ==
  ASSUME IInv, NEW n \in 0..(Longest - pulled), NEW last \in BOOLEAN, Receive(n, last)
  PROVE  IInv'
  <1> USE MaxBytesAssumption, LongestAssumption, NoneAssumption
      DEF IInv, Receive, BodyRaises, Overflows, Disagrees, Joined, stream, answer
  <1>0. /\ pulled \in 0..Longest /\ pulled' \in 0..Longest /\ pulled' = pulled + n
        /\ total \in 0..Longest /\ n \in Nat
        /\ total <= pulled /\ (~failed => total = pulled)
        /\ declared \in Nat \cup {None} /\ (declared # None => declared <= MaxBytes)
        /\ cached = None /\ given = None /\ raised = "none" /\ reading /\ ~ended
        /\ failed => pulled > MaxBytes
    BY DEF TypeOK, StreamInv, CacheInv, DeclaredOver
  <1>a. /\ lane' = lane /\ stage' = stage /\ declared' = declared /\ gone' = gone
        /\ escaped' = escaped /\ given' = given /\ status' = status
        /\ events' = events /\ report' = report
        /\ ended' = last /\ ended' \in BOOLEAN
    OBVIOUS
  <1>b. ASSUME Overflows(n)
       PROVE  TypeOK' /\ StreamInv' /\ CacheInv' /\ RaisedInv'
    <2>1. /\ raised' = "tooLarge" /\ failed' = TRUE /\ reading' = FALSE
          /\ total' = 0 /\ cached' = None
      BY ONLY <1>0, <1>b, Receive(n, last) DEF Receive, BodyRaises
    <2>a. pulled' > MaxBytes BY ONLY <1>0, <1>b, MaxBytesAssumption DEF Overflows
    <2>t. raised' \in Errors \cup {"none"} /\ failed' \in BOOLEAN /\ reading' \in BOOLEAN
      BY ONLY <2>1 DEF Errors, BodyErrors
    <2>2. TypeOK' BY ONLY <1>0, <1>a, <2>1, <2>t, LongestAssumption, IInv DEF IInv, TypeOK
    <2>3. StreamInv' /\ CacheInv' /\ RaisedInv'
      BY ONLY <1>0, <1>a, <2>1, <2>a, MaxBytesAssumption, IInv
      DEF IInv, StreamInv, CacheInv, RaisedInv
    <2> QED BY <2>2, <2>3
  <1>c. ASSUME ~Overflows(n) /\ ~last
       PROVE  TypeOK' /\ StreamInv' /\ CacheInv' /\ RaisedInv'
    <2>1. /\ raised' = "none" /\ failed' = failed /\ reading' = reading
          /\ total' = total + n /\ cached' = None
      BY ONLY <1>0, <1>c, Receive(n, last) DEF Receive, BodyRaises
    <2>a. total + n <= MaxBytes /\ total + n \in 0..Longest
      BY ONLY <1>0, <1>c, MaxBytesAssumption, LongestAssumption DEF Overflows
    <2>2. TypeOK' BY ONLY <1>0, <1>a, <2>1, <2>a, LongestAssumption, IInv
                  DEF IInv, TypeOK, Errors, BodyErrors
    <2>3. StreamInv' /\ CacheInv' /\ RaisedInv'
      BY ONLY <1>0, <1>a, <1>c, <2>1, <2>a, MaxBytesAssumption, IInv
      DEF IInv, StreamInv, CacheInv, RaisedInv, DeclaredOver
    <2> QED BY <2>2, <2>3
  <1>d. ASSUME ~Overflows(n) /\ last /\ Disagrees(n)
       PROVE  TypeOK' /\ StreamInv' /\ CacheInv' /\ RaisedInv'
    <2>1. /\ raised' = "malformed" /\ failed' = TRUE /\ reading' = FALSE
          /\ total' = 0 /\ cached' = None
          /\ declared # None /\ total + n # declared
      BY <1>0, <1>d
    <2>t. raised' \in Errors \cup {"none"} /\ failed' \in BOOLEAN /\ reading' \in BOOLEAN
      BY ONLY <2>1 DEF Errors, BodyErrors
    <2>2. TypeOK' BY ONLY <1>0, <1>a, <2>1, <2>t, LongestAssumption, IInv DEF IInv, TypeOK
    <2>3. StreamInv' /\ CacheInv' /\ RaisedInv'
      BY ONLY <1>0, <1>a, <1>d, <2>1, MaxBytesAssumption, IInv
      DEF IInv, StreamInv, CacheInv, RaisedInv
    <2> QED BY <2>2, <2>3
  <1>e. ASSUME ~Overflows(n) /\ last /\ ~Disagrees(n)
       PROVE  TypeOK' /\ StreamInv' /\ CacheInv' /\ RaisedInv'
    <2>1. /\ raised' = "none" /\ failed' = failed /\ reading' = FALSE
          /\ total' = 0 /\ total + n <= MaxBytes /\ cached' = pulled - total
          /\ declared # None => total + n = declared
      BY <1>0, <1>e
    <2>2. cached' \in 0..Longest BY <1>0, <2>1
    <2>t. raised' \in Errors \cup {"none"} /\ failed' \in BOOLEAN /\ reading' \in BOOLEAN
      BY ONLY <1>0, <2>1, IInv DEF IInv, TypeOK, Errors, BodyErrors
    <2>3. TypeOK' BY ONLY <1>0, <1>a, <2>1, <2>2, <2>t, LongestAssumption, IInv
                  DEF IInv, TypeOK
    <2>4. StreamInv' /\ CacheInv' /\ RaisedInv'
      BY ONLY <1>0, <1>a, <1>e, <2>1, <2>2, MaxBytesAssumption, NoneAssumption, IInv
      DEF IInv, StreamInv, CacheInv, RaisedInv
    <2> QED BY <2>3, <2>4
  <1>1. TypeOK' /\ StreamInv' /\ CacheInv' /\ RaisedInv'
    BY <1>b, <1>c, <1>d, <1>e
  <1>5. LaneInv' BY DEF LaneInv
  <1>6. VerdictTruthful' BY DEF TypeOK, StreamInv, VerdictTruthful
  <1>7. CommandReported' BY DEF CommandReported
  <1> QED BY <1>1, <1>5, <1>6, <1>7

LEMMA DisconnectInv == IInv /\ Disconnect => IInv'
  <1> SUFFICES ASSUME IInv, Disconnect PROVE IInv' OBVIOUS
  <1> USE MaxBytesAssumption, LongestAssumption, NoneAssumption
      DEF IInv, Disconnect, BodyRaises, stream, answer
  <1>1. TypeOK'
    <2>1. raised' \in Errors \cup {"none"} BY DEF Errors
    <2>2. gone' = TRUE /\ failed' = TRUE /\ reading' = FALSE /\ total' \in 0..Longest
      OBVIOUS
    <2> QED BY <2>1, <2>2 DEF TypeOK
  <1>2. StreamInv' BY DEF TypeOK, StreamInv, DeclaredOver
  <1>3. CacheInv' BY DEF TypeOK, StreamInv, CacheInv
  <1>4. RaisedInv' BY DEF StreamInv, RaisedInv
  <1>5. LaneInv' BY DEF LaneInv
  <1>6. VerdictTruthful' BY DEF VerdictTruthful
  <1>7. CommandReported' BY DEF CommandReported
  <1> QED BY <1>1, <1>2, <1>3, <1>4, <1>5, <1>6, <1>7

\* The steps that leave the stream and the cache alone.
LEMMA CalmInv ==
  ASSUME IInv, Swallow \/ CallbackRaises \/ B4 \/ Dispatch \/ Apply
  PROVE  IInv'
  <1> USE MaxBytesAssumption, LongestAssumption, NoneAssumption
      DEF IInv, Swallow, CallbackRaises, B4, Dispatch, Apply, Halt, Idle, stream, answer,
          Callbacks, Handling
  <1>1. TypeOK' BY DEF TypeOK, Stages, Errors, BodyErrors, Statuses
  <1>2. StreamInv' BY DEF TypeOK, StreamInv, DeclaredOver
  <1>3. CacheInv' BY DEF TypeOK, CacheInv
  <1>4. RaisedInv' BY DEF StreamInv, RaisedInv, DeclaredOver
  <1>5. LaneInv' BY DEF LaneInv
  <1>6. VerdictTruthful' BY DEF VerdictTruthful, DeclaredOver
  <1>7. CommandReported' BY DEF CommandReported, LaneInv
  <1> QED BY <1>1, <1>2, <1>3, <1>4, <1>5, <1>6, <1>7

LEMMA EscapeInv == IInv /\ Escape => IInv'
  <1> SUFFICES ASSUME IInv, Escape PROVE IInv' OBVIOUS
  <1> USE MaxBytesAssumption, LongestAssumption, NoneAssumption
      DEF IInv, Escape, Mapped, Refusal, Halt, Ends, Emit, Outcome, stream, answer,
          Handling, BodyErrors
  <1>1. TypeOK' BY DEF TypeOK, Stages, Errors, Statuses, LaneInv
  <1>2. StreamInv' BY DEF TypeOK, StreamInv, DeclaredOver
  <1>3. CacheInv' BY DEF TypeOK, CacheInv
  <1>4. RaisedInv' BY DEF RaisedInv
  <1>5. LaneInv' BY DEF LaneInv, TypeOK
  <1>6. VerdictTruthful' BY DEF VerdictTruthful, RaisedInv, DeclaredOver, TypeOK
  <1>7. CommandReported' BY DEF CommandReported, LaneInv, TypeOK
  <1> QED BY <1>1, <1>2, <1>3, <1>4, <1>5, <1>6, <1>7

LEMMA FinishInv == IInv /\ Finish => IInv'
  <1> SUFFICES ASSUME IInv, Finish PROVE IInv' OBVIOUS
  <1> USE MaxBytesAssumption, LongestAssumption, NoneAssumption
      DEF IInv, Finish, Halt, Ends, Emit, Outcome, Idle, stream, answer
  <1>1. TypeOK' BY DEF TypeOK, Stages, Errors, Statuses, LaneInv
  <1>2. StreamInv' BY DEF TypeOK, StreamInv, DeclaredOver
  <1>3. CacheInv' BY DEF TypeOK, CacheInv
  <1>4. RaisedInv' BY DEF RaisedInv
  <1>5. LaneInv' BY DEF LaneInv, TypeOK
  <1>6. VerdictTruthful' BY DEF VerdictTruthful, TypeOK
  <1>7. CommandReported' BY DEF CommandReported, LaneInv, TypeOK
  <1> QED BY <1>1, <1>2, <1>3, <1>4, <1>5, <1>6, <1>7

LEMMA StutterInv == IInv /\ UNCHANGED vars => IInv'
  BY DEF IInv, TypeOK, StreamInv, CacheInv, RaisedInv, LaneInv, VerdictTruthful,
         CommandReported, DeclaredOver, vars

\* IInv holds in every reachable state.
THEOREM BodyInductive == Spec => []IInv
  <1>1. IInv /\ [Next]_vars => IInv'
    <2> SUFFICES ASSUME IInv, [Next]_vars PROVE IInv' OBVIOUS
    <2>1. CASE Read BY <2>1, ReadInv
    <2>2. CASE \E n \in 0..(Longest - pulled), last \in BOOLEAN : Receive(n, last)
      BY <2>2, ReceiveInv
    <2>3. CASE Disconnect BY <2>3, DisconnectInv
    <2>4. CASE Swallow \/ CallbackRaises \/ B4 \/ Dispatch \/ Apply BY <2>4, CalmInv
    <2>5. CASE Escape BY <2>5, EscapeInv
    <2>6. CASE Finish BY <2>6, FinishInv
    <2>7. CASE Over \/ UNCHANGED vars BY <2>7, StutterInv DEF Over
    <2> QED BY <2>1, <2>2, <2>3, <2>4, <2>5, <2>6, <2>7 DEF Next
  <1> QED BY InitInv, <1>1, PTL DEF Spec

\* Type correctness.
THEOREM BodyTypeCorrect == Spec => []TypeOK
  <1>1. IInv => TypeOK BY DEF IInv
  <1> QED BY <1>1, BodyInductive, PTL

\* No more than MaxBytes are kept, for any limit and any chunking.
THEOREM CapAlwaysHolds == Spec => []CapHolds
  <1>1. IInv => CapHolds BY DEF IInv, StreamInv, CacheInv, CapHolds
  <1> QED BY <1>1, BodyInductive, PTL

\* What apply is given is whole and as long as declared.
THEOREM AppliedBodiesAreWhole == Spec => []AppliedIsWhole
  <1>1. IInv => AppliedIsWhole BY DEF IInv, CacheInv, AppliedIsWhole
  <1> QED BY <1>1, BodyInductive, PTL

\* A 413 or 400 is deserved.
THEOREM VerdictsAreTruthful == Spec => []VerdictTruthful
  <1>1. IInv => VerdictTruthful BY DEF IInv
  <1> QED BY <1>1, BodyInductive, PTL

\* The stream is found consumed only after a failure.
THEOREM ConsumedOnlyAfterFailure == Spec => []ConsumedMeansFailed
  <1>1. IInv => ConsumedMeansFailed BY DEF IInv, RaisedInv, ConsumedMeansFailed
  <1> QED BY <1>1, BodyInductive, PTL

\* Every command reports once and truthfully.
THEOREM CommandsReport == Spec => []CommandReported
  <1>1. IInv => CommandReported BY DEF IInv
  <1> QED BY <1>1, BodyInductive, PTL
=============================================================================
