----------------------- MODULE RequestLifecycle_proofs -----------------------
(***************************************************************************)
(* RequestLifecycle, proved for any set of requests, pool and stream size: *)
(* the safety invariants its runs check, and that it                       *)
(* implements RequestBoundary.  Everything rests on one inductive          *)
(* invariant, IInv.                                                        *)
(***************************************************************************)
EXTENDS RequestLifecycle, TLAPS

(***************************************************************************)
(* The inductive invariant: what each place says about the lifespan, the   *)
(* wrapper and the reports, and what the lifespan's fate says about them.  *)
(***************************************************************************)
Untouched(r) == ~closed[r] /\ emitted[r] = 0 /\ report[r] = "none" /\ wire[r] = "nothing"
Backed(r)    == /\ emitted[r] = 1
                /\ life[r] \in {"committed", "rolledback", "abandoned"}
                /\ life[r] = "rolledback" => handled[r]

PlaceInv(r) ==
  /\ pc[r] \in {"idle", "setup"} =>
       /\ life[r] = "unopened" /\ reply[r] = "none" /\ fed[r] = "none"
       /\ ~handled[r] /\ Untouched(r)
  /\ pc[r] \in InWalk =>
       life[r] = "open" /\ reply[r] = "none" /\ fed[r] = "none" /\ Untouched(r)
  /\ pc[r] = "walk" => ~handled[r]
  /\ pc[r] = "except" =>
       life[r] = "open" /\ reply[r] = "none" /\ Untouched(r) /\ fed[r] # "none"
  /\ pc[r] = "finally" =>
       /\ life[r] = "open" /\ reply[r] = "buffered" /\ Untouched(r)
       /\ fed[r] = "none" <=> ~handled[r]
  /\ pc[r] = "returned" => \/ /\ reply[r] = "stream" /\ life[r] = "open"
                              /\ fed[r] = "none" /\ Untouched(r)
                           \/ reply[r] = "buffered" /\ Backed(r) /\ wire[r] = "nothing"
  /\ pc[r] = "replying" => reply[r] = "buffered" /\ Backed(r) /\ wire[r] = "nothing"
  /\ pc[r] \in Streaming =>
       reply[r] = "stream" /\ life[r] = "open" /\ wire[r] # "all" /\ ~closed[r]
  /\ pc[r] \in {"anext", "aclose"} =>
       reply[r] = "stream" /\ life[r] = "open" /\ wire[r] # "all" /\ closed[r]
  /\ pc[r] = "finishing" =>
       /\ reply[r] = "stream" /\ closed[r] /\ wire[r] # "all"
       /\ emitted[r] = 1 /\ life[r] \in {"committed", "abandoned"}
  /\ pc[r] = "closing" => reply[r] = "stream" /\ (~closed[r] <=> life[r] = "open")
  /\ pc[r] = "done" /\ life[r] = "open" => reply[r] = "stream" /\ fed[r] = "none"

FateInv(r) ==
  /\ life[r] \in {"unopened", "open"} =>
       emitted[r] = 0 /\ report[r] = "none" /\ wire[r] # "all"
  /\ life[r] = "unopened" => pc[r] \in {"idle", "setup", "done"}
  /\ life[r] = "failed" => emitted[r] = 0 /\ report[r] = "none"
  /\ emitted[r] \in {0, 1}
  /\ wire[r] = "all" => Backed(r)
  /\ Released(r) => emitted[r] = 1
  /\ life[r] = "rolledback" /\ fed[r] = "none" => emitted[r] = 0 /\ report[r] = "none"
  /\ reply[r] = "buffered" =>
       /\ handled[r] => life[r] # "committed"
       /\ report[r] = "ok" => ~handled[r] /\ life[r] \in {"committed", "abandoned"}

\* Where a failed producer's stream can be, and what its release was fed.
FailureInv(r) ==
  /\ reply[r] # "stream" => failure[r] = "none"
  /\ pc[r] \in {"pulling", "finishing"} => failure[r] \in {"none", "told"}
  /\ pc[r] = "sending" => failure[r] # "raised"
  /\ pc[r] = "aclose" => fed[r] = "genexit"
  /\ pc[r] = "anext" /\ fed[r] = "none" => failure[r] \in {"none", "told"}
  /\ failure[r] = "raised" => closed[r] /\ fed[r] = "error"
  /\ failure[r] \in {"raised", "framed"} => life[r] # "committed" /\ wire[r] # "all"
  /\ failure[r] = "raised" => report[r] # "ok"

IInv == TypeOK /\ \A r \in Requests : PlaceInv(r) /\ FateInv(r) /\ FailureInv(r)

-----------------------------------------------------------------------------
(***************************************************************************)
(* IInv is inductive: one lemma per action.                                *)
(***************************************************************************)
USE MaxChunksAssumption
DEF IInv, TypeOK, PlaceInv, FateInv, FailureInv, Untouched, Backed, Released,
    Places, InWalk, TearingDown, Streaming, Goto

\* Before any request arrives every part of the invariant holds.
LEMMA InitIInv == Init => IInv
  BY DEF Init

\* A request entering run has touched nothing yet.
LEMMA ArriveIInv ==
  ASSUME NEW r \in Requests, IInv, Arrive(r)
  PROVE  IInv'
  BY DEF Arrive

\* A pending cancellation changes nothing until it is delivered.
LEMMA CancelIInv ==
  ASSUME NEW r \in Requests, IInv, Cancel(r)
  PROVE  IInv'
  BY DEF Cancel

\* __aenter__ yields: the lifespan opens on an untouched request.
LEMMA SetupOpensIInv ==
  ASSUME NEW r \in Requests, IInv, SetupOpens(r)
  PROVE  IInv'
  BY DEF SetupOpens

\* __aenter__ raises: the request ends as untouched as it came.
LEMMA SetupFailsIInv ==
  ASSUME NEW r \in Requests, IInv, SetupFails(r)
  PROVE  IInv'
  BY DEF SetupFails

\* The walk returns: a buffered response goes to its one teardown, a
\* streamed one to the wrapper that owns it.
LEMMA WalkReturnsIInv ==
  ASSUME NEW r \in Requests, IInv, WalkReturns(r)
  PROVE  IInv'
  BY DEF WalkReturns, Respond, FinallyFeeds

\* A HaltResponse leaves the lifespan open and unreported.
LEMMA WalkHaltsIInv ==
  ASSUME NEW r \in Requests, IInv, WalkHalts(r)
  PROVE  IInv'
  BY DEF WalkHalts

\* An unexpected exception is remembered as handled, nothing is released.
LEMMA WalkRaisesIInv ==
  ASSUME NEW r \in Requests, IInv, WalkRaises(r)
  PROVE  IInv'
  BY DEF WalkRaises

\* on_exception answers: still handled, still open.
LEMMA HandlerAnswersIInv ==
  ASSUME NEW r \in Requests, IInv, HandlerAnswers(r)
  PROVE  IInv'
  BY DEF HandlerAnswers

\* on_exception re-raises: the except arm gets the first teardown.
LEMMA HandlerReraisesIInv ==
  ASSUME NEW r \in Requests, IInv, HandlerReraises(r)
  PROVE  IInv'
  BY DEF HandlerReraises, Propagate

\* The error body is in place: as for a walk that returned.
LEMMA ErrorBodyDoneIInv ==
  ASSUME NEW r \in Requests, IInv, ErrorBodyDone(r)
  PROVE  IInv'
  BY DEF ErrorBodyDone, Respond, FinallyFeeds

\* The error body raises: the except arm gets the first teardown.
LEMMA ErrorBodyRaisesIInv ==
  ASSUME NEW r \in Requests, IInv, ErrorBodyRaises(r)
  PROVE  IInv'
  BY DEF ErrorBodyRaises, Propagate

\* A chunk is produced while the lifespan is open, and leaves it open.
LEMMA PullYieldsIInv ==
  ASSUME NEW r \in Requests, IInv, PullYields(r)
  PROVE  IInv'
  BY DEF PullYields

\* guard_sse yields its frame while the lifespan is open, and leaves it open.
LEMMA GuardFramesIInv ==
  ASSUME NEW r \in Requests, IInv, GuardFrames(r)
  PROVE  IInv'
  BY DEF GuardFrames

\* _release on a wrapper that is still open: the teardown it starts is the
\* first one.
LEMMA ReleaseIInv ==
  ASSUME NEW r \in Requests, IInv, pc[r] \in {"pulling", "closing"}, ~closed[r],
         NEW exc \in {"none", "error", "cancelled", "genexit"},
         NEW place \in {"anext", "aclose"},
         pc' = [pc EXCEPT ![r] = place],
         closed' = [closed EXCEPT ![r] = TRUE],
         fed' = [fed EXCEPT ![r] = exc],
         place = "aclose" => exc = "genexit",
         exc = "none" => pc[r] = "pulling",
         \/ UNCHANGED failure
         \/ pc[r] = "pulling" /\ exc = "error" /\ place = "anext"
            /\ failure' = [failure EXCEPT ![r] = "raised"],
         UNCHANGED <<life, handled, reply, fault, chunks, cancelled, emitted,
                     report, wire, leaked>>
  PROVE  IInv'
<1>1. TypeOK'
  OBVIOUS
<1>2. life[r] = "open" /\ reply[r] = "stream" /\ wire[r] # "all"
  OBVIOUS
<1>3. ASSUME NEW p \in Requests PROVE PlaceInv(p)'
  <2>1. CASE p = r
    BY <1>2, <2>1
  <2>2. CASE p # r
    BY <2>2
  <2> QED BY <2>1, <2>2
<1>4. ASSUME NEW p \in Requests PROVE FateInv(p)'
  BY <1>2
<1>5. ASSUME NEW p \in Requests PROVE FailureInv(p)'
  <2>1. CASE p = r
    BY <1>2, <2>1
  <2>2. CASE p # r
    BY <2>2
  <2> QED BY <2>1, <2>2
<1> QED BY <1>1, <1>3, <1>4, <1>5

\* A drained stream starts its release with nothing in flight.
LEMMA PullEndsIInv ==
  ASSUME NEW r \in Requests, IInv, PullEnds(r)
  PROVE  IInv'
<1>1. pc[r] = "pulling" /\ ~closed[r]
  BY DEF PullEnds
<1> QED BY <1>1, ReleaseIInv DEF PullEnds, Release

\* A stream that raises starts its release with the error in flight.
LEMMA PullRaisesIInv ==
  ASSUME NEW r \in Requests, IInv, PullRaises(r)
  PROVE  IInv'
<1>1. pc[r] = "pulling" /\ ~closed[r]
  BY DEF PullRaises
<1> QED BY <1>1, ReleaseIInv DEF PullRaises, Release

\* _to_starlette sends a stream to the sender, a buffered reply to the wire.
LEMMA ConvertIInv ==
  ASSUME NEW r \in Requests, IInv, Convert(r)
  PROVE  IInv'
  BY DEF Convert

\* A response that cannot be converted leaves its stream's lifespan open,
\* never released and never reported.
LEMMA ConversionFailsIInv ==
  ASSUME NEW r \in Requests, IInv, ConversionFails(r)
  PROVE  IInv'
  BY DEF ConversionFails

\* A buffered reply is sent only after its lifespan was settled.
LEMMA ReplySentIInv ==
  ASSUME NEW r \in Requests, IInv, ReplySent(r)
  PROVE  IInv'
  BY DEF ReplySent

\* A chunk on the wire is a part of the answer, never the whole of it.
LEMMA ChunkSentIInv ==
  ASSUME NEW r \in Requests, IInv, ChunkSent(r)
  PROVE  IInv'
  BY DEF ChunkSent

\* A failed send goes to aclose with the wrapper as it is.
LEMMA SendFailsIInv ==
  ASSUME NEW r \in Requests, IInv, SendFails(r)
  PROVE  IInv'
  BY DEF SendFails

\* The last chunk of a stream follows the release of its lifespan.
LEMMA StreamFinishedIInv ==
  ASSUME NEW r \in Requests, IInv, StreamFinished(r)
  PROVE  IInv'
  BY DEF StreamFinished

\* A task whose wrapper is already closed, or that never had one to close,
\* leaves for a place that claims no more than what it already knows.
LEMMA LeaveIInv ==
  ASSUME NEW r \in Requests, IInv, NEW place \in {"closing", "done"},
         \/ place = "closing" /\ pc[r] \in {"sending", "finishing"}
         \/ place = "done" /\ pc[r] \in {"setup", "replying"}
         \/ place = "done" /\ pc[r] = "closing" /\ closed[r],
         pc' = [pc EXCEPT ![r] = place],
         UNCHANGED <<life, fed, handled, reply, fault, closed, chunks, cancelled,
                     emitted, report, wire, failure, leaked>>
  PROVE  IInv'
<1>1. TypeOK'
  OBVIOUS
<1>2. ASSUME NEW p \in Requests PROVE PlaceInv(p)'
  <2>1. CASE p = r
    BY <2>1
  <2>2. CASE p # r
    BY <2>2
  <2> QED BY <2>1, <2>2
<1>3. ASSUME NEW p \in Requests PROVE FateInv(p)'
  OBVIOUS
<1>4. ASSUME NEW p \in Requests PROVE FailureInv(p)'
  OBVIOUS
<1> QED BY <1>1, <1>2, <1>3, <1>4

\* aclose releases the lifespan unless __anext__ already did.
LEMMA InnerClosesIInv ==
  ASSUME NEW r \in Requests, IInv, InnerCloses(r)
  PROVE  IInv'
<1>1. CASE closed[r]
  BY <1>1, LeaveIInv DEF InnerCloses, Release
<1>2. CASE ~closed[r]
  BY <1>2, ReleaseIInv DEF InnerCloses, Release
<1> QED BY <1>1, <1>2

\* Wherever a cancellation is delivered, the lifespan is released at most
\* once: by the except arm, by the wrapper, or not again.
LEMMA StrikesIInv ==
  ASSUME NEW r \in Requests, IInv, pc[r] \in Unshielded, Strikes(r)
  PROVE  IInv'
<1> USE DEF Strikes
<1>1. CASE pc[r] \in InWalk
  BY <1>1 DEF Propagate
<1>2. CASE pc[r] = "pulling"
  <2>1. ~closed[r]
    BY <1>2
  <2> QED BY <1>2, <2>1, ReleaseIInv DEF Release
<1>3. CASE pc[r] = "closing"
  <2>1. CASE closed[r]
    BY <1>3, <2>1, LeaveIInv DEF Release
  <2>2. CASE ~closed[r]
    BY <1>3, <2>2, ReleaseIInv DEF Release
  <2> QED BY <2>1, <2>2
<1>4. CASE pc[r] \in {"sending", "finishing"}
  BY <1>4, LeaveIInv
<1>5. CASE pc[r] \in {"setup", "replying"}
  BY <1>5, LeaveIInv
<1> QED BY <1>1, <1>2, <1>3, <1>4, <1>5 DEF Unshielded

\* A cancelled scope strikes outside the shield only.
LEMMA InterruptedIInv ==
  ASSUME NEW r \in Requests, IInv, Interrupted(r)
  PROVE  IInv'
  BY StrikesIInv DEF Interrupted, Interruptible

\* A teardown that returns settles the fate and reports it in one step.
LEMMA TeardownReturnsIInv ==
  ASSUME NEW r \in Requests, IInv, TeardownReturns(r)
  PROVE  IInv'
  BY DEF TeardownReturns, Emit, Outcome, AfterTeardown

\* A teardown that raises, or is cut, settles the fate as failed and reports
\* nothing.
LEMMA ReleaseFailsIInv ==
  ASSUME NEW r \in Requests, IInv, ReleaseFails(r), leaked' \in SUBSET Requests
  PROVE  IInv'
  BY DEF ReleaseFails

\* The connection a failed commit or rollback leaves behind is returned.
LEMMA TeardownRaisesIInv ==
  ASSUME NEW r \in Requests, IInv, TeardownRaises(r)
  PROVE  IInv'
  BY ReleaseFailsIInv DEF TeardownRaises

\* task.cancel() strikes outside the shield as a scope does, and cuts a release.
LEMMA TaskCancelledIInv ==
  ASSUME NEW r \in Requests, IInv, TaskCancelled(r)
  PROVE  IInv'
<1>1. CASE pc[r] \in Unshielded /\ Strikes(r)
  BY ONLY <1>1, IInv, StrikesIInv
<1>2. CASE ReleaseFails(r) /\ leaked' \in {leaked, leaked \cup {r}}
  BY <1>2, ReleaseFailsIInv
<1> QED BY <1>1, <1>2 DEF TaskCancelled

\* A teardown that times out is abandoned, and reported as if it had worked.
LEMMA TeardownTimesOutIInv ==
  ASSUME NEW r \in Requests, IInv, TeardownTimesOut(r)
  PROVE  IInv'
  BY DEF TeardownTimesOut, Emit, Outcome, AfterTeardown

\* The garbage collector rolls back only what no teardown reached.
LEMMA CollectGarbageIInv ==
  ASSUME NEW r \in Requests, IInv, CollectGarbage(r)
  PROVE  IInv'
  BY DEF CollectGarbage

\* Every behaviour of the server keeps the invariant.
THEOREM Inductive == Spec => []IInv
<1>1. ASSUME IInv, [Next]_vars PROVE IInv'
  <2>1. ASSUME NEW r \in Requests, Step(r) PROVE IInv'
    BY ONLY <1>1, <2>1, ArriveIInv, CancelIInv, SetupOpensIInv,
             SetupFailsIInv, WalkReturnsIInv, WalkHaltsIInv,
             WalkRaisesIInv, HandlerAnswersIInv, HandlerReraisesIInv,
             ErrorBodyDoneIInv, ErrorBodyRaisesIInv, PullYieldsIInv,
             PullEndsIInv, GuardFramesIInv, PullRaisesIInv, ConvertIInv,
             ConversionFailsIInv, ReplySentIInv, ChunkSentIInv,
             SendFailsIInv, StreamFinishedIInv, InnerClosesIInv,
             InterruptedIInv, TaskCancelledIInv, TeardownReturnsIInv, TeardownRaisesIInv,
             TeardownTimesOutIInv, CollectGarbageIInv
       DEF Step, Application, Transport, Teardown
  <2>2. CASE UNCHANGED vars
    BY <1>1, <2>2 DEF vars
  <2> QED BY <1>1, <2>1, <2>2 DEF Next, Idle
<1> QED BY InitIInv, <1>1, PTL DEF Spec

-----------------------------------------------------------------------------
(***************************************************************************)
(* What follows from it.                                                   *)
(***************************************************************************)
\* The variables keep their types.
THEOREM TypeCorrect == Spec => []TypeOK
<1>1. IInv => TypeOK
  OBVIOUS
<1> QED BY <1>1, Inductive, PTL

\* A lifespan is released once, however the walk, the wrapper's two paths and
\* the adapter's unconditional aclose interleave.
THEOREM ReleasedOnce == Spec => []ReleaseOnce
<1>1. IInv => ReleaseOnce
  BY DEF ReleaseOnce
<1> QED BY <1>1, Inductive, PTL

\* What the lifespan stashed on ctx is alive while its stream is produced.
THEOREM StreamsStayAlive == Spec => []AliveWhileStreaming
<1>1. IInv => AliveWhileStreaming
  BY DEF AliveWhileStreaming
<1> QED BY <1>1, Inductive, PTL

\* Nobody receives a whole answer whose lifespan failed, was still open, or
\* was rolled back without on_exception having answered.
THEOREM WholeAnswersAreBacked == Spec => []WholeAnswerIsBacked
<1>1. IInv => WholeAnswerIsBacked
  BY DEF WholeAnswerIsBacked
<1> QED BY <1>1, Inductive, PTL

\* A handled exception rolls a buffered request's transaction back.
THEOREM HandledErrorsRollBack == Spec => []HandledErrorRollsBack
<1>1. IInv => HandledErrorRollsBack
  BY DEF HandledErrorRollsBack
<1> QED BY <1>1, Inductive, PTL

\* An "ok" event of a buffered request is not a lie.
THEOREM OkReportsAreTrue == Spec => []OkReportIsTrue
<1>1. IInv => OkReportIsTrue
  BY DEF OkReportIsTrue
<1> QED BY <1>1, Inductive, PTL

\* Each request whose lifespan was released is reported exactly once.
THEOREM ReleasedAreReported == Spec => []ReleasedIsReported
<1>1. IInv => ReleasedIsReported
  BY DEF ReleasedIsReported
<1> QED BY <1>1, Inductive, PTL

\* A failed producer's stream commits, or arrives whole, only with its error
\* frame sent, and one that raised is not reported as "ok".
THEOREM StreamFailuresAreKnown == Spec => []StreamFailureKnown
<1>1. IInv => StreamFailureKnown
  BY DEF StreamFailureKnown
<1> QED BY <1>1, Inductive, PTL

-----------------------------------------------------------------------------
(***************************************************************************)
(* Refinement.  Opening, a teardown, the garbage collector and a whole     *)
(* answer are the steps the boundary sees; all others are stutters.        *)
(***************************************************************************)
Seen == <<life, emitted, [r \in Requests |-> wire[r] = "all"]>>

\* Steps that neither open, close, report nor answer are invisible at the
\* boundary.
LEMMA BoundaryStutters ==
  ASSUME TypeOK, NEW r \in Requests,
         \/ Arrive(r) \/ Cancel(r) \/ SetupFails(r) \/ Application(r)
         \/ InnerCloses(r) \/ Interrupted(r) \/ Strikes(r)
         \/ Convert(r) \/ ConversionFails(r) \/ SendFails(r)
  PROVE  UNCHANGED Seen
  BY DEF Seen, Arrive, Cancel, SetupFails, Application, InnerCloses, Interrupted, Strikes,
     Convert, ConversionFails, SendFails, WalkReturns, WalkHalts, WalkRaises,
     HandlerAnswers, HandlerReraises, ErrorBodyDone, ErrorBodyRaises,
     PullYields, PullEnds, GuardFrames, PullRaises

\* Any number of requests, on any pool, keep the promise the boundary makes.
THEOREM Implements == Spec => ImplementsBoundary
<1>1. Init => Boundary!BInit
  BY DEF Init, Boundary!BInit
<1>2. ASSUME IInv, NEW r \in Requests, Step(r)
      PROVE  [Boundary!BNext]_(Boundary!bvars)
  <2>1. CASE SetupOpens(r)
    <3>1. Boundary!Open(r)
      BY <1>2, <2>1 DEF SetupOpens, Boundary!Open
    <3> QED BY <3>1 DEF Boundary!BNext
  <2>2. CASE TeardownReturns(r) \/ TeardownTimesOut(r)
    <3>1. life[r] = "open" /\ pc[r] \in TearingDown
      BY <1>2, <2>2 DEF TeardownReturns, TeardownTimesOut
    <3>2. Boundary!CloseAndReport(r)
      BY <1>2, <2>2, <3>1 DEF TeardownReturns, TeardownTimesOut, Emit,
         Boundary!CloseAndReport, Boundary!Fates
    <3> QED BY <3>2 DEF Boundary!BNext
  <2>3. CASE ReleaseFails(r) \/ CollectGarbage(r)
    <3>1. Boundary!CloseSilently(r)
      BY <1>2, <2>3 DEF ReleaseFails, CollectGarbage, Boundary!CloseSilently, TearingDown
    <3> QED BY <3>1 DEF Boundary!BNext
  <2>4. CASE ReplySent(r) \/ ChunkSent(r) \/ StreamFinished(r)
    <3>1. wire[r] # "all" /\ UNCHANGED <<life, emitted>>
      BY <1>2, <2>4 DEF ReplySent, ChunkSent, StreamFinished
    <3>2. CASE wire' = [wire EXCEPT ![r] = "all"]
      <4>1. Backed(r)
        BY <1>2, <2>4, <3>2 DEF ReplySent, ChunkSent, StreamFinished
      <4>2. [q \in Requests |-> wire'[q] = "all"]
              = [[q \in Requests |-> wire[q] = "all"] EXCEPT ![r] = TRUE]
        <5>1. \A q \in Requests : wire'[q] = "all" <=> (q = r \/ wire[q] = "all")
          BY <1>2, <3>2
        <5> QED BY <5>1, Zenon
      <4>3. Boundary!Answer(r)
        BY <1>2, <3>1, <4>1, <4>2 DEF Boundary!Answer
      <4> QED BY <4>3 DEF Boundary!BNext
    <3>3. CASE wire' \in {wire, [wire EXCEPT ![r] = "part"]}
      BY <1>2, <3>1, <3>3 DEF Boundary!bvars
    <3> QED BY <2>4, <3>2, <3>3 DEF ReplySent, ChunkSent, StreamFinished
  <2>5. CASE UNCHANGED Seen
    BY <2>5 DEF Seen, Boundary!bvars
  <2>6. \/ SetupOpens(r) \/ TeardownReturns(r) \/ TeardownTimesOut(r)
        \/ ReleaseFails(r) \/ CollectGarbage(r)
        \/ ReplySent(r) \/ ChunkSent(r) \/ StreamFinished(r) \/ UNCHANGED Seen
    BY ONLY <1>2, BoundaryStutters DEF IInv, Step, Teardown, Transport, TaskCancelled, TeardownRaises
  <2> QED BY <2>1, <2>2, <2>3, <2>4, <2>5, <2>6
<1>3. UNCHANGED vars => UNCHANGED Boundary!bvars
  BY DEF vars, Boundary!bvars
<1>4. IInv /\ [Next]_vars => [Boundary!BNext]_(Boundary!bvars)
  BY <1>2, <1>3 DEF Next, Idle
<1> QED BY <1>1, <1>4, Inductive, PTL DEF Spec, ImplementsBoundary, Boundary!BSpec

==============================================================================
