-------------------------- MODULE RequestLifecycle --------------------------
(***************************************************************************)
(* The life of a request inside core.run and the Starlette adapter: the    *)
(* resource's lifespan is opened, the graph is walked, the outcome becomes *)
(* a response, the lifespan is torn down in a shielded and time-bounded    *)
(* scope, one wide event is emitted, and the response is sent.  A streamed *)
(* body defers the teardown to _ClosingStream.  Requests run concurrently  *)
(* and meet only in the pool their lifespans acquire from.                 *)
(*                                                                         *)
(* A step is what one task does between two suspension points.  The walk   *)
(* itself is one step here (DecisionWalk opens it up).                     *)
(***************************************************************************)
EXTENDS Naturals, FiniteSets

CONSTANTS
  Requests,     \* the requests the server accepts
  PoolSize,     \* connections the lifespans share
  MaxChunks,    \* bound: chunks a streamed body may yield
  Guarded       \* requests whose stream comes wrapped in guard_sse

ASSUME PoolSizeAssumption  == PoolSize \in Nat \ {0}
ASSUME MaxChunksAssumption == MaxChunks \in Nat
ASSUME RequestsFinite      == IsFiniteSet(Requests)
ASSUME GuardedAssumption   == Guarded \subseteq Requests

VARIABLES
  pc,         \* where the request's task is suspended
  life,       \* fate of the lifespan (the transaction inside it)
  fed,        \* what the teardown feeds to the lifespan's generator
  handled,    \* handled_exc is set: the walk raised an unexpected Exception
  reply,      \* shape of the response the walk ended in
  fault,      \* is its status >= 500?
  closed,     \* _ClosingStream._closed
  chunks,     \* chunks the streamed body has yielded
  cancelled,  \* an anyio scope around the task is cancelled
  emitted,    \* wide events emitted
  report,     \* asgm.outcome of the last one
  wire,       \* what the client has received
  failure,    \* what became of an exception in the stream's producer
  leaked      \* requests whose connection an abandoned release never returned

vars == <<pc, life, fed, handled, reply, fault, closed, chunks, cancelled,
          emitted, report, wire, failure, leaked>>

(***************************************************************************)
(* Places.  "finally", "except", "anext" and "aclose" are the four arms    *)
(* that await _teardown: the two of run and the two of _ClosingStream.     *)
(***************************************************************************)
InWalk       == {"walk", "errorBody", "handler"}
TearingDown  == {"finally", "except", "anext", "aclose"}
Streaming    == {"sending", "pulling"}
Places       == {"idle", "setup", "returned", "finishing", "closing",
                 "replying", "done"} \cup InWalk \cup TearingDown \cup Streaming

\* Awaits outside _teardown's shield, where a cancelled scope strikes.
Unshielded == {"setup", "finishing", "closing", "replying"} \cup InWalk \cup Streaming

TypeOK ==
  /\ pc \in [Requests -> Places]
  /\ life \in [Requests -> {"unopened", "open", "committed", "rolledback", "failed", "abandoned"}]
  /\ fed \in [Requests -> {"none", "error", "cancelled", "genexit"}]
  /\ handled \in [Requests -> BOOLEAN]
  /\ reply \in [Requests -> {"none", "buffered", "stream"}]
  /\ fault \in [Requests -> BOOLEAN]
  /\ closed \in [Requests -> BOOLEAN]
  /\ chunks \in [Requests -> 0..MaxChunks]
  /\ cancelled \in [Requests -> BOOLEAN]
  /\ emitted \in [Requests -> Nat]
  /\ report \in [Requests -> {"none", "ok", "error", "propagated"}]
  /\ wire \in [Requests -> {"nothing", "part", "all"}]
  /\ failure \in [Requests -> {"none", "raised", "framed", "told"}]
  /\ leaked \in SUBSET Requests

Init ==
  /\ pc = [r \in Requests |-> "idle"]
  /\ life = [r \in Requests |-> "unopened"]
  /\ fed = [r \in Requests |-> "none"]
  /\ handled = [r \in Requests |-> FALSE]
  /\ reply = [r \in Requests |-> "none"]
  /\ fault = [r \in Requests |-> FALSE]
  /\ closed = [r \in Requests |-> FALSE]
  /\ chunks = [r \in Requests |-> 0]
  /\ cancelled = [r \in Requests |-> FALSE]
  /\ emitted = [r \in Requests |-> 0]
  /\ report = [r \in Requests |-> "none"]
  /\ wire = [r \in Requests |-> "nothing"]
  /\ failure = [r \in Requests |-> "none"]
  /\ leaked = {}

Goto(r, place) == pc' = [pc EXCEPT ![r] = place]

(***************************************************************************)
(* The environment: requests arrive, and an anyio scope around a task may  *)
(* be cancelled (the client is gone) at any time.  That cancellation is    *)
(* level triggered: once pending it may strike at every unshielded await.  *)
(* A server that gives up on a task calls task.cancel(): see TaskCancelled.*)
(***************************************************************************)
Arrive(r) ==
  /\ pc[r] = "idle"
  /\ Goto(r, "setup")
  /\ UNCHANGED <<life, fed, handled, reply, fault, closed, chunks, cancelled,
                 emitted, report, wire, failure, leaked>>

Cancel(r) ==
  /\ pc[r] \notin {"idle", "done"}
  /\ ~cancelled[r]
  /\ cancelled' = [cancelled EXCEPT ![r] = TRUE]
  /\ UNCHANGED <<pc, life, fed, handled, reply, fault, closed, chunks,
                 emitted, report, wire, failure, leaked>>

(***************************************************************************)
(* Setup.  __aenter__ runs outside run's try: a setup that fails, or is    *)
(* cancelled while it waits for the pool, leaves without any teardown.     *)
(***************************************************************************)
\* What is taken of an external pool whose acquire waits for a connection, as
\* asyncpg's does; the example's stand-in pool opens one whenever it has none,
\* which is a PoolSize that is never reached.
InUse == {r \in Requests : life[r] = "open"} \cup leaked

SetupOpens(r) ==
  /\ pc[r] = "setup"
  /\ Cardinality(InUse) < PoolSize
  /\ Goto(r, "walk")
  /\ life' = [life EXCEPT ![r] = "open"]
  /\ UNCHANGED <<fed, handled, reply, fault, closed, chunks, cancelled,
                 emitted, report, wire, failure, leaked>>

SetupFails(r) ==
  /\ pc[r] = "setup"
  /\ Goto(r, "done")
  /\ UNCHANGED <<life, fed, handled, reply, fault, closed, chunks, cancelled,
                 emitted, report, wire, failure, leaked>>

(***************************************************************************)
(* The walk and the three ways out of it.                                  *)
(***************************************************************************)
\* What the finally arm of run feeds to teardown.
MutFinallyFeedsNothing(r) == "none"
FinallyFeeds(r) == IF handled[r] THEN "error" ELSE "none"

\* A response is in hand.  A buffered one is released before it is returned;
\* a streamed one is wrapped in _ClosingStream, which now owns the release.
MutRespondReleasesStream(r, kind) ==
  /\ reply' = [reply EXCEPT ![r] = kind]
  /\ Goto(r, "finally") /\ fed' = [fed EXCEPT ![r] = FinallyFeeds(r)]

Respond(r, kind) ==
  /\ reply' = [reply EXCEPT ![r] = kind]
  /\ \/ kind = "buffered" /\ Goto(r, "finally")
        /\ fed' = [fed EXCEPT ![r] = FinallyFeeds(r)]
     \/ kind = "stream" /\ Goto(r, "returned") /\ UNCHANGED fed

\* An exception leaves the inner try: tear down with it in flight.
Propagate(r, exc) ==
  /\ Goto(r, "except")
  /\ fed' = [fed EXCEPT ![r] = exc]
  /\ UNCHANGED reply

WalkReturns(r) ==
  /\ pc[r] = "walk"
  /\ \E kind \in {"buffered", "stream"} : Respond(r, kind)
  /\ UNCHANGED <<life, handled, fault, closed, chunks, cancelled, emitted,
                 report, wire, failure, leaked>>

\* HaltResponse: keep its response and give a 4xx/5xx an error body.
WalkHalts(r) ==
  /\ pc[r] = "walk"
  /\ Goto(r, "errorBody")
  /\ \E f \in BOOLEAN : fault' = [fault EXCEPT ![r] = f]
  /\ UNCHANGED <<life, fed, handled, reply, closed, chunks, cancelled, emitted,
                 report, wire, failure, leaked>>

\* An unexpected Exception goes to the on_exception handler.
WalkRaises(r) ==
  /\ pc[r] = "walk"
  /\ Goto(r, "handler")
  /\ handled' = [handled EXCEPT ![r] = TRUE]
  /\ UNCHANGED <<life, fed, reply, fault, closed, chunks, cancelled, emitted,
                 report, wire, failure, leaked>>

\* The handler answers: None (a 500), a response of its own, or HaltResponse.
HandlerAnswers(r) ==
  /\ pc[r] = "handler"
  /\ Goto(r, "errorBody")
  /\ \E f \in BOOLEAN : fault' = [fault EXCEPT ![r] = f]
  /\ UNCHANGED <<life, fed, handled, reply, closed, chunks, cancelled, emitted,
                 report, wire, failure, leaked>>

HandlerReraises(r) ==
  /\ pc[r] = "handler"
  /\ Propagate(r, "error")
  /\ UNCHANGED <<life, handled, fault, closed, chunks, cancelled, emitted,
                 report, wire, failure, leaked>>

\* A response that already has a body, a stream included, is left alone.
ErrorBodyDone(r) ==
  /\ pc[r] = "errorBody"
  /\ \E kind \in {"buffered", "stream"} : Respond(r, kind)
  /\ UNCHANGED <<life, handled, fault, closed, chunks, cancelled, emitted,
                 report, wire, failure, leaked>>

\* error_body or its codec raises: on_exception is not consulted again.
ErrorBodyRaises(r) ==
  /\ pc[r] = "errorBody"
  /\ Propagate(r, "error")
  /\ UNCHANGED <<life, handled, fault, closed, chunks, cancelled, emitted,
                 report, wire, failure, leaked>>

(***************************************************************************)
(* The Starlette adapter: convert the response and send it.                *)
(***************************************************************************)
Convert(r) ==
  /\ pc[r] = "returned"
  /\ Goto(r, IF reply[r] = "stream" THEN "sending" ELSE "replying")
  /\ UNCHANGED <<life, fed, handled, reply, fault, closed, chunks, cancelled,
                 emitted, report, wire, failure, leaked>>

\* A header that Latin-1 cannot encode: the response object is never built,
\* so nobody will ever aclose a streamed body.
ConversionFails(r) ==
  /\ pc[r] = "returned"
  /\ Goto(r, "done")
  /\ UNCHANGED <<life, fed, handled, reply, fault, closed, chunks, cancelled,
                 emitted, report, wire, failure, leaked>>

\* The loop's asyncgen hook finalizes a lifespan nobody holds any more.
CollectGarbage(r) ==
  /\ pc[r] = "done"
  /\ life[r] = "open"
  /\ life' = [life EXCEPT ![r] = "rolledback"]
  /\ UNCHANGED <<pc, fed, handled, reply, fault, closed, chunks, cancelled,
                 emitted, report, wire, failure, leaked>>

\* A buffered response goes out, or the send fails.
ReplySent(r) ==
  /\ pc[r] = "replying"
  /\ Goto(r, "done")
  /\ wire' \in {wire, [wire EXCEPT ![r] = "all"]}
  /\ UNCHANGED <<life, fed, handled, reply, fault, closed, chunks, cancelled,
                 emitted, report, failure, leaked>>

\* The response head, a chunk or the error frame goes out.
ChunkSent(r) ==
  /\ pc[r] = "sending"
  /\ Goto(r, "pulling")
  /\ wire' = [wire EXCEPT ![r] = "part"]
  /\ failure' = [failure EXCEPT ![r] = IF @ = "framed" THEN "told" ELSE @]
  /\ UNCHANGED <<life, fed, handled, reply, fault, closed, chunks, cancelled,
                 emitted, report, leaked>>

\* The client is gone: the send raises out of StreamingResponse.__call__.
SendFails(r) ==
  /\ pc[r] \in {"sending", "finishing"}
  /\ Goto(r, "closing")
  /\ UNCHANGED <<life, fed, handled, reply, fault, closed, chunks, cancelled,
                 emitted, report, wire, failure, leaked>>

\* The empty last chunk, sent once __anext__ has released the lifespan.
StreamFinished(r) ==
  /\ pc[r] = "finishing"
  /\ Goto(r, "closing")
  /\ wire' = [wire EXCEPT ![r] = "all"]
  /\ UNCHANGED <<life, fed, handled, reply, fault, closed, chunks, cancelled,
                 emitted, report, failure, leaked>>

(***************************************************************************)
(* _ClosingStream.                                                         *)
(***************************************************************************)
\* _release: the one-shot guard, then the teardown; place is where the
\* caller awaits it, next where it goes on when there is nothing to do.
MutReleaseAlways(r, exc, place, next) ==
  /\ Goto(r, place)
  /\ closed' = [closed EXCEPT ![r] = TRUE]
  /\ fed' = [fed EXCEPT ![r] = exc]

Release(r, exc, place, next) ==
  \/ /\ closed[r]
     /\ Goto(r, next)
     /\ UNCHANGED <<closed, fed>>
  \/ /\ ~closed[r]
     /\ Goto(r, place)
     /\ closed' = [closed EXCEPT ![r] = TRUE]
     /\ fed' = [fed EXCEPT ![r] = exc]

PullYields(r) ==
  /\ pc[r] = "pulling"
  /\ chunks[r] < MaxChunks
  /\ failure[r] = "none"
  /\ chunks' = [chunks EXCEPT ![r] = @ + 1]
  /\ Goto(r, "sending")
  /\ UNCHANGED <<life, fed, handled, reply, fault, closed, cancelled, emitted,
                 report, wire, failure, leaked>>

\* StopAsyncIteration: drained cleanly, so commit.
PullEnds(r) ==
  /\ pc[r] = "pulling"
  /\ Release(r, "none", "anext", "finishing")
  /\ UNCHANGED <<life, handled, reply, fault, chunks, cancelled, emitted,
                 report, wire, failure, leaked>>

\* guard_sse: the producer's exception becomes one last frame, after which the
\* stream is at its end.
MutGuardSwallows(r) ==
  /\ pc[r] = "pulling"
  /\ r \in Guarded /\ failure[r] = "none"
  /\ failure' = [failure EXCEPT ![r] = "framed"]
  /\ Release(r, "none", "anext", "finishing")
  /\ UNCHANGED <<life, handled, reply, fault, chunks, cancelled, emitted,
                 report, wire, leaked>>

GuardFrames(r) ==
  /\ pc[r] = "pulling"
  /\ r \in Guarded /\ failure[r] = "none"
  /\ failure' = [failure EXCEPT ![r] = "framed"]
  /\ Goto(r, "sending")
  /\ UNCHANGED <<life, fed, handled, reply, fault, closed, chunks, cancelled,
                 emitted, report, wire, leaked>>

\* The exception leaves the stream: nobody guards it, or the guard's own
\* format_error raises.
PullRaises(r) ==
  /\ pc[r] = "pulling"
  /\ failure[r] = "none"
  /\ failure' = [failure EXCEPT ![r] = "raised"]
  /\ Release(r, "error", "anext", "closing")
  /\ UNCHANGED <<life, handled, reply, fault, chunks, cancelled, emitted,
                 report, wire, leaked>>

\* aclose: the inner generator's aclose returns or raises, and either way
\* its finally releases with GeneratorExit.
InnerCloses(r) ==
  /\ pc[r] = "closing"
  /\ Release(r, "genexit", "aclose", "done")
  /\ UNCHANGED <<life, handled, reply, fault, chunks, cancelled, emitted,
                 report, wire, failure, leaked>>

(***************************************************************************)
(* Cancellation: what CancelledError does at an unshielded await.          *)
(***************************************************************************)
MutStreamNotCancelled == Unshielded \ Streaming
Interruptible == Unshielded

Strikes(r) ==
  /\ \/ pc[r] \in InWalk /\ Propagate(r, "cancelled") /\ UNCHANGED closed
     \/ pc[r] = "pulling" /\ Release(r, "cancelled", "anext", "closing")
        /\ UNCHANGED reply
     \/ pc[r] = "closing" /\ Release(r, "genexit", "aclose", "done")
        /\ UNCHANGED reply
     \/ pc[r] \in {"sending", "finishing"} /\ Goto(r, "closing")
        /\ UNCHANGED <<fed, closed, reply>>
     \/ pc[r] \notin InWalk \cup Streaming \cup {"finishing", "closing"}
        /\ Goto(r, "done") /\ UNCHANGED <<fed, closed, reply>>
  /\ UNCHANGED <<life, handled, fault, chunks, cancelled, emitted, report,
                 wire, failure, leaked>>

\* The scope's cancellation, which the shield of _teardown holds off.
Interrupted(r) ==
  /\ cancelled[r]
  /\ pc[r] \in Interruptible
  /\ Strikes(r)

(***************************************************************************)
(* _teardown: the lifespan's __aexit__ under a shielded scope and a time   *)
(* limit.  A generator that re-raises what it was fed is absorbed; any     *)
(* other exception leaves _teardown.  Then, in the same step, the event.   *)
(***************************************************************************)
\* outcome(status, exc): what asgm.outcome says at each of the four arms.
MutOutcomeNoException(r) == IF pc[r] = "except" THEN "unknown"
                            ELSE IF fault[r] THEN "error" ELSE "ok"
MutOutcomeStatusOnly(r) == IF pc[r] = "except" THEN "propagated"
                           ELSE IF fault[r] THEN "error" ELSE "ok"
Outcome(r) ==
  CASE pc[r] = "except"  -> "propagated"
    [] pc[r] = "finally" -> IF handled[r] \/ fault[r] THEN "error" ELSE "ok"
    [] OTHER             -> IF fed[r] = "error" \/ fault[r] THEN "error" ELSE "ok"

MutEmitNotOnClose(r) ==
  /\ emitted' = [emitted EXCEPT ![r] = @ + (IF pc[r] = "aclose" THEN 0 ELSE 1)]
  /\ report' = [report EXCEPT ![r] = Outcome(r)]
Emit(r) ==
  /\ emitted' = [emitted EXCEPT ![r] = @ + 1]
  /\ report' = [report EXCEPT ![r] = Outcome(r)]

\* Where each arm goes on after a teardown that returned.
AfterTeardown(r) ==
  CASE pc[r] = "finally" -> "returned"
    [] pc[r] = "anext"   -> IF fed[r] = "none" THEN "finishing" ELSE "closing"
    [] OTHER             -> "done"

TeardownReturns(r) ==
  /\ pc[r] \in TearingDown
  /\ life' = [life EXCEPT ![r] = IF fed[r] = "none" THEN "committed" ELSE "rolledback"]
  /\ Emit(r)
  /\ Goto(r, AfterTeardown(r))
  /\ UNCHANGED <<fed, handled, reply, fault, closed, chunks, cancelled, wire, failure, leaked>>

\* An exception that leaves _teardown replaces whatever was in flight, and the
\* call to _record_and_emit after the await is never reached.
ReleaseFails(r) ==
  /\ pc[r] \in TearingDown
  /\ life' = [life EXCEPT ![r] = "failed"]
  /\ Goto(r, IF pc[r] = "anext" THEN "closing" ELSE "done")
  /\ UNCHANGED <<fed, handled, reply, fault, closed, chunks, cancelled, emitted,
                 report, wire, failure>>

\* A commit or rollback fails; the lifespan returns its connection all the same.
MutTeardownErrorSwallowed(r) ==
  /\ pc[r] \in TearingDown
  /\ life' = [life EXCEPT ![r] = "failed"]
  /\ Goto(r, AfterTeardown(r))
  /\ UNCHANGED <<fed, handled, reply, fault, closed, chunks, cancelled, emitted,
                 report, wire, failure, leaked>>

TeardownRaises(r) == ReleaseFails(r) /\ UNCHANGED leaked

\* _TEARDOWN_TIMEOUT_S passes: the release is abandoned and the request goes
\* on as if it had worked.  The connection may or may not be back in the pool.
MutTeardownNeverTimesOut(r) == FALSE /\ UNCHANGED vars
TeardownTimesOut(r) ==
  /\ pc[r] \in TearingDown
  /\ life' = [life EXCEPT ![r] = "abandoned"]
  /\ leaked' \in {leaked, leaked \cup {r}}
  /\ Emit(r)
  /\ Goto(r, AfterTeardown(r))
  /\ UNCHANGED <<fed, handled, reply, fault, closed, chunks, cancelled, failure, wire>>

\* The server gives up on the task: task.cancel() delivers a CancelledError
\* wherever the task is suspended.  The shield is anyio's and holds off anyio's
\* scopes alone, so in _teardown too: the release is cut and leaves by that
\* exception, with the connection back in the pool or not.
TaskCancelled(r) ==
  \/ pc[r] \in Unshielded /\ Strikes(r)
  \/ ReleaseFails(r) /\ leaked' \in {leaked, leaked \cup {r}}

(***************************************************************************)
(* Next-state relation.                                                    *)
(***************************************************************************)
Application(r) ==
  \/ WalkReturns(r) \/ WalkHalts(r) \/ WalkRaises(r)
  \/ HandlerAnswers(r) \/ HandlerReraises(r)
  \/ ErrorBodyDone(r) \/ ErrorBodyRaises(r)
  \/ PullYields(r) \/ PullEnds(r) \/ GuardFrames(r) \/ PullRaises(r)

Transport(r) ==
  \/ Convert(r) \/ ConversionFails(r)
  \/ ReplySent(r) \/ ChunkSent(r) \/ SendFails(r) \/ StreamFinished(r)

Teardown(r) == TeardownReturns(r) \/ TeardownRaises(r) \/ TeardownTimesOut(r)

Step(r) ==
  \/ Arrive(r) \/ Cancel(r)
  \/ SetupOpens(r) \/ SetupFails(r)
  \/ Application(r) \/ Transport(r) \/ InnerCloses(r)
  \/ Interrupted(r) \/ TaskCancelled(r) \/ Teardown(r) \/ CollectGarbage(r)

\* Every request has been dealt with and the server idles.
Idle ==
  /\ \A r \in Requests : pc[r] = "done" /\ life[r] # "open"
  /\ UNCHANGED vars

Next == (\E r \in Requests : Step(r)) \/ Idle

Spec == Init /\ [][Next]_vars

(***************************************************************************)
(* Fairness.  The loop delivers a pending cancellation, runs the code      *)
(* between awaits, fires the teardown's timer and finalizes garbage.  It   *)
(* does not promise that a callback, a send or a lifespan's release ever   *)
(* returns, except for the producer's own aclose, which nothing bounds,    *)
(* and no server has to give up on a task.                                 *)
(***************************************************************************)
LoopFairness ==
  \A r \in Requests :
    /\ WF_vars(Interrupted(r))
    /\ WF_vars(Convert(r))
    /\ WF_vars(InnerCloses(r))
    /\ WF_vars(TeardownTimesOut(r))
    /\ WF_vars(CollectGarbage(r))

\* What WaitersServed assumes besides: callbacks and sends return, and
\* streams end.
CallbackFairness ==
  \A r \in Requests :
    /\ WF_vars(Arrive(r))
    /\ WF_vars(SetupOpens(r))
    /\ WF_vars(Application(r))
    /\ WF_vars(Transport(r))

LoopSpec == Spec /\ LoopFairness

(***************************************************************************)
(* Safety.                                                                 *)
(***************************************************************************)
\* A teardown is only ever awaited on a lifespan that is open and has not
\* been reported: however the walk, the wrapper's two paths and the
\* adapter's unconditional aclose interleave, it is released once, and a
\* release that was cut short is not tried again.
ReleaseOnce ==
  \A r \in Requests :
    pc[r] \in TearingDown => life[r] = "open" /\ emitted[r] = 0

\* While a streamed body is being produced or sent, what the lifespan
\* stashed on ctx is still alive.
AliveWhileStreaming ==
  \A r \in Requests : pc[r] \in Streaming => life[r] = "open"

\* A client that got a whole answer got it after the lifespan was closed
\* without failing, and after a rollback only when on_exception answered.
WholeAnswerIsBacked ==
  \A r \in Requests :
    wire[r] = "all" =>
      /\ life[r] \in {"committed", "rolledback", "abandoned"}
      /\ life[r] = "rolledback" => handled[r]

\* An unexpected exception that on_exception turned into a buffered response
\* still rolls the transaction back.
HandledErrorRollsBack ==
  \A r \in Requests :
    handled[r] /\ reply[r] = "buffered" => life[r] # "committed"

\* A buffered request reported "ok" neither crashed nor was rolled back.
OkReportIsTrue ==
  \A r \in Requests :
    report[r] = "ok" /\ reply[r] = "buffered" =>
      ~handled[r] /\ life[r] \in {"committed", "abandoned"}

\* A stream whose producer failed is taken for a success only if the client was
\* sent the error frame: it commits for no other, is whole on the wire for no
\* other, and one that raised out of the stream is not reported as "ok".
StreamFailureKnown ==
  \A r \in Requests :
    failure[r] # "none" =>
      /\ life[r] = "committed" \/ wire[r] = "all" => failure[r] = "told"
      /\ report[r] = "ok" => failure[r] # "raised"

\* The lifespan was released by a _teardown, and that did not raise.
Released(r) ==
  \/ life[r] \in {"committed", "abandoned"}
  \/ life[r] = "rolledback" /\ fed[r] # "none"

\* Every request whose lifespan was released, on whichever path, has been
\* reported exactly once by the time its task ends.
ReleasedIsReported ==
  \A r \in Requests : pc[r] = "done" /\ Released(r) => emitted[r] = 1

\* observability.md: a crash that is not handled is never invisible.
EveryRequestReported ==
  \A r \in Requests :
    pc[r] = "done" /\ life[r] # "unopened" => emitted[r] = 1

\* core.py, on handled_exc: it is fed to teardown so that a transaction
\* still rolls back although a 500 is returned.
HandledErrorNeverCommits ==
  \A r \in Requests : handled[r] => life[r] # "committed"

(***************************************************************************)
(* Action and liveness properties.                                         *)
(***************************************************************************)
\* A cancelled request gives its lifespan up, even if none of its callbacks,
\* sends or releases ever returns.
CancelledReleases ==
  \A r \in Requests : (cancelled[r] /\ life[r] = "open") ~> (life[r] # "open")

\* If callbacks and sends do return, nobody waits for the pool forever, unless
\* abandoned releases emptied it.
WaitersServed ==
  CallbackFairness =>
    \A r \in Requests : pc[r] = "setup" ~> (pc[r] # "setup" \/ leaked # {})

(***************************************************************************)
(* The abstract boundary this implements.                                  *)
(***************************************************************************)
Boundary == INSTANCE RequestBoundary WITH
  scope    <- life,
  reports  <- emitted,
  answered <- [r \in Requests |-> wire[r] = "all"]

ImplementsBoundary == Boundary!BSpec
=============================================================================
