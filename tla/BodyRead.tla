------------------------------ MODULE BodyRead ------------------------------
(***************************************************************************)
(* One request and its body: _StarletteRequest.body, bounded and cached,   *)
(* over a stream that can be read only once, called from any callback of   *)
(* either lane, and what becomes of the errors it raises.                  *)
(*                                                                         *)
(* The body is the sequence of bytes 1..n the client sends; a piece of it  *)
(* is given by its offsets.  A step is what the task does between two      *)
(* awaits of the ASGI receive channel, or one call of a callback.  The     *)
(* request is a POST; what the codec makes of the bytes is left out.       *)
(***************************************************************************)
EXTENDS Naturals

CONSTANTS
  MaxBytes,     \* Resource.MAX_BODY_BYTES, or command_route's max_body_bytes
  Longest,      \* bound: bytes a client sends
  None          \* no Content-Length, nothing cached, nothing given

ASSUME MaxBytesAssumption == MaxBytes \in Nat
ASSUME LongestAssumption  == Longest \in Nat
ASSUME NoneAssumption     == None \notin Nat

VARIABLES
  lane,       \* "resource" (the graph) or "command" (a plain handler)
  stage,      \* whose code is running
  declared,   \* Content-Length, None when absent or unparseable
  pulled,     \* bytes received from the client so far
  ended,      \* Starlette's _stream_consumed: the last message has arrived
  gone,       \* the client has disconnected
  reading,    \* body() is suspended in the stream
  total,      \* its local total: the bytes the read in progress has kept
  cached,     \* offset at which _cached_body starts, None when nothing is cached
  raised,     \* exception in the hands of the running callback
  failed,     \* history: a read has failed (the stream was not yet consumed)
  escaped,    \* history: what first left a callback or the read of _apply
  given,      \* offset at which the bytes handed to the codec and apply start
  status,     \* status of the answer, 0 while there is none
  events,     \* wide events the command lane emitted
  report      \* asgm.outcome of the last one

vars == <<lane, stage, declared, pulled, ended, gone, reading, total, cached,
          raised, failed, escaped, given, status, events, report>>
stream == <<declared, pulled, ended, gone>>
answer == <<status, events, report>>

\* "early" and "late" are the callbacks before and after B4.
Stages     == {"early", "late", "post", "apply", "onException", "errorBody",
               "command", "over"}
Handling   == {"onException", "errorBody"}
Callbacks  == {"early", "late", "post", "command"} \cup Handling
BodyErrors == {"tooLarge", "malformed"}
Errors     == BodyErrors \cup {"disconnect", "consumed", "other"}
Statuses   == {200, 400, 413, 500}

TypeOK ==
  /\ lane \in {"resource", "command"}
  /\ stage \in Stages
  /\ declared \in 0..Longest \cup {None}
  /\ pulled \in 0..Longest
  /\ ended \in BOOLEAN
  /\ gone \in BOOLEAN
  /\ reading \in BOOLEAN
  /\ total \in 0..Longest
  /\ cached \in 0..Longest \cup {None}
  /\ raised \in Errors \cup {"none"}
  /\ failed \in BOOLEAN
  /\ escaped \in Errors \cup {"none"}
  /\ given \in 0..Longest \cup {None}
  /\ status \in Statuses \cup {0}
  /\ events \in 0..1
  /\ report \in {"none", "ok", "halt", "error", "propagated", "unknown"}

Init ==
  /\ \/ lane = "resource" /\ stage = "early"
     \/ lane = "command" /\ stage = "command"
  /\ declared \in 0..Longest \cup {None}
  /\ pulled = 0
  /\ ended = FALSE
  /\ gone = FALSE
  /\ reading = FALSE
  /\ total = 0
  /\ cached = None
  /\ raised = "none"
  /\ failed = FALSE
  /\ escaped = "none"
  /\ given = None
  /\ status = 0
  /\ events = 0
  /\ report = "none"

(***************************************************************************)
(* The read.  A call that finds the body cached returns it at once and     *)
(* changes nothing; it is not a step.                                      *)
(***************************************************************************)
MutDeclaredOver == declared # None /\ declared >= MaxBytes
MutOverflows(n) == n > MaxBytes
MutDisagrees(n) == declared # None /\ total + n < declared
MutJoined       == None

DeclaredOver    == declared # None /\ declared > MaxBytes
Overflows(n)    == total + n > MaxBytes
Disagrees(n)    == declared # None /\ total + n # declared
Idle            == ~reading /\ raised = "none"

\* The bytes just joined: they start where this read started.
Joined == pulled - total

\* body() leaves with an exception; what it had collected is dropped.
BodyRaises(e) ==
  /\ raised' = e
  /\ failed' = TRUE
  /\ reading' = FALSE
  /\ total' = 0

Read ==
  /\ stage \in Callbacks \cup {"apply"}
  /\ Idle
  /\ cached = None
  /\ \/ DeclaredOver /\ BodyRaises("tooLarge")
     \/ /\ ~DeclaredOver /\ ended
        /\ raised' = "consumed"
        /\ UNCHANGED <<failed, reading, total>>
     \/ /\ ~DeclaredOver /\ ~ended
        /\ reading' = TRUE
        /\ total' = 0
        /\ UNCHANGED <<raised, failed>>
  /\ UNCHANGED <<lane, stage, stream, cached, escaped, given, answer>>

\* A message with n bytes arrives; last tells that no more will follow.  The
\* end of the stream is seen, and the length compared, in the same step.
Receive(n, last) ==
  /\ reading /\ ~gone
  /\ n > 0 \/ last
  /\ pulled' = pulled + n
  /\ ended' = last
  /\ \/ Overflows(n) /\ BodyRaises("tooLarge") /\ UNCHANGED cached
     \/ /\ ~Overflows(n) /\ ~last
        /\ total' = total + n
        /\ UNCHANGED <<reading, cached, raised, failed>>
     \/ /\ ~Overflows(n) /\ last /\ Disagrees(n)
        /\ BodyRaises("malformed")
        /\ UNCHANGED cached
     \/ /\ ~Overflows(n) /\ last /\ ~Disagrees(n)
        /\ cached' = Joined
        /\ reading' = FALSE
        /\ total' = 0
        /\ UNCHANGED <<raised, failed>>
  /\ UNCHANGED <<lane, stage, declared, gone, escaped, given, answer>>

\* The receive channel answers http.disconnect, now and whenever it is asked.
Disconnect ==
  /\ reading
  /\ gone' = TRUE
  /\ BodyRaises("disconnect")
  /\ UNCHANGED <<lane, stage, declared, pulled, ended, cached, escaped, given,
                 answer>>

(***************************************************************************)
(* How a request ends.                                                     *)
(***************************************************************************)
Outcome(s, exc) ==
  IF exc THEN IF s = 0 THEN "propagated" ELSE "error"
  ELSE IF s = 0 THEN "unknown"
  ELSE IF s >= 500 THEN "error" ELSE IF s >= 400 THEN "halt" ELSE "ok"

MutEmitTwice(s, exc) ==
  /\ events' = events + (IF s \in {400, 413} THEN 2 ELSE 1)
  /\ report' = Outcome(s, exc)

MutEmitAnswersOnly(s, exc) ==
  IF exc THEN UNCHANGED <<events, report>>
  ELSE events' = events + 1 /\ report' = Outcome(s, exc)

\* command_route's finally: the event of every command, however it ended.
Emit(s, exc) ==
  /\ events' = events + 1
  /\ report' = Outcome(s, exc)

\* No request of the graph lane reports here: core.run does.
Ends(s, exc) ==
  /\ stage' = "over"
  /\ status' = s
  /\ IF lane = "command" THEN Emit(s, exc) ELSE UNCHANGED <<events, report>>

\* The status the framework maps a body error to.
Refusal(e) == IF e = "tooLarge" THEN 413 ELSE 400

\* A halt of the graph: the answer has its status, error_body may still run.
Halt(s) ==
  /\ stage' = "errorBody"
  /\ status' = s
  /\ UNCHANGED <<events, report>>

(***************************************************************************)
(* The callbacks.                                                          *)
(***************************************************************************)
\* A callback catches what body() raised and carries on.
Swallow ==
  /\ stage \in Callbacks /\ raised # "none"
  /\ raised' = "none"
  /\ UNCHANGED <<lane, stage, stream, reading, total, cached, failed, escaped,
                 given, answer>>

\* A callback fails for a reason of its own.
CallbackRaises ==
  /\ stage \in Callbacks \/ given # None
  /\ stage # "over" /\ Idle
  /\ raised' = "other"
  /\ UNCHANGED <<lane, stage, stream, reading, total, cached, failed, escaped,
                 given, answer>>

\* _apply and command_route turn the two body errors into their statuses.
Mapped(st, e) == st \in {"apply", "command"} /\ e \in BodyErrors

\* The exception leaves the code that was running.
Escape ==
  /\ raised # "none"
  /\ raised' = "none"
  /\ escaped' = IF stage \in Handling THEN escaped ELSE raised
  /\ \/ /\ Mapped(stage, raised)
        /\ \/ stage = "apply" /\ Halt(Refusal(raised))
           \/ stage = "command" /\ Ends(Refusal(raised), FALSE)
     \/ /\ ~Mapped(stage, raised)
        /\ \/ stage \in Handling \cup {"command"} /\ Ends(0, TRUE)
           \/ /\ stage \in {"early", "late", "post", "apply"}
              /\ stage' = "onException"
              /\ UNCHANGED answer
  /\ UNCHANGED <<lane, stream, reading, total, cached, failed, given>>

\* B4, valid_entity_length: a declared length over the limit halts the walk.
B4 ==
  /\ stage = "early" /\ Idle
  /\ \/ DeclaredOver /\ Halt(413)
     \/ ~DeclaredOver /\ stage' = "late" /\ UNCHANGED answer
  /\ UNCHANGED <<lane, stream, reading, total, cached, raised, failed, escaped,
                 given>>

\* N11: a POST that creates goes to _apply, another to process_post.
Dispatch ==
  /\ stage = "late" /\ Idle
  /\ stage' \in {"apply", "post"}
  /\ UNCHANGED <<lane, stream, reading, total, cached, raised, failed, escaped,
                 given, answer>>

\* _apply has the bytes; the codec decodes them for resource.apply.
Apply ==
  /\ stage = "apply" /\ Idle
  /\ cached # None /\ given = None
  /\ given' = cached
  /\ UNCHANGED <<lane, stage, stream, reading, total, cached, raised, failed,
                 escaped, answer>>

\* What was running returns.  Of the answers the application makes itself (a
\* command's, on_exception's, a callback's HaltResponse) only 200 and 500 are
\* modelled: a 400 or 413 of its own says nothing of the body.  A cancellation
\* during the read leaves no answer and no cached body, and is left out.
Finish ==
  /\ Idle
  /\ \/ stage = "apply" /\ given # None /\ Ends(200, FALSE)
     \/ stage = "post" /\ Ends(200, FALSE)
     \/ stage = "command" /\ \E s \in {200, 500} : Ends(s, FALSE)
     \/ stage = "onException" /\ Halt(500)
     \/ stage = "errorBody" /\ Ends(status, FALSE)
  /\ UNCHANGED <<lane, stream, reading, total, cached, raised, failed, escaped,
                 given>>

Over == stage = "over" /\ UNCHANGED vars

Next ==
  \/ Read
  \/ \E n \in 0..(Longest - pulled), last \in BOOLEAN : Receive(n, last)
  \/ Disconnect
  \/ Swallow
  \/ CallbackRaises
  \/ Escape
  \/ B4
  \/ Dispatch
  \/ Apply
  \/ Finish
  \/ Over

Spec == Init /\ [][Next]_vars

(***************************************************************************)
(* Properties.                                                             *)
(***************************************************************************)
\* However the body is cut into messages, and whatever Content-Length says,
\* no more than MaxBytes of it are ever kept, in a read or in the cache.
CapHolds ==
  /\ total <= MaxBytes
  /\ cached # None => pulled - cached <= MaxBytes

\* apply is given as many bytes as Content-Length declares, and the whole body
\* from its first byte unless the application went on after a failed read (a
\* read after that resumes in the middle of the stream).
AppliedIsWhole ==
  given # None =>
    /\ ended
    /\ declared # None => pulled - given = declared
    /\ ~failed => given = 0

\* A 413 and a 400 are only given to a request that deserves them, whichever
\* of the checks gave them and whatever was read and swallowed before.
VerdictTruthful ==
  /\ status = 413 => pulled > MaxBytes \/ (declared # None /\ declared > MaxBytes)
  /\ status = 400 => ended /\ declared # None /\ pulled # declared

\* Callbacks may read the body as often as they like: the stream is never
\* found consumed unless an earlier read had failed.
ConsumedMeansFailed == raised = "consumed" => failed /\ ended

\* A command reports once, when it ends; the report agrees with the answer,
\* and the two body errors became an answer instead of an exception.
CommandReported ==
  lane = "command" =>
    /\ events = (IF stage = "over" THEN 1 ELSE 0)
    /\ stage = "over" =>
         /\ report = "propagated" <=> status = 0
         /\ report = "halt" <=> status \in {400, 413}
         /\ escaped = "tooLarge" => status = 413
         /\ escaped = "malformed" => status = 400

\* http.py: body() may raise BodyTooLarge or BodyMalformed, and the graph and
\* command lanes map these to their statuses.
BodyErrorsMapped ==
  stage = "over" =>
    /\ escaped = "tooLarge" => status = 413
    /\ escaped = "malformed" => status = 400
=============================================================================
