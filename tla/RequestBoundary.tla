--------------------------- MODULE RequestBoundary ---------------------------
(***************************************************************************)
(* What core.run promises the resource author, with no mention of how: the *)
(* scope a resource opens around a request (its lifespan) is opened at     *)
(* most once and closed at most once; the request is reported (one wide    *)
(* event) at most once and only at the close; a whole answer reaches the   *)
(* client only when the scope is closed and its fate is known to be good,  *)
(* abandoned, or a rollback the application has answered for.              *)
(*                                                                         *)
(* RequestLifecycle implements this specification.                         *)
(***************************************************************************)
EXTENDS Naturals

CONSTANTS Requests   \* the requests in flight

VARIABLES
  scope,      \* fate of each request's lifespan
  reports,    \* how many events have been emitted for the request
  answered    \* has the client received a complete response?

Fates  == {"committed", "rolledback", "failed", "abandoned"}
Scopes == {"unopened", "open"} \cup Fates

bvars == <<scope, reports, answered>>

BoundaryTypeOK ==
  /\ scope \in [Requests -> Scopes]
  /\ reports \in [Requests -> 0..1]
  /\ answered \in [Requests -> BOOLEAN]

BInit ==
  /\ scope = [r \in Requests |-> "unopened"]
  /\ reports = [r \in Requests |-> 0]
  /\ answered = [r \in Requests |-> FALSE]

Open(r) ==
  /\ scope[r] = "unopened"
  /\ scope' = [scope EXCEPT ![r] = "open"]
  /\ UNCHANGED <<reports, answered>>

\* Close and report in one step.
CloseAndReport(r) ==
  /\ scope[r] = "open"
  /\ \E f \in Fates \ {"failed"} : scope' = [scope EXCEPT ![r] = f]
  /\ reports' = [reports EXCEPT ![r] = @ + 1]
  /\ UNCHANGED answered

\* A release that itself fails, or one left to the garbage collector, goes
\* unreported, and no complete answer is ever delivered for it.
CloseSilently(r) ==
  /\ scope[r] = "open"
  /\ \E f \in {"failed", "rolledback"} : scope' = [scope EXCEPT ![r] = f]
  /\ UNCHANGED <<reports, answered>>

Answer(r) ==
  /\ scope[r] \in {"committed", "rolledback", "abandoned"}
  /\ reports[r] = 1
  /\ ~answered[r]
  /\ answered' = [answered EXCEPT ![r] = TRUE]
  /\ UNCHANGED <<scope, reports>>

BNext ==
  \E r \in Requests :
    Open(r) \/ CloseAndReport(r) \/ CloseSilently(r) \/ Answer(r)

BSpec == BInit /\ [][BNext]_bvars
==============================================================================
