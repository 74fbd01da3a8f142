# Verification of asgimachine

asgimachine answers an HTTP request by walking a decision graph over a
resource's callbacks, inside a per-request *lifespan* (typically a database
connection and its transaction). This directory holds TLA+ models of its
protocol-bearing parts, TLC configurations that check them on small instances,
and TLAPS proofs that hold for every value of the constants. Paths below are
relative to the repository; `core.py` and its neighbours are in
`src/asgimachine/`.

## The system

| Component | State it keeps | Operations | Works with |
|---|---|---|---|
| `core.run`, `_teardown`, `_ClosingStream` | lifespan, `streaming`, `torn_down`, `handled_exc`, `_closed`, the event | open the lifespan, walk, turn the outcome into a response, release under a shield and a time limit, emit | calls `_walk`, the resource's `lifespan`, `error_body`, `on_exception`; the adapter pulls and closes the stream |
| `core._walk` and helpers | `Ctx` (negotiated choices), the trace, the response being built | one node per question to the resource | callbacks of the resource, `conditional`, `negotiation`, `codec`, `HttpRequest.body` |
| `substrate/starlette.py`, resource lane | cached body | convert requests and responses, bounded body read, `aclose` of a streamed body | `core.run`, Starlette |
| `substrate/starlette.py`, command lane, `command.py` | none | run a handler, map body errors, emit an event | the same event sink |
| `conditional.py`, `negotiation.py` | none | verdicts of conditional headers, choice of a variant | called by the walk |
| `event.py`, `trace.py` | the event and the trace of a request | outcome, emission, recording | called by `run` and the walk |
| `policy.py` | rules | first match or default | called from a resource's `forbidden` |
| `streaming.py` | none | SSE frames, `guard_sse` | wraps a resource's body iterator |
| `resource.py` | the class's declarations | a default for every callback | the walk asks it, `schema.py` looks at what is overridden |
| `schema.py` | none | OpenAPI generation, statuses derived from the overrides | documents what the walk does |
| `auth.py`, `codec.py`, `testing.py` | none | header parsing, JSON, test doubles | pure |
| `examples/notes_app.py` | users, tokens, notes | the whole framework on an in-memory store | all of the above |
| `examples/connection.py` | a pool | acquire and release in a lifespan | `core.run` |
| `examples/feed.py`, `examples/unpoly.py` | an append-only log, a list of notes | pages or variants with validators, polled | the walk's conditional requests, caches |

Requests are tasks of one event loop. They interleave only at awaits; they share
what the resource shares (a pool, a store). The hard behaviours are: a
cancellation at any await, a release that raises or blocks, a streamed body that
outlives `run`, the client leaving before, during or after it, and the gap
between what a gate checked and what the write finds after the body was awaited.

What makes each part right:

- **lifecycle**: the lifespan is released once, completely, after the last use;
  rolled back if anything failed; no client gets a whole answer that a failed
  release contradicts; what is reported is what happened.
- **walk**: gates before effects and before disclosure, in an order that no method
  escapes; no halt after a mutation (a halt closes the lifespan cleanly, that is,
  commits); conditional headers with the precedence of RFC 9110; responses that
  describe themselves and can be cached.
- **notes application**: the properties of the framework used together by
  concurrent clients: only owners and admins, no lost note, no update lost to one that
  was not in the server at the same time, tags that identify a state.
- **body read and command lane**: the limit holds for any chunking; what `apply` is
  given is the whole body; a 413 and a 400 are deserved; a command reports once.
- **negotiation**: the loops find the best offer, as a maximum over all offers and
  ranges, and parsing keeps what it should.
- **conditional headers**: whoever goes by a 304, a 412 or an immutable response ends
  up with a state the resource had when it was asked for, however the lists of tags are
  cut and whatever changes within one second.
- **OpenAPI generation**: the document lists every status the walk can answer with.
- **SSE guard**: a stream that failed is not passed off as one that succeeded.

## Modules

### RequestLifecycle, RequestBoundary

`RequestLifecycle` follows a set of concurrent requests through
`_ResourceEndpoint.__call__`, `core.run`, `_ClosingStream` and
`_ClosingStreamingResponse`. A step is what one task does between two suspension
points. `pc` is the await the task is suspended in: `setup` (`__aenter__`),
`walk`, `errorBody` and `handler`, the four arms that await `_teardown`
(`finally` and `except` of `run`, `anext` and `aclose` of `_ClosingStream`),
`returned` and `replying` for a buffered response, `sending`, `pulling`,
`finishing` and `closing` for a streamed one. `life` is the fate of the lifespan,
`fed` the exception its generator is fed, `handled` is `handled_exc is not None`,
`closed` is `_ClosingStream._closed`, and `leaked` the connections of abandoned
releases. Each way an await can end is an action: `TeardownReturns`,
`TeardownRaises`, `TeardownTimesOut`; `PullYields`, `PullEnds`, `PullRaises`; and so
on. There are two cancellations. `Cancel` cancels an anyio scope around the request at
any time (its client is gone), and `Interrupted` delivers that at any await outside the
shield; it is level-triggered, so it may strike again. `TaskCancelled` is `task.cancel()`
(a server that gives up on a task): it strikes wherever the task is suspended. The
shield of `_teardown` is anyio's and does not hold it off, so it can cut a release short:
the lifespan then fails, with its connection back in the pool or not. The pool is external
and bounded, and its `acquire` waits, as asyncpg's does; the stand-in of
`examples/connection.py` opens a connection whenever it has none, which is a `PoolSize`
no smaller than the number of requests.
`CollectGarbage` is the loop's finalizer hook for async generators. The walk is one
step here. An event sink is configured, and the synchronous code after a
teardown is part of the teardown's step.

A stream may come wrapped in `guard_sse` (`Guarded`): when its producer fails, the guard
yields a last frame that says so (`GuardFrames`), and the stream then ends as if nothing
had happened; if the guard's own `format_error` raises, or nobody guards, the exception
leaves the stream (`PullRaises`). `failure` remembers which, and whether the frame was
sent.

A teardown fed an exception is taken to end in a rollback and one fed nothing in
a commit. A lifespan that *suppresses* what it is fed is documented as misuse
(`core.py:169`) and is not distinguished.

`RequestBoundary` is the contract of `core.run` with no mention of how: a scope is
opened at most once and closed at most once, reported at most once and only as it
closes, and a whole answer stands on a scope whose fate allows it.
`RequestLifecycle` implements it under the mapping `scope <- life`,
`reports <- emitted`, `answered <- (wire = "all")`.

### DecisionWalk

One request's walk. `node` is the position; each node of the graph, or each call
between two nodes, is an action named after it (`B13` ... `O20`). What a callback
answers is chosen when it is asked. `cond` holds the verdict each conditional
header deserves against the current representation (`absent`, `star`, `same`,
`other` for `If-Match`, `matches` for `If-None-Match`; dates `unmodified`, `modified`, `unusable`); it is chosen at `G7`, where
there first is something to compare with. `axes` and `vary` follow negotiation and the
`Vary` header, `effects` the callbacks with side effects that have run, `passed` the
trace, `response` the status, the header names and whether there is a body.
`CallbackEscapes` lets any callback end the walk with a `HaltResponse` of its own or
an exception, a side-effecting one before or after its effect. Nodes that ask no callback
(`NoCallback`) have no such end, except that building a response with a bad header value
raises there too (`MalformedHeader`).

### NotesApp, NoteStore

`examples/notes_app.py` under concurrency. The walk of a request on the notes
resources suspends only at `await ctx.request.body()`, so a request is one step up to
that await and one after it; GET and DELETE are a single step, and so is the token
exchange (`IssueToken`), which touches the store only when its body is there. `notes` is
`Store.notes`, `heap` the `Note` objects, `tokens` the users who hold a token, `held` is
`ctx.note`: an update changes the object the gates loaded, in place, wherever it is by
then. `Evaluate` is `RuleEngine.evaluate` over a sequence of effects, `Allowed` the policy
of `build_policy`. A request without a known token is `Unauthorized`. `raced` and `shown`
are history variables. Requests that the walk refuses for their form (a wrong media
type, say) are left out: they change nothing. So are `If-None-Match` on GET, PUT and
DELETE and `If-Match` on GET and POST: all they can do is turn a step into a 304 or a 412
that changes nothing.

`NoteStore` is what the application promises whoever reads its store, with no mention of
requests, tags or bodies: a note is put under an id (`Fill`), by an admin or under the id
minted for it; the note under an id gets its next version, by an admin or its owner
(`Revise`); an id is freed (`Remove`); and a note that left the store never returns.
`NotesApp` implements it under the mapping `store <- view` (the objects behind the ids),
`used <-` the requests answered 201. An update of an object that has left the store is a
stutter there: it is acknowledged, and nobody will see it.

### BodyRead

`_StarletteRequest.body` and what becomes of its errors, for one POST on either lane.
The body is the sequence of bytes the client sends, cut into messages in any way
(`Receive(n, last)`); a stretch of it is known by its offsets, so `pulled` is how far the
stream has been read, `total` is the local of that name, and `cached` and `given` are the
offsets at which the cached bytes and the bytes given to `apply` start. `stage` is whose
code runs: a callback before or after B4, `process_post`, `_apply`, `on_exception`,
`error_body`, or a command's handler. Any of them may read (`Read`), catch what the read
raised (`Swallow`), let it out (`Escape`) or fail by itself (`CallbackRaises`). Starlette's
stream is external: it can be read once, continues where an abandoned iteration left it,
and raises when it is found consumed or the client has gone. The answers that are the
application's own (a `HaltResponse` of a callback, a response of `on_exception`) are all a
500 here, and a cancellation during a read, which leaves neither an answer nor a cached
body, is left out. `failed` and
`escaped` are history variables.

### Negotiation

`choose_media_type`, `choose_encoding` and `choose_language`. A step is one iteration of a
loop: one part of the header parsed (`ParsePart`), one range compared with one offer
(`MediaRange`, `TokenRange`), one offer done (`MediaOffer`, `TokenOffer`). Ranges and offers
are sequences of their parts (`<<"text", "html">>`, `<<"en", "US">>`), q-values are in
thousandths, and ill-formed parts and q-values are among the inputs. The reference
definition says nothing of loops: `Votes(k)` are the `(q, specificity, -index)` that speak
for the offer `k`, and the answer is the offer with the greatest vote.

### Conditional, Revalidation

`Conditional` has the four comparisons of `conditional.py`. An entity tag is a flag and
a sequence of parts, and a list a set of tags; `Scans` gives every set a list may be
reduced to by the cut at 8192 characters and 64 tags, including a tag that lost its last
part and its closing quote and still compares, because quotes are stripped one by one
(`Stump`). Instants are in ticks and dates in seconds. The value `*` and a date that does
not parse are left to `DecisionWalk`, where they are verdicts of their own (`star`,
`unusable`).

`Revalidation` puts four resources behind a cache: the feed of `examples/feed.py`, the
two variants of `examples/unpoly.py`, a resource with a tag and a date (`note`) and one
with a date alone (`dated`). `Grow` changes the resource, `Serve` is the walk of a GET,
which has no suspension between its callbacks. The cache and the clients are external
and do what the examples rely on: `Reuse` an immutable response without asking, `Ask`
with the tags or the date of what is stored, take a 200 in (`TakeNew`, evicting
anything), take a 304 for what it validates (`TakeOld`) or ask again plainly when that
is gone (`Retry`); an Unpoly client keeps its own fragment. `Update` is a write guarded
by what its author was shown. `from`, in requests and in what is shown, is the count
when the request was made.

### DocumentedWalk

`DecisionWalk` for a resource that overrides the callbacks in `overrides`. `Default...`
are the defaults of `resource.py`, as what a step from the node that asks them does;
`_auto_error_statuses` is the function of `schema.py`, on the same overrides. A callback
that ends the walk by itself is left out, except a default that raises
`NotImplementedError`: what an override halts with is for its author to declare.
`Shortfall` names, one by one, the answers the rules of `schema.py` do not foresee.
`PRODUCES` among the overrides is one that is empty: it is a 406 even where Accept is
disregarded (`core.py:451`). A
callback behind a declaration (`languages`, `ignore_unacceptable`, `known_content_type`,
...) is taken to answer by the declaration, as the document does.

### How they compose

`RequestLifecycle` treats the walk as one step with the ends `DecisionWalk` gives it
(returned, halted, a callback's halt, an exception or cancellation); `DecisionWalk`
takes the lifespan as given, which is what `NoHaltAfterMutation` is about. `NotesApp`
abstracts the same walk to the gates its resources override and adds the shared store.
`BodyRead` opens up the one await of `_apply` that `DecisionWalk` and `NotesApp` take as
a step with three outcomes, `Negotiation` the choices `DecisionWalk` makes at C4, D5 and
F7, and `Conditional` the verdicts it takes at the preconditions. `Revalidation` follows
those verdicts out to the clients that asked. `DocumentedWalk` EXTENDS `DecisionWalk`
and conjoins to each of its steps what a default callback allows, so that its behaviours
are behaviours of the walk.

## Runs

| Run | Instance | Shows |
|---|---|---|
| `LifecycleSafety` | 2 requests, 1 connection, up to 1 chunk, both streams guarded, symmetric requests | the safety and action properties of the lifecycle and that it implements `RequestBoundary` |
| `LifecycleLive` | the same, no stream guarded, without symmetry | `CancelledReleases`, `WaitersServed` |
| `LifecycleUnreported` | the same, no stream guarded | finding: a request may end with its lifespan closed and no event |
| `LifecycleHandledStream` | the same, no stream guarded | finding: a handled exception answered by a stream commits |
| `WalkSafety` | 7 known methods and one unknown | the safety properties of the walk on every path |
| `NotesSafety` | 4 requests, an owner and an admin, one id clients choose | the safety properties of the notes application and that it implements `NoteStore` |
| `RevalidationSafety` | 2 clients, 1 cache, each of the four resources | what is shown, what is replaced, and `PollersConverge` |
| `SchemaSafety` | every override alone, with each of five, and on the way of a POST that creates | `DocumentCovers` |
| `BodySafety` | limit 2, up to 6 bytes | the safety properties of the body read and the command lane |
| `BodyUnmapped` | the same | finding: a body error outside `_apply` is not mapped |
| `NegotiationSafety` | 3 parts, 2 ranges kept, 2 offers | parsing and selection agree with their definitions |
| `NegotiationIdentity` | the same | finding: `identity;q=0, *` selects identity |

**Bounds.** Requests of the lifecycle meet only in the pool, so two requests and one
connection give every conflict there is: one holds, one waits, and either may leak it.
One chunk is enough for a stream to be cut before, between and after its chunks:
`sending` and `pulling` do not depend on how many went before. Both bounds disappear in
the proofs. A guarded request may also fail unguarded, when `format_error` raises, so
`LifecycleSafety` has the behaviours of both kinds. `DecisionWalk` has no bound: its
state space is finite, and the set of methods is its one constant. In `NotesApp` the
interesting histories need a creation, two overlapping requests and one between them,
hence four requests; every request can make or change one note, so `Versions` is not a
further restriction.

In `BodyRead` six bytes allow three limits' worth: a read can fail over the limit, be
swallowed, and be followed by another that fails or succeeds. In `Negotiation` three
parts and two ranges let a malformed part stand before, between or after the ranges kept,
and the header exceed the bound; two offers give every tie and preference between
offers. These bounds disappear in the proofs.

In `Revalidation` a page holds two entries and there are three events, so that a page is
seen growing, full and archived and the next one after it; a second is two ticks, so
that changes fall within one and across two; a cache of two responses, whose lists of
tags are cut to one, evicts, cuts and holds the two variants; two clients overtake each
other. The clock of `note` stands still, the worst case for its dates. None of these
bounds remains in the proofs. In `SchemaSafety` the overrides every other is combined
with are those that open further paths: the missing branch, the preconditions, the two
ways through a write, and an empty `PRODUCES`; a POST that creates takes three together.
The proof covers every set of overrides.

**Symmetry** is used only in runs whose properties are safety properties, and over
requests, which no definition tells apart. The runs with a liveness property use none.

**Fairness.** `LoopFairness` is what the event loop owes: a pending cancellation is
delivered, code between awaits runs, the teardown's timer fires, garbage is finalized,
and the inner generator's `aclose` returns (nothing in the code bounds it, so this is an
assumption on producers). Callbacks, sends and releases are owed nothing:
`CancelledReleases` holds although none of them may ever return. No server owes a
`task.cancel()` either. `WaitersServed` states
its additional assumption itself: if callbacks and sends return and the pool serves who
waits for it, a waiter is served or a release was abandoned. `Fairness` of
`Revalidation` is weak fairness of each client's steps taken together: messages arrive
and clients go on polling. Nothing makes a resource change or stop changing, and
`PollersConverge` assumes that it stops. The other specifications state no fairness.

**Deadlock** is checked in every run: a finished system stutters in an explicit step.

## Properties

Lifecycle: `ReleaseOnce` (no arm awaits a teardown of a lifespan already settled or
reported), `AliveWhileStreaming`, `WholeAnswerIsBacked`, `HandledErrorRollsBack`,
`OkReportIsTrue`, `ReleasedIsReported`, `StreamFailureKnown` (a failed stream that
commits, or is whole on the wire, has told its client), `ImplementsBoundary`,
`CancelledReleases`, `WaitersServed`. All of them hold although a release may be cut
short: it is not repeated, not reported, and no client takes it for a success. Two of them are weaker than the documentation on
purpose: `ReleasedIsReported` is about releases that did not raise, and
`HandledErrorRollsBack` about buffered answers; the unrestricted statements
(`EveryRequestReported`, `HandledErrorNeverCommits`) are the violation runs.

Walk: `NoHaltAfterMutation`, `OnlyWritesHaveEffects`, `GatesFirst`,
`WritesHonourPreconditions`, `NotModifiedIsSound`, `CacheKeySound`, `SelfDescribing`
(HEAD without a body included). `NoHaltAfterMutation` allows no halt after `apply` or
`process_post`, after `create_path` only the refusals of the body that is read next, and
after `delete_resource` only the 500 for its `False` (`core.py:634`): that a delete which
says it was not enacted has changed nothing is a contract the resource has to keep, and
that halt commits what it did. A callback's own `HaltResponse` is the author's business
and is excluded.

Notes: `OnlyOwnersSucceed`, `PostedNotesSurvive` (an id that a 201 has announced is empty,
or names another note, only after a DELETE of the posted note itself; a PUT that found it
empty and waited for its body may have filled it since), `SerialUpdatesGuarded` (what does hold
of the lost-update guard: two updates acknowledged against one version overlapped),
`TagsStableWithinLife`, and `ImplementsStore`: between a gate and the write it admits
other requests run, and still every change a client can see is a single step of
`NoteStore`, allowed to the user who makes it.

Body: `CapHolds` (no more than the limit is kept, in a read or in the cache),
`AppliedIsWhole` (the declared length, and the body from its first byte unless the
application went on after a failed read), `VerdictTruthful`, `ConsumedMeansFailed`,
`CommandReported`. `AppliedIsWhole` has its exception because the code has it: when a
callback catches `BodyTooLarge` and the body is read again, the second read starts in the
middle of the stream, and without a `Content-Length` the rest is applied as if it were
the body.

Revalidation: `ShownIsCurrent` (what a client is shown is what it asked for, as it was
at some time since it asked; by date alone, up to changes within one second),
`UpdatesReplaceWhatWasSeen`, `PollersConverge` (when the resource stops changing, every
client is in the end shown what it is, unless it goes by the date alone). Documentation: `DocumentCovers`.

Negotiation: `ParseIsFaithful` (the first `_MAX_RANGES` well-formed parts, however many
malformed ones lie between), `ChosenIsBest`.

## Findings

1. **A failed release is never reported** (`LifecycleUnreported`). All the emissions
   come after `await _teardown(...)`; a COMMIT or ROLLBACK that raises skips them, while
   `docs/concepts/observability.md:189` says a crash is never invisible. A setup that
   fails is not reported either; the property does not ask for that. Neither is a release
   that `task.cancel()` cut short.
2. **A handled exception answered by a stream commits** (`LifecycleHandledStream`).
   `handled_exc` is fed to the teardown only in the buffered case, contrary to the
   comment at `core.py:97`.
3. **Body errors outside `_apply`** (`BodyUnmapped`): `http.py:115` says the graph maps
   `BodyTooLarge` and `BodyMalformed` to 413 and 400; it does so only around the read in
   `_apply`. In `process_post`, or in a gate, they are exceptions like any other.
4. **A refused identity is chosen** (`NegotiationIdentity`): in `identity;q=0, *` the
   wildcard's q-value outweighs the refusal, contrary to `negotiation.py:167`.

More disagreements were seen while modelling and have no run of their own; where a property
says what does hold, it is named.

- `create_path` runs before the body is decoded, so a 415, a 413 or a 400 may follow a
  side effect (`core.py:648-649`) and closes the lifespan cleanly, against
  `PLAN.md:487-488`; `resource.py:392` counts `create_path` among the side effects.
  `NoHaltAfterMutation` says that besides this and the next item nothing does.
- A `delete_resource` that returns `False` ends in a halt (`core.py:634-635`) that closes
  the lifespan cleanly, after a callback which mutates has run, against `PLAN.md:487-488`
  ("no halt fires after a mutation runs"). Whatever it had changed by then is committed.
- `core.py:157` calls the teardown "shielded (otherwise uninterruptible)". The shield is
  anyio's and holds off anyio's scopes, a client's disconnect among them; a native
  `task.cancel()` does interrupt the release. `ReleaseOnce`, `WholeAnswerIsBacked` and `ImplementsBoundary` say what holds
  then.
- Two PUTs with the same tag whose bodies overlap both pass the precondition, which is
  evaluated before the body is awaited (`core.py:576`), and the second is applied over
  the first, against `conditional-caching.md:86-88`. `SerialUpdatesGuarded` says that
  only overlapping ones do.
- A write that `require_conditional_write` guards goes through with an
  `If-Unmodified-Since` that cannot be evaluated: W1 tests that a header is present
  (`core.py:482`), and the unusable date is then ignored (`core.py:754`), against
  `resource.py:193`.
- The tag of a note created again under its id repeats (`notes_app.py:65`, `276`),
  against `conditional-caching.md:19`. `TagsStableWithinLife` is what does hold.
- `notes_app.py:10-11` says that any authenticated user may read a note; the policy
  (`notes_app.py:326-335`) asks for the owner or an admin whatever the method.
- `conditional.py:15` says of the tail that is cut off a list of tags that it "can only
  have produced more matches". A tag the cut falls in may match where it would not have:
  `"feed-1-2"` cut to `"feed-1` is the tag of the archived page. `ShownIsCurrent` shows
  that a cache which checks what a 304 validates is not misled.
- The document (`schema.py:87-134`, "tracks behavior by construction", `openapi.md:114`)
  does not list: 404 for a POST to what is missing; 406 on a write to a resource without
  languages and encodings (C4 is asked for every method); 406 with an empty `PRODUCES`
  where Accept is disregarded; 415 and 400 where `CONSUMES`
  is empty and `_apply` finds no codec or cannot decode; 413 for the default limit; 412
  and 304 for `If-Match` and `*` without validators; 202 for a DELETE. `Shortfall` is
  this list, and `DocumentCovers` says it is complete for the statuses there is a rule
  for.

## Proofs

`RequestLifecycle_proofs` (any set of requests, any pool size, any number of chunks).
The invariants are not inductive: that a lifespan is released once, for instance,
depends on which places a stream with `closed` set can be in. `IInv` is `TypeOK` with
three parts per request: `PlaceInv`, what each `pc` says about the lifespan, the wrapper
and the reports; `FateInv`, what the lifespan's fate says about reports and the wire;
and `FailureInv`, what the failure of a stream says about the rest. One lemma per action
proves it inductive, `Inductive` draws the temporal conclusion, and the theorems
`TypeCorrect`, `ReleasedOnce`, `StreamsStayAlive`, `WholeAnswersAreBacked`,
`HandledErrorsRollBack`, `OkReportsAreTrue`, `ReleasedAreReported`,
`StreamFailuresAreKnown` follow from it. `Implements` is a statement about steps, proved
from `IInv` and the actions.

`DecisionWalk_proofs` (any set of methods). `WalkInv` adds to `TypeOK`: `GateInv`, which
gates have been passed when the walk is past them; `DispatchInv`, which methods
reach which write nodes; `ConditionInv`, what is known of the conditional headers
after the precondition nodes; and `EffectInv`, where effects may have happened. One
lemma per node. From it follow `WalkTypeCorrect`, `HaltsPrecedeMutations`,
`SafeMethodsAreSafe`, `GatesComeFirst`, `PreconditionsAreHonoured`. Two more theorems are
about the shape of the graph. `WalkDescends`: each step lowers the `Rank` of the node, so
that there is no cycle, no node is met twice and no walk has more than 27 steps. This is
the part of termination that needs no fairness; that callbacks return is theirs to see
to. `OneMutationAtMost`, by `EffectInv`: no walk reaches a second mutation, and
`create_path` is the one effect that can come before one.

`DecisionWalkAnswers_proofs` adds to `WalkInv` an invariant about the answer: that there
is none before the end (`Unanswered`), that an answer a cache may store names its axes
(`Keyed`), that a 304 stands on a verdict (`Evidence`) and that headers fit the status
(`Described`). From it follow `NotModifiedSound`, `CacheKeyIsSound`,
`AnswersDescribeThemselves`.

`DocumentedWalk_proofs` (any set of sets of overrides). Every step is one of the walk,
so `WalkInv` comes for free; `DocumentInv` says which nodes the defaults make
unreachable, what is behind the walk when a body is decoded, and that without validators
the conditional verdicts that need one are out of the question. `AnswersAreDocumented`
follows, one lemma per group of nodes. `DocumentedIsWalk` states the first sentence, so
that every theorem about the walk is one about a resource with any overrides.

`NotesApp_proofs` (any requests, users, admins and ids). `IInv` says of each request
what its phase implies and that what it made is its own (`PhaseInv`, `MadeInv`); of the
store, that it holds notes that were made, under known ids (`NamesInv`). That posted
notes survive is not inductive: it needs that a PUT which waits for its body, having
found the id of a posted note empty, came after the DELETE of that note (`LateFillInv`).
The guard
between updates needs three more parts: a guarded update that waits for its body names
at most the current version of its note, and one that was applied a smaller one
(`VersionInv`), so that two under way on one version entered while neither had been
applied, and met (`RaceInv`). `ShownInv` bounds what was shown by the version that is
current. All six properties of the run are theorems. For `NotesImplementStore` two facts
join `IInv`: a note is under the id its maker was sent to, hence under one id at most,
so that an update in place changes one entry or none (`PlaceInv`); and a text is that of
a request which has been answered, whose user no longer changes (`TextInv`). Each action
is then a fill, a revision, a removal or a stutter (`FillStep`, `ReviseStep`,
`OtherStep`). `OwnershipIsStable` says directly that an id never comes to name another
note of a plain user. `FirstRuleDecides` is about `RuleEngine.evaluate` with any
rules: the least index among those that do not abstain exists, by the
well-foundedness of the naturals, and its effect is the decision.

`Revalidation_proofs` (any clients, page size, second, limits and bounds). `CacheInv`
says that everything stored, under way or shown is some version of the resource: of an
answer, one since its request (`AskedInv`); of what is shown, one that is fresh
(`ShownInv`). It rests on lemmas about the tags: they tell versions apart, archived
pages no longer change, and dates do not decrease (`DatesInv`). `ShownWasCurrent`,
`NoUpdateIsBlind` and `CacheTypeCorrect` follow. `ReadsAreMonotonic` adds `ReadsInv`, that
what a client has been shown was there when it made the request now under way: whatever
answers that request, from whichever cache entry and however late, is then no older. By
date alone this holds to the second; within one second a later answer can be the
older state. `VerdictsAgree` closes the seam to the graph: `Graph` instantiates
`DecisionWalk` at its preconditions, with the worth of the headers computed from the tags
and dates here, and both modules answer 304, and refuse updates, in the same cases.

`BodyRead_proofs` (any limit, any number of bytes, any cutting). The invariant adds to
`TypeOK` what each stage of the request says about the read, the cache and the history:
in particular, unless a read has failed, the read in progress or the cache starts at the
first byte. `CapAlwaysHolds`, `AppliedBodiesAreWhole`, `VerdictsAreTruthful`,
`ConsumedOnlyAfterFailure` and `CommandsReport` follow.

`Negotiation_proofs` (any ranges, offers, q-values and bounds). Lemmas first: the order of
votes is total and transitive, and the greatest of a union is the greater of the two
greatest. The invariant says that `best` and `bestKey` lead the votes of the offers and
ranges passed so far (`Leads`), and that `matched` sums up the ranges passed for the
current offer (`SumsUp`); each iteration adds one vote, or the votes of one offer.
`SelectionIsBest` follows when the last offer is done. `ParsingIsFaithful` has an
invariant of its own: of the parts passed, those kept are the well-formed ones
(`ParsedSoFar`), each at the place that counts the well-formed parts up to it. A part
adds one to that count or nothing, so that no induction over the header is needed.

Assumptions cited: `MaxChunksAssumption`; `MaxBytesAssumption`, `LongestAssumption`,
`NoneAssumption`; `MaxRangesAssumption`; `UsersAssumption`, `MatchAssumption`,
`IdsAssumption`; `SecondAssumption`, `PageSizeAssumption`, `BoundsAssumption`; none for
the walk and its document. The other named assumptions say what the constants are, and
TLC evaluates them all.

Only model-checked: the liveness properties `CancelledReleases`, `WaitersServed` and
`PollersConverge`; the prover handles neither fairness nor `ENABLED`. Every other property
of a run that passes is a theorem. `RankFalls`, `OneMutation`, `ReadsAdvance` and
`OwnershipStable` are stated in the proof modules, beside their theorems.

## Not modelled

Authorization-header parsing, JSON codecs, the test helpers, `examples/accounts.py` and
`examples/events.py`: pure code whose correctness is a matter of data, or demonstrations
of what is modelled elsewhere. Of `schema.py`, the schemas, parameters and security of
the document: that two models of one name collide (`schema.py:156`), for instance, is
not visible here. Of `negotiation.py` and `conditional.py`, the splitting of characters:
a header that is cut inside a part is a case of `Scans` for tags and of nothing for
`Accept`. The body of an event beyond its outcome. The trace header. Timing: the
teardown's limit is an event that may happen at any time. A lifespan that suppresses
exceptions. A missing event sink.

## Plan

Done, in order: the lifecycle, the walk, the notes application, the body read with the
command lane, negotiation; then the SSE guard, the policy and the tokens, conditional
headers with the caches they are for, the statuses of the document, and the proofs of
every safety and action property and of both refinements. What would come next:

1. The seam between `NotesApp` and `DecisionWalk`, stated as the one between
   `Revalidation` and `DecisionWalk` is.
2. The cut of an `Accept` header inside a part, as `Conditional` does for lists of tags.
3. The table of routes of `build_app`, and `on_exception` given there against one
   overridden.
4. The rules of `schema.py` brought in line with `Shortfall`, which would then be empty.
