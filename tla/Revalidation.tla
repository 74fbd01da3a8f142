---------------------------- MODULE Revalidation ----------------------------
(***************************************************************************)
(* The conditional requests of the resources made for them, seen from the  *)
(* cache and the clients they are made for: examples/feed.py (immutable    *)
(* archived pages, a head page that grows), examples/unpoly.py (two        *)
(* variants at one URL, polled), and a resource that goes by dates, alone  *)
(* ("dated") or besides its tag ("note", as in the guide).                 *)
(*                                                                         *)
(* The callbacks of a GET run without a suspension, so the origin answers  *)
(* in one step; requests and responses take their time and overtake those  *)
(* of other clients.  The cache and the clients are external: they do what *)
(* the examples rely on.                                                   *)
(***************************************************************************)
EXTENDS Conditional

CONSTANTS Clients,
          PAGE_SIZE,    \* PAGE_SIZE of the feed
          MaxEvents,    \* bound on the events of the feed
          MaxCount,     \* bound on the changes of the other resources
          MaxClock,     \* bound on the ticks that pass
          MaxStored     \* bound on the responses the cache keeps

ASSUME PageSizeAssumption == PAGE_SIZE \in Nat \ {0}
ASSUME BoundsAssumption ==
  /\ MaxEvents \in Nat /\ MaxCount \in Nat /\ MaxClock \in Nat /\ MaxStored \in Nat \ {0}

VARIABLES
  origin,    \* which resource is behind the cache
  polls,     \* the page, variant or resource each client reads
  count,     \* events in the outbox, notes in the store, or the version
  clock,     \* the origin's clock
  changes,   \* when the count became 1, 2, ...
  store,     \* responses the cache keeps
  asked,     \* the request of each client that is under way
  shown,     \* the last thing each client was shown
  replaced   \* versions a guarded write was based on, with those it replaced

server == <<origin, count, clock, changes>>
vars   == <<server, polls, store, asked, shown, replaced>>

Origins == {"feed", "unpoly", "note", "dated"}
Most    == IF origin = "feed" THEN MaxEvents ELSE MaxCount
Targets == CASE origin = "feed"   -> 0..(MaxEvents \div PAGE_SIZE)
             [] origin = "unpoly" -> {"frag", "full"}
             [] OTHER             -> {"resource"}

(***************************************************************************)
(* The resources, at a given count.                                        *)
(***************************************************************************)
HeadPage(n) == n \div PAGE_SIZE

MutArchived(page, n) == page <= HeadPage(n)
Archived(page, n) == page < HeadPage(n)

\* Outbox.page: a slice of the log.
Entries(page, n) ==
  IF n >= (page + 1) * PAGE_SIZE THEN PAGE_SIZE
  ELSE IF n >= page * PAGE_SIZE THEN n - page * PAGE_SIZE ELSE 0

MutResourceExists(target, n) == origin = "feed" => target < HeadPage(n)
ResourceExists(target, n) == origin = "feed" => target <= HeadPage(n)

Represent(target, n) ==
  IF origin = "feed"
  THEN [of |-> target, entries |-> Entries(target, n), archived |-> Archived(target, n)]
  ELSE [of |-> target, entries |-> n, archived |-> FALSE]

GenerateEtag(target, n) ==
  CASE origin = "feed" -> IF Archived(target, n) THEN Tag(FALSE, <<"feed", target>>)
                          ELSE Tag(FALSE, <<"feed", target, Entries(target, n)>>)
    [] origin = "unpoly" -> Tag(FALSE, <<"notes", n, target>>)
    [] origin = "note"   -> Tag(FALSE, <<"v", n>>)
    [] origin = "dated"  -> NoTag

CacheControl(target, n) ==
  IF origin = "feed" /\ Archived(target, n) THEN "immutable" ELSE "no-cache"

\* Last-Modified, where there is one: when the count became what it is.
Dated == origin \in {"note", "dated"}
LastModified(n) == IF n = 0 THEN 0 ELSE changes[n]

Response(target, n) ==
  [of    |-> target,
   tag   |-> GenerateEtag(target, n),
   date  |-> HttpDate(LastModified(n)),
   cc    |-> CacheControl(target, n),
   body  |-> Represent(target, n)]

(***************************************************************************)
(* Requests.  A conditional request names the tags of what is stored for   *)
(* its URL, or for want of tags the date.                                  *)
(***************************************************************************)
Unconditional    == [by |-> "nothing"]
IfNoneMatch(list) == [by |-> "tags", list |-> list]
IfModifiedSince(date) == [by |-> "date", since |-> date]

Idle    == [stage |-> "idle"]
Nothing == [body |-> "nothing"]

Sent(condition) == [stage |-> "sent", condition |-> condition, from |-> count]
Answered(request, status, response) ==
  [stage |-> "answered", status |-> status, response |-> response, from |-> request.from]

\* The pages of the feed have URLs of their own, the variants share one.
SameURL(r, target) == origin = "feed" => r.of = target
Stored(target) == {r \in store : SameURL(r, target)}

Shared(target) ==
  LET tags == {r.tag : r \in Stored(target)} \ {NoTag}
  IN  IF Stored(target) = {} THEN {Unconditional}
      ELSE IF tags # {} THEN {IfNoneMatch(list) : list \in Scans(tags)}
      ELSE {IfModifiedSince(r.date) : r \in Stored(target)}

\* Unpoly asks with the tag of the fragment it has, and keeps it on a 304.
Unpoly(c) == origin = "unpoly" /\ polls[c] = "frag"
Conditions(c) ==
  IF ~Unpoly(c) THEN Shared(polls[c])
  ELSE IF shown[c] = Nothing THEN {Unconditional}
  ELSE {IfNoneMatch({shown[c].tag})}

Init ==
  /\ origin \in Origins
  /\ polls \in [Clients -> Targets]
  /\ count = 0
  /\ clock = 0
  /\ changes = <<>>
  /\ store = {}
  /\ asked = [c \in Clients |-> Idle]
  /\ shown = [c \in Clients |-> Nothing]
  /\ replaced = {}

(***************************************************************************)
(* The origin.                                                             *)
(***************************************************************************)
\* The next event, note or version.  The feed and the notes have no dates.
MutGrow ==
  /\ count < Most
  /\ count' = count + 1
  /\ UNCHANGED changes
Grow ==
  /\ count < Most
  /\ count' = count + 1
  /\ changes' = Append(changes, clock)

Change == Grow /\ UNCHANGED <<origin, clock, polls, store, asked, shown, replaced>>

\* The clock of "note" stands still: its dates say that nothing changed,
\* whatever did, and its tags must do.
Tick ==
  /\ origin = "dated" /\ clock < MaxClock
  /\ clock' = clock + 1
  /\ UNCHANGED <<origin, count, changes, polls, store, asked, shown, replaced>>

\* K13 by the tags; L17 by the date, where no tag was sent.
NotModified(target, condition) ==
  \/ /\ condition.by = "tags"
     /\ IfNoneMatchMatches(condition.list, GenerateEtag(target, count))
  \/ /\ condition.by = "date" /\ Dated
     /\ NotModifiedSince(condition.since, LastModified(count))

StatusOf(target, condition) ==
  IF ~ResourceExists(target, count) THEN 404
  ELSE IF NotModified(target, condition) THEN 304 ELSE 200

Serve(c) ==
  /\ asked[c].stage = "sent"
  /\ asked' = [asked EXCEPT ![c] =
       Answered(@, StatusOf(polls[c], @.condition), Response(polls[c], count))]
  /\ UNCHANGED <<server, polls, store, shown, replaced>>

(***************************************************************************)
(* The cache and the clients.                                              *)
(***************************************************************************)
Seen(response, from) ==
  [body |-> response.body, date |-> response.date, tag |-> response.tag, from |-> from]
Show(c, response, from) == shown' = [shown EXCEPT ![c] = Seen(response, from)]

\* What need not be revalidated is shown from the cache.
Reuse(c) ==
  /\ asked[c].stage = "idle"
  /\ \E r \in store : r.of = polls[c] /\ r.cc = "immutable" /\ Show(c, r, count)
  /\ UNCHANGED <<server, polls, store, asked, replaced>>

Ask(c) ==
  /\ asked[c].stage = "idle"
  /\ ~ \E r \in store : r.of = polls[c] /\ r.cc = "immutable"
  /\ \E condition \in Conditions(c) : asked' = [asked EXCEPT ![c] = Sent(condition)]
  /\ UNCHANGED <<server, polls, store, shown, replaced>>

\* A 200 is stored, and may push others out.  Of responses without tags there
\* is no choosing from, so the last one is kept.
TakeNew(c) ==
  /\ asked[c].stage = "answered" /\ asked[c].status = 200
  /\ Show(c, asked[c].response, asked[c].from)
  /\ \E kept \in SUBSET {r \in store : r.tag # NoTag} :
       /\ Cardinality(kept) < MaxStored
       /\ store' = kept \cup {asked[c].response}
  /\ asked' = [asked EXCEPT ![c] = Idle]
  /\ UNCHANGED <<server, polls, replaced>>

\* A 304 selects what it validates: the fragment the client has, or what is
\* stored with its tag, or with its date.
Validated(c, response) ==
  IF Unpoly(c) THEN {[shown[c] EXCEPT !.from = asked[c].from]}
  ELSE {Seen(r, asked[c].from) :
          r \in {s \in store : /\ SameURL(s, response.of)
                               /\ s.tag = response.tag
                               /\ s.date = response.date}}

TakeOld(c) ==
  /\ asked[c].stage = "answered" /\ asked[c].status = 304
  /\ \E seen \in Validated(c, asked[c].response) : shown' = [shown EXCEPT ![c] = seen]
  /\ asked' = [asked EXCEPT ![c] = Idle]
  /\ UNCHANGED <<server, polls, store, replaced>>

\* It validates nothing the cache has, or has still: ask again, plainly.
Retry(c) ==
  /\ asked[c].stage = "answered" /\ asked[c].status = 304
  /\ Validated(c, asked[c].response) = {}
  /\ asked' = [asked EXCEPT ![c] = Sent(Unconditional)]
  /\ UNCHANGED <<server, polls, store, shown, replaced>>

TakeNone(c) ==
  /\ asked[c].stage = "answered" /\ asked[c].status = 404
  /\ asked' = [asked EXCEPT ![c] = Idle]
  /\ UNCHANGED <<server, polls, store, shown, replaced>>

\* An update guarded by the validator of what the client was shown: If-Match
\* where there is a tag, and If-Unmodified-Since, which If-Match silences.
UpdateRefused(seen) ==
  IF seen.tag # NoTag
  THEN ~IfMatchMatches({seen.tag},
                       GenerateEtag("resource", count))
  ELSE ModifiedSince(seen.date, LastModified(count))

Update(c) ==
  /\ Dated /\ shown[c] # Nothing
  /\ ~UpdateRefused(shown[c])
  /\ Grow
  /\ replaced' = replaced \cup {<<shown[c].body.entries, count>>}
  /\ UNCHANGED <<origin, clock, polls, store, asked, shown>>

ClientStep(c) ==
  Serve(c) \/ Reuse(c) \/ Ask(c) \/ TakeNew(c) \/ TakeOld(c) \/ Retry(c) \/ TakeNone(c)

Next ==
  \/ Change \/ Tick
  \/ \E c \in Clients : ClientStep(c) \/ Update(c)

Spec == Init /\ [][Next]_vars

\* Clients poll and messages that are not lost arrive; nobody has to change
\* anything.
Fairness == \A c \in Clients : WF_vars(ClientStep(c))
FairSpec == Spec /\ Fairness

(***************************************************************************)
(* Properties.                                                             *)
(***************************************************************************)
Tags      == {GenerateEtag(t, n) : t \in Targets, n \in 0..count}
Responses == {Response(t, n) : t \in Targets, n \in 0..count}

RequestTyped(q) ==
  \/ q = Idle
  \/ /\ q.stage = "sent" /\ q.from \in 0..count
     /\ q.condition.by = "tags" => q.condition.list \subseteq Tags \cup {Stump(t) : t \in Tags}
  \/ /\ q.stage = "answered" /\ q.from \in 0..count
     /\ q.status \in {200, 304, 404}
     /\ q.response \in Responses

TypeOK ==
  /\ origin \in Origins
  /\ polls \in [Clients -> Targets]
  /\ count \in 0..Most /\ clock \in 0..MaxClock
  /\ changes \in [1..count -> 0..clock]
  /\ store \subseteq Responses /\ Cardinality(store) <= MaxStored
  /\ \A c \in Clients : RequestTyped(asked[c])
  /\ \A c \in Clients : shown[c] = Nothing \/ shown[c].body \in {r.body : r \in Responses}
  /\ replaced \subseteq (0..count) \X (0..count)

\* Whether nothing but the fraction of a second tells version m from n.
SameSecond(m, n) == HttpDate(LastModified(n)) = HttpDate(LastModified(m))

\* What a client is shown is the page, variant or resource it asked for as it
\* was at some time since it asked: whatever is reused, listed, cut, evicted or
\* overtaken.  By date alone, it may miss changes made within one second.
ShownIsCurrent ==
  \A c \in Clients : shown[c] # Nothing =>
    \/ \E n \in shown[c].from..count : shown[c].body = Represent(polls[c], n)
    \/ /\ origin = "dated"
       /\ \E m \in 0..shown[c].from : /\ shown[c].body = Represent(polls[c], m)
                                      /\ SameSecond(m, shown[c].from)

\* A guarded update replaces the version its author was shown; by date alone,
\* one of the same second.
UpdatesReplaceWhatWasSeen ==
  \A p \in replaced : p[1] = p[2] \/ (origin = "dated" /\ SameSecond(p[1], p[2]))

\* Clients that keep polling converge: when the resource no longer changes,
\* each is in the end shown what it is now, and nothing else any more.
UpToDate(c) ==
  (origin = "feed" => polls[c] * PAGE_SIZE <= count) =>
    shown[c] # Nothing /\ shown[c].body = Represent(polls[c], count)
PollersConverge ==
  (origin # "dated" /\ <>[][UNCHANGED count]_count) => <>[](\A c \in Clients : UpToDate(c))
=============================================================================
