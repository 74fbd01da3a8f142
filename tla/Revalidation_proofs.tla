------------------------ MODULE Revalidation_proofs ------------------------
(***************************************************************************)
(* Revalidation, proved for any clients, page size, clock resolution and   *)
(* bounds: whatever a client is shown was current since it asked, and a    *)
(* guarded update replaces what its author saw.  The invariant says that   *)
(* everything stored, in flight or shown is one version of one target, and *)
(* what a 304 under way is evidence of.  From it, too: what a client reads *)
(* never goes back.  At the end, that DecisionWalk has the same verdicts.  *)
(***************************************************************************)
EXTENDS Revalidation, Integers, FiniteSetTheorems, SequenceTheorems, TLAPS

(***************************************************************************)
(* The resources: what a tag or a date tells about a version.              *)
(***************************************************************************)
\* The head page of a later outbox is no earlier one.
LEMMA HeadPageGrows ==
  ASSUME NEW m \in Nat, NEW n \in Nat, m <= n
  PROVE  HeadPage(m) \in Nat /\ HeadPage(n) \in Nat /\ HeadPage(m) <= HeadPage(n)
  BY PageSizeAssumption, Z3 DEF HeadPage

\* A page below the head page is full.
LEMMA ArchivedIsFull ==
  ASSUME NEW page \in Nat, NEW n \in Nat, Archived(page, n)
  PROVE  Entries(page, n) = PAGE_SIZE
<1> DEFINE head == n \div PAGE_SIZE
<1>1. head \in Nat /\ head * PAGE_SIZE <= n
  BY PageSizeAssumption, Z3
<1>2. page + 1 <= head
  BY <1>1 DEF Archived, HeadPage
<1> HIDE DEF head
<1>3. (page + 1) * PAGE_SIZE <= head * PAGE_SIZE
  BY <1>1, <1>2, PageSizeAssumption, Z3
<1>4. (page + 1) * PAGE_SIZE \in Nat /\ head * PAGE_SIZE \in Nat
  BY <1>1, PageSizeAssumption, Z3
<1> QED BY <1>1, <1>3, <1>4 DEF Entries

\* An archived page is final.
LEMMA ArchivedIsFinal ==
  ASSUME origin = "feed", NEW page \in Nat, NEW m \in Nat, NEW n \in Nat, m <= n, Archived(page, m)
  PROVE  Represent(page, n) = Represent(page, m)
<1>1. Archived(page, n)
  BY HeadPageGrows DEF Archived
<1> QED BY <1>1, ArchivedIsFull DEF Represent

\* Pages are numbers.
LEMMA PagesAreNumbers ==
  ASSUME origin = "feed", NEW t \in Targets
  PROVE  t \in Nat
<1>1. MaxEvents \div PAGE_SIZE \in Nat
  BY PageSizeAssumption, BoundsAssumption, Z3
<1> QED BY <1>1 DEF Targets

\* Two versions with one tag, at one URL, are the same to read.
LEMMA TagTells ==
  ASSUME origin \in Origins \ {"dated"}, NEW t \in Targets, NEW u \in Targets,
         NEW m \in Nat, NEW n \in Nat, origin = "feed" => t = u,
         GenerateEtag(t, m).opaque = GenerateEtag(u, n).opaque
  PROVE  t = u /\ Represent(t, m) = Represent(u, n)
<1>1. CASE origin = "feed"
  <2>1. t \in Nat /\ u = t
    BY <1>1, PagesAreNumbers
  <2>2. Archived(t, m) <=> Archived(t, n)
    <3>1. \A e : Len(<<"feed", t>>) = 2 /\ Len(<<"feed", t, e>>) = 3
      OBVIOUS
    <3> QED BY <1>1, <2>1, <3>1 DEF GenerateEtag, Tag
  <2>3. CASE Archived(t, m)
    BY <1>1, <2>1, <2>2, <2>3, ArchivedIsFull DEF Represent
  <2>4. CASE ~Archived(t, m)
    <3>1. <<"feed", t, Entries(t, m)>> = <<"feed", t, Entries(t, n)>>
      BY <1>1, <2>1, <2>2, <2>4 DEF GenerateEtag, Tag
    <3>2. Entries(t, m) = Entries(t, n)
      BY <3>1
    <3>3. Archived(t, m) = FALSE /\ Archived(t, n) = FALSE
      BY <2>2, <2>4 DEF Archived
    <3> QED BY <1>1, <2>1, <3>2, <3>3 DEF Represent
  <2> QED BY <2>1, <2>3, <2>4
<1>2. CASE origin = "unpoly"
  BY <1>2 DEF GenerateEtag, Tag, Represent, Targets
<1>3. CASE origin = "note"
  BY <1>3 DEF GenerateEtag, Tag, Represent, Targets
<1> QED BY <1>1, <1>2, <1>3 DEF Origins

-----------------------------------------------------------------------------
(***************************************************************************)
(* The invariant.                                                          *)
(***************************************************************************)
\* Versions are dated in their order, none after now.
DatesInv ==
  /\ \A n \in 0..count : LastModified(n) \in 0..clock
  /\ \A m, n \in 0..count : m <= n => LastModified(m) <= LastModified(n)

\* What is shown is one version of what is asked for: body, tag and date.
IsVersion(c, seen, k) ==
  /\ seen.body = Represent(polls[c], k)
  /\ seen.tag = GenerateEtag(polls[c], k)
  /\ seen.date = HttpDate(LastModified(k))

\* It was current when its request was made, or later; a date alone leaves
\* room for a version of the same second.
Fresh(c, seen) ==
  \/ \E n \in seen.from..count : seen.body = Represent(polls[c], n)
  \/ /\ origin = "dated"
     /\ \E m \in 0..seen.from : seen.body = Represent(polls[c], m) /\ SameSecond(m, seen.from)

ShownInv ==
  \A c \in Clients : shown[c] # Nothing =>
    /\ shown[c] = Seen(shown[c], shown[c].from)
    /\ shown[c].from \in 0..count
    /\ \E k \in 0..count : IsVersion(c, shown[c], k)
    /\ Fresh(c, shown[c])

\* An answer is a version that was current since the request was made; to
\* Unpoly, a 304 means the fragment it has.
Answers(c, q) ==
  /\ q.from \in 0..count
  /\ \E n \in q.from..count : q.response = Response(polls[c], n)
  /\ q.status \in {200, 304, 404}
  /\ q.status = 304 /\ Unpoly(c) =>
       shown[c] # Nothing /\ shown[c].tag.opaque = q.response.tag.opaque

Requests(c, q) ==
  /\ q.from \in 0..count
  /\ q.condition.by = "tags" => q.condition.list \subseteq Tags \cup {Stump(t) : t \in Tags}
  /\ Unpoly(c) /\ q.condition.by # "nothing" =>
       /\ shown[c] # Nothing
       /\ q.condition.by = "tags" /\ q.condition.list = {shown[c].tag}

AskedInv ==
  /\ DOMAIN asked = Clients
  /\ \A c \in Clients :
       \/ asked[c] = Idle
       \/ asked[c].stage = "sent" /\ Requests(c, asked[c])
       \/ asked[c].stage = "answered" /\ Answers(c, asked[c])

OriginInv ==
  /\ origin \in Origins
  /\ polls \in [Clients -> Targets]
  /\ count \in 0..Most /\ clock \in 0..MaxClock
  /\ changes \in [1..count -> 0..clock]

StoreInv ==
  /\ store \subseteq Responses
  /\ IsFiniteSet(store) /\ Cardinality(store) <= MaxStored

ReplacedInv == UpdatesReplaceWhatWasSeen /\ replaced \subseteq (0..count) \X (0..count)

CacheInv ==
  /\ DOMAIN shown = Clients
  /\ OriginInv /\ DatesInv /\ StoreInv /\ AskedInv /\ ShownInv /\ ReplacedInv

-----------------------------------------------------------------------------
(***************************************************************************)
(* The origin's steps: nothing that is a version of the past changes.      *)
(***************************************************************************)
\* The bounds are numbers.
LEMMA MostIsNat == Most \in Nat
  BY BoundsAssumption DEF Most

\* Nothing is known at first.
LEMMA InitCache == Init => CacheInv
<1> SUFFICES ASSUME Init PROVE CacheInv
  OBVIOUS
<1>1. OriginInv
  BY MostIsNat, BoundsAssumption DEF Init, OriginInv
<1>2. DatesInv
  BY DEF Init, DatesInv, LastModified
<1>3. StoreInv
  BY FS_EmptySet, BoundsAssumption DEF Init, StoreInv
<1>4. AskedInv
  BY DEF Init, AskedInv
<1>5. ShownInv
  BY DEF Init, ShownInv
<1>6. ReplacedInv
  BY DEF Init, ReplacedInv, UpdatesReplaceWhatWasSeen
<1> QED BY <1>1, <1>2, <1>3, <1>4, <1>5, <1>6 DEF CacheInv, Init

\* A change appends a date and leaves the earlier ones.
LEMMA GrowDates ==
  ASSUME OriginInv, DatesInv, Grow, UNCHANGED <<origin, clock, polls>>
  PROVE  /\ OriginInv' /\ DatesInv'
         /\ \A n \in 0..count : LastModified(n)' = LastModified(n)
         /\ \A t, n : n \in 0..count => Response(t, n)' = Response(t, n)
<1>1. count \in Nat /\ count' = count + 1 /\ count' \in 0..Most /\ clock \in Nat
  BY MostIsNat DEF OriginInv, Grow
<1>2. changes \in Seq(0..clock) /\ Len(changes) = count
  BY <1>1 DEF OriginInv
<1>3. /\ changes' \in [1..count' -> 0..clock]
      /\ \A n \in 1..count : changes'[n] = changes[n]
      /\ changes'[count'] = clock
  <2>1. clock \in 0..clock /\ changes' = Append(changes, clock) /\ count' = Len(changes) + 1
    BY <1>1, <1>2 DEF Grow
  <2>2. changes' \in Seq(0..clock) /\ Len(changes') = count'
    BY <1>2, <2>1
  <2>3. \A n \in 1..Len(changes) : changes'[n] = changes[n]
    BY <1>2, <2>1
  <2>4. changes'[Len(changes) + 1] = clock
    BY <1>2, <2>1
  <2>5. changes' \in [1..count' -> 0..clock]
    BY <2>2, LenProperties
  <2>6. \A n \in 1..count : changes'[n] = changes[n]
    BY <1>2, <2>3
  <2>7. changes'[count'] = clock
    BY <2>1, <2>4
  <2> QED BY <2>5, <2>6, <2>7
<1>4. OriginInv'
  BY <1>1, <1>3 DEF OriginInv, Targets, Most
<1>5. \A n \in 0..count : LastModified(n)' = LastModified(n)
  BY <1>1, <1>3 DEF LastModified
<1>6. LastModified(count)' = clock
  BY <1>1, <1>3 DEF LastModified
<1>7. DatesInv'
  <2>1. \A n \in 0..count' : n \in 0..count \/ n = count'
    BY <1>1
  <2>2. \A n \in 0..count' : LastModified(n)' \in 0..clock
    BY <1>1, <1>5, <1>6, <2>1 DEF DatesInv
  <2>3. ASSUME NEW m \in 0..count', NEW n \in 0..count', m <= n
        PROVE  LastModified(m)' <= LastModified(n)'
    <3>1. CASE n = count'
      BY <1>1, <1>6, <2>2, <3>1
    <3>2. CASE n \in 0..count
      BY <1>1, <1>5, <2>3, <3>2 DEF DatesInv
    <3> QED BY <2>1, <3>1, <3>2
  <2> QED BY <2>2, <2>3 DEF DatesInv
<1>8. \A t, n : n \in 0..count => Response(t, n)' = Response(t, n)
  BY <1>5 DEF Response, GenerateEtag, CacheControl, Represent, HttpDate
<1> QED BY <1>4, <1>5, <1>7, <1>8

\* The past is as it was: every version there was is the version it was.
Past ==
  /\ UNCHANGED <<origin, polls>>
  /\ count' \in Nat /\ count <= count'
  /\ \A n \in 0..count : LastModified(n)' = LastModified(n)

\* What was stored, under way or shown stays what it is when time goes on.
LEMMA PastStays ==
  ASSUME CacheInv, Past, UNCHANGED <<store, asked, shown>>
  PROVE  StoreInv' /\ AskedInv' /\ ShownInv'
<1>1. count \in Nat /\ 0..count \subseteq 0..count'
  BY MostIsNat DEF CacheInv, OriginInv, Past
<1>2. \A t, n : n \in 0..count => Response(t, n)' = Response(t, n)
  BY DEF Past, Response, GenerateEtag, CacheControl, Represent, HttpDate
<1>3. \A t, n : GenerateEtag(t, n)' = GenerateEtag(t, n) /\ Represent(t, n)' = Represent(t, n)
  BY DEF Past, GenerateEtag, Represent
<1>4. Targets' = Targets
  BY DEF Past, Targets
<1>5. Responses \subseteq Responses' /\ Tags \subseteq Tags'
  BY <1>1, <1>2, <1>3, <1>4 DEF Responses, Tags
<1>6. StoreInv'
  BY <1>5 DEF CacheInv, StoreInv
<1>7. AskedInv'
  <2>1. ASSUME NEW c \in Clients, asked[c].stage = "sent", Requests(c, asked[c])
        PROVE  Requests(c, asked[c])'
    BY <1>1, <1>5, <2>1 DEF Requests, Unpoly, Past
  <2>2. ASSUME NEW c \in Clients, asked[c].stage = "answered", Answers(c, asked[c])
        PROVE  Answers(c, asked[c])'
    BY <1>1, <1>2, <2>2 DEF Answers, Unpoly, Past
  <2> QED BY <2>1, <2>2 DEF CacheInv, AskedInv
<1>8. ShownInv'
  <2>1. SUFFICES ASSUME NEW c \in Clients, shown[c] # Nothing
                 PROVE  /\ shown[c] = Seen(shown[c], shown[c].from)
                        /\ shown[c].from \in 0..count'
                        /\ \E k \in 0..count' : IsVersion(c, shown[c], k)'
                        /\ Fresh(c, shown[c])'
    BY DEF ShownInv, Seen
  <2>2. /\ shown[c] = Seen(shown[c], shown[c].from) /\ shown[c].from \in 0..count
        /\ \E k \in 0..count : IsVersion(c, shown[c], k)
        /\ Fresh(c, shown[c])
    BY <2>1 DEF CacheInv, ShownInv
  <2>3. \E k \in 0..count' : IsVersion(c, shown[c], k)'
    BY <1>1, <1>3, <2>2 DEF IsVersion, Past, HttpDate
  <2>4. Fresh(c, shown[c])'
    <3>1. CASE \E n \in shown[c].from..count : shown[c].body = Represent(polls[c], n)
      BY <1>1, <1>3, <2>2, <3>1 DEF Fresh, Past
    <3>2. CASE /\ origin = "dated"
               /\ \E m \in 0..shown[c].from :
                    shown[c].body = Represent(polls[c], m) /\ SameSecond(m, shown[c].from)
      <4>1. PICK m \in 0..shown[c].from :
              shown[c].body = Represent(polls[c], m) /\ SameSecond(m, shown[c].from)
        BY <3>2
      <4>2. SameSecond(m, shown[c].from)'
        BY <1>1, <2>2, <4>1 DEF SameSecond, Past, HttpDate
      <4> QED BY <1>3, <3>2, <4>1, <4>2 DEF Fresh, Past
    <3> QED BY <2>2, <3>1, <3>2 DEF Fresh
  <2> QED BY <1>1, <2>2, <2>3, <2>4
<1> QED BY <1>6, <1>7, <1>8

\* The resource changes.
LEMMA ChangeCache == ASSUME CacheInv, Change PROVE CacheInv'
<1>1. Grow /\ UNCHANGED <<origin, clock, polls, store, asked, shown, replaced>>
  BY DEF Change
<1>2. /\ OriginInv' /\ DatesInv'
      /\ \A n \in 0..count : LastModified(n)' = LastModified(n)
  BY <1>1, GrowDates DEF CacheInv
<1>3. Past
  BY <1>1, <1>2, MostIsNat DEF Past, Grow, CacheInv, OriginInv
<1>4. StoreInv' /\ AskedInv' /\ ShownInv'
  BY <1>1, <1>3, PastStays
<1>5. ReplacedInv'
  BY <1>1, <1>2, <1>3, MostIsNat
     DEF CacheInv, OriginInv, ReplacedInv, UpdatesReplaceWhatWasSeen, SameSecond, HttpDate, Past
<1> QED BY <1>1, <1>2, <1>4, <1>5 DEF CacheInv

\* Time passes.
LEMMA TickCache == ASSUME CacheInv, Tick PROVE CacheInv'
<1>1. clock' = clock + 1 /\ clock' \in 0..MaxClock /\ clock \in Nat /\ count \in Nat
  BY MostIsNat, BoundsAssumption DEF CacheInv, OriginInv, Tick
<1>2. UNCHANGED <<origin, count, changes, polls, store, asked, shown, replaced>>
  BY DEF Tick
<1>3. \A n : LastModified(n)' = LastModified(n)
  BY <1>2 DEF LastModified
<1>4. OriginInv'
  <2>1. 0..clock \subseteq 0..clock'
    BY <1>1
  <2>2. changes \in [1..count -> 0..clock']
    BY <2>1 DEF CacheInv, OriginInv
  <2> QED BY <1>1, <1>2, <2>2 DEF CacheInv, OriginInv, Targets, Most
<1>5. DatesInv'
  BY <1>1, <1>2, <1>3 DEF CacheInv, DatesInv
<1>6. StoreInv' /\ AskedInv' /\ ShownInv'
  BY <1>1, <1>2, <1>3, PastStays DEF Past
<1>7. ReplacedInv'
  BY <1>2, <1>3 DEF CacheInv, ReplacedInv, UpdatesReplaceWhatWasSeen, SameSecond, HttpDate
<1> QED BY <1>2, <1>4, <1>5, <1>6, <1>7 DEF CacheInv

-----------------------------------------------------------------------------
(***************************************************************************)
(* The steps of the origin's answers, the cache and the clients.           *)
(***************************************************************************)
\* What stands when only requests change.
LEMMA OnlyAsked ==
  ASSUME CacheInv, UNCHANGED <<server, polls, store, shown, replaced>>, AskedInv'
  PROVE  CacheInv'
<1>1. UNCHANGED <<origin, count, clock, changes>>
  BY DEF server
<1>2. /\ \A n : LastModified(n)' = LastModified(n)
      /\ \A t, n : Represent(t, n)' = Represent(t, n) /\ GenerateEtag(t, n)' = GenerateEtag(t, n)
      /\ \A t, n : Response(t, n)' = Response(t, n)
      /\ \A m, n : SameSecond(m, n)' = SameSecond(m, n)
  BY <1>1 DEF LastModified, Response, Represent, GenerateEtag, CacheControl, HttpDate, SameSecond
<1>3. OriginInv'
  BY <1>1 DEF CacheInv, OriginInv, Targets, Most
<1>4. DatesInv'
  BY <1>1, <1>2 DEF CacheInv, DatesInv
<1>5. StoreInv'
  BY <1>1, <1>2 DEF CacheInv, StoreInv, Responses, Targets
<1>6. ReplacedInv'
  BY <1>1, <1>2 DEF CacheInv, ReplacedInv, UpdatesReplaceWhatWasSeen
<1>7. ShownInv'
  BY <1>1, <1>2 DEF CacheInv, ShownInv, Seen, IsVersion, Fresh, HttpDate
<1> QED BY <1>3, <1>4, <1>5, <1>6, <1>7 DEF CacheInv

\* A client's request may become another one that is as sound.
LEMMA OneAsked ==
  ASSUME CacheInv, UNCHANGED <<server, polls, store, shown, replaced>>,
         NEW c \in Clients, NEW q, asked' = [asked EXCEPT ![c] = q],
         \/ q = Idle
         \/ q.stage = "sent" /\ Requests(c, q)
         \/ q.stage = "answered" /\ Answers(c, q)
  PROVE  CacheInv'
<1>1. \A t, n : Response(t, n)' = Response(t, n)
  BY DEF server, Response, GenerateEtag, CacheControl, Represent, HttpDate, LastModified
<1>2. Tags' = Tags
  BY DEF server, Tags, GenerateEtag, Targets
<1>3. \A d \in Clients : \A r : /\ Requests(d, r) => Requests(d, r)'
                                /\ Answers(d, r) => Answers(d, r)'
  BY <1>1, <1>2 DEF server, Requests, Answers, Unpoly
<1>4. AskedInv'
  <2>1. \A d \in Clients : asked'[d] = IF d = c THEN q ELSE asked[d]
    BY DEF CacheInv, AskedInv
  <2>2. DOMAIN asked' = Clients
    BY DEF CacheInv, AskedInv
  <2>3. ASSUME NEW d \in Clients
        PROVE  \/ asked'[d] = Idle
               \/ asked'[d].stage = "sent" /\ Requests(d, asked'[d])
               \/ asked'[d].stage = "answered" /\ Answers(d, asked'[d])
    BY <2>1 DEF CacheInv, AskedInv
  <2>4. \A d \in Clients : /\ Requests(d, asked'[d]) => Requests(d, asked[d])'
                           /\ Answers(d, asked'[d]) => Answers(d, asked[d])'
    BY <1>1, <1>2 DEF server, Requests, Answers, Unpoly
  <2> QED BY <2>2, <2>3, <2>4 DEF AskedInv
<1> QED BY <1>4, OnlyAsked

\* An answer is the current version; a 304 to Unpoly names its fragment's tag.
LEMMA ServeCache == ASSUME CacheInv, NEW c \in Clients, Serve(c) PROVE CacheInv'
<1> DEFINE request == asked[c]
           status  == StatusOf(polls[c], request.condition)
           answer  == Answered(request, status, Response(polls[c], count))
<1>1. asked' = [asked EXCEPT ![c] = answer]
  BY DEF Serve, CacheInv, AskedInv
<1>2. request.stage = "sent" /\ Requests(c, request)
  BY DEF Serve, CacheInv, AskedInv, Idle, Answers
<1>3. count \in Nat
  BY MostIsNat DEF CacheInv, OriginInv
<1>4. status \in {200, 304, 404}
  BY DEF StatusOf
<1>5. ASSUME status = 304, Unpoly(c)
      PROVE  shown[c] # Nothing /\ shown[c].tag.opaque = GenerateEtag(polls[c], count).opaque
  <2>1. NotModified(polls[c], request.condition)
    BY <1>5 DEF StatusOf
  <2>2. request.condition.by # "nothing"
    BY <2>1 DEF NotModified
  <2>3. shown[c] # Nothing /\ request.condition.by = "tags" /\ request.condition.list = {shown[c].tag}
    BY <1>2, <1>5, <2>2 DEF Requests
  <2> QED BY <2>1, <2>3 DEF NotModified, IfNoneMatchMatches
<1>6. Answers(c, answer) /\ answer.stage = "answered"
  <2>1. /\ answer.stage = "answered" /\ answer.from = request.from /\ answer.status = status
        /\ answer.response = Response(polls[c], count)
    BY DEF Answered
  <2>2. answer.response.tag = GenerateEtag(polls[c], count)
    BY <2>1 DEF Response
  <2>3. count \in request.from..count /\ request.from \in 0..count
    BY <1>2, <1>3 DEF Requests
  <2> HIDE DEF answer, status, request
  <2> QED BY <1>4, <1>5, <2>1, <2>2, <2>3 DEF Answers
<1> HIDE DEF answer
<1> QED BY <1>1, <1>6, OneAsked DEF Serve

\* A request starts now, and Unpoly's names the fragment it has.
LEMMA AskCache == ASSUME CacheInv, NEW c \in Clients, Ask(c) PROVE CacheInv'
<1>1. PICK condition \in Conditions(c) : asked' = [asked EXCEPT ![c] = Sent(condition)]
  BY DEF Ask
<1>2. count \in Nat
  BY MostIsNat DEF CacheInv, OriginInv
<1>3. condition.by = "tags" => condition.list \subseteq Tags \cup {Stump(t) : t \in Tags}
  <2>1. CASE Unpoly(c)
    <3>1. shown[c] # Nothing => shown[c].tag \in Tags
      BY DEF CacheInv, OriginInv, ShownInv, IsVersion, Tags
    <3> QED BY <1>1, <2>1, <3>1 DEF Conditions, Unconditional, IfNoneMatch
  <2>2. CASE ~Unpoly(c)
    <3> DEFINE tags == {r.tag : r \in Stored(polls[c])} \ {NoTag}
    <3>1. tags \subseteq Tags
      BY DEF CacheInv, StoreInv, Stored, Responses, Response, Tags
    <3>2. \A list \in Scans(tags) : list \subseteq tags \cup {Stump(t) : t \in tags}
      BY DEF Scans
    <3>3. condition = Unconditional \/ (\E list \in Scans(tags) : condition = IfNoneMatch(list))
            \/ (\E r \in Stored(polls[c]) : condition = IfModifiedSince(r.date))
      BY <1>1, <2>2 DEF Conditions, Shared
    <3> HIDE DEF tags
    <3>4. CASE \E list \in Scans(tags) : condition = IfNoneMatch(list)
      BY <3>1, <3>2, <3>4 DEF IfNoneMatch
    <3> QED BY <3>3, <3>4 DEF Unconditional, IfModifiedSince
  <2> QED BY <2>1, <2>2
<1>4. Unpoly(c) /\ condition.by # "nothing" =>
        shown[c] # Nothing /\ condition.by = "tags" /\ condition.list = {shown[c].tag}
  BY <1>1 DEF Conditions, Unconditional, IfNoneMatch
<1>5. Sent(condition).stage = "sent" /\ Requests(c, Sent(condition))
  BY <1>2, <1>3, <1>4 DEF Sent, Requests
<1> QED BY <1>1, <1>5, OneAsked DEF Ask

\* A plain request asks for nothing to be validated.
LEMMA RetryCache == ASSUME CacheInv, NEW c \in Clients, Retry(c) PROVE CacheInv'
<1>1. count \in Nat
  BY MostIsNat DEF CacheInv, OriginInv
<1>2. Sent(Unconditional).stage = "sent" /\ Requests(c, Sent(Unconditional))
  BY <1>1 DEF Sent, Requests, Unconditional
<1>3. /\ UNCHANGED <<server, polls, store, shown, replaced>>
      /\ asked' = [asked EXCEPT ![c] = Sent(Unconditional)]
  BY DEF Retry
<1> QED BY <1>2, <1>3, OneAsked

\* Nothing is there yet.
LEMMA TakeNoneCache == ASSUME CacheInv, NEW c \in Clients, TakeNone(c) PROVE CacheInv'
  BY OneAsked DEF TakeNone

\* A client may be shown a version that is fresh; its request is then over.
LEMMA OneShown ==
  ASSUME CacheInv, UNCHANGED <<server, polls, replaced>>, StoreInv',
         NEW c \in Clients, NEW seen,
         shown' = [shown EXCEPT ![c] = seen], DOMAIN asked' = Clients,
         \A d \in Clients : asked'[d] = IF d = c THEN Idle ELSE asked[d],
         seen = Seen(seen, seen.from), seen.from \in 0..count, Fresh(c, seen),
         NEW k \in 0..count, IsVersion(c, seen, k)
  PROVE  CacheInv'
<1>1. UNCHANGED <<origin, count, clock, changes, polls>>
  BY DEF server
<1>2. /\ \A n : LastModified(n)' = LastModified(n)
      /\ \A t, n : Represent(t, n)' = Represent(t, n) /\ GenerateEtag(t, n)' = GenerateEtag(t, n)
      /\ \A t, n : Response(t, n)' = Response(t, n)
      /\ \A m, n : SameSecond(m, n)' = SameSecond(m, n)
  BY <1>1 DEF LastModified, Response, Represent, GenerateEtag, CacheControl, HttpDate, SameSecond
<1>3. OriginInv'
  BY <1>1 DEF CacheInv, OriginInv, Targets, Most
<1>4. DatesInv'
  BY <1>1, <1>2 DEF CacheInv, DatesInv
<1>5. ReplacedInv'
  BY <1>1, <1>2 DEF CacheInv, ReplacedInv, UpdatesReplaceWhatWasSeen
<1>6. \A d \in Clients : shown'[d] = IF d = c THEN seen ELSE shown[d]
  BY DEF CacheInv
<1>7. \A d \in Clients : asked'[d] = IF d = c THEN Idle ELSE asked[d]
  OBVIOUS
<1>8. ShownInv'
  <2>1. ASSUME NEW d \in Clients, shown'[d] # Nothing
        PROVE  /\ shown'[d] = Seen(shown'[d], shown'[d].from)
               /\ shown'[d].from \in 0..count
               /\ \E n \in 0..count : IsVersion(d, shown'[d], n)
               /\ Fresh(d, shown'[d])
    BY <1>6, <2>1 DEF CacheInv, ShownInv
  <2>2. \A d \in Clients : Fresh(d, shown'[d]) => Fresh(d, shown[d])'
    BY <1>1, <1>2 DEF Fresh
  <2>3. \A d \in Clients : \A n : IsVersion(d, shown'[d], n) => IsVersion(d, shown[d], n)'
    BY <1>1, <1>2 DEF IsVersion, HttpDate
  <2> QED BY <1>1, <2>1, <2>2, <2>3 DEF ShownInv, Seen
<1>9. AskedInv'
  <2>1. DOMAIN asked' = Clients
    OBVIOUS
  <2>2. Tags' = Tags
    BY <1>1, <1>2 DEF Tags, Targets
  <2>3. ASSUME NEW d \in Clients, d # c
        PROVE  /\ Requests(d, asked[d]) => Requests(d, asked[d])'
               /\ Answers(d, asked[d]) => Answers(d, asked[d])'
    BY <1>1, <1>2, <1>6, <1>7, <2>2, <2>3 DEF Requests, Answers, Unpoly
  <2> QED BY <1>7, <2>1, <2>3 DEF CacheInv, AskedInv
<1>10. DOMAIN shown' = Clients
  BY DEF CacheInv
<1> QED BY <1>3, <1>4, <1>5, <1>8, <1>9, <1>10 DEF CacheInv

\* What is immutable is what the page is now, and ever will be.
LEMMA ReuseCache == ASSUME CacheInv, NEW c \in Clients, Reuse(c) PROVE CacheInv'
<1>1. PICK r \in store : r.of = polls[c] /\ r.cc = "immutable" /\ Show(c, r, count)
  BY DEF Reuse
<1>2. PICK t \in Targets, m \in 0..count : r = Response(t, m)
  BY DEF CacheInv, StoreInv, Responses
<1>3. t = polls[c] /\ origin = "feed" /\ Archived(t, m)
  BY <1>1, <1>2 DEF Response, CacheControl
<1>4. count \in Nat /\ m \in Nat /\ m <= count /\ t \in Nat
  BY <1>3, MostIsNat, PagesAreNumbers DEF CacheInv, OriginInv
<1>5. Represent(t, count) = Represent(t, m)
  BY <1>3, <1>4, ArchivedIsFinal
<1> DEFINE seen == Seen(r, count)
<1>6. /\ seen.body = Represent(t, m) /\ seen.tag = GenerateEtag(t, m)
      /\ seen.date = HttpDate(LastModified(m)) /\ seen.from = count
      /\ seen = Seen(seen, seen.from)
  BY <1>2 DEF Seen, Response
<1>7. shown' = [shown EXCEPT ![c] = seen]
  BY <1>1 DEF Show
<1>8. DOMAIN asked' = Clients /\ \A d \in Clients : asked'[d] = IF d = c THEN Idle ELSE asked[d]
  <2>1. asked[c] = Idle
    BY DEF Reuse, CacheInv, AskedInv
  <2>2. asked' = asked
    BY DEF Reuse
  <2> QED BY <2>1, <2>2 DEF CacheInv, AskedInv
<1>9. StoreInv' /\ UNCHANGED <<server, polls, replaced>>
  <2>1. UNCHANGED <<server, polls, store, replaced>>
    BY DEF Reuse
  <2>2. Responses' = Responses
    BY <2>1 DEF server, Responses, Response, Targets, GenerateEtag, CacheControl, Represent, HttpDate,
               LastModified
  <2> QED BY <2>1, <2>2 DEF CacheInv, StoreInv
<1> HIDE DEF seen
<1>10. Fresh(c, seen) /\ IsVersion(c, seen, m) /\ seen.from \in 0..count
  BY <1>3, <1>4, <1>5, <1>6 DEF Fresh, IsVersion
<1> QED BY <1>4, <1>6, <1>7, <1>8, <1>9, <1>10, OneShown

\* A new response is a version that was current since it was asked for.
LEMMA TakeNewCache == ASSUME CacheInv, NEW c \in Clients, TakeNew(c) PROVE CacheInv'
<1> DEFINE q == asked[c]
           seen == Seen(q.response, q.from)
<1>1. q.stage = "answered" /\ Answers(c, q)
  BY DEF TakeNew, CacheInv, AskedInv, Idle
<1>2. PICK n \in q.from..count : q.response = Response(polls[c], n)
  BY <1>1 DEF Answers
<1>3. count \in Nat /\ q.from \in 0..count /\ n \in 0..count /\ polls[c] \in Targets
  BY <1>1, MostIsNat DEF CacheInv, OriginInv, Answers
<1>4. /\ seen.body = Represent(polls[c], n) /\ seen.tag = GenerateEtag(polls[c], n)
      /\ seen.date = HttpDate(LastModified(n)) /\ seen.from = q.from
      /\ seen = Seen(seen, seen.from)
  BY <1>2 DEF Seen, Response
<1>5. /\ shown' = [shown EXCEPT ![c] = seen]
      /\ DOMAIN asked' = Clients /\ \A d \in Clients : asked'[d] = IF d = c THEN Idle ELSE asked[d]
      /\ UNCHANGED <<server, polls, replaced>>
  BY DEF TakeNew, Show, CacheInv, AskedInv
<1>6. StoreInv'
  <2>1. PICK kept \in SUBSET {r \in store : r.tag # NoTag} :
          Cardinality(kept) < MaxStored /\ store' = kept \cup {q.response}
    BY DEF TakeNew
  <2>2. IsFiniteSet(kept) /\ Cardinality(kept) \in Nat
    BY <2>1, FS_Subset, FS_CardinalityType DEF CacheInv, StoreInv
  <2>3. IsFiniteSet(store') /\ Cardinality(store') <= MaxStored
    <3>1. /\ IsFiniteSet(kept \cup {q.response})
          /\ \/ Cardinality(kept \cup {q.response}) = Cardinality(kept)
             \/ Cardinality(kept \cup {q.response}) = Cardinality(kept) + 1
      BY <2>2, FS_AddElement
    <3> QED BY <2>1, <2>2, <3>1, BoundsAssumption
  <2>4. q.response \in Responses
    BY <1>2, <1>3 DEF Responses
  <2>5. Responses' = Responses
    BY <1>5 DEF server, Responses, Response, Targets, GenerateEtag, CacheControl, Represent, HttpDate,
               LastModified
  <2> QED BY <2>1, <2>3, <2>4, <2>5 DEF CacheInv, StoreInv
<1> HIDE DEF seen, q
<1>7. Fresh(c, seen) /\ IsVersion(c, seen, n) /\ seen.from \in 0..count
  BY <1>2, <1>3, <1>4 DEF Fresh, IsVersion
<1> QED BY <1>3, <1>4, <1>5, <1>6, <1>7, OneShown

\* By date alone: the version a 304 selects is fresh, or of the same second.
LEMMA SameDateIsFresh ==
  ASSUME CacheInv, origin = "dated", NEW c \in Clients, NEW seen, NEW m \in 0..count,
         seen.from \in 0..count, NEW n \in seen.from..count,
         seen.body = Represent(polls[c], m),
         HttpDate(LastModified(m)) = HttpDate(LastModified(n))
  PROVE  Fresh(c, seen)
<1>1. count \in Nat
  BY MostIsNat DEF CacheInv, OriginInv
<1>2. CASE seen.from <= m
  BY <1>1, <1>2 DEF Fresh
<1>3. CASE m < seen.from
  <2>1. /\ LastModified(m) \in Nat /\ LastModified(seen.from) \in Nat /\ LastModified(n) \in Nat
        /\ LastModified(m) <= LastModified(seen.from) /\ LastModified(seen.from) <= LastModified(n)
    BY <1>1, <1>3 DEF CacheInv, DatesInv
  <2>2. \A i, j \in Nat : i <= j => i \div SECOND \in Nat /\ i \div SECOND <= j \div SECOND
    BY SecondAssumption, Z3
  <2>3. /\ HttpDate(LastModified(m)) <= HttpDate(LastModified(seen.from))
        /\ HttpDate(LastModified(seen.from)) <= HttpDate(LastModified(n))
        /\ HttpDate(LastModified(seen.from)) \in Nat /\ HttpDate(LastModified(n)) \in Nat
    BY <2>1, <2>2 DEF HttpDate
  <2>4. SameSecond(m, seen.from)
    BY <2>3 DEF SameSecond
  <2> QED BY <1>1, <1>3, <2>4 DEF Fresh
<1> QED BY <1>1, <1>2, <1>3

\* What a 304 selects is a version that was current since it was asked for.
LEMMA TakeOldCache == ASSUME CacheInv, NEW c \in Clients, TakeOld(c) PROVE CacheInv'
<1> DEFINE q == asked[c]
<1>1. q.stage = "answered" /\ Answers(c, q) /\ q.status = 304
  BY DEF TakeOld, CacheInv, AskedInv, Idle
<1>2. PICK n \in q.from..count : q.response = Response(polls[c], n)
  BY <1>1 DEF Answers
<1>3. /\ count \in Nat /\ q.from \in 0..count /\ n \in 0..count /\ polls[c] \in Targets
      /\ origin \in Origins
  BY <1>1, MostIsNat DEF CacheInv, OriginInv, Answers
<1>4. PICK seen \in Validated(c, q.response) : shown' = [shown EXCEPT ![c] = seen]
  BY DEF TakeOld
<1>5. /\ DOMAIN asked' = Clients /\ \A d \in Clients : asked'[d] = IF d = c THEN Idle ELSE asked[d]
      /\ UNCHANGED <<server, polls, replaced>>
  BY DEF TakeOld, CacheInv, AskedInv
<1>6. StoreInv'
  <2>1. Responses' = Responses
    BY <1>5 DEF server, Responses, Response, Targets, GenerateEtag, CacheControl, Represent, HttpDate,
               LastModified
  <2> QED BY <2>1 DEF TakeOld, CacheInv, StoreInv
<1>7. /\ q.response.of = polls[c] /\ q.response.tag = GenerateEtag(polls[c], n)
      /\ q.response.date = HttpDate(LastModified(n))
  BY <1>2 DEF Response
<1> HIDE DEF q
<1>8. /\ seen = Seen(seen, seen.from) /\ seen.from = q.from
      /\ \E k \in 0..count : IsVersion(c, seen, k)
      /\ Fresh(c, seen)
  <2>1. CASE Unpoly(c)
    <3>1. seen = [shown[c] EXCEPT !.from = q.from]
      BY <1>4, <2>1 DEF Validated, q
    <3>2. shown[c] # Nothing /\ shown[c].tag.opaque = GenerateEtag(polls[c], n).opaque
      BY <1>1, <1>7, <2>1 DEF Answers
    <3>3. shown[c] = Seen(shown[c], shown[c].from)
      BY <3>2 DEF CacheInv, ShownInv
    <3>4. PICK k \in 0..count : IsVersion(c, shown[c], k)
      BY <3>2 DEF CacheInv, ShownInv
    <3>5. /\ seen = Seen(seen, seen.from) /\ seen.from = q.from /\ seen.body = shown[c].body
          /\ seen.tag = shown[c].tag /\ seen.date = shown[c].date
      BY <3>1, <3>3 DEF Seen
    <3>6. Represent(polls[c], k) = Represent(polls[c], n)
      BY <1>3, <2>1, <3>2, <3>4, TagTells DEF IsVersion, Unpoly, Origins
    <3> QED BY <1>2, <1>3, <3>4, <3>5, <3>6 DEF IsVersion, Fresh
  <2>2. CASE ~Unpoly(c)
    <3>1. PICK r \in store : /\ SameURL(r, q.response.of) /\ r.tag = q.response.tag
                             /\ r.date = q.response.date /\ seen = Seen(r, q.from)
      BY <1>4, <2>2 DEF Validated, q
    <3>2. PICK t \in Targets, m \in 0..count : r = Response(t, m)
      BY DEF CacheInv, StoreInv, Responses
    <3>3. /\ r.of = t /\ r.tag = GenerateEtag(t, m) /\ r.date = HttpDate(LastModified(m))
          /\ r.body = Represent(t, m)
      BY <3>2 DEF Response
    <3>4. /\ seen = Seen(seen, seen.from) /\ seen.from = q.from /\ seen.body = r.body
          /\ seen.tag = r.tag /\ seen.date = r.date
      BY <3>1 DEF Seen
    <3>5. CASE origin # "dated"
      <4>1. t = polls[c] /\ Represent(t, m) = Represent(polls[c], n)
        <5>1. m \in Nat /\ n \in Nat /\ origin \in Origins \ {"dated"}
          BY <1>3, <3>5
        <5>2. GenerateEtag(t, m).opaque = GenerateEtag(polls[c], n).opaque
          BY <1>7, <3>1, <3>3
        <5>3. origin = "feed" => t = polls[c]
          BY <1>7, <3>1, <3>3 DEF SameURL
        <5> QED BY <1>3, <5>1, <5>2, <5>3, TagTells
      <4> QED BY <1>2, <1>3, <3>3, <3>4, <4>1 DEF IsVersion, Fresh
    <3>6. CASE origin = "dated"
      <4>1. t = polls[c]
        BY <1>3, <3>6 DEF Targets
      <4>2. IsVersion(c, seen, m)
        BY <3>3, <3>4, <4>1 DEF IsVersion
      <4>3. HttpDate(LastModified(m)) = HttpDate(LastModified(n))
        BY <1>7, <3>1, <3>3
      <4> QED BY <1>2, <1>3, <3>3, <3>4, <3>6, <4>1, <4>2, <4>3, SameDateIsFresh
    <3> QED BY <3>5, <3>6
  <2> QED BY <2>1, <2>2
<1> QED BY <1>3, <1>4, <1>5, <1>6, <1>8, OneShown

\* A guarded update finds what its author saw, or its second.
LEMMA UpdateCache == ASSUME CacheInv, NEW c \in Clients, Update(c) PROVE CacheInv'
<1>1. /\ Grow /\ UNCHANGED <<origin, clock, polls, store, asked, shown>>
      /\ Dated /\ shown[c] # Nothing /\ ~UpdateRefused(shown[c])
      /\ replaced' = replaced \cup {<<shown[c].body.entries, count>>}
  BY DEF Update
<1>2. /\ OriginInv' /\ DatesInv'
      /\ \A n \in 0..count : LastModified(n)' = LastModified(n)
  BY <1>1, GrowDates DEF CacheInv
<1>3. count \in Nat /\ Past
  BY <1>1, <1>2, MostIsNat DEF Past, Grow, CacheInv, OriginInv
<1>4. StoreInv' /\ AskedInv' /\ ShownInv'
  BY <1>1, <1>3, PastStays
<1>5. PICK k \in 0..count : IsVersion(c, shown[c], k)
  BY <1>1 DEF CacheInv, ShownInv
<1>6. polls[c] = "resource" /\ shown[c].body.entries = k
  BY <1>1, <1>5 DEF CacheInv, OriginInv, Dated, Targets, IsVersion, Represent
<1>7. k = count \/ (origin = "dated" /\ SameSecond(k, count))
  <2>1. CASE origin = "note"
    BY <1>1, <1>5, <1>6, <2>1 DEF UpdateRefused, IfMatchMatches, IsVersion, GenerateEtag, Tag, NoTag
  <2>2. CASE origin = "dated"
    <3>1. ~ (HttpDate(LastModified(count)) > HttpDate(LastModified(k)))
      BY <1>1, <1>5, <2>2 DEF UpdateRefused, IsVersion, GenerateEtag, ModifiedSince
    <3>2. LastModified(k) \in Nat /\ LastModified(count) \in Nat /\ LastModified(k) <= LastModified(count)
      BY <1>3 DEF CacheInv, DatesInv
    <3>3. \A i, j \in Nat : i <= j => /\ i \div SECOND \in Nat /\ j \div SECOND \in Nat
                                     /\ i \div SECOND <= j \div SECOND
      BY SecondAssumption, Z3
    <3> QED BY <2>2, <3>1, <3>2, <3>3 DEF SameSecond, HttpDate
  <2> QED BY <1>1, <2>1, <2>2 DEF Dated
<1>8. ReplacedInv'
  <2>1. \A m, n \in 0..count : SameSecond(m, n) => SameSecond(m, n)'
    BY <1>2 DEF SameSecond, HttpDate
  <2>2. \A p \in replaced' : p \in (0..count) \X (0..count)
    BY <1>1, <1>3, <1>6 DEF CacheInv, ReplacedInv
  <2>3. \A p \in replaced' : p[1] = p[2] \/ (origin = "dated" /\ SameSecond(p[1], p[2]))
    BY <1>1, <1>6, <1>7 DEF CacheInv, ReplacedInv, UpdatesReplaceWhatWasSeen
  <2>4. 0..count \subseteq 0..count'
    BY <1>3 DEF Past
  <2> QED BY <1>1, <2>1, <2>2, <2>3, <2>4 DEF ReplacedInv, UpdatesReplaceWhatWasSeen
<1> QED BY <1>1, <1>2, <1>4, <1>8 DEF CacheInv

-----------------------------------------------------------------------------
(***************************************************************************)
(* The theorems.                                                           *)
(***************************************************************************)
\* Every behaviour keeps the invariant, for any clients and bounds.
THEOREM CacheInductive == Spec => []CacheInv
<1>1. ASSUME CacheInv, [Next]_vars PROVE CacheInv'
  <2>1. CASE Change
    BY <1>1, <2>1, ChangeCache
  <2>2. CASE Tick
    BY <1>1, <2>2, TickCache
  <2>3. ASSUME NEW c \in Clients, ClientStep(c) PROVE CacheInv'
    BY <1>1, <2>3, ServeCache, ReuseCache, AskCache, TakeNewCache, TakeOldCache, RetryCache,
       TakeNoneCache DEF ClientStep
  <2>4. ASSUME NEW c \in Clients, Update(c) PROVE CacheInv'
    BY <1>1, <2>4, UpdateCache
  <2>5. CASE UNCHANGED vars
    <3>1. UNCHANGED <<server, polls, store, asked, shown, replaced>>
      BY <2>5 DEF vars
    <3>2. Tags' = Tags /\ \A t, n : Response(t, n)' = Response(t, n)
      BY <3>1 DEF server, Tags, Response, GenerateEtag, CacheControl, Represent, HttpDate, LastModified,
                 Targets
    <3>3. AskedInv'
      BY <1>1, <3>1, <3>2 DEF server, CacheInv, AskedInv, Requests, Answers, Unpoly
    <3> QED BY <1>1, <3>1, <3>3, OnlyAsked
  <2> QED BY <1>1, <2>1, <2>2, <2>3, <2>4, <2>5 DEF Next
<1> QED BY InitCache, <1>1, PTL DEF Spec

\* What a client is shown was current at some time since it asked.
THEOREM ShownWasCurrent == Spec => []ShownIsCurrent
<1>1. CacheInv => ShownIsCurrent
  BY DEF CacheInv, ShownInv, Fresh, ShownIsCurrent
<1> QED BY <1>1, CacheInductive, PTL

\* A guarded update replaces the version its author was shown.
THEOREM NoUpdateIsBlind == Spec => []UpdatesReplaceWhatWasSeen
<1>1. CacheInv => UpdatesReplaceWhatWasSeen
  BY DEF CacheInv, ReplacedInv
<1> QED BY <1>1, CacheInductive, PTL

\* The variables keep their types.
THEOREM CacheTypeCorrect == Spec => []TypeOK
<1>1. ASSUME CacheInv PROVE TypeOK
  <2>1. ASSUME NEW c \in Clients PROVE RequestTyped(asked[c])
    BY <1>1 DEF CacheInv, AskedInv, Requests, Answers, RequestTyped, Responses, OriginInv
  <2>2. ASSUME NEW c \in Clients, shown[c] # Nothing
        PROVE  shown[c].body \in {r.body : r \in Responses}
    <3>1. PICK k \in 0..count : IsVersion(c, shown[c], k)
      BY <1>1, <2>2 DEF CacheInv, ShownInv
    <3>2. Response(polls[c], k) \in Responses /\ Response(polls[c], k).body = shown[c].body
      BY <1>1, <3>1 DEF CacheInv, OriginInv, IsVersion, Responses, Response
    <3> QED BY <3>2
  <2> QED BY <1>1, <2>1, <2>2 DEF TypeOK, CacheInv, OriginInv, StoreInv, ReplacedInv
<1> QED BY <1>1, CacheInductive, PTL

-----------------------------------------------------------------------------
(***************************************************************************)
(* Monotonic reads, through a cache other clients share and responses that *)
(* overtake one another: what a client has been shown was there when it    *)
(* asked again, so nothing it is shown next is older.                      *)
(***************************************************************************)
\* Whatever a client is shown next is no older; by date alone, of no earlier
\* second.
ReadsAdvance ==
  [][\A c \in Clients : shown[c] # Nothing /\ shown'[c] # shown[c] =>
       IF origin = "dated" THEN shown[c].date <= shown'[c].date
       ELSE shown[c].body.entries <= shown'[c].body.entries]_vars

\* What a client has been shown was there when it made its request.
ReadsInv ==
  \A c \in Clients : shown[c] # Nothing /\ asked[c] # Idle =>
    \E k \in 0..asked[c].from : IsVersion(c, shown[c], k)

\* A page, a list or a resource only grows.
LEMMA VersionsGrow ==
  ASSUME origin \in Origins, NEW t \in Targets, NEW m \in Nat, NEW n \in Nat, m <= n
  PROVE  Represent(t, m).entries <= Represent(t, n).entries
<1>1. CASE origin = "feed"
  <2> DEFINE first == t * PAGE_SIZE
  <2>1. t \in Nat /\ PAGE_SIZE \in Nat
    BY <1>1, PagesAreNumbers, PageSizeAssumption
  <2>2. first \in Nat /\ (t + 1) * PAGE_SIZE = first + PAGE_SIZE
    BY <2>1, Z3
  <2> HIDE DEF first
  <2>3. /\ Entries(t, m) = IF m >= first + PAGE_SIZE THEN PAGE_SIZE
                           ELSE IF m >= first THEN m - first ELSE 0
        /\ Entries(t, n) = IF n >= first + PAGE_SIZE THEN PAGE_SIZE
                           ELSE IF n >= first THEN n - first ELSE 0
    BY <2>2 DEF Entries, first
  <2>4. Entries(t, m) <= Entries(t, n)
    BY <2>1, <2>2, <2>3
  <2> QED BY <1>1, <2>4 DEF Represent
<1>2. CASE origin # "feed"
  BY <1>2 DEF Represent
<1> QED BY <1>1, <1>2

\* Later versions have later dates, to the second.
LEMMA DatesGrow ==
  ASSUME CacheInv, NEW m \in 0..count, NEW n \in 0..count, m <= n
  PROVE  HttpDate(LastModified(m)) <= HttpDate(LastModified(n))
<1>1. LastModified(m) \in Nat /\ LastModified(n) \in Nat /\ LastModified(m) <= LastModified(n)
  BY DEF CacheInv, DatesInv
<1>2. \A i, j \in Nat : i <= j => i \div SECOND <= j \div SECOND
  BY SecondAssumption, Z3
<1> QED BY <1>1, <1>2 DEF HttpDate

\* What a step of a client does to its request, and to what it is shown.
Moves(c) ==
  \/ /\ shown'[c] = shown[c]
     /\ \/ asked'[c] \in {asked[c], Idle}
        \/ asked'[c].from = count
        \/ asked[c] # Idle /\ asked'[c].from = asked[c].from
  \/ /\ asked'[c] = Idle
     /\ shown'[c] # Nothing
     /\ shown'[c].from = IF asked[c] = Idle THEN count ELSE asked[c].from

\* Something that is shown is not nothing.
LEMMA SeenIsSome == \A r, f : Seen(r, f).from = f /\ Seen(r, f) # Nothing
<1> SUFFICES ASSUME NEW r, NEW f PROVE Seen(r, f).from = f /\ Seen(r, f) # Nothing
  OBVIOUS
<1>1. "from" \in DOMAIN Seen(r, f) /\ Seen(r, f).from = f
  BY DEF Seen
<1>2. DOMAIN Nothing = {"body"}
  BY DEF Nothing
<1> QED BY <1>1, <1>2

\* A client asks as of now, and is shown what its request brought.
LEMMA ClientMoves ==
  ASSUME CacheInv, NEW c \in Clients, ClientStep(c)
  PROVE  /\ Moves(c)
         /\ \A d \in Clients \ {c} : shown'[d] = shown[d] /\ asked'[d] = asked[d]
         /\ UNCHANGED <<server, polls>>
<1>1. DOMAIN asked = Clients /\ DOMAIN shown = Clients
  BY DEF CacheInv, AskedInv
<1>2. CASE Serve(c)
  <2>1. \A s, r : Answered(asked[c], s, r).from = asked[c].from
    BY DEF Answered
  <2> QED BY <1>1, <1>2, <2>1 DEF Serve, Moves, Idle
<1>3. CASE Ask(c)
  <2>1. \A k : Sent(k).from = count
    BY DEF Sent
  <2> QED BY <1>1, <1>3, <2>1 DEF Ask, Moves
<1>4. CASE Retry(c)
  <2>1. Sent(Unconditional).from = count
    BY DEF Sent
  <2> QED BY <1>1, <1>4, <2>1 DEF Retry, Moves
<1>5. CASE TakeNone(c)
  BY <1>1, <1>5 DEF TakeNone, Moves
<1>6. CASE Reuse(c)
  <2>1. \A r, f : Seen(r, f).from = f /\ Seen(r, f) # Nothing
    BY SeenIsSome
  <2>2. asked[c] = Idle
    BY <1>6 DEF Reuse, CacheInv, AskedInv
  <2> QED BY <1>1, <1>6, <2>1, <2>2 DEF Reuse, Show, Moves
<1>7. CASE TakeNew(c)
  <2>1. \A r, f : Seen(r, f).from = f /\ Seen(r, f) # Nothing
    BY SeenIsSome
  <2>2. asked[c] # Idle
    BY <1>7 DEF TakeNew, Idle
  <2> QED BY <1>1, <1>7, <2>1, <2>2 DEF TakeNew, Show, Moves
<1>8. CASE TakeOld(c)
  <2>1. \A seen \in Validated(c, asked[c].response) :
          seen.from = asked[c].from /\ seen # Nothing
    <3>1. CASE Unpoly(c)
      <4>1. shown[c] # Nothing
        BY <1>8, <3>1 DEF TakeOld, CacheInv, AskedInv, Answers, Idle
      <4>2. shown[c] = Seen(shown[c], shown[c].from)
        BY <4>1 DEF CacheInv, ShownInv
      <4>3. "from" \in DOMAIN shown[c]
        BY <4>2 DEF Seen
      <4>4. DOMAIN Nothing = {"body"}
        BY DEF Nothing
      <4> QED BY <3>1, <4>3, <4>4 DEF Validated
    <3>2. CASE ~Unpoly(c)
      BY <3>2, SeenIsSome DEF Validated
    <3> QED BY <3>1, <3>2
  <2>2. asked[c] # Idle
    BY <1>8 DEF TakeOld, Idle
  <2> QED BY <1>1, <1>8, <2>1, <2>2 DEF TakeOld, Moves
<1> QED BY <1>2, <1>3, <1>4, <1>5, <1>6, <1>7, <1>8 DEF ClientStep

\* The origin's steps rewrite no past version.
LEMMA OriginMoves ==
  ASSUME CacheInv, Change \/ Tick \/ \E c \in Clients : Update(c)
  PROVE  Past /\ UNCHANGED <<asked, shown>>
<1>1. CASE Tick
  <2>1. UNCHANGED <<origin, count, changes, polls, asked, shown>>
    BY <1>1 DEF Tick
  <2> QED BY <2>1, MostIsNat DEF CacheInv, OriginInv, Past, LastModified
<1>2. CASE Change \/ \E c \in Clients : Update(c)
  <2>1. Grow /\ UNCHANGED <<origin, clock, polls, asked, shown>>
    BY <1>2 DEF Change, Update
  <2>2. \A n \in 0..count : LastModified(n)' = LastModified(n)
    BY <2>1, GrowDates DEF CacheInv
  <2> QED BY <2>1, <2>2, MostIsNat DEF Past, Grow, CacheInv, OriginInv
<1> QED BY <1>1, <1>2

\* A request is made when all that was shown is there already.
LEMMA ReadsKept ==
  ASSUME CacheInv, ReadsInv, Next
  PROVE  ReadsInv'
<1>1. count \in Nat /\ \A c \in Clients : asked[c] # Idle => asked[c].from \in 0..count
  BY MostIsNat DEF CacheInv, OriginInv, AskedInv, Requests, Answers
<1>2. \A c \in Clients : shown[c] # Nothing => \E k \in 0..count : IsVersion(c, shown[c], k)
  BY DEF CacheInv, ShownInv
<1>3. CASE Past /\ UNCHANGED <<asked, shown>>
  <2>1. \A c \in Clients : \A k \in 0..count :
          IsVersion(c, shown[c], k) => IsVersion(c, shown[c], k)'
    BY <1>3 DEF Past, IsVersion, Represent, GenerateEtag, HttpDate
  <2> QED BY <1>1, <1>3, <2>1 DEF ReadsInv
<1>4. ASSUME NEW c \in Clients, ClientStep(c) PROVE ReadsInv'
  <2>1. /\ Moves(c) /\ UNCHANGED <<server, polls>>
        /\ \A d \in Clients \ {c} : shown'[d] = shown[d] /\ asked'[d] = asked[d]
    BY <1>4, ClientMoves
  <2>2. \A d \in Clients : \A k :
          shown'[d] = shown[d] /\ IsVersion(d, shown[d], k) => IsVersion(d, shown[d], k)'
    BY <2>1 DEF server, IsVersion, Represent, GenerateEtag, HttpDate, LastModified
  <2>3. ASSUME NEW d \in Clients, shown'[d] # Nothing, asked'[d] # Idle
        PROVE  \E k \in 0..asked'[d].from : IsVersion(d, shown[d], k)'
    <3>1. CASE d = c
      BY <1>2, <2>1, <2>2, <2>3, <3>1 DEF Moves, ReadsInv
    <3>2. CASE d # c
      BY <2>1, <2>2, <2>3, <3>2 DEF ReadsInv
    <3> QED BY <3>1, <3>2
  <2> QED BY <2>3 DEF ReadsInv
<1> QED BY <1>3, <1>4, OriginMoves DEF Next

\* No client reads backwards.
THEOREM ReadsAreMonotonic == Spec => ReadsAdvance
<1>1. Init => ReadsInv
  BY DEF Init, ReadsInv
<1>2. CacheInv /\ ReadsInv /\ [Next]_vars => ReadsInv'
  <2>1. CacheInv /\ ReadsInv /\ UNCHANGED vars => ReadsInv'
    BY DEF vars, server, ReadsInv, IsVersion, Represent, GenerateEtag, HttpDate, LastModified
  <2> QED BY <2>1, ReadsKept
<1>3. ASSUME CacheInv, CacheInv', ReadsInv, Next, NEW c \in Clients,
             shown[c] # Nothing, shown'[c] # shown[c]
      PROVE  IF origin = "dated" THEN shown[c].date <= shown'[c].date
             ELSE shown[c].body.entries <= shown'[c].body.entries
  <2> DEFINE new  == shown'[c]
             from == shown'[c].from
  <2>1. /\ UNCHANGED <<server, polls>>
        /\ new # Nothing
        /\ from = IF asked[c] = Idle THEN count ELSE asked[c].from
    BY <1>3, ClientMoves, OriginMoves DEF Next, Moves
  <2>2. count \in Nat /\ polls[c] \in Targets /\ origin \in Origins
    BY <1>3, MostIsNat DEF CacheInv, OriginInv
  <2>3. from \in 0..count
    BY <1>3, <2>1, <2>2 DEF CacheInv, AskedInv, Requests, Answers
  <2>4. PICK k \in 0..from : IsVersion(c, shown[c], k)
    BY <1>3, <2>1 DEF ReadsInv, CacheInv, ShownInv
  <2>5. PICK l \in 0..count : IsVersion(c, new, l)
    <3>1. \E l \in 0..count' : IsVersion(c, shown[c], l)'
      BY <1>3, <2>1 DEF CacheInv, ShownInv
    <3> QED BY <2>1, <3>1 DEF server, IsVersion, Represent, GenerateEtag, HttpDate, LastModified
  <2>6. Fresh(c, new)
    <3>1. Fresh(c, shown[c])'
      BY <1>3, <2>1 DEF CacheInv, ShownInv
    <3> QED BY <2>1, <3>1 DEF server, Fresh, Represent, SameSecond, HttpDate, LastModified
  <2>7. from = shown'[c].from /\ k \in Nat /\ k <= from /\ from \in Nat /\ from <= count
    BY <2>2, <2>3
  <2> HIDE DEF new, from
  <2>8. CASE origin # "dated"
    <3>1. PICK n \in from..count : new.body = Represent(polls[c], n)
      BY <2>6, <2>7, <2>8 DEF Fresh, new
    <3>2. Represent(polls[c], k).entries <= Represent(polls[c], n).entries
      BY <2>2, <2>7, <3>1, VersionsGrow
    <3> QED BY <2>4, <2>8, <3>1, <3>2 DEF new, IsVersion
  <2>9. CASE origin = "dated"
    <3>1. \A n : Represent(polls[c], n).entries = n
      BY <2>9 DEF Represent
    <3>2. new.body = Represent(polls[c], l) /\ new.date = HttpDate(LastModified(l))
      BY <2>5 DEF IsVersion
    <3>3. \/ l \in from..count
          \/ HttpDate(LastModified(from)) = HttpDate(LastModified(l))
      BY <2>6, <2>7, <3>1, <3>2 DEF Fresh, SameSecond, new
    <3>4. \E n \in from..count : new.date = HttpDate(LastModified(n))
      BY <2>2, <2>7, <3>2, <3>3
    <3>5. shown[c].date <= new.date
      BY <1>3, <2>2, <2>4, <2>7, <3>4, DatesGrow DEF IsVersion
    <3> QED BY <2>9, <3>5 DEF new
  <2> QED BY <2>8, <2>9
<1>4. CacheInv /\ CacheInv' /\ ReadsInv /\ [Next]_vars =>
        [\A c \in Clients : shown[c] # Nothing /\ shown'[c] # shown[c] =>
           IF origin = "dated" THEN shown[c].date <= shown'[c].date
           ELSE shown[c].body.entries <= shown'[c].body.entries]_vars
  BY <1>3
<1> QED BY <1>1, <1>2, <1>4, CacheInductive, PTL DEF Spec, ReadsAdvance

-----------------------------------------------------------------------------
(***************************************************************************)
(* The seam to DecisionWalk: that module knows what a conditional header   *)
(* is worth only as a name; here there are tags and dates to compare.      *)
(***************************************************************************)
\* The graph where it looks at the preconditions of a request.
Graph(method, cond) ==
  INSTANCE DecisionWalk WITH
    Methods <- {method}, node <- "preconditions", axes <- {}, exists <- TRUE, vary <- {},
    guarded <- FALSE, validators <- {}, caching <- {}, effects <- {}, passed <- {},
    response <- "none", ending <- "walking"

\* What the headers of a conditional request for a target are worth.
OfRequest(target, condition) ==
  [ifMatch |-> "absent", ifUnmodifiedSince |-> "absent",
   ifNoneMatch |->
     IF condition.by # "tags" THEN "absent"
     ELSE IF IfNoneMatchMatches(condition.list, GenerateEtag(target, count)) THEN "matches"
     ELSE "other",
   ifModifiedSince |->
     IF condition.by # "date" THEN "absent"
     ELSE IF ~Dated THEN "unusable"
     ELSE IF NotModifiedSince(condition.since, LastModified(count)) THEN "unmodified"
     ELSE "modified"]

\* What the headers of an update are worth, made from what its author saw.
OfUpdate(seen) ==
  [ifMatch |->
     IF seen.tag = NoTag THEN "absent"
     ELSE IF IfMatchMatches({seen.tag}, GenerateEtag("resource", count)) THEN "same"
     ELSE "other",
   ifUnmodifiedSince |->
     IF ModifiedSince(seen.date, LastModified(count)) THEN "modified" ELSE "unmodified",
   ifNoneMatch |-> "absent", ifModifiedSince |-> "absent"]

\* The two modules decide alike: a GET is a 304 here just where K13 or L17 of
\* the graph answers 304, and an update is refused just where G11 or H12 halts.
THEOREM VerdictsAgree ==
  /\ \A target, condition :
       /\ OfRequest(target, condition) \in Graph("GET", OfRequest(target, condition))!Conditions
       /\ ~ Graph("GET", OfRequest(target, condition))!IfMatchFails
       /\ ~ Graph("GET", OfRequest(target, condition))!ModifiedSince
       /\ NotModified(target, condition) <=>
            Graph("GET", OfRequest(target, condition))!NotModified
  /\ \A seen :
       /\ OfUpdate(seen) \in Graph("PUT", OfUpdate(seen))!Conditions
       /\ ~ Graph("PUT", OfUpdate(seen))!NoneMatchFails
       /\ UpdateRefused(seen) <=>
            \/ Graph("PUT", OfUpdate(seen))!IfMatchFails
            \/ Graph("PUT", OfUpdate(seen))!ModifiedSince
<1>1. ASSUME NEW target, NEW condition
      PROVE  /\ OfRequest(target, condition) \in
                  Graph("GET", OfRequest(target, condition))!Conditions
             /\ ~ Graph("GET", OfRequest(target, condition))!IfMatchFails
             /\ ~ Graph("GET", OfRequest(target, condition))!ModifiedSince
             /\ NotModified(target, condition) <=>
                  Graph("GET", OfRequest(target, condition))!NotModified
  BY DEF NotModified, OfRequest, Graph!Conditions, Graph!NotModified, Graph!NoneMatchFails,
         Graph!Unmodified, Graph!SAFE_METHODS, Graph!IfMatchFails, Graph!ModifiedSince
<1>2. ASSUME NEW seen
      PROVE  /\ OfUpdate(seen) \in Graph("PUT", OfUpdate(seen))!Conditions
             /\ ~ Graph("PUT", OfUpdate(seen))!NoneMatchFails
             /\ UpdateRefused(seen) <=>
                  \/ Graph("PUT", OfUpdate(seen))!IfMatchFails
                  \/ Graph("PUT", OfUpdate(seen))!ModifiedSince
  BY DEF UpdateRefused, OfUpdate, Graph!Conditions, Graph!NoneMatchFails,
         Graph!IfMatchFails, Graph!ModifiedSince
<1> QED BY <1>1, <1>2
=============================================================================
