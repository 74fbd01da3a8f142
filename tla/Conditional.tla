----------------------------- MODULE Conditional -----------------------------
(***************************************************************************)
(* conditional.py: the verdicts of the conditional headers.                *)
(*                                                                         *)
(* An entity tag is the flag W/ and an opaque value, a sequence of parts   *)
(* ("feed-1-2" is <<"feed", 1, 2>>); no tag at all has no parts.  A list   *)
(* is the set of tags that are left to compare with when what the client   *)
(* sent has been cut to _MAX_INM_LEN characters and _MAX_ETAGS tags.       *)
(* Instants are in ticks; what a date header can say is a second.  The     *)
(* value * and a date that does not parse are decided without comparing:   *)
(* they are the verdicts "star" and "unusable" of DecisionWalk.            *)
(***************************************************************************)
EXTENDS Naturals, Sequences, FiniteSets

CONSTANTS MAX_ETAGS,   \* _MAX_ETAGS
          SECOND       \* ticks in a second

ASSUME SecondAssumption == SECOND \in Nat \ {0}

Tag(weak, opaque) == [weak |-> weak, opaque |-> opaque]
NoTag == Tag(FALSE, <<>>)

\* What a cut at the length leaves of a tag.  Quotes are stripped one by one,
\* so a tag that lost its end and its closing quote still compares.
Stump(tag) == [tag EXCEPT !.opaque = SubSeq(@, 1, Len(@) - 1)]

\* Every set of tags a list of these may be reduced to, whatever their order
\* and lengths: the cut falls between two tags, or within one.
Scans(tags) ==
  {s \in SUBSET tags : Cardinality(s) <= MAX_ETAGS}
    \cup {s \cup {Stump(t)} : s \in {u \in SUBSET tags : Cardinality(u) < MAX_ETAGS}, t \in tags}

\* Weak comparison: the flags do not count.
IfNoneMatchMatches(list, etag) ==
  etag # NoTag /\ \E tag \in list : tag.opaque = etag.opaque

\* Strong comparison: a weak tag on either side never matches.
IfMatchMatches(list, etag) ==
  /\ etag # NoTag /\ ~etag.weak
  /\ \E tag \in list : ~tag.weak /\ tag.opaque = etag.opaque

\* http_date: a Last-Modified header has no fraction of a second.
HttpDate(instant) == instant \div SECOND

\* _parse_since truncates the resource's instant to compare it with a header.
NotModifiedSince(since, instant) == HttpDate(instant) <= since
MutModifiedSince(since, instant) == HttpDate(instant) > since + 1
ModifiedSince(since, instant) == HttpDate(instant) > since
=============================================================================
