----------------------------- MODULE Negotiation -----------------------------
(***************************************************************************)
(* Proactive negotiation (negotiation.py): an Accept header is parsed into *)
(* ranges with q-values, and one pass over the offers picks the best.      *)
(* choose_media_type compares every range with the best so far;            *)
(* choose_encoding and choose_language first reduce the ranges that match  *)
(* an offer to one, with identity acceptable by default as an encoding.    *)
(*                                                                         *)
(* A range or an offer is the sequence of its parts: <<"text", "html">>,   *)
(* <<"gzip">>, <<"en", "US">>.  A q-value is in thousandths.  A step is one *)
(* iteration of a loop.                                                    *)
(***************************************************************************)
EXTENDS Integers, Sequences, FiniteSets

CONSTANTS
  Ranges,       \* per axis, what a header may list, ill-formed parts included
  Offers,       \* per axis, what a resource may offer
  RawQ,         \* what may follow "q=": integers, or Garbage
  Garbage,      \* a q-value that is no number
  MaxRanges,    \* _MAX_RANGES
  MaxHeader,    \* bound: parts of a header
  MaxOffers     \* bound: offers of a resource

Axes == {"media", "encoding", "language"}

ASSUME RangesAssumption    == Ranges \in [Axes -> SUBSET Seq(STRING)]
ASSUME OffersAssumption    == Offers \in [Axes -> SUBSET Seq(STRING)]
ASSUME RawQAssumption      == RawQ \subseteq Int \cup {Garbage}
ASSUME GarbageAssumption   == Garbage \notin Int
ASSUME MaxRangesAssumption == MaxRanges \in Nat \ {0}
ASSUME BoundsAssumption    == MaxHeader \in Nat /\ MaxOffers \in Nat

VARIABLES
  axis,       \* which header is negotiated
  header,     \* its comma-separated parts; <<>> when missing or blank
  offered,    \* what the resource offers, in its order of preference
  phase,      \* "parse", "select" or "done"
  p,          \* the part of the header parsed next
  ranges,     \* parsed: the ranges and their q-values
  i, j,       \* the offer and the range compared next
  matched,    \* best (q, specificity) of the ranges that match the offer
  best,       \* index of the best offer so far, 0 for None
  bestKey     \* its (q, specificity, -index)

vars == <<axis, header, offered, phase, p, ranges, i, j, matched, best, bestKey>>
request == <<axis, header, offered>>

ListsUpTo(S, n) == UNION {[1..m -> S] : m \in 0..n}
Parts(a)  == [range : Ranges[a], q : RawQ]
Parsed    == [range : UNION {Ranges[a] : a \in Axes}, q : 0..1000]
NoMatch   == <<-1, -1>>
NoKey     == <<-1, -1, -1>>

TypeOK ==
  /\ axis \in Axes
  /\ header \in Seq(Parts(axis))
  /\ offered \in Seq(Offers[axis])
  /\ phase \in {"parse", "select", "done"}
  /\ p \in 1..(Len(header) + 1)
  /\ ranges \in Seq(Parsed) /\ Len(ranges) <= MaxRanges
  /\ i \in 1..(Len(offered) + 1)
  /\ j \in 1..(Len(ranges) + 1)
  /\ matched \in (-1..1000) \X (-1..3)
  /\ best \in 0..Len(offered)
  /\ bestKey \in (-1..1000) \X (-1..3) \X Int

Init ==
  /\ axis \in Axes
  /\ header \in ListsUpTo(Parts(axis), MaxHeader)
  /\ offered \in ListsUpTo(Offers[axis], MaxOffers)
  /\ phase = "parse"
  /\ p = 1
  /\ ranges = <<>>
  /\ i = 1
  /\ j = 1
  /\ matched = NoMatch
  /\ best = 0
  /\ bestKey = NoKey

(***************************************************************************)
(* Parsing.                                                                *)
(***************************************************************************)
MutClamp(q) == IF q \notin Nat THEN 0 ELSE q

Clamp(q) == IF q \notin Nat THEN 0 ELSE IF q > 1000 THEN 1000 ELSE q

\* A media range needs its slash, a token must not be empty.
WellFormed(part) ==
  IF axis = "media" THEN Len(part.range) = 2 ELSE part.range # <<>>

MutRoom == p <= MaxRanges

\* The bound counts the ranges kept, not the parts seen.
Room == Len(ranges) < MaxRanges

NoOffers ==
  /\ phase = "parse" /\ offered = <<>>
  /\ phase' = "done"
  /\ UNCHANGED <<request, p, ranges, i, j, matched, best, bestKey>>

ParsePart ==
  /\ phase = "parse" /\ offered # <<>>
  /\ p <= Len(header) /\ Room
  /\ p' = p + 1
  /\ ranges' = IF WellFormed(header[p])
               THEN Append(ranges, [range |-> header[p].range,
                                    q |-> Clamp(header[p].q)])
               ELSE ranges
  /\ UNCHANGED <<request, phase, i, j, matched, best, bestKey>>

\* A header without a single range asks for nothing: the first offer.
ParseEnds ==
  /\ phase = "parse" /\ offered # <<>>
  /\ p > Len(header) \/ ~Room
  /\ \/ ranges = <<>> /\ phase' = "done" /\ best' = 1
     \/ ranges # <<>> /\ phase' = "select" /\ best' = best
  /\ UNCHANGED <<request, p, ranges, i, j, matched, bestKey>>

(***************************************************************************)
(* Matching: how specifically a range matches an offer, -1 if not at all.  *)
(***************************************************************************)
Any == "*"

Extends(s, t) == Len(s) > Len(t) /\ SubSeq(s, 1, Len(t)) = t

Specificity(r) == IF r[1] = Any THEN 0 ELSE IF r[2] = Any THEN 1 ELSE 2

MediaScore(r, o) ==
  IF \A k \in 1..2 : r[k] \in {Any, o[k]} THEN Specificity(r) ELSE -1

EncodingScore(r, o) == IF r = <<Any>> THEN 0 ELSE IF r = o THEN 1 ELSE -1

LanguageScore(r, o) ==
  IF r = <<Any>> THEN 0
  ELSE IF r = o THEN 3
  ELSE IF Extends(o, r) THEN 2
  ELSE IF Extends(r, o) THEN 1 ELSE -1

Score(r, o) ==
  CASE axis = "media"    -> MediaScore(r, o)
    [] axis = "encoding" -> EncodingScore(r, o)
    [] axis = "language" -> LanguageScore(r, o)

\* Python's comparison of tuples.
Above2(a, b) == a[1] > b[1] \/ (a[1] = b[1] /\ a[2] > b[2])
Above(a, b)  == Above2(a, b) \/ (a[1] = b[1] /\ a[2] = b[2] /\ a[3] > b[3])

(***************************************************************************)
(* Selection.                                                              *)
(***************************************************************************)
\* The outer loop's key > best_key, for the offer i.
Consider(key) ==
  IF Above(key, bestKey)
  THEN best' = i /\ bestKey' = key
  ELSE UNCHANGED <<best, bestKey>>

\* choose_media_type: the offer i against the range j.
MediaRange ==
  /\ phase = "select" /\ axis = "media"
  /\ i <= Len(offered) /\ j <= Len(ranges)
  /\ j' = j + 1
  /\ LET score == Score(ranges[j].range, offered[i])
     IN  IF score = -1 \/ ranges[j].q <= 0
         THEN UNCHANGED <<best, bestKey>>
         ELSE Consider(<<ranges[j].q, score, -i>>)
  /\ UNCHANGED <<request, phase, p, ranges, i, matched>>

MediaOffer ==
  /\ phase = "select" /\ axis = "media"
  /\ i <= Len(offered) /\ j > Len(ranges)
  /\ i' = i + 1 /\ j' = 1
  /\ UNCHANGED <<request, phase, p, ranges, matched, best, bestKey>>

\* _select: the offer i against the range j.
TokenRange ==
  /\ phase = "select" /\ axis # "media"
  /\ i <= Len(offered) /\ j <= Len(ranges)
  /\ j' = j + 1
  /\ LET score == Score(ranges[j].range, offered[i])
         cand  == <<ranges[j].q, score>>
     IN  matched' = IF score # -1 /\ Above2(cand, matched) THEN cand ELSE matched
  /\ UNCHANGED <<request, phase, p, ranges, i, best, bestKey>>

MutDefaulted(o, m) ==
  IF m[1] <= 0 /\ axis = "encoding" /\ o = <<"identity">> THEN <<1, 0>> ELSE m

\* identity needs no range to be acceptable, only that none refers to it.
Defaulted(o, m) ==
  IF m = NoMatch /\ axis = "encoding" /\ o = <<"identity">> THEN <<1, 0>> ELSE m

TokenOffer ==
  /\ phase = "select" /\ axis # "media"
  /\ i <= Len(offered) /\ j > Len(ranges)
  /\ i' = i + 1 /\ j' = 1
  /\ matched' = NoMatch
  /\ LET m == Defaulted(offered[i], matched)
     IN  IF m[1] <= 0
         THEN UNCHANGED <<best, bestKey>>
         ELSE Consider(<<m[1], m[2], -i>>)
  /\ UNCHANGED <<request, phase, p, ranges>>

Selected ==
  /\ phase = "select" /\ i > Len(offered)
  /\ phase' = "done"
  /\ UNCHANGED <<request, p, ranges, i, j, matched, best, bestKey>>

Done == phase = "done" /\ UNCHANGED vars

Next ==
  \/ NoOffers \/ ParsePart \/ ParseEnds
  \/ MediaRange \/ MediaOffer \/ TokenRange \/ TokenOffer
  \/ Selected \/ Done

Spec == Init /\ [][Next]_vars

(***************************************************************************)
(* Properties.                                                             *)
(***************************************************************************)
\* The well-formed parts of the header up to and including part n.
Kept(n) == {m \in 1..n : WellFormed(header[m])}

\* Parsing keeps exactly the first MaxRanges well-formed parts, in order,
\* however many ill-formed ones lie between, with q-values in [0, 1].
ParseIsFaithful ==
  phase = "select" =>
    /\ Len(ranges) = (IF Cardinality(Kept(Len(header))) < MaxRanges
                      THEN Cardinality(Kept(Len(header))) ELSE MaxRanges)
    /\ \A n \in Kept(Len(header)) :
         Cardinality(Kept(n)) <= MaxRanges =>
           LET r == ranges[Cardinality(Kept(n))]
           IN  r.range = header[n].range /\ r.q = Clamp(header[n].q)

\* What speaks for the offer k: a range that matches it with q > 0, or, for
\* identity as an encoding, that no range matches it.
Speaks(k, n)    == ranges[n].q > 0 /\ Score(ranges[n].range, offered[k]) # -1
RangeVotes(k, m) ==
  {<<ranges[n].q, Score(ranges[n].range, offered[k]), -k>> :
     n \in {n \in 1..m : Speaks(k, n)}}
DefaultVote(k) ==
  IF /\ axis = "encoding" /\ offered[k] = <<"identity">>
     /\ \A n \in 1..Len(ranges) : Score(ranges[n].range, offered[k]) = -1
  THEN {<<1, 0, -k>>} ELSE {}
Votes(k) == RangeVotes(k, Len(ranges)) \cup DefaultVote(k)

\* The answer is the offer with the greatest vote: by q, then by how specific
\* the range is, then the earlier offer.  There is no answer, and so a 406,
\* exactly when nothing speaks for any offer; a header without ranges is
\* answered by the first offer.  The order of the ranges and the nesting of
\* the loops do not show.
IsGreatest(v, votes) == v \in votes /\ \A w \in votes : w = v \/ Above(v, w)
Electorate(n) == UNION {Votes(k) : k \in 1..n}

ChosenIsBest ==
  phase = "done" =>
    \/ offered = <<>> /\ best = 0
    \/ offered # <<>> /\ ranges = <<>> /\ best = 1
    \/ best = 0 /\ Electorate(Len(offered)) = {}
    \/ \E v \in Votes(best) : IsGreatest(v, Electorate(Len(offered)))

\* negotiation.py: an explicit identity;q=0 excludes identity.
RefusalRespected ==
  phase = "done" /\ axis = "encoding" /\ best # 0 /\ ranges # <<>> =>
    ~ /\ offered[best] = <<"identity">>
      /\ \E n \in DOMAIN ranges : ranges[n].range = <<"identity">>
      /\ \A n \in DOMAIN ranges : ranges[n].range = <<"identity">> => ranges[n].q = 0
=============================================================================
