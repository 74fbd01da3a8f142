------------------------- MODULE Negotiation_proofs -------------------------
(***************************************************************************)
(* Negotiation chooses the greatest vote, for any ranges, offers, q-values *)
(* and bounds.  The vote is a maximum over offers and ranges and the loops *)
(* hold the maximum of what they have passed: the invariant says so, and   *)
(* each iteration adds one vote, or the votes of one offer.  And parsing   *)
(* keeps the first well-formed parts of a header, as many as it may.       *)
(***************************************************************************)
EXTENDS Negotiation, SequenceTheorems, FiniteSetTheorems, TLAPS

Ballots == (1..1000) \X (0..3) \X Int

(***************************************************************************)
(* The order of votes.                                                     *)
(***************************************************************************)
LEMMA BallotType ==
  ASSUME NEW a \in Ballots
  PROVE  a[1] \in Int /\ a[2] \in Int /\ a[3] \in Int /\ a = <<a[1], a[2], a[3]>>
<1>1. ASSUME NEW P, NEW Q, NEW R, NEW c \in P \X Q \X R
      PROVE  c[1] \in P /\ c[2] \in Q /\ c[3] \in R /\ c = <<c[1], c[2], c[3]>>
  OBVIOUS
<1>2. a[1] \in 1..1000 /\ a[2] \in 0..3 /\ a[3] \in Int /\ a = <<a[1], a[2], a[3]>>
  BY <1>1 DEF Ballots
<1> QED BY <1>2

LEMMA AboveTotal ==
  ASSUME NEW a \in Ballots, NEW b \in Ballots
  PROVE  a = b \/ Above(a, b) \/ Above(b, a)
<1>1. /\ a = <<a[1], a[2], a[3]>> /\ a[1] \in Int /\ a[2] \in Int /\ a[3] \in Int
      /\ b = <<b[1], b[2], b[3]>> /\ b[1] \in Int /\ b[2] \in Int /\ b[3] \in Int
  BY BallotType
<1>2. a[1] = b[1] /\ a[2] = b[2] /\ a[3] = b[3] => a = b
  BY ONLY <1>1
<1> QED BY ONLY <1>1, <1>2 DEF Above, Above2

LEMMA AboveTransitive ==
  ASSUME NEW a \in Ballots, NEW b \in Ballots, NEW c \in Ballots,
         Above(a, b), Above(b, c)
  PROVE  Above(a, c)
<1>1. /\ a[1] \in Int /\ a[2] \in Int /\ a[3] \in Int
      /\ b[1] \in Int /\ b[2] \in Int /\ b[3] \in Int
      /\ c[1] \in Int /\ c[2] \in Int /\ c[3] \in Int
  BY BallotType
<1> QED BY ONLY <1>1, Above(a, b), Above(b, c) DEF Above, Above2

\* The greatest of two sets is the greater of their greatest.
LEMMA GreatestOfUnion ==
  ASSUME NEW S \in SUBSET Ballots, NEW T \in SUBSET Ballots,
         NEW a, NEW b, IsGreatest(a, S), IsGreatest(b, T)
  PROVE  /\ Above(b, a) => IsGreatest(b, S \cup T)
         /\ ~Above(b, a) => IsGreatest(a, S \cup T)
<1>1. a \in Ballots /\ b \in Ballots
  BY DEF IsGreatest
<1>2. ASSUME Above(b, a) PROVE IsGreatest(b, S \cup T)
  BY <1>1, <1>2, AboveTransitive DEF IsGreatest
<1>3. ASSUME ~Above(b, a) PROVE IsGreatest(a, S \cup T)
  <2>1. a = b \/ Above(a, b)
    BY <1>1, <1>3, AboveTotal
  <2> QED BY <1>1, <2>1, AboveTransitive DEF IsGreatest
<1> QED BY <1>2, <1>3

\* best and bestKey as the result of the votes S.
Leads(b, key, S) ==
  IF b = 0 THEN S = {} /\ key = NoKey
  ELSE key[3] = -b /\ IsGreatest(key, S)

\* One comparison of the outer loop takes the votes T for the offer i in.
LEMMA ConsiderLeads ==
  ASSUME NEW S \in SUBSET Ballots, NEW T \in SUBSET Ballots, NEW t,
         i \in Nat \ {0}, Leads(best, bestKey, S),
         IsGreatest(t, T), t[3] = -i, Consider(t)
  PROVE  Leads(best', bestKey', S \cup T)
<1>1. t \in Ballots /\ t \in T
  BY DEF IsGreatest
<1>2. CASE best = 0
  <2>1. S = {} /\ bestKey = NoKey BY <1>2 DEF Leads
  <2>2. Above(t, bestKey) BY <1>1, <2>1 DEF Ballots, Above, Above2, NoKey
  <2>3. best' = i /\ bestKey' = t BY <2>2 DEF Consider
  <2>4. S \cup T = T BY <2>1
  <2> QED BY <2>3, <2>4 DEF Leads
<1>3. CASE best # 0
  <2>1. bestKey[3] = -best /\ IsGreatest(bestKey, S) BY <1>3 DEF Leads
  <2>2. CASE Above(t, bestKey)
    <3>1. best' = i /\ bestKey' = t BY <2>2 DEF Consider
    <3>2. IsGreatest(t, S \cup T) BY <2>1, <2>2, GreatestOfUnion
    <3> QED BY <3>1, <3>2 DEF Leads
  <2>3. CASE ~Above(t, bestKey)
    <3>1. best' = best /\ bestKey' = bestKey BY <2>3 DEF Consider
    <3>2. IsGreatest(bestKey, S \cup T) BY <2>1, <2>3, GreatestOfUnion
    <3> QED BY <1>3, <2>1, <3>1, <3>2 DEF Leads
  <2> QED BY <2>2, <2>3
<1> QED BY <1>2, <1>3

(***************************************************************************)
(* Votes.                                                                  *)
(***************************************************************************)
LEMMA ScoreType ==
  ASSUME axis \in Axes, NEW r, NEW o
  PROVE  Score(r, o) \in -1..3
<1>1. MediaScore(r, o) \in -1..3 BY DEF MediaScore, Specificity
<1>2. EncodingScore(r, o) \in -1..3 BY DEF EncodingScore
<1>3. LanguageScore(r, o) \in -1..3 BY DEF LanguageScore
<1> QED BY <1>1, <1>2, <1>3 DEF Axes, Score

LEMMA ClampType == \A q : Clamp(q) \in 0..1000
  BY DEF Clamp

LEMMA RangeType ==
  ASSUME TypeOK, NEW n \in 1..Len(ranges)
  PROVE  ranges[n].q \in 0..1000
<1>1. ranges[n] \in Parsed BY ElementOfSeq DEF TypeOK
<1> QED BY <1>1 DEF Parsed

LEMMA RangeVotesType ==
  ASSUME TypeOK, NEW k \in Nat, NEW m \in 0..Len(ranges)
  PROVE  RangeVotes(k, m) \subseteq Ballots
<1> SUFFICES ASSUME NEW n \in 1..m, Speaks(k, n)
             PROVE  <<ranges[n].q, Score(ranges[n].range, offered[k]), -k>> \in Ballots
  BY DEF RangeVotes
<1>0. axis \in Axes /\ n \in 1..Len(ranges)
  BY LenProperties DEF TypeOK
<1>1. ranges[n].q \in 0..1000 BY <1>0, RangeType
<1>2. Score(ranges[n].range, offered[k]) \in -1..3 BY <1>0, ScoreType
<1>3. ranges[n].q > 0 /\ Score(ranges[n].range, offered[k]) # -1
  BY DEF Speaks
<1>4. /\ ranges[n].q \in 1..1000
      /\ Score(ranges[n].range, offered[k]) \in 0..3
      /\ -k \in Int
  <2> DEFINE s == Score(ranges[n].range, offered[k])
             q == ranges[n].q
  <2>1. q \in 0..1000 /\ q > 0 /\ s \in -1..3 /\ s # -1 BY <1>1, <1>2, <1>3
  <2> HIDE DEF s, q
  <2>2. q \in 1..1000 BY ONLY <2>1
  <2>3. s \in 0..3 BY ONLY <2>1
  <2>4. -k \in Int OBVIOUS
  <2> QED BY ONLY <2>2, <2>3, <2>4 DEF s, q
<1> QED BY ONLY <1>4 DEF Ballots

LEMMA VotesType ==
  ASSUME TypeOK, NEW k \in Nat
  PROVE  Votes(k) \subseteq Ballots
<1>1. Len(ranges) \in 0..Len(ranges) BY LenProperties DEF TypeOK
<1>2. RangeVotes(k, Len(ranges)) \subseteq Ballots BY <1>1, RangeVotesType
<1>3. DefaultVote(k) \subseteq Ballots BY DEF DefaultVote, Ballots
<1> QED BY <1>2, <1>3 DEF Votes

LEMMA ElectorateType ==
  ASSUME TypeOK, NEW k \in Nat
  PROVE  Electorate(k) \subseteq Ballots
<1>1. \A m \in 1..k : Votes(m) \subseteq Ballots BY VotesType
<1> QED BY <1>1 DEF Electorate

LEMMA ElectorateGrows ==
  ASSUME NEW k \in Nat \ {0}
  PROVE  Electorate(k) = Electorate(k - 1) \cup Votes(k)
<1>1. 1..k = (1..(k - 1)) \cup {k} OBVIOUS
<1> QED BY <1>1, Zenon DEF Electorate

LEMMA NobodyYet == Electorate(0) = {} /\ \A k : RangeVotes(k, 0) = {}
<1>1. 1..0 = {} OBVIOUS
<1> QED BY <1>1 DEF Electorate, RangeVotes

\* The votes depend on the request and the parsed ranges alone.
LEMMA VotesStay ==
  ASSUME axis' = axis, offered' = offered, ranges' = ranges
  PROVE  /\ \A n : Electorate(n)' = Electorate(n)
         /\ \A k, m : RangeVotes(k, m)' = RangeVotes(k, m)
         /\ \A k : Votes(k)' = Votes(k)
         /\ Electorate(i - 1)' = Electorate(i' - 1)
         /\ RangeVotes(i, j - 1)' = RangeVotes(i', j' - 1)
         /\ Votes(best)' = Votes(best')
         /\ Electorate(Len(offered))' = Electorate(Len(offered))
  BY DEF Electorate, Votes, RangeVotes, DefaultVote, Speaks, Score

(***************************************************************************)
(* The invariant.                                                          *)
(***************************************************************************)
ParseInv ==
  phase = "parse" =>
    i = 1 /\ j = 1 /\ best = 0 /\ bestKey = NoKey /\ matched = NoMatch

\* x sums up the first m ranges for the offer i.
SumsUp(x, m) ==
  IF x = NoMatch
  THEN \A n \in 1..m : Score(ranges[n].range, offered[i]) = -1
  ELSE /\ \E n \in 1..m : /\ Score(ranges[n].range, offered[i]) # -1
                          /\ x = <<ranges[n].q, Score(ranges[n].range, offered[i])>>
       /\ \A n \in 1..m :
            Score(ranges[n].range, offered[i]) # -1 =>
              LET c == <<ranges[n].q, Score(ranges[n].range, offered[i])>>
              IN  c = x \/ Above2(x, c)

MatchedInv(m) == SumsUp(matched, m)

SelectInv ==
  phase = "select" =>
    /\ offered # <<>> /\ ranges # <<>>
    /\ i > Len(offered) => j = 1
    /\ axis = "media" =>
         Leads(best, bestKey, Electorate(i - 1) \cup RangeVotes(i, j - 1))
    /\ axis # "media" =>
         Leads(best, bestKey, Electorate(i - 1)) /\ MatchedInv(j - 1)

IInv == TypeOK /\ ParseInv /\ SelectInv /\ ChosenIsBest

LEMMA InitInv == Init => IInv
<1> SUFFICES ASSUME Init PROVE IInv OBVIOUS
<1>1. ASSUME NEW S, NEW n PROVE ListsUpTo(S, n) \subseteq Seq(S)
  <2>1. \A m \in 0..n : m \in Nat OBVIOUS
  <2> QED BY <2>1, SeqDef DEF ListsUpTo
<1>2. header \in Seq(Parts(axis)) /\ offered \in Seq(Offers[axis])
  BY <1>1 DEF Init
<1>3. Len(header) \in Nat /\ Len(offered) \in Nat
  BY <1>2, LenProperties
<1>4. ranges \in Seq(Parsed) /\ Len(ranges) = 0
  BY EmptySeq DEF Init
<1>5. TypeOK
  BY <1>2, <1>3, <1>4, MaxRangesAssumption DEF Init, TypeOK, NoMatch, NoKey
<1> QED BY <1>5 DEF Init, IInv, ParseInv, SelectInv, ChosenIsBest

LEMMA Parsing ==
  ASSUME IInv, NoOffers \/ ParsePart \/ ParseEnds
  PROVE  IInv'
<1> USE DEF IInv
<1>0. Len(header) \in Nat /\ Len(offered) \in Nat /\ Len(ranges) \in Nat
  BY LenProperties DEF TypeOK
<1>1. CASE NoOffers
  <2>1. TypeOK' BY <1>1 DEF NoOffers, TypeOK, request, Parts
  <2> QED BY <1>1, <2>1 DEF NoOffers, ParseInv, SelectInv, ChosenIsBest, request
<1>2. CASE ParsePart
  <2>1. ranges' \in Seq(Parsed) /\ Len(ranges') <= MaxRanges /\ Len(ranges') >= Len(ranges)
    <3>1. p \in 1..Len(header) BY <1>2 DEF ParsePart, TypeOK
    <3>2. header[p] \in Parts(axis) BY <3>1, ElementOfSeq DEF TypeOK
    <3>3. Clamp(header[p].q) \in 0..1000 BY ClampType
    <3>4. [range |-> header[p].range, q |-> Clamp(header[p].q)] \in Parsed
      BY <3>2, <3>3 DEF Parts, Parsed, TypeOK
    <3> DEFINE e == [range |-> header[p].range, q |-> Clamp(header[p].q)]
    <3>5. Append(ranges, e) \in Seq(Parsed) /\ Len(Append(ranges, e)) = Len(ranges) + 1
      BY <3>4, AppendProperties DEF TypeOK
    <3>6. ranges' \in {ranges, Append(ranges, e)} /\ Len(ranges) < MaxRanges
      BY <1>2 DEF ParsePart, Room
    <3> HIDE DEF e
    <3>7. CASE ranges' = ranges BY <1>0, <3>7 DEF TypeOK
    <3>8. CASE ranges' = Append(ranges, e)
      BY ONLY <1>0, <3>5, <3>6, <3>8, MaxRangesAssumption
    <3> QED BY <3>6, <3>7, <3>8
  <2>2. p' \in 1..(Len(header) + 1)
    BY <1>0, <1>2 DEF ParsePart, TypeOK
  <2>3. j' = 1 /\ Len(ranges') \in Nat
    BY <1>2, <2>1, LenProperties DEF ParsePart, ParseInv
  <2>4. TypeOK'
    BY <1>2, <2>1, <2>2, <2>3 DEF ParsePart, TypeOK, request, Parts
  <2> QED BY <1>2, <2>4 DEF ParsePart, ParseInv, SelectInv, ChosenIsBest, request
<1>3. CASE ParseEnds
  <2>0. UNCHANGED <<axis, header, offered, p, ranges, i, j, matched, bestKey>>
    BY <1>3 DEF ParseEnds, request
  <2>1. best' \in 0..Len(offered) /\ phase' \in {"select", "done"}
    <3>1. Len(offered) # 0 BY <1>3, EmptySeq DEF ParseEnds, TypeOK
    <3> QED BY <1>0, <1>3, <3>1 DEF ParseEnds, TypeOK
  <2>2. TypeOK' BY <2>0, <2>1 DEF TypeOK, Parts
  <2>3. ParseInv' BY <1>3 DEF ParseEnds, ParseInv
  <2>4. SelectInv'
    <3> SUFFICES ASSUME phase' = "select" PROVE SelectInv' BY DEF SelectInv
    <3>1. /\ offered # <<>> /\ ranges # <<>> /\ best' = 0
          /\ i = 1 /\ j = 1 /\ bestKey = NoKey /\ matched = NoMatch
      BY <1>3 DEF ParseEnds, ParseInv
    <3>2. Electorate(0)' = {} /\ RangeVotes(1, 0)' = {}
      BY <2>0, NobodyYet, VotesStay
    <3>3. MatchedInv(0)'
      <4>1. 1..0 = {} OBVIOUS
      <4> QED BY <2>0, <3>1, <4>1 DEF MatchedInv, SumsUp
    <3>4. Leads(best', bestKey', {}) BY <2>0, <3>1 DEF Leads
    <3>5. i' = 1 /\ j' = 1 /\ i' - 1 = 0 /\ j' - 1 = 0 BY <2>0, <3>1
    <3> QED BY <2>0, <3>1, <3>2, <3>3, <3>4, <3>5 DEF SelectInv
  <2>5. ChosenIsBest' BY <1>3, <2>0 DEF ParseEnds, ChosenIsBest
  <2> QED BY <2>2, <2>3, <2>4, <2>5
<1> QED BY <1>1, <1>2, <1>3

-----------------------------------------------------------------------------
(***************************************************************************)
(* Selection.                                                              *)
(***************************************************************************)
\* Where the loops are: the offer i, and the range j or past the last.
LEMMA Position ==
  ASSUME TypeOK, i <= Len(offered)
  PROVE  /\ i \in Nat \ {0} /\ i \in 1..Len(offered) /\ -i \in Int
         /\ Len(ranges) \in Nat /\ Len(offered) \in Nat
         /\ j - 1 \in 0..Len(ranges)
         /\ Electorate(i - 1) \in SUBSET Ballots
         /\ RangeVotes(i, j - 1) \in SUBSET Ballots
<1>1. Len(ranges) \in Nat /\ Len(offered) \in Nat
  BY LenProperties DEF TypeOK
<1>2. i \in Nat \ {0} /\ i \in 1..Len(offered) /\ -i \in Int /\ i - 1 \in Nat
  BY <1>1 DEF TypeOK
<1>3. j - 1 \in 0..Len(ranges)
  BY <1>1 DEF TypeOK
<1>4. Electorate(i - 1) \subseteq Ballots BY <1>2, ElectorateType
<1>5. RangeVotes(i, j - 1) \subseteq Ballots BY <1>2, <1>3, RangeVotesType
<1> QED BY <1>1, <1>2, <1>3, <1>4, <1>5

\* One more range brings one vote or none.
LEMMA RangeVotesGrow ==
  ASSUME NEW k, NEW m \in Nat \ {0}
  PROVE  RangeVotes(k, m) = RangeVotes(k, m - 1) \cup
           (IF Speaks(k, m)
            THEN {<<ranges[m].q, Score(ranges[m].range, offered[k]), -k>>} ELSE {})
<1>1. 1..m = (1..(m - 1)) \cup {m} OBVIOUS
<1> QED BY <1>1, Zenon DEF RangeVotes

\* What Consider leaves in best and bestKey has its type.
LEMMA ConsiderType ==
  ASSUME TypeOK, i \in 1..Len(offered), NEW t \in Ballots,
         Consider(t) \/ UNCHANGED <<best, bestKey>>
  PROVE  best' \in 0..Len(offered) /\ bestKey' \in (-1..1000) \X (-1..3) \X Int
<1>1. t \in (-1..1000) \X (-1..3) \X Int
  <2>1. 1..1000 \subseteq -1..1000 /\ 0..3 \subseteq -1..3 OBVIOUS
  <2> QED BY <2>1 DEF Ballots
<1>2. i \in 0..Len(offered) BY LenProperties DEF TypeOK
<1>3. \/ best' = i /\ bestKey' = t
      \/ best' = best /\ bestKey' = bestKey
  BY DEF Consider
<1>4. CASE best' = i /\ bestKey' = t BY ONLY <1>1, <1>2, <1>4
<1>5. CASE best' = best /\ bestKey' = bestKey BY <1>5 DEF TypeOK
<1> QED BY <1>3, <1>4, <1>5

LEMMA MediaRangeInv == IInv /\ MediaRange => IInv'
<1> SUFFICES ASSUME IInv, MediaRange PROVE IInv' OBVIOUS
<1> DEFINE v == <<ranges[j].q, Score(ranges[j].range, offered[i]), -i>>
           S == Electorate(i - 1) \cup RangeVotes(i, j - 1)
<1>0. /\ TypeOK /\ phase = "select" /\ axis = "media" /\ offered # <<>> /\ ranges # <<>>
      /\ i <= Len(offered) /\ j <= Len(ranges) /\ j' = j + 1
      /\ Leads(best, bestKey, S)
      /\ axis' = axis /\ header' = header /\ offered' = offered /\ phase' = phase
      /\ p' = p /\ ranges' = ranges /\ i' = i /\ matched' = matched
  BY DEF IInv, SelectInv, MediaRange, request
<1>1. /\ i \in Nat \ {0} /\ i \in 1..Len(offered) /\ -i \in Int
      /\ Len(ranges) \in Nat /\ S \in SUBSET Ballots
  BY <1>0, Position
<1>2. j \in Nat \ {0} /\ j \in 1..Len(ranges) /\ j' \in 1..(Len(ranges) + 1) /\ j' - 1 = j
  BY <1>0, <1>1 DEF TypeOK
<1>3. Speaks(i, j) => v \in Ballots
  <2>1. RangeVotes(i, j) \subseteq Ballots
    BY <1>0, <1>1, <1>2, RangeVotesType
  <2> QED BY <1>2, <2>1 DEF RangeVotes
<1>4. IF Speaks(i, j) THEN Consider(v) ELSE UNCHANGED <<best, bestKey>>
  <2>1. ranges[j].q \in 0..1000 BY <1>0, <1>2, RangeType
  <2>2. IF Score(ranges[j].range, offered[i]) = -1 \/ ranges[j].q <= 0
        THEN UNCHANGED <<best, bestKey>> ELSE Consider(v)
    BY DEF MediaRange
  <2>3. Speaks(i, j) <=> ~(Score(ranges[j].range, offered[i]) = -1 \/ ranges[j].q <= 0)
    <3> DEFINE q == ranges[j].q
    <3>1. q > 0 <=> ~(q <= 0)
      <4> HIDE DEF q
      <4>1. q \in 0..1000 BY <2>1 DEF q
      <4> QED BY ONLY <4>1
    <3> QED BY <3>1, Zenon DEF Speaks
  <2> QED BY ONLY <2>2, <2>3
<1>5. best' \in 0..Len(offered) /\ bestKey' \in (-1..1000) \X (-1..3) \X Int
  <2>1. CASE Speaks(i, j) BY <1>0, <1>1, <1>3, <1>4, <2>1, ConsiderType
  <2>2. CASE ~Speaks(i, j) BY <1>0, <1>4, <2>2 DEF TypeOK
  <2> QED BY <2>1, <2>2
<1>6. TypeOK'
  BY <1>0, <1>2, <1>5 DEF TypeOK, Parts
<1>7. Leads(best', bestKey', Electorate(i - 1) \cup RangeVotes(i, j))
  <2>1. CASE Speaks(i, j)
    <3>1. RangeVotes(i, j) = RangeVotes(i, j - 1) \cup {v}
      BY <1>2, <2>1, RangeVotesGrow
    <3>2. IsGreatest(v, {v}) /\ v[3] = -i BY DEF IsGreatest
    <3>3. Leads(best', bestKey', S \cup {v})
      <4>1. Consider(v) /\ {v} \in SUBSET Ballots BY <1>3, <1>4, <2>1
      <4> HIDE DEF v, S
      <4> QED BY <1>0, <1>1, <3>2, <4>1, ConsiderLeads
    <3>4. Electorate(i - 1) \cup RangeVotes(i, j) = S \cup {v} BY <3>1
    <3> QED BY <3>3, <3>4
  <2>2. CASE ~Speaks(i, j)
    <3>1. RangeVotes(i, j) = RangeVotes(i, j - 1)
      <4>1. RangeVotes(i, j) = RangeVotes(i, j - 1) \cup {}
        BY <1>2, <2>2, RangeVotesGrow, Zenon
      <4> QED BY <4>1
    <3> QED BY <1>0, <1>4, <2>2, <3>1
  <2> QED BY <2>1, <2>2
<1>8. SelectInv'
  <2>1. /\ Electorate(i - 1)' = Electorate(i' - 1)
        /\ RangeVotes(i, j - 1)' = RangeVotes(i', j' - 1)
    BY <1>0, VotesStay
  <2>2. /\ Electorate(i - 1)' = Electorate(i - 1)
        /\ RangeVotes(i, j - 1)' = RangeVotes(i, j)
    BY <1>0, <1>2, <2>1
  <2>3. ~(i' > Len(offered')) BY <1>0, <1>1
  <2> QED BY <1>0, <1>7, <2>2, <2>3 DEF SelectInv
<1> QED BY <1>0, <1>6, <1>8 DEF IInv, ParseInv, ChosenIsBest

LEMMA MediaOfferInv == IInv /\ MediaOffer => IInv'
<1> SUFFICES ASSUME IInv, MediaOffer PROVE IInv' OBVIOUS
<1>0. /\ TypeOK /\ phase = "select" /\ axis = "media" /\ offered # <<>> /\ ranges # <<>>
      /\ i <= Len(offered) /\ j > Len(ranges) /\ i' = i + 1 /\ j' = 1
      /\ Leads(best, bestKey, Electorate(i - 1) \cup RangeVotes(i, j - 1))
      /\ axis' = axis /\ header' = header /\ offered' = offered /\ phase' = phase
      /\ p' = p /\ ranges' = ranges /\ matched' = matched
      /\ best' = best /\ bestKey' = bestKey
  BY DEF IInv, SelectInv, MediaOffer, request
<1>1. /\ i \in Nat \ {0} /\ i \in 1..Len(offered)
      /\ Len(ranges) \in Nat /\ Len(offered) \in Nat /\ j - 1 \in 0..Len(ranges)
  BY <1>0, Position
<1>2. j - 1 = Len(ranges) /\ i' - 1 = i /\ i' \in 1..(Len(offered) + 1)
      /\ j' \in 1..(Len(ranges) + 1) /\ j' - 1 = 0
  BY <1>0, <1>1 DEF TypeOK
<1>3. TypeOK' BY <1>0, <1>2 DEF TypeOK, Parts
<1>4. Electorate(i) \cup RangeVotes(i', 0) = Electorate(i - 1) \cup RangeVotes(i, j - 1)
  <2>1. Votes(i) = RangeVotes(i, j - 1) BY <1>0, <1>2 DEF Votes, DefaultVote
  <2>2. Electorate(i) = Electorate(i - 1) \cup Votes(i) BY <1>1, ElectorateGrows
  <2>3. RangeVotes(i', 0) = {} BY NobodyYet
  <2> QED BY <2>1, <2>2, <2>3
<1>5. /\ Electorate(i - 1)' = Electorate(i)
      /\ RangeVotes(i, j - 1)' = RangeVotes(i', 0)
  <2>1. /\ Electorate(i - 1)' = Electorate(i' - 1)
        /\ RangeVotes(i, j - 1)' = RangeVotes(i', j' - 1)
    BY <1>0, VotesStay
  <2> QED BY <1>2, <2>1
<1>6. SelectInv' BY <1>0, <1>4, <1>5 DEF SelectInv
<1> QED BY <1>0, <1>3, <1>6 DEF IInv, ParseInv, ChosenIsBest

\* The range j as a candidate for the offer i, and matched after it.
Candidate == <<ranges[j].q, Score(ranges[j].range, offered[i])>>
Reduced ==
  IF Candidate[2] # -1 /\ Above2(Candidate, matched) THEN Candidate ELSE matched

\* Reducing one more range keeps matched the sum of what has been passed.
LEMMA MatchedGrows ==
  ASSUME TypeOK, j \in 1..Len(ranges), MatchedInv(j - 1)
  PROVE  /\ Reduced \in (-1..1000) \X (-1..3)
         /\ SumsUp(Reduced, j)
<1> SUFFICES ASSUME NEW c, c = Candidate, NEW m, m = Reduced
             PROVE  m \in (-1..1000) \X (-1..3) /\ SumsUp(m, j)
  OBVIOUS
<1> DEFINE sc(n) == Score(ranges[n].range, offered[i])
           vote(n) == <<ranges[n].q, sc(n)>>
<1>0. \A n \in 1..Len(ranges) :
        /\ ranges[n].q \in 0..1000 /\ sc(n) \in -1..3
        /\ ranges[n].q \in -1..1000 /\ ranges[n].q \in Int /\ ranges[n].q >= 0
        /\ sc(n) \in Int
  <2> TAKE n \in 1..Len(ranges)
  <2> DEFINE q == ranges[n].q
             s == sc(n)
  <2>1. q \in 0..1000 /\ s \in -1..3 BY RangeType, ScoreType DEF TypeOK
  <2> HIDE DEF q, s
  <2>2. q \in -1..1000 /\ q \in Int /\ q >= 0 /\ s \in Int BY ONLY <2>1
  <2> QED BY ONLY <2>1, <2>2 DEF q, s
<1>1. j \in Nat \ {0} /\ 1..j = (1..(j - 1)) \cup {j} /\ 1..j \subseteq 1..Len(ranges)
  <2>1. Len(ranges) \in Nat BY LenProperties DEF TypeOK
  <2> QED BY <2>1
<1>2. c = vote(j) /\ c[1] = ranges[j].q /\ c[2] = sc(j) /\ c = <<ranges[j].q, sc(j)>>
  BY DEF Candidate
<1>3. m = IF sc(j) # -1 /\ Above2(c, matched) THEN c ELSE matched
  BY <1>2 DEF Reduced
<1>4. IF matched = NoMatch THEN \A n \in 1..(j - 1) : sc(n) = -1
      ELSE /\ \E n \in 1..(j - 1) : sc(n) # -1 /\ matched = vote(n)
           /\ \A n \in 1..(j - 1) :
                sc(n) # -1 => vote(n) = matched \/ Above2(matched, vote(n))
  BY DEF MatchedInv, SumsUp
<1>5. \A n \in 1..Len(ranges) : vote(n)[1] = ranges[n].q /\ vote(n)[2] = sc(n)
  OBVIOUS
<1>6. matched[1] \in -1..1000 /\ matched[2] \in -1..3 /\ matched = <<matched[1], matched[2]>>
      /\ matched \in (-1..1000) \X (-1..3)
  BY DEF TypeOK
<1>7. c \in (-1..1000) \X (-1..3)
  <2> HIDE DEF sc, vote
  <2>1. ranges[j].q \in -1..1000 /\ sc(j) \in -1..3 BY <1>0
  <2> QED BY ONLY <1>2, <2>1
<1>8. m \in (-1..1000) \X (-1..3) BY <1>3, <1>6, <1>7
<1> HIDE DEF sc, vote
<1>9. CASE sc(j) = -1
  <2>1. m = matched BY <1>3, <1>9
  <2> QED BY <1>1, <1>4, <1>8, <1>9, <2>1 DEF sc, vote, SumsUp
<1>10. CASE sc(j) # -1 /\ Above2(c, matched)
  <2>1. m = c BY <1>3, <1>10
  <2>2. m # NoMatch BY <1>2, <1>10, <2>1 DEF NoMatch
  <2>3. sc(j) # -1 /\ m = vote(j) BY <1>2, <1>10, <2>1
  <2>4. ASSUME NEW n \in 1..j, sc(n) # -1
        PROVE  vote(n) = m \/ Above2(m, vote(n))
    <3>1. CASE n = j BY <2>3, <3>1
    <3>2. CASE n \in 1..(j - 1)
      <4>1. matched # NoMatch BY <1>4, <2>4, <3>2
      <4>2. vote(n) = matched \/ Above2(matched, vote(n)) BY <1>4, <2>4, <3>2, <4>1
      <4>3. /\ vote(n)[1] \in Int /\ vote(n)[2] \in Int
            /\ c[1] \in Int /\ c[2] \in Int
            /\ matched[1] \in Int /\ matched[2] \in Int
        <5>1. n \in 1..Len(ranges) BY <1>1
        <5>2. vote(n)[1] \in Int /\ vote(n)[2] \in Int BY <1>0, <1>5, <5>1
        <5>3. c[1] \in Int /\ c[2] \in Int BY <1>0, <1>2
        <5>4. matched[1] \in Int /\ matched[2] \in Int BY ONLY <1>6
        <5> QED BY ONLY <5>2, <5>3, <5>4
      <4> QED BY ONLY <1>10, <2>1, <4>2, <4>3 DEF Above2
    <3> QED BY <1>1, <3>1, <3>2
  <2>5. j \in 1..j BY <1>1
  <2> QED BY <1>8, <2>2, <2>3, <2>4, <2>5 DEF sc, vote, SumsUp
<1>11. CASE sc(j) # -1 /\ ~Above2(c, matched)
  <2>1. m = matched BY <1>3, <1>11
  <2>2. /\ c[1] \in Int /\ c[2] \in Int /\ c[1] >= 0
        /\ matched[1] \in Int /\ matched[2] \in Int
    <3>1. ranges[j].q \in Int /\ ranges[j].q >= 0 /\ sc(j) \in Int BY <1>0
    <3> QED BY ONLY <1>2, <1>6, <3>1
  <2>3. matched # NoMatch
    BY ONLY <1>11, <2>2 DEF NoMatch, Above2
  <2>4. vote(j) = matched \/ Above2(matched, vote(j))
    <3>1. c = <<c[1], c[2]>> BY <1>7
    <3>2. c[1] = matched[1] /\ c[2] = matched[2] => c = matched
      BY ONLY <1>6, <3>1
    <3>3. (c[1] = matched[1] /\ c[2] = matched[2]) \/ Above2(matched, c)
      BY ONLY <1>11, <2>2 DEF Above2
    <3> QED BY <1>2, <3>2, <3>3
  <2>5. \A n \in 1..j : sc(n) # -1 => vote(n) = m \/ Above2(m, vote(n))
    BY <1>1, <1>4, <2>1, <2>3, <2>4
  <2>6. \E n \in 1..j : sc(n) # -1 /\ m = vote(n)
    BY <1>1, <1>4, <2>1, <2>3
  <2> QED BY <1>8, <2>1, <2>3, <2>5, <2>6 DEF sc, vote, SumsUp
<1> QED BY <1>9, <1>10, <1>11

LEMMA TokenRangeInv == IInv /\ TokenRange => IInv'
<1> SUFFICES ASSUME IInv, TokenRange PROVE IInv' OBVIOUS
<1>0. /\ TypeOK /\ phase = "select" /\ axis # "media" /\ offered # <<>> /\ ranges # <<>>
      /\ i <= Len(offered) /\ j <= Len(ranges) /\ j' = j + 1
      /\ Leads(best, bestKey, Electorate(i - 1)) /\ MatchedInv(j - 1)
      /\ axis' = axis /\ header' = header /\ offered' = offered /\ phase' = phase
      /\ p' = p /\ ranges' = ranges /\ i' = i /\ best' = best /\ bestKey' = bestKey
  BY DEF IInv, SelectInv, TokenRange, request
<1>1. i \in 1..Len(offered) /\ Len(ranges) \in Nat /\ Len(offered) \in Nat
  BY <1>0, Position
<1>2. j \in 1..Len(ranges) /\ j' \in 1..(Len(ranges) + 1) /\ j' - 1 = j
  BY <1>0, <1>1 DEF TypeOK
<1>3. matched' \in (-1..1000) \X (-1..3) /\ SumsUp(matched', j)
  <2>1. matched' = Reduced BY DEF TokenRange, Candidate, Reduced
  <2> QED BY <1>0, <1>2, <2>1, MatchedGrows
<1>4. TypeOK' BY <1>0, <1>2, <1>3 DEF TypeOK, Parts
<1>5. MatchedInv(j - 1)'
  <2>1. \A n : Score(ranges[n].range, offered[i])' = Score(ranges[n].range, offered[i])
    BY <1>0 DEF Score
  <2>2. SumsUp(matched', j)
    BY <1>3
  <2>3. ranges' = ranges /\ offered' = offered /\ i' = i /\ j' - 1 = j
    BY <1>0, <1>2
  <2> QED BY ONLY <2>1, <2>2, <2>3 DEF MatchedInv, SumsUp, Above2
<1>6. SelectInv'
  <2>1. Electorate(i - 1)' = Electorate(i - 1) BY <1>0, VotesStay
  <2>2. ~(i' > Len(offered')) BY <1>0, <1>1
  <2> QED BY <1>0, <1>5, <2>1, <2>2 DEF SelectInv
<1> QED BY <1>0, <1>4, <1>6 DEF IInv, ParseInv, ChosenIsBest

\* After the last range, matched with its default is the offer's best vote.
LEMMA OfferVote ==
  ASSUME TypeOK, axis # "media", i <= Len(offered), MatchedInv(Len(ranges)),
         NEW m, m = Defaulted(offered[i], matched)
  PROVE  /\ m[1] \in Int /\ m[2] \in Int
         /\ m[1] <= 0 => Votes(i) = {}
         /\ m[1] > 0 => IsGreatest(<<m[1], m[2], -i>>, Votes(i))
<1> DEFINE sc(n) == Score(ranges[n].range, offered[i])
           vote(n) == <<ranges[n].q, sc(n)>>
<1>0. \A n \in 1..Len(ranges) :
        /\ ranges[n].q \in Int /\ ranges[n].q >= 0 /\ sc(n) \in Int
        /\ vote(n)[1] = ranges[n].q /\ vote(n)[2] = sc(n)
  <2> TAKE n \in 1..Len(ranges)
  <2> DEFINE q == ranges[n].q
             s == sc(n)
  <2>1. q \in 0..1000 /\ s \in -1..3 BY RangeType, ScoreType DEF TypeOK
  <2>2. vote(n)[1] = q /\ vote(n)[2] = s OBVIOUS
  <2> HIDE DEF q, s
  <2>3. q \in Int /\ q >= 0 /\ s \in Int BY ONLY <2>1
  <2> QED BY <2>2, <2>3 DEF q, s
<1>1. i \in Nat \ {0} /\ -i \in Int BY Position
<1>2. IF matched = NoMatch THEN \A n \in 1..Len(ranges) : sc(n) = -1
      ELSE /\ \E n \in 1..Len(ranges) : sc(n) # -1 /\ matched = vote(n)
           /\ \A n \in 1..Len(ranges) :
                sc(n) # -1 => vote(n) = matched \/ Above2(matched, vote(n))
  BY DEF MatchedInv, SumsUp
<1>3. RangeVotes(i, Len(ranges)) =
        {<<ranges[n].q, sc(n), -i>> :
           n \in {n \in 1..Len(ranges) : ranges[n].q > 0 /\ sc(n) # -1}}
  BY DEF RangeVotes, Speaks
<1> HIDE DEF sc, vote
<1>4. CASE matched = NoMatch
  <2>1. \A n \in 1..Len(ranges) : sc(n) = -1 BY <1>2, <1>4
  <2>2. RangeVotes(i, Len(ranges)) = {} BY <1>3, <2>1
  <2>3. CASE axis = "encoding" /\ offered[i] = <<"identity">>
    <3>1. m = <<1, 0>> BY <1>4, <2>3 DEF Defaulted
    <3>2. DefaultVote(i) = {<<1, 0, -i>>} BY <2>1, <2>3 DEF DefaultVote, sc
    <3>3. Votes(i) = {<<1, 0, -i>>} BY <2>2, <3>2 DEF Votes
    <3> QED BY <3>1, <3>3 DEF IsGreatest
  <2>4. CASE ~(axis = "encoding" /\ offered[i] = <<"identity">>)
    <3>1. m = <<-1, -1>> BY <1>4, <2>4 DEF Defaulted, NoMatch
    <3>2. DefaultVote(i) = {} BY <2>4 DEF DefaultVote
    <3> QED BY <2>2, <3>1, <3>2 DEF Votes
  <2> QED BY <2>3, <2>4
<1>5. CASE matched # NoMatch
  <2>1. PICK n0 \in 1..Len(ranges) : sc(n0) # -1 /\ matched = vote(n0)
    BY <1>2, <1>5
  <2>2. \A n \in 1..Len(ranges) :
          sc(n) # -1 => vote(n) = matched \/ Above2(matched, vote(n))
    BY <1>2, <1>5
  <2>3. m = matched BY <1>5 DEF Defaulted
  <2>4. DefaultVote(i) = {} BY <2>1 DEF DefaultVote, sc
  <2>5. Votes(i) = RangeVotes(i, Len(ranges)) BY <2>4 DEF Votes
  <2>6. m[1] = ranges[n0].q /\ m[2] = sc(n0) /\ m[1] \in Int /\ m[2] \in Int
    BY <1>0, <2>1, <2>3
  <2>7. ASSUME m[1] <= 0 PROVE Votes(i) = {}
    <3>1. ASSUME NEW n \in 1..Len(ranges), ranges[n].q > 0, sc(n) # -1 PROVE FALSE
      <4>1. vote(n) = m \/ Above2(m, vote(n)) BY <2>2, <2>3, <3>1
      <4>2. vote(n)[1] \in Int /\ vote(n)[1] > 0 BY <1>0, <3>1
      <4> QED BY ONLY <2>6, <2>7, <4>1, <4>2 DEF Above2
    <3> QED BY <1>3, <2>5, <3>1
  <2>8. ASSUME m[1] > 0 PROVE IsGreatest(<<m[1], m[2], -i>>, Votes(i))
    <3>1. <<m[1], m[2], -i>> \in Votes(i) BY <1>3, <2>1, <2>5, <2>6, <2>8
    <3>2. ASSUME NEW n \in 1..Len(ranges), ranges[n].q > 0, sc(n) # -1
          PROVE  LET w == <<ranges[n].q, sc(n), -i>>
                 IN  w = <<m[1], m[2], -i>> \/ Above(<<m[1], m[2], -i>>, w)
      <4>1. vote(n) = m \/ Above2(m, vote(n)) BY <2>2, <2>3, <3>2
      <4>2. vote(n)[1] = ranges[n].q /\ vote(n)[2] = sc(n) BY <1>0
      <4>3. CASE vote(n) = m BY <4>2, <4>3
      <4>4. CASE Above2(m, vote(n)) BY <4>2, <4>4 DEF Above, Above2
      <4> QED BY <4>1, <4>3, <4>4
    <3>3. \A w \in Votes(i) :
            w = <<m[1], m[2], -i>> \/ Above(<<m[1], m[2], -i>>, w)
      BY <1>3, <2>5, <3>2
    <3> QED BY <3>1, <3>3 DEF IsGreatest
  <2> QED BY <2>6, <2>7, <2>8
<1> QED BY <1>4, <1>5

LEMMA TokenOfferInv == IInv /\ TokenOffer => IInv'
<1> SUFFICES ASSUME IInv, TokenOffer PROVE IInv' OBVIOUS
<1> DEFINE m == Defaulted(offered[i], matched)
           t == <<m[1], m[2], -i>>
<1>0. /\ TypeOK /\ phase = "select" /\ axis # "media" /\ offered # <<>> /\ ranges # <<>>
      /\ i <= Len(offered) /\ j > Len(ranges) /\ i' = i + 1 /\ j' = 1
      /\ Leads(best, bestKey, Electorate(i - 1)) /\ MatchedInv(j - 1)
      /\ matched' = NoMatch
      /\ axis' = axis /\ header' = header /\ offered' = offered /\ phase' = phase
      /\ p' = p /\ ranges' = ranges
      /\ IF m[1] <= 0 THEN UNCHANGED <<best, bestKey>> ELSE Consider(t)
  BY DEF IInv, SelectInv, TokenOffer, request
<1>1. /\ i \in Nat \ {0} /\ i \in 1..Len(offered) /\ Len(ranges) \in Nat
      /\ Len(offered) \in Nat /\ j - 1 \in 0..Len(ranges)
      /\ Electorate(i - 1) \in SUBSET Ballots /\ Votes(i) \in SUBSET Ballots
  BY <1>0, Position, VotesType
<1>2. j - 1 = Len(ranges) /\ i' - 1 = i /\ i' \in 1..(Len(offered) + 1)
      /\ j' \in 1..(Len(ranges) + 1) /\ j' - 1 = 0
  BY <1>0, <1>1 DEF TypeOK
<1>3. /\ m[1] \in Int /\ m[2] \in Int
      /\ m[1] <= 0 => Votes(i) = {}
      /\ m[1] > 0 => IsGreatest(t, Votes(i))
  <2> HIDE DEF m
  <2>1. m = Defaulted(offered[i], matched) BY DEF m
  <2> QED BY <1>0, <1>2, <2>1, OfferVote
<1>4. Electorate(i) = Electorate(i - 1) \cup Votes(i) BY <1>1, ElectorateGrows
<1>5. /\ Leads(best', bestKey', Electorate(i))
      /\ best' \in 0..Len(offered) /\ bestKey' \in (-1..1000) \X (-1..3) \X Int
  <2>0. t[3] = -i OBVIOUS
  <2> HIDE DEF m, t
  <2>1. CASE m[1] <= 0
    <3>1. Electorate(i) = Electorate(i - 1) BY <1>3, <1>4, <2>1
    <3>2. best' = best /\ bestKey' = bestKey BY <1>0, <2>1
    <3> QED BY <1>0, <3>1, <3>2 DEF TypeOK
  <2>2. CASE m[1] > 0
    <3>1. Consider(t) BY <1>0, <1>3, <2>2
    <3>2. IsGreatest(t, Votes(i)) BY <1>3, <2>2
    <3>3. t \in Ballots BY <1>1, <3>2 DEF IsGreatest
    <3>4. Leads(best', bestKey', Electorate(i - 1) \cup Votes(i))
      BY <1>0, <1>1, <2>0, <3>1, <3>2, ConsiderLeads
    <3> QED BY <1>0, <1>1, <1>4, <3>1, <3>3, <3>4, ConsiderType
  <2> QED BY <1>3, <2>1, <2>2
<1>6. TypeOK' BY <1>0, <1>2, <1>5 DEF TypeOK, Parts, NoMatch
<1>7. MatchedInv(j - 1)'
  <2>1. 1..0 = {} OBVIOUS
  <2> QED BY <1>0, <1>2, <2>1 DEF MatchedInv, SumsUp
<1>8. SelectInv'
  <2>1. Electorate(i - 1)' = Electorate(i' - 1) BY <1>0, VotesStay
  <2>2. Electorate(i - 1)' = Electorate(i) BY <1>2, <2>1
  <2> QED BY <1>0, <1>5, <1>7, <2>2 DEF SelectInv
<1> QED BY <1>0, <1>6, <1>8 DEF IInv, ParseInv, ChosenIsBest

\* Past the last offer, the leading vote is the greatest of all.
LEMMA SelectedInv == IInv /\ Selected => IInv'
<1> SUFFICES ASSUME IInv, Selected PROVE IInv' OBVIOUS
<1>0. /\ TypeOK /\ phase = "select" /\ ranges # <<>> /\ i > Len(offered) /\ j = 1
      /\ axis = "media" =>
           Leads(best, bestKey, Electorate(i - 1) \cup RangeVotes(i, j - 1))
      /\ axis # "media" => Leads(best, bestKey, Electorate(i - 1))
      /\ phase' = "done" /\ UNCHANGED <<axis, header, offered, p, ranges, i, j, matched,
                                        best, bestKey>>
  BY DEF IInv, SelectInv, Selected, request
<1>1. Len(offered) \in Nat /\ i - 1 = Len(offered)
  BY <1>0, LenProperties DEF TypeOK
<1>2. Leads(best, bestKey, Electorate(Len(offered)))
  <2>1. RangeVotes(i, j - 1) = {} BY <1>0, NobodyYet
  <2> QED BY <1>0, <1>1, <2>1
<1>3. \/ best = 0 /\ Electorate(Len(offered)) = {}
      \/ \E v \in Votes(best) : IsGreatest(v, Electorate(Len(offered)))
  <2>1. CASE best = 0 BY <1>2, <2>1 DEF Leads
  <2>2. CASE best # 0
    <3>1. bestKey[3] = -best /\ IsGreatest(bestKey, Electorate(Len(offered)))
      BY <1>2, <2>2 DEF Leads
    <3>2. PICK k \in 1..Len(offered) : bestKey \in Votes(k)
      BY <3>1 DEF IsGreatest, Electorate
    <3>3. bestKey[3] = -k
      BY <3>2 DEF Votes, RangeVotes, DefaultVote
    <3>4. k = best BY <1>0, <1>1, <3>1, <3>3 DEF TypeOK
    <3> QED BY <3>1, <3>2, <3>4
  <2> QED BY <2>1, <2>2
<1>4. TypeOK' BY <1>0 DEF TypeOK, Parts
<1>5. ChosenIsBest'
  <2>1. /\ Votes(best)' = Votes(best)
        /\ Electorate(Len(offered))' = Electorate(Len(offered))
    BY <1>0 DEF Electorate, Votes, RangeVotes, DefaultVote, Speaks, Score
  <2> QED BY <1>0, <1>3, <2>1 DEF ChosenIsBest, IsGreatest, Above, Above2
<1> QED BY <1>0, <1>4, <1>5 DEF IInv, ParseInv, SelectInv

LEMMA StutterInv == IInv /\ UNCHANGED vars => IInv'
<1> SUFFICES ASSUME IInv, UNCHANGED vars PROVE IInv' OBVIOUS
<1>1. TypeOK' BY DEF IInv, vars, TypeOK, Parts
<1>2. ParseInv' BY DEF IInv, vars, ParseInv
<1>0. /\ axis' = axis /\ offered' = offered /\ ranges' = ranges /\ phase' = phase
      /\ i' = i /\ j' = j /\ matched' = matched /\ best' = best /\ bestKey' = bestKey
  BY DEF vars
<1>3. SelectInv'
  <2>1. /\ Electorate(i - 1)' = Electorate(i - 1)
        /\ RangeVotes(i, j - 1)' = RangeVotes(i, j - 1)
    BY <1>0, VotesStay
  <2>2. \A n : Score(ranges[n].range, offered[i])' = Score(ranges[n].range, offered[i])
    BY <1>0 DEF Score
  <2>3. MatchedInv(j - 1)' <=> MatchedInv(j - 1)
    BY <1>0, <2>2 DEF MatchedInv, SumsUp, Above2
  <2> QED BY <1>0, <2>1, <2>3 DEF IInv, SelectInv
<1>4. ChosenIsBest'
  <2>1. /\ Votes(best)' = Votes(best)
        /\ Electorate(Len(offered))' = Electorate(Len(offered))
    BY <1>0, VotesStay
  <2> QED BY <1>0, <2>1 DEF IInv, ChosenIsBest, IsGreatest, Above, Above2
<1> QED BY <1>1, <1>2, <1>3, <1>4 DEF IInv

\* IInv holds in every reachable state.
THEOREM NegotiationInductive == Spec => []IInv
<1>1. IInv /\ [Next]_vars => IInv'
  <2> SUFFICES ASSUME IInv, [Next]_vars PROVE IInv' OBVIOUS
  <2>1. CASE NoOffers \/ ParsePart \/ ParseEnds BY <2>1, Parsing
  <2>2. CASE MediaRange BY <2>2, MediaRangeInv
  <2>3. CASE MediaOffer BY <2>3, MediaOfferInv
  <2>4. CASE TokenRange BY <2>4, TokenRangeInv
  <2>5. CASE TokenOffer BY <2>5, TokenOfferInv
  <2>6. CASE Selected BY <2>6, SelectedInv
  <2>7. CASE Done \/ UNCHANGED vars BY <2>7, StutterInv DEF Done
  <2> QED BY <2>1, <2>2, <2>3, <2>4, <2>5, <2>6, <2>7 DEF Next
<1> QED BY InitInv, <1>1, PTL DEF Spec

\* Type correctness; in particular no more than MaxRanges ranges are kept.
THEOREM NegotiationTypeCorrect == Spec => []TypeOK
<1>1. IInv => TypeOK BY DEF IInv
<1> QED BY <1>1, NegotiationInductive, PTL

\* Whatever the header and the offers, the answer is the greatest vote.
THEOREM SelectionIsBest == Spec => []ChosenIsBest
<1>1. IInv => ChosenIsBest BY DEF IInv
<1> QED BY <1>1, NegotiationInductive, PTL

-----------------------------------------------------------------------------
(***************************************************************************)
(* Parsing.  The n-th well-formed part becomes the range number            *)
(* Cardinality(Kept(n)): the loop keeps that count in the length of what   *)
(* it has built, and stops at MaxRanges of them.                           *)
(***************************************************************************)
\* The part n of the header is the range at its place.
Carried(n) ==
  LET r == ranges[Cardinality(Kept(n))]
  IN  r.range = header[n].range /\ r.q = Clamp(header[n].q)

ParsedSoFar ==
  phase = "parse" =>
    /\ Len(ranges) = Cardinality(Kept(p - 1))
    /\ \A n \in Kept(p - 1) : Carried(n)

FaithInv == ParsedSoFar /\ ParseIsFaithful

\* Counting the well-formed parts.
LEMMA KeptCounts ==
  ASSUME NEW n \in Nat
  PROVE  IsFiniteSet(Kept(n)) /\ Cardinality(Kept(n)) \in Nat
<1>1. IsFiniteSet(1..n) BY FS_Interval
<1>2. Kept(n) \subseteq 1..n BY DEF Kept
<1> QED BY <1>1, <1>2, FS_Subset, FS_CardinalityType

LEMMA KeptMonotonic ==
  ASSUME NEW n \in Nat, NEW m \in Nat, m <= n
  PROVE  Kept(m) \subseteq Kept(n) /\ Cardinality(Kept(m)) <= Cardinality(Kept(n))
<1>1. Kept(m) \subseteq Kept(n) BY DEF Kept
<1> QED BY <1>1, KeptCounts, FS_Subset

LEMMA KeptGrows ==
  ASSUME NEW n \in Nat \ {0}
  PROVE  /\ n \notin Kept(n - 1)
         /\ WellFormed(header[n]) =>
              /\ Kept(n) = Kept(n - 1) \cup {n}
              /\ Cardinality(Kept(n)) = Cardinality(Kept(n - 1)) + 1
         /\ ~WellFormed(header[n]) => Kept(n) = Kept(n - 1)
<1>1. 1..n = (1..(n - 1)) \cup {n} OBVIOUS
<1>2. n \notin Kept(n - 1) BY DEF Kept
<1>3. ASSUME WellFormed(header[n]) PROVE Kept(n) = Kept(n - 1) \cup {n}
  BY <1>1, <1>3, Zenon DEF Kept
<1>4. ASSUME ~WellFormed(header[n]) PROVE Kept(n) = Kept(n - 1)
  BY <1>1, <1>4, Zenon DEF Kept
<1>5. n - 1 \in Nat OBVIOUS
<1>6. Cardinality(Kept(n - 1) \cup {n}) = Cardinality(Kept(n - 1)) + 1
  BY <1>2, <1>5, KeptCounts, FS_AddElement
<1> QED BY <1>2, <1>3, <1>4, <1>6

\* Every part kept has its place among the first of them.
LEMMA PlaceOfKept ==
  ASSUME NEW n \in Nat, NEW m \in Kept(n)
  PROVE  Cardinality(Kept(m)) \in 1..Cardinality(Kept(n))
<1>1. m \in Nat \ {0} /\ m <= n /\ WellFormed(header[m]) BY DEF Kept
<1>2. m - 1 \in Nat BY <1>1
<1>3. Cardinality(Kept(m)) = Cardinality(Kept(m - 1)) + 1 BY <1>1, KeptGrows
<1>4. Cardinality(Kept(m - 1)) \in Nat /\ Cardinality(Kept(n)) \in Nat
  BY <1>2, KeptCounts
<1>5. Cardinality(Kept(m)) <= Cardinality(Kept(n)) BY <1>1, KeptMonotonic
<1> QED BY <1>3, <1>4, <1>5

\* Nothing but the request and the ranges matters to what was kept.
LEMMA KeptStays ==
  ASSUME axis' = axis, header' = header
  PROVE  \A n : Kept(n)' = Kept(n)
  BY DEF Kept, WellFormed

LEMMA FaithInit == Init => FaithInv
<1> SUFFICES ASSUME Init PROVE FaithInv OBVIOUS
<1>1. Kept(0) = {} BY DEF Kept
<1>2. p - 1 = 0 /\ Len(ranges) = 0 /\ phase = "parse" BY DEF Init
<1> QED BY <1>1, <1>2, FS_EmptySet DEF FaithInv, ParsedSoFar, ParseIsFaithful

LEMMA FaithParsePart == TypeOK /\ FaithInv /\ ParsePart => FaithInv'
<1> SUFFICES ASSUME TypeOK, FaithInv, ParsePart PROVE FaithInv' OBVIOUS
<1> DEFINE e == [range |-> header[p].range, q |-> Clamp(header[p].q)]
<1>0. /\ phase = "parse" /\ phase' = "parse" /\ axis' = axis /\ header' = header
      /\ p \in Nat \ {0} /\ p' = p + 1 /\ p' - 1 = p /\ p - 1 \in Nat
  BY LenProperties DEF ParsePart, request, TypeOK
<1>1. /\ Len(ranges) = Cardinality(Kept(p - 1)) /\ ranges \in Seq(Parsed)
      /\ \A n \in Kept(p - 1) : Carried(n)
  BY <1>0 DEF FaithInv, ParsedSoFar, TypeOK
<1>2. \A n : Kept(n)' = Kept(n) BY <1>0, KeptStays
<1>3. CASE WellFormed(header[p])
  <2>1. ranges' = Append(ranges, e) BY <1>3 DEF ParsePart
  <2>2. /\ Kept(p) = Kept(p - 1) \cup {p}
        /\ Cardinality(Kept(p)) = Cardinality(Kept(p - 1)) + 1
    BY <1>0, <1>3, KeptGrows
  <2>3. e \in Parsed
    <3>1. p \in 1..Len(header) BY <1>0, LenProperties DEF ParsePart, TypeOK
    <3>2. header[p] \in Parts(axis) BY <3>1, ElementOfSeq DEF TypeOK
    <3>3. Clamp(header[p].q) \in 0..1000 BY ClampType
    <3> QED BY <3>2, <3>3 DEF Parts, Parsed, TypeOK
  <2>4. /\ Len(ranges') = Len(ranges) + 1 /\ ranges'[Len(ranges) + 1] = e
        /\ \A k \in 1..Len(ranges) : ranges'[k] = ranges[k]
    <3> HIDE DEF e
    <3> QED BY <1>1, <2>1, <2>3, AppendProperties
  <2>5. Len(ranges') = Cardinality(Kept(p)) BY <1>1, <2>2, <2>4
  <2>6. ASSUME NEW n \in Kept(p) PROVE Carried(n)'
    <3>1. CASE n = p
      <4>1. ranges'[Cardinality(Kept(n))] = e BY <1>1, <2>2, <2>4, <3>1
      <4> QED BY <1>0, <1>2, <3>1, <4>1 DEF Carried
    <3>2. CASE n \in Kept(p - 1)
      <4>1. Cardinality(Kept(n)) \in 1..Len(ranges)
        BY <1>0, <1>1, <3>2, PlaceOfKept
      <4>2. ranges'[Cardinality(Kept(n))] = ranges[Cardinality(Kept(n))]
        BY <2>4, <4>1
      <4> QED BY <1>0, <1>1, <1>2, <3>2, <4>2 DEF Carried
    <3> QED BY <2>2, <3>1, <3>2
  <2> QED BY <1>0, <1>2, <2>5, <2>6
          DEF FaithInv, ParsedSoFar, ParseIsFaithful
<1>4. CASE ~WellFormed(header[p])
  <2>1. ranges' = ranges /\ Kept(p) = Kept(p - 1)
    BY <1>0, <1>4, KeptGrows DEF ParsePart
  <2>2. \A n : Carried(n)' <=> Carried(n) BY <1>0, <1>2, <2>1 DEF Carried
  <2> QED BY <1>0, <1>1, <1>2, <2>1, <2>2
          DEF FaithInv, ParsedSoFar, ParseIsFaithful
<1> QED BY <1>3, <1>4

LEMMA FaithParseEnds == TypeOK /\ FaithInv /\ ParseEnds => FaithInv'
<1> SUFFICES ASSUME TypeOK, FaithInv, ParseEnds PROVE FaithInv' OBVIOUS
<1>0. /\ phase = "parse" /\ phase' # "parse" /\ axis' = axis /\ header' = header
      /\ ranges' = ranges /\ Len(header) \in Nat
      /\ p \in Nat \ {0} /\ p - 1 \in 0..Len(header)
      /\ p > Len(header) \/ Len(ranges) >= MaxRanges
      /\ Len(ranges) <= MaxRanges /\ Len(ranges) \in Nat /\ MaxRanges \in Nat
  BY LenProperties, MaxRangesAssumption DEF ParseEnds, Room, request, TypeOK
<1>1. /\ Len(ranges) = Cardinality(Kept(p - 1))
      /\ \A n \in Kept(p - 1) : Carried(n)
  BY <1>0 DEF FaithInv, ParsedSoFar
<1>2. \A n : Kept(n)' = Kept(n) BY <1>0, KeptStays
<1> DEFINE all == Cardinality(Kept(Len(header)))
<1>3. all \in Nat /\ Cardinality(Kept(p - 1)) <= all
  BY <1>0, KeptCounts, KeptMonotonic
<1>4. Len(ranges) = IF all < MaxRanges THEN all ELSE MaxRanges
  <2>1. CASE p > Len(header)
    <3>1. p - 1 = Len(header) BY <1>0, <2>1
    <3>2. all = Len(ranges) BY <1>1, <3>1
    <3> HIDE DEF all
    <3> QED BY <1>0, <3>2
  <2>2. CASE Len(ranges) >= MaxRanges
    <3> HIDE DEF all
    <3> QED BY <1>0, <1>1, <1>3, <2>2
  <2> QED BY <1>0, <2>1, <2>2
<1>5. ASSUME NEW n \in Kept(Len(header)), Cardinality(Kept(n)) <= MaxRanges
      PROVE  Carried(n)
  <2>1. n \in 1..Len(header) /\ n \in Nat \ {0} /\ WellFormed(header[n])
    BY <1>0 DEF Kept
  <2>2. CASE n <= p - 1 BY <1>0, <1>1, <2>1, <2>2 DEF Kept
  <2>3. CASE n > p - 1
    <3>1. n - 1 \in Nat /\ p - 1 \in Nat /\ p - 1 <= n - 1 BY <1>0, <2>1, <2>3
    <3>2. Cardinality(Kept(p - 1)) <= Cardinality(Kept(n - 1))
      BY <3>1, KeptMonotonic
    <3>3. Cardinality(Kept(n)) = Cardinality(Kept(n - 1)) + 1
      BY <2>1, KeptGrows
    <3>4. Cardinality(Kept(n - 1)) \in Nat BY <3>1, KeptCounts
    <3>5. Len(ranges) >= MaxRanges BY <1>0, <2>1, <2>3
    <3> QED BY <1>0, <1>1, <3>2, <3>3, <3>4, <3>5, <1>5
  <2> QED BY <1>0, <2>1, <2>2, <2>3
<1>6. \A n : Carried(n)' <=> Carried(n) BY <1>0, <1>2 DEF Carried
<1>7. ParseIsFaithful'
  BY <1>0, <1>2, <1>4, <1>5, <1>6 DEF ParseIsFaithful, Carried
<1> QED BY <1>0, <1>7 DEF FaithInv, ParsedSoFar

\* No other step touches the header or the ranges.
LEMMA FaithKept ==
  ASSUME FaithInv, axis' = axis, header' = header, ranges' = ranges,
         \/ phase' = phase /\ p' = p
         \/ phase' = "done"
         \/ phase = "select" /\ phase' = "select"
  PROVE  FaithInv'
<1>1. \A n : Kept(n)' = Kept(n) BY KeptStays
<1>2. \A n : Carried(n)' <=> Carried(n) BY <1>1 DEF Carried
<1> QED BY <1>1, <1>2 DEF FaithInv, ParsedSoFar, ParseIsFaithful, Carried

\* negotiation.py:45-62: whatever the header, selection sees exactly its first
\* MaxRanges well-formed parts, in their order, with q-values in [0, 1].
THEOREM ParsingIsFaithful == Spec => []ParseIsFaithful
<1>1. TypeOK /\ FaithInv /\ [Next]_vars => FaithInv'
  <2> SUFFICES ASSUME TypeOK, FaithInv, [Next]_vars PROVE FaithInv' OBVIOUS
  <2>1. CASE ParsePart BY <2>1, FaithParsePart
  <2>2. CASE ParseEnds BY <2>2, FaithParseEnds
  <2>3. CASE NoOffers BY <2>3, FaithKept DEF NoOffers, request
  <2>4. CASE MediaRange BY <2>4, FaithKept DEF MediaRange, request
  <2>5. CASE MediaOffer BY <2>5, FaithKept DEF MediaOffer, request
  <2>6. CASE TokenRange BY <2>6, FaithKept DEF TokenRange, request
  <2>7. CASE TokenOffer BY <2>7, FaithKept DEF TokenOffer, request
  <2>8. CASE Selected BY <2>8, FaithKept DEF Selected, request
  <2>9. CASE UNCHANGED vars \/ Done BY <2>9, FaithKept DEF vars, Done
  <2> QED BY <2>1, <2>2, <2>3, <2>4, <2>5, <2>6, <2>7, <2>8, <2>9 DEF Next
<1>2. FaithInv => ParseIsFaithful BY DEF FaithInv
<1> QED BY FaithInit, <1>1, <1>2, NegotiationTypeCorrect, PTL DEF Spec
=============================================================================
