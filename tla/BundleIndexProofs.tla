------------------------- MODULE BundleIndexProofs -------------------------
(***************************************************************************)
(* What search, strategy and bundle index promise for any bundles, links,  *)
(* manifests, messages and settings.                                       *)
(***************************************************************************)
EXTENDS BundleIndex, FunctionTheorems, FiniteSetTheorems, WellFoundedInduction, TLAPS

-----------------------------------------------------------------------------
(* Numbers and finite sets *)

LEMMA LeastNumber ==
    ASSUME NEW S \in SUBSET Nat, S # {}
    PROVE  \E m \in S : \A n \in S : m <= n
<1> DEFINE R == OpToRel(<, Nat)
<1>1. IsWellFoundedOn(R, Nat)
  BY NatLessThanWellFounded
<1>2. PICK m \in S : \A n \in S : ~(<<n, m>> \in R)
  <2> HIDE DEF R
  <2> QED BY <1>1, WFMin
<1>3. \A n \in S : n < m => <<n, m>> \in R
  BY DEF OpToRel
<1> HIDE DEF R
<1>4. \A n \in S : ~(n < m)
  BY <1>2, <1>3
<1> QED BY <1>4

LEMMA GreatestNumber ==
    ASSUME NEW S \in SUBSET Nat, S # {}, NEW bound \in Nat, \A n \in S : n <= bound
    PROVE  Max(S) \in S /\ \A n \in S : Max(S) >= n
<1> DEFINE T == {bound - n : n \in S}
<1>1. T \in SUBSET Nat /\ T # {}
  <2>1. \A n \in S : bound - n \in Nat
    OBVIOUS
  <2>2. PICK n \in S : TRUE
    OBVIOUS
  <2>3. bound - n \in T
    OBVIOUS
  <2> QED BY <2>1, <2>3
<1>2. PICK least \in T : \A d \in T : least <= d
  <2> HIDE DEF T
  <2> QED BY <1>1, LeastNumber
<1>3. PICK m \in S : least = bound - m
  BY <1>2
<1>4. \A n \in S : m >= n
  BY <1>2, <1>3
<1> QED BY <1>4 DEF Max

LEMMA LesserOfTwo ==
    ASSUME NEW m \in Int, NEW n \in Int
    PROVE  Min({m, n}) \in Int /\ Min({m, n}) <= m /\ Min({m, n}) <= n
<1> DEFINE S == {m, n}
<1>1. \E x \in S : \A y \in S : x <= y
  OBVIOUS
<1>2. Min(S) \in S /\ \A y \in S : Min(S) <= y
  <2> HIDE DEF S
  <2> QED BY <1>1 DEF Min
<1> QED BY <1>2

LEMMA IntervalSize ==
    ASSUME NEW n \in Nat
    PROVE  IsFiniteSet(1 .. n) /\ Cardinality(1 .. n) = n
<1>1. 1 \in Int /\ n \in Int
  OBVIOUS
<1>2. IsFiniteSet(1 .. n) /\ Cardinality(1 .. n) = IF 1 > n THEN 0 ELSE n - 1 + 1
  BY <1>1, FS_Interval
<1> QED BY <1>2

(* A finite set with a strict total order has a first element. *)
LEMMA FirstElement ==
    ASSUME NEW T, IsFiniteSet(T), T # {}, NEW R,
           \A x \in T : <<x, x>> \notin R,
           \A x, y \in T : x # y => <<x, y>> \in R \/ <<y, x>> \in R,
           \A x, y, z \in T : <<x, y>> \in R /\ <<y, z>> \in R => <<x, z>> \in R
    PROVE  \E x \in T : \A y \in T \ {x} : <<x, y>> \in R
<1> DEFINE Below(x) == {y \in T : <<y, x>> \in R}
           Ranks == {Cardinality(Below(x)) : x \in T}
<1>1. \A x \in T : IsFiniteSet(Below(x)) /\ Cardinality(Below(x)) \in Nat
  <2> TAKE x \in T
  <2>1. Below(x) \in SUBSET T
    OBVIOUS
  <2>2. IsFiniteSet(Below(x))
    BY <2>1, FS_Subset
  <2> QED BY <2>2, FS_CardinalityType
<1>2. PICK rank \in Ranks : \A r \in Ranks : rank <= r
  <2>1. Ranks \in SUBSET Nat /\ Ranks # {}
    <3> HIDE DEF Below
    <3>1. PICK x \in T : TRUE
      OBVIOUS
    <3>2. Cardinality(Below(x)) \in Ranks
      OBVIOUS
    <3> QED BY <1>1, <3>2
  <2> HIDE DEF Ranks
  <2> QED BY <2>1, LeastNumber
<1>3. PICK x \in T : rank = Cardinality(Below(x))
  BY <1>2
<1>4. ASSUME NEW y \in T \ {x}, <<x, y>> \notin R
      PROVE  FALSE
  <2>1. <<y, x>> \in R
    BY <1>4
  <2>2. Below(y) \in SUBSET Below(x) /\ y \in Below(x) /\ y \notin Below(y)
    BY <2>1
  <2>3. /\ Cardinality(Below(y)) <= Cardinality(Below(x))
        /\ Cardinality(Below(x)) = Cardinality(Below(y)) => Below(x) = Below(y)
    <3> HIDE DEF Below
    <3> QED BY <1>1, <2>2, FS_Subset
  <2>4. rank <= Cardinality(Below(y))
    <3> HIDE DEF Below
    <3> QED BY <1>2
  <2> QED BY <1>1, <1>3, <2>2, <2>3, <2>4
<1> QED BY <1>4

(* A share of n, in units. *)
LEMMA ShareBound ==
    ASSUME NEW unit \in Nat, NEW n \in Nat, n > 0, NEW k \in 0 .. n
    PROVE  (unit * k) \div n \in 0 .. unit
<1>1. PICK q \in Int, r \in Int : q = (unit * k) \div n /\ r = (unit * k) % n
  OBVIOUS
<1>2. unit * k = q * n + r /\ 0 <= r /\ r < n
  BY <1>1
<1>3. 0 <= unit * k /\ unit * k <= unit * n
  <2>1. unit * (n - k) >= 0 /\ unit * k >= 0
    OBVIOUS
  <2>2. unit * (n - k) = unit * n - unit * k
    OBVIOUS
  <2> QED BY <2>1, <2>2
<1>4. q >= 0
  <2>1. q < 0 => q * n <= -n
    OBVIOUS
  <2> QED BY <1>2, <1>3, <2>1
<1>5. q <= unit
  <2>1. q > unit => (q - unit) * n >= n
    OBVIOUS
  <2>2. (q - unit) * n = q * n - unit * n
    OBVIOUS
  <2> QED BY <1>2, <1>3, <2>1, <2>2
<1> QED BY <1>1, <1>4, <1>5

LEMMA WholeShare ==
    ASSUME NEW unit \in Nat, NEW n \in Nat, n > 0
    PROVE  (unit * n) \div n = unit
<1>1. PICK q \in Int, r \in Int : q = (unit * n) \div n /\ r = (unit * n) % n
  OBVIOUS
<1>2. unit * n = q * n + r /\ 0 <= r /\ r < n
  BY <1>1
<1>3. (unit - q) * n = unit * n - q * n
  OBVIOUS
<1>4. unit - q > 0 => (unit - q) * n >= n
  OBVIOUS
<1>5. unit - q < 0 => (unit - q) * n <= -n
  OBVIOUS
<1> QED BY <1>1, <1>2, <1>3, <1>4, <1>5

LEMMA PositiveUnit == Unit \in Nat /\ Unit > 0 /\ 0 .. Unit \subseteq Nat /\ 0 .. 10 * Unit \subseteq Int
BY SharesAreWhole

LEMMA Shares ==
    ASSUME NEW n \in Nat, n > 0, NEW k \in 0 .. n
    PROVE  /\ (Unit * k) \div n \in 0 .. Unit
           /\ k = 0 => (Unit * k) \div n = 0
           /\ k = n => (Unit * k) \div n = Unit
<1>1. Unit \in Nat
  BY SharesAreWhole
<1>2. (Unit * k) \div n \in 0 .. Unit
  BY <1>1, ShareBound
<1>3. (Unit * n) \div n = Unit
  BY <1>1, WholeShare
<1>4. k = 0 => Unit * k = 0
  BY <1>1
<1>5. 0 \div n = 0
  OBVIOUS
<1> QED BY <1>2, <1>3, <1>4, <1>5

-----------------------------------------------------------------------------
(* Scores *)

LEMMA OverlapIsPartial ==
    ASSUME NEW a \in Texts, NEW b
    PROVE  /\ Overlap(a, b) \in 0 .. Len(a)
           /\ Overlap(a, a) = Len(a)
<1> DEFINE shared == {i \in DOMAIN a : Contains(b, a[i])}
           own == {i \in DOMAIN a : Contains(a, a[i])}
<1>1. Len(a) \in Nat /\ DOMAIN a = 1 .. Len(a)
  BY DEF Texts
<1>2. IsFiniteSet(1 .. Len(a)) /\ Cardinality(1 .. Len(a)) = Len(a)
  BY <1>1, IntervalSize
<1>3. shared \in SUBSET (1 .. Len(a)) /\ own = 1 .. Len(a)
  BY <1>1 DEF Contains
<1> HIDE DEF shared, own
<1>4. Cardinality(shared) \in Nat /\ Cardinality(shared) <= Len(a)
  <2>1. IsFiniteSet(shared) /\ Cardinality(shared) <= Cardinality(1 .. Len(a))
    BY <1>2, <1>3, FS_Subset
  <2> QED BY <1>2, <2>1, FS_CardinalityType
<1>5. Overlap(a, b) = Cardinality(shared) /\ Overlap(a, a) = Cardinality(own)
  BY DEF Overlap, shared, own
<1> QED BY <1>1, <1>2, <1>3, <1>4, <1>5

LEMMA OverlapScoreIsAShare ==
    ASSUME NEW query \in Messages, NEW corpus
    PROVE  /\ OverlapScore(query, corpus) \in 0 .. Unit
           /\ corpus = query /\ query # <<>> => OverlapScore(query, corpus) = Unit
<1>1. query \in Texts /\ Len(query) \in Nat /\ (query # <<>> => Len(query) > 0)
  BY MessagesAreTexts DEF Texts
<1>2. Overlap(query, corpus) \in 0 .. Len(query) /\ Overlap(query, query) = Len(query)
  BY <1>1, OverlapIsPartial
<1>3. query # <<>> => (Unit * Overlap(query, corpus)) \div Len(query) \in 0 .. Unit
  BY <1>1, <1>2, Shares
<1>4. query # <<>> => (Unit * Overlap(query, query)) \div Len(query) = Unit
  BY <1>1, <1>2, Shares
<1>5. 0 \in 0 .. Unit
  BY SharesAreWhole
<1> QED BY <1>3, <1>4, <1>5 DEF OverlapScore

LEMMA SimilarityIsAShare ==
    ASSUME NEW a \in Texts, NEW b \in Texts
    PROVE  /\ TokenSimilarity(a, b) \in 0 .. Unit
           /\ TokenSimilarity(a, b) > 0 => Overlap(a, b) > 0
           /\ a # <<>> => TokenSimilarity(a, a) = Unit
<1>1. Len(a) \in Nat /\ Len(b) \in Nat /\ (a # <<>> => Len(a) > 0)
  BY DEF Texts
<1>2. /\ Max({Len(a), Len(b)}) \in {Len(a), Len(b)} /\ Max({Len(a), Len(b)}) >= Len(a)
      /\ Max({Len(a), Len(a)}) = Len(a)
  BY <1>1 DEF Max
<1>3. Overlap(a, b) \in 0 .. Len(a) /\ Overlap(a, a) = Len(a)
  BY OverlapIsPartial
<1>4. CASE a = <<>> \/ b = <<>>
  BY <1>1, <1>2, <1>3, <1>4, Shares DEF TokenSimilarity
<1>5. CASE a # <<>> /\ b # <<>>
  <2>1. PICK n \in Nat : n = Max({Len(a), Len(b)}) /\ n > 0 /\ n >= Len(a)
    BY <1>1, <1>2, <1>5
  <2>2. PICK k \in 0 .. n : k = Overlap(a, b)
    BY <1>1, <1>3, <2>1
  <2>3. TokenSimilarity(a, b) = (Unit * k) \div n
    BY <1>5, <2>1, <2>2 DEF TokenSimilarity
  <2>4. (Unit * k) \div n \in 0 .. Unit /\ (k = 0 => (Unit * k) \div n = 0)
    BY <2>1, Shares
  <2>5. TokenSimilarity(a, a) = Unit
    BY <1>1, <1>2, <1>3, <1>5, Shares DEF TokenSimilarity
  <2> QED BY <2>2, <2>3, <2>4, <2>5
<1> QED BY <1>4, <1>5

LEMMA HintIsAShare ==
    ASSUME NEW e \in EntriesV2, NEW query \in Messages
    PROVE  /\ ScoreHint(e, query) \in 0 .. Unit
           /\ e.title = query /\ query # <<>> => ScoreHint(e, query) = Unit
<1> DEFINE shares == {OverlapScore(query, e.title), OverlapScore(query, FlattenSeq(e.tags)),
                      OverlapScore(query, FlattenSeq(e.utterances))}
<1>1. shares \subseteq 0 .. Unit /\ OverlapScore(query, e.title) \in shares
  BY OverlapScoreIsAShare
<1>2. e.title = query /\ query # <<>> => Unit \in shares
  BY OverlapScoreIsAShare
<1> HIDE DEF shares
<1>3. Max(shares) \in shares /\ \A n \in shares : Max(shares) >= n
  <2>1. shares \in SUBSET Nat /\ shares # {} /\ \A n \in shares : n <= Unit
    BY <1>1, PositiveUnit
  <2> QED BY <2>1, PositiveUnit, GreatestNumber
<1>4. Unit \in shares => Max(shares) = Unit
  <2>1. PICK m \in 0 .. Unit : m = Max(shares)
    BY <1>1, <1>3
  <2>2. Unit \in shares => m >= Unit
    BY <1>3, <2>1
  <2> QED BY <2>1, <2>2, PositiveUnit
<1> QED BY <1>1, <1>2, <1>3, <1>4 DEF ScoreHint, shares

(* A score is a share of ten units, of which tags and hint make up three.   *)
LEMMA ScoreIsAShare ==
    ASSUME NEW c, c.title \in Texts, c.tags \in Seq(Texts), c.score_hint \in 0 .. Unit,
           NEW query \in Messages
    PROVE  /\ Score(c, query) \in 0 .. 10 * Unit
           /\ Score(c, query) > 3 * Unit => Overlap(query, c.title) > 0
<1> DEFINE shares == {0} \cup {TokenSimilarity(query, t) : t \in ToSet(c.tags)}
<1>1. query \in Texts /\ \A t \in ToSet(c.tags) : t \in Texts
  BY MessagesAreTexts DEF ToSet
<1>2. shares \subseteq 0 .. Unit /\ 0 \in shares
  <2>1. \A t \in ToSet(c.tags) : TokenSimilarity(query, t) \in 0 .. Unit
    BY <1>1, SimilarityIsAShare
  <2> QED BY <2>1, PositiveUnit
<1> HIDE DEF shares
<1>3. Max(shares) \in 0 .. Unit
  <2>1. shares \in SUBSET Nat /\ shares # {} /\ \A n \in shares : n <= Unit
    BY <1>2, PositiveUnit
  <2>2. Max(shares) \in shares
    BY <2>1, PositiveUnit, GreatestNumber
  <2> QED BY <1>2, <2>2
<1>4. /\ TokenSimilarity(query, c.title) \in 0 .. Unit
      /\ TokenSimilarity(query, c.title) > 0 => Overlap(query, c.title) > 0
  BY <1>1, SimilarityIsAShare
<1>5. Score(c, query) = 7 * TokenSimilarity(query, c.title) + 2 * Max(shares) + c.score_hint
  BY DEF Score, shares
<1>6. PICK title \in 0 .. Unit, tag \in 0 .. Unit, hint \in 0 .. Unit :
         /\ Score(c, query) = 7 * title + 2 * tag + hint
         /\ title > 0 => Overlap(query, c.title) > 0
  BY <1>3, <1>4, <1>5
<1>7. 7 * title + 2 * tag + hint \in 0 .. 10 * Unit /\ (7 * title + 2 * tag + hint > 3 * Unit => title > 0)
  BY PositiveUnit
<1> QED BY <1>6, <1>7

-----------------------------------------------------------------------------
(* The two sorts *)

Named(c) == c.target \in Nat \X Nat /\ c.flow_id \in Nat

LEMMA NamesAreOrdered ==
    ASSUME NEW a, NEW b, NEW c, Named(a), Named(b), Named(c)
    PROVE  /\ ~Precedes(a, a) /\ SameName(a, a)
           /\ Precedes(a, b) \/ Precedes(b, a) \/ SameName(a, b)
           /\ Precedes(a, b) => ~Precedes(b, a) /\ ~SameName(a, b) /\ ~SameName(b, a)
           /\ SameName(a, b) => SameName(b, a)
           /\ Precedes(a, b) /\ Precedes(b, c) => Precedes(a, c)
           /\ Precedes(a, b) /\ SameName(b, c) => Precedes(a, c)
           /\ SameName(a, b) /\ Precedes(b, c) => Precedes(a, c)
           /\ SameName(a, b) /\ SameName(b, c) => SameName(a, c)
<1>1. /\ a.target[1] \in Nat /\ a.target[2] \in Nat /\ a.flow_id \in Nat
      /\ b.target[1] \in Nat /\ b.target[2] \in Nat /\ b.flow_id \in Nat
      /\ c.target[1] \in Nat /\ c.target[2] \in Nat /\ c.flow_id \in Nat
  BY DEF Named
<1>2. /\ a.target = b.target <=> a.target[1] = b.target[1] /\ a.target[2] = b.target[2]
      /\ b.target = c.target <=> b.target[1] = c.target[1] /\ b.target[2] = c.target[2]
      /\ a.target = c.target <=> a.target[1] = c.target[1] /\ a.target[2] = c.target[2]
  BY DEF Named
<1> QED BY <1>1, <1>2 DEF Precedes, SameName

-----------------------------------------------------------------------------
(* Candidates *)

CandidateAt(entries, query, i) == Candidate(entries[i], i, ScoreHint(entries[i], query))

(* c is the candidate of its entry. *)
IsCandidate(entries, query, c) ==
    /\ c.place \in DOMAIN entries /\ c.place \in Nat
    /\ c = CandidateAt(entries, query, c.place)
    /\ entries[c.place] \in EntriesV2
    /\ c.target = entries[c.place].target /\ c.flow_id = entries[c.place].flow_id
    /\ c.flow_type = entries[c.place].flow_type
    /\ c.title = entries[c.place].title /\ c.tags = entries[c.place].tags
    /\ c.score_hint = ScoreHint(entries[c.place], query)
    /\ c.title \in Texts /\ c.tags \in Seq(Texts) /\ c.score_hint \in 0 .. Unit /\ Named(c)

LEMMA CandidateOfEntry ==
    ASSUME NEW entries \in Seq(EntriesV2), NEW query \in Messages, NEW i \in DOMAIN entries
    PROVE  /\ IsCandidate(entries, query, CandidateAt(entries, query, i))
           /\ CandidateAt(entries, query, i).place = i
<1>1. entries[i] \in EntriesV2 /\ i \in Nat
  OBVIOUS
<1>2. ScoreHint(entries[i], query) \in 0 .. Unit
  BY <1>1, HintIsAShare
<1>3. PICK e \in EntriesV2 : e = entries[i]
  BY <1>1
<1>4. PICK hint \in 0 .. Unit : hint = ScoreHint(entries[i], query)
  BY <1>2
<1>5. PICK c : c = Candidate(e, i, hint)
  OBVIOUS
<1>6. c = CandidateAt(entries, query, i)
  BY <1>3, <1>4, <1>5 DEF CandidateAt
<1>7. /\ c.place = i /\ c.target = e.target /\ c.flow_id = e.flow_id
      /\ c.flow_type = e.flow_type /\ c.title = e.title /\ c.tags = e.tags
      /\ c.score_hint = hint
  BY <1>5 DEF Candidate
<1>8. /\ e.target \in Nat \X Nat /\ e.flow_id \in Nat /\ e.title \in Texts
      /\ e.tags \in Seq(Texts)
  BY DEF EntriesV2
<1> QED BY <1>1, <1>3, <1>4, <1>6, <1>7, <1>8 DEF IsCandidate, Named

LEMMA CandidateScore ==
    ASSUME NEW entries, NEW query \in Messages, NEW c, IsCandidate(entries, query, c)
    PROVE  /\ Score(c, query) \in 0 .. 10 * Unit
           /\ Score(c, query) \in Int
           /\ Score(c, query) > 3 * Unit => Overlap(query, c.title) > 0
<1>1. c.title \in Texts /\ c.tags \in Seq(Texts) /\ c.score_hint \in 0 .. Unit
  BY DEF IsCandidate
<1>2. 0 .. 10 * Unit \subseteq Int
  BY PositiveUnit
<1> QED BY <1>1, <1>2, ScoreIsAShare

LEMMA ScoredCandidates ==
    ASSUME NEW entries \in Seq(EntriesV2), NEW query \in Messages
    PROVE  /\ \A c \in Scored(entries, query) :
                 IsCandidate(entries, query, c) /\ c.score_hint > 0
           /\ \A c : IsCandidate(entries, query, c) /\ c.score_hint > 0
                       => c \in Scored(entries, query)
           /\ IsFiniteSet(Scored(entries, query))
<1> DEFINE scored == Scored(entries, query)
<1>1. \A c : c \in scored <=>
              c.score_hint > 0 /\ \E i \in DOMAIN entries : c = CandidateAt(entries, query, i)
  BY DEF Scored, CandidateAt
<1>2. \A c \in scored : IsCandidate(entries, query, c) /\ c.score_hint > 0
  BY <1>1, CandidateOfEntry
<1>3. \A c : IsCandidate(entries, query, c) /\ c.score_hint > 0 => c \in scored
  BY <1>1 DEF IsCandidate
<1> HIDE DEF scored
<1>4. IsFiniteSet(scored)
  <2>1. PICK n \in Nat : DOMAIN entries = 1 .. n
    OBVIOUS
  <2>2. PICK place : place = [c \in scored |-> c.place]
    OBVIOUS
  <2>3. place \in [scored -> 1 .. n] /\ \A c, d \in scored : place[c] = place[d] => c = d
    BY <1>2, <2>1, <2>2 DEF IsCandidate
  <2>4. place \in Injection(scored, 1 .. n)
    BY <2>3, Fun_IsInj
  <2> QED BY <2>4, IntervalSize, FS_Injection
<1> QED BY <1>2, <1>3, <1>4 DEF scored

LEMMA AheadIsAnOrder ==
    ASSUME NEW entries \in Seq(EntriesV2), NEW query \in Messages,
           NEW a, NEW b, NEW c, IsCandidate(entries, query, a), IsCandidate(entries, query, b),
           IsCandidate(entries, query, c)
    PROVE  /\ ~Ahead(a, a)
           /\ a # b => Ahead(a, b) \/ Ahead(b, a)
           /\ Ahead(a, b) /\ Ahead(b, c) => Ahead(a, c)
<1>1. /\ a.place \in Nat /\ b.place \in Nat /\ c.place \in Nat
      /\ a.score_hint \in Int /\ b.score_hint \in Int /\ c.score_hint \in Int
      /\ a # b => a.place # b.place
  BY DEF IsCandidate
<1>2. Named(a) /\ Named(b) /\ Named(c)
  BY DEF IsCandidate
<1>3. ~Ahead(a, a)
  BY <1>1, <1>2, NamesAreOrdered DEF Ahead, SortsBefore
<1>4. a # b => Ahead(a, b) \/ Ahead(b, a)
  BY <1>1, <1>2, NamesAreOrdered DEF Ahead, SortsBefore
<1>5. ASSUME Ahead(a, b), Ahead(b, c)
      PROVE  Ahead(a, c)
  <2>1. CASE a.score_hint > b.score_hint \/ b.score_hint > c.score_hint
    BY <1>1, <1>5, <2>1 DEF Ahead, SortsBefore
  <2>2. CASE a.score_hint = b.score_hint /\ b.score_hint = c.score_hint
    <3>1. /\ Precedes(a, b) \/ (SameName(a, b) /\ a.place < b.place)
          /\ Precedes(b, c) \/ (SameName(b, c) /\ b.place < c.place)
      BY <1>1, <1>5, <2>2 DEF Ahead, SortsBefore
    <3>2. Precedes(a, c) \/ (SameName(a, c) /\ a.place < c.place)
      BY <1>1, <1>2, <3>1, NamesAreOrdered
    <3> QED BY <2>2, <3>2 DEF Ahead, SortsBefore
  <2> QED BY <1>1, <1>5, <2>1, <2>2 DEF Ahead, SortsBefore
<1> QED BY <1>3, <1>4, <1>5

LEMMA BeatsIsAnOrder ==
    ASSUME NEW entries \in Seq(EntriesV2), NEW query \in Messages,
           NEW a, NEW b, NEW c, IsCandidate(entries, query, a), IsCandidate(entries, query, b),
           IsCandidate(entries, query, c)
    PROVE  /\ ~Beats(a, a, query)
           /\ a # b => Beats(a, b, query) \/ Beats(b, a, query)
           /\ Beats(a, b, query) /\ Beats(b, c, query) => Beats(a, c, query)
<1>1. /\ ~Ahead(a, a)
      /\ a # b => Ahead(a, b) \/ Ahead(b, a)
      /\ Ahead(a, b) /\ Ahead(b, c) => Ahead(a, c)
  BY AheadIsAnOrder
<1>2. Score(a, query) \in Int /\ Score(b, query) \in Int /\ Score(c, query) \in Int
  BY CandidateScore
<1>3. Named(a) /\ Named(b) /\ Named(c)
  BY DEF IsCandidate
<1>4. PICK x \in Int, y \in Int, z \in Int :
         x = Score(a, query) /\ y = Score(b, query) /\ z = Score(c, query)
  BY <1>2
<1>5. ~Beats(a, a, query)
  BY <1>1, <1>3, <1>4, NamesAreOrdered DEF Beats, SortsBefore
<1>6. a # b => Beats(a, b, query) \/ Beats(b, a, query)
  BY <1>1, <1>3, <1>4, NamesAreOrdered DEF Beats, SortsBefore
<1>7. ASSUME Beats(a, b, query), Beats(b, c, query)
      PROVE  Beats(a, c, query)
  <2>1. CASE x > y \/ y > z
    BY <1>4, <1>7, <2>1 DEF Beats, SortsBefore
  <2>2. CASE x = y /\ y = z
    <3>1. /\ Precedes(a, b) \/ (SameName(a, b) /\ Ahead(a, b))
          /\ Precedes(b, c) \/ (SameName(b, c) /\ Ahead(b, c))
      BY <1>4, <1>7, <2>2 DEF Beats, SortsBefore
    <3>2. Precedes(a, c) \/ (SameName(a, c) /\ Ahead(a, c))
      BY <1>1, <1>3, <3>1, NamesAreOrdered
    <3> QED BY <1>4, <2>2, <3>2 DEF Beats, SortsBefore
  <2> QED BY <1>4, <1>7, <2>1, <2>2 DEF Beats, SortsBefore
<1> QED BY <1>5, <1>6, <1>7

-----------------------------------------------------------------------------
(* The search does not see the order of the entries, except among those     *)
(* with one name and one score.                                             *)

StrictlyAhead(a, b) ==
    \/ a.score_hint > b.score_hint
    \/ a.score_hint = b.score_hint /\ Precedes(a, b)

SameRank(a, b) == a.score_hint = b.score_hint /\ SameName(a, b)

(* Every entry of t is in s, as often at least. *)
Covers(s, t) == \E f \in Surjection(DOMAIN s, DOMAIN t) : \A i \in DOMAIN s : s[i] = t[f[i]]

LEMMA AheadByRank ==
    ASSUME NEW entries \in Seq(EntriesV2), NEW query \in Messages,
           NEW a, NEW b, NEW c, IsCandidate(entries, query, a), IsCandidate(entries, query, b),
           IsCandidate(entries, query, c)
    PROVE  /\ Ahead(a, b) <=> StrictlyAhead(a, b) \/ (SameRank(a, b) /\ a.place < b.place)
           /\ SameRank(b, c) => (StrictlyAhead(a, b) <=> StrictlyAhead(a, c))
           /\ SameRank(a, b) /\ SameRank(b, c) => SameRank(a, c)
           /\ SameRank(a, b) => SameRank(b, a)
<1>1. /\ a.place \in Nat /\ b.place \in Nat
      /\ a.score_hint \in Int /\ b.score_hint \in Int /\ c.score_hint \in Int
  BY DEF IsCandidate
<1>2. Named(a) /\ Named(b) /\ Named(c)
  BY DEF IsCandidate
<1>3. Ahead(a, b) <=> StrictlyAhead(a, b) \/ (SameRank(a, b) /\ a.place < b.place)
  BY <1>1 DEF Ahead, SortsBefore, StrictlyAhead, SameRank
<1>4. SameRank(b, c) => (StrictlyAhead(a, b) <=> StrictlyAhead(a, c))
  BY <1>1, <1>2, NamesAreOrdered DEF StrictlyAhead, SameRank
<1>5. /\ SameRank(a, b) /\ SameRank(b, c) => SameRank(a, c)
      /\ SameRank(a, b) => SameRank(b, a)
  BY <1>1, <1>2, NamesAreOrdered DEF SameRank
<1> QED BY <1>3, <1>4, <1>5

(* Whatever of equal rank is at the first place is in, if any is.           *)
LEMMA FirstOfRankIsIn ==
    ASSUME NEW entries \in Seq(EntriesV2), NEW query \in Messages, NEW limit \in Nat,
           NEW c \in Scored(entries, query),
           Cardinality({x \in Scored(entries, query) : StrictlyAhead(x, c)}) < limit
    PROVE  \E d \in Search(entries, query, limit) : SameRank(d, c)
<1> DEFINE scored == Scored(entries, query)
           places == {d.place : d \in {x \in scored : SameRank(x, c)}}
<1>1. \A x \in scored : IsCandidate(entries, query, x) /\ x.place \in Nat
  BY ScoredCandidates DEF IsCandidate
<1>2. SameRank(c, c)
  BY <1>1, NamesAreOrdered DEF SameRank, IsCandidate
<1>3. PICK p \in places : \A q \in places : p <= q
  <2>1. places \in SUBSET Nat /\ places # {}
    BY <1>1, <1>2
  <2> HIDE DEF places
  <2> QED BY <2>1, LeastNumber
<1>4. PICK d \in scored : SameRank(d, c) /\ d.place = p
  BY <1>3
<1> HIDE DEF scored
<1>5. \A x \in scored : Ahead(x, d) <=> StrictlyAhead(x, c)
  <2> TAKE x \in scored
  <2>1. Ahead(x, d) <=> StrictlyAhead(x, d) \/ (SameRank(x, d) /\ x.place < d.place)
    BY <1>1, AheadByRank
  <2>2. StrictlyAhead(x, d) <=> StrictlyAhead(x, c)
    BY <1>1, <1>4, AheadByRank DEF scored
  <2>3. SameRank(x, d) => SameRank(x, c)
    BY <1>1, <1>4, AheadByRank DEF scored
  <2>4. SameRank(x, c) => ~(x.place < d.place)
    <3>1. SameRank(x, c) => x.place \in places
      BY DEF scored
    <3>2. SameRank(x, c) => d.place <= x.place
      BY <1>3, <1>4, <3>1
    <3> QED BY <1>1, <1>4, <3>2
  <2> QED BY <2>1, <2>2, <2>3, <2>4
<1>6. {x \in scored : Ahead(x, d)} = {x \in scored : StrictlyAhead(x, c)}
  BY <1>5
<1>7. d \in Search(entries, query, limit)
  BY <1>6 DEF Search, Take, scored
<1> QED BY <1>4, <1>7

LEMMA Representative ==
    ASSUME NEW s \in Seq(EntriesV2), NEW t \in Seq(EntriesV2), Covers(s, t),
           NEW query \in Messages, NEW limit \in Nat, NEW c \in Search(s, query, limit)
    PROVE  \E d \in Search(t, query, limit) : SameRank(d, c)
<1>1. PICK f \in Surjection(DOMAIN s, DOMAIN t) : \A i \in DOMAIN s : s[i] = t[f[i]]
  BY DEF Covers
<1>2. f \in [DOMAIN s -> DOMAIN t] /\ \A j \in DOMAIN t : \E i \in DOMAIN s : f[i] = j
  BY Fun_SurjectionProperties
<1> DEFINE image(x) == CandidateAt(t, query, f[x.place])
           before == {x \in Scored(s, query) : StrictlyAhead(x, c)}
           after == {y \in Scored(t, query) : StrictlyAhead(y, image(c))}
<1>3. ASSUME NEW x \in Scored(s, query)
      PROVE  /\ image(x) \in Scored(t, query) /\ image(x).place = f[x.place]
             /\ image(x).score_hint = x.score_hint /\ image(x).target = x.target
             /\ image(x).flow_id = x.flow_id
  <2>1. IsCandidate(s, query, x) /\ x.score_hint > 0
    BY ScoredCandidates
  <2>2. PICK i \in DOMAIN s : i = x.place
    BY <2>1 DEF IsCandidate
  <2>3. f[i] \in DOMAIN t /\ s[i] = t[f[i]]
    BY <1>1, <1>2
  <2>4. IsCandidate(t, query, image(x)) /\ image(x).place = f[x.place]
    BY <2>2, <2>3, CandidateOfEntry
  <2>5. /\ image(x).score_hint = x.score_hint /\ image(x).target = x.target
        /\ image(x).flow_id = x.flow_id
    BY <2>1, <2>2, <2>3, <2>4 DEF IsCandidate
  <2> QED BY <2>1, <2>4, <2>5, ScoredCandidates
<1>4. \A y \in Scored(t, query) : \E x \in Scored(s, query) : image(x) = y
  <2> TAKE y \in Scored(t, query)
  <2>1. IsCandidate(t, query, y) /\ y.score_hint > 0
    BY ScoredCandidates
  <2>2. PICK i \in DOMAIN s : f[i] = y.place
    BY <1>2, <2>1 DEF IsCandidate
  <2>3. PICK x : x = CandidateAt(s, query, i)
    OBVIOUS
  <2>4. IsCandidate(s, query, x) /\ x.place = i
    BY <2>3, CandidateOfEntry
  <2>5. x.score_hint = y.score_hint
    BY <1>1, <2>1, <2>2, <2>4 DEF IsCandidate
  <2>6. x \in Scored(s, query)
    BY <2>1, <2>4, <2>5, ScoredCandidates
  <2>7. image(x) = y
    BY <2>1, <2>2, <2>4 DEF IsCandidate
  <2> QED BY <2>6, <2>7
<1>5. c \in Scored(s, query) /\ Cardinality({x \in Scored(s, query) : Ahead(x, c)}) < limit
  BY DEF Search, Take
<1>6. Cardinality(before) < limit /\ IsFiniteSet(before)
  <2>1. \A x \in Scored(s, query) : StrictlyAhead(x, c) => Ahead(x, c)
    BY <1>5, ScoredCandidates, AheadByRank
  <2>2. PICK ahead : ahead = {x \in Scored(s, query) : Ahead(x, c)}
    OBVIOUS
  <2>3. before \in SUBSET ahead /\ ahead \in SUBSET Scored(s, query)
    BY <2>1, <2>2
  <2>4. IsFiniteSet(ahead) /\ Cardinality(ahead) < limit
    BY <1>5, <2>2, <2>3, ScoredCandidates, FS_Subset
  <2> HIDE DEF before
  <2>5. IsFiniteSet(before) /\ Cardinality(before) <= Cardinality(ahead)
    BY <2>3, <2>4, FS_Subset
  <2>6. Cardinality(before) \in Nat /\ Cardinality(ahead) \in Nat
    BY <2>4, <2>5, FS_CardinalityType
  <2> QED BY <2>4, <2>5, <2>6
<1>7. Cardinality(after) <= Cardinality(before) /\ IsFiniteSet(after)
  <2>1. \A x \in Scored(s, query) : StrictlyAhead(image(x), image(c)) <=> StrictlyAhead(x, c)
    BY <1>3, <1>5 DEF StrictlyAhead, Precedes
  <2>2. PICK g : g = [x \in before |-> image(x)]
    OBVIOUS
  <2> HIDE DEF image
  <2>3. g \in [before -> after]
    BY <1>3, <2>1, <2>2
  <2>4. \A y \in after : \E x \in before : g[x] = y
    BY <1>4, <2>1, <2>2
  <2> HIDE DEF before, after
  <2>5. g \in Surjection(before, after)
    BY <2>3, <2>4, Fun_IsSurj
  <2> QED BY <1>6, <2>5, FS_Surjection
<1>8. Cardinality(after) < limit
  <2> HIDE DEF before, after
  <2>1. Cardinality(after) \in Nat /\ Cardinality(before) \in Nat
    BY <1>6, <1>7, FS_CardinalityType
  <2> QED BY <1>6, <1>7, <2>1
<1>9. image(c) \in Scored(t, query)
  BY <1>3, <1>5
<1>10. PICK d \in Search(t, query, limit) : SameRank(d, image(c))
  <2> HIDE DEF image
  <2> QED BY <1>8, <1>9, FirstOfRankIsIn
<1>11. SameRank(d, c)
  BY <1>3, <1>5, <1>10 DEF SameRank, SameName
<1> QED BY <1>10, <1>11

LEMMA ReorderedCovers ==
    ASSUME NEW s, NEW t, Reordered(s, t)
    PROVE  Covers(s, t) /\ Covers(t, s)
<1>1. PICK f \in Bijection(DOMAIN s, DOMAIN t) : \A i \in DOMAIN s : s[i] = t[f[i]]
  BY DEF Reordered
<1>2. PICK g : g = Inverse(f, DOMAIN s, DOMAIN t)
  OBVIOUS
<1>3. g \in Bijection(DOMAIN t, DOMAIN s)
  BY <1>1, <1>2, Fun_BijInverse
<1>4. \A i \in DOMAIN s : f[i] \in DOMAIN t /\ g[f[i]] = i
  BY <1>1, <1>2, Fun_BijInverse, Fun_BijectionProperties
<1>5. \A j \in DOMAIN t : \E i \in DOMAIN s : f[i] = j
  BY <1>1, Fun_BijectionProperties
<1>6. \A j \in DOMAIN t : t[j] = s[g[j]]
  BY <1>1, <1>4, <1>5
<1>7. f \in Surjection(DOMAIN s, DOMAIN t) /\ g \in Surjection(DOMAIN t, DOMAIN s)
  BY <1>1, <1>3, Fun_BijectionProperties
<1> QED BY <1>1, <1>6, <1>7 DEF Covers

LEMMA ReorderedTwice ==
    ASSUME NEW s, NEW t, NEW u, Reordered(s, t), Reordered(t, u)
    PROVE  Reordered(s, u)
<1>1. PICK f \in Bijection(DOMAIN s, DOMAIN t) : \A i \in DOMAIN s : s[i] = t[f[i]]
  BY DEF Reordered
<1>2. PICK g \in Bijection(DOMAIN t, DOMAIN u) : \A i \in DOMAIN t : t[i] = u[g[i]]
  BY DEF Reordered
<1>3. PICK h : h = [i \in DOMAIN s |-> g[f[i]]]
  OBVIOUS
<1>4. h \in Bijection(DOMAIN s, DOMAIN u)
  BY <1>1, <1>2, <1>3, Fun_BijTransitive
<1>5. \A i \in DOMAIN s : s[i] = u[h[i]]
  BY <1>1, <1>2, <1>3, Fun_BijectionProperties
<1> QED BY <1>4, <1>5 DEF Reordered

LEMMA ReorderedOnItself ==
    ASSUME NEW s
    PROVE  Reordered(s, s)
<1>1. PICK f : f = [i \in DOMAIN s |-> i]
  OBVIOUS
<1>2. f \in Surjection(DOMAIN s, DOMAIN s) /\ f \in Injection(DOMAIN s, DOMAIN s)
  <2>1. f \in [DOMAIN s -> DOMAIN s] /\ \A i, j \in DOMAIN s : f[i] = f[j] => i = j
    BY <1>1
  <2>2. \A i \in DOMAIN s : \E j \in DOMAIN s : f[j] = i
    BY <1>1
  <2> QED BY <2>1, <2>2, Fun_IsInj, Fun_IsSurj
<1>3. f \in Bijection(DOMAIN s, DOMAIN s)
  BY <1>2 DEF Bijection
<1> QED BY <1>1, <1>3 DEF Reordered

-----------------------------------------------------------------------------
(* Decisions *)

(* Two files with one pack and id. *)
NamesakesOf(entries, targets) ==
    \E e, f \in ToSet(entries) :
        e # f /\ e.target = f.target /\ e.flow_id = f.flow_id /\ e.target \in targets

LEMMA CoveredEntries ==
    ASSUME NEW s, NEW t, Covers(s, t)
    PROVE  \A i \in DOMAIN s : s[i] \in ToSet(t)
<1>1. PICK f \in Surjection(DOMAIN s, DOMAIN t) : \A i \in DOMAIN s : s[i] = t[f[i]]
  BY DEF Covers
<1>2. f \in [DOMAIN s -> DOMAIN t]
  BY Fun_SurjectionProperties
<1> QED BY <1>1, <1>2 DEF ToSet

(* What a candidate is worth depends on its entry alone. *)
EntryOf(c, e) ==
    /\ c.target = e.target /\ c.flow_id = e.flow_id /\ c.flow_type = e.flow_type
    /\ c.title = e.title /\ c.tags = e.tags

LEMMA EqualEntriesScoreEqually ==
    ASSUME NEW c, NEW d, NEW e, EntryOf(c, e), EntryOf(d, e), c.score_hint = d.score_hint,
           NEW query, NEW limit
    PROVE  Score(c, query) = Score(d, query) /\ Decision(c, query, limit) = Decision(d, query, limit)
<1>1. Score(c, query) = Score(d, query)
  BY DEF Score, EntryOf
<1> QED BY <1>1 DEF Decision, EntryOf

LEMMA WinnersAgree ==
    ASSUME NEW s \in Seq(EntriesV2), NEW t \in Seq(EntriesV2), Covers(s, t), Covers(t, s),
           NEW query \in Messages, NEW limit \in Nat,
           NEW c \in Winners(Search(s, query, limit), query),
           NEW x \in Winners(Search(t, query, limit), query)
    PROVE  \/ Decision(c, query, limit) = Decision(x, query, limit)
           \/ NamesakesOf(t, {c.target, x.target})
<1> SUFFICES ASSUME ~NamesakesOf(t, {c.target, x.target})
             PROVE  Decision(c, query, limit) = Decision(x, query, limit)
  OBVIOUS
<1>1. /\ c \in Search(s, query, limit)
      /\ \A y \in Search(s, query, limit) \ {c} : Beats(c, y, query)
      /\ x \in Search(t, query, limit)
      /\ \A y \in Search(t, query, limit) \ {x} : Beats(x, y, query)
  BY DEF Winners
<1>2. /\ \A y \in Search(s, query, limit) : IsCandidate(s, query, y)
      /\ \A y \in Search(t, query, limit) : IsCandidate(t, query, y)
  BY ScoredCandidates DEF Search, Take
<1>3. PICK c2 \in Search(t, query, limit) : SameRank(c2, c)
  BY <1>1, Representative
<1>4. PICK x2 \in Search(s, query, limit) : SameRank(x2, x)
  BY <1>1, Representative
<1>5. /\ IsCandidate(s, query, c) /\ IsCandidate(t, query, c2)
      /\ IsCandidate(t, query, x) /\ IsCandidate(s, query, x2)
  BY <1>1, <1>2
<1>6. PICK ec \in ToSet(t) : EntryOf(c, ec)
  BY <1>5, CoveredEntries DEF IsCandidate, EntryOf
<1>7. PICK ec2 \in ToSet(t) : EntryOf(c2, ec2)
  BY <1>5 DEF IsCandidate, EntryOf, ToSet
<1>8. PICK ex \in ToSet(t) : EntryOf(x, ex)
  BY <1>5 DEF IsCandidate, EntryOf, ToSet
<1>9. PICK ex2 \in ToSet(t) : EntryOf(x2, ex2)
  BY <1>5, CoveredEntries DEF IsCandidate, EntryOf
<1>10. \A e, f \in ToSet(t) :
          e.target = f.target /\ e.flow_id = f.flow_id /\ e.target \in {c.target, x.target} => e = f
  BY DEF NamesakesOf
<1>11. ec = ec2 /\ c.score_hint = c2.score_hint
  BY <1>3, <1>6, <1>7, <1>10 DEF SameRank, SameName, EntryOf
<1>12. ex = ex2 /\ x.score_hint = x2.score_hint
  BY <1>4, <1>8, <1>9, <1>10 DEF SameRank, SameName, EntryOf
<1>13. /\ Score(c, query) = Score(c2, query) /\ Decision(c, query, limit) = Decision(c2, query, limit)
       /\ Score(x, query) = Score(x2, query) /\ Decision(x, query, limit) = Decision(x2, query, limit)
  BY <1>6, <1>7, <1>8, <1>9, <1>11, <1>12, EqualEntriesScoreEqually
<1>14. CASE x = c2
  BY <1>13, <1>14
<1>15. CASE c = x2
  BY <1>13, <1>15
<1>16. CASE x # c2 /\ c # x2
  <2>1. Beats(x, c2, query) /\ Beats(c, x2, query)
    BY <1>1, <1>3, <1>4, <1>16
  <2>2. Score(c, query) \in Int /\ Score(x, query) \in Int
    BY <1>5, CandidateScore
  <2>3. PICK m \in Int, n \in Int : m = Score(c, query) /\ n = Score(x, query)
    BY <2>2
  <2>4. \/ n > m
        \/ n = m /\ (Precedes(x, c2) \/ SameName(x, c2))
    BY <1>13, <2>1, <2>3 DEF Beats, SortsBefore
  <2>5. \/ m > n
        \/ m = n /\ (Precedes(c, x2) \/ SameName(c, x2))
    BY <1>13, <2>1, <2>3 DEF Beats, SortsBefore
  <2>6. m = n /\ (Precedes(x, c2) \/ SameName(x, c2)) /\ (Precedes(c, x2) \/ SameName(c, x2))
    BY <2>3, <2>4, <2>5
  <2>7. /\ Precedes(x, c2) <=> Precedes(x, c)
        /\ Precedes(c, x2) <=> Precedes(c, x)
        /\ SameName(x, c2) <=> SameName(x, c)
        /\ SameName(c, x2) <=> SameName(c, x)
    BY <1>3, <1>4 DEF SameRank, SameName, Precedes
  <2>8. Named(c) /\ Named(x)
    BY <1>5 DEF IsCandidate
  <2>9. SameName(x, c)
    BY <2>6, <2>7, <2>8, NamesAreOrdered
  <2>10. ec = ex
    BY <1>6, <1>8, <1>10, <2>9 DEF SameName, EntryOf
  <2>11. c.target = x.target /\ c.flow_type = x.flow_type
    BY <1>6, <1>8, <2>10 DEF EntryOf
  <2> QED BY <2>3, <2>6, <2>11 DEF Decision
<1> QED BY <1>14, <1>15, <1>16

LEMMA DecisionsAgree ==
    ASSUME NEW s \in Seq(EntriesV2), NEW t \in Seq(EntriesV2), Covers(s, t), Covers(t, s),
           NEW query \in Messages, NEW limit \in Nat,
           NEW a \in Decisions(s, query, limit), NEW d \in Decisions(t, query, limit)
    PROVE  a = d \/ NamesakesOf(t, {a.target, d.target})
<1>1. PICK c \in Winners(Search(s, query, limit), query) : a = Decision(c, query, limit)
  BY DEF Decisions
<1>2. PICK x \in Winners(Search(t, query, limit), query) : d = Decision(x, query, limit)
  BY DEF Decisions
<1>3. a.target = c.target /\ d.target = x.target
  BY <1>1, <1>2 DEF Decision
<1> QED BY <1>1, <1>2, <1>3, WinnersAgree

-----------------------------------------------------------------------------
(* Manifests *)

WellFormed(m) ==
    \/ m.version = "v1" /\ m.entries \in Seq(EntriesV1)
    \/ m.version = "v2" /\ m.entries \in Seq(EntriesV2)
    \/ ~Loads(m)

LEMMA FromV1IsAnEntry ==
    ASSUME NEW e \in EntriesV1
    PROVE  FromV1(e) \in EntriesV2
<1>1. e.titles \in Seq(Texts)
  BY DEF EntriesV1
<1>2. <<>> \in Texts /\ <<>> \in Seq(Texts)
  BY SharesAreWhole DEF Texts
<1>3. (IF e.titles = <<>> THEN <<>> ELSE Head(e.titles)) \in Texts
  BY <1>1, <1>2
<1> QED BY <1>2, <1>3 DEF FromV1, EntriesV1, EntriesV2

LEMMA ParsedEntries ==
    ASSUME NEW m, WellFormed(m)
    PROVE  /\ ParseManifest(m) \in Seq(EntriesV2)
           /\ ~Loads(m) => ParseManifest(m) = <<>>
<1>1. CASE m.version = "v1" /\ m.entries \in Seq(EntriesV1)
  <2>1. ParseManifest(m) = [i \in DOMAIN m.entries |-> FromV1(m.entries[i])]
    BY <1>1 DEF ParseManifest
  <2>2. PICK n \in Nat : DOMAIN m.entries = 1 .. n
    BY <1>1
  <2>3. \A i \in 1 .. n : FromV1(m.entries[i]) \in EntriesV2
    BY <1>1, <2>2, FromV1IsAnEntry
  <2>4. ParseManifest(m) \in [1 .. n -> EntriesV2]
    BY <2>1, <2>2, <2>3
  <2> QED BY <1>1, <2>4 DEF Loads
<1>2. CASE m.version = "v2" /\ m.entries \in Seq(EntriesV2)
  BY <1>2 DEF ParseManifest, Loads
<1>3. CASE ~Loads(m)
  <2>1. ParseManifest(m) = <<>>
    BY <1>3 DEF ParseManifest, Loads
  <2> QED BY <2>1
<1> QED BY <1>1, <1>2, <1>3 DEF WellFormed

(* What is known of a scanned flow. *)
IsScanned(entry) ==
    /\ entry.pack_id \in Nat /\ entry.flow_id \in Nat /\ entry.title \in Texts
    /\ entry.tags \in Seq(Texts) /\ entry.execution_type \in FlowTypes

LEMMA ScannedFlows ==
    ASSUME NEW bundle, IsBundle(bundle)
    PROVE  /\ IsFiniteSet(ScanBundle(bundle))
           /\ \A entry \in ScanBundle(bundle) : IsScanned(entry)
<1> DEFINE files == {g \in FindFlowFiles(bundle) : g.meta # Unparsable}
<1>1. IsFiniteSet(files)
  <2>1. files \in SUBSET bundle
    BY DEF FindFlowFiles
  <2> HIDE DEF files
  <2> QED BY <2>1, FS_Subset DEF IsBundle
<1>2. IsFiniteSet(ScanBundle(bundle))
  <2>1. PICK parse : parse = [f \in files |-> ParseFlow(f)]
    OBVIOUS
  <2>2. /\ parse \in [files -> ScanBundle(bundle)]
        /\ \A entry \in ScanBundle(bundle) : \E f \in files : parse[f] = entry
    BY <2>1 DEF ScanBundle
  <2> HIDE DEF files
  <2>3. parse \in Surjection(files, ScanBundle(bundle))
    BY <2>2, Fun_IsSurj
  <2> QED BY <1>1, <2>3, FS_Surjection
<1>3. ASSUME NEW f \in files
      PROVE  IsScanned(ParseFlow(f))
  <2>1. /\ DerivePackId(f.path) \in Nat /\ f.meta.id \in Nat
        /\ f.meta.title = NoTitle \/ f.meta.title \in Texts
        /\ f.meta.tags \in Seq(Texts) /\ f.meta.execution_type \in FlowTypes
    BY DEF IsBundle
  <2>2. <<f.meta.id>> \in Texts
    BY <2>1, SharesAreWhole DEF Texts
  <2> QED BY <2>1, <2>2 DEF ParseFlow, IsScanned
<1> QED BY <1>2, <1>3 DEF ScanBundle

LEMMA WalksAreSequences ==
    ASSUME NEW S, IsFiniteSet(S), NEW walk \in SetToSeqs(S)
    PROVE  /\ \E n \in Nat : walk \in [1 .. n -> S]
           /\ walk \in Seq(S)
<1>1. Cardinality(S) \in Nat
  BY FS_CardinalityType
<1>2. walk \in [1 .. Cardinality(S) -> S]
  BY DEF SetToSeqs
<1> QED BY <1>1, <1>2

LEMMA BuiltManifests ==
    ASSUME NEW m \in Manifests
    PROVE  WellFormed(m)
<1>1. PICK bundle \in Bundles, links \in LinkSets, version \in {"v1", "v2"} :
         m \in ManifestsOf(version, Corpus(bundle, links))
  BY DEF Manifests
<1> PICK walk \in SetToSeqs(Corpus(bundle, links)) :
      m = BuildManifest(version, [i \in DOMAIN walk |-> FlowDoc(walk[i])])
  BY <1>1 DEF ManifestsOf
<1>2. /\ IsFiniteSet(Corpus(bundle, links))
      /\ \A entry \in Corpus(bundle, links) : IsScanned(entry)
  <2>1. Corpus(bundle, links) \in SUBSET ScanBundle(bundle)
    BY DEF Corpus
  <2>2. IsFiniteSet(ScanBundle(bundle)) /\ \A entry \in ScanBundle(bundle) : IsScanned(entry)
    BY BundlesAreSound, ScannedFlows
  <2> QED BY <2>1, <2>2, FS_Subset
<1>3. PICK n \in Nat : walk \in [1 .. n -> Corpus(bundle, links)]
  BY <1>2, WalksAreSequences
<1>4. ASSUME NEW entry, IsScanned(entry)
      PROVE  EntryV1(FlowDoc(entry)) \in EntriesV1 /\ EntryV2(FlowDoc(entry)) \in EntriesV2
  <2>1. <<entry.title>> \in Seq(Texts) /\ <<>> \in Seq(Texts)
    BY <1>4 DEF IsScanned
  <2>2. <<entry.pack_id, entry.flow_id>> \in Nat \X Nat
    BY <1>4 DEF IsScanned
  <2>3. EntryV1(FlowDoc(entry)) \in EntriesV1
    BY <1>4, <2>1, <2>2 DEF IsScanned, FlowDoc, EntryV1, EntriesV1
  <2>4. EntryV2(FlowDoc(entry)) \in EntriesV2
    BY <1>4, <2>1, <2>2 DEF IsScanned, FlowDoc, EntryV2, EntriesV2
  <2> QED BY <2>3, <2>4
<1>5. PICK docs : docs = [i \in DOMAIN walk |-> FlowDoc(walk[i])]
  OBVIOUS
<1>6. /\ DOMAIN docs = 1 .. n
      /\ \A i \in 1 .. n : EntryV1(docs[i]) \in EntriesV1 /\ EntryV2(docs[i]) \in EntriesV2
  BY <1>2, <1>3, <1>4, <1>5
<1>7. CASE version = "v1"
  <2>1. m.version = "v1" /\ m.entries = [i \in 1 .. n |-> EntryV1(docs[i])]
    BY <1>1, <1>5, <1>6, <1>7 DEF BuildManifest
  <2>2. m.entries \in [1 .. n -> EntriesV1]
    BY <1>6, <2>1
  <2> QED BY <2>1, <2>2 DEF WellFormed
<1>8. CASE version = "v2"
  <2>1. m.version = "v2" /\ m.entries = [i \in 1 .. n |-> EntryV2(docs[i])]
    BY <1>1, <1>5, <1>6, <1>8 DEF BuildManifest
  <2>2. m.entries \in [1 .. n -> EntriesV2]
    BY <1>6, <2>1
  <2> QED BY <2>1, <2>2 DEF WellFormed
<1> QED BY <1>7, <1>8

-----------------------------------------------------------------------------
(* The inductive invariant: the tool has written what it says it has, and   *)
(* an answer that is still there was right for some order of the entries.   *)

FileInv ==
    /\ output = [index |-> output.index, intents |-> output.intents]
    /\ tool = [at |-> tool.at, flows |-> tool.flows, docs |-> tool.docs]
    /\ output.index.state = "whole" =>
          \E flows \in Scans : output.index = Whole(BuildIndexManifest(flows))
    /\ tool.at \in {"open index", "fill index", "open docs", "fill docs", "ok"} => tool.flows \in Scans
    /\ tool.at \in {"open docs", "fill docs", "ok"} /\ tool.flows # <<>> =>
          output.index = Whole(BuildIndexManifest(tool.flows))
    /\ tool.at = "ok" /\ tool.flows # <<>> /\ tool.docs =>
          output.intents = Whole(IntentsMd(tool.flows))

Thresholds == {MinConfidence, DefaultConfidence}
Limits == {CandidateLimit, DefaultLimit}

(* a was a decision of the search in s. *)
DecidedIn(a, s) ==
    /\ a.text \in Messages /\ a.limit \in Limits /\ \E min \in Thresholds : a.confidence >= min
    /\ a \in Decisions(s, a.text, a.limit)

AnswerInv ==
    \A a \in answer : \E s \in Seq(EntriesV2) : Reordered(s, Entries) /\ DecidedIn(a, s)

SearchInv == WellFormed(manifest) /\ FileInv /\ AnswerInv

LEMMA StartSearchInvariant == BundleInit => SearchInv
<1> SUFFICES ASSUME BundleInit PROVE SearchInv
  OBVIOUS
<1>1. WellFormed(manifest)
  BY DEF BundleInit, Init, WellFormed, Loads
<1>2. FileInv
  BY DEF BundleInit, FileInv, NoFile, NoTool
<1>3. AnswerInv
  BY DEF BundleInit, Init, AnswerInv
<1> QED BY <1>1, <1>2, <1>3 DEF SearchInv

LEMMA PublishKeepsAnswers ==
    ASSUME AnswerInv, NEW m, WellFormed(m), Publish(m)
    PROVE  WellFormed(manifest') /\ AnswerInv'
<1>1. manifest' = m /\ answer' = {a \in answer : Reordered(Entries, ParseManifest(m))}
  BY DEF Publish
<1>2. Entries' = ParseManifest(m)
  BY <1>1 DEF Entries
<1>3. ASSUME NEW a \in answer'
      PROVE  \E s \in Seq(EntriesV2) : Reordered(s, Entries') /\ DecidedIn(a, s)
  <2>1. a \in answer /\ Reordered(Entries, Entries')
    BY <1>1, <1>2
  <2>2. PICK s \in Seq(EntriesV2) : Reordered(s, Entries) /\ DecidedIn(a, s)
    BY <2>1 DEF AnswerInv
  <2>3. PICK before, after : before = Entries /\ after = Entries'
    OBVIOUS
  <2>4. Reordered(s, before) /\ Reordered(before, after)
    BY <2>1, <2>2, <2>3
  <2>5. Reordered(s, after)
    BY <2>4, ReorderedTwice
  <2> QED BY <2>2, <2>3, <2>5
<1>4. AnswerInv'
  BY <1>3 DEF AnswerInv
<1> QED BY <1>1, <1>4

LEMMA RoutingKeepsAnswers ==
    ASSUME SearchInv, NEW limit \in Limits, NEW min \in Thresholds, RouteWith(limit, min)
    PROVE  manifest' = manifest /\ AnswerInv'
<1> PICK query \in Messages : \E d \in Decisions(Entries, query, limit) :
       d.confidence >= min /\ answer' = {d}
  BY DEF RouteWith
<1>1. PICK d \in Decisions(Entries, query, limit) :
         d.confidence >= min /\ answer' = {d} /\ manifest' = manifest
  BY DEF RouteWith
<1>2. Entries' = Entries
  BY <1>1 DEF Entries
<1>3. PICK entries \in Seq(EntriesV2) : entries = Entries
  BY ParsedEntries DEF SearchInv, Entries
<1>4. d.text = query /\ d.limit = limit
  BY <1>1 DEF Decisions, Decision
<1>5. DecidedIn(d, entries)
  BY <1>1, <1>3, <1>4 DEF DecidedIn
<1>6. Reordered(entries, entries)
  BY ReorderedOnItself
<1>7. AnswerInv'
  BY <1>1, <1>2, <1>3, <1>5, <1>6 DEF AnswerInv
<1> QED BY <1>1, <1>7

LEMMA SearchNextInvariant == SearchInv /\ [BundleNext]_<<vars, bundleVars>> => SearchInv'
<1> SUFFICES ASSUME SearchInv, [BundleNext]_<<vars, bundleVars>> PROVE SearchInv'
  OBVIOUS
<1>1. WellFormed(manifest) /\ FileInv /\ AnswerInv
  BY DEF SearchInv
<1>2. ASSUME UNCHANGED vars
      PROVE  WellFormed(manifest') /\ AnswerInv'
  BY <1>1, <1>2 DEF vars, AnswerInv, Entries
<1>3. ASSUME UNCHANGED <<output, tool>>
      PROVE  FileInv'
  BY <1>1, <1>3 DEF FileInv
<1>4. CASE Build
  <2>1. \E m \in Manifests \cup HandMade : Publish(m)
    BY <1>4 DEF Build, Reindex, Mount
  <2>2. \A m \in Manifests \cup HandMade : WellFormed(m)
    BY BuiltManifests, HandMadeAreSound DEF WellFormed
  <2>3. WellFormed(manifest') /\ AnswerInv'
    BY <1>1, <2>1, <2>2, PublishKeepsAnswers
  <2>4. UNCHANGED <<output, tool>>
    BY <1>4 DEF Build
  <2> QED BY <1>3, <2>3, <2>4 DEF SearchInv
<1>5. CASE Answer
  <2>1. \E limit \in Limits, min \in Thresholds : RouteWith(limit, min)
    BY <1>5 DEF Answer, Route, Simulate, Limits, Thresholds
  <2>2. manifest' = manifest /\ AnswerInv'
    BY <2>1, RoutingKeepsAnswers
  <2>3. UNCHANGED <<output, tool>>
    BY <1>5 DEF Answer, bundleVars
  <2> QED BY <1>1, <1>3, <2>2, <2>3 DEF SearchInv
<1>6. CASE CopyToMount
  <2>1. tool.at = "ok" /\ tool.flows # <<>>
    BY <1>6 DEF CopyToMount
  <2>2. output.index = Whole(BuildIndexManifest(tool.flows))
    BY <1>1, <2>1 DEF FileInv
  <2>3. output.index.content.version = "1.0"
    BY <2>2 DEF Whole, BuildIndexManifest
  <2>4. WellFormed(output.index.content)
    BY <2>3 DEF WellFormed, Loads
  <2>5. WellFormed(manifest') /\ AnswerInv'
    <3>1. CASE manifest.version = "none"
      BY <1>2, <1>6, <3>1 DEF CopyToMount
    <3>2. CASE manifest.version # "none"
      <4>1. Publish(output.index.content)
        BY <1>6, <3>2 DEF CopyToMount
      <4> QED BY <1>1, <2>4, <4>1, PublishKeepsAnswers
    <3> QED BY <3>1, <3>2
  <2>6. UNCHANGED <<output, tool>>
    BY <1>6 DEF CopyToMount
  <2> QED BY <1>3, <2>5, <2>6 DEF SearchInv
<1>7. CASE IndexBundle
  <2>1. UNCHANGED vars
    BY <1>7 DEF IndexBundle, StartIndexing, OpenIndex, FillIndex, OpenIntents, FillIntents, Stop
  <2>2. FileInv'
    <3>1. CASE StartIndexing
      <4>1. PICK flows \in Scans, docs \in BOOLEAN :
               tool' = [at |-> IF flows = <<>> THEN "ok" ELSE "open index", flows |-> flows, docs |-> docs]
        BY <3>1 DEF StartIndexing
      <4>2. output' = output
        BY <3>1 DEF StartIndexing
      <4>3. CASE flows = <<>>
        BY <1>1, <4>1, <4>2, <4>3 DEF FileInv
      <4>4. CASE flows # <<>>
        BY <1>1, <4>1, <4>2, <4>4 DEF FileInv
      <4> QED BY <4>3, <4>4
    <3>2. CASE OpenIndex
      BY <1>1, <3>2 DEF OpenIndex, At, Torn, FileInv
    <3>3. CASE FillIndex
      BY <1>1, <3>3 DEF FillIndex, At, FileInv
    <3>4. CASE OpenIntents
      BY <1>1, <3>4 DEF OpenIntents, At, FileInv
    <3>5. CASE FillIntents
      BY <1>1, <3>5 DEF FillIntents, At, FileInv
    <3>6. CASE Stop
      BY <1>1, <3>6 DEF Stop, Failed, NoTool, FileInv
    <3> QED BY <1>7, <3>1, <3>2, <3>3, <3>4, <3>5, <3>6 DEF IndexBundle
  <2> QED BY <1>2, <2>1, <2>2 DEF SearchInv
<1>8. CASE UNCHANGED <<vars, bundleVars>>
  <2>1. UNCHANGED vars /\ UNCHANGED <<output, tool>>
    BY <1>8 DEF bundleVars
  <2> QED BY <1>2, <1>3, <2>1 DEF SearchInv
<1> QED BY <1>4, <1>5, <1>6, <1>7, <1>8 DEF BundleNext

LEMMA SearchInvariant == BundleSpec => []SearchInv
BY StartSearchInvariant, SearchNextInvariant, PTL DEF BundleSpec

-----------------------------------------------------------------------------
(* Search and strategy *)

(* A decision was made for an entry of the index, and its confidence is the *)
(* score of that entry.                                                     *)
LEMMA DecisionOfEntry ==
    ASSUME NEW t \in Seq(EntriesV2), NEW s \in Seq(EntriesV2), Reordered(s, t),
           NEW a, DecidedIn(a, s)
    PROVE  \E c : /\ IsCandidate(s, a.text, c) /\ a = Decision(c, a.text, a.limit)
                  /\ \E e \in ToSet(t) : EntryOf(c, e)
<1>1. PICK c \in Winners(Search(s, a.text, a.limit), a.text) : a = Decision(c, a.text, a.limit)
  BY DEF DecidedIn, Decisions
<1>2. c \in Scored(s, a.text)
  BY DEF Winners, Search, Take
<1>3. IsCandidate(s, a.text, c)
  BY <1>2, ScoredCandidates DEF DecidedIn
<1>4. Covers(s, t)
  BY ReorderedCovers
<1>5. \E e \in ToSet(t) : EntryOf(c, e)
  BY <1>3, <1>4, CoveredEntries DEF IsCandidate, EntryOf
<1> QED BY <1>1, <1>3, <1>5

LEMMA IndexedEntries ==
    ASSUME SearchInv
    PROVE  Entries \in Seq(EntriesV2) /\ (~Loads(manifest) => ToSet(Entries) = {})
<1>1. WellFormed(manifest)
  BY DEF SearchInv
<1>2. ParseManifest(manifest) \in Seq(EntriesV2)
      /\ (~Loads(manifest) => ParseManifest(manifest) = <<>>)
  BY <1>1, ParsedEntries
<1> QED BY <1>2 DEF Entries, ToSet

(* Confidences are shares of 1, and every entry that is read has its        *)
(* fields, whatever the version of the file.                                *)
THEOREM SearchTypeCorrect == BundleSpec => []SearchTypeOK
<1>1. SearchInv => SearchTypeOK
  <2> SUFFICES ASSUME SearchInv PROVE SearchTypeOK
    OBVIOUS
  <2>1. Entries \in Seq(EntriesV2) /\ (~Loads(manifest) => ToSet(Entries) = {})
    BY IndexedEntries
  <2>2. ASSUME NEW a \in answer
        PROVE  Loads(manifest) /\ a.confidence \in Min({MinConfidence, DefaultConfidence}) .. 10 * Unit
    <3>1. PICK s \in Seq(EntriesV2) : Reordered(s, Entries) /\ DecidedIn(a, s)
      BY DEF SearchInv, AnswerInv
    <3>2. PICK t \in Seq(EntriesV2) : t = Entries
      BY <2>1
    <3>3. PICK c : /\ IsCandidate(s, a.text, c) /\ a = Decision(c, a.text, a.limit)
                   /\ \E e \in ToSet(t) : EntryOf(c, e)
      BY <3>1, <3>2, DecisionOfEntry
    <3>4. Loads(manifest)
      BY <2>1, <3>2, <3>3
    <3>5. a.text \in Messages /\ \E min \in Thresholds : a.confidence >= min
      BY <3>1 DEF DecidedIn
    <3>6. a.confidence = Score(c, a.text)
      BY <3>3 DEF Decision
    <3>7. a.confidence \in 0 .. 10 * Unit
      BY <3>3, <3>5, <3>6, CandidateScore
    <3>8. PICK min \in Thresholds : a.confidence >= min
      BY <3>5
    <3>9. PICK low \in Int : low = Min({MinConfidence, DefaultConfidence}) /\ low <= min /\ min \in Int
      <4>1. MinConfidence \in Int /\ DefaultConfidence \in Int
        BY SettingsAreSound, PositiveUnit DEF DefaultConfidence
      <4>2. /\ Min({MinConfidence, DefaultConfidence}) \in Int
            /\ Min({MinConfidence, DefaultConfidence}) <= MinConfidence
            /\ Min({MinConfidence, DefaultConfidence}) <= DefaultConfidence
        BY <4>1, LesserOfTwo
      <4> QED BY <4>1, <4>2 DEF Thresholds
    <3>10. PICK share \in Int : share = a.confidence /\ share <= 10 * Unit
      <4>1. \A n \in 0 .. 10 * Unit : n \in Int /\ n <= 10 * Unit
        OBVIOUS
      <4> QED BY <3>7, <4>1
    <3>11. share \in low .. 10 * Unit
      BY <3>8, <3>9, <3>10
    <3> QED BY <3>4, <3>9, <3>10, <3>11
  <2> QED BY <2>1, <2>2 DEF SearchTypeOK
<1> QED BY <1>1, SearchInvariant, PTL

(* The order in which the walk found the flows, and the version in which    *)
(* they were written, decide nothing: an answer of before a reindex of the  *)
(* same flows is the answer of now, unless two of them have one name.       *)
THEOREM OrderIsIrrelevant == BundleSpec => []OrderDoesNotMatter
<1>1. SearchInv => OrderDoesNotMatter
  <2> SUFFICES ASSUME SearchInv, NEW a \in answer, NEW d \in Decisions(Entries, a.text, a.limit)
               PROVE  a = d \/ NamesakesOf(Entries, {a.target, d.target})
    BY DEF OrderDoesNotMatter, NamesakesOf
  <2>1. PICK t \in Seq(EntriesV2) : t = Entries
    BY IndexedEntries
  <2>2. PICK s \in Seq(EntriesV2) : Reordered(s, t) /\ DecidedIn(a, s)
    BY <2>1 DEF SearchInv, AnswerInv
  <2>3. Covers(s, t) /\ Covers(t, s)
    BY <2>2, ReorderedCovers
  <2>4. a.text \in Messages /\ a.limit \in Nat /\ a \in Decisions(s, a.text, a.limit)
    BY <2>2, SettingsAreSound DEF DecidedIn, Limits, DefaultLimit
  <2>5. d \in Decisions(t, a.text, a.limit)
    BY <2>1
  <2>6. a = d \/ NamesakesOf(t, {a.target, d.target})
    BY <2>3, <2>4, <2>5, DecisionsAgree
  <2> QED BY <2>1, <2>6
<1> QED BY <1>1, SearchInvariant, PTL

(* Above three tenths no flow is dispatched for its tags or utterances      *)
(* alone: the weights of the two cannot get there.                          *)
THEOREM TitlesDecide ==
    ASSUME MinConfidence > 3 * Unit
    PROVE  BundleSpec => []TitleWordNeeded
<1>1. SearchInv => TitleWordNeeded
  <2> SUFFICES ASSUME SearchInv, NEW a \in answer
               PROVE  \E e \in ToSet(Entries) : e.target = a.target /\ Overlap(a.text, e.title) > 0
    BY DEF TitleWordNeeded
  <2>1. PICK t \in Seq(EntriesV2) : t = Entries
    BY IndexedEntries
  <2>2. PICK s \in Seq(EntriesV2) : Reordered(s, t) /\ DecidedIn(a, s)
    BY <2>1 DEF SearchInv, AnswerInv
  <2>3. PICK c : /\ IsCandidate(s, a.text, c) /\ a = Decision(c, a.text, a.limit)
                 /\ \E e \in ToSet(t) : EntryOf(c, e)
    BY <2>2, DecisionOfEntry
  <2>4. a.text \in Messages /\ \E min \in Thresholds : a.confidence >= min
    BY <2>2 DEF DecidedIn
  <2>5. a.confidence = Score(c, a.text) /\ a.target = c.target
    BY <2>3 DEF Decision
  <2>6. Score(c, a.text) \in Int
    BY <2>3, <2>4, CandidateScore
  <2>7. Score(c, a.text) > 3 * Unit
    BY <2>4, <2>5, <2>6, SettingsAreSound, PositiveUnit DEF Thresholds, DefaultConfidence
  <2>8. Overlap(a.text, c.title) > 0
    BY <2>3, <2>4, <2>7, CandidateScore
  <2> QED BY <2>1, <2>3, <2>5, <2>8 DEF EntryOf
<1> QED BY <1>1, SearchInvariant, PTL

-----------------------------------------------------------------------------
(* The best of the search is found, whatever it has found. *)
LEMMA SomeoneWins ==
    ASSUME NEW entries \in Seq(EntriesV2), NEW query \in Messages, NEW limit,
           NEW c \in Search(entries, query, limit)
    PROVE  \E w \in Winners(Search(entries, query, limit), query) :
              w = c \/ Beats(w, c, query)
<1> DEFINE found == Search(entries, query, limit)
           R == {p \in found \X found : Beats(p[1], p[2], query)}
<1>1. found \in SUBSET Scored(entries, query)
  BY DEF Search, Take
<1>2. IsFiniteSet(found) /\ found # {}
  BY <1>1, ScoredCandidates, FS_Subset
<1>3. \A x \in found : IsCandidate(entries, query, x)
  BY <1>1, ScoredCandidates
<1> HIDE DEF found
<1>4. \A x, y \in found : <<x, y>> \in R <=> Beats(x, y, query)
  OBVIOUS
<1> HIDE DEF R
<1>5. \A x \in found : <<x, x>> \notin R
  BY <1>3, <1>4, BeatsIsAnOrder
<1>6. \A x, y \in found : x # y => <<x, y>> \in R \/ <<y, x>> \in R
  BY <1>3, <1>4, BeatsIsAnOrder
<1>7. \A x, y, z \in found : <<x, y>> \in R /\ <<y, z>> \in R => <<x, z>> \in R
  BY <1>3, <1>4, BeatsIsAnOrder
<1>8. PICK w \in found : \A y \in found \ {w} : <<w, y>> \in R
  BY <1>2, <1>5, <1>6, <1>7, FirstElement
<1>9. \A y \in found \ {w} : Beats(w, y, query)
  BY <1>4, <1>8
<1> QED BY <1>9 DEF Winners, found

(* Of the equal entries with all of the words the first is found, unless    *)
(* the search is full of others that have all of the words too.             *)
LEMMA ExactTitleIsFound ==
    ASSUME NEW entries \in Seq(EntriesV2), NEW query \in Messages, NEW limit \in Nat,
           NEW e \in ToSet(entries), e.title = query, query # <<>>,
           Cardinality({i \in DOMAIN entries : entries[i] # e /\ ScoreHint(entries[i], query) = Unit}) < limit
    PROVE  \E c \in Search(entries, query, limit) :
              IsCandidate(entries, query, c) /\ EntryOf(c, e) /\ c.score_hint = Unit
<1> DEFINE rivals == {i \in DOMAIN entries : entries[i] # e /\ ScoreHint(entries[i], query) = Unit}
           places == {i \in DOMAIN entries : entries[i] = e}
<1>1. PICK n \in Nat : DOMAIN entries = 1 .. n
  OBVIOUS
<1>2. PICK first \in places : \A i \in places : first <= i
  <2>1. places \in SUBSET Nat /\ places # {}
    BY <1>1 DEF ToSet
  <2> HIDE DEF places
  <2> QED BY <2>1, LeastNumber
<1>3. PICK c : c = CandidateAt(entries, query, first)
  OBVIOUS
<1>4. IsCandidate(entries, query, c) /\ c.place = first /\ entries[first] = e
  BY <1>2, <1>3, CandidateOfEntry
<1>5. EntryOf(c, e) /\ c.score_hint = Unit
  BY <1>4, HintIsAShare DEF IsCandidate, EntryOf
<1>6. c \in Scored(entries, query)
  BY <1>4, <1>5, PositiveUnit, ScoredCandidates
<1> DEFINE ahead == {x \in Scored(entries, query) : Ahead(x, c)}
<1>7. ASSUME NEW x \in ahead
      PROVE  IsCandidate(entries, query, x) /\ x.place \in rivals
  <2>1. IsCandidate(entries, query, x) /\ Ahead(x, c)
    BY ScoredCandidates
  <2>2. x.score_hint \in 0 .. Unit
    BY <2>1 DEF IsCandidate
  <2>3. x.score_hint = Unit /\ (Precedes(x, c) \/ (SameName(x, c) /\ x.place < c.place))
    BY <1>5, <2>1, <2>2, PositiveUnit DEF Ahead, SortsBefore
  <2>4. ASSUME entries[x.place] = e
        PROVE  FALSE
    <3>1. SameName(x, c)
      BY <1>5, <2>1, <2>4 DEF IsCandidate, EntryOf, SameName
    <3>2. x.place < c.place
      BY <1>4, <2>1, <2>3, <3>1, NamesAreOrdered DEF IsCandidate
    <3>3. x.place \in places
      BY <2>1, <2>4 DEF IsCandidate
    <3> QED BY <1>1, <1>2, <1>4, <3>2, <3>3
  <2> QED BY <2>1, <2>3, <2>4 DEF IsCandidate
<1>8. Cardinality(ahead) <= Cardinality(rivals) /\ Cardinality(ahead) \in Nat /\ Cardinality(rivals) \in Nat
  <2>1. IsFiniteSet(rivals)
    <3>1. rivals \in SUBSET (1 .. n)
      BY <1>1
    <3> HIDE DEF rivals
    <3> QED BY <3>1, IntervalSize, FS_Subset
  <2>2. PICK place : place = [x \in ahead |-> x.place]
    OBVIOUS
  <2>3. \A x, y \in ahead : x.place = y.place => x = y
    BY <1>7 DEF IsCandidate
  <2>4. place \in [ahead -> rivals] /\ \A x, y \in ahead : place[x] = place[y] => x = y
    BY <1>7, <2>2, <2>3
  <2> HIDE DEF ahead, rivals
  <2>5. place \in Injection(ahead, rivals)
    BY <2>4, Fun_IsInj
  <2>6. IsFiniteSet(ahead) /\ Cardinality(ahead) <= Cardinality(rivals)
    BY <2>1, <2>5, FS_Injection
  <2> QED BY <2>1, <2>6, FS_CardinalityType
<1>9. Cardinality(ahead) < limit
  <2>1. Cardinality(rivals) < limit
    OBVIOUS
  <2> HIDE DEF ahead, rivals
  <2> QED BY <1>8, <2>1
<1>10. c \in Search(entries, query, limit)
  BY <1>6, <1>9 DEF Search, Take
<1> QED BY <1>4, <1>5, <1>10

(* A message that is the title of a flow gets a decision that is at least   *)
(* as good as that flow: no tie, limit or order of the sort loses it, but   *)
(* for a search that is full of flows with all of its words.                *)
THEOREM ExactTitlesAreServed == BundleSpec => []ExactTitleIsServed
<1>1. SearchInv => ExactTitleIsServed
  <2> SUFFICES ASSUME SearchInv, NEW query \in Messages, NEW e \in ToSet(Entries), e.title = query,
                      query # <<>>,
                      ~(Cardinality({i \in DOMAIN Entries :
                                        Entries[i] # e /\ ScoreHint(Entries[i], query) = Unit})
                           >= CandidateLimit)
               PROVE  \E d \in Decisions(Entries, query, CandidateLimit) :
                         d.confidence >= Score(Candidate(e, 0, Unit), query)
    BY DEF ExactTitleIsServed
  <2>1. PICK t \in Seq(EntriesV2) : t = Entries
    BY IndexedEntries
  <2> DEFINE rivals == {i \in DOMAIN t : t[i] # e /\ ScoreHint(t[i], query) = Unit}
  <2>2. ~(Cardinality(rivals) >= CandidateLimit) /\ e \in ToSet(t)
    BY <2>1
  <2>3. Cardinality(rivals) < CandidateLimit /\ CandidateLimit \in Nat
    <3>1. PICK n \in Nat : DOMAIN t = 1 .. n
      OBVIOUS
    <3>2. rivals \in SUBSET (1 .. n)
      BY <3>1
    <3> HIDE DEF rivals
    <3>3. Cardinality(rivals) \in Nat
      BY <3>2, IntervalSize, FS_Subset, FS_CardinalityType
    <3> QED BY <2>2, <3>3, SettingsAreSound
  <2>4. PICK c \in Search(t, query, CandidateLimit) :
           IsCandidate(t, query, c) /\ EntryOf(c, e) /\ c.score_hint = Unit
    BY <2>2, <2>3, ExactTitleIsFound
  <2>5. PICK w \in Winners(Search(t, query, CandidateLimit), query) : w = c \/ Beats(w, c, query)
    BY <2>4, SomeoneWins
  <2>6. IsCandidate(t, query, w)
    BY ScoredCandidates DEF Winners, Search, Take
  <2>7. PICK m \in Int, n \in Int : m = Score(w, query) /\ n = Score(c, query)
    BY <2>4, <2>6, CandidateScore
  <2>8. m >= n
    BY <2>5, <2>7 DEF Beats, SortsBefore
  <2>9. Score(c, query) = Score(Candidate(e, 0, Unit), query)
    <3>1. PICK x : x = Candidate(e, 0, Unit)
      OBVIOUS
    <3>2. x.title = e.title /\ x.tags = e.tags /\ x.score_hint = Unit
      BY <3>1 DEF Candidate
    <3>3. Score(c, query) = Score(x, query)
      BY <2>4, <3>2 DEF Score, EntryOf
    <3> QED BY <3>1, <3>3
  <2>10. Decision(w, query, CandidateLimit) \in Decisions(t, query, CandidateLimit)
    BY DEF Decisions
  <2>11. Decision(w, query, CandidateLimit).confidence = m
    BY <2>7 DEF Decision
  <2> QED BY <2>1, <2>7, <2>8, <2>9, <2>10, <2>11
<1> QED BY <1>1, SearchInvariant, PTL

-----------------------------------------------------------------------------
(* The tables of index.json *)

(* The last of the flows with a key. *)
LastOf(flows, key) == Max({i \in DOMAIN flows : DocKey(flows[i]) = key})

Keys(flows) == {DocKey(e) : e \in ToSet(flows)}

LEMMA LastFlowOfAKey ==
    ASSUME NEW n \in Nat, NEW flows, DOMAIN flows = 1 .. n, NEW key \in Keys(flows)
    PROVE  LastOf(flows, key) \in 1 .. n /\ DocKey(flows[LastOf(flows, key)]) = key
<1> DEFINE places == {i \in DOMAIN flows : DocKey(flows[i]) = key}
<1>1. places \in SUBSET Nat /\ places # {} /\ \A i \in places : i <= n
  BY DEF Keys, ToSet
<1> HIDE DEF places
<1>2. Max(places) \in places
  BY <1>1, GreatestNumber
<1> QED BY <1>2 DEF places, LastOf

(* A word of the title counts at least two, what is a keyword only counts one. *)
LEMMA TitleOutweighs ==
    ASSUME NEW e, e.title \in Texts, NEW t \in TitleTerms(e), NEW u \in Terms(e) \ TitleTerms(e)
    PROVE  TermCounts(e)[t] > TermCounts(e)[u]
<1> DEFINE places == {i \in DOMAIN e.title : <<TitleWords(e)[i]>> = t}
<1>1. PICK n \in Nat : DOMAIN e.title = 1 .. n
  BY DEF Texts
<1>2. places \in SUBSET (1 .. n)
  BY <1>1
<1>3. \E i \in DOMAIN e.title : <<TitleWords(e)[i]>> = t
  BY DEF TitleTerms, TitleWords, ToSet
<1>4. places # {}
  BY <1>3
<1>5. t \in Terms(e) /\ u \in Terms(e) /\ u \in e.keywords
  BY DEF Terms
<1>6. TermCounts(e)[t] = (IF t \in e.keywords THEN 1 ELSE 0) + 2 * Cardinality(places)
  BY <1>5 DEF TermCounts
<1>7. TermCounts(e)[u] = 1 + 0
  BY <1>5 DEF TermCounts
<1> HIDE DEF places
<1>8. Cardinality(places) \in Nat /\ Cardinality(places) # 0
  <2>1. IsFiniteSet(places)
    BY <1>2, IntervalSize, FS_Subset
  <2> QED BY <1>4, <2>1, FS_CardinalityType, FS_EmptySet
<1>9. PICK k \in Nat : k = Cardinality(places) /\ k # 0
  BY <1>8
<1>10. PICK b \in {0, 1} : TermCounts(e)[t] = b + 2 * k
  BY <1>6, <1>9
<1> QED BY <1>7, <1>9, <1>10

LEMMA TablesOfFlows ==
    ASSUME NEW n \in Nat, NEW S, NEW flows \in [1 .. n -> S], \A e \in S : e.title \in Texts
    PROVE  TablesFit(BuildIndexManifest(flows))
<1> DEFINE index == BuildIndexManifest(flows)
           tf == index.term_frequencies
           df == index.document_frequencies
           Having(t) == {k \in DOMAIN tf : t \in DOMAIN tf[k]}
           Docs(t) == {i \in 1 .. n : t \in Terms(flows[i])}
           keys == Keys(flows)
           last == [k \in keys |-> LastOf(flows, k)]
           keyOf == [i \in 1 .. n |-> DocKey(flows[i])]
<1>1. Len(flows) = n /\ DOMAIN flows = 1 .. n
  OBVIOUS
<1>2. DOMAIN tf = keys /\ \A k \in keys : tf[k] = TermCounts(flows[last[k]])
  BY DEF BuildIndexManifest, TermFrequencies, LastOf, Keys
<1>3. \A k \in keys : last[k] \in 1 .. n /\ keyOf[last[k]] = k
  BY <1>1, LastFlowOfAKey
<1>4. \A e : DOMAIN TermCounts(e) = Terms(e)
  BY DEF TermCounts
<1>5. \A k \in keys : DOMAIN tf[k] = Terms(flows[last[k]])
  BY <1>2, <1>4
<1>6. /\ DOMAIN df = UNION {Terms(e) : e \in ToSet(flows)}
      /\ \A t \in DOMAIN df : df[t] = Cardinality(Docs(t))
  BY <1>1 DEF BuildIndexManifest, DocumentFrequencies
<1>7. keyOf \in Surjection(1 .. n, keys)
  <2>1. keyOf \in [1 .. n -> keys] /\ \A k \in keys : \E i \in 1 .. n : keyOf[i] = k
    BY <1>1 DEF Keys, ToSet
  <2> HIDE DEF keyOf, keys
  <2> QED BY <2>1, Fun_IsSurj
<1>8. IsFiniteSet(1 .. n) /\ Cardinality(1 .. n) = n
  BY IntervalSize
<1>9. ASSUME Cardinality(keys) = n
      PROVE  \A i, j \in 1 .. n : keyOf[i] = keyOf[j] => i = j
  <2> HIDE DEF keyOf, keys
  <2>1. keyOf \in Injection(1 .. n, keys)
    BY <1>7, <1>8, <1>9, FS_Surjection
  <2> QED BY <2>1, Fun_InjectionProperties
<1>10. UNION {DOMAIN tf[k] : k \in DOMAIN tf} \subseteq DOMAIN df
  <2>1. \A k \in keys : Terms(flows[last[k]]) \subseteq DOMAIN df
    <3> HIDE DEF last, df, keys
    <3> QED BY <1>1, <1>3, <1>6 DEF ToSet
  <2> HIDE DEF tf, df, last, keys
  <2> QED BY <1>2, <1>5, <2>1
<1>11. ASSUME NEW t \in DOMAIN df
       PROVE  /\ df[t] \in Cardinality(Having(t)) .. n
              /\ Cardinality(keys) = n => df[t] = Cardinality(Having(t))
  <2>1. Having(t) = {k \in keys : t \in Terms(flows[last[k]])}
    BY <1>2, <1>5
  <2> DEFINE having == {k \in keys : t \in Terms(flows[last[k]])}
             docs == Docs(t)
  <2>2. IsFiniteSet(docs) /\ Cardinality(docs) <= n /\ Cardinality(docs) \in Nat
    <3>1. docs \in SUBSET (1 .. n)
      OBVIOUS
    <3> HIDE DEF docs, df
    <3>2. IsFiniteSet(docs) /\ Cardinality(docs) <= Cardinality(1 .. n)
      BY <1>8, <3>1, FS_Subset
    <3> QED BY <1>8, <3>2, FS_CardinalityType
  <2>3. Cardinality(having) <= Cardinality(docs) /\ IsFiniteSet(having) /\ Cardinality(having) \in Nat
    <3>1. PICK f : f = [k \in having |-> last[k]]
      OBVIOUS
    <3>2. f \in [having -> docs] /\ \A k, m \in having : f[k] = f[m] => k = m
      <4> HIDE DEF last, keys, keyOf
      <4> QED BY <1>3, <3>1
    <3> HIDE DEF having, docs
    <3>3. f \in Injection(having, docs)
      BY <3>2, Fun_IsInj
    <3> QED BY <2>2, <3>3, FS_Injection, FS_CardinalityType
  <2>4. ASSUME Cardinality(keys) = n
        PROVE  Cardinality(docs) <= Cardinality(having)
    <3>1. PICK g : g = [i \in docs |-> keyOf[i]]
      OBVIOUS
    <3>2. \A i \in 1 .. n : keyOf[i] \in keys /\ last[keyOf[i]] = i
      <4>1. \A i \in 1 .. n : keyOf[i] \in keys
        BY <1>1 DEF Keys, ToSet
      <4> HIDE DEF last, keys, keyOf
      <4> QED BY <1>3, <1>9, <2>4, <4>1
    <3>3. g \in [docs -> having] /\ \A i, j \in docs : g[i] = g[j] => i = j
      <4> HIDE DEF last, keys, keyOf
      <4> QED BY <1>9, <2>4, <3>1, <3>2
    <3> HIDE DEF having, docs
    <3>4. g \in Injection(docs, having)
      BY <3>3, Fun_IsInj
    <3> QED BY <2>3, <3>4, FS_Injection
  <2>5. df[t] = Cardinality(docs) /\ Having(t) = having
    BY <1>6, <2>1
  <2> HIDE DEF having, docs, df, keys, Having
  <2>6. PICK h \in Nat, d \in Nat : h = Cardinality(having) /\ d = Cardinality(docs) /\ h <= d /\ d <= n
    BY <2>2, <2>3
  <2>7. d \in h .. n
    BY <2>6
  <2>8. Cardinality(keys) = n => d = h
    BY <2>4, <2>6
  <2> QED BY <2>5, <2>6, <2>7, <2>8
<1>12. ASSUME NEW e \in ToSet(flows), NEW t \in TitleTerms(e), NEW u \in Terms(e) \ TitleTerms(e),
              Cardinality(keys) = n
       PROVE  tf[DocKey(e)][t] > tf[DocKey(e)][u]
  <2>1. PICK i \in 1 .. n : flows[i] = e /\ keyOf[i] = DocKey(e)
    BY <1>1 DEF ToSet
  <2>2. DocKey(e) \in keys
    BY DEF Keys
  <2>3. last[DocKey(e)] = i
    <3> HIDE DEF last, keys, keyOf
    <3> QED BY <1>3, <1>9, <1>12, <2>1, <2>2
  <2>4. tf[DocKey(e)] = TermCounts(e)
    <3> HIDE DEF last, keys, keyOf, tf
    <3> QED BY <1>2, <2>1, <2>2, <2>3
  <2>5. e.title \in Texts
    BY <1>1 DEF ToSet
  <2> QED BY <2>4, <2>5, TitleOutweighs
<1>13. index.flows = flows
  BY DEF BuildIndexManifest
<1>14. ASSUME NEW t \in DOMAIN df
       PROVE  /\ df[t] \in Cardinality(Having(t)) .. Len(index.flows)
              /\ Cardinality(DOMAIN tf) = Len(index.flows) => df[t] = Cardinality(Having(t))
  <2>1. Len(index.flows) = n /\ DOMAIN tf = keys
    BY <1>1, <1>2, <1>13
  <2> HIDE DEF tf, df, keys, index
  <2> QED BY <1>11, <2>1
<1>15. ASSUME NEW e \in ToSet(index.flows), NEW t \in TitleTerms(e), NEW u \in Terms(e) \ TitleTerms(e),
              Cardinality(DOMAIN tf) = Len(index.flows)
       PROVE  tf[DocKey(e)][t] > tf[DocKey(e)][u]
  <2>1. Len(index.flows) = n /\ DOMAIN tf = keys
    BY <1>1, <1>2, <1>13
  <2> HIDE DEF tf, df, keys, index
  <2> QED BY <1>12, <1>13, <1>15, <2>1
<1> HIDE DEF keys
<1> QED BY <1>10, <1>14, <1>15 DEF TablesFit

(* Whatever bundle index has written whole, its two tables agree.           *)
THEOREM TablesFitTogether == BundleSpec => []TablesAgree
<1>1. SearchInv => TablesAgree
  <2> SUFFICES ASSUME SearchInv, output.index.state = "whole"
               PROVE  TablesFit(output.index.content)
    BY DEF TablesAgree
  <2>1. PICK flows \in Scans : output.index = Whole(BuildIndexManifest(flows))
    BY DEF SearchInv, FileInv
  <2>2. PICK bundle \in IndexedBundles : flows \in SetToSeqs(ScanBundle(bundle))
    BY DEF Scans
  <2>3. IsFiniteSet(ScanBundle(bundle)) /\ \A e \in ScanBundle(bundle) : e.title \in Texts
    BY IndexedAreSound, ScannedFlows DEF IsScanned
  <2>4. PICK n \in Nat : flows \in [1 .. n -> ScanBundle(bundle)]
    BY <2>2, <2>3, WalksAreSequences
  <2>5. TablesFit(BuildIndexManifest(flows))
    BY <2>3, <2>4, TablesOfFlows
  <2> QED BY <2>1, <2>5 DEF Whole
<1> QED BY <1>1, SearchInvariant, PTL

-----------------------------------------------------------------------------
(* intents.md *)

(* The numbers of a finite set, one after the other.                        *)
LEMMA AscendingEnumerates ==
    ASSUME NEW S \in SUBSET Nat, IsFiniteSet(S)
    PROVE  /\ Cardinality(S) \in Nat
           /\ Ascending(S) \in [1 .. Cardinality(S) -> S]
           /\ \A n \in S : \E k \in 1 .. Cardinality(S) : Ascending(S)[k] = n
           /\ \A j, k \in 1 .. Cardinality(S) : j < k => Ascending(S)[j] < Ascending(S)[k]
<1> DEFINE size == Cardinality(S)
           Upto(n) == {m \in S : m <= n}
<1>1. size \in Nat
  BY FS_CardinalityType
<1>2. \A n \in S : IsFiniteSet(Upto(n)) /\ Cardinality(Upto(n)) \in 1 .. size
  <2> TAKE n \in S
  <2>1. Upto(n) \in SUBSET S /\ Upto(n) # {}
    OBVIOUS
  <2> HIDE DEF Upto
  <2>2. IsFiniteSet(Upto(n)) /\ Cardinality(Upto(n)) <= size
    BY <2>1, FS_Subset
  <2>3. Cardinality(Upto(n)) \in Nat /\ Cardinality(Upto(n)) # 0
    BY <2>1, <2>2, FS_CardinalityType, FS_EmptySet
  <2> QED BY <1>1, <2>2, <2>3
<1>3. \A m, n \in S : m < n => Cardinality(Upto(m)) < Cardinality(Upto(n))
  <2> SUFFICES ASSUME NEW m \in S, NEW n \in S, m < n
               PROVE  Cardinality(Upto(m)) < Cardinality(Upto(n))
    OBVIOUS
  <2>1. Upto(m) \in SUBSET Upto(n) /\ n \in Upto(n) /\ n \notin Upto(m)
    <3>1. m \in Nat /\ n \in Nat /\ \A k \in S : k \in Nat
      OBVIOUS
    <3>2. \A k \in S : k <= m => k <= n
      BY <3>1
    <3>3. n <= n /\ ~(n <= m)
      BY <3>1
    <3> QED BY <3>2, <3>3
  <2> HIDE DEF Upto
  <2>2. /\ Cardinality(Upto(m)) <= Cardinality(Upto(n))
        /\ Cardinality(Upto(n)) = Cardinality(Upto(m)) => Upto(n) = Upto(m)
    BY <1>2, <2>1, FS_Subset
  <2>3. Cardinality(Upto(m)) \in Nat /\ Cardinality(Upto(n)) \in Nat
    BY <1>1, <1>2
  <2> QED BY <2>1, <2>2, <2>3
<1> DEFINE rank == [n \in S |-> Cardinality(Upto(n))]
           places == 1 .. size
<1>4. rank \in [S -> places] /\ \A m, n \in S : m < n => rank[m] < rank[n]
  BY <1>2, <1>3
<1>5. \A k \in places : \A n \in S : rank[n] = k <=> Cardinality({m \in S : m <= n}) = k
  OBVIOUS
<1>6. Ascending(S) = [k \in places |-> CHOOSE n \in S : Cardinality({m \in S : m <= n}) = k]
  BY DEF Ascending
<1> HIDE DEF rank, Upto
<1>7. \A m, n \in S : rank[m] = rank[n] => m = n
  <2> SUFFICES ASSUME NEW m \in S, NEW n \in S, rank[m] = rank[n], m # n PROVE FALSE
    OBVIOUS
  <2>1. m < n \/ n < m
    OBVIOUS
  <2> QED BY <1>1, <1>4, <2>1
<1>8. \A k \in places : \E n \in S : rank[n] = k
  <2>1. IsFiniteSet(places) /\ Cardinality(places) = size
    BY <1>1, IntervalSize
  <2> HIDE DEF places, size
  <2>2. rank \in Injection(S, places)
    BY <1>4, <1>7, Fun_IsInj
  <2>3. rank \in Surjection(S, places)
    BY <2>1, <2>2, FS_Injection DEF size
  <2> QED BY <2>3 DEF Surjection
<1>9. \A k \in places : Ascending(S)[k] \in S /\ rank[Ascending(S)[k]] = k
  <2> TAKE k \in places
  <2>1. \E n \in S : Cardinality({m \in S : m <= n}) = k
    BY <1>5, <1>8
  <2>2. Ascending(S)[k] = CHOOSE n \in S : Cardinality({m \in S : m <= n}) = k
    BY <1>6
  <2>3. Ascending(S)[k] \in S /\ Cardinality({m \in S : m <= Ascending(S)[k]}) = k
    BY <2>1, <2>2
  <2> QED BY <1>5, <2>3
<1>10. Ascending(S) \in [places -> S]
  BY <1>6, <1>9
<1>11. \A n \in S : rank[n] \in places /\ Ascending(S)[rank[n]] = n
  BY <1>4, <1>7, <1>9
<1>12. \A j, k \in places : j < k => Ascending(S)[j] < Ascending(S)[k]
  <2> SUFFICES ASSUME NEW j \in places, NEW k \in places, j < k
               PROVE  Ascending(S)[j] < Ascending(S)[k]
    OBVIOUS
  <2>1. PICK m \in S, n \in S : m = Ascending(S)[j] /\ n = Ascending(S)[k]
    BY <1>9
  <2>2. rank[m] = j /\ rank[n] = k
    BY <1>9, <2>1
  <2>3. ~(n < m) /\ n # m
    BY <1>4, <2>2
  <2> QED BY <2>1, <2>3
<1> QED BY <1>1, <1>10, <1>11, <1>12

LEMMA PlacesInRows ==
    ASSUME NEW C, NEW D, NEW l
    PROVE  l \in UNION {{s} \X D[s] : s \in C} <=> \E s \in C : \E k \in D[s] : l = <<s, k>>
OBVIOUS

(* intents.md has one line for each flow, in the section of its pack.       *)
LEMMA IntentsListFlows ==
    ASSUME NEW n \in Nat, NEW S, NEW flows \in [1 .. n -> S], \A e \in S : e.pack_id \in Nat
    PROVE  LET sections == IntentsMd(flows).sections IN
           /\ IntentsMd(flows).total = n
           /\ ListsEachOnce(sections, flows)
           /\ \A s \in DOMAIN sections : \A f \in ToSet(sections[s].flows) :
                 f.pack_id = sections[s].pack
           /\ \A s, t \in DOMAIN sections : s < t => sections[s].pack < sections[t].pack
<1> DEFINE names == {e.pack_id : e \in ToSet(flows)}
           packs == Ascending(names)
           count == Cardinality(names)
           Of(p) == {i \in DOMAIN flows : flows[i].pack_id = p}
           sections == IntentsMd(flows).sections
<1>1. DOMAIN flows = 1 .. n /\ Len(flows) = n /\ ToSet(flows) = {flows[i] : i \in 1 .. n}
  BY DEF ToSet
<1>2. \A i \in 1 .. n : flows[i].pack_id \in names /\ flows[i].pack_id \in Nat
  BY <1>1
<1>3. names \in SUBSET Nat /\ IsFiniteSet(names)
  <2>1. PICK pack : pack = [i \in 1 .. n |-> flows[i].pack_id]
    OBVIOUS
  <2>2. pack \in [1 .. n -> names] /\ \A p \in names : \E i \in 1 .. n : pack[i] = p
    BY <1>1, <1>2, <2>1
  <2>3. names \in SUBSET Nat
    BY <1>1
  <2> HIDE DEF names
  <2>4. pack \in Surjection(1 .. n, names)
    BY <2>2, Fun_IsSurj
  <2> QED BY <2>3, <2>4, IntervalSize, FS_Surjection
<1>4. /\ count \in Nat /\ packs \in [1 .. count -> names]
      /\ \A p \in names : \E s \in 1 .. count : packs[s] = p
      /\ \A s, t \in 1 .. count : s < t => packs[s] < packs[t]
  <2> HIDE DEF names
  <2> QED BY <1>3, AscendingEnumerates
<1>5. /\ DOMAIN sections = 1 .. count
      /\ \A s \in 1 .. count : sections[s].pack = packs[s] /\ sections[s].flows = OfPack(flows, packs[s])
  <2>1. sections = [s \in DOMAIN packs |-> [pack |-> packs[s], flows |-> OfPack(flows, packs[s])]]
    BY DEF IntentsMd
  <2>2. DOMAIN packs = 1 .. count
    BY <1>4
  <2> HIDE DEF sections, packs, count
  <2> QED BY <2>1, <2>2
<1> DEFINE rows == [p \in Nat |-> Cardinality(Of(p))]
           place == [p \in Nat |-> Ascending(Of(p))]
<1>6. \A p \in Nat :
         /\ rows[p] \in Nat /\ place[p] \in [1 .. rows[p] -> Of(p)]
         /\ \A i \in Of(p) : \E k \in 1 .. rows[p] : place[p][k] = i
         /\ \A j, k \in 1 .. rows[p] : j < k => place[p][j] < place[p][k]
  <2> TAKE p \in Nat
  <2>1. Of(p) \in SUBSET (1 .. n)
    BY <1>1
  <2>2. Of(p) \in SUBSET Nat
    BY <2>1
  <2> HIDE DEF Of
  <2>3. IsFiniteSet(Of(p))
    BY <2>1, IntervalSize, FS_Subset
  <2> QED BY <2>2, <2>3, AscendingEnumerates
<1>7. \A p \in Nat : /\ DOMAIN OfPack(flows, p) = 1 .. rows[p]
                     /\ \A k \in 1 .. rows[p] : OfPack(flows, p)[k] = flows[place[p][k]]
  <2> TAKE p \in Nat
  <2>1. OfPack(flows, p) = [k \in DOMAIN place[p] |-> flows[place[p][k]]]
    BY DEF OfPack
  <2>2. DOMAIN place[p] = 1 .. rows[p]
    BY <1>6
  <2> HIDE DEF place, rows
  <2> QED BY <2>1, <2>2
<1>8. \A p \in Nat : \A i : i \in Of(p) <=> i \in 1 .. n /\ flows[i].pack_id = p
  BY <1>1
<1> HIDE DEF Of, place, rows, packs, sections
<1>9. \A s \in 1 .. count : packs[s] \in Nat
  BY <1>3, <1>4
<1>10. \A s \in 1 .. count :
          /\ DOMAIN sections[s].flows = 1 .. rows[packs[s]]
          /\ \A k \in 1 .. rows[packs[s]] :
                /\ sections[s].flows[k] = flows[place[packs[s]][k]]
                /\ place[packs[s]][k] \in 1 .. n
                /\ flows[place[packs[s]][k]].pack_id = packs[s]
  <2> TAKE s \in 1 .. count
  <2>1. PICK p \in Nat : p = packs[s]
    BY <1>9
  <2>2. sections[s].flows = OfPack(flows, p)
    BY <1>5, <2>1
  <2>3. \A k \in 1 .. rows[p] : place[p][k] \in Of(p)
    BY <1>6
  <2> QED BY <1>7, <1>8, <2>1, <2>2, <2>3
<1>11. ASSUME NEW s \in DOMAIN sections, NEW f \in ToSet(sections[s].flows)
       PROVE  f.pack_id = sections[s].pack
  <2>1. PICK k \in DOMAIN sections[s].flows : f = sections[s].flows[k]
    BY DEF ToSet
  <2>2. s \in 1 .. count /\ k \in 1 .. rows[packs[s]] /\ sections[s].pack = packs[s]
    BY <1>5, <1>10
  <2>3. f = flows[place[packs[s]][k]] /\ flows[place[packs[s]][k]].pack_id = packs[s]
    BY <1>10, <2>1, <2>2
  <2> QED BY <2>2, <2>3
<1>12. \A s, t \in DOMAIN sections : s < t => sections[s].pack < sections[t].pack
  BY <1>4, <1>5
<1> DEFINE row == [s \in 1 .. count |-> DOMAIN sections[s].flows]
           lines == UNION {{s} \X row[s] : s \in 1 .. count}
           IsLine(i, s, k) == packs[s] = flows[i].pack_id /\ place[flows[i].pack_id][k] = i
<1>13. /\ \A s \in 1 .. count : row[s] = 1 .. rows[packs[s]]
       /\ \A s \in 1 .. count : \A k \in row[s] : k \in Nat
       /\ UNION {{s} \X DOMAIN sections[s].flows : s \in DOMAIN sections} = lines
  <2>1. \A s \in 1 .. count : row[s] = DOMAIN sections[s].flows
    OBVIOUS
  <2>2. {{s} \X DOMAIN sections[s].flows : s \in DOMAIN sections} = {{s} \X row[s] : s \in 1 .. count}
    BY <1>5, <2>1
  <2>3. \A s \in 1 .. count : row[s] = 1 .. rows[packs[s]]
    BY <1>10, <2>1
  <2>4. \A s \in 1 .. count : \A k \in 1 .. rows[packs[s]] : k \in Nat
    BY <1>6, <1>9
  <2> QED BY <2>2, <2>3, <2>4
<1> HIDE DEF row
<1>14. \A l : l \in lines <=> \E s \in 1 .. count : \E k \in row[s] : l = <<s, k>>
  <2> TAKE l
  <2>1. PICK C : C = 1 .. count
    OBVIOUS
  <2>2. l \in UNION {{s} \X row[s] : s \in C} <=> \E s \in C : \E k \in row[s] : l = <<s, k>>
    BY PlacesInRows
  <2> QED BY <2>1, <2>2
<1> HIDE DEF lines
<1> DEFINE line == [i \in 1 .. n |-> CHOOSE l \in lines : IsLine(i, l[1], l[2])]
<1>15. \A i \in 1 .. n : \E l \in lines : IsLine(i, l[1], l[2])
  <2> TAKE i \in 1 .. n
  <2>1. PICK p \in Nat : p = flows[i].pack_id /\ i \in Of(p) /\ p \in names
    BY <1>2, <1>8
  <2>2. PICK s \in 1 .. count : packs[s] = p
    BY <1>4, <2>1
  <2>3. PICK k \in 1 .. rows[p] : place[p][k] = i
    BY <1>6, <2>1
  <2>4. <<s, k>> \in lines
    BY <1>13, <1>14, <2>2
  <2> QED BY <2>1, <2>2, <2>3, <2>4
<1>16. \A i \in 1 .. n :
          \E s \in 1 .. count : \E k \in row[s] : line[i] = <<s, k>> /\ <<s, k>> \in lines /\ IsLine(i, s, k)
  <2> TAKE i \in 1 .. n
  <2>1. line[i] \in lines /\ IsLine(i, line[i][1], line[i][2])
    <3> DEFINE chosen == CHOOSE l \in lines : IsLine(i, l[1], l[2])
    <3>1. line[i] = chosen
      OBVIOUS
    <3>2. chosen \in lines /\ IsLine(i, chosen[1], chosen[2])
      BY <1>15
    <3> QED BY <3>1, <3>2
  <2> HIDE DEF line
  <2>2. PICK s \in 1 .. count : \E k \in row[s] : line[i] = <<s, k>>
    BY <1>14, <2>1
  <2>3. PICK k \in row[s] : line[i] = <<s, k>>
    BY <2>2
  <2>4. line[i][1] = s /\ line[i][2] = k
    BY <2>3
  <2>5. <<s, k>> \in lines /\ IsLine(i, s, k)
    <3> HIDE DEF IsLine
    <3> QED BY <2>1, <2>3, <2>4
  <2> QED BY <2>3, <2>5
<1>17. \A s, t \in 1 .. count : packs[s] = packs[t] => s = t
  <2> SUFFICES ASSUME NEW s \in 1 .. count, NEW t \in 1 .. count, packs[s] = packs[t], s # t
               PROVE  FALSE
    OBVIOUS
  <2>1. packs[s] < packs[t] \/ packs[t] < packs[s]
    BY <1>4
  <2> QED BY <1>9, <2>1
<1>18. ASSUME NEW p \in Nat, NEW j \in 1 .. rows[p], NEW k \in 1 .. rows[p], place[p][j] <= place[p][k]
       PROVE  j <= k
  <2>1. rows[p] \in Nat /\ place[p][k] \in Of(p) /\ place[p][j] \in Of(p)
    BY <1>6
  <2>2. k < j => place[p][k] < place[p][j]
    BY <1>6
  <2>3. place[p][k] \in 1 .. n /\ place[p][j] \in 1 .. n
    BY <1>8, <2>1
  <2>4. ~(place[p][k] < place[p][j])
    BY <1>18, <2>3
  <2> QED BY <2>1, <2>2, <2>4
<1>19. line \in Bijection(1 .. n, lines)
  <2>1. line \in [1 .. n -> lines]
    <3>1. \A i \in 1 .. n : line[i] \in lines
      BY <1>16
    <3> QED BY <3>1
  <2> HIDE DEF line
  <2>2. \A i, j \in 1 .. n : line[i] = line[j] => i = j
    <3> TAKE i, j \in 1 .. n
    <3>1. PICK s \in 1 .. count : \E k \in row[s] : line[i] = <<s, k>> /\ IsLine(i, s, k)
      BY <1>16
    <3>2. PICK k \in row[s] : line[i] = <<s, k>> /\ IsLine(i, s, k)
      BY <3>1
    <3>3. PICK t \in 1 .. count : \E m \in row[t] : line[j] = <<t, m>> /\ IsLine(j, t, m)
      BY <1>16
    <3>4. PICK m \in row[t] : line[j] = <<t, m>> /\ IsLine(j, t, m)
      BY <3>3
    <3> QED BY <3>2, <3>4
  <2>3. ASSUME NEW l \in lines
        PROVE  \E i \in 1 .. n : line[i] = l
    <3>1. PICK s \in 1 .. count : \E k \in row[s] : l = <<s, k>>
      BY <1>14
    <3>2. PICK k \in row[s] : l = <<s, k>>
      BY <3>1
    <3>3. PICK p \in Nat : p = packs[s] /\ row[s] = 1 .. rows[p]
      BY <1>9, <1>13
    <3>4. PICK i \in 1 .. n : i = place[p][k] /\ flows[i].pack_id = p
      BY <1>10, <3>3
    <3>5. PICK t \in 1 .. count : \E j \in row[t] : line[i] = <<t, j>> /\ IsLine(i, t, j)
      BY <1>16
    <3>6. PICK j \in row[t] : line[i] = <<t, j>> /\ IsLine(i, t, j)
      BY <3>5
    <3>7. t = s
      BY <1>17, <3>3, <3>4, <3>6
    <3>8. k \in 1 .. rows[p] /\ j \in 1 .. rows[p] /\ k \in Nat /\ j \in Nat
      BY <1>13, <3>3, <3>7
    <3>9. place[p][j] = i /\ place[p][k] = i /\ i <= i
      BY <3>4, <3>6
    <3>10. j <= k /\ k <= j
      BY <1>18, <3>8, <3>9
    <3>11. j = k
      BY <3>8, <3>10
    <3> QED BY <3>2, <3>6, <3>7, <3>11
  <2> QED BY <2>1, <2>2, <2>3, Fun_IsBij
<1> HIDE DEF line
<1>20. ASSUME NEW i \in 1 .. n
       PROVE  flows[i] = sections[line[i][1]].flows[line[i][2]]
  <2>1. PICK s \in 1 .. count : \E k \in row[s] : line[i] = <<s, k>> /\ IsLine(i, s, k)
    BY <1>16
  <2>2. PICK k \in row[s] : line[i] = <<s, k>> /\ IsLine(i, s, k)
    BY <2>1
  <2>3. k \in 1 .. rows[packs[s]]
    BY <1>13
  <2>4. sections[s].flows[k] = flows[place[packs[s]][k]]
    BY <1>10, <2>3
  <2> QED BY <2>2, <2>4
<1>21. ASSUME NEW i \in 1 .. n, NEW j \in 1 .. n, i < j, line[i][1] = line[j][1]
       PROVE  line[i][2] < line[j][2]
  <2>1. PICK s \in 1 .. count : \E k \in row[s] : line[i] = <<s, k>> /\ IsLine(i, s, k)
    BY <1>16
  <2>2. PICK k \in row[s] : line[i] = <<s, k>> /\ IsLine(i, s, k)
    BY <2>1
  <2>3. PICK t \in 1 .. count : \E m \in row[t] : line[j] = <<t, m>> /\ IsLine(j, t, m)
    BY <1>16
  <2>4. PICK m \in row[t] : line[j] = <<t, m>> /\ IsLine(j, t, m)
    BY <2>3
  <2>5. t = s
    BY <1>21, <2>2, <2>4
  <2>6. PICK p \in Nat : p = packs[s] /\ row[s] = 1 .. rows[p]
    BY <1>9, <1>13
  <2>7. place[p][k] = i /\ place[p][m] = j /\ k \in Nat /\ m \in Nat
    BY <1>13, <2>2, <2>4, <2>5, <2>6
  <2>8. i <= j /\ i # j
    BY <1>21
  <2>9. k <= m /\ k # m
    BY <1>18, <2>5, <2>6, <2>7, <2>8
  <2> QED BY <2>2, <2>4, <2>7, <2>9
<1>22. ListsEachOnce(sections, flows)
  BY <1>1, <1>13, <1>19, <1>20, <1>21 DEF ListsEachOnce
<1>23. IntentsMd(flows).total = n
  BY <1>1 DEF IntentsMd
<1> QED BY <1>11, <1>12, <1>22, <1>23 DEF sections

(* After an Ok for some flows both files are whole, index.json holds them,  *)
(* and intents.md lists each of them once, in the section of its pack,      *)
(* whatever half written files earlier commands have left.                  *)
THEOREM OkIsWritten == BundleSpec => []OkDescribesOutput
<1>1. SearchInv => OkDescribesOutput
  <2> SUFFICES ASSUME SearchInv, tool.at = "ok", tool.flows # <<>>
               PROVE  OkDescribesOutput
    BY DEF OkDescribesOutput
  <2>1. /\ output.index = Whole(BuildIndexManifest(tool.flows))
        /\ tool.docs => output.intents = Whole(IntentsMd(tool.flows))
        /\ tool.flows \in Scans
    BY DEF SearchInv, FileInv
  <2>2. PICK bundle \in IndexedBundles : tool.flows \in SetToSeqs(ScanBundle(bundle))
    BY <2>1 DEF Scans
  <2>3. IsFiniteSet(ScanBundle(bundle)) /\ \A e \in ScanBundle(bundle) : e.pack_id \in Nat
    BY IndexedAreSound, ScannedFlows DEF IsScanned
  <2>4. PICK n \in Nat : tool.flows \in [1 .. n -> ScanBundle(bundle)]
    BY <2>2, <2>3, WalksAreSequences
  <2>5. Len(tool.flows) = n
    BY <2>4
  <2>6. output.index.state = "whole" /\ output.index.content.flows = tool.flows
    BY <2>1 DEF Whole, BuildIndexManifest
  <2>7. tool.docs => output.intents.state = "whole" /\ output.intents.content = IntentsMd(tool.flows)
    BY <2>1 DEF Whole
  <2>8. PICK flows \in [1 .. n -> ScanBundle(bundle)] : flows = tool.flows
    BY <2>4
  <2>9. LET sections == IntentsMd(flows).sections IN
        /\ IntentsMd(flows).total = n
        /\ ListsEachOnce(sections, flows)
        /\ \A s \in DOMAIN sections : \A f \in ToSet(sections[s].flows) : f.pack_id = sections[s].pack
        /\ \A s, t \in DOMAIN sections : s < t => sections[s].pack < sections[t].pack
    BY <2>3, IntentsListFlows
  <2> QED BY <2>5, <2>6, <2>7, <2>8, <2>9 DEF OkDescribesOutput
<1> QED BY <1>1, SearchInvariant, PTL
=============================================================================
