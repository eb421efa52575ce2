------------------------ MODULE IntentEngineProofs ------------------------
(***************************************************************************)
(* What IntentEngine promises for any messages and any extractors: its     *)
(* types, that resolve keeps disjoint candidates, chosen by the rules, and *)
(* that render_markers replaces exactly these.                             *)
(***************************************************************************)
EXTENDS IntentEngine, FiniteSetTheorems, SequenceTheorems, TLAPS

(* The candidates that the loop of resolve has considered. *)
Considered == DOMAIN found \ pending

(* resolve has not begun, or has ended. *)
PendingInResolve ==
    /\ pc \in {"extract", "panicked"} => pending = {} /\ kept = {}
    /\ pc \in {"render", "done"} => pending = {}

(* The loop goes down the sorted candidates. *)
InOrder ==
    pc = "resolve" => \A i \in Considered, j \in pending : SortsBefore(i, j)

(* ResolvedByTheRules, as far as the loop has come. *)
ConsideredByTheRules ==
    pc \in {"resolve", "render", "done"} =>
        /\ kept \subseteq Considered
        /\ \A i \in Considered :
              i \in kept <=> ~\E k \in kept : SpansOverlap(found[k], found[i]) /\ SortsBefore(k, i)

IInv ==
    /\ IntentTypeOK
    /\ PendingInResolve
    /\ InOrder
    /\ ConsideredByTheRules
    /\ KeptAreDisjoint

-----------------------------------------------------------------------------
(* The text that is scanned has its bounds within it. *)
LEMMA TextIsSound ==
    ASSUME IntentTypeOK
    PROVE  /\ text.size \in Nat
           /\ 0 \in text.bounds /\ text.size \in text.bounds
           /\ text.bounds \subseteq 0 .. text.size
BY TextsAreSound DEF IntentTypeOK

LEMMA ExtractorIsKnown ==
    ASSUME IntentTypeOK, extractor <= Len(engine)
    PROVE  engine[extractor] \in Kinds
BY ExtractorsAreKnown DEF IntentTypeOK

(* A skip stays within the text, so that the scan ends. *)
LEMMA SkipsAhead ==
    ASSUME IntentTypeOK, offset < text.size, NEW kind, NEW o \in Skips(kind)
    PROVE  o \in 0 .. text.size /\ (kind \in ByteScans \/ o \in text.bounds)
BY TextIsSound DEF Skips, IntentTypeOK

(* A match is a span of whole characters, and the scan goes on at one. *)
LEMMA MatchEmitsASpan ==
    ASSUME IntentTypeOK, Match
    PROVE  /\ UNCHANGED <<pc, text, engine, extractor, pending, kept>>
           /\ offset' \in text.bounds
           /\ \E candidate \in Candidates :
                 candidate.start < candidate.end /\ found' = Append(found, candidate)
<1>1. ASSUME NEW kind \in Kinds, NEW start \in text.bounds, NEW end \in text.bounds,
             Emit(kind, start, end)
      PROVE  /\ UNCHANGED <<pc, text, engine, extractor, pending, kept>>
             /\ \E candidate \in Candidates :
                   candidate.start < candidate.end /\ found' = Append(found, candidate)
  <2>1. UNCHANGED <<pc, text, engine, extractor, pending, kept>>
    BY <1>1 DEF Emit, resolveVars
  <2>2. PICK c \in Confidences[kind] :
           found' = Append(found, [kind |-> kind, start |-> start, end |-> end, confidence |-> c])
    BY <1>1 DEF Emit
  <2>3. c \in UNION {Confidences[k] : k \in Kinds}
    OBVIOUS
  <2>4. [kind |-> kind, start |-> start, end |-> end, confidence |-> c] \in Candidates
    BY <2>3 DEF Candidates
  <2>5. start < end
    BY <1>1 DEF Emit
  <2>6. QED
    BY <2>1, <2>2, <2>4, <2>5
<1>2. {"date", "time", "location", "url", "person", "email", "phone"} \subseteq Kinds
  BY DEF Kinds, KindPriority
<1>3. ASSUME NEW kind \in Kinds, MatchHere(kind)
      PROVE  \E start, end \in text.bounds : Emit(kind, start, end) /\ offset' \in text.bounds
  BY <1>3 DEF MatchHere, Scans
<1>4. \E kind \in Kinds : \E start, end \in text.bounds :
         Emit(kind, start, end) /\ offset' \in text.bounds
  BY <1>2, <1>3 DEF Match, MatchDate, MatchTime, MatchLocation, MatchUrl,
                   MatchPerson, MatchEmail, MatchPhone, Scans
<1>5. QED
  BY <1>1, <1>4

(* Whatever extractor matches, it does so while the scans run. *)
LEMMA MatchInExtract == Match => pc = "extract"
BY DEF Match, MatchDate, MatchTime, MatchLocation, MatchUrl, MatchHere,
       MatchPerson, MatchEmail, MatchPhone, Scans, Scanning

(* Every state of mark is of its type: a scan never leaves the text, and    *)
(* what an extractor emits is a span of whole characters.                   *)
THEOREM IntentTypeCorrect == Spec => []IntentTypeOK
<1>1. Init => IntentTypeOK
  <2> SUFFICES ASSUME Init PROVE IntentTypeOK
    OBVIOUS
  <2>1. text.size \in Nat /\ 0 \in text.bounds /\ Len(engine) \in Nat
    BY TextsAreSound, ExtractorsAreKnown DEF Init
  <2>2. QED
    BY <2>1 DEF Init, IntentTypeOK
<1>2. IntentTypeOK /\ [Next]_vars => IntentTypeOK'
  <2> SUFFICES ASSUME IntentTypeOK, [Next]_vars
               PROVE  IntentTypeOK'
    OBVIOUS
  <2> USE DEF IntentTypeOK
  <2>1. CASE Match
    <3>1. PICK candidate \in Candidates : found' = Append(found, candidate)
      BY <2>1, MatchEmitsASpan
    <3>2. found' \in Seq(Candidates) /\ DOMAIN found \subseteq DOMAIN found'
      BY <3>1
    <3>3. UNCHANGED <<pc, text, engine, extractor, pending, kept>> /\ offset' \in text.bounds
      BY <2>1, MatchEmitsASpan
    <3>4. offset' \in 0 .. text.size
      BY <3>3, TextIsSound
    <3>5. QED
      BY <3>2, <3>3, <3>4 DEF Candidates
  <2>2. CASE Skip
    <3>1. /\ offset' \in 0 .. text.size
          /\ engine[extractor] \in ByteScans \/ offset' \in text.bounds
          /\ extractor <= Len(engine)
      BY <2>2, SkipsAhead DEF Skip, Scanning
    <3>2. /\ UNCHANGED <<pc, text, engine, extractor, found, pending, kept>>
      BY <2>2 DEF Skip, resolveVars
    <3>3. QED
      BY <3>1, <3>2 DEF Candidates
  <2>3. CASE Panic
    BY <2>3 DEF Panic, scanVars, resolveVars, Candidates
  <2>4. CASE NextExtractor
    BY <2>4, TextIsSound, ExtractorsAreKnown DEF NextExtractor, resolveVars, Candidates
  <2>5. CASE StartResolve
    BY <2>5 DEF StartResolve, scanVars, Candidates
  <2>6. CASE Consider
    BY <2>6 DEF Consider, scanVars, Candidates
  <2>7. CASE StartRender
    BY <2>7 DEF StartRender, scanVars, resolveVars, Candidates
  <2>8. CASE RenderNext
    BY <2>8 DEF RenderNext, scanVars, resolveVars, Candidates
  <2>9. CASE Return
    BY <2>9 DEF Return, scanVars, resolveVars, Candidates
  <2>10. CASE UNCHANGED vars
    BY <2>10 DEF vars, Candidates
  <2>11. QED
    BY <2>1, <2>2, <2>3, <2>4, <2>5, <2>6, <2>7, <2>8, <2>9, <2>10 DEF Next
<1>3. QED
  BY <1>1, <1>2, PTL DEF Spec

-----------------------------------------------------------------------------
(* A candidate's fields can be compared. *)
LEMMA FieldsAreIntegers ==
    ASSUME IntentTypeOK, NEW i \in DOMAIN found
    PROVE  /\ found[i].start \in Int /\ found[i].end \in Int
           /\ found[i].confidence \in Int
           /\ KindPriority[found[i].kind] \in Int
           /\ i \in Int
<1>1. found[i] \in Candidates /\ i \in Int
  BY DEF IntentTypeOK
<1>2. \A k \in Kinds : KindPriority[k] \in Int
  BY DEF Kinds, KindPriority
<1>3. \A k \in Kinds : Confidences[k] \subseteq Int
  BY DEF Kinds, KindPriority, Confidences
<1>4. QED
  BY <1>1, <1>2, <1>3, TextIsSound DEF Candidates

(* The order of the sort is one way only. *)
LEMMA SortIsAsymmetric ==
    ASSUME IntentTypeOK, NEW i \in DOMAIN found, NEW j \in DOMAIN found, SortsBefore(i, j)
    PROVE  ~SortsBefore(j, i)
BY FieldsAreIntegers DEF SortsBefore, Span

(* One turn of the loop of resolve keeps the invariant. *)
LEMMA ConsiderInvariant ==
    ASSUME IInv, Consider
    PROVE  PendingInResolve' /\ InOrder' /\ ConsideredByTheRules' /\ KeptAreDisjoint'
<1> USE DEF IInv
<1>1. pc = "resolve" /\ UNCHANGED <<pc, found>>
  BY DEF Consider, scanVars
<1>2. PICK i \in pending :
         /\ \A j \in pending \ {i} : SortsBefore(i, j)
         /\ pending' = pending \ {i}
         /\ \/ /\ \E k \in kept : SpansOverlap(found[k], found[i])
               /\ UNCHANGED kept
            \/ /\ ~\E k \in kept : SpansOverlap(found[k], found[i])
               /\ kept' = kept \cup {i}
  BY DEF Consider
<1>3. \A a, b \in DOMAIN found : SortsBefore(a, b)' = SortsBefore(a, b)
  BY <1>1 DEF SortsBefore, Span
<1>4. i \in DOMAIN found /\ Considered' = Considered \cup {i} /\ i \notin Considered
  BY <1>1, <1>2 DEF Considered, IntentTypeOK
<1>5. Considered \subseteq DOMAIN found /\ pending \subseteq DOMAIN found
  BY DEF Considered, IntentTypeOK
<1>6. \A d \in Considered : SortsBefore(d, i) /\ ~SortsBefore(i, d)
  BY <1>1, <1>2, <1>4, <1>5, SortIsAsymmetric DEF InOrder
<1>7. kept \subseteq Considered
  BY <1>1 DEF ConsideredByTheRules
<1>8. PendingInResolve'
  BY <1>1 DEF PendingInResolve
<1>9. InOrder'
  BY <1>1, <1>2, <1>3, <1>4, <1>5 DEF InOrder
<1>10. KeptAreDisjoint'
  <2>1. \A k \in kept : ~SpansOverlap(found[k], found[i]) =>
           found[i].end <= found[k].start \/ found[k].end <= found[i].start
    BY <1>4, <1>5, <1>7, FieldsAreIntegers DEF SpansOverlap
  <2>2. QED
    BY <1>1, <1>2, <2>1 DEF KeptAreDisjoint
<1>11. ConsideredByTheRules'
  <2>1. kept' \subseteq Considered'
    BY <1>2, <1>4, <1>7
  <2>2. ASSUME NEW d \in Considered'
        PROVE  d \in kept' <=> ~\E k \in kept' : SpansOverlap(found[k], found[d]) /\ SortsBefore(k, d)
    <3>1. CASE d = i
      <4>1. ~(SpansOverlap(found[i], found[i]) /\ SortsBefore(i, i))
        BY <1>4, SortIsAsymmetric
      <4>2. QED
        BY <1>2, <1>4, <1>6, <1>7, <3>1, <4>1
    <3>2. CASE d # i
      <4>1. d \in Considered /\ (d \in kept' <=> d \in kept)
        BY <1>2, <1>4, <3>2
      <4>2. d \in kept <=> ~\E k \in kept : SpansOverlap(found[k], found[d]) /\ SortsBefore(k, d)
        BY <1>1, <4>1 DEF ConsideredByTheRules
      <4>3. \A k \in kept' : k \in kept \/ k = i
        BY <1>2
      <4>4. kept \subseteq kept'
        BY <1>2
      <4>5. QED
        BY <1>6, <4>1, <4>2, <4>3, <4>4
    <3>3. QED
      BY <3>1, <3>2
  <2>3. QED
    BY <1>1, <1>3, <1>5, <1>4, <2>1, <2>2 DEF ConsideredByTheRules, SpansOverlap
<1>12. QED
  BY <1>8, <1>9, <1>10, <1>11

(* The other actions leave resolve alone, start it or end it. *)
LEMMA OtherInvariant ==
    ASSUME IInv, Match \/ Skip \/ Panic \/ NextExtractor \/ StartResolve
                   \/ StartRender \/ RenderNext \/ Return \/ UNCHANGED vars
    PROVE  PendingInResolve' /\ InOrder' /\ ConsideredByTheRules' /\ KeptAreDisjoint'
<1> USE DEF IInv
<1>1. CASE Match \/ Skip \/ Panic \/ NextExtractor
  <2>1. pc = "extract" /\ pc' \in {"extract", "panicked"} /\ UNCHANGED <<pending, kept>>
    BY <1>1, MatchEmitsASpan, MatchInExtract DEF Skip, Panic, NextExtractor, Scanning, resolveVars
  <2>2. pending = {} /\ kept = {}
    BY <2>1 DEF PendingInResolve
  <2>3. QED
    BY <2>1, <2>2 DEF PendingInResolve, InOrder, ConsideredByTheRules, KeptAreDisjoint
<1>2. CASE StartResolve
  <2>1. pc' = "resolve" /\ kept' = {} /\ pending' = DOMAIN found /\ found' = found
    BY <1>2 DEF StartResolve, PendingInResolve, scanVars
  <2>2. Considered' = {}
    BY <2>1 DEF Considered
  <2>3. QED
    BY <2>1, <2>2 DEF PendingInResolve, InOrder, ConsideredByTheRules, KeptAreDisjoint
<1>3. CASE StartRender \/ RenderNext \/ Return \/ UNCHANGED vars
  <2>1. UNCHANGED <<found, pending, kept>>
    BY <1>3 DEF StartRender, RenderNext, Return, vars, scanVars, resolveVars
  <2>2. \/ UNCHANGED pc
        \/ pc \in {"resolve", "render"} /\ pc' \in {"render", "done"} /\ pending = {}
    BY <1>3 DEF StartRender, RenderNext, Return, vars, PendingInResolve
  <2>3. \A a, b : SortsBefore(a, b)' = SortsBefore(a, b)
    BY <2>1 DEF SortsBefore, Span
  <2>4. Considered' = Considered
    BY <2>1 DEF Considered
  <2>5. PendingInResolve' /\ InOrder'
    BY <2>1, <2>2, <2>3, <2>4 DEF PendingInResolve, InOrder
  <2>6. ConsideredByTheRules' /\ KeptAreDisjoint'
    BY <2>1, <2>2, <2>3, <2>4 DEF ConsideredByTheRules, KeptAreDisjoint, SpansOverlap
  <2>7. QED
    BY <2>5, <2>6
<1>4. QED
  BY <1>1, <1>2, <1>3

(* The inductive invariant holds in every reachable state. *)
THEOREM ResolveInvariance == Spec => []IInv
<1>1. Init => PendingInResolve /\ InOrder /\ ConsideredByTheRules /\ KeptAreDisjoint
  BY DEF Init, PendingInResolve, InOrder, ConsideredByTheRules, KeptAreDisjoint
<1>2. IInv /\ [Next]_vars
        => PendingInResolve' /\ InOrder' /\ ConsideredByTheRules' /\ KeptAreDisjoint'
  BY ConsiderInvariant, OtherInvariant DEF Next
<1>3. QED
  BY <1>1, <1>2, IntentTypeCorrect, PTL DEF Spec, IInv

(* No two entities of mark's result share a character. *)
THEOREM EntitiesAreDisjoint == Spec => []KeptAreDisjoint
BY ResolveInvariance, PTL DEF IInv

(* resolve keeps a candidate if and only if the rule chain puts no kept one *)
(* that overlaps it before it: greedy choice is the rules' choice.          *)
THEOREM GreedyFollowsTheRules == Spec => []ResolvedByTheRules
<1>1. IInv => ResolvedByTheRules
  BY DEF IInv, PendingInResolve, ConsideredByTheRules, Considered, ResolvedByTheRules
<1>2. QED
  BY <1>1, ResolveInvariance, PTL

-----------------------------------------------------------------------------
Items == {"byte", "marker"} \X Nat

(* What String::replace_range leaves where. *)
Replaces(r, s, start, end, item) ==
    /\ Len(r) = Len(s) + start + 1 - end
    /\ \A k \in 1 .. start : r[k] = s[k]
    /\ r[start + 1] = item
    /\ \A k \in start + 2 .. Len(r) : r[k] = s[k - 1 - start + end]

LEMMA Replacing ==
    ASSUME NEW S, NEW s \in Seq(S), NEW item \in S,
           NEW start \in Nat, NEW end \in Nat, start <= end, end <= Len(s),
           NEW r, r = ReplaceRange(s, start, end, item)
    PROVE  r \in Seq(S) /\ Replaces(r, s, start, end, item)
<1> DEFINE front == SubSeq(s, 1, start)
           back == SubSeq(s, end + 1, Len(s))
<1>1. Len(s) \in Nat /\ \A i \in 1 .. Len(s) : s[i] \in S
  OBVIOUS
<1>2. /\ front \in Seq(S) /\ Len(front) = start
      /\ \A k \in 1 .. start : front[k] = s[k]
  BY <1>1, SubSeqProperties
<1>3. /\ back \in Seq(S) /\ Len(back) = Len(s) - end
      /\ \A k \in 1 .. Len(s) - end : back[k] = s[end + k]
  BY <1>1, SubSeqProperties
<1>4. <<item>> \in Seq(S) /\ Len(<<item>>) = 1 /\ <<item>>[1] = item
  OBVIOUS
<1> HIDE DEF front, back
<1> DEFINE head == front \o <<item>>
<1>5. /\ head \in Seq(S) /\ Len(head) = start + 1
      /\ \A k \in 1 .. start : head[k] = s[k]
      /\ head[start + 1] = item
  BY <1>2, <1>4, ConcatProperties
<1>6. r = head \o back
  BY DEF ReplaceRange, front, back
<1> HIDE DEF head
<1>7. /\ r \in Seq(S) /\ Len(r) = Len(head) + Len(back)
      /\ \A k \in 1 .. Len(head) + Len(back) :
            r[k] = IF k <= Len(head) THEN head[k] ELSE back[k - Len(head)]
  <2>1. head \in Seq(S) /\ back \in Seq(S)
    BY <1>3, <1>5
  <2> HIDE <1>3, <1>5
  <2>2. /\ head \o back \in Seq(S) /\ Len(head \o back) = Len(head) + Len(back)
        /\ \A k \in 1 .. Len(head) + Len(back) :
              (head \o back)[k] = IF k <= Len(head) THEN head[k] ELSE back[k - Len(head)]
    BY <2>1, ConcatProperties
  <2> QED BY <1>6, <2>2
<1>8. Len(r) = Len(s) + start + 1 - end
  BY <1>1, <1>3, <1>5, <1>7
<1>9. \A k \in 1 .. start + 1 : r[k] = head[k]
  <2> TAKE k \in 1 .. start + 1
  <2>1. k <= Len(head) /\ k \in 1 .. Len(head) + Len(back)
    BY <1>1, <1>3, <1>5
  <2> QED BY <1>7, <2>1
<1>10. \A k \in start + 2 .. Len(r) : r[k] = back[k - (start + 1)]
  <2> TAKE k \in start + 2 .. Len(r)
  <2>1. ~(k <= Len(head)) /\ k \in 1 .. Len(head) + Len(back) /\ Len(head) = start + 1
    BY <1>1, <1>3, <1>5, <1>7
  <2> QED BY <1>7, <2>1
<1>11. \A k \in start + 2 .. Len(r) :
          k - (start + 1) \in 1 .. Len(s) - end /\ end + (k - (start + 1)) = k - 1 - start + end
  BY <1>1, <1>8
<1>12. \A k \in start + 2 .. Len(r) : r[k] = s[k - 1 - start + end]
  BY <1>3, <1>10, <1>11
<1>13. (\A k \in 1 .. start : r[k] = s[k]) /\ r[start + 1] = item
  BY <1>5, <1>9
<1> QED BY <1>7, <1>8, <1>12, <1>13 DEF Replaces

(* Where the items behind a replacement come from, and where they go. *)
Shifts(n, start, end) ==
    /\ \A k \in start + 2 .. n + start + 1 - end :
          k - 1 - start + end \in end + 1 .. n /\ k - 1 - start + end \in 1 .. n
    /\ \A k \in end + 1 .. n : \E h \in start + 2 .. n + start + 1 - end :
          h - 1 - start + end = k
    /\ 1 .. n + start + 1 - end
          = (1 .. start) \cup {start + 1} \cup (start + 2 .. n + start + 1 - end)
    /\ 1 .. n = (1 .. start) \cup (start + 1 .. end) \cup (end + 1 .. n)

LEMMA Shift ==
    ASSUME NEW n \in Nat, NEW start \in Nat, NEW end \in Nat, start < end, end <= n
    PROVE  Shifts(n, start, end)
<1>1. ASSUME NEW k \in end + 1 .. n
      PROVE  \E h \in start + 2 .. n + start + 1 - end : h - 1 - start + end = k
  <2>1. k + 1 + start - end \in start + 2 .. n + start + 1 - end
        /\ (k + 1 + start - end) - 1 - start + end = k
    OBVIOUS
  <2> QED BY <2>1
<1> QED BY <1>1 DEF Shifts

Rises(q, n) == \A i, j \in 1 .. n : i < j => q[i] < q[j]

CountsTo(q, n) == \A p \in 1 .. n : q[p] = p

FollowsFrom(r, q, n, start, end) ==
    \A k \in start + 2 .. n + start + 1 - end : r[k] = q[k - 1 - start + end]

(* Places that rise go on rising when those between start and end give way  *)
(* to one.                                                                  *)
LEMMA PlacesRise ==
    ASSUME NEW n \in Nat, NEW start \in Nat, NEW end \in Nat, start < end, end <= n,
           NEW q \in [1 .. n -> Int], Rises(q, n), CountsTo(q, end),
           NEW r \in [1 .. n + start + 1 - end -> Int], CountsTo(r, start + 1),
           FollowsFrom(r, q, n, start, end)
    PROVE  /\ Rises(r, n + start + 1 - end)
           /\ \A k \in start + 2 .. n + start + 1 - end : r[k] > end
<1>1. \A k \in start + 2 .. n + start + 1 - end :
         k - 1 - start + end \in 1 .. n /\ k - 1 - start + end > end
  OBVIOUS
<1>2. end \in 1 .. n /\ q[end] = end
  BY DEF CountsTo
<1>3. \A k \in start + 2 .. n + start + 1 - end : r[k] > end
  BY <1>1, <1>2 DEF Rises, FollowsFrom
<1>4. ASSUME NEW i \in 1 .. n + start + 1 - end, NEW j \in 1 .. n + start + 1 - end, i < j
      PROVE  r[i] < r[j]
  <2>1. CASE j <= start + 1
    BY <1>4, <2>1 DEF CountsTo
  <2>2. CASE i <= start + 1 /\ j > start + 1
    <3>1. r[i] = i /\ r[j] > end
      BY <1>3, <2>2 DEF CountsTo
    <3> QED BY <2>2, <3>1
  <2>3. CASE i > start + 1
    <3>1. /\ r[i] = q[i - 1 - start + end] /\ i - 1 - start + end \in 1 .. n
          /\ r[j] = q[j - 1 - start + end] /\ j - 1 - start + end \in 1 .. n
          /\ i - 1 - start + end < j - 1 - start + end
      BY <1>1, <1>4, <2>3 DEF FollowsFrom
    <3> QED BY <3>1 DEF Rises
  <2> QED BY <2>1, <2>2, <2>3
<1> QED BY <1>3, <1>4 DEF Rises

(* The first n items are bytes of the message that are still in place. *)
RawUpTo(s, n) == n <= Len(s) /\ \A p \in 1 .. n : s[p] = Byte(p)

InTextOrder(s) ==
    /\ \A i \in DOMAIN s : Place(s[i]) \in Int
    /\ \A i, j \in DOMAIN s : i < j => Place(s[i]) < Place(s[j])

Holds(s, x) == \E i \in DOMAIN s : s[i] = x

Swaps(r, m, start, end, e) ==
    \A x : Holds(r, x) <=>
              (x = Marker(e) \/ (Holds(m, x) /\ ~\E p \in start + 1 .. end : x = Byte(p)))

(* One replacement, in front of all that were made before: the items stay   *)
(* in the order of the message, and only the bytes of the entity go.        *)
LEMMA MarkOne ==
    ASSUME NEW m \in Seq(Items), NEW e \in Nat, NEW start \in Nat, NEW end \in Nat,
           start = found[entities[e]].start, start < end, RawUpTo(m, end), InTextOrder(m),
           NEW r, r = ReplaceRange(m, start, end, Marker(e))
    PROVE  r \in Seq(Items) /\ RawUpTo(r, start) /\ InTextOrder(r) /\ Swaps(r, m, start, end, e)
<1>1. Marker(e) \in Items /\ Place(Marker(e)) = start + 1
  BY DEF Items, Marker, Place
<1>2. \A p : Place(Byte(p)) = p
  BY DEF Place, Byte
<1>3. PICK n \in Nat : n = Len(m) /\ DOMAIN m = 1 .. n /\ end <= n
  BY DEF RawUpTo
<1>4. /\ r \in Seq(Items) /\ Len(r) = n + start + 1 - end
      /\ \A k \in 1 .. start : r[k] = m[k]
      /\ r[start + 1] = Marker(e)
      /\ \A k \in start + 2 .. n + start + 1 - end : r[k] = m[k - 1 - start + end]
  <2>1. start <= end /\ end <= Len(m)
    BY <1>3
  <2>2. r \in Seq(Items) /\ Replaces(r, m, start, end, Marker(e))
    BY <1>1, <2>1, Replacing
  <2> QED BY <1>3, <2>2 DEF Replaces
<1>5. DOMAIN r = 1 .. n + start + 1 - end
  BY <1>4
<1>6. /\ \A k \in start + 2 .. n + start + 1 - end : k - 1 - start + end \in 1 .. n
      /\ \A k \in end + 1 .. n : \E h \in start + 2 .. n + start + 1 - end :
            h - 1 - start + end = k
      /\ 1 .. n + start + 1 - end
            = (1 .. start) \cup {start + 1} \cup (start + 2 .. n + start + 1 - end)
      /\ 1 .. n = (1 .. start) \cup (start + 1 .. end) \cup (end + 1 .. n)
  <2>1. Shifts(n, start, end)
    BY <1>3, Shift
  <2> QED BY <2>1 DEF Shifts
<1>7. \A p \in 1 .. end : m[p] = Byte(p)
  BY DEF RawUpTo
<1>8. \A k \in 1 .. start : r[k] = Byte(k)
  BY <1>4, <1>7
<1>9. PICK q : q = [i \in 1 .. n |-> Place(m[i])]
  OBVIOUS
<1>10. PICK places : places = [i \in 1 .. n + start + 1 - end |-> Place(r[i])]
  OBVIOUS
<1>11. /\ q \in [1 .. n -> Int]
       /\ \A i, j \in 1 .. n : i < j => q[i] < q[j]
  BY <1>3, <1>9 DEF InTextOrder
<1>12. \A p \in 1 .. end : q[p] = p
  BY <1>2, <1>3, <1>7, <1>9
<1>13. \A k \in start + 2 .. n + start + 1 - end : places[k] = q[k - 1 - start + end]
  <2> TAKE k \in start + 2 .. n + start + 1 - end
  <2>1. PICK h \in 1 .. n : h = k - 1 - start + end
    BY <1>6
  <2>2. r[k] = m[h] /\ k \in 1 .. n + start + 1 - end
    BY <1>4, <1>6, <2>1
  <2>3. places[k] = Place(r[k]) /\ q[h] = Place(m[h])
    BY <1>9, <1>10, <2>2
  <2> QED BY <2>1, <2>2, <2>3
<1>14. \A k \in 1 .. start + 1 : places[k] = k
  <2> TAKE k \in 1 .. start + 1
  <2>1. k \in 1 .. start \/ k = start + 1
    OBVIOUS
  <2>2. k \in 1 .. n + start + 1 - end
    BY <1>6, <2>1
  <2> QED BY <1>1, <1>2, <1>4, <1>8, <1>10, <2>1, <2>2
<1>15. places \in [1 .. n + start + 1 - end -> Int]
  <2> SUFFICES ASSUME NEW k \in 1 .. n + start + 1 - end PROVE places[k] \in Int
    BY <1>10
  <2>1. CASE k \in start + 2 .. n + start + 1 - end
    BY <1>6, <1>11, <1>13, <2>1
  <2>2. CASE k \in 1 .. start + 1
    BY <1>14, <2>2
  <2> QED BY <1>6, <2>1, <2>2
<1>16. /\ Rises(places, n + start + 1 - end)
       /\ \A k \in start + 2 .. n + start + 1 - end : places[k] > end
  <2>1. Rises(q, n) /\ CountsTo(q, end)
    BY <1>11, <1>12 DEF Rises, CountsTo
  <2>2. CountsTo(places, start + 1) /\ FollowsFrom(places, q, n, start, end)
    BY <1>13, <1>14 DEF CountsTo, FollowsFrom
  <2>3. q \in [1 .. n -> Int] /\ end <= n
    BY <1>3, <1>11
  <2> QED BY <1>15, <2>1, <2>2, <2>3, PlacesRise
<1>17. InTextOrder(r)
  BY <1>5, <1>10, <1>15, <1>16 DEF InTextOrder, Rises
<1>18. RawUpTo(r, start)
  BY <1>3, <1>4, <1>8 DEF RawUpTo
<1>19. ASSUME NEW k \in 1 .. n + start + 1 - end
       PROVE  \/ r[k] = Marker(e)
              \/ Holds(m, r[k]) /\ ~\E p \in start + 1 .. end : r[k] = Byte(p)
  <2>1. CASE k \in 1 .. start
    <3>1. k \in 1 .. n /\ \A p \in start + 1 .. end : p # k
      BY <1>3, <2>1
    <3> QED BY <1>2, <1>3, <1>4, <1>8, <2>1, <3>1 DEF Holds
  <2>2. CASE k = start + 1
    BY <1>4, <2>2
  <2>3. CASE k \in start + 2 .. n + start + 1 - end
    <3>1. \A p \in start + 1 .. end : r[k] # Byte(p)
      <4>1. Place(r[k]) > end
        BY <1>6, <1>10, <1>16, <2>3
      <4>2. \A p \in start + 1 .. end : ~(p > end)
        OBVIOUS
      <4> QED BY <1>2, <4>1, <4>2
    <3>2. Holds(m, r[k])
      BY <1>3, <1>4, <1>6, <2>3 DEF Holds
    <3> QED BY <3>1, <3>2
  <2> QED BY <1>6, <2>1, <2>2, <2>3
<1>20. ASSUME NEW k \in 1 .. n, ~\E p \in start + 1 .. end : m[k] = Byte(p)
       PROVE  Holds(r, m[k])
  <2>1. CASE k \in 1 .. start
    <3>1. k \in 1 .. n + start + 1 - end
      BY <1>3, <2>1
    <3> QED BY <1>4, <1>5, <2>1, <3>1 DEF Holds
  <2>2. CASE k \in start + 1 .. end
    BY <1>3, <1>7, <1>20, <2>2
  <2>3. CASE k \in end + 1 .. n
    <3>1. PICK h \in start + 2 .. n + start + 1 - end : h - 1 - start + end = k
      BY <1>6, <2>3
    <3>2. r[h] = m[k] /\ h \in 1 .. n + start + 1 - end
      BY <1>4, <1>6, <3>1
    <3> QED BY <1>5, <3>2 DEF Holds
  <2> QED BY <1>6, <2>1, <2>2, <2>3
<1>21. Holds(r, Marker(e))
  <2>1. start + 1 \in 1 .. n + start + 1 - end
    BY <1>3
  <2> QED BY <1>4, <1>5, <2>1 DEF Holds
<1>22. Swaps(r, m, start, end, e)
  <2> SUFFICES ASSUME NEW x
               PROVE  Holds(r, x) <=>
                        (x = Marker(e) \/ (Holds(m, x) /\ ~\E p \in start + 1 .. end : x = Byte(p)))
    BY DEF Swaps
  <2>1. ASSUME Holds(r, x)
        PROVE  x = Marker(e) \/ (Holds(m, x) /\ ~\E p \in start + 1 .. end : x = Byte(p))
    <3>1. PICK k \in 1 .. n + start + 1 - end : r[k] = x
      BY <1>5, <2>1 DEF Holds
    <3> QED BY <1>19, <3>1
  <2>2. ASSUME Holds(m, x), ~\E p \in start + 1 .. end : x = Byte(p)
        PROVE  Holds(r, x)
    <3>1. PICK k \in 1 .. n : m[k] = x
      BY <1>3, <2>2 DEF Holds
    <3> QED BY <1>20, <2>2, <3>1
  <2> QED BY <1>21, <2>1, <2>2
<1> QED BY <1>4, <1>17, <1>18, <1>22

-----------------------------------------------------------------------------
SpansNotEmpty == \A i \in DOMAIN found : found[i].start < found[i].end

Rendering == pc \in {"render", "done"}

(* Where the entity that was replaced last begins. *)
Frontier == IF left < Len(entities) THEN found[entities[left + 1]].start ELSE text.size

EntitiesInOrder ==
    /\ entities \in Seq(DOMAIN found)
    /\ \A d, e \in DOMAIN entities : d < e => found[entities[d]].end <= found[entities[e]].start

MarkedInOrder ==
    /\ marked \in Seq(Items)
    /\ RawUpTo(marked, Frontier)
    /\ InTextOrder(marked)

(* MarkedAtItsSpans with what makes the offsets of the entities that are    *)
(* left valid: in front of the last replacement nothing has moved.          *)
RenderInv ==
    Rendering =>
        /\ EntitiesInOrder
        /\ left \in 0 .. Len(entities)
        /\ MarkedInOrder
        /\ MarkedAtItsSpans

RInv == SpansNotEmpty /\ RenderInv

(* What MarkedAtItsSpans says of one item. *)
Shown(x) ==
    \/ \E p \in 1 .. text.size : x = Byte(p) /\ ~\E e \in Replaced : Inside(p, e)
    \/ \E e \in Replaced : x = Marker(e)

LEMMA MarkedByItem ==
    Rendering =>
        (MarkedAtItsSpans <=>
            /\ \A x : Holds(marked, x) <=> Shown(x)
            /\ \A i, j \in DOMAIN marked : i < j => Place(marked[i]) < Place(marked[j]))
<1> SUFFICES ASSUME Rendering
             PROVE  MarkedAtItsSpans <=>
                       /\ \A x : Holds(marked, x) <=> Shown(x)
                       /\ \A i, j \in DOMAIN marked : i < j => Place(marked[i]) < Place(marked[j])
  OBVIOUS
<1>1. \A x : Holds(marked, x) <=> x \in {marked[i] : i \in DOMAIN marked}
  BY DEF Holds
<1>2. \A x : Shown(x) <=>
         x \in {Byte(p) : p \in {q \in 1 .. text.size : ~\E e \in Replaced : Inside(q, e)}}
              \cup {Marker(e) : e \in Replaced}
  BY DEF Shown
<1> QED BY <1>1, <1>2 DEF MarkedAtItsSpans, Rendering

(* A marker is no byte, and every item is one thing only. *)
LEMMA ItemsDiffer ==
    /\ \A p, q : Byte(p) = Byte(q) => p = q
    /\ \A d, e : Marker(d) = Marker(e) => d = e
    /\ \A p, e : Byte(p) # Marker(e)
BY DEF Byte, Marker

(* An extractor emits no empty span. *)
LEMMA SpansStayNonEmpty ==
    ASSUME IntentTypeOK, SpansNotEmpty, [Next]_vars
    PROVE  SpansNotEmpty'
<1>1. CASE Match
  <2>1. PICK candidate \in Candidates :
           candidate.start < candidate.end /\ found' = Append(found, candidate)
    BY <1>1, MatchEmitsASpan
  <2>2. found \in Seq(Candidates)
    BY DEF IntentTypeOK
  <2>3. \A i \in DOMAIN found' :
           \/ i \in DOMAIN found /\ found'[i] = found[i]
           \/ found'[i] = candidate
    BY <2>1, <2>2
  <2> QED BY <2>1, <2>3 DEF SpansNotEmpty
<1>2. CASE ~Match
  <2>1. UNCHANGED found
    BY <1>2 DEF Next, Skip, Panic, NextExtractor, StartResolve, Consider, StartRender,
                RenderNext, Return, scanVars, vars
  <2> QED BY <2>1 DEF SpansNotEmpty
<1> QED BY <1>1, <1>2

(* The sort by start puts the kept candidates, which are disjoint, one      *)
(* behind the other, and the text to be marked is the message.              *)
LEMMA StartRenderInvariant ==
    ASSUME IInv, SpansNotEmpty, StartRender
    PROVE  RenderInv'
<1>1. /\ IntentTypeOK /\ KeptAreDisjoint /\ kept \subseteq DOMAIN found
      /\ text.size \in Nat
  BY TextIsSound DEF IInv, IntentTypeOK
<1>2. PICK n \in Nat : n = Cardinality(kept)
  <2>1. found \in Seq(Candidates) /\ Len(found) \in Int /\ DOMAIN found = 1 .. Len(found)
    BY <1>1 DEF IntentTypeOK
  <2>2. IsFiniteSet(DOMAIN found)
    BY <2>1, FS_Interval
  <2>3. IsFiniteSet(kept)
    BY <1>1, <2>2, FS_Subset
  <2> QED BY <2>3, FS_CardinalityType
<1>3. PICK order \in [1 .. n -> kept] :
         /\ entities' = order
         /\ \A d, e \in 1 .. n : d < e => found[order[d]].start < found[order[e]].start
  BY <1>2 DEF StartRender, KeptByStart
<1>4. /\ UNCHANGED <<text, found>> /\ left' = n
      /\ marked' = [p \in 1 .. text.size |-> Byte(p)]
  BY <1>2 DEF StartRender, scanVars
<1>5. order \in Seq(DOMAIN found) /\ Len(order) = n /\ DOMAIN order = 1 .. n
  BY <1>1
<1>6. EntitiesInOrder'
  <2>1. ASSUME NEW d \in 1 .. n, NEW e \in 1 .. n, d < e
        PROVE  found[order[d]].end <= found[order[e]].start
    <3>1. found[order[d]].start < found[order[e]].start
      BY <1>3, <2>1
    <3>2. order[d] \in kept /\ order[e] \in kept
      OBVIOUS
    <3>3. order[d] # order[e]
      BY <1>1, <3>1, <3>2, FieldsAreIntegers
    <3>4. \/ found[order[d]].end <= found[order[e]].start
          \/ found[order[e]].end <= found[order[d]].start
      BY <1>1, <3>2, <3>3 DEF KeptAreDisjoint
    <3>5. found[order[e]].start < found[order[e]].end
      BY <1>1, <3>2 DEF SpansNotEmpty
    <3> QED BY <1>1, <3>1, <3>2, <3>4, <3>5, FieldsAreIntegers
  <2> QED BY <1>3, <1>4, <1>5, <2>1 DEF EntitiesInOrder
<1>7. left' \in 0 .. Len(entities') /\ Frontier' = text.size /\ Replaced' = {}
  BY <1>3, <1>4, <1>5 DEF Frontier, Replaced
<1>8. /\ marked' \in Seq(Items) /\ Len(marked') = text.size /\ DOMAIN marked' = 1 .. text.size
      /\ \A p \in 1 .. text.size : marked'[p] = Byte(p)
  BY <1>1, <1>4 DEF Items, Byte
<1>9. RawUpTo(marked', text.size)
  BY <1>1, <1>8 DEF RawUpTo
<1>10. \A p : Place(Byte(p))' = p
  BY DEF Place, Byte
<1>11. \A i \in 1 .. text.size : Place(marked[i])' = i
  BY <1>8, <1>10
<1>12. InTextOrder(marked)'
  BY <1>8, <1>11 DEF InTextOrder
<1>13. MarkedInOrder'
  BY <1>7, <1>8, <1>9, <1>12 DEF MarkedInOrder, RawUpTo
<1>14. \A x : Holds(marked, x)' <=> Shown(x)'
  BY <1>4, <1>7, <1>8 DEF Holds, Shown
<1>15. MarkedAtItsSpans'
  <2>1. Rendering'
    BY DEF StartRender, Rendering
  <2>2. Rendering' =>
           (MarkedAtItsSpans' <=>
               /\ (\A x : Holds(marked, x) <=> Shown(x))'
               /\ (\A i, j \in DOMAIN marked : i < j => Place(marked[i]) < Place(marked[j]))')
    BY MarkedByItem, PTL
  <2> QED BY <1>12, <1>14, <2>1, <2>2 DEF InTextOrder
<1> QED BY <1>6, <1>7, <1>13, <1>15 DEF RenderInv

(* One replacement, from right to left. *)
LEMMA RenderNextInvariant ==
    ASSUME IInv, RInv, RenderNext
    PROVE  RenderInv'
<1>1. Rendering /\ left > 0 /\ UNCHANGED <<pc, text, found, entities>> /\ left' = left - 1
  BY DEF RenderNext, Rendering, scanVars
<1>2. /\ EntitiesInOrder /\ left \in 0 .. Len(entities)
      /\ MarkedInOrder /\ MarkedAtItsSpans /\ SpansNotEmpty
      /\ IntentTypeOK /\ text.size \in Nat
  BY <1>1, TextIsSound DEF RInv, RenderInv, IInv
<1>3. PICK n \in Nat : n = Len(entities) /\ DOMAIN entities = 1 .. n
  BY <1>2 DEF EntitiesInOrder
<1>4. left \in 1 .. n /\ left \in Nat /\ entities[left] \in DOMAIN found
  BY <1>1, <1>2, <1>3 DEF EntitiesInOrder
<1>5. /\ \A i \in DOMAIN found : found[i].start \in Nat /\ found[i].end \in Nat
      /\ \A i \in DOMAIN found : found[i].start < found[i].end /\ found[i].end <= text.size
  <2>1. ASSUME NEW i \in DOMAIN found
        PROVE  found[i].start \in 0 .. text.size /\ found[i].end \in 0 .. text.size
    <3>1. found[i] \in Candidates
      BY <1>2 DEF IntentTypeOK
    <3> QED BY <1>2, <3>1, TextIsSound DEF Candidates
  <2> QED BY <1>2, <2>1 DEF SpansNotEmpty
<1>6. PICK start \in Nat, end \in Nat :
         start = found[entities[left]].start /\ end = found[entities[left]].end
  BY <1>4, <1>5
<1>7. start < end /\ end <= text.size
  BY <1>4, <1>5, <1>6
<1>8. RawUpTo(marked, end)
  <2>1. RawUpTo(marked, Frontier)
    BY <1>2 DEF MarkedInOrder
  <2>2. Frontier \in Nat /\ end <= Frontier
    <3>1. CASE left < Len(entities)
      <4>1. left + 1 \in 1 .. n /\ left < left + 1
        BY <1>3, <1>4, <3>1
      <4>2. entities[left + 1] \in DOMAIN found
        BY <1>2, <1>3, <4>1 DEF EntitiesInOrder
      <4>3. end <= found[entities[left + 1]].start
        BY <1>2, <1>3, <1>4, <1>6, <4>1 DEF EntitiesInOrder
      <4> QED BY <1>5, <3>1, <4>2, <4>3 DEF Frontier
    <3>2. CASE ~(left < Len(entities))
      BY <1>2, <1>7, <3>2 DEF Frontier
    <3> QED BY <3>1, <3>2
  <2>3. marked \in Seq(Items) /\ Len(marked) \in Nat
    BY <1>2 DEF MarkedInOrder
  <2> QED BY <2>1, <2>2, <2>3 DEF RawUpTo
<1>9. marked' = ReplaceRange(marked, start, end, Marker(left))
  BY <1>6 DEF RenderNext
<1>10. marked \in Seq(Items) /\ InTextOrder(marked)
  BY <1>2 DEF MarkedInOrder
<1>11. /\ marked' \in Seq(Items) /\ RawUpTo(marked', start) /\ InTextOrder(marked')
       /\ \A x : Holds(marked', x) <=>
                     (x = Marker(left)
                        \/ (Holds(marked, x) /\ ~\E p \in start + 1 .. end : x = Byte(p)))
  <2>1. Swaps(marked', marked, start, end, left)
    BY <1>4, <1>6, <1>7, <1>8, <1>9, <1>10, MarkOne
  <2>2. marked' \in Seq(Items) /\ RawUpTo(marked', start) /\ InTextOrder(marked')
    BY <1>4, <1>6, <1>7, <1>8, <1>9, <1>10, MarkOne
  <2> QED BY <2>1, <2>2 DEF Swaps
<1>12. EntitiesInOrder'
  BY <1>1, <1>2 DEF EntitiesInOrder
<1>13. left' \in 0 .. Len(entities')
  BY <1>1, <1>2
<1>14. Frontier' = start
  BY <1>1, <1>2, <1>3, <1>4, <1>6 DEF Frontier
<1>15. InTextOrder(marked)'
  BY <1>1, <1>11 DEF InTextOrder, Place
<1>16. MarkedInOrder'
  BY <1>11, <1>14, <1>15 DEF MarkedInOrder, RawUpTo
<1>17. Replaced' = Replaced \cup {left}
  BY <1>1, <1>3, <1>4 DEF Replaced
<1>18. \A p, e : Inside(p, e)' = Inside(p, e)
  BY <1>1 DEF Inside
<1>19. \A p \in Nat : Inside(p, left) <=> p \in start + 1 .. end
  BY <1>6 DEF Inside
<1>20. \A x : Holds(marked, x) <=> Shown(x)
  BY <1>1, <1>2, MarkedByItem
<1>21. \A x : Shown(x)' <=>
          \/ \E p \in 1 .. text.size : x = Byte(p) /\ ~\E e \in Replaced \cup {left} : Inside(p, e)
          \/ \E e \in Replaced \cup {left} : x = Marker(e)
  BY <1>1, <1>17, <1>18 DEF Shown
<1>22. \A x : Holds(marked', x) <=> Shown(x)'
  <2> TAKE x
  <2>1. CASE \E e : x = Marker(e)
    BY <1>11, <1>20, <1>21, <2>1, ItemsDiffer DEF Shown
  <2>2. CASE ~\E e : x = Marker(e)
    <3>1. Holds(marked', x) <=>
             \E p \in 1 .. text.size :
                x = Byte(p) /\ p \notin start + 1 .. end /\ ~\E e \in Replaced : Inside(p, e)
      BY <1>11, <1>20, <2>2, ItemsDiffer DEF Shown
    <3>2. \A p \in 1 .. text.size :
             p \notin start + 1 .. end /\ (~\E e \in Replaced : Inside(p, e))
                <=> ~\E e \in Replaced \cup {left} : Inside(p, e)
      BY <1>2, <1>19
    <3> QED BY <1>21, <2>2, <3>1, <3>2
  <2> QED BY <2>1, <2>2
<1>23. MarkedAtItsSpans'
  <2>1. Rendering'
    BY <1>1 DEF Rendering
  <2>2. Rendering' =>
           (MarkedAtItsSpans' <=>
               /\ (\A x : Holds(marked, x) <=> Shown(x))'
               /\ (\A i, j \in DOMAIN marked : i < j => Place(marked[i]) < Place(marked[j]))')
    BY MarkedByItem, PTL
  <2>3. (\A x : Holds(marked, x) <=> Shown(x))'
    BY <1>22 DEF Holds
  <2> QED BY <1>15, <2>1, <2>2, <2>3 DEF InTextOrder
<1> QED BY <1>12, <1>13, <1>16, <1>23 DEF RenderInv

(* Nothing else touches what render_markers works on. *)
LEMMA OthersKeepTheMarks ==
    ASSUME RenderInv, Match \/ Skip \/ Panic \/ NextExtractor \/ StartResolve \/ Consider
                        \/ Return \/ UNCHANGED vars
    PROVE  RenderInv'
<1>1. CASE Match \/ Skip \/ Panic \/ NextExtractor \/ StartResolve \/ Consider
  <2>1. pc' \notin {"render", "done"}
    BY <1>1, MatchInExtract DEF Match, MatchDate, MatchTime, MatchLocation, MatchUrl, MatchHere,
          MatchPerson, MatchEmail, MatchPhone, Emit, Skip, Panic, NextExtractor, StartResolve,
          Consider, Scanning
  <2> QED BY <2>1 DEF RenderInv, Rendering
<1>2. CASE Return \/ UNCHANGED vars
  <2>1. UNCHANGED <<text, found, entities, left, marked>> /\ (Rendering' => Rendering)
    BY <1>2 DEF Return, vars, scanVars, renderVars, Rendering
  <2>2. EntitiesInOrder' = EntitiesInOrder
    BY <2>1 DEF EntitiesInOrder
  <2>3. MarkedInOrder' = MarkedInOrder
    BY <2>1 DEF MarkedInOrder, Frontier, RawUpTo, InTextOrder, Place
  <2>4. Rendering /\ MarkedAtItsSpans => MarkedAtItsSpans'
    BY <2>1 DEF MarkedAtItsSpans, Rendering, Replaced, Inside, Place
  <2> QED BY <2>1, <2>2, <2>3, <2>4 DEF RenderInv
<1> QED BY <1>1, <1>2

LEMMA RenderInvariance == Spec => [](IInv /\ RInv)
<1>1. Init => RInv
  BY DEF Init, RInv, SpansNotEmpty, RenderInv, Rendering
<1>2. IInv /\ RInv /\ [Next]_vars => RInv'
  <2> SUFFICES ASSUME IInv, RInv, [Next]_vars PROVE RInv'
    OBVIOUS
  <2>1. SpansNotEmpty'
    BY SpansStayNonEmpty DEF IInv, RInv
  <2>2. CASE StartRender
    BY <2>1, <2>2, StartRenderInvariant DEF RInv
  <2>3. CASE RenderNext
    BY <2>1, <2>3, RenderNextInvariant DEF RInv
  <2>4. CASE Match \/ Skip \/ Panic \/ NextExtractor \/ StartResolve \/ Consider
                \/ Return \/ UNCHANGED vars
    BY <2>1, <2>4, OthersKeepTheMarks DEF RInv
  <2> QED BY <2>2, <2>3, <2>4 DEF Next
<1> QED BY <1>1, <1>2, ResolveInvariance, PTL DEF Spec

(* The marked text is the message with each entity's own bytes, and no      *)
(* others, replaced by its marker, in the order of the message, after every *)
(* turn of render_markers and when mark returns.                            *)
THEOREM MarksAreInPlace == Spec => []MarkedAtItsSpans
<1>1. RInv => MarkedAtItsSpans
  BY DEF RInv, RenderInv, Rendering, MarkedAtItsSpans
<1> QED BY <1>1, RenderInvariance, PTL

-----------------------------------------------------------------------------
(* mark cannot loop.  The extractors go through the text one by one.        *)
LEMMA ScansLeft ==
    ASSUME NEW width \in Nat, NEW n \in Nat, n > 0, NEW o \in 0 .. width
    PROVE  /\ n * (width + 1) - o \in Nat \ {0}
           /\ (n - 1) * (width + 1) \in Nat
           /\ o = width => (n - 1) * (width + 1) < n * (width + 1) - o
<1>1. PICK k \in Nat : n = k + 1
  <2>1. n - 1 \in Nat /\ n = (n - 1) + 1
    OBVIOUS
  <2>2. QED
    BY <2>1
<1>2. (k + 1) * (width + 1) = k * (width + 1) + width + 1
  OBVIOUS
<1>3. k * (width + 1) \in Nat
  OBVIOUS
<1>4. n * (width + 1) = k * (width + 1) + width + 1 /\ n - 1 = k
  BY <1>1, <1>2
<1>5. QED
  BY <1>3, <1>4

LEMMA OffsetsAreLeft == IntentTypeOK => OffsetsLeft \in Nat
<1> SUFFICES ASSUME IntentTypeOK PROVE OffsetsLeft \in Nat
  OBVIOUS
<1>1. /\ Len(engine) \in Nat /\ extractor \in 1 .. Len(engine) + 1
      /\ text.size \in Nat /\ offset \in 0 .. text.size
  BY ExtractorsAreKnown, TextIsSound DEF IntentTypeOK
<1>2. CASE extractor <= Len(engine)
  <2>1. PICK n \in Nat : n = Len(engine) + 1 - extractor /\ n > 0
    BY <1>1, <1>2
  <2>2. OffsetsLeft = n * (text.size + 1) - offset
    BY <1>1, <1>2, <2>1 DEF OffsetsLeft
  <2>3. QED
    BY <1>1, <2>1, <2>2, ScansLeft
<1>3. CASE extractor > Len(engine)
  BY <1>1, <1>3 DEF OffsetsLeft
<1>4. QED
  BY <1>1, <1>2, <1>3

(* What a scan consumes, it does not visit again; neither the next          *)
(* extractor.                                                               *)
LEMMA OffsetsAreUsed ==
    ASSUME IntentTypeOK, IntentTypeOK', UNCHANGED <<text, engine>>, extractor <= Len(engine),
           \/ extractor' = extractor /\ offset < offset'
           \/ extractor' = extractor + 1 /\ offset >= text.size /\ offset' = 0
    PROVE  OffsetsLeft' < OffsetsLeft
<1>1. /\ Len(engine) \in Nat /\ extractor \in 1 .. Len(engine) + 1
      /\ text.size \in Nat /\ offset \in 0 .. text.size /\ offset' \in 0 .. text.size
  BY ExtractorsAreKnown, TextIsSound DEF IntentTypeOK
<1>2. PICK n \in Nat : n = Len(engine) + 1 - extractor /\ n > 0
  BY <1>1
<1>3. PICK area \in Nat : area = n * (text.size + 1)
  BY <1>1
<1>4. OffsetsLeft = area - offset
  BY <1>1, <1>2, <1>3 DEF OffsetsLeft
<1>5. CASE extractor' = extractor /\ offset < offset'
  <2>1. OffsetsLeft' = area - offset'
    BY <1>1, <1>2, <1>3, <1>5 DEF OffsetsLeft
  <2>2. offset \in Int /\ offset' \in Int
    BY <1>1
  <2>3. \A i, j \in Int : i < j => area - j < area - i
    OBVIOUS
  <2>4. QED
    BY <1>4, <1>5, <2>1, <2>2, <2>3
<1>6. CASE extractor' = extractor + 1 /\ offset >= text.size /\ offset' = 0
  <2>1. offset = text.size
    BY <1>1, <1>6
  <2>2. /\ area - offset \in Nat \ {0} /\ (n - 1) * (text.size + 1) \in Nat
        /\ (n - 1) * (text.size + 1) < area - offset
    BY <1>1, <1>2, <1>3, <2>1, ScansLeft
  <2>3. CASE extractor' > Len(engine)
    BY <1>1, <1>4, <1>6, <2>2, <2>3 DEF OffsetsLeft
  <2>4. CASE extractor' <= Len(engine)
    <3>1. Len(engine') + 1 - extractor' = n - 1 /\ text'.size = text.size /\ extractor' <= Len(engine')
      BY <1>1, <1>2, <1>6, <2>4
    <3>2. PICK rest \in Nat : rest = (n - 1) * (text.size + 1) /\ rest < area - offset
      BY <2>2
    <3>3. OffsetsLeft' = rest - 0
      BY <1>6, <3>1, <3>2 DEF OffsetsLeft
    <3>4. QED
      BY <1>1, <1>4, <3>2, <3>3
  <2>5. QED
    BY <1>1, <1>6, <2>3, <2>4
<1>7. QED
  BY <1>5, <1>6

(* A match takes the scan on, wherever it begins. *)
LEMMA MatchMovesOn ==
    ASSUME IntentTypeOK, Match
    PROVE  extractor <= Len(engine) /\ offset < offset'
<1>1. text.bounds \subseteq Nat /\ offset \in Nat
  BY TextIsSound DEF IntentTypeOK
<1>2. QED
  BY <1>1 DEF Match, MatchDate, MatchTime, MatchLocation, MatchUrl, MatchHere, MatchPerson, MatchEmail,
     MatchPhone, Emit, Scans, Scanning

(* The candidates are finitely many. *)
LEMMA CandidatesAreFinite ==
    IntentTypeOK =>
        /\ Len(found) \in Nat /\ Cardinality(DOMAIN found) = Len(found)
        /\ IsFiniteSet(pending) /\ Cardinality(pending) \in Nat
        /\ IsFiniteSet(kept) /\ Cardinality(kept) \in Nat
<1> SUFFICES ASSUME IntentTypeOK
             PROVE  /\ Len(found) \in Nat /\ Cardinality(DOMAIN found) = Len(found)
                    /\ IsFiniteSet(pending) /\ Cardinality(pending) \in Nat
                    /\ IsFiniteSet(kept) /\ Cardinality(kept) \in Nat
  OBVIOUS
<1>1. Len(found) \in Nat /\ DOMAIN found = 1 .. Len(found)
  BY DEF IntentTypeOK
<1>2. IsFiniteSet(DOMAIN found) /\ Cardinality(DOMAIN found) = Len(found)
  <2>1. PICK n \in Nat : n = Len(found)
    BY <1>1
  <2>2. IsFiniteSet(1 .. n) /\ Cardinality(1 .. n) = n
    BY FS_Interval
  <2>3. QED
    BY <1>1, <2>1, <2>2
<1>3. IsFiniteSet(pending) /\ IsFiniteSet(kept)
  BY <1>2, FS_Subset DEF IntentTypeOK
<1>4. QED
  BY <1>1, <1>2, <1>3, FS_CardinalityType

(* What the steps are counted with is a number, in the next state too. *)
Measured == OffsetsLeft \in Nat /\ Cardinality(pending) \in Nat

LEMMA WhatIsLeft == IntentTypeOK => Measured
BY CandidatesAreFinite, OffsetsAreLeft DEF Measured

LEMMA StepCounts ==
    ASSUME IInv, IInv', RInv, Next
    PROVE  StepsLeft' \in Nat /\ StepsLeft' < StepsLeft
<1>1. IntentTypeOK /\ IntentTypeOK'
  BY DEF IInv
<1>2. /\ Len(found) \in Nat /\ Cardinality(pending) \in Nat /\ Cardinality(kept) \in Nat
      /\ OffsetsLeft \in Nat /\ OffsetsLeft' \in Nat /\ Cardinality(pending') \in Nat
  <2>1. IntentTypeOK' => Measured'
    BY WhatIsLeft, PTL
  <2>2. QED
    BY <1>1, <2>1, CandidatesAreFinite, OffsetsAreLeft DEF Measured
<1>3. CASE Match \/ Skip \/ NextExtractor
  <2>1. /\ pc = "extract" /\ pc' = "extract" /\ UNCHANGED <<text, engine>> /\ extractor <= Len(engine)
        /\ \/ extractor' = extractor /\ offset < offset'
           \/ extractor' = extractor + 1 /\ offset >= text.size /\ offset' = 0
    <3>1. CASE Match
      BY <1>1, <3>1, MatchInExtract, MatchEmitsASpan, MatchMovesOn
    <3>2. CASE Skip
      <4>1. offset \in Int /\ \A o \in Skips(engine[extractor]) : offset < o
        BY <1>1, TextIsSound DEF Skips, IntentTypeOK
      <4>2. QED
        BY <3>2, <4>1 DEF Skip, Scanning
    <3>3. CASE NextExtractor
      BY <3>3 DEF NextExtractor
    <3>4. QED
      BY <1>3, <3>1, <3>2, <3>3
  <2>2. OffsetsLeft' < OffsetsLeft
    BY <1>1, <2>1, OffsetsAreUsed
  <2>3. Len(found') \in Nat /\ Len(found') <= Len(found) + 1
    <3>1. CASE Match
      <4>1. PICK candidate \in Candidates : found' = Append(found, candidate)
        BY <1>1, <3>1, MatchEmitsASpan
      <4>2. QED
        BY <1>1, <4>1 DEF IntentTypeOK
    <3>2. CASE Skip \/ NextExtractor
      BY <1>2, <3>2 DEF Skip, NextExtractor
    <3>3. QED
      BY <1>3, <3>1, <3>2
  <2>4. /\ StepsLeft = 3 * OffsetsLeft + 2 * Len(found) + 3
        /\ StepsLeft' = 3 * OffsetsLeft' + 2 * Len(found') + 3
    BY <2>1 DEF StepsLeft
  <2>5. \A a, b, c, d \in Nat : a < b /\ c <= d + 1 =>
           3 * a + 2 * c + 3 \in Nat /\ 3 * a + 2 * c + 3 < 3 * b + 2 * d + 3
    OBVIOUS
  <2>6. QED
    BY <1>2, <2>2, <2>3, <2>4, <2>5
<1>4. CASE Panic
  <2>1. pc = "extract" /\ pc' = "panicked"
    BY <1>4 DEF Panic, Scanning
  <2>2. QED
    BY <1>2, <2>1 DEF StepsLeft
<1>5. CASE StartResolve
  <2>1. /\ pc = "extract" /\ pc' = "resolve" /\ OffsetsLeft = 0
        /\ pending' = DOMAIN found /\ kept' = {} /\ kept = {}
    BY <1>5 DEF StartResolve, OffsetsLeft, IInv, PendingInResolve
  <2>2. Cardinality(pending') = Len(found) /\ Cardinality(kept') = 0
    BY <1>1, <2>1, CandidatesAreFinite, FS_EmptySet
  <2>3. StepsLeft = 2 * Len(found) + 3 /\ StepsLeft' = 2 * Len(found) + 2
    BY <1>2, <2>1, <2>2 DEF StepsLeft
  <2>4. QED
    BY <1>2, <2>3
<1>6. CASE Consider
  <2>1. PICK i \in pending : pending' = pending \ {i} /\ (kept' = kept \/ kept' = kept \cup {i})
    BY <1>6 DEF Consider
  <2>2. IsFiniteSet(pending) /\ IsFiniteSet(kept)
    BY <1>1, CandidatesAreFinite
  <2>3. Cardinality(pending') = Cardinality(pending) - 1
    BY <2>1, <2>2, FS_RemoveElement
  <2>4. Cardinality(kept') \in {Cardinality(kept), Cardinality(kept) + 1}
    BY <2>1, <2>2, FS_AddElement
  <2>5. /\ StepsLeft = 2 * Cardinality(pending) + Cardinality(kept) + 2
        /\ StepsLeft' = 2 * Cardinality(pending') + Cardinality(kept') + 2
    BY <1>6 DEF Consider, StepsLeft
  <2>6. \A p, k, l \in Nat : p - 1 \in Nat /\ l \in {k, k + 1} =>
           2 * (p - 1) + l + 2 \in Nat /\ 2 * (p - 1) + l + 2 < 2 * p + k + 2
    OBVIOUS
  <2>7. Cardinality(kept') \in Nat
    BY <1>2, <2>4
  <2>8. QED
    BY <1>2, <2>3, <2>4, <2>5, <2>6, <2>7
<1>7. CASE StartRender
  <2>1. pc = "resolve" /\ pc' = "render" /\ pending = {} /\ left' = Cardinality(kept)
    BY <1>7 DEF StartRender
  <2>2. Cardinality(pending) = 0
    BY <2>1, FS_EmptySet
  <2>3. StepsLeft = Cardinality(kept) + 2 /\ StepsLeft' = Cardinality(kept) + 1
    BY <1>2, <2>1, <2>2 DEF StepsLeft
  <2>4. QED
    BY <1>2, <2>3
<1>8. CASE RenderNext \/ Return
  <2>1. pc = "render" /\ left \in Nat
    <3>1. pc = "render"
      BY <1>8 DEF RenderNext, Return
    <3>2. left \in 0 .. Len(entities) /\ Len(entities) \in Nat
      BY <3>1 DEF RInv, RenderInv, Rendering, EntitiesInOrder
    <3>3. QED
      BY <3>1, <3>2
  <2>2. \/ pc' = "render" /\ left > 0 /\ left' = left - 1
        \/ pc' = "done"
    BY <1>8, <2>1 DEF RenderNext, Return
  <2>3. QED
    BY <2>1, <2>2 DEF StepsLeft
<1>9. QED
  BY <1>3, <1>4, <1>5, <1>6, <1>7, <1>8 DEF Next

(* The length of the message and the number of extractors bound what mark  *)
(* does: no step is taken twice for the same offset, candidate or entity.  *)
THEOREM MarkEnds == Spec => EveryStepCounts
<1>1. IInv /\ IInv' /\ RInv /\ [Next]_vars
         => [StepsLeft' \in Nat /\ StepsLeft' < StepsLeft]_vars
  BY StepCounts
<1>2. QED
  BY <1>1, RenderInvariance, PTL DEF Spec, EveryStepCounts

-----------------------------------------------------------------------------
(* A panic is one of the two that CanPanic names. *)
PanicsAreKnown == pc = "panicked" => CanPanic

(* mark panics only where CanPanic says that it may: with other extractors, *)
(* or over a message of which every byte is a character, it never does, so  *)
(* that after its last step it has returned.                                *)
THEOREM OnlyKnownPanics == Spec => [](pc = "panicked" => CanPanic)
<1>1. Init => PanicsAreKnown
  BY DEF Init, PanicsAreKnown
<1>2. ASSUME IntentTypeOK, PanicsAreKnown, [Next]_vars
      PROVE  PanicsAreKnown'
  <2>1. UNCHANGED <<text, engine>> => CanPanic' = CanPanic
    BY DEF CanPanic
  <2>2. CASE Panic
    <3>1. extractor \in DOMAIN engine /\ offset \in 0 .. text.size
      <4>1. engine \in Seq(Kinds)
        BY <1>2, ExtractorsAreKnown DEF IntentTypeOK
      <4>2. Len(engine) \in Nat /\ DOMAIN engine = 1 .. Len(engine)
        BY <4>1
      <4>3. extractor \in 1 .. Len(engine) + 1 /\ extractor <= Len(engine)
        BY <1>2, <2>2 DEF Panic, Scanning, IntentTypeOK
      <4>4. offset \in 0 .. text.size
        BY <1>2 DEF IntentTypeOK
      <4>5. QED
        BY <4>2, <4>3, <4>4
    <3>2. CanPanic
      BY <2>2, <3>1 DEF Panic, SplitsCharacter, CanLeaveCalendar, CanPanic
    <3>3. UNCHANGED <<text, engine>>
      BY <2>2 DEF Panic, scanVars
    <3>4. QED
      BY <2>1, <3>2, <3>3 DEF PanicsAreKnown
  <2>3. CASE Match
    BY <1>2, <2>1, <2>3, MatchEmitsASpan, Zenon DEF PanicsAreKnown
  <2>4. CASE Skip \/ NextExtractor \/ StartResolve \/ Consider \/ StartRender \/ RenderNext \/ Return
    <3>1. /\ UNCHANGED <<text, engine>>
          /\ pc' = pc \/ pc' # "panicked"
      BY <2>4 DEF Skip, NextExtractor, StartResolve, Consider, StartRender, RenderNext, Return, scanVars
    <3>2. QED
      BY <1>2, <2>1, <3>1 DEF PanicsAreKnown
  <2>5. CASE UNCHANGED vars
    BY <1>2, <2>1, <2>5 DEF vars, PanicsAreKnown
  <2>6. QED
    BY <1>2, <2>2, <2>3, <2>4, <2>5 DEF Next
<1>3. QED
  BY <1>1, <1>2, IntentTypeCorrect, PTL DEF Spec, PanicsAreKnown
=============================================================================
