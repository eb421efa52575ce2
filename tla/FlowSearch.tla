---------------------------- MODULE FlowSearch ----------------------------
(***************************************************************************)
(* From the flows of a bundle to the flow that a message is dispatched to: *)
(* the manifest that is built from the linked packs (or was written by     *)
(* hand, in either version), search_manifest, and                          *)
(* Phase1DeterministicStrategy.  Scores are exact where the code rounds to *)
(* f32: the shares of words in Units, the confidences in tenths of these.  *)
(***************************************************************************)
EXTENDS FlowFiles

CONSTANTS
    Bundles,        \* the bundles that are indexed, sets of files
    LinkSets,       \* sets of linked packs
    HandMade,       \* manifests that are mounted without being built
    Messages,       \* the texts of the hooks
    Longest,        \* the most words that a text has
    Unit,           \* the share of a text that is all of it
    CandidateLimit, \* RouterConfig::candidate_limit
    MinConfidence   \* RouterConfig::min_confidence

Texts == {text \in Seq(Nat) : Len(text) <= Longest}
FlowTypes == {"deterministic", "agentic"}

EntriesV1 ==
    [flow_id : Nat, target : Nat \X Nat, titles : Seq(Texts), tags : Seq(Texts), flow_type : FlowTypes]

EntriesV2 ==
    [flow_id : Nat, target : Nat \X Nat, title : Texts, tags : Seq(Texts), utterances : Seq(Texts),
     flow_type : FlowTypes]

ASSUME SharesAreWhole ==
    Longest \in Nat \ {0} /\ Unit \in Nat \ {0} /\ \A n \in 1 .. Longest : Unit % n = 0

ASSUME MessagesAreTexts == Messages \subseteq Texts

ASSUME SettingsAreSound == CandidateLimit \in Nat /\ MinConfidence \in 0 .. 10 * Unit

IsBundle(bundle) ==
    /\ IsFiniteSet(bundle)
    /\ \A f \in FindFlowFiles(bundle) : f.meta # Unparsable =>
          /\ DerivePackId(f.path) \in Nat /\ f.meta.id \in Nat
          /\ f.meta.title = NoTitle \/ f.meta.title \in Texts
          /\ f.meta.tags \in Seq(Texts) /\ f.meta.execution_type \in FlowTypes

ASSUME BundlesAreSound == \A bundle \in Bundles : IsBundle(bundle)

ASSUME HandMadeAreSound ==
    \A m \in HandMade :
        \/ m.version = "v1" /\ m.entries \in Seq(EntriesV1)
        \/ m.version = "v2" /\ m.entries \in Seq(EntriesV2)

VARIABLES
    manifest,   \* what the directory of the scope holds
    answer      \* the last answer since the indexed flows changed, if any

vars == <<manifest, answer>>

-----------------------------------------------------------------------------
(* The manifest *)

(* Flows of packs that are not linked do not get into the corpus. *)
Corpus(bundle, links) == {entry \in ScanBundle(bundle) : entry.pack_id \in links}

FlowDoc(entry) ==
    [flow_id |-> entry.flow_id,
     target |-> <<entry.pack_id, entry.flow_id>>,
     title |-> entry.title,
     tags |-> entry.tags,
     flow_type |-> entry.execution_type]

EntryV2(doc) ==
    [flow_id |-> doc.flow_id, target |-> doc.target, title |-> doc.title,
     tags |-> doc.tags, utterances |-> <<>>, flow_type |-> doc.flow_type]

EntryV1(doc) ==
    [flow_id |-> doc.flow_id, target |-> doc.target, titles |-> <<doc.title>>,
     tags |-> doc.tags, flow_type |-> doc.flow_type]

BuildManifest(version, docs) ==
    [version |-> version,
     entries |-> [i \in DOMAIN docs |->
                     IF version = "v1" THEN EntryV1(docs[i]) ELSE EntryV2(docs[i])]]

(* IndexEntryV2::from_v1 keeps the first title. *)
FromV1(e) ==
    [flow_id |-> e.flow_id, target |-> e.target,
     title |-> IF e.titles = <<>> THEN <<>> ELSE Head(e.titles),
     tags |-> e.tags, utterances |-> <<>>, flow_type |-> e.flow_type]

(* Versions other than these two are refused; the version "none" stands for *)
(* a directory in which nothing is found.                                   *)
Loads(m) == m.version \in {"v1", "v2"}

(* The entries that load_latest returns. *)
ParseManifest(m) ==
    CASE m.version = "v2" -> m.entries
      [] m.version = "v1" -> [i \in DOMAIN m.entries |-> FromV1(m.entries[i])]
      [] OTHER -> <<>>

-----------------------------------------------------------------------------
(* search_manifest *)

Overlap(query, words) == Cardinality({i \in DOMAIN query : Contains(words, query[i])})

OverlapScore(query, corpus) ==
    IF query = <<>> \/ corpus = <<>> THEN 0 ELSE (Unit * Overlap(query, corpus)) \div Len(query)

ScoreHint(e, query) ==
    Max({OverlapScore(query, e.title), OverlapScore(query, FlattenSeq(e.tags)),
         OverlapScore(query, FlattenSeq(e.utterances))})

(* By target, then by flow id. *)
Precedes(a, b) ==
    \/ a.target[1] < b.target[1]
    \/ /\ a.target[1] = b.target[1]
       /\ \/ a.target[2] < b.target[2]
          \/ a.target[2] = b.target[2] /\ a.flow_id < b.flow_id

SameName(a, b) == a.target = b.target /\ a.flow_id = b.flow_id

(* Mutant: ties stay as they come. *)
SortsByScore(scoreA, a, scoreB, b, earlier) ==
    scoreA > scoreB \/ (scoreA = scoreB /\ earlier)

(* Where a stable sort by score, target and flow id puts a, that may have   *)
(* been earlier, before b.                                                  *)
SortsBefore(scoreA, a, scoreB, b, earlier) ==
    \/ scoreA > scoreB
    \/ scoreA = scoreB /\ (Precedes(a, b) \/ (SameName(a, b) /\ earlier))

(* A Candidate of the code, and the place of its entry. *)
Candidate(e, place, score) ==
    [place |-> place, target |-> e.target, flow_id |-> e.flow_id, title |-> e.title,
     tags |-> e.tags, score_hint |-> score, flow_type |-> e.flow_type]

Scored(entries, query) ==
    {c \in {Candidate(entries[i], i, ScoreHint(entries[i], query)) : i \in DOMAIN entries} :
        c.score_hint > 0}

Ahead(a, b) == SortsBefore(a.score_hint, a, b.score_hint, b, a.place < b.place)

(* Mutant: the limit before the sort. *)
TakeTheFirst(scored, limit) ==
    {c \in scored : Cardinality({d \in scored : d.place < c.place}) < limit}

Take(scored, limit) ==
    {c \in scored : Cardinality({d \in scored : Ahead(d, c)}) < limit}

Search(entries, query, limit) == Take(Scored(entries, query), limit)

-----------------------------------------------------------------------------
(* Phase1DeterministicStrategy *)

(* Mutant: relative to the shorter text. *)
SimilarityToTheShorter(a, b) ==
    IF a = <<>> \/ b = <<>> THEN 0 ELSE (Unit * Overlap(a, b)) \div Min({Len(a), Len(b)})

TokenSimilarity(a, b) ==
    IF a = <<>> \/ b = <<>> THEN 0 ELSE (Unit * Overlap(a, b)) \div Max({Len(a), Len(b)})

(* Mutant: the weights of title and tags swapped. *)
ScoreByTags(c, query) ==
    LET tagScore == Max({0} \cup {TokenSimilarity(query, t) : t \in ToSet(c.tags)}) IN
    2 * TokenSimilarity(query, c.title) + 7 * tagScore + c.score_hint

(* 0.7, 0.2 and 0.1. *)
Score(c, query) ==
    LET tagScore == Max({0} \cup {TokenSimilarity(query, t) : t \in ToSet(c.tags)}) IN
    7 * TokenSimilarity(query, c.title) + 2 * tagScore + c.score_hint

(* The candidates come in the order of the search. *)
Beats(a, b, query) == SortsBefore(Score(a, query), a, Score(b, query), b, Ahead(a, b))

Winners(candidates, query) == {c \in candidates : \A d \in candidates \ {c} : Beats(c, d, query)}

Decision(c, query, limit) ==
    [text |-> query, limit |-> limit, target |-> c.target, flow_type |-> c.flow_type,
     confidence |-> Score(c, query)]

Decisions(entries, query, limit) ==
    {Decision(c, query, limit) : c \in Winners(Search(entries, query, limit), query)}

-----------------------------------------------------------------------------
Entries == ParseManifest(manifest)

Init ==
    /\ manifest = [version |-> "none", entries |-> <<>>]
    /\ answer = {}

(* The same entries, each as often. *)
Reordered(s, t) == \E f \in Bijection(DOMAIN s, DOMAIN t) : \A i \in DOMAIN s : s[i] = t[f[i]]

(* The answer stays as long as the indexed flows do, in whatever order and version. *)
Publish(m) ==
    /\ manifest' = m
    /\ answer' = {a \in answer : Reordered(Entries, ParseManifest(m))}

(* What build_index writes, in v2, and what build_manifest made before it,  *)
(* in v1.  The directory is walked in any order.                            *)
ManifestsOf(version, flows) ==
    {BuildManifest(version, [i \in DOMAIN walk |-> FlowDoc(walk[i])]) : walk \in SetToSeqs(flows)}

Manifests ==
    UNION {ManifestsOf(version, Corpus(bundle, links)) :
           bundle \in Bundles, links \in LinkSets, version \in {"v1", "v2"}}

Reindex == \E m \in Manifests : Publish(m)

Mount == \E m \in HandMade : Publish(m)

(* A hook that is not dispatched leaves no answer here: CoreRoute goes on. *)
RouteWith(limit, min) ==
    /\ Loads(manifest)
    /\ \E query \in Messages : \E d \in Decisions(Entries, query, limit) :
          /\ d.confidence >= min
          /\ answer' = {d}
    /\ UNCHANGED manifest

Route == RouteWith(CandidateLimit, MinConfidence)

(* RouterConfig::default *)
DefaultLimit == 20
DefaultConfidence == 5 * Unit

(* route simulate of the CLI, which has settings of its own. *)
Simulate == RouteWith(DefaultLimit, DefaultConfidence)

Next == Reindex \/ Mount \/ Route \/ Simulate

Spec == Init /\ [][Next]_vars

-----------------------------------------------------------------------------
(* Confidences are shares of 1, also with repeated words, and every entry   *)
(* that is read has its fields, whatever the version of the file.           *)
SearchTypeOK ==
    /\ Entries \in Seq(EntriesV2)
    /\ \A a \in answer : Loads(manifest) /\ a.confidence \in Min({MinConfidence, DefaultConfidence}) .. 10 * Unit

(* An answer depends on the flows that are indexed, and not on the order in *)
(* which the walk found them nor on the version of the manifest.  Two files *)
(* with one pack and id are the exception: which comes first is anyone's    *)
(* guess, but one of the answers is theirs.                                 *)
OrderDoesNotMatter ==
    \A a \in answer : \A d \in Decisions(Entries, a.text, a.limit) :
        \/ a = d
        \/ \E e, f \in ToSet(Entries) :
              /\ e # f /\ e.target = f.target /\ e.flow_id = f.flow_id
              /\ e.target \in {a.target, d.target}

(* A message that is the title of a flow gets a decision as good as that    *)
(* flow, unless the search is full of flows with all of its words.          *)
ExactTitleIsServed ==
    \A query \in Messages, e \in ToSet(Entries) :
        query # <<>> /\ e.title = query =>
            \/ \E d \in Decisions(Entries, query, CandidateLimit) :
                  d.confidence >= Score(Candidate(e, 0, Unit), query)
            \/ Cardinality({i \in DOMAIN Entries : Entries[i] # e /\ ScoreHint(Entries[i], query) = Unit})
                  >= CandidateLimit

(* A flow is dispatched for a word of its title only: tags and utterances   *)
(* weigh too little to get over the threshold.                              *)
TitleWordNeeded ==
    \A a \in answer :
        \E e \in ToSet(Entries) : e.target = a.target /\ Overlap(a.text, e.title) > 0
=============================================================================
