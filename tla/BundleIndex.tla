---------------------------- MODULE BundleIndex ----------------------------
(***************************************************************************)
(* The index of a bundle for people (crates/fast2flow-bundle: hooks.rs,    *)
(* index.rs; bundle index and bundle validate of the CLI): the flows with  *)
(* their term counts in index.json, and intents.md.  Both are written in   *)
(* place, into a directory of the caller's, next to the indexing, mounting *)
(* and routing of FlowSearch.                                              *)
(*                                                                         *)
(* One command at a time.  A keyword or term is a text, as a tag can have  *)
(* several words.                                                          *)
(***************************************************************************)
EXTENDS FlowSearch

CONSTANT IndexedBundles     \* the bundles that the commands are called with

ASSUME IndexedAreSound == \A bundle \in IndexedBundles : IsBundle(bundle)

VARIABLES
    output, \* the files index.json and intents.md
    tool,   \* the command: where it is, the flows it has scanned, whether it writes docs
    copied  \* history: the index.json that a user has copied to the mount since the last build

bundleVars == <<output, tool, copied>>

-----------------------------------------------------------------------------
(* build_index_manifest *)

DocKey(entry) == <<entry.pack_id, entry.flow_id>>

TitleWords(entry) == [i \in DOMAIN entry.title |-> Clean(entry.title[i])]

TitleTerms(entry) == {<<w>> : w \in {c \in ToSet(TitleWords(entry)) : Bytes(c) >= 2}}

Terms(entry) == entry.keywords \cup TitleTerms(entry)

(* A keyword counts once, and every occurrence in the title twice. *)
TermCounts(entry) ==
    [t \in Terms(entry) |->
        (IF t \in entry.keywords THEN 1 ELSE 0)
        + (IF t \in TitleTerms(entry)
           THEN 2 * Cardinality({i \in DOMAIN entry.title : <<TitleWords(entry)[i]>> = t})
           ELSE 0)]

(* Of flows with one key the last one stays. *)
TermFrequencies(entries) ==
    [key \in {DocKey(e) : e \in ToSet(entries)} |->
        TermCounts(entries[Max({i \in DOMAIN entries : DocKey(entries[i]) = key})])]

(* Mutant: occurrences are added up, not documents. *)
OccurrencesOf(entries) ==
    [t \in UNION {Terms(e) : e \in ToSet(entries)} |->
        SumSet({<<i, TermCounts(entries[i])[t]>>[2] : i \in {j \in DOMAIN entries : t \in Terms(entries[j])}})]

DocumentFrequencies(entries) ==
    [t \in UNION {Terms(e) : e \in ToSet(entries)} |->
        Cardinality({i \in DOMAIN entries : t \in Terms(entries[i])})]

BuildIndexManifest(entries) ==
    [version |-> "1.0",
     flows |-> entries,
     term_frequencies |-> TermFrequencies(entries),
     document_frequencies |-> DocumentFrequencies(entries)]

Ascending(S) ==
    [k \in 1 .. Cardinality(S) |-> CHOOSE n \in S : Cardinality({m \in S : m <= n}) = k]

(* by_pack: the flows of a pack, as they were scanned. *)
OfPack(entries, pack) ==
    LET places == Ascending({i \in DOMAIN entries : entries[i].pack_id = pack}) IN
    [k \in DOMAIN places |-> entries[places[k]]]

(* generate_intents_md: one section for each pack, by name. *)
IntentsMd(entries) ==
    LET packs == Ascending({e.pack_id : e \in ToSet(entries)}) IN
    [total |-> Len(entries),
     sections |-> [s \in DOMAIN packs |-> [pack |-> packs[s], flows |-> OfPack(entries, packs[s])]]]

-----------------------------------------------------------------------------
NoFile == [state |-> "none"]
Torn == [state |-> "torn"]
Whole(content) == [state |-> "whole", content |-> content]

NoTool == [at |-> "idle", flows |-> <<>>, docs |-> FALSE]
Failed == [NoTool EXCEPT !.at = "err"]

BundleInit ==
    /\ Init
    /\ output = [index |-> NoFile, intents |-> NoFile]
    /\ tool = NoTool
    /\ copied = {}

Scans == UNION {SetToSeqs(ScanBundle(bundle)) : bundle \in IndexedBundles}

(* index_bundle_after_setup, reindex_on_pack_change (always with docs): a   *)
(* bundle without flows returns Ok and leaves the files as they are.        *)
StartIndexing ==
    /\ tool.at \in {"idle", "ok", "err"}
    /\ \E flows \in Scans, docs \in BOOLEAN :
          tool' = [at |-> IF flows = <<>> THEN "ok" ELSE "open index", flows |-> flows, docs |-> docs]
    /\ UNCHANGED <<vars, output, copied>>

At(from, to) == tool.at = from /\ tool' = [tool EXCEPT !.at = to]

OpenIndex ==
    /\ At("open index", "fill index")
    /\ output' = [output EXCEPT !.index = Torn]
    /\ UNCHANGED <<vars, copied>>

FillIndex ==
    /\ At("fill index", IF tool.docs THEN "open docs" ELSE "ok")
    /\ output' = [output EXCEPT !.index = Whole(BuildIndexManifest(tool.flows))]
    /\ UNCHANGED <<vars, copied>>

OpenIntents ==
    /\ At("open docs", "fill docs")
    /\ output' = [output EXCEPT !.intents = Torn]
    /\ UNCHANGED <<vars, copied>>

FillIntents ==
    /\ At("fill docs", "ok")
    /\ output' = [output EXCEPT !.intents = Whole(IntentsMd(tool.flows))]
    /\ UNCHANGED <<vars, copied>>

Writing == tool.at \in {"open index", "fill index", "open docs", "fill docs"}

(* Mutant: the docs are not worth failing for. *)
StopQuietly ==
    /\ Writing
    /\ tool' = IF tool.at = "fill docs" THEN [tool EXCEPT !.at = "ok"] ELSE Failed
    /\ UNCHANGED <<vars, output, copied>>

(* Any write can fail, and the process can die. *)
Stop ==
    /\ Writing
    /\ tool' = Failed
    /\ UNCHANGED <<vars, output, copied>>

IndexBundle == StartIndexing \/ OpenIndex \/ FillIndex \/ OpenIntents \/ FillIntents \/ Stop

(* The last lines of intents.md: cp index.json to the mount.  In a          *)
(* directory without the file latest, nothing is found as before.           *)
CopyToMount ==
    /\ tool.at = "ok" /\ tool.flows # <<>>
    /\ LET index == output.index.content IN
       /\ copied' = {index}
       /\ IF manifest.version = "none" THEN UNCHANGED vars ELSE Publish(index)
    /\ UNCHANGED <<output, tool>>

(* The index that routes, which is built or mounted between two commands. *)
Build ==
    /\ ~Writing
    /\ Reindex \/ Mount
    /\ copied' = {}
    /\ UNCHANGED <<output, tool>>

Answer == (Route \/ Simulate) /\ UNCHANGED bundleVars

BundleNext == Build \/ Answer \/ IndexBundle \/ CopyToMount

BundleSpec == BundleInit /\ [][BundleNext]_<<vars, bundleVars>>

-----------------------------------------------------------------------------
(* Every flow has a line of its own, and every line a flow; within a section *)
(* they come as they were scanned.                                           *)
ListsEachOnce(sections, flows) ==
    \E line \in Bijection(DOMAIN flows, UNION {{s} \X DOMAIN sections[s].flows : s \in DOMAIN sections}) :
        /\ \A i \in DOMAIN flows : flows[i] = sections[line[i][1]].flows[line[i][2]]
        /\ \A i, j \in DOMAIN flows :
              i < j /\ line[i][1] = line[j][1] => line[i][2] < line[j][2]

(* When bundle index has returned Ok for some flows, index.json holds these *)
(* flows, and intents.md, if it was asked for, lists each of them once,     *)
(* under its pack, in the order of the packs: whatever earlier commands     *)
(* left behind when they failed half way.                                   *)
OkDescribesOutput ==
    tool.at = "ok" /\ tool.flows # <<>> =>
        /\ output.index.state = "whole"
        /\ output.index.content.flows = tool.flows
        /\ tool.docs =>
              LET md == output.intents.content  sections == md.sections IN
              /\ output.intents.state = "whole"
              /\ md.total = Len(tool.flows)
              /\ ListsEachOnce(sections, tool.flows)
              /\ \A s \in DOMAIN sections : \A f \in ToSet(sections[s].flows) :
                    f.pack_id = sections[s].pack
              /\ \A s, t \in DOMAIN sections : s < t => sections[s].pack < sections[t].pack

TablesFit(index) ==
    LET tf == index.term_frequencies
        df == index.document_frequencies
        Having(t) == {k \in DOMAIN tf : t \in DOMAIN tf[k]}
        Distinct == Cardinality(DOMAIN tf) = Len(index.flows) IN
    /\ UNION {DOMAIN tf[k] : k \in DOMAIN tf} \subseteq DOMAIN df
    /\ \A t \in DOMAIN df : /\ df[t] \in Cardinality(Having(t)) .. Len(index.flows)
                            /\ Distinct => df[t] = Cardinality(Having(t))
    /\ \A e \in ToSet(index.flows) : \A t \in TitleTerms(e), u \in Terms(e) \ TitleTerms(e) :
          Distinct => tf[DocKey(e)][t] > tf[DocKey(e)][u]

(* The two tables of index.json fit together: a term is counted for as many *)
(* documents as have it, unless two flows share a key, of which one is      *)
(* counted and not kept; and in a document a word of the title outweighs    *)
(* every term that is not in it.                                            *)
TablesAgree == output.index.state = "whole" => TablesFit(output.index.content)

(* After the documented copy, into a directory that a mount has, the flows   *)
(* of the index are found.                                                  *)
DocumentedCopyIsServed ==
    manifest.version # "none" => \A index \in copied : \A f \in ToSet(index.flows) :
        \E e \in ToSet(Entries) : e.target = DocKey(f)
=============================================================================
