----------------------------- MODULE FlowFiles -----------------------------
(***************************************************************************)
(* The flow files of a bundle, as scan_bundle and parse_flow_file of       *)
(* crates/fast2flow-bundle read them.                                      *)
(*                                                                         *)
(* A text is the sequence of its words, in lower case.  Words, packs and   *)
(* ids are numbers in their alphabetical order.                            *)
(***************************************************************************)
EXTENDS Integers, Sequences, SequencesExt, FiniteSetsExt

CONSTANTS
    BundleName,     \* the name of the bundle's directory, as a pack
    ParentName,     \* the name of the directory that it is in, as a pack
    Unparsable,     \* what is in a file that is no flow
    NoTitle,        \* the title of a flow that has none
    Clean(_),       \* a word without what is not alphanumeric
    Bytes(_),       \* the length of a word
    StopWords       \* is_stop_word

(* A file is [path, ygtc, meta]; the walk goes everywhere. *)
FindFlowFiles(bundle) == {f \in bundle : f.ygtc}

(* The second directory, or the directory two levels above the file. *)
DerivePackId(path) ==
    CASE Len(path) >= 3 -> path[2]
      [] Len(path) = 2 -> BundleName
      [] Len(path) = 1 -> ParentName

(* Words of the title and the description that are long enough and say      *)
(* something, and the tags as they are.                                     *)
ExtractKeywords(title, description, tags) ==
    LET words == {Clean(w) : w \in ToSet(title) \cup ToSet(description)} IN
    {<<w>> : w \in {c \in words : Bytes(c) >= 3 /\ c \notin StopWords}} \cup ToSet(tags)

(* A flow without a title has its id as the title. *)
ParseFlow(f) ==
    LET title == IF f.meta.title = NoTitle THEN <<f.meta.id>> ELSE f.meta.title IN
    [pack_id |-> DerivePackId(f.path),
     flow_id |-> f.meta.id,
     title |-> title,
     description |-> f.meta.description,
     tags |-> f.meta.tags,
     keywords |-> ExtractKeywords(title, f.meta.description, f.meta.tags),
     execution_type |-> f.meta.execution_type,
     file_path |-> f.path]

(* Files that do not parse are skipped. *)
ScanBundle(bundle) == {ParseFlow(f) : f \in {g \in FindFlowFiles(bundle) : g.meta # Unparsable}}
=============================================================================
