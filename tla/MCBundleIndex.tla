--------------------------- MODULE MCBundleIndex ---------------------------
(* Two words, which are also the ids; pack 2 is the bundle itself.  Word 2  *)
(* is too short for a keyword, 3 is a stop word, 4 is word 1 with a         *)
(* question mark, and 5 is a dash.                                          *)
EXTENDS BundleIndex

Meta(id, title, tags, type) ==
    [id |-> id, title |-> title, description |-> <<3, 4, 5>>, tags |-> tags, execution_type |-> type]

InPack1 == <<"packs", 1, "flows", "f.ygtc">>
InApp1 == <<"apps", 1, "flows", "g.ygtc">>
Loose == <<"loose", "h.ygtc">>
OnTop == <<"i.ygtc">>

Minimal == Meta(1, NoTitle, <<>>, "deterministic")
Both == Meta(2, <<1, 2>>, <<<<1>>>>, "agentic")
Twice == Meta(1, <<2, 2>>, <<<<2>>, <<1, 2>>>>, "deterministic")

File(path, meta) == [path |-> path, ygtc |-> TRUE, meta |-> meta]

Ignored(path) == [path |-> path, ygtc |-> FALSE, meta |-> Unparsable]

MCClean(w) == CASE w = 4 -> 1 [] w = 5 -> 0 [] OTHER -> w

MCBytes(w) == CASE w = 0 -> 0 [] w = 2 -> 2 [] OTHER -> 4

MCBundles ==
    {{File(InPack1, Minimal), File(InApp1, Both), File(Loose, Minimal)},
     {File(InPack1, Minimal), File(InApp1, Twice), File(Loose, Both)},
     {File(InPack1, Twice), File(InApp1, Unparsable), File(OnTop, Both)}}

(* Two flows of one key; two packs, of which the walk may find the second   *)
(* first; no flow.                                                          *)
MCIndexedBundles ==
    {{File(InPack1, Minimal), File(InApp1, Twice)},
     {File(InPack1, Both), File(Loose, Minimal)},
     {File(InApp1, Unparsable), Ignored(OnTop)}}

MCLinkSets == {{1}, {1, 2}, {1, 2, 3}}

(* An old one with two titles, and one with utterances and a target of two flows. *)
MCHandMade ==
    {[version |-> "v1",
      entries |-> <<[flow_id |-> 1, target |-> <<1, 1>>, titles |-> <<<<2>>, <<1>>>>,
                     tags |-> <<<<1>>>>, flow_type |-> "deterministic"],
                    [flow_id |-> 2, target |-> <<1, 2>>, titles |-> <<>>,
                     tags |-> <<<<2>>>>, flow_type |-> "agentic"]>>],
     [version |-> "v2",
      entries |-> <<[flow_id |-> 2, target |-> <<1, 1>>, title |-> <<1>>, tags |-> <<>>,
                     utterances |-> <<<<2, 1>>>>, flow_type |-> "agentic"],
                    [flow_id |-> 1, target |-> <<1, 1>>, title |-> <<1>>, tags |-> <<>>,
                     utterances |-> <<<<1>>, <<2>>>>, flow_type |-> "deterministic"]>>]}

MCMessages == {<<>>, <<1>>, <<2>>, <<1, 2>>, <<2, 2>>, <<1, 2, 2>>}
=============================================================================
