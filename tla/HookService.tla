---------------------------- MODULE HookService ----------------------------
(***************************************************************************)
(* What the whole promises to one inbound hook, whatever links, reindexes, *)
(* failures and readers go on around it: the endpoint serves one corpus at *)
(* any instant, the hook sees that of a single instant after it was        *)
(* admitted, and the one directive that answers it is of that corpus,      *)
(* except for a flow that an LLM named.  HookPath is the files, builds,    *)
(* settings and pipeline that implement it.                                *)
(***************************************************************************)
CONSTANTS Packs, Targets

VARIABLES
    relevant,   \* the packs whose flow has to do with the text of the hook
    served,     \* the packs that the endpoint serves, an option
    stage,      \* of the hook: "new", "open" or "answered"
    snapshot,   \* what was served when the hook looked, an option
    answer      \* the directive

svars == <<relevant, served, stage, snapshot, answer>>

ServiceInit ==
    /\ served = {}
    /\ stage = "new"
    /\ snapshot = {}
    /\ answer = [kind |-> "continue"]

(* From the first index on there is always one. *)
Serve ==
    /\ served' \in {{corpus} : corpus \in SUBSET Packs}
    /\ UNCHANGED <<relevant, stage, snapshot, answer>>

Admit ==
    /\ stage = "new"
    /\ stage' = "open"
    /\ UNCHANGED <<relevant, served, snapshot, answer>>

Look ==
    /\ stage = "open" /\ snapshot = {} /\ served # {}
    /\ snapshot' = served
    /\ UNCHANGED <<relevant, served, stage, answer>>

Found == {p \in relevant : \A corpus \in snapshot : p \in corpus}

(* A hook that saw no index gets no directive but to continue, or an error *)
(* if it was not even admitted.                                            *)
Permitted(directive) ==
    \/ directive.kind = "continue"
    \/ directive.kind = "exit" /\ stage = "new"
    \/ /\ snapshot # {}
       /\ \/ directive.kind \in {"respond", "deny"}
          \/ /\ directive.kind = "dispatch"
             /\ \/ directive.source = "strategy" /\ directive.target \in Found
                \/ directive.source = "llm" /\ directive.target \in Targets

Answer ==
    /\ stage # "answered"
    /\ stage' = "answered"
    /\ Permitted(answer')
    /\ UNCHANGED <<relevant, served, snapshot>>

ServiceNext == Serve \/ Admit \/ Look \/ Answer

ServiceSpec == ServiceInit /\ [][ServiceNext]_svars
=============================================================================
