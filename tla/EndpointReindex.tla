-------------------------- MODULE EndpointReindex --------------------------
(***************************************************************************)
(* Indexing a bundle for one messaging endpoint (crates/fast2flow-bundle,  *)
(* index_bundle_for_endpoint_internal): take the flows of the packs that   *)
(* are linked to the endpoint, publish them through write_manifest, an     *)
(* empty corpus too, and then write intents.md.  The caller (the toolchain *)
(* that links and unlinks packs) is outside the repository.  The manifest  *)
(* lists the flows of a set of packs, so a corpus is a set of packs.       *)
(***************************************************************************)
EXTENDS IndexStore, Naturals, FiniteSets

CONSTANTS
    Packs,          \* packs of the bundle, each with a flow
    MaxInFlight     \* how many reindexes the caller lets run at once

VARIABLES
    linked,     \* the packs now linked to the endpoint
    call,       \* arguments and corpus of each reindex
    reply,      \* what each reindex returned, or that it is writing intents.md
    doc         \* what intents.md holds

reindexVars == <<linked, call, reply, doc>>
allVars == <<vars, reindexVars>>

Called == {b \in Builds : phase[b] # "idle"}
InFlight == {b \in Called : reply[b] \in {"none", "docs"}}

ReindexInit ==
    /\ Init
    /\ linked = {}
    /\ call = [b \in Builds |-> [corpus |-> {}, generatedAt |-> 0, docs |-> FALSE]]
    /\ reply = [b \in Builds |-> "none"]
    /\ doc = "absent"

(* link-bundle and unlink-bundle *)
Relink(p) ==
    /\ linked' = IF p \in linked THEN linked \ {p} ELSE linked \cup {p}
    /\ UNCHANGED <<vars, call, reply, doc>>

(* Mutant: with nothing linked it returns Ok and writes no empty corpus. *)
ReindexUnlessEmpty(b) ==
    /\ Cardinality(InFlight) < MaxInFlight
    /\ call' = [call EXCEPT ![b] = [corpus |-> linked,
                                    generatedAt |-> Cardinality(Called) + 1,
                                    docs |-> FALSE]]
    /\ IF linked # {}
       THEN Begin(b) /\ UNCHANGED reply
       ELSE /\ phase[b] = "idle"
            /\ phase' = [phase EXCEPT ![b] = "stopped"]
            /\ reply' = [reply EXCEPT ![b] = "ok"]
            /\ UNCHANGED <<dirVars, target, loadVars>>
    /\ UNCHANGED <<linked, doc>>

(* The links and now_unix_ms are arguments, read when the call is made. *)
Reindex(b) ==
    /\ Cardinality(InFlight) < MaxInFlight
    /\ Begin(b)
    /\ \E docs \in BOOLEAN :
           call' = [call EXCEPT ![b] = [corpus |-> linked,
                                        generatedAt |-> Cardinality(Called) + 1,
                                        docs |-> docs]]
    /\ UNCHANGED <<linked, reply, doc>>

Publish(b) ==
    /\ WriteStep(b)
    /\ UNCHANGED reindexVars

(* Mutant: the caller gives up on a build that goes on. *)
AbandonBuild(b) ==
    /\ phase[b] \in {"open", "fill", "rename"}
    /\ reply' = [reply EXCEPT ![b] = "err"]
    /\ UNCHANGED <<vars, linked, call, doc>>

(* The scan or a step of build_index fails. *)
FailBuild(b) ==
    /\ Stop(b)
    /\ reply' = [reply EXCEPT ![b] = "err"]
    /\ UNCHANGED <<linked, call, doc>>

DocsWanted(b) == call[b].docs /\ call[b].corpus # {}

ReturnWithoutDocs(b) ==
    /\ phase[b] = "ok" /\ reply[b] = "none" /\ ~DocsWanted(b)
    /\ reply' = [reply EXCEPT ![b] = "ok"]
    /\ UNCHANGED <<vars, linked, call, doc>>

(* Mutant: the documentation does not wait for the index. *)
OpenDocsEarly(b) ==
    /\ phase[b] # "idle" /\ reply[b] = "none" /\ DocsWanted(b)
    /\ doc' = "torn"
    /\ reply' = [reply EXCEPT ![b] = "docs"]
    /\ UNCHANGED <<vars, linked, call>>

(* intents.md is written in place: truncated, then filled. *)
OpenDocs(b) ==
    /\ phase[b] = "ok" /\ reply[b] = "none" /\ DocsWanted(b)
    /\ doc' = "torn"
    /\ reply' = [reply EXCEPT ![b] = "docs"]
    /\ UNCHANGED <<vars, linked, call>>

FillDocs(b) ==
    /\ reply[b] = "docs"
    /\ doc' = b
    /\ reply' = [reply EXCEPT ![b] = "ok"]
    /\ UNCHANGED <<vars, linked, call>>

FailDocs(b) ==
    /\ phase[b] = "ok" /\ reply[b] \in {"none", "docs"} /\ DocsWanted(b)
    /\ reply' = [reply EXCEPT ![b] = "err"]
    /\ UNCHANGED <<vars, linked, call, doc>>

WriteDocs(b) == ReturnWithoutDocs(b) \/ OpenDocs(b) \/ FillDocs(b)

ReindexNext ==
    \/ \E p \in Packs : Relink(p)
    \/ \E b \in Builds :
        Reindex(b) \/ Publish(b) \/ FailBuild(b) \/ WriteDocs(b) \/ FailDocs(b)

ReindexSpec == ReindexInit /\ [][ReindexNext]_allVars

-----------------------------------------------------------------------------
ReindexTypeOK ==
    /\ TypeOK
    /\ linked \subseteq Packs
    /\ call \in [Builds -> [corpus : SUBSET Packs, generatedAt : Nat, docs : BOOLEAN]]
    /\ reply \in [Builds -> {"none", "docs", "ok", "err"}]
    /\ doc \in Builds \cup {"absent", "torn"}

(* The packs whose flows a load of the endpoint's index can return. *)
Served ==
    IF file["latest"] = "pointer" THEN call[file["index.json"]].corpus ELSE {}

(* The link/unlink eviction story: a pack that a successful reindex left   *)
(* out is served again only by a later reindex that admitted it.           *)
StaleRoutesEvicted ==
    \A b \in Builds : reply[b] = "ok" =>
        \A p \in Served \ call[b].corpus :
            \E c \in Builds : /\ call[c].generatedAt > call[b].generatedAt
                              /\ p \in call[c].corpus

(* What is served changes only to the corpus of a reindex still running: a *)
(* failed one is never published after it returned Err.                    *)
ServesTheRunningReindex ==
    [][Served' # Served => \E b \in InFlight : Served' = call[b].corpus]_allVars

(* intents.md is never ahead of the index: it describes a corpus that is   *)
(* or was published.                                                       *)
DocsDescribePublished ==
    doc \in Builds =>
        /\ file["latest"] = "pointer"
        /\ call[doc].generatedAt <= call[file["index.json"]].generatedAt
=============================================================================
