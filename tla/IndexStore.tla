---------------------------- MODULE IndexStore ----------------------------
(***************************************************************************)
(* The index directory of one scope (crates/fast2flow-indexer): the files  *)
(* index.json and latest, the builds that replace them (build_index,       *)
(* write_manifest) and the loads that read them (load_latest).  Builds and *)
(* loads run in processes of their own, with no lock between them, and a   *)
(* build can fail or be killed between any two of its system calls.        *)
(* Scopes have disjoint directories, so one directory is enough.           *)
(***************************************************************************)
CONSTANTS
    Builds,     \* calls of build_index, each with a manifest of its own
    Loads,      \* callers of load_latest
    Tags,       \* the "<pid>.<nanos>" part of temporary file names
    TagOf       \* the tag that each build draws

Names == {"index.json", "latest"}

(* unique_tmp_path: no two builds draw the same process id and time. *)
ASSUME TagsDistinct ==
    /\ TagOf \in [Builds -> Tags]
    /\ \A b, c \in Builds : TagOf[b] = TagOf[c] => b = c

ASSUME BuildsAreValues == Builds \cap {"absent", "torn", "pointer", "pending"} = {}

VARIABLES
    file,       \* what index.json and latest hold
    tmp,        \* what the temporary files of each tag hold
    phase,      \* where each build is in write_manifest
    target,     \* the file each build is replacing
    step,       \* where each load is in load_latest
    seen        \* the manifest that a load returned

dirVars == <<file, tmp>>
buildVars == <<phase, target>>
loadVars == <<step, seen>>
vars == <<file, tmp, phase, target, step, seen>>

(* A whole manifest is named by the build that made it; "torn" is a file   *)
(* that was opened for writing and does not hold its content yet, and      *)
(* "pointer" is the line "index.json" of the file latest.                  *)
ContentOf(n) ==
    {"absent", "torn"} \cup IF n = "index.json" THEN Builds ELSE {"pointer"}

Content == UNION {ContentOf(n) : n \in Names}

Init ==
    /\ file = [n \in Names |-> "absent"]
    /\ tmp = [t \in Tags |-> [n \in Names |-> "absent"]]
    /\ phase = [b \in Builds |-> "idle"]
    /\ target = [b \in Builds |-> "index.json"]
    /\ step = [l \in Loads |-> "idle"]
    /\ seen = [l \in Loads |-> "absent"]

-----------------------------------------------------------------------------
(* write_manifest *)

(* Mutant: latest is written as a copy of the manifest, not as its name. *)
PayloadCopied(b, n) == b

Payload(b, n) == IF n = "index.json" THEN b ELSE "pointer"

(* Mutant: a build first removes what an earlier one published. *)
BeginClean(b) ==
    /\ phase[b] = "idle"
    /\ phase' = [phase EXCEPT ![b] = "open"]
    /\ file' = [n \in Names |-> "absent"]
    /\ UNCHANGED <<tmp, target, loadVars>>

(* The scope is valid and its directory exists from here on. *)
Begin(b) ==
    /\ phase[b] = "idle"
    /\ phase' = [phase EXCEPT ![b] = "open"]
    /\ UNCHANGED <<dirVars, target, loadVars>>

(* Mutant: the final file is opened for writing in place. *)
OpenInPlace(b) ==
    /\ phase[b] = "open"
    /\ file' = [file EXCEPT ![target[b]] = "torn"]
    /\ phase' = [phase EXCEPT ![b] = "fill"]
    /\ UNCHANGED <<tmp, target, loadVars>>

(* fs::write is two steps: it creates or truncates the file, and fills it. *)
OpenTmp(b) ==
    /\ phase[b] = "open"
    /\ tmp' = [tmp EXCEPT ![TagOf[b]][target[b]] = "torn"]
    /\ phase' = [phase EXCEPT ![b] = "fill"]
    /\ UNCHANGED <<file, target, loadVars>>

FillTmp(b) ==
    /\ phase[b] = "fill"
    /\ tmp' = [tmp EXCEPT ![TagOf[b]][target[b]] = Payload(b, target[b])]
    /\ phase' = [phase EXCEPT ![b] = "rename"]
    /\ UNCHANGED <<file, target, loadVars>>

(* Mutant: Ok as soon as index.json is in place. *)
AfterFirstRename(b) == "ok"

(* Mutant: a failed rename does not end the build. *)
RenameUnchecked(b) ==
    /\ phase[b] = "rename"
    /\ \/ file' = [file EXCEPT ![target[b]] = tmp[TagOf[b]][target[b]]]
       \/ UNCHANGED file
    /\ tmp' = [tmp EXCEPT ![TagOf[b]][target[b]] = "absent"]
    /\ phase' = [phase EXCEPT ![b] = IF target[b] = "index.json" THEN "open" ELSE "ok"]
    /\ target' = [target EXCEPT ![b] = "latest"]
    /\ UNCHANGED loadVars

(* fs::rename is atomic.  index.json is replaced before latest. *)
AfterRename(b) == IF target[b] = "index.json" THEN "open" ELSE "ok"

Rename(b) ==
    /\ phase[b] = "rename"
    /\ file' = [file EXCEPT ![target[b]] = tmp[TagOf[b]][target[b]]]
    /\ tmp' = [tmp EXCEPT ![TagOf[b]][target[b]] = "absent"]
    /\ phase' = [phase EXCEPT ![b] = AfterRename(b)]
    /\ target' = [target EXCEPT ![b] = "latest"]
    /\ UNCHANGED loadVars

(* Mutant: a failed build removes the file that it was replacing. *)
StopAndClean(b) ==
    /\ phase[b] \in {"open", "fill", "rename"}
    /\ phase' = [phase EXCEPT ![b] = "stopped"]
    /\ file' = [file EXCEPT ![target[b]] = "absent"]
    /\ UNCHANGED <<tmp, target, loadVars>>

(* A step fails and build_index returns Err, or the process is killed: all *)
(* that it wrote stays, its temporary files too.                           *)
Stop(b) ==
    /\ phase[b] \in {"open", "fill", "rename"}
    /\ phase' = [phase EXCEPT ![b] = "stopped"]
    /\ UNCHANGED <<dirVars, target, loadVars>>

-----------------------------------------------------------------------------
(* load_latest *)

(* A latest that cannot be read, or is torn, names no file that can. *)
ReadLatest(l) ==
    /\ step[l] = "idle"
    /\ step' = [step EXCEPT ![l] =
                    IF file["latest"] = "pointer" THEN "named" ELSE "miss"]
    /\ UNCHANGED <<dirVars, buildVars, seen>>

(* fs::read holds one file open, so a rename meanwhile does not disturb it; *)
(* parse_manifest rejects a manifest that is not whole.                     *)
ReadIndex(l) ==
    /\ step[l] = "named"
    /\ \/ /\ file["index.json"] \in Builds
          /\ step' = [step EXCEPT ![l] = "hit"]
          /\ seen' = [seen EXCEPT ![l] = file["index.json"]]
       \/ /\ file["index.json"] \notin Builds
          /\ step' = [step EXCEPT ![l] = "miss"]
          /\ UNCHANGED seen
    /\ UNCHANGED <<dirVars, buildVars>>

(* The caller of load_latest has its result, and will call it again. *)
Reload(l) ==
    /\ step[l] \in {"hit", "miss"}
    /\ step' = [step EXCEPT ![l] = "idle"]
    /\ seen' = [seen EXCEPT ![l] = "absent"]
    /\ UNCHANGED <<dirVars, buildVars>>

-----------------------------------------------------------------------------
WriteStep(b) == OpenTmp(b) \/ FillTmp(b) \/ Rename(b)
LoadStep(l) == ReadLatest(l) \/ ReadIndex(l) \/ Reload(l)

Next ==
    \/ \E b \in Builds : Begin(b) \/ WriteStep(b) \/ Stop(b)
    \/ \E l \in Loads : LoadStep(l)

Spec == Init /\ [][Next]_vars

(* A process that runs takes its next step; callers keep loading. *)
FairSpec ==
    /\ Spec
    /\ \A b \in Builds : WF_vars(WriteStep(b))
    /\ \A l \in Loads : WF_vars(LoadStep(l))

-----------------------------------------------------------------------------
TypeOK ==
    /\ file \in [Names -> Content]
    /\ tmp \in [Tags -> [Names -> Content]]
    /\ \A n \in Names : /\ file[n] \in ContentOf(n)
                       /\ \A t \in Tags : tmp[t][n] \in ContentOf(n)
    /\ phase \in [Builds -> {"idle", "open", "fill", "rename", "ok", "stopped"}]
    /\ target \in [Builds -> Names]
    /\ step \in [Loads -> {"idle", "named", "hit", "miss"}]
    /\ seen \in [Loads -> Builds \cup {"absent"}]

(* No reader ever finds a half-written file under a final name, whatever   *)
(* builds failed or were killed: the point of write_manifest's temporary   *)
(* files and renames.                                                      *)
PublishedWhole ==
    /\ file["index.json"] \in Builds \cup {"absent"}
    /\ file["latest"] \in {"pointer", "absent"}

(* latest never dangles: write_manifest replaces index.json before it.     *)
LatestNamesManifest ==
    file["latest"] = "pointer" => file["index.json"] \in Builds

(* load_latest can fail only by finding no latest: having read it, the     *)
(* second read succeeds, and once any build has returned Ok no load fails. *)
MissOnlyBeforePublication ==
    [][\A l \in Loads : step[l] # "miss" /\ step'[l] = "miss"
            => file["latest"] = "absent" /\ \A b \in Builds : phase[b] # "ok"]_vars

(* Once a build has returned Ok, a caller of load_latest gets a manifest.  *)
ServedAfterOk ==
    \A b \in Builds, l \in Loads :
        phase[b] = "ok" /\ step[l] = "idle" ~> step[l] = "hit"

(* To those who load it the directory is an atomic register: two reads,    *)
(* two renames and any failure look like one write and one read.           *)
Register == INSTANCE IndexRegister WITH
    submitted <- {b \in Builds : phase[b] # "idle"},
    current <- IF file["latest"] = "pointer" THEN file["index.json"] ELSE "absent",
    answer <- [l \in Loads |->
                  IF step[l] \in {"hit", "miss"} THEN seen[l] ELSE "pending"]

ImplementsRegister == Register!RegSpec
=============================================================================
