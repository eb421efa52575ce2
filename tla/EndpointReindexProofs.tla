------------------------ MODULE EndpointReindexProofs ------------------------
(***************************************************************************)
(* What reindexing an endpoint promises for any number of reindexes, packs *)
(* and loads: its types, and, if the caller waits for one reindex before   *)
(* it starts the next, that what it publishes is never older than what was *)
(* published before.  Every step of it is a step of the index directory,   *)
(* so what IndexStoreProofs shows of that is used as it is.                *)
(***************************************************************************)
EXTENDS EndpointReindex, IndexStoreProofs, FiniteSetTheorems

(* Steps of the directory are the builds of the reindexes, and the loads    *)
(* of those who route with its index.                                      *)
Load(l) == LoadStep(l) /\ UNCHANGED reindexVars

ReindexOrLoad == ReindexNext \/ \E l \in Loads : Load(l)

(* The types of the variables that the directory does not have. *)
CallsTypeOK ==
    /\ linked \subseteq Packs
    /\ call \in [Builds -> [corpus : SUBSET Packs, generatedAt : Nat, docs : BOOLEAN]]
    /\ reply \in [Builds -> {"none", "docs", "ok", "err"}]
    /\ doc \in Builds \cup {"absent", "torn"}

CallsInv == CallsTypeOK /\ IsFiniteSet(Called)

(* How far a build has come, and what its caller has been told of it.      *)
ReplyFollowsPhase ==
    \A b \in Builds :
        /\ phase[b] \in {"idle", "open", "fill", "rename"} => reply[b] = "none"
        /\ phase[b] = "stopped" => reply[b] = "err"
        /\ reply[b] \in {"docs", "ok"} => phase[b] = "ok"
        /\ phase[b] = "idle" => target[b] = "index.json"
        /\ phase[b] = "ok" => target[b] = "latest"

(* Calls are dated in the order in which they are made. *)
DatedWhenCalled == \A b \in Called : call[b].generatedAt \in 1 .. Cardinality(Called)

(* A reindex that runs is newer than all others. *)
RunningIsNewest ==
    \A b \in InFlight, c \in Called :
        b # c => call[c].generatedAt < call[b].generatedAt

(* A build that has put its index.json in place finds there its own or a   *)
(* newer one from then on.                                                 *)
NeverReplacedByOlder ==
    \A b \in Builds : target[b] = "latest" =>
        \/ file["index.json"] = b
        \/ call[file["index.json"]].generatedAt > call[b].generatedAt

(* intents.md is written after the index of the same reindex. *)
DocsAfterIndex == doc \in Builds => phase[doc] = "ok"

SerialInv ==
    /\ ReplyFollowsPhase
    /\ DatedWhenCalled
    /\ RunningIsNewest
    /\ NeverReplacedByOlder
    /\ DocsAfterIndex

-----------------------------------------------------------------------------
(* A step of the endpoint, or of a load, is a step of its directory. *)
LEMMA DirectoryStep == [ReindexOrLoad]_allVars => [Next]_vars
<1> SUFFICES ASSUME [ReindexOrLoad]_allVars PROVE [Next]_vars
  OBVIOUS
<1>1. ASSUME NEW b \in Builds, Reindex(b) PROVE Next
  BY <1>1 DEF Reindex, Next
<1>2. ASSUME NEW b \in Builds, Publish(b) PROVE Next
  BY <1>2 DEF Publish, Next
<1>3. ASSUME NEW b \in Builds, FailBuild(b) PROVE Next
  BY <1>3 DEF FailBuild, Next
<1>4. ASSUME NEW p \in Packs, Relink(p) PROVE UNCHANGED vars
  BY <1>4 DEF Relink
<1>5. ASSUME NEW b \in Builds, WriteDocs(b) \/ FailDocs(b) PROVE UNCHANGED vars
  BY <1>5 DEF WriteDocs, ReturnWithoutDocs, OpenDocs, FillDocs, FailDocs
<1>6. ASSUME NEW l \in Loads, Load(l) PROVE Next
  BY <1>6 DEF Load, Next
<1>7. CASE UNCHANGED allVars
  BY <1>7 DEF allVars
<1>8. QED
  BY <1>1, <1>2, <1>3, <1>4, <1>5, <1>6, <1>7 DEF ReindexOrLoad, ReindexNext

(* Reindexing an endpoint implements the directory of its scope.           *)
THEOREM ReindexIsADirectory == ReindexSpec => Spec
<1>1. ReindexInit => Init
  BY DEF ReindexInit
<1>2. [ReindexNext]_allVars => [Next]_vars
  BY DirectoryStep DEF ReindexOrLoad
<1>3. QED
  BY <1>1, <1>2, PTL DEF ReindexSpec, Spec

(* An endpoint with its readers: links, reindexes and any number of loads   *)
(* at once, each a step at a time, as handle_hook_from_mounts loads the     *)
(* index that index_bundle_for_endpoint publishes.                          *)
ServedSpec == ReindexInit /\ [][ReindexOrLoad]_allVars

(* To its readers the index of an endpoint is an atomic register: each load *)
(* takes the corpus of one whole reindex, the last that was published at    *)
(* one moment between the start and the end of the load, or misses because  *)
(* nothing had been published, whatever links and reindexes do meanwhile    *)
(* and wherever they fail.                                                  *)
THEOREM ReindexIsARegister == ServedSpec => ImplementsRegister
<1>1. ReindexInit => Init
  BY DEF ReindexInit
<1>2. ServedSpec => Spec
  BY <1>1, DirectoryStep, PTL DEF ServedSpec, Spec
<1>3. QED
  BY <1>2, Implementation

-----------------------------------------------------------------------------
(* What a call changes: it is new, and dated after all others. *)
LEMMA CallStep ==
    ASSUME TypeOK, CallsInv, NEW b \in Builds, Reindex(b)
    PROVE  /\ b \notin Called
           /\ Called' = Called \cup {b}
           /\ Cardinality(Called) \in Nat
           /\ IsFiniteSet(Called') /\ Cardinality(Called') = Cardinality(Called) + 1
           /\ call'[b] \in [corpus : SUBSET Packs, generatedAt : Nat, docs : BOOLEAN]
           /\ call' = [call EXCEPT ![b] = call'[b]]
           /\ call'[b].generatedAt = Cardinality(Called) + 1
           /\ phase' = [phase EXCEPT ![b] = "open"]
           /\ UNCHANGED <<file, target, reply, doc, linked>>
<1> USE DEF TypeOK, CallsInv, CallsTypeOK
<1>1. /\ phase[b] = "idle" /\ phase' = [phase EXCEPT ![b] = "open"]
      /\ UNCHANGED <<file, target, reply, doc, linked>>
  BY DEF Reindex, Begin, dirVars
<1>2. b \notin Called /\ Called' = Called \cup {b}
  BY <1>1 DEF Called
<1>3. Cardinality(Called) \in Nat /\ IsFiniteSet(Called') /\ Cardinality(Called') = Cardinality(Called) + 1
  BY <1>2, FS_CardinalityType, FS_AddElement
<1>4. PICK docs \in BOOLEAN :
        call' = [call EXCEPT ![b] = [corpus |-> linked, generatedAt |-> Cardinality(Called) + 1,
                                     docs |-> docs]]
  BY DEF Reindex
<1>5. QED
  BY <1>1, <1>2, <1>3, <1>4

(* All other steps leave the calls as they are. *)
LEMMA SameCalls ==
    ASSUME TypeOK, [ReindexOrLoad]_allVars, \A b \in Builds : ~Reindex(b)
    PROVE  call' = call /\ Called' = Called
<1> USE DEF TypeOK, Called
<1>1. ASSUME NEW b \in Builds, Publish(b) PROVE call' = call /\ Called' = Called
  BY <1>1 DEF Publish, reindexVars, WriteStep, OpenTmp, FillTmp, Rename, AfterRename
<1>2. ASSUME NEW b \in Builds, FailBuild(b) PROVE call' = call /\ Called' = Called
  BY <1>2 DEF FailBuild, Stop
<1>3. ASSUME NEW p \in Packs, Relink(p) PROVE call' = call /\ Called' = Called
  BY <1>3 DEF Relink, vars
<1>4. ASSUME NEW b \in Builds, WriteDocs(b) \/ FailDocs(b) PROVE call' = call /\ Called' = Called
  BY <1>4 DEF WriteDocs, ReturnWithoutDocs, OpenDocs, FillDocs, FailDocs, vars
<1>5. ASSUME NEW l \in Loads, Load(l) PROVE call' = call /\ Called' = Called
  BY <1>5 DEF Load, LoadStep, ReadLatest, ReadIndex, Reload, buildVars, reindexVars
<1>6. CASE UNCHANGED allVars
  BY <1>6 DEF allVars, vars, reindexVars
<1>7. QED
  BY <1>1, <1>2, <1>3, <1>4, <1>5, <1>6 DEF ReindexOrLoad, ReindexNext

LEMMA CallsStep ==
    ASSUME TypeOK, CallsInv, [ReindexOrLoad]_allVars
    PROVE  CallsInv'
<1>1. ASSUME NEW b \in Builds, Reindex(b) PROVE CallsInv'
  BY <1>1, CallStep DEF CallsInv, CallsTypeOK
<1>2. ASSUME \A b \in Builds : ~Reindex(b) PROVE CallsInv'
  <2>1. call' = call /\ IsFiniteSet(Called')
    BY <1>2, SameCalls DEF CallsInv
  <2>2. linked' \subseteq Packs /\ doc' \in Builds \cup {"absent", "torn"}
        /\ reply' \in [Builds -> {"none", "docs", "ok", "err"}]
    BY <1>2 DEF CallsInv, CallsTypeOK, ReindexOrLoad, ReindexNext, Relink, Publish, FailBuild, WriteDocs,
        ReturnWithoutDocs, OpenDocs, FillDocs, FailDocs, Load, allVars, reindexVars
  <2>3. QED
    BY <2>1, <2>2 DEF CallsInv, CallsTypeOK
<1>3. QED
  BY <1>1, <1>2

LEMMA CallsInit == ReindexInit => CallsInv
<1> SUFFICES ASSUME ReindexInit PROVE CallsInv
  OBVIOUS
<1>1. Called = {}
  BY DEF ReindexInit, Init, Called
<1>2. CallsTypeOK
  BY DEF ReindexInit, CallsTypeOK
<1>3. QED
  BY <1>1, <1>2, FS_EmptySet DEF CallsInv

LEMMA CallsInvariance == ReindexSpec => [](TypeOK /\ CallsInv)
<1>1. ReindexInit => CallsInv
  BY CallsInit
<1>2. TypeOK /\ CallsInv /\ [ReindexNext]_allVars => CallsInv'
  BY CallsStep DEF ReindexOrLoad
<1>3. QED
  BY <1>1, <1>2, ReindexIsADirectory, TypeCorrect, PTL DEF ReindexSpec

(* Every state is of its type, with any number of reindexes in flight.     *)
THEOREM ReindexTypeCorrect == ReindexSpec => []ReindexTypeOK
<1>1. TypeOK /\ CallsInv => ReindexTypeOK
  BY DEF CallsInv, CallsTypeOK, ReindexTypeOK
<1>2. QED
  BY <1>1, CallsInvariance, PTL

-----------------------------------------------------------------------------
LEMMA SerialInit == ReindexInit => SerialInv
<1> SUFFICES ASSUME ReindexInit PROVE SerialInv
  OBVIOUS
<1> USE BuildsAreValues DEF ReindexInit, Init
<1>1. Called = {}
  BY DEF Called
<1>2. ReplyFollowsPhase /\ NeverReplacedByOlder /\ DocsAfterIndex
  BY DEF ReplyFollowsPhase, NeverReplacedByOlder, DocsAfterIndex
<1>3. DatedWhenCalled /\ RunningIsNewest
  BY <1>1 DEF DatedWhenCalled, RunningIsNewest, InFlight
<1>4. QED
  BY <1>2, <1>3 DEF SerialInv

(* A call is made when nothing runs, so that it is the newest, and the     *)
(* only one that runs.                                                     *)
LEMMA SerialCall ==
    ASSUME MaxInFlight = 1, IInv, CallsInv, SerialInv, NEW b \in Builds, Reindex(b)
    PROVE  SerialInv'
<1> USE DEF IInv, TypeOK, CallsInv, CallsTypeOK, SerialInv
<1>1. /\ b \notin Called /\ Called' = Called \cup {b}
      /\ Cardinality(Called) \in Nat /\ Cardinality(Called') = Cardinality(Called) + 1
      /\ call' = [call EXCEPT ![b] = call'[b]]
      /\ call'[b].generatedAt = Cardinality(Called) + 1
      /\ phase' = [phase EXCEPT ![b] = "open"]
      /\ UNCHANGED <<file, target, reply, doc>>
  BY CallStep
<1>2. phase[b] = "idle" /\ \A c \in Called : c # b /\ c \in Builds
  BY <1>1 DEF Called
<1>3. InFlight = {}
  <2>1. InFlight \subseteq Called
    BY DEF InFlight
  <2>2. IsFiniteSet(InFlight) /\ Cardinality(InFlight) \in Nat /\ Cardinality(InFlight) < 1
    BY <2>1, FS_Subset, FS_CardinalityType DEF Reindex
  <2>3. QED
    BY <2>2, FS_EmptySet
<1>4. ReplyFollowsPhase'
  BY <1>1, <1>2 DEF ReplyFollowsPhase
<1>5. \A c \in Called : call'[c] = call[c] /\ call[c].generatedAt \in 1 .. Cardinality(Called)
  BY <1>1, <1>2 DEF DatedWhenCalled
<1>6. DatedWhenCalled'
  BY <1>1, <1>5 DEF DatedWhenCalled
<1>7. RunningIsNewest'
  <2>1. InFlight' = {b}
    BY <1>1, <1>2, <1>3, <1>4 DEF InFlight, ReplyFollowsPhase
  <2>2. QED
    BY <1>1, <1>5, <2>1 DEF RunningIsNewest
<1>8. NeverReplacedByOlder'
  <2> SUFFICES ASSUME NEW c \in Builds, target[c] = "latest"
               PROVE  \/ file["index.json"] = c
                      \/ call'[file["index.json"]].generatedAt > call'[c].generatedAt
    BY <1>1 DEF NeverReplacedByOlder
  <2>1. c \in Called
    BY DEF ReplyFollowsPhase, Called
  <2>2. file["index.json"] \in Called
    BY DEF IBody, IndexBeforeLatest, FromABuild, Called
  <2>3. QED
    BY <1>5, <2>1, <2>2 DEF NeverReplacedByOlder
<1>9. DocsAfterIndex'
  BY <1>1, <1>2 DEF DocsAfterIndex
<1>10. QED
  BY <1>4, <1>6, <1>7, <1>8, <1>9

(* What a step keeps that makes no call and publishes nothing. *)
LEMMA SerialKept ==
    ASSUME TypeOK, SerialInv, UNCHANGED <<call, target>>, Called' = Called,
           InFlight' \subseteq InFlight,
           file'["index.json"] = file["index.json"]
    PROVE  DatedWhenCalled' /\ RunningIsNewest' /\ NeverReplacedByOlder'
BY DEF SerialInv, DatedWhenCalled, RunningIsNewest, NeverReplacedByOlder

(* A build publishes while it runs, and so when it is the newest. *)
LEMMA SerialRename ==
    ASSUME IInv, IInv', CallsInv, SerialInv, NEW b \in Builds, Rename(b), UNCHANGED reindexVars
    PROVE  SerialInv'
<1> USE DEF IInv, TypeOK, IBody, SerialInv, reindexVars
<1>1. /\ phase[b] = "rename" /\ phase' = [phase EXCEPT ![b] = AfterRename(b)]
      /\ target' = [target EXCEPT ![b] = "latest"]
      /\ file' = [file EXCEPT ![target[b]] = Payload(b, target[b])]
  BY DEF Rename, TmpFilled
<1>2. reply[b] = "none" /\ b \in InFlight
  BY <1>1 DEF ReplyFollowsPhase, InFlight, Called
<1>3. ReplyFollowsPhase'
  BY <1>1, <1>2 DEF ReplyFollowsPhase, AfterRename
<1>4. Called' = Called /\ InFlight' = InFlight
  BY <1>1 DEF Called, InFlight, AfterRename
<1>5. DatedWhenCalled' /\ RunningIsNewest'
  BY <1>4 DEF DatedWhenCalled, RunningIsNewest
<1>6. NeverReplacedByOlder'
  <2>1. CASE target[b] = "index.json"
    <3>1. file'["index.json"] = b
      BY <1>1, <2>1 DEF Payload
    <3>2. \A c \in Builds : target'[c] = "latest" => c = b \/ c \in Called
      BY <1>1 DEF ReplyFollowsPhase, Called
    <3>3. QED
      BY <1>2, <3>1, <3>2 DEF RunningIsNewest, NeverReplacedByOlder
  <2>2. CASE target[b] = "latest"
    <3>1. file'["index.json"] = file["index.json"] /\ target' = target
      BY <1>1, <2>2
    <3>2. QED
      BY <3>1 DEF NeverReplacedByOlder
  <2>3. QED
    BY <2>1, <2>2 DEF Names
<1>7. DocsAfterIndex'
  BY <1>1 DEF DocsAfterIndex
<1>8. QED
  BY <1>3, <1>5, <1>6, <1>7

LEMMA SerialStep ==
    ASSUME MaxInFlight = 1, IInv, IInv', CallsInv, SerialInv, [ReindexOrLoad]_allVars
    PROVE  SerialInv'
<1> USE DEF IInv, TypeOK, CallsInv, CallsTypeOK, SerialInv
<1>1. CASE \E b \in Builds : Reindex(b)
  BY <1>1, SerialCall
<1>2. CASE \A b \in Builds : ~Reindex(b)
  <2>1. call' = call /\ Called' = Called
    BY <1>2, SameCalls
  <2>2. ASSUME NEW b \in Builds, Publish(b) PROVE SerialInv'
    <3>1. CASE Rename(b)
      BY <2>2, <3>1, SerialRename DEF Publish
    <3>2. CASE OpenTmp(b) \/ FillTmp(b)
      <4>1. /\ phase[b] \in {"open", "fill"} /\ phase'[b] \in {"fill", "rename"}
            /\ phase' = [phase EXCEPT ![b] = phase'[b]]
            /\ UNCHANGED <<file, target, reply, doc, call>>
        BY <2>2, <3>2 DEF Publish, OpenTmp, FillTmp, reindexVars
      <4>2. ReplyFollowsPhase' /\ DocsAfterIndex'
        BY <4>1 DEF ReplyFollowsPhase, DocsAfterIndex
      <4>3. InFlight' = InFlight
        BY <2>1, <4>1 DEF InFlight
      <4>4. QED
        BY <2>1, <4>1, <4>2, <4>3, SerialKept
    <3>3. QED
      BY <2>2, <3>1, <3>2 DEF Publish, WriteStep
  <2>3. ASSUME NEW b \in Builds, FailBuild(b) PROVE SerialInv'
    <3>1. /\ phase[b] \in {"open", "fill", "rename"} /\ phase' = [phase EXCEPT ![b] = "stopped"]
          /\ reply' = [reply EXCEPT ![b] = "err"]
          /\ UNCHANGED <<file, target, doc, call>>
      BY <2>3 DEF FailBuild, Stop, dirVars
    <3>2. ReplyFollowsPhase' /\ DocsAfterIndex'
      BY <3>1 DEF ReplyFollowsPhase, DocsAfterIndex
    <3>3. InFlight' \subseteq InFlight
      BY <2>1, <3>1 DEF InFlight
    <3>4. QED
      BY <2>1, <3>1, <3>2, <3>3, SerialKept
  <2>4. ASSUME NEW b \in Builds, WriteDocs(b) \/ FailDocs(b) PROVE SerialInv'
    <3>1. /\ phase[b] = "ok" /\ reply[b] \in {"none", "docs"}
          /\ reply' = [reply EXCEPT ![b] = reply'[b]] /\ reply'[b] \in {"docs", "ok", "err"}
          /\ doc' \in {doc, b, "torn"}
          /\ UNCHANGED <<file, phase, target, call>>
      BY <2>4 DEF WriteDocs, ReturnWithoutDocs, OpenDocs, FillDocs, FailDocs, vars, ReplyFollowsPhase
    <3>2. ReplyFollowsPhase' /\ DocsAfterIndex'
      BY <3>1, BuildsAreValues DEF ReplyFollowsPhase, DocsAfterIndex
    <3>3. InFlight' \subseteq InFlight
      <4>1. b \in InFlight
        BY <3>1 DEF InFlight, Called
      <4>2. \A c \in Builds : c # b => reply'[c] = reply[c]
        BY <3>1
      <4>3. QED
        BY <2>1, <4>1, <4>2 DEF InFlight, Called
    <3>4. QED
      BY <2>1, <3>1, <3>2, <3>3, SerialKept
  <2>5. CASE UNCHANGED <<file, phase, target, reply, doc>>
    <3>1. ReplyFollowsPhase' /\ DocsAfterIndex'
      BY <2>5 DEF ReplyFollowsPhase, DocsAfterIndex
    <3>2. InFlight' = InFlight
      BY <2>1, <2>5 DEF InFlight
    <3>3. QED
      BY <2>1, <2>5, <3>1, <3>2, SerialKept
  <2>6. ASSUME NEW l \in Loads, Load(l) PROVE SerialInv'
    BY <2>5, <2>6 DEF Load, LoadStep, ReadLatest, ReadIndex, Reload, dirVars, buildVars, reindexVars
  <2>7. QED
    BY <1>2, <2>2, <2>3, <2>4, <2>5, <2>6
       DEF ReindexOrLoad, ReindexNext, Relink, vars, allVars, reindexVars
<1>3. QED
  BY <1>1, <1>2

(* Reindexes of one endpoint, one after the other: the invariant holds.    *)
THEOREM SerialInvariance ==
    ASSUME MaxInFlight = 1
    PROVE  ReindexSpec => [](IInv /\ CallsInv /\ SerialInv)
<1>1. ReindexInit => SerialInv
  BY SerialInit
<1>2. IInv /\ IInv' /\ CallsInv /\ SerialInv /\ [ReindexNext]_allVars => SerialInv'
  BY SerialStep DEF ReindexOrLoad
<1>3. QED
  BY <1>1, <1>2, CallsInvariance, ReindexIsADirectory, Invariance, PTL DEF ReindexSpec

-----------------------------------------------------------------------------
(* A pack that a successful reindex left out is served again only by a     *)
(* later reindex that admitted it, if reindexes come one after the other.  *)
THEOREM EvictionHolds ==
    ASSUME MaxInFlight = 1
    PROVE  ReindexSpec => []StaleRoutesEvicted
<1>1. IInv /\ SerialInv => StaleRoutesEvicted
  <2> SUFFICES ASSUME IInv, SerialInv, NEW b \in Builds, reply[b] = "ok",
                      NEW p \in Served, p \notin call[b].corpus
               PROVE  \E c \in Builds : /\ call[c].generatedAt > call[b].generatedAt
                                        /\ p \in call[c].corpus
    BY DEF StaleRoutesEvicted
  <2> DEFINE served == file["index.json"]
  <2>1. target[b] = "latest" /\ file["latest"] = "pointer"
    BY DEF SerialInv, ReplyFollowsPhase, IInv, IBody, LatestStays
  <2>2. served \in Builds /\ p \in call[served].corpus
    BY <2>1 DEF Served, IInv, IBody, LatestNamesManifest
  <2>3. call[served].generatedAt > call[b].generatedAt
    BY <2>1, <2>2 DEF SerialInv, NeverReplacedByOlder
  <2>4. QED
    BY <2>2, <2>3
<1>2. QED
  BY <1>1, SerialInvariance, PTL

(* intents.md describes no corpus that is newer than the published one. *)
THEOREM DocsNeverAhead ==
    ASSUME MaxInFlight = 1
    PROVE  ReindexSpec => []DocsDescribePublished
<1>1. IInv /\ CallsInv /\ SerialInv => DocsDescribePublished
  <2> SUFFICES ASSUME IInv, CallsInv, SerialInv, doc \in Builds
               PROVE  /\ file["latest"] = "pointer"
                      /\ call[doc].generatedAt <= call[file["index.json"]].generatedAt
    BY DEF DocsDescribePublished
  <2>1. target[doc] = "latest" /\ file["latest"] = "pointer"
    BY DEF SerialInv, DocsAfterIndex, ReplyFollowsPhase, IInv, IBody, LatestStays
  <2>2. file["index.json"] \in Builds
    BY <2>1 DEF IInv, IBody, LatestNamesManifest
  <2>3. QED
    BY <2>1, <2>2 DEF SerialInv, NeverReplacedByOlder, CallsInv, CallsTypeOK
<1>2. QED
  BY <1>1, SerialInvariance, PTL

(* What is served changes to the corpus of a reindex that runs: one that   *)
(* has returned Err is not published by another.                           *)
THEOREM FailedIsNeverPublished ==
    ASSUME MaxInFlight = 1
    PROVE  ReindexSpec => ServesTheRunningReindex
<1>1. ASSUME IInv, CallsInv, SerialInv, [ReindexNext]_allVars, Served' # Served
      PROVE  \E b \in InFlight : Served' = call[b].corpus
  <2> USE <1>1 DEF IInv, TypeOK, IBody, SerialInv
  <2>1. PICK b \in Builds : Publish(b) /\ Rename(b)
    <3>1. ASSUME UNCHANGED file PROVE \E c \in Builds : Reindex(c)
      BY <3>1, SameCalls DEF ReindexOrLoad, Served
    <3>2. ASSUME NEW c \in Builds, Reindex(c) PROVE Served' = Served
      <4>0. c \notin Called /\ call' = [call EXCEPT ![c] = call'[c]] /\ UNCHANGED file
        BY <3>2, CallStep
      <4>1. UNCHANGED file /\ \A d \in Called : call'[d] = call[d]
        BY <4>0 DEF CallsInv, CallsTypeOK, Called
      <4>2. file["latest"] = "pointer" => file["index.json"] \in Called
        BY DEF LatestNamesManifest, FromABuild, Called
      <4>3. QED
        BY <4>1, <4>2 DEF Served
    <3>3. ~UNCHANGED file
      BY <3>1, <3>2
    <3>4. QED
      BY <3>3 DEF ReindexNext, Relink, Reindex, Begin, Publish, WriteStep, OpenTmp, FillTmp, FailBuild,
         Stop, WriteDocs, ReturnWithoutDocs, OpenDocs, FillDocs, FailDocs, vars, dirVars, allVars
  <2>2. /\ phase[b] = "rename"
        /\ file' = [file EXCEPT ![target[b]] = Payload(b, target[b])]
        /\ call' = call
    BY <2>1 DEF Publish, Rename, TmpFilled, reindexVars
  <2>3. b \in InFlight
    BY <2>2 DEF ReplyFollowsPhase, InFlight, Called
  <2>4. CASE target[b] = "index.json"
    BY <2>2, <2>3, <2>4 DEF Served, Payload, Names
  <2>5. CASE target[b] = "latest"
    <3>1. file["index.json"] = b
      <4>1. file["index.json"] \in Called
        BY <2>5 DEF IndexBeforeLatest, FromABuild, Called
      <4>2. ~(call[file["index.json"]].generatedAt > call[b].generatedAt)
        BY <2>3, <4>1 DEF RunningIsNewest, CallsInv, CallsTypeOK, Called, InFlight
      <4>3. QED
        BY <2>5, <4>2 DEF NeverReplacedByOlder
    <3>2. file'["latest"] = "pointer" /\ file'["index.json"] = b
      BY <2>2, <2>5, <3>1 DEF Payload, Names
    <3>3. QED
      BY <2>2, <2>3, <3>2 DEF Served
  <2>6. QED
    BY <2>4, <2>5 DEF Names
<1>2. IInv /\ CallsInv /\ SerialInv /\ [ReindexNext]_allVars =>
        [Served' # Served => \E b \in InFlight : Served' = call[b].corpus]_allVars
  BY <1>1
<1>3. QED
  BY <1>2, SerialInvariance, PTL DEF ReindexSpec, ServesTheRunningReindex
=============================================================================
