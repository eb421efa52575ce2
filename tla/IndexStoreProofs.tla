------------------------- MODULE IndexStoreProofs -------------------------
(***************************************************************************)
(* What IndexStore promises for any number of builds and loads: its type   *)
(* invariant, its safety properties, and that it implements IndexRegister. *)
(***************************************************************************)
EXTENDS IndexStore, TLAPS

(* A build about to rename has the whole content in its own temporary file. *)
TmpFilled ==
    \A b \in Builds :
        phase[b] = "rename" => tmp[TagOf[b]][target[b]] = Payload(b, target[b])

(* A build turns to latest only once some index.json is in place. *)
IndexBeforeLatest ==
    \A b \in Builds : target[b] = "latest" => file["index.json"] \in Builds

(* What a build or a load has learnt of latest stays true: it is never     *)
(* taken away.                                                             *)
LatestStays ==
    /\ \A b \in Builds : phase[b] = "ok" => file["latest"] = "pointer"
    /\ \A l \in Loads : step[l] = "named" => file["latest"] = "pointer"

(* A published manifest comes from a build that began. *)
FromABuild ==
    file["index.json"] \in Builds => phase[file["index.json"]] # "idle"

(* Only a load that hit holds a manifest. *)
SeenOnHit ==
    \A l \in Loads : IF step[l] = "hit" THEN seen[l] \in Builds ELSE seen[l] = "absent"

(* The parts of the inductive invariant beyond the types: a build changes   *)
(* all but the last, a load only the last two.                              *)
IBody ==
    /\ TmpFilled
    /\ PublishedWhole
    /\ IndexBeforeLatest
    /\ LatestNamesManifest
    /\ FromABuild
    /\ LatestStays
    /\ SeenOnHit

IInv == TypeOK /\ IBody

-----------------------------------------------------------------------------
(* What one of the two files can hold is a content. *)
LEMMA ContentOfIsContent ==
    /\ \A n \in Names : ContentOf(n) \subseteq Content
    /\ \A n \in Names : "absent" \in ContentOf(n) /\ "torn" \in ContentOf(n)
BY DEF Content, ContentOf

(* The content that a build writes is one that files can have. *)
LEMMA PayloadIsContent ==
    ASSUME NEW b \in Builds, NEW n \in Names
    PROVE  /\ Payload(b, n) \in ContentOf(n)
           /\ n = "index.json" => Payload(b, n) = b
           /\ n = "latest" => Payload(b, n) = "pointer"
BY DEF Payload, ContentOf, Names

(* Every state is of its type: write_manifest and load_latest stay within  *)
(* the two names, their temporary files and their own phases.              *)
THEOREM TypeCorrect == Spec => []TypeOK
<1>1. Init => TypeOK
  BY ContentOfIsContent DEF Init, TypeOK, Names
<1>2. TypeOK /\ [Next]_vars => TypeOK'
  <2> SUFFICES ASSUME TypeOK, [Next]_vars
               PROVE  TypeOK'
    OBVIOUS
  <2> USE TagsDistinct, ContentOfIsContent DEF TypeOK
  <2>1. ASSUME NEW b \in Builds, Begin(b)
        PROVE  TypeOK'
    BY <2>1 DEF Begin, dirVars, loadVars
  <2>2. ASSUME NEW b \in Builds, OpenTmp(b)
        PROVE  TypeOK'
    BY <2>2 DEF OpenTmp, loadVars
  <2>3. ASSUME NEW b \in Builds, FillTmp(b)
        PROVE  TypeOK'
    BY <2>3, PayloadIsContent DEF FillTmp, loadVars
  <2>4. ASSUME NEW b \in Builds, Rename(b)
        PROVE  TypeOK'
    BY <2>4 DEF Rename, AfterRename, loadVars, Names
  <2>5. ASSUME NEW b \in Builds, Stop(b)
        PROVE  TypeOK'
    BY <2>5 DEF Stop, dirVars, loadVars
  <2>6. ASSUME NEW l \in Loads, ReadLatest(l)
        PROVE  TypeOK'
    BY <2>6 DEF ReadLatest, dirVars, buildVars
  <2>7. ASSUME NEW l \in Loads, ReadIndex(l)
        PROVE  TypeOK'
    BY <2>7 DEF ReadIndex, dirVars, buildVars
  <2>8. ASSUME NEW l \in Loads, Reload(l)
        PROVE  TypeOK'
    BY <2>8 DEF Reload, dirVars, buildVars
  <2>9. CASE UNCHANGED vars
    BY <2>9 DEF vars
  <2>10. QED
    BY <2>1, <2>2, <2>3, <2>4, <2>5, <2>6, <2>7, <2>8, <2>9
       DEF Next, WriteStep, LoadStep
<1>3. QED
  BY <1>1, <1>2, PTL DEF Spec

-----------------------------------------------------------------------------
LEMMA InitInvariant == Init => IBody
<1> SUFFICES ASSUME Init
             PROVE  IBody
  OBVIOUS
<1> USE BuildsAreValues DEF Init, Names
<1>1. TmpFilled /\ IndexBeforeLatest
  BY DEF TmpFilled, IndexBeforeLatest
<1>2. PublishedWhole /\ LatestNamesManifest /\ FromABuild
  BY DEF PublishedWhole, LatestNamesManifest, FromABuild
<1>3. LatestStays /\ SeenOnHit
  BY DEF LatestStays, SeenOnHit
<1>4. QED
  BY <1>1, <1>2, <1>3 DEF IBody

(* A step of a build that touches neither of the two files. *)
LEMMA PrivateStepInvariant ==
    ASSUME TypeOK, IBody, NEW b \in Builds, Begin(b) \/ OpenTmp(b) \/ FillTmp(b) \/ Stop(b)
    PROVE  IBody'
<1> USE DEF IBody
<1>1. UNCHANGED <<file, target, step, seen>>
  BY DEF Begin, OpenTmp, FillTmp, Stop, dirVars, loadVars
<1>2. TmpFilled'
  <2> SUFFICES ASSUME NEW c \in Builds, phase'[c] = "rename"
               PROVE  tmp'[TagOf[c]][target[c]] = Payload(c, target[c])
    BY <1>1 DEF TmpFilled, Payload
  <2> USE TagsDistinct DEF TypeOK, TmpFilled
  <2>1. CASE Begin(b) \/ Stop(b)
    BY <2>1 DEF Begin, Stop, dirVars
  <2>2. CASE OpenTmp(b)
    BY <2>2 DEF OpenTmp
  <2>3. CASE FillTmp(b)
    BY <2>3 DEF FillTmp
  <2>4. QED
    BY <2>1, <2>2, <2>3
<1>3. PublishedWhole' /\ IndexBeforeLatest' /\ LatestNamesManifest' /\ SeenOnHit'
  BY <1>1 DEF PublishedWhole, IndexBeforeLatest, LatestNamesManifest, SeenOnHit
<1>4. \A c \in Builds : /\ phase'[c] = "ok" => phase[c] = "ok"
                        /\ phase[c] # "idle" => phase'[c] # "idle"
  BY DEF TypeOK, Begin, OpenTmp, FillTmp, Stop
<1>5. LatestStays' /\ FromABuild'
  BY <1>1, <1>4 DEF LatestStays, FromABuild
<1>6. QED
  BY <1>2, <1>3, <1>5

(* index.json now holds the manifest of the build. *)
LEMMA RenameIndexInvariant ==
    ASSUME TypeOK, IBody, NEW b \in Builds, Rename(b), target[b] = "index.json"
    PROVE  IBody'
<1> USE DEF IBody, TypeOK
<1>1. /\ file' = [file EXCEPT !["index.json"] = b]
      /\ phase' = [phase EXCEPT ![b] = "open"]
      /\ target' = [target EXCEPT ![b] = "latest"]
      /\ UNCHANGED <<step, seen>>
  BY DEF Rename, AfterRename, TmpFilled, Payload, loadVars
<1>2. file'["index.json"] = b /\ file'["latest"] = file["latest"]
  BY <1>1 DEF Names
<1>3. TmpFilled'
  <2> SUFFICES ASSUME NEW c \in Builds, phase'[c] = "rename"
               PROVE  tmp'[TagOf[c]][target'[c]] = Payload(c, target'[c])
    BY DEF TmpFilled, Payload
  <2>1. c # b /\ phase[c] = "rename" /\ target'[c] = target[c]
    BY <1>1
  <2>2. tmp'[TagOf[c]] = tmp[TagOf[c]]
    BY <2>1, TagsDistinct DEF Rename
  <2>3. QED
    BY <2>1, <2>2 DEF TmpFilled
<1>4. PublishedWhole' /\ IndexBeforeLatest' /\ LatestNamesManifest'
  BY <1>2 DEF PublishedWhole, IndexBeforeLatest, LatestNamesManifest
<1>5. LatestStays' /\ FromABuild' /\ SeenOnHit'
  BY <1>1, <1>2 DEF LatestStays, FromABuild, SeenOnHit
<1>6. QED
  BY <1>3, <1>4, <1>5

(* latest now names index.json, which is in place. *)
LEMMA RenameLatestInvariant ==
    ASSUME TypeOK, IBody, NEW b \in Builds, Rename(b), target[b] = "latest"
    PROVE  IBody'
<1> USE DEF IBody, TypeOK
<1>1. /\ file' = [file EXCEPT !["latest"] = "pointer"]
      /\ phase' = [phase EXCEPT ![b] = "ok"]
      /\ UNCHANGED <<target, step, seen>>
  BY DEF Rename, AfterRename, TmpFilled, Payload, loadVars
<1>2. file'["latest"] = "pointer" /\ file'["index.json"] = file["index.json"]
  BY <1>1 DEF Names
<1>3. TmpFilled'
  <2> SUFFICES ASSUME NEW c \in Builds, phase'[c] = "rename"
               PROVE  tmp'[TagOf[c]][target[c]] = Payload(c, target[c])
    BY <1>1 DEF TmpFilled, Payload
  <2>1. c # b /\ phase[c] = "rename"
    BY <1>1
  <2>2. tmp'[TagOf[c]] = tmp[TagOf[c]]
    BY <2>1, TagsDistinct DEF Rename
  <2>3. QED
    BY <2>1, <2>2 DEF TmpFilled
<1>4. PublishedWhole' /\ IndexBeforeLatest' /\ LatestNamesManifest'
  BY <1>1, <1>2 DEF PublishedWhole, IndexBeforeLatest, LatestNamesManifest
<1>5. LatestStays' /\ FromABuild' /\ SeenOnHit'
  BY <1>1, <1>2 DEF LatestStays, FromABuild, SeenOnHit
<1>6. QED
  BY <1>3, <1>4, <1>5

LEMMA LoadInvariant ==
    ASSUME TypeOK, IBody, NEW l \in Loads, LoadStep(l)
    PROVE  IBody'
<1> USE DEF IBody, TypeOK
<1>1. UNCHANGED <<file, tmp, phase, target>>
  BY DEF LoadStep, ReadLatest, ReadIndex, Reload, dirVars, buildVars
<1>2. TmpFilled' /\ PublishedWhole' /\ IndexBeforeLatest' /\ LatestNamesManifest' /\ FromABuild'
  BY <1>1 DEF TmpFilled, PublishedWhole, IndexBeforeLatest, LatestNamesManifest,
              FromABuild, Payload
<1>3. LatestStays' /\ SeenOnHit'
  <2>1. CASE ReadLatest(l)
    BY <2>1, <1>1 DEF ReadLatest, LatestStays, SeenOnHit
  <2>2. CASE ReadIndex(l)
    BY <2>2, <1>1 DEF ReadIndex, LatestStays, SeenOnHit
  <2>3. CASE Reload(l)
    BY <2>3, <1>1 DEF Reload, LatestStays, SeenOnHit
  <2>4. QED
    BY <2>1, <2>2, <2>3 DEF LoadStep
<1>4. QED
  BY <1>2, <1>3

LEMMA NextInvariant == TypeOK /\ IBody /\ [Next]_vars => IBody'
<1> SUFFICES ASSUME TypeOK, IBody, [Next]_vars
             PROVE  IBody'
  OBVIOUS
<1>1. ASSUME NEW b \in Builds, Rename(b)
      PROVE  IBody'
  BY <1>1, RenameIndexInvariant, RenameLatestInvariant DEF TypeOK, Names
<1>2. CASE UNCHANGED vars
  BY <1>2 DEF vars, IBody, TmpFilled, PublishedWhole, IndexBeforeLatest, LatestNamesManifest,
              LatestStays, FromABuild, SeenOnHit, Payload
<1>3. QED
  BY <1>1, <1>2, PrivateStepInvariant, LoadInvariant DEF Next, WriteStep

(* The inductive invariant holds in every reachable state. *)
THEOREM Invariance == Spec => []IInv
<1>1. Init => IBody
  BY InitInvariant
<1>2. TypeOK /\ IBody /\ [Next]_vars => IBody'
  BY NextInvariant
<1>3. QED
  BY <1>1, <1>2, TypeCorrect, PTL DEF Spec, IInv

-----------------------------------------------------------------------------
(* Neither index.json nor latest is ever seen half-written, whatever       *)
(* builds of write_manifest failed, were killed or ran at once.            *)
THEOREM NeverTorn == Spec => []PublishedWhole
BY Invariance, PTL DEF IInv, IBody

(* latest, once written, names an index.json that holds a whole manifest.  *)
THEOREM NeverDangling == Spec => []LatestNamesManifest
BY Invariance, PTL DEF IInv, IBody

(* load_latest fails only for want of latest, and only while no build has  *)
(* returned Ok.                                                            *)
THEOREM MissesOnlyBefore == Spec => MissOnlyBeforePublication
<1>1. ASSUME IInv, [Next]_vars, NEW l \in Loads, step[l] # "miss", step'[l] = "miss"
      PROVE  file["latest"] = "absent" /\ \A b \in Builds : phase[b] # "ok"
  <2> USE <1>1 DEF IInv, IBody, TypeOK
  <2>1. PICK k \in Loads : LoadStep(k)
    BY DEF Next, WriteStep, Begin, OpenTmp, FillTmp, Rename, Stop, loadVars, vars
  <2>2. l = k
    BY <2>1 DEF LoadStep, ReadLatest, ReadIndex, Reload
  <2>3. ~Reload(l) /\ ~ReadIndex(l)
    BY DEF Reload, ReadIndex, LatestStays, LatestNamesManifest
  <2>4. ReadLatest(l)
    BY <2>1, <2>2, <2>3 DEF LoadStep
  <2>5. file["latest"] # "pointer"
    BY <2>4 DEF ReadLatest
  <2>6. QED
    BY <2>5 DEF PublishedWhole, LatestStays
<1>2. IInv /\ [Next]_vars =>
        [\A l \in Loads : step[l] # "miss" /\ step'[l] = "miss"
            => file["latest"] = "absent" /\ \A b \in Builds : phase[b] # "ok"]_vars
  BY <1>1
<1>3. QED
  BY <1>2, Invariance, PTL DEF Spec, MissOnlyBeforePublication

-----------------------------------------------------------------------------
(* The directory implements the register.  The register changes when latest *)
(* is first put in place and, after that, when index.json is replaced; a    *)
(* load is answered at its last read.                                       *)

LEMMA RegisterInit == Init => Register!RegInit
BY DEF Init, Names, Register!RegInit

(* A step that moves neither file and no load leaves the register alone,   *)
(* but for Begin, which offers the manifest.                               *)
LEMMA RegisterPrivateStep ==
    ASSUME IInv, NEW b \in Builds, Begin(b) \/ OpenTmp(b) \/ FillTmp(b) \/ Stop(b)
    PROVE  [Register!RegNext]_Register!rvars
<1> USE DEF IInv, IBody, TypeOK
<1>1. UNCHANGED <<file, step, seen>>
  BY DEF Begin, OpenTmp, FillTmp, Stop, dirVars, loadVars
<1>2. CASE Begin(b)
  <2>1. Register!Submit(b)
    BY <1>1, <1>2 DEF Begin, Register!Submit
  <2>2. QED
    BY <2>1 DEF Register!RegNext
<1>3. CASE OpenTmp(b) \/ FillTmp(b) \/ Stop(b)
  <2>1. \A c \in Builds : phase'[c] = "idle" <=> phase[c] = "idle"
    BY <1>3 DEF OpenTmp, FillTmp, Stop
  <2>2. QED
    BY <1>1, <2>1 DEF Register!rvars
<1>4. QED
  BY <1>2, <1>3

LEMMA RegisterRename ==
    ASSUME IInv, NEW b \in Builds, Rename(b)
    PROVE  [Register!RegNext]_Register!rvars
<1> USE DEF IInv, IBody, TypeOK
<1>1. UNCHANGED <<step, seen>> /\ \A c \in Builds : phase'[c] = "idle" <=> phase[c] = "idle"
  BY DEF Rename, AfterRename, loadVars
<1>2. CASE target[b] = "index.json"
  <2>1. file'["index.json"] = b /\ file'["latest"] = file["latest"]
    BY <1>2 DEF Rename, TmpFilled, Payload, Names
  <2>2. CASE file["latest"] = "pointer"
    <3>1. Register!Publish
      BY <1>1, <2>1, <2>2 DEF Rename, Register!Publish
    <3>2. QED
      BY <3>1 DEF Register!RegNext
  <2>3. CASE file["latest"] # "pointer"
    BY <1>1, <2>1, <2>3 DEF Register!rvars
  <2>4. QED
    BY <2>2, <2>3
<1>3. CASE target[b] = "latest"
  <2>1. file'["latest"] = "pointer" /\ file'["index.json"] = file["index.json"]
    BY <1>3 DEF Rename, TmpFilled, Payload, Names
  <2>2. file["index.json"] \in Builds /\ phase[file["index.json"]] # "idle"
    BY <1>3 DEF IndexBeforeLatest, FromABuild
  <2>3. Register!Publish
    BY <1>1, <2>1, <2>2 DEF Register!Publish
  <2>4. QED
    BY <2>3 DEF Register!RegNext
<1>4. QED
  BY <1>2, <1>3 DEF Names

LEMMA RegisterLoad ==
    ASSUME IInv, NEW l \in Loads, LoadStep(l)
    PROVE  [Register!RegNext]_Register!rvars
<1> USE DEF IInv, IBody, TypeOK
<1>1. UNCHANGED <<file, phase>>
  BY DEF LoadStep, ReadLatest, ReadIndex, Reload, dirVars, buildVars
<1>2. CASE ReadLatest(l) /\ file["latest"] = "pointer"
  BY <1>1, <1>2 DEF ReadLatest, Register!rvars
<1>3. CASE ReadLatest(l) /\ file["latest"] # "pointer"
  <2>1. Register!Answer(l)
    BY <1>1, <1>3 DEF ReadLatest, SeenOnHit, Register!Answer
  <2>2. QED
    BY <2>1 DEF Register!RegNext
<1>4. CASE ReadIndex(l)
  <2>1. file["latest"] = "pointer" /\ file["index.json"] \in Builds
    BY <1>4 DEF ReadIndex, LatestStays, LatestNamesManifest
  <2>2. Register!Answer(l)
    BY <1>1, <1>4, <2>1 DEF ReadIndex, Register!Answer
  <2>3. QED
    BY <2>2 DEF Register!RegNext
<1>5. CASE Reload(l)
  <2>1. Register!Ask(l)
    BY <1>1, <1>5, BuildsAreValues DEF Reload, SeenOnHit, Register!Ask
  <2>2. QED
    BY <2>1 DEF Register!RegNext
<1>6. QED
  BY <1>2, <1>3, <1>4, <1>5 DEF LoadStep

(* Two writes, two reads and any failure between them look to every caller *)
(* like one write and one read: a load returns a manifest that was current *)
(* at one instant, and never one that no build began.                      *)
THEOREM Implementation == Spec => ImplementsRegister
<1>1. Init => Register!RegInit
  BY RegisterInit
<1>2. IInv /\ [Next]_vars => [Register!RegNext]_Register!rvars
  <2> SUFFICES ASSUME IInv, [Next]_vars
               PROVE  [Register!RegNext]_Register!rvars
    OBVIOUS
  <2>1. CASE UNCHANGED vars
    BY <2>1 DEF vars, Register!rvars
  <2>2. QED
    BY <2>1, RegisterPrivateStep, RegisterRename, RegisterLoad DEF Next, WriteStep
<1>3. QED
  BY <1>1, <1>2, Invariance, PTL DEF Spec, ImplementsRegister, Register!RegSpec
=============================================================================
