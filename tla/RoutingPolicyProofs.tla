------------------------ MODULE RoutingPolicyProofs ------------------------
(***************************************************************************)
(* What the resolution of a policy promises, for any fields, overrides,    *)
(* priorities and stage orders, and any sequence of requests: its types,   *)
(* that the strongest override wins, that its trace explains the settings, *)
(* and that no invalid setting comes from a policy.                        *)
(***************************************************************************)
EXTENDS RoutingPolicy, TLAPS, FiniteSetTheorems, SequenceTheorems

(* A request is resolved only after the policy was found valid, and each   *)
(* resolution begins at the base and ends behind the last stage.           *)
Booted == phase \in {"resolving", "ready"} => Valid(policy)

Progress ==
    /\ policy \in Policies
    /\ phase \in {"boot", "rejected"} => stage = 0 /\ applied = <<>>
    /\ phase = "ready" => (stage = 0 /\ applied = <<>>) \/ stage = Len(policy.stageOrder) + 1
    /\ stage \notin DOMAIN policy.stageOrder => left = {}

OneSeen == \A f \in Fields : \A x, y \in seen[f] : x = y

(* What is left of a stage matches, and is stronger than what is not left. *)
LeftIsStronger ==
    stage \in DOMAIN policy.stageOrder =>
        LET s == policy.stageOrder[stage] IN
        /\ left \subseteq Matching(policy, s, request)
        /\ \A i \in left : \A j \in Matching(policy, s, request) \ left : Before(policy, s, j, i)

(* The overrides that were applied so far. *)
Past(s) == \E k \in DOMAIN policy.stageOrder : policy.stageOrder[k] = s /\ k < stage

Now(s) == stage \in DOMAIN policy.stageOrder /\ policy.stageOrder[stage] = s

SettersSoFar(f) == {o \in Setters(f) : Past(o[1]) \/ (Now(o[1]) /\ o[2] \notin left)}

Wins(o, f) ==
    /\ o \in SettersSoFar(f)
    /\ \A u \in SettersSoFar(f) \ {o} : Stronger(o, u)
    /\ effective[f] = Rules(o)[f]

Unset(f) ==
    /\ SettersSoFar(f) = {}
    /\ effective[f] = IF stage = 0 THEN Base[f] ELSE Overlay(Base, policy.default)[f]

StrongestSoFar == \A f \in Fields : Unset(f) \/ \E o \in SettersSoFar(f) : Wins(o, f)

(* The layers of the trace that set a field, and what they print for it.   *)
Printers(f) == {k \in DOMAIN applied : f \in DOMAIN applied[k].rules}

Printed(f, k) == Rendered(f, applied[k].rules[f])

TraceExplains ==
    \A f \in Fields :
        /\ seen[f] = {} <=> Printers(f) = {}
        /\ \A last \in seen[f] : \E k \in Printers(f) : last.value = Printed(f, k)
        /\ (\E w \in warnings : w.field = f)
           <=> \E i, j \in Printers(f) : Printed(f, i) # Printed(f, j)

PolicyInv ==
    /\ PolicyTypeOK
    /\ Booted
    /\ Progress
    /\ OneSeen
    /\ LeftIsStronger
    /\ StrongestSoFar
    /\ TraceExplains
    /\ PolicySettingsValid

-----------------------------------------------------------------------------
(* Of what a policy is made. *)
LEMMA PolicyShape ==
    ASSUME NEW p \in Policies
    PROVE  /\ p.stageOrder \in Seq(Stages)
           /\ DOMAIN p.stageOrder = 1 .. Len(p.stageOrder) /\ Len(p.stageOrder) \in Nat
           /\ \A k \in DOMAIN p.stageOrder : p.stageOrder[k] \in Stages
           /\ DOMAIN p.default \subseteq Fields
           /\ \A s \in Stages : \A i \in DOMAIN p.overrides[s] :
                 /\ i \in Nat /\ p.overrides[s][i].priority \in Int
                 /\ DOMAIN p.overrides[s][i].rules \subseteq Fields
<1>1. p.stageOrder \in Seq(Stages)
  BY PoliciesAreSound
<1>2. /\ DOMAIN p.stageOrder = 1 .. Len(p.stageOrder) /\ Len(p.stageOrder) \in Nat
      /\ \A k \in DOMAIN p.stageOrder : p.stageOrder[k] \in Stages
  BY <1>1
<1>3. QED
  BY <1>1, <1>2, PoliciesAreSound

(* A stage has one place in the order of a valid policy. *)
LEMMA RankIsPlace ==
    ASSUME Valid(policy), NEW k \in DOMAIN policy.stageOrder
    PROVE  Rank(policy.stageOrder[k]) = k
BY DEF Valid, IsInjective, Rank

LEMMA EmptyOrOneIsFinite ==
    ASSUME NEW S, \A x, y \in S : x = y
    PROVE  Cardinality(S) <= 1
<1>1. CASE S = {}
  BY <1>1, FS_EmptySet
<1>2. CASE S # {}
  <2>1. PICK x \in S : S = {x}
    BY <1>2
  <2>2. Cardinality({x}) = 1
    BY FS_Singleton
  <2>3. QED
    BY <2>1, <2>2
<1>3. QED
  BY <1>1, <1>2

(* A layer brings warnings of the fields that it overwrites. *)
LEMMA WarningsAfter ==
    ASSUME NEW source, NEW rules, Track(source, rules), NEW f
    PROVE  (\E w \in warnings' : w.field = f)
           <=> (\E w \in warnings : w.field = f) \/ f \in Overwritten(rules)
<1> DEFINE S == Overwritten(rules)
           new == {[field |-> g, by |-> source] : g \in S}
<1>1. warnings' = warnings \cup new
  BY DEF Track
<1> HIDE DEF S
<1>2. ASSUME f \in S PROVE \E w \in new : w.field = f
  <2> DEFINE warning == [field |-> f, by |-> source]
  <2>1. warning \in new /\ warning.field = f
    BY <1>2
  <2>2. QED
    BY <2>1
<1>3. ASSUME NEW w \in new, w.field = f PROVE f \in S
  <2>1. PICK g \in S : w = [field |-> g, by |-> source]
    BY <1>3
  <2>2. QED
    BY <1>3, <2>1
<1> HIDE DEF new
<1>4. (\E w \in warnings' : w.field = f) <=> (\E w \in warnings : w.field = f) \/ f \in S
  BY <1>1, <1>2, <1>3
<1>5. QED
  BY <1>4 DEF S

LEMMA OneRecord ==
    ASSUME NEW source, NEW value, NEW records, records = {[source |-> source, value |-> value]}
    PROVE  records # {} /\ (\A last \in records : last.value = value) /\ (\A x, y \in records : x = y)
OBVIOUS

LEMMA PrintedAfter ==
    ASSUME NEW f, NEW k
    PROVE  /\ \A v : applied'[k].rules[f] = v => Printed(f, k)' = Rendered(f, v)
           /\ applied'[k].rules[f] = applied[k].rules[f] => Printed(f, k)' = Printed(f, k)
BY DEF Printed

LEMMA PolicyInitInv == PolicyInit => PolicyInv
<1> SUFFICES ASSUME PolicyInit PROVE PolicyInv
  OBVIOUS
<1> USE DEF PolicyInit
<1>1. /\ policy.stageOrder \in Seq(Stages) /\ Len(policy.stageOrder) \in Nat
      /\ DOMAIN policy.stageOrder = 1 .. Len(policy.stageOrder)
  BY PolicyShape
<1>2. stage \notin DOMAIN policy.stageOrder /\ \A s : ~Past(s) /\ ~Now(s)
  BY <1>1 DEF Past, Now
<1>3. PolicyTypeOK
  <2>1. DOMAIN effective = Fields
    BY PoliciesAreSound
  <2>2. \A f \in Fields : Cardinality(seen[f]) <= 1
    BY FS_EmptySet
  <2>3. applied \in Seq(Layers)
    OBVIOUS
  <2>4. QED
    BY <1>1, <2>1, <2>2, <2>3 DEF PolicyTypeOK
<1>4. Booted /\ Progress /\ OneSeen /\ LeftIsStronger
  BY <1>2 DEF Booted, Progress, OneSeen, LeftIsStronger
<1>5. StrongestSoFar
  BY <1>2 DEF StrongestSoFar, Unset, SettersSoFar
<1>6. TraceExplains
  BY DEF TraceExplains, Printers
<1>7. PolicySettingsValid
  BY DEF PolicySettingsValid
<1>8. QED
  BY <1>3, <1>4, <1>5, <1>6, <1>7 DEF PolicyInv

(* What is kept by a step that only moves on, and by one that begins anew. *)
LEMMA ReceiveInv ==
    ASSUME PolicyInv, NEW r \in Requests, Receive(r)
    PROVE  PolicyInv'
<1> USE DEF Receive, PolicyInv
<1>1. /\ policy' = policy /\ policy \in Policies /\ Len(policy.stageOrder) \in Nat
      /\ DOMAIN policy.stageOrder = 1 .. Len(policy.stageOrder)
  BY PolicyShape DEF Progress
<1>2. stage' \notin DOMAIN policy'.stageOrder /\ \A s : ~Past(s)' /\ ~Now(s)'
  BY <1>1 DEF Past, Now
<1>3. PolicyTypeOK'
  <2>1. DOMAIN effective' = Fields
    BY PoliciesAreSound
  <2>2. \A f \in Fields : Cardinality(seen'[f]) <= 1
    BY FS_EmptySet
  <2>3. applied' \in Seq(Layers')
    OBVIOUS
  <2>4. QED
    BY <1>1, <2>1, <2>2, <2>3 DEF PolicyTypeOK
<1>4. Booted' /\ Progress' /\ OneSeen' /\ LeftIsStronger'
  BY <1>1, <1>2 DEF Booted, Progress, OneSeen, LeftIsStronger
<1>5. StrongestSoFar'
  BY <1>1, <1>2 DEF StrongestSoFar, Unset, SettersSoFar
<1>6. TraceExplains'
  BY DEF TraceExplains, Printers
<1>7. PolicySettingsValid'
  BY DEF PolicySettingsValid
<1>8. QED
  BY <1>3, <1>4, <1>5, <1>6, <1>7 DEF PolicyInv

LEMMA SameResolution ==
    ASSUME PolicyInv, UNCHANGED <<policy, request, stage, left, effective, tracker>>
    PROVE  /\ OneSeen' /\ LeftIsStronger' /\ StrongestSoFar' /\ TraceExplains' /\ PolicySettingsValid'
           /\ phase' \in {"boot", "rejected", "ready", "resolving"} => PolicyTypeOK'
<1> USE DEF PolicyInv, tracker
<1>1. OneSeen' /\ LeftIsStronger' /\ PolicySettingsValid'
  BY DEF OneSeen, LeftIsStronger, PolicySettingsValid
<1>2. \A f : Setters(f)' = Setters(f)
  BY DEF Setters, Rules
<1>3. \A f : SettersSoFar(f)' = SettersSoFar(f)
  BY <1>2 DEF SettersSoFar, Past, Now
<1>4. StrongestSoFar'
  <2>1. \A f \in Fields : Unset(f) => Unset(f)'
    BY <1>3 DEF Unset
  <2>2. \A u, v : (Stronger(u, v)' <=> Stronger(u, v)) /\ Rules(u)' = Rules(u)
    BY DEF Stronger, Rank, Priority, Rules
  <2>3. \A f, u : Wins(u, f) => Wins(u, f)'
    BY <1>3, <2>2 DEF Wins
  <2>4. \A f \in Fields : Unset(f)' \/ \E u \in SettersSoFar(f)' : Wins(u, f)'
    BY <1>3, <2>1, <2>3 DEF StrongestSoFar
  <2>5. QED
    BY <2>4 DEF StrongestSoFar
<1>5. TraceExplains'
  BY DEF TraceExplains, Printers, Printed
<1>6. phase' \in {"boot", "rejected", "ready", "resolving"} => PolicyTypeOK'
  BY DEF PolicyTypeOK, Layers
<1>7. QED
  BY <1>1, <1>4, <1>5, <1>6

-----------------------------------------------------------------------------
(* A layer of the policy is applied: the settings and the trace. *)
LEMMA LayerIsExplained ==
    ASSUME PolicyInv, NEW source, NEW rules, [source |-> source, rules |-> rules] \in Layers,
           DOMAIN rules \subseteq Fields, Track(source, rules)
    PROVE  OneSeen' /\ TraceExplains'
<1> DEFINE layer == [source |-> source, rules |-> rules]
<1>0. PICK n : n = Len(applied) + 1
  OBVIOUS
<1>1. /\ applied \in Seq(Layers) /\ Len(applied) \in Nat /\ DOMAIN applied = 1 .. Len(applied)
      /\ DOMAIN applied' = DOMAIN applied \cup {n} /\ n \notin DOMAIN applied
      /\ applied'[n] = layer /\ \A k \in DOMAIN applied : applied'[k] = applied[k]
  <2>1. applied \in Seq(Layers) /\ applied' = Append(applied, layer) /\ layer \in Layers
    BY DEF PolicyTypeOK, PolicyInv, Track
  <2> HIDE DEF layer
  <2>2. QED
    BY <1>0, <2>1
<1>2. layer.source = source /\ layer.rules = rules
  OBVIOUS
<1>3. OneSeen'
  <2> SUFFICES ASSUME NEW f \in Fields PROVE \A x, y \in seen'[f] : x = y
    BY DEF OneSeen
  <2>1. CASE f \in DOMAIN rules
    <3>1. seen'[f] = {[source |-> source, value |-> Rendered(f, rules[f])]}
      BY <2>1 DEF Track
    <3>2. QED
      BY <3>1, OneRecord
  <2>2. CASE f \notin DOMAIN rules
    BY <2>2 DEF Track, PolicyInv, OneSeen
  <2>3. QED
    BY <2>1, <2>2
<1>4. ASSUME NEW f \in Fields, f \notin DOMAIN rules
      PROVE  /\ seen'[f] = seen[f] /\ Printers(f)' = Printers(f)
             /\ \A k \in Printers(f) : Printed(f, k)' = Printed(f, k)
             /\ (\E w \in warnings' : w.field = f) <=> (\E w \in warnings : w.field = f)
  <2>1. seen'[f] = seen[f]
    BY <1>4 DEF Track
  <2>2. Printers(f)' = Printers(f) /\ \A k \in Printers(f) : Printed(f, k)' = Printed(f, k)
    <3>1. Printers(f)' = Printers(f)
      BY <1>1, <1>2, <1>4 DEF Printers
    <3>2. \A k \in Printers(f) : applied'[k].rules[f] = applied[k].rules[f]
      BY <1>1 DEF Printers
    <3>3. QED
      BY <3>1, <3>2, PrintedAfter
  <2>3. (\E w \in warnings' : w.field = f) <=> (\E w \in warnings : w.field = f)
    <3>1. f \notin Overwritten(rules)
      BY <1>4 DEF Overwritten
    <3>2. QED
      BY <3>1, WarningsAfter
  <2>4. QED
    BY <2>1, <2>2, <2>3
<1>5. ASSUME NEW f \in Fields, f \in DOMAIN rules
      PROVE  /\ Printers(f)' = Printers(f) \cup {n} /\ n \notin Printers(f)
             /\ Printed(f, n)' = Rendered(f, rules[f])
             /\ \A k \in Printers(f) : Printed(f, k)' = Printed(f, k)
             /\ seen'[f] # {} /\ \A last \in seen'[f] : last.value = Rendered(f, rules[f])
             /\ (\E w \in warnings' : w.field = f) <=>
                   \/ \E w \in warnings : w.field = f
                   \/ \E last \in seen[f] : last.value # Rendered(f, rules[f])
  <2>1. Printers(f)' = Printers(f) \cup {n} /\ n \notin Printers(f)
    BY <1>1, <1>2, <1>5 DEF Printers
  <2>2. /\ Printed(f, n)' = Rendered(f, rules[f])
        /\ \A k \in Printers(f) : Printed(f, k)' = Printed(f, k)
    <3>1. applied'[n].rules[f] = rules[f]
      BY <1>1, <1>2
    <3>2. \A k \in Printers(f) : applied'[k].rules[f] = applied[k].rules[f]
      BY <1>1 DEF Printers
    <3>3. QED
      BY <3>1, <3>2, PrintedAfter
  <2>3. seen'[f] = {[source |-> source, value |-> Rendered(f, rules[f])]}
    BY <1>5 DEF Track
  <2>4. seen'[f] # {} /\ \A last \in seen'[f] : last.value = Rendered(f, rules[f])
    BY <2>3, OneRecord
  <2>5. (\E w \in warnings' : w.field = f) <=> (\E w \in warnings : w.field = f) \/ f \in Overwritten(rules)
    BY WarningsAfter
  <2>6. f \in Overwritten(rules) <=> \E last \in seen[f] : last.value # Rendered(f, rules[f])
    BY <1>5 DEF Overwritten
  <2>7. QED
    BY <2>1, <2>2, <2>4, <2>5, <2>6
<1>6. ASSUME NEW f \in Fields, f \in DOMAIN rules
      PROVE  /\ seen'[f] # {} /\ Printers(f)' # {}
             /\ \A last \in seen'[f] : \E k \in Printers(f)' : last.value = Printed(f, k)'
             /\ (\E w \in warnings' : w.field = f)
                <=> \E i, j \in Printers(f)' : Printed(f, i)' # Printed(f, j)'
  <2>1. seen'[f] # {} /\ Printers(f)' # {}
        /\ \A last \in seen'[f] : \E k \in Printers(f)' : last.value = Printed(f, k)'
    <3>1. n \in Printers(f)' /\ Printed(f, n)' = Rendered(f, rules[f])
      BY <1>5, <1>6
    <3>2. seen'[f] # {} /\ \A last \in seen'[f] : last.value = Rendered(f, rules[f])
      BY <1>5, <1>6
    <3>3. QED
      BY <3>1, <3>2
  <2>2. ASSUME \E w \in warnings' : w.field = f
        PROVE  \E i, j \in Printers(f)' : Printed(f, i)' # Printed(f, j)'
    <3>1. \A k \in Printers(f) : k \in Printers(f)' /\ Printed(f, k)' = Printed(f, k)
      BY <1>5, <1>6
    <3>2. CASE \E w \in warnings : w.field = f
      <4>1. PICK i, j \in Printers(f) : Printed(f, i) # Printed(f, j)
        BY <3>2 DEF TraceExplains, PolicyInv
      <4>2. QED
        BY <3>1, <4>1
    <3>3. CASE \E last \in seen[f] : last.value # Rendered(f, rules[f])
      <4>1. PICK last \in seen[f] : last.value # Rendered(f, rules[f])
        BY <3>3
      <4>2. PICK k \in Printers(f) : last.value = Printed(f, k)
        BY DEF TraceExplains, PolicyInv
      <4>3. n \in Printers(f)' /\ Printed(f, n)' = Rendered(f, rules[f])
        BY <1>5, <1>6
      <4>4. QED
        BY <3>1, <4>1, <4>2, <4>3
    <3>4. QED
      BY <1>5, <1>6, <2>2, <3>2, <3>3
  <2>3. ASSUME ~\E w \in warnings' : w.field = f
        PROVE  \A i, j \in Printers(f)' : Printed(f, i)' = Printed(f, j)'
    <3>1. \A k \in Printers(f) : Printed(f, k) = Rendered(f, rules[f])
      <4>1. \A i, j \in Printers(f) : Printed(f, i) = Printed(f, j)
        BY <1>5, <1>6, <2>3 DEF TraceExplains, PolicyInv
      <4>2. \A last \in seen[f] : last.value = Rendered(f, rules[f])
        BY <1>5, <1>6, <2>3
      <4>3. Printers(f) # {} => \E last \in seen[f] : \E k \in Printers(f) : last.value = Printed(f, k)
        BY DEF TraceExplains, PolicyInv
      <4>4. QED
        BY <4>1, <4>2, <4>3
    <3>2. ASSUME NEW k \in Printers(f)' PROVE Printed(f, k)' = Rendered(f, rules[f])
      <4>1. k \in Printers(f) \/ k = n
        BY <1>5, <1>6
      <4>2. CASE k \in Printers(f)
        BY <1>5, <1>6, <3>1, <4>2
      <4>3. CASE k = n
        BY <1>5, <1>6, <4>3
      <4>4. QED
        BY <4>1, <4>2, <4>3
    <3>3. QED
      BY <3>2
  <2>4. QED
    BY <2>1, <2>2, <2>3
<1>7. ASSUME NEW f \in Fields, f \notin DOMAIN rules
      PROVE  /\ seen'[f] = {} <=> Printers(f)' = {}
             /\ \A last \in seen'[f] : \E k \in Printers(f)' : last.value = Printed(f, k)'
             /\ (\E w \in warnings' : w.field = f)
                <=> \E i, j \in Printers(f)' : Printed(f, i)' # Printed(f, j)'
  <2>1. /\ seen[f] = {} <=> Printers(f) = {}
        /\ \A last \in seen[f] : \E k \in Printers(f) : last.value = Printed(f, k)
        /\ (\E w \in warnings : w.field = f)
           <=> \E i, j \in Printers(f) : Printed(f, i) # Printed(f, j)
    BY DEF TraceExplains, PolicyInv
  <2>2. QED
    BY <1>4, <1>7, <2>1
<1>8. TraceExplains'
  BY <1>6, <1>7 DEF TraceExplains
<1>9. QED
  BY <1>3, <1>8

LEMMA LayerIsValid ==
    ASSUME PolicyInv, NEW source, NEW rules, [source |-> source, rules |-> rules] \in Layers,
           source \in Sources, ValidRule(rules), DOMAIN rules \subseteq Fields, Apply(source, rules)
    PROVE  /\ PolicySettingsValid' /\ DOMAIN effective' = Fields
           /\ \A f \in Fields : Cardinality(seen'[f]) <= 1
           /\ applied' \in Seq(Layers') /\ applied' # <<>>
           /\ \A w \in warnings' : w.field \in Fields /\ w.by \in Sources
<1> USE DEF PolicyInv, Apply
<1>1. PolicySettingsValid' /\ DOMAIN effective' = Fields
  BY DEF PolicySettingsValid, Overlay, ValidRule
<1>2. \A f \in Fields : Cardinality(seen'[f]) <= 1
  BY LayerIsExplained, EmptyOrOneIsFinite DEF OneSeen
<1>3. applied' \in Seq(Layers') /\ applied' # <<>>
  <2>1. applied \in Seq(Layers)
    BY DEF PolicyTypeOK
  <2> DEFINE layer == [source |-> source, rules |-> rules]
  <2>2. applied' = Append(applied, layer) /\ layer \in Layers
    BY DEF Track
  <2>3. Layers' = Layers
    BY DEF Layers
  <2> HIDE DEF layer
  <2>4. QED
    BY <2>1, <2>2, <2>3
<1>4. \A w \in warnings' : w.field \in Fields /\ w.by \in Sources
  BY DEF Track, Overwritten, PolicyTypeOK
<1>5. QED
  BY <1>1, <1>2, <1>3, <1>4

-----------------------------------------------------------------------------
LEMMA DefaultInv ==
    ASSUME PolicyInv, ApplyDefault
    PROVE  PolicyInv'
<1> USE DEF PolicyInv, ApplyDefault, EnterStage
<1>1. /\ Valid(policy) /\ policy \in Policies /\ Len(policy.stageOrder) \in Nat
      /\ DOMAIN policy.stageOrder = 1 .. Len(policy.stageOrder)
      /\ policy' = policy /\ request' = request /\ phase' = phase /\ phase = "resolving"
      /\ stage = 0 /\ stage' = 1
  BY PolicyShape DEF Progress, Booted, Apply
<1>2. /\ [source |-> <<"default", 0>>, rules |-> policy.default] \in Layers
      /\ <<"default", 0>> \in Sources
      /\ ValidRule(policy.default) /\ DOMAIN policy.default \subseteq Fields
  BY <1>1, PolicyShape DEF Layers, Sources, Valid
<1>3. Apply(<<"default", 0>>, policy.default)
  OBVIOUS
<1>4. OneSeen' /\ TraceExplains'
  BY <1>2, <1>3, LayerIsExplained DEF Apply
<1>5. /\ PolicySettingsValid' /\ DOMAIN effective' = Fields
      /\ \A f \in Fields : Cardinality(seen'[f]) <= 1
      /\ applied' \in Seq(Layers') /\ applied' # <<>>
      /\ \A w \in warnings' : w.field \in Fields /\ w.by \in Sources
  BY <1>2, <1>3, LayerIsValid
<1>6. policy.stageOrder # <<>> /\ 1 \in DOMAIN policy.stageOrder
      /\ left' = Matching(policy, policy.stageOrder[1], request)
  <2>1. policy.stageOrder # <<>>
    BY <1>1 DEF Valid
  <2>2. 1 \in DOMAIN policy.stageOrder
    BY <1>1, <2>1, PolicyShape, EmptySeq
  <2>3. QED
    BY <2>1, <2>2
<1>7. PolicyTypeOK'
  BY <1>1, <1>5, <1>6 DEF PolicyTypeOK, Matching
<1>8. Booted' /\ Progress' /\ LeftIsStronger'
  BY <1>1, <1>6 DEF Booted, Progress, LeftIsStronger
<1>9. StrongestSoFar'
  <2>1. \A f : Setters(f)' = Setters(f)
    BY <1>1 DEF Setters, Rules
  <2>2. \A f : SettersSoFar(f) = {}
    BY <1>1 DEF SettersSoFar, Past, Now
  <2>3. \A s : ~Past(s)'
    BY <1>1 DEF Past
  <2>4. ASSUME NEW f, NEW o \in Setters(f), Now(o[1])' PROVE o[2] \in left'
    <3>1. PICK s \in Range(policy.stageOrder) : o \in {s} \X Matching(policy, s, request)
      BY DEF Setters
    <3>2. o[1] = s /\ o[2] \in Matching(policy, s, request)
      BY <3>1
    <3>3. QED
      BY <1>1, <1>6, <2>4, <3>2 DEF Now
  <2>5. \A f : SettersSoFar(f)' = {}
    BY <2>1, <2>3, <2>4 DEF SettersSoFar
  <2>6. \A f \in Fields : effective[f] = Base[f]
    BY <1>1, <2>2 DEF StrongestSoFar, Unset, Wins
  <2>7. \A f \in Fields : effective'[f] = Overlay(Base, policy.default)[f]
    BY <2>6 DEF Apply, Overlay
  <2>8. QED
    BY <1>1, <2>5, <2>7 DEF StrongestSoFar, Unset
<1>10. QED
  BY <1>4, <1>5, <1>7, <1>8, <1>9

(* The next override of a stage is stronger than all that were applied.    *)
LEMMA OverrideInv ==
    ASSUME PolicyInv, ApplyOverride
    PROVE  PolicyInv'
<1> USE DEF PolicyInv
<1> DEFINE s == policy.stageOrder[stage]
<1>1. PICK i \in left :
        /\ \A j \in left \ {i} : Before(policy, s, i, j)
        /\ Apply(<<s, i>>, policy.overrides[s][i].rules)
        /\ left' = left \ {i}
  BY DEF ApplyOverride
<1>2. /\ Valid(policy) /\ policy \in Policies /\ Len(policy.stageOrder) \in Nat
      /\ DOMAIN policy.stageOrder = 1 .. Len(policy.stageOrder)
      /\ policy' = policy /\ request' = request /\ phase' = phase /\ phase = "resolving"
      /\ stage \in DOMAIN policy.stageOrder /\ stage' = stage /\ s \in Stages
  BY <1>1, PolicyShape DEF ApplyOverride, Progress, Booted, Apply
<1>3. i \in Matching(policy, s, request) /\ i \in DOMAIN policy.overrides[s]
  BY <1>1, <1>2 DEF LeftIsStronger, Matching
<1>14. PICK rules, o : rules = policy.overrides[s][i].rules /\ o = <<s, i>>
  OBVIOUS
<1>4. [source |-> o, rules |-> rules] \in Layers
  <2> DEFINE layers(t) == {[source |-> <<t, j>>, rules |-> policy.overrides[t][j].rules] :
                              j \in DOMAIN policy.overrides[t]}
  <2>1. [source |-> o, rules |-> rules] \in layers(s)
    BY <1>3, <1>14
  <2>2. Layers = {[source |-> <<"default", 0>>, rules |-> policy.default]} \cup UNION {layers(t) : t \in Stages}
    BY DEF Layers
  <2> HIDE DEF layers
  <2>3. QED
    BY <1>2, <2>1, <2>2
<1>5. o \in Sources /\ ValidRule(rules) /\ DOMAIN rules \subseteq Fields
  <2>1. i \in Nat /\ DOMAIN rules \subseteq Fields
    BY <1>2, <1>3, <1>14, PolicyShape
  <2>2. ValidRule(rules)
    BY <1>2, <1>3, <1>14 DEF Valid
  <2>3. QED
    BY <1>2, <1>14, <2>1, <2>2 DEF Sources
<1>6. Apply(o, rules)
  BY <1>1, <1>14
<1>7. OneSeen' /\ TraceExplains'
  BY <1>4, <1>5, <1>6, LayerIsExplained DEF Apply
<1>8. /\ PolicySettingsValid' /\ DOMAIN effective' = Fields
      /\ \A f \in Fields : Cardinality(seen'[f]) <= 1
      /\ applied' \in Seq(Layers') /\ applied' # <<>>
      /\ \A w \in warnings' : w.field \in Fields /\ w.by \in Sources
  BY <1>4, <1>5, <1>6, LayerIsValid
<1>9. PolicyTypeOK'
  BY <1>1, <1>2, <1>8 DEF PolicyTypeOK
<1>10. Booted' /\ Progress'
  BY <1>1, <1>2 DEF Booted, Progress
<1>11. LeftIsStronger'
  <2>1. left \subseteq Matching(policy, s, request)
        /\ \A k \in left : \A j \in Matching(policy, s, request) \ left : Before(policy, s, j, k)
    BY <1>2 DEF LeftIsStronger
  <2>2. \A k \in left' : Before(policy, s, i, k)
    BY <1>1
  <2>3. \A k \in left' : \A j \in Matching(policy, s, request) \ left' : Before(policy, s, j, k)
    BY <1>1, <2>1, <2>2
  <2>4. QED
    BY <1>1, <1>2, <2>1, <2>3 DEF LeftIsStronger
<1>12. StrongestSoFar'
  <2>1. \A f : Setters(f)' = Setters(f)
    BY <1>2 DEF Setters, Rules
  <2>2. \A t : (Past(t)' <=> Past(t)) /\ (Now(t)' <=> Now(t))
    BY <1>2 DEF Past, Now
  <2>3. o = <<s, i>> /\ o[1] = s /\ o[2] = i /\ Rules(o) = rules /\ Now(s)
    BY <1>2, <1>14 DEF Rules, Now
  <2>4. ASSUME NEW f, NEW u \in Setters(f)
        PROVE  /\ u = <<u[1], u[2]>> /\ u[1] \in Stages
               /\ u[2] \in Matching(policy, u[1], request)
    <3>1. PICK t \in Range(policy.stageOrder) : u \in {t} \X Matching(policy, t, request)
      BY DEF Setters
    <3>2. t \in Stages
      BY <1>2, PolicyShape DEF Range
    <3>3. QED
      BY <3>1, <3>2
  <2>5. ASSUME NEW f PROVE SettersSoFar(f)' = IF f \in DOMAIN rules THEN SettersSoFar(f) \cup {o} ELSE SettersSoFar(f)
    <3>1. ASSUME NEW u \in Setters(f), Now(u[1]) PROVE u[1] = s
      BY <3>1 DEF Now
    <3>2. \A u \in Setters(f) : u # o => (u \in SettersSoFar(f)' <=> u \in SettersSoFar(f))
      <4>1. SUFFICES ASSUME NEW u \in Setters(f), u # o, Now(u[1]) PROVE u[2] \notin left' <=> u[2] \notin left
        BY <2>1, <2>2 DEF SettersSoFar
      <4>2. u[2] # i
        BY <2>3, <2>4, <3>1, <4>1
      <4>3. QED
        BY <1>1, <4>2
    <3>3. o \in Setters(f) <=> f \in DOMAIN rules
      <4>1. s \in Range(policy.stageOrder)
        BY <1>2 DEF Range
      <4>2. o \in {s} \X Matching(policy, s, request)
        BY <1>3, <2>3
      <4>3. o \in UNION {{t} \X Matching(policy, t, request) : t \in Range(policy.stageOrder)}
        BY <4>1, <4>2
      <4>4. QED
        BY <2>3, <4>3 DEF Setters
    <3>4. o \in Setters(f) => o \in SettersSoFar(f)'
      BY <1>1, <2>1, <2>2, <2>3 DEF SettersSoFar
    <3>5. SettersSoFar(f) \subseteq Setters(f) /\ SettersSoFar(f)' \subseteq Setters(f)
      BY <2>1 DEF SettersSoFar
    <3>6. ASSUME o \in SettersSoFar(f) PROVE FALSE
      <4>1. ~Past(s)
        <5>1. ASSUME NEW k \in DOMAIN policy.stageOrder, policy.stageOrder[k] = s PROVE k = stage
          BY <1>2, <5>1, RankIsPlace
        <5>2. QED
          BY <1>2, <5>1 DEF Past
      <4>2. QED
        BY <1>1, <2>3, <3>6, <4>1 DEF SettersSoFar
    <3>7. QED
      BY <3>2, <3>3, <3>4, <3>5, <3>6
  <2>6. ASSUME NEW f, NEW u \in SettersSoFar(f) PROVE Stronger(o, u)
    <3>1. u \in Setters(f) /\ (Past(u[1]) \/ (Now(u[1]) /\ u[2] \notin left))
      BY <2>6 DEF SettersSoFar
    <3>2. CASE Past(u[1])
      <4>1. PICK k \in DOMAIN policy.stageOrder : policy.stageOrder[k] = u[1] /\ k < stage
        BY <3>2 DEF Past
      <4>2. Rank(u[1]) = k /\ Rank(s) = stage
        BY <1>2, <4>1, RankIsPlace
      <4>3. Rank(o[1]) > Rank(u[1])
        BY <1>2, <2>3, <4>1, <4>2
      <4>4. QED
        BY <4>3 DEF Stronger
    <3>3. CASE Now(u[1]) /\ u[2] \notin left
      <4>1. u[1] = s /\ u[2] \in Matching(policy, s, request)
        BY <2>4, <3>1, <3>3 DEF Now
      <4>2. Before(policy, s, u[2], i)
        BY <1>1, <1>2, <3>3, <4>1 DEF LeftIsStronger
      <4>3. /\ u[2] \in DOMAIN policy.overrides[s]
            /\ u[2] \in Nat /\ i \in Nat
            /\ policy.overrides[s][u[2]].priority \in Int /\ policy.overrides[s][i].priority \in Int
        BY <1>2, <1>3, <4>1, PolicyShape DEF Matching
      <4>4. Priority(o) = policy.overrides[s][i].priority /\ Priority(u) = policy.overrides[s][u[2]].priority
        BY <2>3, <4>1 DEF Priority
      <4>5. QED
        BY <2>3, <4>1, <4>2, <4>3, <4>4 DEF Before, Stronger
    <3>4. QED
      BY <3>1, <3>2, <3>3
  <2>7. \A u, v : (Stronger(u, v)' <=> Stronger(u, v)) /\ Rules(u)' = Rules(u)
    BY <1>2 DEF Stronger, Rank, Priority, Rules
  <2>8. ASSUME NEW f \in Fields PROVE Unset(f)' \/ \E u \in SettersSoFar(f)' : Wins(u, f)'
    <3>1. CASE f \in DOMAIN rules
      <4>1. effective'[f] = rules[f]
        BY <1>6, <3>1, <2>8 DEF Apply, Overlay
      <4>2. SettersSoFar(f)' = SettersSoFar(f) \cup {o}
        BY <2>5, <3>1
      <4>3. \A u \in SettersSoFar(f)' \ {o} : Stronger(o, u)'
        BY <2>6, <2>7, <4>2
      <4>4. Rules(o)' = rules
        BY <2>3, <2>7
      <4>5. o \in SettersSoFar(f)'
        BY <4>2
      <4>6. Wins(o, f)'
        BY <4>1, <4>3, <4>4, <4>5 DEF Wins
      <4>7. QED
        BY <4>5, <4>6
    <3>2. CASE f \notin DOMAIN rules
      <4>1. effective'[f] = effective[f]
        BY <1>6, <3>2, <2>8 DEF Apply, Overlay
      <4>2. SettersSoFar(f)' = SettersSoFar(f)
        BY <2>5, <3>2
      <4>3. Unset(f) => Unset(f)'
        BY <1>2, <4>1, <4>2 DEF Unset
      <4>4. \A u : Wins(u, f) => Wins(u, f)'
        BY <2>7, <4>1, <4>2 DEF Wins
      <4>5. Unset(f) \/ \E u \in SettersSoFar(f) : Wins(u, f)
        BY <2>8 DEF StrongestSoFar
      <4>6. QED
        BY <4>2, <4>3, <4>4, <4>5
    <3>3. QED
      BY <3>1, <3>2
  <2>9. QED
    BY <2>8 DEF StrongestSoFar
<1>13. QED
  BY <1>7, <1>8, <1>9, <1>10, <1>11, <1>12

(* A stage is complete: what was applied stays the same. *)
LEMMA NextStageInv ==
    ASSUME PolicyInv, NextStage
    PROVE  PolicyInv'
<1> USE DEF PolicyInv, NextStage, EnterStage, tracker
<1>1. /\ Valid(policy) /\ policy \in Policies /\ Len(policy.stageOrder) \in Nat
      /\ DOMAIN policy.stageOrder = 1 .. Len(policy.stageOrder)
      /\ UNCHANGED <<policy, request, phase, effective, seen, applied, warnings>> /\ phase = "resolving"
      /\ stage \in DOMAIN policy.stageOrder /\ stage' = stage + 1 /\ left = {}
  BY PolicyShape DEF Progress, Booted
<1>2. PolicyTypeOK'
  BY <1>1 DEF PolicyTypeOK, Matching, Layers
<1>3. Booted' /\ Progress' /\ OneSeen' /\ LeftIsStronger'
  BY <1>1 DEF Booted, Progress, OneSeen, LeftIsStronger
<1>4. TraceExplains' /\ PolicySettingsValid'
  BY <1>1 DEF TraceExplains, Printers, Printed, PolicySettingsValid
<1>5. StrongestSoFar'
  <2>1. \A f : Setters(f)' = Setters(f)
    BY <1>1 DEF Setters, Rules
  <2>2. \A t : Past(t)' <=> Past(t) \/ Now(t)
    BY <1>1 DEF Past, Now
  <2>3. ASSUME NEW f, NEW o \in Setters(f), Now(o[1])' PROVE o[2] \in left'
    <3>1. PICK s \in Range(policy.stageOrder) : o \in {s} \X Matching(policy, s, request)
      BY DEF Setters
    <3>2. o[1] = s /\ o[2] \in Matching(policy, s, request)
      BY <3>1
    <3>3. QED
      BY <1>1, <2>3, <3>2 DEF Now
  <2>4. \A f : SettersSoFar(f)' = SettersSoFar(f)
    BY <1>1, <2>1, <2>2, <2>3 DEF SettersSoFar
  <2>5. \A u, v : (Stronger(u, v)' <=> Stronger(u, v)) /\ Rules(u)' = Rules(u)
    BY <1>1 DEF Stronger, Rank, Priority, Rules
  <2>6. \A f \in Fields : Unset(f) => Unset(f)'
    BY <1>1, <2>4 DEF Unset
  <2>7. \A f, u : Wins(u, f) => Wins(u, f)'
    BY <1>1, <2>4, <2>5 DEF Wins
  <2>8. \A f \in Fields : Unset(f)' \/ \E u \in SettersSoFar(f)' : Wins(u, f)'
    BY <2>4, <2>6, <2>7 DEF StrongestSoFar
  <2>9. QED
    BY <2>8 DEF StrongestSoFar
<1>6. QED
  BY <1>2, <1>3, <1>4, <1>5

LEMMA PolicyStep == PolicyInv /\ [PolicyNext]_policyVars => PolicyInv'
<1> SUFFICES ASSUME PolicyInv, [PolicyNext]_policyVars PROVE PolicyInv'
  OBVIOUS
<1>1. CASE Boot
  <2>1. /\ UNCHANGED <<policy, request, stage, left, effective, tracker>>
        /\ phase = "boot" /\ phase' = IF Valid(policy) THEN "ready" ELSE "rejected"
    BY <1>1 DEF Boot
  <2>2. Booted' /\ Progress'
    BY <2>1 DEF PolicyInv, Booted, Progress, tracker
  <2>3. QED
    BY <2>1, <2>2, SameResolution DEF PolicyInv
<1>2. CASE Resolved
  <2>1. stage = Len(policy.stageOrder) + 1
    BY <1>2, PolicyShape DEF Resolved, PolicyInv, PolicyTypeOK, Progress
  <2>2. QED
    BY <1>2, <2>1, SameResolution DEF Resolved, PolicyInv, Booted, Progress
<1>3. CASE UNCHANGED policyVars
  <2>1. UNCHANGED <<policy, phase, request, stage, left, effective, tracker>>
    BY <1>3 DEF policyVars, tracker
  <2>2. phase' \in {"boot", "rejected", "ready", "resolving"}
    BY <2>1 DEF PolicyInv, PolicyTypeOK
  <2>3. Booted' /\ Progress'
    BY <2>1 DEF PolicyInv, Booted, Progress, tracker
  <2>4. QED
    BY <2>1, <2>2, <2>3, SameResolution DEF PolicyInv
<1>4. QED
  BY <1>1, <1>2, <1>3, ReceiveInv, DefaultInv, OverrideInv, NextStageInv DEF PolicyNext

LEMMA PolicyInvariance == PolicySpec => []PolicyInv
BY PolicyInitInv, PolicyStep, PTL DEF PolicySpec

-----------------------------------------------------------------------------
(* Every state is of its type, and the trace lists layers of the policy.   *)
THEOREM PolicyTypeCorrect == PolicySpec => []PolicyTypeOK
<1>1. PolicyInv => PolicyTypeOK
  BY DEF PolicyInv
<1>2. QED
  BY <1>1, PolicyInvariance, PTL

(* Each setting is that of the strongest override that matches the request *)
(* and sets it, else of the default rules, else of the base.               *)
THEOREM PrecedenceHolds == PolicySpec => []StrongestOverrideWins
<1>1. ASSUME PolicyInv, Done PROVE \A f : SettersSoFar(f) = Setters(f)
  <2>1. /\ stage = Len(policy.stageOrder) + 1 /\ Len(policy.stageOrder) \in Nat
        /\ DOMAIN policy.stageOrder = 1 .. Len(policy.stageOrder)
    BY <1>1, PolicyShape DEF PolicyInv, Progress, Done
  <2>2. \A s \in Range(policy.stageOrder) : Past(s)
    BY <2>1 DEF Past, Range
  <2>3. ASSUME NEW f, NEW o \in Setters(f) PROVE Past(o[1])
    <3>1. PICK s \in Range(policy.stageOrder) : o \in {s} \X Matching(policy, s, request)
      BY <2>3 DEF Setters
    <3>2. QED
      BY <2>2, <3>1
  <2>4. QED
    BY <2>3 DEF SettersSoFar
<1>2. ASSUME PolicyInv, Done PROVE stage # 0
  BY <1>2, PolicyShape DEF PolicyInv, Progress, Done
<1>3. PolicyInv => StrongestOverrideWins
  BY <1>1, <1>2 DEF StrongestOverrideWins, PolicyInv, StrongestSoFar, Wins, Unset
<1>4. QED
  BY <1>3, PolicyInvariance, PTL

(* A field has a warning exactly if the layers do not all print the same.  *)
THEOREM TraceIsComplete == PolicySpec => []WarnedIffOverwritten
<1>1. PolicyInv => WarnedIffOverwritten
  BY DEF PolicyInv, WarnedIffOverwritten, TraceExplains, Printers, Printed
<1>2. QED
  BY <1>1, PolicyInvariance, PTL

(* No invalid setting comes from a policy, in any layer of any resolution. *)
THEOREM SettingsStayValid == PolicySpec => []PolicySettingsValid
<1>1. PolicyInv => PolicySettingsValid
  BY DEF PolicyInv
<1>2. QED
  BY <1>1, PolicyInvariance, PTL
=============================================================================
