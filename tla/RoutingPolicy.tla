--------------------------- MODULE RoutingPolicy ---------------------------
(***************************************************************************)
(* The policy of a host (crates/fast2flow-routing-gtpack, policy.rs): it   *)
(* is validated when the host boots, and resolved anew for every request   *)
(* from the host's base settings, layer upon layer: the default rules,     *)
(* then the matching overrides of each stage.                              *)
(*                                                                         *)
(* A rule is a function from the fields that it sets.  A policy has        *)
(*   default     a rule                                                    *)
(*   overrides   per stage, a sequence of [key, priority, rules]           *)
(*   stageOrder  a sequence of stages                                      *)
(* A host without a policy resolves as one whose policy sets nothing.      *)
(* A request gives each stage a name, an option: a set of one or none.     *)
(***************************************************************************)
EXTENDS Integers, Sequences, FiniteSets, Functions

CONSTANTS
    Fields,         \* min_confidence, deny_channels and so on
    Base,           \* the settings of the host, from its environment
    Policies,       \* the policies that a host may be given
    Requests,       \* the names that requests carry
    ValidValue(_, _),   \* validate_policy_rule on one field of a rule
    Rendered(_, _), \* a field's value as the trace prints it: "{:.4}" or JSON
    Lower(_)        \* a name in ASCII lower case

Stages == {"scope", "channel", "provider"}

ASSUME PoliciesAreSound ==
    /\ DOMAIN Base = Fields
    /\ \A p \in Policies :
          /\ p.stageOrder \in Seq(Stages)
          /\ DOMAIN p.default \subseteq Fields
          /\ \A s \in Stages : \A i \in DOMAIN p.overrides[s] :
                /\ i \in Nat /\ p.overrides[s][i].priority \in Int
                /\ DOMAIN p.overrides[s][i].rules \subseteq Fields

VARIABLES
    policy,     \* the policy that the host was given
    phase,      \* "boot", "rejected", "ready" or "resolving"
    request,    \* the request last received
    stage,      \* the place in stage_order, 0 before the default rules
    left,       \* the matching overrides of the stage that are still to apply
    effective,  \* its settings so far
    seen,       \* per field, what set it last in this resolution (an option)
    applied,    \* the trace: layers that were applied, in order
    warnings    \* the trace: fields overwritten with another value

tracker == <<seen, applied, warnings>>
policyVars == <<policy, phase, request, stage, left, effective, seen, applied, warnings>>

PolicyInit ==
    /\ policy \in Policies
    /\ phase = "boot"
    /\ request \in Requests
    /\ stage = 0
    /\ left = {}
    /\ effective = Base
    /\ seen = [f \in Fields |-> {}]
    /\ applied = <<>>
    /\ warnings = {}

-----------------------------------------------------------------------------
(* validate_policy *)

ValidRule(rule) == \A f \in DOMAIN rule : ValidValue(f, rule[f])

(* Mutant: only the default rules are validated. *)
ValidDefault(p) ==
    /\ p.stageOrder # <<>>
    /\ IsInjective(p.stageOrder)
    /\ ValidRule(p.default)

Valid(p) ==
    /\ p.stageOrder # <<>>
    /\ IsInjective(p.stageOrder)
    /\ ValidRule(p.default)
    /\ \A s \in Stages : \A i \in DOMAIN p.overrides[s] :
           p.overrides[s][i].key # "" /\ ValidRule(p.overrides[s][i].rules)

(* A host boots only with a valid policy, so the fallbacks of              *)
(* resolve_policy for an empty or repeated stage order are never taken.    *)
Boot ==
    /\ phase = "boot"
    /\ phase' = IF Valid(policy) THEN "ready" ELSE "rejected"
    /\ UNCHANGED <<policy, request, stage, left, effective, tracker>>

-----------------------------------------------------------------------------
(* resolve_policy *)

(* The overrides of a stage that name the request. *)
Matching(p, s, r) ==
    {i \in DOMAIN p.overrides[s] :
        \E name \in r[s] : Lower(p.overrides[s][i].key) = Lower(name)}

(* Mutant: the highest priority is applied first. *)
BeforeByRank(p, s, i, j) ==
    LET pi == p.overrides[s][i].priority
        pj == p.overrides[s][j].priority
    IN  pi > pj \/ (pi = pj /\ i < j)

(* They are sorted: the highest priority last, in the policy's order where *)
(* priorities are equal.                                                   *)
Before(p, s, i, j) ==
    LET pi == p.overrides[s][i].priority
        pj == p.overrides[s][j].priority
    IN  pi < pj \/ (pi = pj /\ i < j)

(* The base settings are cloned for each request, with a new tracker. *)
Receive(r) ==
    /\ phase = "ready"
    /\ phase' = "resolving"
    /\ request' = r
    /\ stage' = 0
    /\ left' = {}
    /\ effective' = Base
    /\ seen' = [f \in Fields |-> {}]
    /\ applied' = <<>>
    /\ warnings' = {}
    /\ UNCHANGED policy

(* Mutant: it warns of a rule that repeats what was set, too. *)
OverwrittenAtAll(rules) == {f \in DOMAIN rules : seen[f] # {}}

(* track_set, on each field of a rule: warn of a value that differs from   *)
(* the previous one, and remember this one.                                *)
Overwritten(rules) ==
    {f \in DOMAIN rules : \E last \in seen[f] : last.value # Rendered(f, rules[f])}

Track(source, rules) ==
    /\ warnings' = warnings \cup {[field |-> f, by |-> source] : f \in Overwritten(rules)}
    /\ seen' = [f \in Fields |->
                   IF f \in DOMAIN rules THEN {[source |-> source, value |-> Rendered(f, rules[f])]}
                   ELSE seen[f]]
    /\ applied' = Append(applied, [source |-> source, rules |-> rules])

(* A field is replaced whole, lists too. *)
Overlay(settings, rules) ==
    [f \in Fields |-> IF f \in DOMAIN rules THEN rules[f] ELSE settings[f]]

(* apply_policy_rule *)
Apply(source, rules) ==
    /\ effective' = Overlay(effective, rules)
    /\ Track(source, rules)
    /\ UNCHANGED <<policy, phase, request>>

(* Each stage collects its matching overrides when its turn comes. *)
EnterStage(k) ==
    /\ stage' = k
    /\ left' = IF k \in DOMAIN policy.stageOrder
               THEN Matching(policy, policy.stageOrder[k], request) ELSE {}

ApplyDefault ==
    /\ phase = "resolving" /\ stage = 0
    /\ Apply(<<"default", 0>>, policy.default)
    /\ EnterStage(1)

ApplyOverride ==
    /\ phase = "resolving" /\ stage \in DOMAIN policy.stageOrder
    /\ LET s == policy.stageOrder[stage] IN
       \E i \in left :
          /\ \A j \in left \ {i} : Before(policy, s, i, j)
          /\ Apply(<<s, i>>, policy.overrides[s][i].rules)
          /\ left' = left \ {i}
    /\ UNCHANGED stage

NextStage ==
    /\ phase = "resolving" /\ stage \in DOMAIN policy.stageOrder
    /\ left = {}
    /\ EnterStage(stage + 1)
    /\ UNCHANGED <<policy, phase, request, effective, tracker>>

Resolved ==
    /\ phase = "resolving" /\ stage > Len(policy.stageOrder)
    /\ phase' = "ready"
    /\ UNCHANGED <<policy, request, stage, left, effective, tracker>>

PolicyNext ==
    \/ Boot
    \/ \E r \in Requests : Receive(r)
    \/ ApplyDefault
    \/ ApplyOverride
    \/ NextStage
    \/ Resolved

PolicySpec == PolicyInit /\ [][PolicyNext]_policyVars

-----------------------------------------------------------------------------
Sources == (Stages \cup {"default"}) \X Nat

(* The layers that the policy has. *)
Layers ==
    {[source |-> <<"default", 0>>, rules |-> policy.default]}
    \cup UNION {{[source |-> <<s, i>>, rules |-> policy.overrides[s][i].rules] :
                    i \in DOMAIN policy.overrides[s]} : s \in Stages}

PolicyTypeOK ==
    /\ phase \in {"boot", "rejected", "ready", "resolving"}
    /\ request \in Requests
    /\ DOMAIN effective = Fields
    /\ \A f \in Fields : Cardinality(seen[f]) <= 1
    /\ stage \in 0 .. Len(policy.stageOrder) + 1
    /\ left # {} => left \subseteq DOMAIN policy.overrides[policy.stageOrder[stage]]
    /\ applied \in Seq(Layers)
    /\ \A w \in warnings : w.field \in Fields /\ w.by \in Sources

Done == phase = "ready" /\ applied # <<>>

(* The overrides that set a field for the request, and which of two is     *)
(* stronger: by stage, then by priority, then by place in the policy.      *)
Rules(o) == policy.overrides[o[1]][o[2]].rules
Priority(o) == policy.overrides[o[1]][o[2]].priority
Rank(s) == CHOOSE k \in DOMAIN policy.stageOrder : policy.stageOrder[k] = s

Setters(f) ==
    {o \in UNION {{s} \X Matching(policy, s, request) : s \in Range(policy.stageOrder)} :
        f \in DOMAIN Rules(o)}

Stronger(o, u) ==
    \/ Rank(o[1]) > Rank(u[1])
    \/ o[1] = u[1] /\ Priority(o) > Priority(u)
    \/ o[1] = u[1] /\ Priority(o) = Priority(u) /\ o[2] > u[2]

(* Precedence: each setting is that of the strongest override that matches *)
(* the request and sets it, else of the default rules, else of the base,   *)
(* whatever requests were resolved before.                                 *)
StrongestOverrideWins ==
    Done => \A f \in Fields :
        \/ \E o \in Setters(f) :
              /\ \A u \in Setters(f) \ {o} : Stronger(o, u)
              /\ effective[f] = Rules(o)[f]
        \/ /\ Setters(f) = {}
           /\ effective[f] = Overlay(Base, policy.default)[f]

(* The trace explains the settings: a field has a warning exactly if the   *)
(* layers that were applied do not all print the same value for it.        *)
WarnedIffOverwritten ==
    Done => \A f \in Fields :
        (\E w \in warnings : w.field = f)
        <=> \E i, j \in {k \in DOMAIN applied : f \in DOMAIN applied[k].rules} :
               Rendered(f, applied[i].rules[f]) # Rendered(f, applied[j].rules[f])

(* A policy never brings an invalid setting into routing, at any layer:    *)
(* what validate_policy did not see can come from the base only.           *)
PolicySettingsValid ==
    \A f \in Fields : ValidValue(f, effective[f]) \/ effective[f] = Base[f]
=============================================================================
