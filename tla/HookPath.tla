----------------------------- MODULE HookPath -----------------------------
(***************************************************************************)
(* One inbound hook on its way to a directive (crates/                     *)
(* fast2flow-routing-gtpack, components/router), while the toolchain links *)
(* packs to an endpoint and reindexes it.  It enters through               *)
(*   host       the routing host, a process of its own: boot from the      *)
(*              environment, canonicalize the scope, resolve the policy    *)
(*   wit        handle_hook of the WebAssembly component, which routes     *)
(*              with the runtime that was installed in it, without policy  *)
(*   component  route_intent of the router component, with default         *)
(*              settings, without policy and endpoints                     *)
(* and then all load the index of the scope and route.                     *)
(*                                                                         *)
(* A hook has scope and endpoint (its messaging_endpoint_id, an option) as *)
(* names, session, channel, provider (options), text, budget and entry.    *)
(* Of all scopes only that of one endpoint is indexed.  A flow is named by *)
(* its pack.                                                               *)
(***************************************************************************)
EXTENDS EndpointReindex, CoreRoute, HookFilter, ScopeNames, HostConfig

CONSTANTS
    Endpoint,           \* the endpoint that is indexed
    Caller,             \* the load of the hook
    Hooks,              \* the inbound hooks
    Environments,       \* the environments to boot in
    Matches(_),         \* the packs whose flow scores above zero on a text
    NoRules,            \* DefaultHookFilter::default()
    MaxInstalls         \* bound: how often a runtime is installed

HookIn ==
    [entry : {"host", "wit", "component"}, scope : Seq(Character), endpoint : SUBSET Seq(Character),
     session : BOOLEAN, channel : SUBSET Seq(Character), provider : SUBSET Seq(Character),
     text : STRING, budget : Nat]

(* An id and a scope have any characters; Fast2FlowRouteRequest has no id. *)
ASSUME HooksAreSound ==
    /\ Hooks \subseteq HookIn
    /\ \A h \in Hooks : /\ \A a, b \in h.endpoint : a = b
                        /\ h.entry = "component" => h.endpoint = {}

ASSUME CallerLoads == Caller \in Loads

(* Thresholds are levels, wherever they are set; each path holds something. *)
ASSUME ThresholdsAreLevels ==
    /\ DefaultConfidence \in Nat
    /\ \A env \in Environments :
          env.min \subseteq Nat \cup {Garbage} /\ env.policyPath \subseteq DOMAIN PolicyFiles
    /\ DefaultPolicyPath \in DOMAIN PolicyFiles
    /\ \A path \in DOMAIN PolicyFiles :
          PolicyFiles[path] \notin {Garbage, NoFile} =>
              LET sets == PolicyFiles[path][EndpointScope(Endpoint)].sets IN
              "min" \in DOMAIN sets => sets.min \in Nat

VARIABLES
    host,       \* router settings and policy of the host, an option
    runtime,    \* ROUTING_RUNTIME: the router settings of the component, an option
    hook,       \* the inbound hook
    filter,     \* the effective filter of the request
    okBefore,   \* history: the reindexes that had returned Ok when it came
    installs    \* history: the runtimes that were to be installed

hookVars == <<host, runtime, hook, filter, okBefore, installs>>
pathVars == <<allVars, routeVars, hookVars>>

PathInit ==
    /\ ReindexInit
    /\ RouteInit
    /\ host = {}
    /\ runtime = {}
    /\ hook \in Hooks
    /\ filter = NoRules
    /\ okBefore = {}
    /\ installs = <<>>

(* Reindexing goes on around the request, until it has its directive. *)
Background == pc # "done" /\ ReindexNext /\ UNCHANGED <<routeVars, hookVars>>

EffectiveScope(h) ==
    IF h.endpoint = {} THEN h.scope
    ELSE EndpointScope(CHOOSE e \in h.endpoint : TRUE)

(* Mutant: the policy is resolved for the scope that the caller sent. *)
CanonicalizeLate(h) == h

Canonicalize(h) == [h EXCEPT !.scope = EffectiveScope(h)]

(* The hook goes on to the index. *)
Proceed(rules) ==
    /\ pc' = "load"
    /\ filter' = rules
    /\ okBefore' = {b \in Builds : reply[b] = "ok"}
    /\ UNCHANGED <<allVars, runtime, installs, req, at, clockVars, out>>

At(entry) == pc = "idle" /\ hook.entry = entry

-----------------------------------------------------------------------------
(* The host *)

(* The process ends with an error, and there is no directive. *)
Exit ==
    /\ Return([kind |-> "exit"])
    /\ UNCHANGED <<allVars, hookVars>>

EndpointIdParses(h) == \A id \in h.endpoint : ValidEndpointId(id)

(* The hook does not parse, or an invalid setting, secret or policy.        *)
BootFails ==
    /\ At("host")
    /\ \/ ~EndpointIdParses(hook)
       \/ \E env \in Environments : HostFromEnv(env) = {}
    /\ Exit

(* extract_entities runs first, and mark can panic on any text.             *)
ExtractPanics == At("host") /\ hook.text # "" /\ Exit

(* RoutingPolicy resolves a policy; here it has, for each scope, its filter *)
(* and those of the router settings that it sets.                           *)
ResolveRequestPolicy(booted, h) ==
    IF booted.policy = NoFile THEN [filter |-> NoRules, router |-> booted.router]
    ELSE LET rules == booted.policy[h.scope] IN
         [filter |-> rules.filter,
          router |-> [f \in DOMAIN booted.router |->
                         IF f \in DOMAIN rules.sets THEN rules.sets[f] ELSE booted.router[f]]]

(* route_from_mounts: the policy is resolved for the canonical scope.       *)
Arrive ==
    /\ At("host")
    /\ EndpointIdParses(hook)
    /\ \E env \in Environments : \E booted \in HostFromEnv(env) :
          /\ host' = {booted}
          /\ hook' = Canonicalize(hook)
          /\ Proceed(ResolveRequestPolicy(booted, hook').filter)

-----------------------------------------------------------------------------
(* The WebAssembly component *)

(* Mutant: the last runtime stays. *)
InstallLast ==
    /\ At("wit") /\ Len(installs) < MaxInstalls
    /\ \E env \in Environments : \E router \in RouterFromEnv(env, TRUE) :
          /\ runtime' = {router}
          /\ installs' = Append(installs, router)
    /\ UNCHANGED <<allVars, routeVars, host, hook, filter, okBefore>>

(* install_mounted_runtime_from_env: OnceLock::set fails when it is set.    *)
Install ==
    /\ At("wit") /\ Len(installs) < MaxInstalls
    /\ \E env \in Environments : \E router \in RouterFromEnv(env, TRUE) :
          /\ runtime' = IF runtime = {} THEN {router} ELSE runtime
          /\ installs' = Append(installs, router)
    /\ UNCHANGED <<allVars, routeVars, host, hook, filter, okBefore>>

(* A scope that no endpoint overrides is validated as well, unless empty. *)
WellNamed(h) ==
    /\ EndpointIdParses(h)
    /\ h.endpoint = {} /\ h.scope # <<>> => ValidScope(h.scope)

HandleHookFails ==
    /\ At("wit")
    /\ ~WellNamed(hook) \/ runtime = {}
    /\ Return(Continue)
    /\ UNCHANGED <<allVars, hookVars>>

HandleHook ==
    /\ At("wit")
    /\ WellNamed(hook) /\ runtime # {}
    /\ Proceed(NoRules)
    /\ UNCHANGED <<host, hook>>

-----------------------------------------------------------------------------
(* route_intent, which answers these before it loads anything *)

NothingToRoute == hook.budget = 0 \/ hook.text = ""

ReturnEarly ==
    /\ At("component")
    /\ NothingToRoute
    /\ Return(Continue)
    /\ UNCHANGED <<allVars, hookVars>>

RouteIntent ==
    /\ At("component")
    /\ ~NothingToRoute
    /\ Proceed(NoRules)
    /\ UNCHANGED <<host, hook>>

-----------------------------------------------------------------------------
(* handle_hook_from_mounts: load_latest in the directory of the scope,      *)
(* which is canonicalized here for those entries that have not done so.     *)
Located == [hook EXCEPT !.scope = EffectiveScope(hook)]

Indexed ==
    /\ UnderRoot(Located.scope)
    /\ Located.scope = EndpointScope(Endpoint)

LoadIndex ==
    /\ pc = "load"
    /\ Indexed
    /\ ReadLatest(Caller) \/ ReadIndex(Caller)
    /\ UNCHANGED <<reindexVars, routeVars, hookVars>>

LoadFails ==
    /\ pc = "load"
    /\ ~Indexed \/ step[Caller] = "miss"
    /\ Return(Continue)
    /\ UNCHANGED <<allVars, hookVars>>

(* RouterConfig::default *)
DefaultRouter ==
    [min |-> DefaultConfidence, llmMin |-> DefaultConfidence, limit |-> DefaultLimit, llm |-> FALSE]

Settings ==
    CASE hook.entry = "host" -> {ResolveRequestPolicy(booted, hook).router : booted \in host}
      [] hook.entry = "wit" -> runtime
      [] hook.entry = "component" -> {DefaultRouter}

(* Mutant: the search takes the index that is there now, not the loaded one. *)
SearchesAgain(limit) ==
    LET found == call[file["index.json"]].corpus \cap Matches(hook.text) IN
    {c \in SUBSET found : \/ c = found /\ Cardinality(c) <= limit
                          \/ Cardinality(c) = limit /\ limit < Cardinality(found)}

(* MountedIndexLookup::search answers for the scope it was loaded for: as   *)
(* many candidates as the limit admits.                                     *)
Searches(limit) ==
    LET found == call[seen[Caller]].corpus \cap Matches(hook.text) IN
    {c \in SUBSET found : \/ c = found /\ Cardinality(c) <= limit
                          \/ Cardinality(c) = limit /\ limit < Cardinality(found)}

Choices(candidates) ==
    IF candidates = {} THEN {{}}
    ELSE {{[target |-> p, confidence |-> c]} : p \in candidates, c \in Confidence}

EnterRouter ==
    /\ pc = "load"
    /\ step[Caller] = "hit"
    /\ \E router \in Settings : \E candidates \in Searches(router.limit) :
       \E best \in Choices(candidates) :
           Start([budget |-> hook.budget,
                  verdicts |-> <<Evaluate(filter, Located)>>,
                  blank |-> hook.text = "",
                  candidates |-> candidates,
                  best |-> best,
                  llm |-> router.llm,
                  min |-> router.min,
                  llmMin |-> router.llmMin])
    /\ UNCHANGED <<allVars, hookVars>>

RouteStep ==
    /\ pc \notin {"idle", "load"}
    /\ RouteNext
    /\ UNCHANGED <<allVars, hookVars>>

PathNext ==
    \/ Background
    \/ BootFails
    \/ ExtractPanics
    \/ Arrive
    \/ Install
    \/ HandleHookFails
    \/ HandleHook
    \/ ReturnEarly
    \/ RouteIntent
    \/ LoadIndex
    \/ LoadFails
    \/ EnterRouter
    \/ RouteStep

PathSpec == PathInit /\ [][PathNext]_pathVars

-----------------------------------------------------------------------------
(* To a hook all this is one atomic look at what its endpoint serves, and  *)
(* one directive that follows from it.                                     *)
CorpusServed ==
    IF file["latest"] = "pointer" THEN {call[file["index.json"]].corpus} ELSE {}

Stage ==
    CASE pc = "idle" -> "new"
      [] pc = "done" -> "answered"
      [] OTHER -> "open"

CorpusLoaded == IF step[Caller] = "hit" THEN {call[seen[Caller]].corpus} ELSE {}

Service == INSTANCE HookService WITH
    relevant <- Matches(hook.text),
    served <- CorpusServed,
    stage <- Stage,
    snapshot <- CorpusLoaded,
    answer <- out

ImplementsService == Service!ServiceSpec

Dispatched == pc = "done" /\ out.kind = "dispatch"

(* Eviction reaches the user: a flow of a pack that a reindex left out     *)
(* before the hook came is not dispatched by the strategy, unless a later  *)
(* reindex admitted the pack again.                                        *)
DispatchHonoursEviction ==
    Dispatched /\ out.source = "strategy" =>
        \A b \in okBefore :
            \/ out.target \in call[b].corpus
            \/ \E c \in Builds : /\ call[c].generatedAt > call[b].generatedAt
                                 /\ out.target \in call[c].corpus

(* No split brain: what let a request through are the settings that apply  *)
(* to it.  At the host that is the policy of the scope whose index was     *)
(* searched, whatever stale scope the caller sent, over the thresholds of  *)
(* its environment; in the WebAssembly component the runtime that was      *)
(* installed first, and no LLM.                                            *)
DispatchedByItsSettings ==
    Dispatched =>
        /\ hook.entry = "host" =>
              \E booted \in host :
                 LET searched == [hook EXCEPT !.scope = EndpointScope(Endpoint)]
                     own == ResolveRequestPolicy(booted, searched) IN
                 /\ Evaluate(own.filter, searched) = "proceed"
                 /\ IF out.source = "llm"
                    THEN own.router.llm /\ out.confidence >= own.router.llmMin
                    ELSE out.confidence >= own.router.min
        /\ hook.entry = "wit" =>
              /\ installs # <<>>
              /\ out.source = "strategy"
              /\ out.confidence >= installs[1].min

(* Endpoint ids and scopes are validated apart, by rules of their own: a   *)
(* hook whose endpoint id is accepted must not be turned away later for    *)
(* the scope that is made of it.                                           *)
EndpointIsNeverMisnamed == pc = "load" /\ hook.endpoint # {} => ValidScope(Located.scope)

(* A denied scope is denied once its index could be loaded. *)
DeniedHook ==
    /\ hook.entry = "host" /\ hook.budget > 0 /\ ~hook.session
    /\ \E s \in filter.denyScopes : Lower(s) = Lower(hook.scope)

DeniedOnceIndexed ==
    pc = "done" /\ DeniedHook => out.kind = "deny" \/ step[Caller] # "hit"

(* Policy checks run first and can deny a request early: a request of a    *)
(* denied scope is answered with Deny.                                     *)
DeniedEarly == pc = "done" /\ DeniedHook => out.kind = "deny"
=============================================================================
