----------------------------- MODULE HostConfig -----------------------------
(***************************************************************************)
(* The settings with which a router is built, from the environment and a   *)
(* policy file (crates/fast2flow-routing-gtpack: config.rs, load_policy_*  *)
(* of policy.rs, HostRuntime::boot_from_env).                              *)
(*                                                                         *)
(* An environment has min, llmMin, limit, provider and policyPath, options *)
(* which are empty if the variable is unset or blank; ollamaModel, whether *)
(* the path of that secret is set; and secrets, whether those that the     *)
(* provider asks for can be read.  A Result is an option too: an error is  *)
(* the empty set.                                                          *)
(***************************************************************************)
EXTENDS Naturals

CONSTANTS
    Garbage,            \* a value that does not parse
    DefaultConfidence,  \* 0.5, of RouterBootstrapConfig::default
    DefaultLimit,       \* 20
    PolicyFiles,        \* what each path holds: a policy, Garbage or NoFile
    DefaultPolicyPath,
    NoFile

(* An error only if the value is there and does not parse. *)
Parsed(setting, default) == IF setting = {} THEN {default} ELSE setting \ {Garbage}

ParseLlm(env) ==
    CASE env.provider \in {{}, {"disabled"}, {"none"}} -> {"disabled"}
      [] env.provider = {"openai"} -> {"openai"}
      [] env.provider = {"ollama"} /\ env.ollamaModel -> {"ollama"}
      [] OTHER -> {}

(* Whether there is a provider; a WebAssembly component can have none. *)
BuildLlm(llm, env, wasm) ==
    CASE llm = "disabled" -> {FALSE}
      [] llm # "disabled" /\ ~wasm /\ env.secrets -> {TRUE}
      [] OTHER -> {}

(* from_env, and build_router_from_config. *)
RouterFromEnv(env, wasm) ==
    UNION {{[min |-> min, llmMin |-> llmMin, limit |-> limit, llm |-> provider] :
                min \in Parsed(env.min, DefaultConfidence),
                llmMin \in Parsed(env.llmMin, DefaultConfidence),
                limit \in Parsed(env.limit, DefaultLimit),
                provider \in BuildLlm(llm, env, wasm)} :
            llm \in ParseLlm(env)}

(* A path at which there is no file means no policy, also if it was set. *)
LoadPolicy(env) ==
    LET path == IF env.policyPath = {} THEN DefaultPolicyPath
                ELSE CHOOSE p \in env.policyPath : TRUE IN
    {PolicyFiles[path]} \ {Garbage}

HostFromEnv(env) ==
    {[router |-> router, policy |-> policy] :
        router \in RouterFromEnv(env, FALSE), policy \in LoadPolicy(env)}
=============================================================================
