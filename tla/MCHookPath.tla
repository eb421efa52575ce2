---------------------------- MODULE MCHookPath ----------------------------
(* Hooks with and without the endpoint id, mostly with a stale scope, on a *)
(* session, on a channel that only the endpoint's policy denies, with a    *)
(* canned response, with no text; malformed names; an endpoint allowed or  *)
(* denied by name.  Letters stand for words: the scope e:b is endpoint:bot *)
(* and a:l is acme:legal.                                                  *)
EXTENDS MCEndpointReindex, HookPath

MCLower(name) ==
    [i \in DOMAIN name |-> CASE name[i] = "W" -> "w" [] name[i] = "E" -> "e" [] name[i] = "B" -> "b"
                              [] OTHER -> name[i]]

MCAlphanumeric == {"a", "b", "e", "l", "s", "t", "w", "B", "E", "W"}

MCCharacter == MCAlphanumeric \cup {".", "_", "-", ":", "/"}

MCEndpointPrefix == <<"e">>

MCEndpoint == <<"b">>

Stale == <<"a", ":", "l">>

MCLinkedOut == {<<"a", ":", "s">>}

Scopes == {EndpointScope(MCEndpoint), Stale, <<"e", ":", ".", "b">>}

Open == [denyScopes |-> {}, respond |-> {{"help"}}, allowScopes |-> {},
         denyChannels |-> {<<"w">>}, allowChannels |-> {}, denyProviders |-> {},
         allowProviders |-> {{<<"t">>}}]

(* The endpoint keeps the default rules, or is denied by name, and believes *)
(* an LLM more easily; the other scope is dispatched at any confidence.     *)
Policy(deny) ==
    [s \in Scopes |->
        IF s = Stale
        THEN [filter |-> [Open EXCEPT !.denyChannels = {}], sets |-> [min |-> 0]]
        ELSE [filter |-> [Open EXCEPT !.denyScopes = deny], sets |-> [llmMin |-> 0]]]

MCPolicyFiles ==
    [path \in {"default", "open", "deny", "bad", "gone"} |->
        CASE path = "open" -> Policy({})
          [] path = "deny" -> Policy({<<"E", ":", "B">>})
          [] path = "bad" -> Garbage
          [] OTHER -> NoFile]

(* Nothing is set; a low threshold; thresholds and a limit out of reach     *)
(* (NaN is met by no confidence); an LLM; what does not parse, a missing    *)
(* path of a secret, an unreadable secret, a broken policy.                 *)
Unset == [min |-> {}, llmMin |-> {}, limit |-> {}, provider |-> {}, ollamaModel |-> FALSE,
          secrets |-> FALSE, policyPath |-> {}]

WithLlm == [Unset EXCEPT !.provider = {"openai"}, !.secrets = TRUE, !.policyPath = {"open"}]

MCEnvironments ==
    {Unset, WithLlm,
     [Unset EXCEPT !.min = {0}, !.policyPath = {"deny"}],
     [Unset EXCEPT !.min = {2}, !.provider = {"disabled"}, !.policyPath = {"gone"}],
     [WithLlm EXCEPT !.limit = {0}, !.provider = {"ollama"}, !.ollamaModel = TRUE],
     [WithLlm EXCEPT !.min = {Garbage}],
     [WithLlm EXCEPT !.provider = {"ollama"}],
     [WithLlm EXCEPT !.secrets = FALSE],
     [WithLlm EXCEPT !.policyPath = {"bad"}]}

MCMatches(text) == IF text = "refund" THEN Packs ELSE {}

Hook(endpoint, channel, session, text) ==
    [entry |-> "host", scope |-> Stale, endpoint |-> endpoint, session |-> session,
     channel |-> channel, provider |-> {<<"t">>}, text |-> text, budget |-> 1]

HostHooks ==
    {Hook({MCEndpoint}, {}, FALSE, text) : text \in {"refund", "help", ""}}
    \cup {Hook({MCEndpoint}, {<<"W">>}, FALSE, "refund"), Hook({MCEndpoint}, {}, TRUE, "refund"),
          Hook({}, {<<"W">>}, FALSE, "refund"), Hook({<<".", "b">>}, {}, FALSE, "refund")}

(* Messages to the components. *)
To(entry, endpoint, scope, text, session) ==
    [entry |-> entry, scope |-> scope, endpoint |-> endpoint, session |-> session,
     channel |-> {}, provider |-> {<<"t">>}, text |-> text, budget |-> 1]

WitHooks ==
    {To("wit", {}, scope, "refund", FALSE) :
        scope \in {<<>>, EndpointScope(MCEndpoint), <<"e", ":", ":", "b">>}}
    \cup {To("wit", {id}, Stale, "refund", FALSE) : id \in {MCEndpoint, <<".", "b">>}}

ComponentHooks ==
    {To("component", {}, EndpointScope(MCEndpoint), "refund", FALSE),
     To("component", {}, <<"a", ":", "s">>, "refund", FALSE),
     To("component", {}, EndpointScope(MCEndpoint), "", FALSE),
     To("component", {}, EndpointScope(MCEndpoint), "help", TRUE)}

MCHooks == HostHooks \cup WitHooks \cup ComponentHooks

(* Builds are only compared for equality. *)
BuildSymmetry == Permutations(Builds)

(* Before the hook is there, the router has seen some other request. *)
MCRequests ==
    {[budget |-> 0, verdicts |-> <<>>, blank |-> TRUE, candidates |-> {}, best |-> {},
      llm |-> FALSE, min |-> 0, llmMin |-> 0]}

MCNoRules ==
    [denyScopes |-> {}, respond |-> {}, allowScopes |-> {}, denyChannels |-> {},
     allowChannels |-> {}, denyProviders |-> {}, allowProviders |-> {}]
=============================================================================
