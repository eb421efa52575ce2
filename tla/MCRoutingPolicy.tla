--------------------------- MODULE MCRoutingPolicy ---------------------------
(* Two scope overrides of any priority, one of a channel and one of a       *)
(* provider, in three stage orders and one that repeats a stage.  A         *)
(* confidence of 3 prints like 2; 9 is out of range.                        *)
EXTENDS RoutingPolicy, SequencesExt

MCFields == {"min_confidence", "deny_channels"}
MCBase == [min_confidence |-> 1, deny_channels |-> {}]

MCValidValue(f, v) == f = "min_confidence" => v \in 0..4
MCRendered(f, v) == IF f = "min_confidence" /\ v = 3 THEN 2 ELSE v
MCLower(name) == IF name = "ACME" THEN "acme" ELSE name

Override(keys, priorities, rules) == [key : keys, priority : priorities, rules : rules]

ScopeRules == {[min_confidence |-> 2, deny_channels |-> {}], [min_confidence |-> 3],
               [min_confidence |-> 4]}

ScopeOverrides ==
    BoundedSeq(Override({"ACME", "other"}, {0, 1}, ScopeRules), 2)

ChannelOverrides ==
    {<<>>} \cup {<<o>> : o \in Override({"web"}, {0},
        {[min_confidence |-> 4], [min_confidence |-> 9], [deny_channels |-> {"web"}]})}

ProviderOverrides == {<<>>, <<[key |-> "teams", priority |-> -1, rules |-> [min_confidence |-> 2]]>>}

MCPolicies ==
    [default : {[deny_channels |-> {"sms"}], [min_confidence |-> 4]},
     overrides : [scope : ScopeOverrides, channel : ChannelOverrides, provider : ProviderOverrides],
     stageOrder : {<<"scope", "channel", "provider">>, <<"provider", "channel", "scope">>,
                   <<"channel">>, <<"scope", "scope">>}]

MCRequests == [scope : {{"acme"}}, channel : {{}, {"web"}}, provider : {{"teams"}}]
=============================================================================
