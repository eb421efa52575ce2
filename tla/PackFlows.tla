----------------------------- MODULE PackFlows -----------------------------
(***************************************************************************)
(* The flows of packs/fast2flow and the components that they call: the     *)
(* indexer builds an index which index_flows stores under a key, and       *)
(* route_message loads it, matches the message with it and routes on the   *)
(* result.  Each flow is several steps, and flows run side by side.  BM25  *)
(* is abstract: a flow scores if and only if it has a term of the query.   *)
(***************************************************************************)
EXTENDS Integers, Sequences, FiniteSets

CONSTANTS
    Deploys,        \* runs of index_flows
    Runs,           \* runs of route_message
    FlowLists,      \* sequences of flows: [pack, id, terms]
    Teams,          \* "none" is a team_id that is absent
    Queries,        \* sets of terms
    BlockLists,     \* sets of packs, ids, and pairs of both
    Thresholds,     \* in hundredths
    MaxResults,
    MaxScore        \* bounds the scores: only their ratios matter

ASSUME LimitsArePositive ==
    /\ MaxResults \subseteq Nat \ {0}
    /\ Thresholds \subseteq 0 .. 100
    /\ MaxScore \in Nat

ASSUME FlowsAreListed ==
    \A flows \in FlowLists : Len(flows) \in Nat /\ DOMAIN flows = 1 .. Len(flows)

VARIABLES
    stored,     \* the state store: the index under each key (an option)
    deploy,     \* each run of index_flows
    run         \* each run of route_message

vars == <<stored, deploy, run>>

Flows == UNION {{flows[i] : i \in DOMAIN flows} : flows \in FlowLists}

DocId(flow) == <<flow.pack, flow.id>>

(* Mutant: the key leaves the team out. *)
KeyOfTenant(team) == "default"

(* index_key, of one tenant. *)
IndexKey(team) == IF team = "none" THEN "default" ELSE team

Keys == {IndexKey(team) : team \in Teams}

(* Mutant: entries are named by the flow's id alone. *)
TermFrequenciesById(flows) ==
    [id \in {flows[i].id : i \in DOMAIN flows} |->
        flows[CHOOSE i \in DOMAIN flows : flows[i].id = id].terms]

(* Flows with the same pack and id share an entry: the last one's. *)
TermFrequencies(flows) ==
    [doc \in {DocId(flows[i]) : i \in DOMAIN flows} |->
        LET last == CHOOSE i \in DOMAIN flows :
                        /\ DocId(flows[i]) = doc
                        /\ \A j \in DOMAIN flows : DocId(flows[j]) = doc => j <= i
        IN  flows[last].terms]

CreateIndex(flows) == [flows |-> flows, terms |-> TermFrequencies(flows)]

NoIndex == [flows |-> <<>>, terms |-> <<>>]

Init ==
    /\ stored = [key \in Keys |-> {}]
    /\ deploy = [d \in Deploys |-> [pc |-> "idle"]]
    /\ run = [r \in Runs |-> [pc |-> "idle"]]

-----------------------------------------------------------------------------
(* index_flows: extract, then store.  The indexer's update builds as build  *)
(* does, whatever its mode.                                                 *)

Extract(d) ==
    /\ deploy[d].pc = "idle"
    /\ \E flows \in FlowLists, team \in Teams :
          deploy' = [deploy EXCEPT ![d] =
                        [pc |-> "extracted", team |-> team, key |-> IndexKey(team),
                         index |-> CreateIndex(flows)]]
    /\ UNCHANGED <<stored, run>>

Store(d) ==
    /\ deploy[d].pc = "extracted"
    /\ stored' = [stored EXCEPT ![deploy[d].key] = {deploy[d].index}]
    /\ deploy' = [deploy EXCEPT ![d].pc = "stored"]
    /\ UNCHANGED run

-----------------------------------------------------------------------------
(* match_intent: load the index, then do_match_query. *)

NoMatch == [status |-> "no_match", top |-> {}, candidates |-> {}]

LoadIndex(r) ==
    /\ run[r].pc = "idle"
    /\ \E team \in Teams, query \in Queries, blocked \in BlockLists,
          threshold \in Thresholds, limit \in MaxResults :
          LET call == [team |-> team, key |-> IndexKey(team), query |-> query, blocked |-> blocked,
                       threshold |-> threshold, limit |-> limit] IN
          \/ \E index \in stored[call.key] :
                run' = [run EXCEPT ![r] = [pc |-> "loaded", call |-> call, index |-> index]]
          \/ /\ stored[call.key] = {}
             /\ run' = [run EXCEPT ![r] =
                            [pc |-> "matched", call |-> call, index |-> NoIndex,
                             result |-> [NoMatch EXCEPT !.status = "no_index"]]]
    /\ UNCHANGED <<stored, deploy>>

(* What calculate_bm25_scores can return. *)
Scores(index, query) ==
    {score \in [DOMAIN index.flows -> 0 .. MaxScore] :
        \A i, j \in DOMAIN index.flows :
            /\ score[i] > 0 <=> index.terms[DocId(index.flows[i])] \cap query # {}
            /\ DocId(index.flows[i]) = DocId(index.flows[j]) => score[i] = score[j]}

ScoredFlows(flows, score) ==
    {[place |-> i, flow |-> DocId(flows[i]), score |-> score[i]] : i \in DOMAIN flows}

(* The order of sort_by, which is stable. *)
Ahead(c, d) == c.score > d.score \/ (c.score = d.score /\ c.place < d.place)

(* The first n of them in that order, and the very first (an option). *)
Take(scored, n) == {c \in scored : Cardinality({d \in scored : Ahead(d, c)}) < n}

First(scored) == {c \in scored : \A d \in scored \ {c} : Ahead(c, d)}

(* A confidence is a score by the best one: these are two scores. *)
AtLeast(score, best, threshold) == score * 100 >= threshold * best

CloseSecond(score, best, threshold) == score * 1000 >= threshold * 9 * best

(* Mutant: the first max_results of the index are taken, before the sort. *)
CandidatesUnsorted(scored, limit) == {c \in scored : c.place <= limit /\ c.score > 0}

Candidates(scored, limit) == {c \in Take(scored, limit) : c.score > 0}

(* The second candidate is close if any but the first is. *)
MatchResult(scored, threshold, limit) ==
    LET candidates == Candidates(scored, limit)
        confident == {c \in First(candidates) :
                        \E best \in First(scored) : AtLeast(c.score, best.score, threshold)}
        close == {c \in candidates \ confident :
                        \E best \in First(scored) : CloseSecond(c.score, best.score, threshold)} IN
    [status |-> CASE confident = {} -> "no_match"
                  [] confident # {} /\ close # {} -> "ambiguous"
                  [] OTHER -> "match",
     top |-> confident,
     candidates |-> candidates]

Match(r) ==
    /\ run[r].pc = "loaded"
    /\ LET index == run[r].index
           call == run[r].call IN
       \E score \in Scores(index, call.query) :
          run' = [run EXCEPT ![r] =
                    [pc |-> "matched", call |-> call, index |-> index,
                     result |-> IF call.query = {} THEN NoMatch
                                ELSE MatchResult(ScoredFlows(index.flows, score),
                                                 call.threshold, call.limit)]]
    /\ UNCHANGED <<stored, deploy>>

-----------------------------------------------------------------------------
(* The router component. *)

(* Mutant: only whole keys are compared. *)
IsBlockedKey(candidate, blocked) == candidate.flow \in blocked

IsBlockedIntent(candidate, blocked) ==
    \/ candidate.flow[1] \in blocked
    \/ candidate.flow[2] \in blocked
    \/ candidate.flow \in blocked

Continue == [action |-> "continue"]
Dispatch(candidate) == [action |-> "dispatch", flow |-> candidate.flow]
Deny == [action |-> "deny"]

(* The clarification lists four of them at most. *)
Clarify(candidates) == [action |-> "respond", offered |-> Take(candidates, 4)]

(* Mutant: one blocked candidate is enough to deny. *)
DirectiveOnAnyBlocked(result, blocked) ==
    LET allowed == {c \in result.candidates : ~IsBlockedIntent(c, blocked)}
        top == CHOOSE c \in result.top : TRUE IN
    CASE result.status = "match" ->
            IF IsBlockedIntent(top, blocked) THEN Deny ELSE Dispatch(top)
      [] result.status = "ambiguous" ->
            IF allowed # result.candidates THEN Deny ELSE Clarify(allowed)
      [] OTHER -> Continue

Directive(result, blocked) ==
    LET allowed == {c \in result.candidates : ~IsBlockedIntent(c, blocked)}
        top == CHOOSE c \in result.top : TRUE
        sole == CHOOSE c \in allowed : TRUE IN
    CASE result.status = "match" /\ result.top # {} ->
            IF IsBlockedIntent(top, blocked) THEN Deny ELSE Dispatch(top)
      [] result.status = "ambiguous" /\ Cardinality(result.candidates) >= 2 ->
            CASE allowed = {} -> Deny
              [] allowed = {sole} -> Dispatch(sole)
              [] OTHER -> Clarify(allowed)
      [] OTHER -> Continue

Route(r) ==
    /\ run[r].pc = "matched"
    /\ run' = [run EXCEPT ![r] =
                [pc |-> "done", call |-> run[r].call, index |-> run[r].index,
                 result |-> run[r].result,
                 out |-> Directive(run[r].result, run[r].call.blocked)]]
    /\ UNCHANGED <<stored, deploy>>

-----------------------------------------------------------------------------
Next ==
    \/ \E d \in Deploys : Extract(d) \/ Store(d)
    \/ \E r \in Runs : LoadIndex(r) \/ Match(r) \/ Route(r)

Spec == Init /\ [][Next]_vars

-----------------------------------------------------------------------------
Done == {r \in Runs : run[r].pc = "done"}
Out(r) == run[r].out

(* The pack of a flow is blocked, its id, or the two together. *)
Blocked(flow, r) == {flow[1], flow[2], flow} \cap run[r].call.blocked # {}

(* An absent team and the team "default" are one. *)
SameTeam(x, y) == x = y \/ {x, y} = {"none", "default"}

(* An index has an entry for each of its flows, and no other. *)
IndexOK(index) ==
    /\ index.flows \in FlowLists
    /\ DOMAIN index.terms = {DocId(index.flows[i]) : i \in DOMAIN index.flows}

PackTypeOK ==
    /\ \A key \in Keys : \A index \in stored[key] : IndexOK(index) /\ stored[key] = {index}
    /\ \A d \in Deploys : deploy[d].pc # "idle" => deploy[d].key \in Keys /\ IndexOK(deploy[d].index)
    /\ \A r \in Done :
          Out(r).action = "dispatch" => Out(r).flow \in {DocId(flow) : flow \in Flows}

(* An intent that the configuration blocks, by its pack, its id or both, is *)
(* neither dispatched nor offered as a choice, whatever the matcher found.  *)
BlockedNeverReached ==
    \A r \in Done :
        /\ Out(r).action = "dispatch" => ~Blocked(Out(r).flow, r)
        /\ Out(r).action = "respond" => \A c \in Out(r).offered : ~Blocked(c.flow, r)

(* A caller is denied only if all that the matcher found close to the best  *)
(* is blocked: a choice that is left is never withheld.                     *)
DeniedOnlyIfAllBlocked ==
    \A r \in Done :
        Out(r).action = "deny" =>
            LET candidates == run[r].result.candidates IN
            \E first \in First(candidates) :
                /\ Blocked(first.flow, r)
                /\ \A c \in candidates \ {first} :
                      CloseSecond(c.score, first.score, run[r].call.threshold)
                          => Blocked(c.flow, r)

(* A flow is dispatched only in the team that it was indexed for, and only   *)
(* for a term that it has in common with the message.                       *)
DispatchIsIndexed ==
    \A r \in Done :
        Out(r).action = "dispatch" =>
            \E d \in Deploys :
                /\ deploy[d].pc = "stored"
                /\ SameTeam(deploy[d].team, run[r].call.team)
                /\ Out(r).flow \in DOMAIN deploy[d].index.terms
                /\ deploy[d].index.terms[Out(r).flow] \cap run[r].call.query # {}

(* If a message has terms in common with one flow only, it is dispatched to  *)
(* it, unless that is blocked: its place in the index and the limit on      *)
(* results do not matter.                                                   *)
SoleMatchIsDispatched ==
    \A r \in Done :
        LET flows == run[r].index.flows
            common == {i \in DOMAIN flows :
                         run[r].index.terms[DocId(flows[i])] \cap run[r].call.query # {}} IN
        \A i \in common :
            common = {i} /\ ~Blocked(DocId(flows[i]), r) =>
                Out(r).action = "dispatch" /\ Out(r).flow = DocId(flows[i])
=============================================================================
