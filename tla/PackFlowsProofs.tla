-------------------------- MODULE PackFlowsProofs --------------------------
(***************************************************************************)
(* What the flows of the pack guarantee, for any flows, teams, queries,    *)
(* blocks and limits, and any number of deployments and messages that run  *)
(* side by side.                                                           *)
(***************************************************************************)
EXTENDS PackFlows, FiniteSetTheorems, TLAPS

(* The index of a run is one that was stored under its key. *)
FromAStore(r) ==
    \E d \in Deploys :
        /\ deploy[d].pc = "stored"
        /\ deploy[d].key = run[r].call.key
        /\ deploy[d].index = run[r].index

CallOK(call) ==
    /\ call.team \in Teams /\ call.key = IndexKey(call.team)
    /\ call.threshold \in Thresholds /\ call.limit \in MaxResults

(* The result is that of the matcher over the index of the run. *)
Matched(r) ==
    \/ run[r].result.status = "no_index"
       /\ run[r].result.top = {} /\ run[r].result.candidates = {}
       /\ run[r].index = NoIndex
    \/ FromAStore(r) /\ run[r].call.query = {} /\ run[r].result = NoMatch
    \/ /\ FromAStore(r)
       /\ \E score \in Scores(run[r].index, run[r].call.query) :
             run[r].result = MatchResult(ScoredFlows(run[r].index.flows, score),
                                         run[r].call.threshold, run[r].call.limit)

StoreInv ==
    /\ DOMAIN stored = Keys
    /\ \A key \in Keys : \A index \in stored[key] :
          /\ stored[key] = {index}
          /\ \E d \in Deploys :
                deploy[d].pc = "stored" /\ deploy[d].key = key /\ deploy[d].index = index

DeployInv ==
    /\ DOMAIN deploy = Deploys
    /\ \A d \in Deploys :
          /\ deploy[d].pc \in {"idle", "extracted", "stored"}
          /\ deploy[d].pc # "idle" =>
                /\ deploy[d].team \in Teams
                /\ deploy[d].key = IndexKey(deploy[d].team)
                /\ IndexOK(deploy[d].index)

RunInv ==
    /\ DOMAIN run = Runs
    /\ \A r \in Runs :
          /\ run[r].pc \in {"idle", "loaded", "matched", "done"}
          /\ run[r].pc # "idle" => CallOK(run[r].call)
          /\ run[r].pc = "loaded" => FromAStore(r)
          /\ run[r].pc \in {"matched", "done"} => Matched(r)
          /\ run[r].pc = "done" => run[r].out = Directive(run[r].result, run[r].call.blocked)

PackInv == StoreInv /\ DeployInv /\ RunInv

-----------------------------------------------------------------------------
(* An index has an entry for each flow. *)
LEMMA IndexIsComplete ==
    ASSUME NEW flows \in FlowLists
    PROVE  IndexOK(CreateIndex(flows))
BY DEF IndexOK, CreateIndex, TermFrequencies

(* What is scored, and that a place is scored once. *)
LEMMA Scored ==
    ASSUME NEW flows \in FlowLists, NEW score \in [DOMAIN flows -> 0 .. MaxScore]
    PROVE  /\ \A c \in ScoredFlows(flows, score) :
                 /\ c.place \in DOMAIN flows /\ c.place \in Nat
                 /\ c.flow = DocId(flows[c.place])
                 /\ c.score = score[c.place] /\ c.score \in Nat
           /\ \A c, d \in ScoredFlows(flows, score) : c.place = d.place => c = d
           /\ \A i \in DOMAIN flows : \E c \in ScoredFlows(flows, score) : c.place = i
<1> /\ Len(flows) \in Nat /\ DOMAIN flows = 1 .. Len(flows) /\ MaxScore \in Nat
  BY FlowsAreListed, LimitsArePositive
<1>1. \A c \in ScoredFlows(flows, score) : \E i \in DOMAIN flows :
         c = [place |-> i, flow |-> DocId(flows[i]), score |-> score[i]]
  BY DEF ScoredFlows
<1>2. \A i \in DOMAIN flows :
         [place |-> i, flow |-> DocId(flows[i]), score |-> score[i]] \in ScoredFlows(flows, score)
  BY DEF ScoredFlows
<1>3. \A i \in DOMAIN flows : i \in Nat /\ score[i] \in Nat
  OBVIOUS
<1>4. \A c \in ScoredFlows(flows, score) :
         /\ c.place \in DOMAIN flows /\ c.place \in Nat
         /\ c.flow = DocId(flows[c.place])
         /\ c.score = score[c.place] /\ c.score \in Nat
  BY <1>1, <1>3
<1>5. \A c, d \in ScoredFlows(flows, score) : c.place = d.place => c = d
  BY <1>1
<1>6. \A i \in DOMAIN flows : \E c \in ScoredFlows(flows, score) : c.place = i
  <2> TAKE i \in DOMAIN flows
  <2> QED BY <1>2
<1> QED BY <1>4, <1>5, <1>6

(* The first of the candidates is the first of all. *)
LEMMA FirstCandidate ==
    ASSUME NEW flows \in FlowLists, NEW score \in [DOMAIN flows -> 0 .. MaxScore],
           NEW limit \in MaxResults,
           NEW c \in First(Candidates(ScoredFlows(flows, score), limit)),
           NEW best \in First(ScoredFlows(flows, score))
    PROVE  c = best
<1> DEFINE scored == ScoredFlows(flows, score)
<1>1. \A x \in scored : x.score \in Nat /\ x.place \in Nat
  BY Scored
<1>2. c \in scored /\ best \in scored /\ c.score > 0
  BY DEF First, Candidates, Take
<1> SUFFICES ASSUME c # best PROVE FALSE
  OBVIOUS
<1> HIDE DEF scored
<1>3. Ahead(best, c) /\ \A d \in scored : ~Ahead(d, best)
  <2>1. \A d \in scored \ {best} : Ahead(best, d)
    BY DEF First, scored
  <2> QED BY <1>1, <1>2, <2>1 DEF Ahead
<1>4. {d \in scored : Ahead(d, best)} = {}
  BY <1>3
<1>5. best \in Candidates(scored, limit)
  <2>1. Cardinality({d \in scored : Ahead(d, best)}) = 0
    BY <1>4, FS_EmptySet
  <2>2. best.score > 0
    BY <1>1, <1>2, <1>3 DEF Ahead
  <2> QED BY <1>2, <2>1, <2>2, LimitsArePositive DEF Candidates, Take
<1>6. Ahead(c, best)
  BY <1>5 DEF First, scored
<1> QED BY <1>1, <1>2, <1>3, <1>6 DEF Ahead

(* The directive reaches candidates that are not blocked, and denies only   *)
(* what is.                                                                 *)
LEMMA DirectiveReaches ==
    ASSUME NEW result, NEW blocked, result.top \subseteq result.candidates,
           NEW out, out = Directive(result, blocked)
    PROVE  /\ out.action = "dispatch" =>
                 \E c \in result.candidates : out.flow = c.flow /\ ~IsBlockedIntent(c, blocked)
           /\ out.action = "respond" =>
                 \A c \in out.offered : c \in result.candidates /\ ~IsBlockedIntent(c, blocked)
           /\ out.action = "deny" =>
                 \/ /\ result.status = "match"
                    /\ \E c \in result.top : IsBlockedIntent(c, blocked)
                 \/ /\ result.status = "ambiguous"
                    /\ \A c \in result.candidates : IsBlockedIntent(c, blocked)
<1> DEFINE allowed == {c \in result.candidates : ~IsBlockedIntent(c, blocked)}
           top == CHOOSE c \in result.top : TRUE
           sole == CHOOSE c \in allowed : TRUE
<1>1. CASE result.status = "match" /\ result.top # {}
  <2>1. top \in result.top
    BY <1>1
  <2>2. out = IF IsBlockedIntent(top, blocked) THEN Deny ELSE Dispatch(top)
    BY <1>1 DEF Directive
  <2> HIDE DEF top
  <2> QED BY <1>1, <2>1, <2>2 DEF Deny, Dispatch
<1>2. CASE result.status = "ambiguous" /\ Cardinality(result.candidates) >= 2
  <2>1. out = CASE allowed = {} -> Deny
                [] allowed = {sole} -> Dispatch(sole)
                [] OTHER -> Clarify(allowed)
    BY <1>2 DEF Directive
  <2> HIDE DEF sole
  <2>2. CASE allowed = {}
    <3>1. out = Deny
      BY <2>1, <2>2
    <3> QED BY <1>2, <2>2, <3>1 DEF Deny
  <2>3. CASE allowed = {sole}
    <3>1. out = Dispatch(sole)
      BY <2>1, <2>3
    <3> QED BY <2>3, <3>1 DEF Dispatch
  <2>4. CASE allowed # {} /\ allowed # {sole}
    <3>1. out = Clarify(allowed)
      BY <2>1, <2>4
    <3> HIDE DEF allowed
    <3>2. out.action = "respond" /\ out.offered = Take(allowed, 4)
      BY <3>1 DEF Clarify
    <3>3. out.offered \subseteq allowed
      BY <3>2 DEF Take
    <3> QED BY <3>2, <3>3 DEF allowed
  <2> QED BY <2>2, <2>3, <2>4
<1>3. CASE ~(result.status = "match" /\ result.top # {})
           /\ ~(result.status = "ambiguous" /\ Cardinality(result.candidates) >= 2)
  <2>1. out = Continue
    BY <1>3 DEF Directive
  <2> QED BY <2>1 DEF Continue
<1> QED BY <1>1, <1>2, <1>3

(* The candidates of a result were scored, and its top is the first of them. *)
LEMMA ResultOf ==
    ASSUME NEW scored, NEW threshold, NEW limit,
           NEW result, result = MatchResult(scored, threshold, limit)
    PROVE  /\ result.candidates = Candidates(scored, limit)
           /\ result.candidates \subseteq scored
           /\ \A c \in result.candidates : c.score > 0
           /\ result.top = {c \in First(result.candidates) :
                               \E best \in First(scored) : AtLeast(c.score, best.score, threshold)}
           /\ result.status # "no_match" => result.top # {}
           /\ result.status = "match" =>
                 \A c \in result.candidates \ result.top : \A best \in First(scored) :
                     ~CloseSecond(c.score, best.score, threshold)
           /\ result.status \in {"match", "ambiguous", "no_match"}
<1> DEFINE candidates == Candidates(scored, limit)
           confident == {c \in First(candidates) :
                           \E best \in First(scored) : AtLeast(c.score, best.score, threshold)}
           close == {c \in candidates \ confident :
                           \E best \in First(scored) : CloseSecond(c.score, best.score, threshold)}
<1>1. result = [status |-> CASE confident = {} -> "no_match"
                             [] confident # {} /\ close # {} -> "ambiguous"
                             [] OTHER -> "match",
                top |-> confident, candidates |-> candidates]
  BY DEF MatchResult
<1>2. candidates \subseteq scored /\ \A c \in candidates : c.score > 0
  BY DEF Candidates, Take
<1> HIDE DEF candidates, confident, close
<1>3. result.candidates = candidates /\ result.top = confident
  BY <1>1
<1>4. /\ result.status # "no_match" => confident # {}
      /\ result.status = "match" => close = {}
      /\ result.status \in {"match", "ambiguous", "no_match"}
  BY <1>1
<1> QED BY <1>2, <1>3, <1>4 DEF candidates, confident, close

(* Whatever a run found, it was scored by a term in common, and the top is  *)
(* one of the candidates.                                                   *)
LEMMA MatchedFacts ==
    ASSUME NEW r \in Runs, Matched(r), DeployInv
    PROVE  /\ run[r].result.top \subseteq run[r].result.candidates
           /\ \A c \in run[r].result.candidates :
                 /\ FromAStore(r)
                 /\ c.flow \in DOMAIN run[r].index.terms
                 /\ run[r].index.terms[c.flow] \cap run[r].call.query # {}
<1> USE DEF Matched
<1>1. CASE run[r].result.candidates = {} /\ run[r].result.top = {}
  BY <1>1
<1>2. CASE FromAStore(r) /\ \E score \in Scores(run[r].index, run[r].call.query) :
             run[r].result = MatchResult(ScoredFlows(run[r].index.flows, score),
                                         run[r].call.threshold, run[r].call.limit)
  <2>1. PICK score \in Scores(run[r].index, run[r].call.query) :
             run[r].result = MatchResult(ScoredFlows(run[r].index.flows, score),
                                         run[r].call.threshold, run[r].call.limit)
    BY <1>2
  <2>2. IndexOK(run[r].index)
    BY <1>2 DEF FromAStore, DeployInv
  <2> DEFINE flows == run[r].index.flows
             scored == ScoredFlows(flows, score)
  <2>3. flows \in FlowLists /\ score \in [DOMAIN flows -> 0 .. MaxScore]
        /\ \A i \in DOMAIN flows :
              score[i] > 0 => run[r].index.terms[DocId(flows[i])] \cap run[r].call.query # {}
    BY <2>1, <2>2 DEF IndexOK, Scores
  <2>4. \A i \in DOMAIN flows : DocId(flows[i]) \in DOMAIN run[r].index.terms
    BY <2>2 DEF IndexOK
  <2> HIDE DEF flows
  <2>5. \A c \in scored : c.place \in DOMAIN flows /\ c.flow = DocId(flows[c.place])
                          /\ c.score = score[c.place]
    BY <2>3, Scored
  <2>6. /\ run[r].result.candidates \subseteq scored
        /\ \A c \in run[r].result.candidates : c.score > 0
        /\ run[r].result.top \subseteq First(run[r].result.candidates)
    <3> HIDE DEF scored
    <3>1. run[r].result = MatchResult(scored, run[r].call.threshold, run[r].call.limit)
      BY <2>1 DEF scored, flows
    <3> QED BY <3>1, ResultOf
  <2> HIDE DEF scored
  <2>7. run[r].result.top \subseteq run[r].result.candidates
    BY <2>6 DEF First
  <2> QED BY <1>2, <2>3, <2>4, <2>5, <2>6, <2>7
<1> QED BY <1>1, <1>2 DEF NoMatch

-----------------------------------------------------------------------------
(* A deployment that has stored stays as it is. *)
LEMMA StoredStays ==
    ASSUME Next, DeployInv
    PROVE  \A d \in Deploys :
               deploy[d].pc = "stored" => deploy'[d] = deploy[d]
<1>1. ASSUME NEW e \in Deploys, Extract(e) \/ Store(e)
      PROVE  \A d \in Deploys : deploy[d].pc = "stored" => deploy'[d] = deploy[d]
  BY <1>1 DEF Extract, Store, DeployInv
<1>2. ASSUME NEW r \in Runs, LoadIndex(r) \/ Match(r) \/ Route(r)
      PROVE  deploy' = deploy
  BY <1>2 DEF LoadIndex, Match, Route
<1> QED BY <1>1, <1>2 DEF Next

(* Runs whose step it is not keep what they found. *)
LEMMA RunsStay ==
    ASSUME Next, DeployInv, NEW r \in Runs, run'[r] = run[r]
    PROVE  /\ FromAStore(r) => FromAStore(r)'
           /\ Matched(r) => Matched(r)'
<1>1. FromAStore(r) => FromAStore(r)'
  BY StoredStays DEF FromAStore
<1> QED BY <1>1 DEF Matched

LEMMA DeployStep ==
    ASSUME PackInv, [Next]_vars
    PROVE  DeployInv'
<1> USE DEF PackInv, DeployInv
<1>1. ASSUME NEW e \in Deploys, Extract(e) PROVE DeployInv'
  <2>1. PICK flows \in FlowLists, team \in Teams :
          deploy' = [deploy EXCEPT ![e] =
                        [pc |-> "extracted", team |-> team, key |-> IndexKey(team),
                         index |-> CreateIndex(flows)]]
    BY <1>1 DEF Extract
  <2>2. IndexOK(CreateIndex(flows))
    BY IndexIsComplete
  <2> HIDE DEF DeployInv
  <2>3. DOMAIN deploy' = Deploys /\ deploy'[e] = [pc |-> "extracted", team |-> team,
                                                key |-> IndexKey(team), index |-> CreateIndex(flows)]
        /\ \A d \in Deploys \ {e} : deploy'[d] = deploy[d]
    BY <2>1 DEF DeployInv
  <2> QED BY <2>2, <2>3 DEF DeployInv
<1>2. ASSUME NEW e \in Deploys, Store(e) PROVE DeployInv'
  BY <1>2 DEF Store
<1>3. CASE UNCHANGED deploy
  BY <1>3
<1> QED BY <1>1, <1>2, <1>3 DEF Next, vars, LoadIndex, Match, Route

LEMMA StoreStep ==
    ASSUME PackInv, [Next]_vars
    PROVE  StoreInv'
<1> USE DEF PackInv, StoreInv
<1>1. ASSUME NEW e \in Deploys, Store(e) PROVE StoreInv'
  <2> DEFINE key == deploy[e].key
  <2>1. PICK k : k = deploy[e].key
    OBVIOUS
  <2>2. PICK stock : stock = deploy[e].index
    OBVIOUS
  <2>3. /\ deploy'[e].pc = "stored" /\ deploy'[e].key = k /\ deploy'[e].index = stock
        /\ stored' = [stored EXCEPT ![k] = {stock}]
    BY <1>1, <2>1, <2>2 DEF Store, DeployInv
  <2>4. \A d \in Deploys : deploy[d].pc = "stored" => deploy'[d] = deploy[d]
    BY <1>1, StoredStays DEF Next
  <2>5. ASSUME NEW other \in Keys \ {k}, NEW index \in stored'[other]
        PROVE  /\ stored'[other] = {index}
               /\ \E d \in Deploys : deploy'[d].pc = "stored" /\ deploy'[d].key = other
                                    /\ deploy'[d].index = index
    BY <2>3, <2>4, <2>5
  <2>6. ASSUME k \in Keys, NEW index \in stored'[k]
        PROVE  /\ stored'[k] = {index}
               /\ \E d \in Deploys : deploy'[d].pc = "stored" /\ deploy'[d].key = k
                                    /\ deploy'[d].index = index
    BY <2>3, <2>6
  <2> QED BY <2>3, <2>5, <2>6
<1>2. ASSUME NEW e \in Deploys, Extract(e) PROVE StoreInv'
  <2>1. \A d \in Deploys : deploy[d].pc = "stored" => deploy'[d] = deploy[d]
    BY <1>2, StoredStays DEF Next
  <2> QED BY <1>2, <2>1 DEF Extract
<1>3. CASE UNCHANGED <<stored, deploy>>
  BY <1>3
<1> QED BY <1>1, <1>2, <1>3 DEF Next, vars, LoadIndex, Match, Route

(* The run whose step it is, at its new place. *)
RunOK(r) ==
    /\ run[r].pc \in {"idle", "loaded", "matched", "done"}
    /\ run[r].pc # "idle" => CallOK(run[r].call)
    /\ run[r].pc = "loaded" => FromAStore(r)
    /\ run[r].pc \in {"matched", "done"} => Matched(r)
    /\ run[r].pc = "done" => run[r].out = Directive(run[r].result, run[r].call.blocked)

LEMMA LoadStep ==
    ASSUME PackInv, NEW r \in Runs, LoadIndex(r)
    PROVE  RunOK(r)'
<1>1. PICK call :
         /\ CallOK(call)
         /\ \/ \E index \in stored[call.key] :
                  run' = [run EXCEPT ![r] = [pc |-> "loaded", call |-> call, index |-> index]]
            \/ run' = [run EXCEPT ![r] =
                            [pc |-> "matched", call |-> call, index |-> NoIndex,
                             result |-> [NoMatch EXCEPT !.status = "no_index"]]]
  <2>1. PICK team \in Teams, query \in Queries, blocked \in BlockLists,
             threshold \in Thresholds, limit \in MaxResults :
          LET call == [team |-> team, key |-> IndexKey(team), query |-> query,
                       blocked |-> blocked, threshold |-> threshold, limit |-> limit] IN
          \/ \E index \in stored[call.key] :
                run' = [run EXCEPT ![r] = [pc |-> "loaded", call |-> call, index |-> index]]
          \/ run' = [run EXCEPT ![r] =
                            [pc |-> "matched", call |-> call, index |-> NoIndex,
                             result |-> [NoMatch EXCEPT !.status = "no_index"]]]
    BY DEF LoadIndex
  <2> DEFINE call == [team |-> team, key |-> IndexKey(team), query |-> query,
                      blocked |-> blocked, threshold |-> threshold, limit |-> limit]
  <2>2. CallOK(call)
    BY DEF CallOK
  <2> HIDE DEF call
  <2> QED BY <2>1, <2>2 DEF call
<1>2. call.key \in Keys
  BY <1>1 DEF CallOK, Keys
<1>3. deploy' = deploy /\ DOMAIN run = Runs
  BY DEF LoadIndex, PackInv, RunInv
<1>4. CASE \E index \in stored[call.key] :
              run' = [run EXCEPT ![r] = [pc |-> "loaded", call |-> call, index |-> index]]
  <2>1. PICK index \in stored[call.key] :
              run' = [run EXCEPT ![r] = [pc |-> "loaded", call |-> call, index |-> index]]
    BY <1>4
  <2>2. run'[r] = [pc |-> "loaded", call |-> call, index |-> index]
    BY <1>3, <2>1
  <2>3. \E d \in Deploys : deploy[d].pc = "stored" /\ deploy[d].key = call.key
                          /\ deploy[d].index = index
    BY <1>2, <2>1 DEF PackInv, StoreInv
  <2> QED BY <1>1, <1>3, <2>2, <2>3 DEF RunOK, FromAStore
<1>5. CASE run' = [run EXCEPT ![r] =
                            [pc |-> "matched", call |-> call, index |-> NoIndex,
                             result |-> [NoMatch EXCEPT !.status = "no_index"]]]
  <2>1. run'[r] = [pc |-> "matched", call |-> call, index |-> NoIndex,
                   result |-> [NoMatch EXCEPT !.status = "no_index"]]
    BY <1>3, <1>5
  <2> QED BY <1>1, <2>1 DEF RunOK, Matched, NoMatch
<1> QED BY <1>1, <1>4, <1>5

LEMMA MatchStep ==
    ASSUME PackInv, NEW r \in Runs, Match(r)
    PROVE  RunOK(r)'
<1>1. PICK index : index = run[r].index
  OBVIOUS
<1>2. PICK call : call = run[r].call
  OBVIOUS
<1>3. PICK score \in Scores(index, call.query) :
         run' = [run EXCEPT ![r] =
                    [pc |-> "matched", call |-> call, index |-> index,
                     result |-> IF call.query = {} THEN NoMatch
                                ELSE MatchResult(ScoredFlows(index.flows, score),
                                                 call.threshold, call.limit)]]
  BY <1>1, <1>2 DEF Match
<1>4. DOMAIN run = Runs /\ CallOK(call) /\ FromAStore(r) /\ deploy' = deploy
  BY <1>2 DEF PackInv, RunInv, Match
<1>5. run'[r] = [pc |-> "matched", call |-> call, index |-> index,
                 result |-> IF call.query = {} THEN NoMatch
                            ELSE MatchResult(ScoredFlows(index.flows, score),
                                             call.threshold, call.limit)]
  BY <1>3, <1>4
<1>6. FromAStore(r)'
  BY <1>1, <1>2, <1>4, <1>5 DEF FromAStore
<1>7. Matched(r)'
  BY <1>3, <1>5, <1>6 DEF Matched
<1> QED BY <1>4, <1>5, <1>7 DEF RunOK

LEMMA RouteStep ==
    ASSUME PackInv, NEW r \in Runs, Route(r)
    PROVE  RunOK(r)'
<1>1. DOMAIN run = Runs /\ CallOK(run[r].call) /\ Matched(r) /\ deploy' = deploy
  BY DEF PackInv, RunInv, Route
<1>2. run'[r] = [pc |-> "done", call |-> run[r].call, index |-> run[r].index,
                 result |-> run[r].result,
                 out |-> Directive(run[r].result, run[r].call.blocked)]
  BY <1>1 DEF Route
<1>3. FromAStore(r) => FromAStore(r)'
  BY <1>1, <1>2 DEF FromAStore
<1>4. Matched(r)'
  BY <1>1, <1>2, <1>3 DEF Matched
<1> QED BY <1>1, <1>2, <1>4 DEF RunOK

LEMMA RunStep ==
    ASSUME PackInv, [Next]_vars
    PROVE  RunInv'
<1>1. ASSUME NEW r \in Runs, LoadIndex(r) \/ Match(r) \/ Route(r)
      PROVE  RunInv'
  <2>1. RunOK(r)'
    BY <1>1, LoadStep, MatchStep, RouteStep
  <2>2. DOMAIN run' = Runs /\ \A s \in Runs \ {r} : run'[s] = run[s]
    BY <1>1 DEF LoadIndex, Match, Route, PackInv, RunInv
  <2>3. \A s \in Runs \ {r} : (FromAStore(s) => FromAStore(s)') /\ (Matched(s) => Matched(s)')
    BY <1>1, <2>2, RunsStay DEF Next, PackInv
  <2> QED BY <2>1, <2>2, <2>3 DEF PackInv, RunInv, RunOK
<1>2. ASSUME NEW e \in Deploys, Extract(e) \/ Store(e)
      PROVE  RunInv'
  <2>1. run' = run
    BY <1>2 DEF Extract, Store
  <2>2. \A s \in Runs : (FromAStore(s) => FromAStore(s)') /\ (Matched(s) => Matched(s)')
    BY <1>2, <2>1, RunsStay DEF Next, PackInv
  <2> QED BY <2>1, <2>2 DEF PackInv, RunInv
<1>3. CASE UNCHANGED vars
  <2>1. run' = run /\ deploy' = deploy
    BY <1>3 DEF vars
  <2>2. \A s \in Runs : (FromAStore(s) => FromAStore(s)') /\ (Matched(s) => Matched(s)')
    BY <2>1 DEF FromAStore, Matched
  <2> QED BY <2>1, <2>2 DEF PackInv, RunInv
<1> QED BY <1>1, <1>2, <1>3 DEF Next

(* The invariant of the pack's flows. *)
THEOREM PackInvariance == Spec => []PackInv
<1>1. Init => PackInv
  BY DEF Init, PackInv, StoreInv, DeployInv, RunInv
<1>2. PackInv /\ [Next]_vars => PackInv'
  BY StoreStep, DeployStep, RunStep DEF PackInv
<1> QED BY <1>1, <1>2, PTL DEF Spec

-----------------------------------------------------------------------------
(* An index has an entry for each of its flows wherever it is kept, and     *)
(* every flow that is dispatched to is one that was listed.                 *)
THEOREM PackTypeCorrect == Spec => []PackTypeOK
<1>1. PackInv => PackTypeOK
  <2> SUFFICES ASSUME PackInv PROVE PackTypeOK
    OBVIOUS
  <2> USE DEF PackInv
  <2>1. \A key \in Keys : \A index \in stored[key] : IndexOK(index) /\ stored[key] = {index}
    BY DEF StoreInv, DeployInv
  <2>2. \A d \in Deploys : deploy[d].pc # "idle" => deploy[d].key \in Keys /\ IndexOK(deploy[d].index)
    BY DEF DeployInv, Keys
  <2>3. ASSUME NEW r \in Done, Out(r).action = "dispatch"
        PROVE  Out(r).flow \in {DocId(flow) : flow \in Flows}
    <3>1. r \in Runs /\ Matched(r) /\ run[r].out = Directive(run[r].result, run[r].call.blocked)
      BY DEF Done, RunInv
    <3>2. PICK c \in run[r].result.candidates : Out(r).flow = c.flow
      BY <2>3, <3>1, MatchedFacts, DirectiveReaches DEF Out
    <3>3. FromAStore(r) /\ c.flow \in DOMAIN run[r].index.terms
      BY <3>1, MatchedFacts
    <3>4. IndexOK(run[r].index)
      BY <3>3 DEF FromAStore, DeployInv
    <3>5. PICK flows : flows = run[r].index.flows
      OBVIOUS
    <3>6. flows \in FlowLists /\ \E i \in DOMAIN flows : c.flow = DocId(flows[i])
      BY <3>3, <3>4, <3>5 DEF IndexOK
    <3>7. \A i \in DOMAIN flows : flows[i] \in Flows
      BY <3>6 DEF Flows
    <3> QED BY <3>2, <3>6, <3>7
  <2> QED BY <2>1, <2>2, <2>3 DEF PackTypeOK
<1> QED BY <1>1, PackInvariance, PTL

(* What the configuration blocks is never dispatched to, nor offered. *)
THEOREM BlocksHold == Spec => []BlockedNeverReached
<1>1. PackInv => BlockedNeverReached
  <2> SUFFICES ASSUME PackInv, NEW r \in Done
               PROVE  /\ Out(r).action = "dispatch" => ~Blocked(Out(r).flow, r)
                      /\ Out(r).action = "respond" => \A c \in Out(r).offered : ~Blocked(c.flow, r)
    BY DEF BlockedNeverReached
  <2>1. /\ r \in Runs /\ Matched(r) /\ DeployInv
        /\ Out(r) = Directive(run[r].result, run[r].call.blocked)
    BY DEF Done, Out, PackInv, RunInv
  <2>2. run[r].result.top \subseteq run[r].result.candidates
    BY <2>1, MatchedFacts
  <2>3. \A c \in run[r].result.candidates :
           ~IsBlockedIntent(c, run[r].call.blocked) => ~Blocked(c.flow, r)
    BY DEF IsBlockedIntent, Blocked
  <2>4. CASE Out(r).action = "dispatch"
    <3>1. PICK c \in run[r].result.candidates :
             Out(r).flow = c.flow /\ ~IsBlockedIntent(c, run[r].call.blocked)
      BY <2>1, <2>2, <2>4, DirectiveReaches
    <3> QED BY <2>3, <2>4, <3>1
  <2>5. CASE Out(r).action = "respond"
    <3>1. \A c \in Out(r).offered :
             c \in run[r].result.candidates /\ ~IsBlockedIntent(c, run[r].call.blocked)
      BY <2>1, <2>2, <2>5, DirectiveReaches
    <3> QED BY <2>3, <2>5, <3>1
  <2> QED BY <2>4, <2>5
<1> QED BY <1>1, PackInvariance, PTL

(* A dispatch goes to a flow of the caller's own team, for a common term. *)
THEOREM DispatchesAreIndexed == Spec => []DispatchIsIndexed
<1>1. PackInv => DispatchIsIndexed
  <2> SUFFICES ASSUME PackInv, NEW r \in Done, Out(r).action = "dispatch"
               PROVE  \E d \in Deploys :
                         /\ deploy[d].pc = "stored"
                         /\ SameTeam(deploy[d].team, run[r].call.team)
                         /\ Out(r).flow \in DOMAIN deploy[d].index.terms
                         /\ deploy[d].index.terms[Out(r).flow] \cap run[r].call.query # {}
    BY DEF DispatchIsIndexed
  <2>1. /\ r \in Runs /\ Matched(r) /\ DeployInv /\ CallOK(run[r].call)
        /\ Out(r) = Directive(run[r].result, run[r].call.blocked)
    BY DEF Done, Out, PackInv, RunInv
  <2>2. PICK c \in run[r].result.candidates : Out(r).flow = c.flow
    BY <2>1, MatchedFacts, DirectiveReaches
  <2>3. /\ FromAStore(r) /\ c.flow \in DOMAIN run[r].index.terms
        /\ run[r].index.terms[c.flow] \cap run[r].call.query # {}
    BY <2>1, MatchedFacts
  <2>4. PICK d \in Deploys : /\ deploy[d].pc = "stored"
                             /\ deploy[d].key = run[r].call.key
                             /\ deploy[d].index = run[r].index
    BY <2>3 DEF FromAStore
  <2>5. IndexKey(deploy[d].team) = IndexKey(run[r].call.team)
    BY <2>1, <2>4 DEF DeployInv, CallOK
  <2>6. SameTeam(deploy[d].team, run[r].call.team)
    BY <2>5 DEF IndexKey, SameTeam
  <2> QED BY <2>2, <2>3, <2>4, <2>6
<1> QED BY <1>1, PackInvariance, PTL

(* A denial withholds no choice that is left. *)
THEOREM DenialsAreEarned == Spec => []DeniedOnlyIfAllBlocked
<1>1. PackInv => DeniedOnlyIfAllBlocked
  <2> SUFFICES ASSUME PackInv, NEW r \in Done, Out(r).action = "deny"
               PROVE  \E first \in First(run[r].result.candidates) :
                         /\ Blocked(first.flow, r)
                         /\ \A c \in run[r].result.candidates \ {first} :
                               CloseSecond(c.score, first.score, run[r].call.threshold)
                                   => Blocked(c.flow, r)
    BY DEF DeniedOnlyIfAllBlocked
  <2>1. /\ r \in Runs /\ Matched(r) /\ DeployInv /\ CallOK(run[r].call)
        /\ Out(r) = Directive(run[r].result, run[r].call.blocked)
    BY DEF Done, Out, PackInv, RunInv
  <2>2. PICK result : result = run[r].result
    OBVIOUS
  <2>3. PICK blocked : blocked = run[r].call.blocked
    OBVIOUS
  <2>4. \A c : IsBlockedIntent(c, blocked) => Blocked(c.flow, r)
    BY <2>3 DEF IsBlockedIntent, Blocked
  <2>5. \/ /\ result.status = "match"
           /\ \E c \in result.top : IsBlockedIntent(c, blocked)
        \/ /\ result.status = "ambiguous"
           /\ \A c \in result.candidates : IsBlockedIntent(c, blocked)
    BY <2>1, <2>2, <2>3, MatchedFacts, DirectiveReaches
  <2>6. PICK score \in Scores(run[r].index, run[r].call.query) :
             FromAStore(r) /\
             result = MatchResult(ScoredFlows(run[r].index.flows, score),
                                  run[r].call.threshold, run[r].call.limit)
    BY <2>1, <2>2, <2>5 DEF Matched, NoMatch
  <2>7. PICK flows : flows = run[r].index.flows
    OBVIOUS
  <2>8. PICK threshold : threshold = run[r].call.threshold
    OBVIOUS
  <2>9. PICK limit \in MaxResults : limit = run[r].call.limit
    BY <2>1 DEF CallOK
  <2>10. flows \in FlowLists /\ score \in [DOMAIN flows -> 0 .. MaxScore]
    BY <2>6, <2>7 DEF FromAStore, DeployInv, PackInv, IndexOK, Scores
  <2> DEFINE scored == ScoredFlows(flows, score)
  <2>11. result = MatchResult(scored, threshold, limit)
    BY <2>6, <2>7, <2>8, <2>9
  <2> HIDE DEF scored
  <2>12. /\ result.candidates = Candidates(scored, limit)
         /\ result.top = {c \in First(result.candidates) :
                             \E best \in First(scored) : AtLeast(c.score, best.score, threshold)}
         /\ result.status # "no_match" => result.top # {}
         /\ result.status = "match" =>
               \A c \in result.candidates \ result.top : \A best \in First(scored) :
                   ~CloseSecond(c.score, best.score, threshold)
    BY <2>11, ResultOf
  <2>13. PICK first \in First(result.candidates) : first \in result.top /\ first \in First(scored)
    <3>1. PICK first \in result.top : TRUE
      BY <2>5, <2>12
    <3>2. PICK best \in First(scored) : TRUE
      BY <2>12, <3>1
    <3>3. first = best
      BY <2>9, <2>10, <2>12, <3>1, <3>2, FirstCandidate DEF scored
    <3> QED BY <2>12, <3>1, <3>2, <3>3
  <2>14. \A c \in result.top : c = first
    BY <2>9, <2>10, <2>12, <2>13, FirstCandidate DEF scored
  <2>15. first \in result.candidates
    BY <2>13 DEF First
  <2> QED BY <2>2, <2>4, <2>5, <2>8, <2>12, <2>13, <2>14, <2>15
<1> QED BY <1>1, PackInvariance, PTL

(* If one flow only has a term in common, it is first, alone and confident. *)
LEMMA SoleIsMatched ==
    ASSUME NEW flows \in FlowLists, NEW score \in [DOMAIN flows -> 0 .. MaxScore],
           NEW i \in DOMAIN flows, \A j \in DOMAIN flows : score[j] > 0 <=> j = i,
           NEW threshold \in Thresholds, NEW limit \in MaxResults,
           NEW result, result = MatchResult(ScoredFlows(flows, score), threshold, limit)
    PROVE  /\ result.status = "match"
           /\ \E c : result.top = {c} /\ c.flow = DocId(flows[i])
<1> DEFINE scored == ScoredFlows(flows, score)
<1>1. /\ \A c \in scored : /\ c.place \in DOMAIN flows /\ c.place \in Nat
                            /\ c.flow = DocId(flows[c.place])
                            /\ c.score = score[c.place] /\ c.score \in Nat
      /\ \A c, d \in scored : c.place = d.place => c = d
      /\ \A j \in DOMAIN flows : \E c \in scored : c.place = j
  BY Scored
<1>2. result = MatchResult(scored, threshold, limit)
  OBVIOUS
<1> HIDE DEF scored
<1>3. PICK c \in scored : c.place = i
  BY <1>1
<1>4. c.score > 0 /\ \A d \in scored \ {c} : d.score = 0
  BY <1>1, <1>3
<1>5. First(scored) = {c}
  BY <1>1, <1>4 DEF First, Ahead
<1>6. Candidates(scored, limit) = {c}
  <2>1. {d \in scored : Ahead(d, c)} = {}
    BY <1>1, <1>4 DEF Ahead
  <2>2. Cardinality({d \in scored : Ahead(d, c)}) = 0
    BY <2>1, FS_EmptySet
  <2>3. c \in Take(scored, limit)
    BY <2>2, LimitsArePositive DEF Take
  <2>4. Candidates(scored, limit) = {d \in Take(scored, limit) : d.score > 0}
    BY DEF Candidates
  <2>5. \A d \in Take(scored, limit) : d \in scored
    BY DEF Take
  <2>6. \A d \in Candidates(scored, limit) : d = c
    BY <1>4, <2>4, <2>5
  <2> QED BY <1>4, <2>3, <2>4, <2>6
<1>7. First({c}) = {c}
  BY DEF First
<1>8. AtLeast(c.score, c.score, threshold)
  <2>1. c.score \in Nat /\ threshold \in 0 .. 100
    BY <1>1, LimitsArePositive
  <2> QED BY <2>1 DEF AtLeast
<1> DEFINE confident == {x \in First(Candidates(scored, limit)) :
                           \E best \in First(scored) : AtLeast(x.score, best.score, threshold)}
           close == {x \in Candidates(scored, limit) \ confident :
                           \E best \in First(scored) : CloseSecond(x.score, best.score, threshold)}
<1>9. confident = {c}
  BY <1>5, <1>6, <1>7, <1>8
<1>10. close = {}
  BY <1>6, <1>9
<1>11. result = [status |-> CASE confident = {} -> "no_match"
                              [] confident # {} /\ close # {} -> "ambiguous"
                              [] OTHER -> "match",
                 top |-> confident, candidates |-> Candidates(scored, limit)]
  BY <1>2 DEF MatchResult
<1> HIDE DEF confident, close
<1>12. result.status = "match" /\ result.top = {c}
  BY <1>9, <1>10, <1>11
<1>13. c.flow = DocId(flows[i])
  BY <1>1, <1>3
<1> QED BY <1>12, <1>13

(* A flow that alone has a term in common is dispatched to, wherever it is  *)
(* in the index and however few results are asked for.                      *)
THEOREM SoleMatchesAreServed == Spec => []SoleMatchIsDispatched
<1>1. PackInv => SoleMatchIsDispatched
  <2> SUFFICES ASSUME PackInv, NEW r \in Done,
                      NEW i \in DOMAIN run[r].index.flows,
                      {j \in DOMAIN run[r].index.flows :
                         run[r].index.terms[DocId(run[r].index.flows[j])]
                             \cap run[r].call.query # {}} = {i},
                      ~Blocked(DocId(run[r].index.flows[i]), r)
               PROVE  Out(r).action = "dispatch" /\ Out(r).flow = DocId(run[r].index.flows[i])
    BY DEF SoleMatchIsDispatched
  <2>1. /\ r \in Runs /\ Matched(r) /\ CallOK(run[r].call)
        /\ Out(r) = Directive(run[r].result, run[r].call.blocked)
    BY DEF Done, Out, PackInv, RunInv
  <2>2. PICK index : index = run[r].index
    OBVIOUS
  <2>3. PICK query : query = run[r].call.query
    OBVIOUS
  <2>4. /\ \A j \in DOMAIN index.flows : index.terms[DocId(index.flows[j])] \cap query # {} <=> j = i
        /\ i \in DOMAIN index.flows
    BY <2>2, <2>3
  <2>5. query # {}
    BY <2>4
  <2>6. index # NoIndex
    BY <2>4 DEF NoIndex
  <2>7. PICK score \in Scores(index, query) :
             run[r].result = MatchResult(ScoredFlows(index.flows, score),
                                         run[r].call.threshold, run[r].call.limit)
    BY <2>1, <2>2, <2>3, <2>5, <2>6 DEF Matched
  <2>8. IndexOK(index)
    BY <2>1, <2>2, <2>6 DEF Matched, FromAStore, PackInv, DeployInv
  <2>9. /\ index.flows \in FlowLists /\ score \in [DOMAIN index.flows -> 0 .. MaxScore]
        /\ \A j \in DOMAIN index.flows : score[j] > 0 <=> j = i
    BY <2>4, <2>7, <2>8 DEF IndexOK, Scores
  <2>10. PICK flows : flows = index.flows
    OBVIOUS
  <2>11. /\ run[r].result.status = "match"
         /\ \E c : run[r].result.top = {c} /\ c.flow = DocId(flows[i])
    <3>1. PICK threshold \in Thresholds : threshold = run[r].call.threshold
      BY <2>1 DEF CallOK
    <3>2. PICK limit \in MaxResults : limit = run[r].call.limit
      BY <2>1 DEF CallOK
    <3>3. PICK result : result = run[r].result
      OBVIOUS
    <3>4. result = MatchResult(ScoredFlows(flows, score), threshold, limit)
      BY <2>7, <2>10, <3>1, <3>2, <3>3
    <3> QED BY <2>4, <2>9, <2>10, <3>3, <3>4, SoleIsMatched
  <2>12. PICK c : run[r].result.top = {c} /\ c.flow = DocId(flows[i])
    BY <2>11
  <2>13. ~IsBlockedIntent(c, run[r].call.blocked)
    BY <2>2, <2>10, <2>12 DEF Blocked, IsBlockedIntent
  <2>14. Out(r) = Dispatch(c)
    <3>1. (CHOOSE x \in run[r].result.top : TRUE) = c
      BY <2>12
    <3> QED BY <2>1, <2>11, <2>12, <2>13, <3>1 DEF Directive
  <2> QED BY <2>2, <2>10, <2>12, <2>14 DEF Dispatch
<1> QED BY <1>1, PackInvariance, PTL
=============================================================================
