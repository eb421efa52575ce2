-------------------------- MODULE CoreRouteProofs --------------------------
(***************************************************************************)
(* What CoreRouter::route promises for any requests, filters, thresholds   *)
(* and budgets: its type invariant, the finality of filters, that each     *)
(* dispatch is earned, and what the LLM may do and for how long.           *)
(***************************************************************************)
EXTENDS CoreRoute, TLAPS

(* A filter that was run is one of the request's. *)
AtAFilter == pc = "filtered" => at \in DOMAIN req.verdicts

(* The filters before the point that was reached let the request proceed. *)
FiltersPassed ==
    /\ pc = "filter" => \A i \in DOMAIN req.verdicts : i < at => req.verdicts[i] = "proceed"
    /\ pc = "filtered" => \A i \in DOMAIN req.verdicts : i <= at => req.verdicts[i] = "proceed"
    /\ pc \in {"search", "decide", "fallback", "call", "llm", "reply"} => Stops = {}

(* Past the search the text is not blank, and past the strategy its        *)
(* decision, if any, was below the threshold and there is an LLM.          *)
StrategyMissed ==
    /\ pc \in {"decide", "fallback", "call", "llm", "reply"} => ~req.blank
    /\ pc \in {"fallback", "call", "llm", "reply"} => req.llm /\ ~Confident

(* Where the time of the LLM call goes: what remained, and the own work on *)
(* top of it, are counted until the timer starts; then the timer holds them *)
(* together.                                                               *)
TimeIsAccounted ==
    /\ pc \notin {"call", "llm", "reply", "done"} => remaining = 0 /\ ownWork = 0
    /\ pc = "call" => elapsed + remaining = req.budget + ownWork
    /\ pc = "llm" => elapsed <= deadline /\ deadline = req.budget + ownWork
    /\ pc = "reply" => elapsed <= req.budget + ownWork

(* Nothing has been chosen before the end. *)
NothingChosen ==
    /\ pc = "idle" => at = 1
    /\ pc # "done" => out = Continue

(* The parts of the inductive invariant beyond the types: while a request  *)
(* is routed, and once it has its directive.                               *)
Running == FiltersPassed /\ StrategyMissed /\ TimeIsAccounted /\ NothingChosen

Answered == FilterVerdictIsFinal /\ DispatchIsEarned /\ LateByOwnWorkOnly

RouteInv == RouteTypeOK /\ AtAFilter /\ Running /\ Answered

(* What route needs of a request, wherever it comes from: HookPath makes   *)
(* requests of hooks, and they need not be among Requests.                 *)
IsRequest(r) ==
    /\ r.budget \in Nat /\ r.min \in Nat
    /\ r.verdicts \in Seq(Verdicts)
    /\ \A d \in r.best : d.confidence \in Nat /\ d.target \in r.candidates /\ \A e \in r.best : d = e

InHand == IsRequest(req) /\ at \in 1 .. Len(req.verdicts) + 1 /\ AtAFilter
          /\ elapsed \in Nat /\ remaining \in Nat /\ deadline \in Nat /\ ownWork \in Nat

-----------------------------------------------------------------------------
(* What a request in hand is made of. *)
LEMMA RequestParts ==
    ASSUME NEW r, IsRequest(r)
    PROVE  /\ r.budget \in Nat /\ r.min \in Nat
           /\ Len(r.verdicts) \in Nat
           /\ DOMAIN r.verdicts = 1 .. Len(r.verdicts)
           /\ \A i \in DOMAIN r.verdicts : r.verdicts[i] \in Verdicts
           /\ \A d \in r.best : /\ d.confidence \in Nat /\ d.target \in r.candidates
                                /\ \A e \in r.best : d = e
BY DEF IsRequest

LEMMA RequestsAreRequests ==
    ASSUME NEW r \in Requests
    PROVE  IsRequest(r) /\ \A d \in r.best : d.target \in Targets /\ d.confidence \in Confidence
<1>1. /\ r.budget \in Nat /\ r.min \in Nat
      /\ r.verdicts \in Seq(Verdicts)
      /\ r.best \subseteq Decisions
  BY RequestsAreSound
<1>2. \A d, e \in r.best : d.target \in r.candidates /\ d = e
  BY RequestsAreSound
<1>3. Confidence \subseteq Nat
  BY RequestsAreSound
<1>4. \A d \in r.best : d.target \in Targets /\ d.confidence \in Confidence /\ d.confidence \in Nat
  BY <1>1, <1>3 DEF Decisions
<1>5. QED
  BY <1>1, <1>2, <1>4 DEF IsRequest

LEMMA TypesAreInHand == RouteTypeOK /\ AtAFilter => InHand
BY RequestsAreRequests, RequestsAreSound DEF RouteTypeOK, InHand

(* With AtAFilter the types are inductive. *)
LEMMA TypesStep ==
    ASSUME RouteTypeOK, AtAFilter, [RouteNext]_routeVars
    PROVE  RouteTypeOK' /\ AtAFilter'
<1> USE RequestsAreSound DEF RouteTypeOK, AtAFilter, clockVars
<1>1. CASE Receive
  BY <1>1 DEF Receive, Start
<1>2. CASE RunFilter
  <2>1. CASE at > Len(req.verdicts) /\ Goto("search")
    BY <2>1 DEF Goto
  <2>2. CASE \E k \in Verdicts \ {"proceed"} : Return([kind |-> k])
    BY <2>2 DEF Return, Verdicts
  <2>3. CASE at \in DOMAIN req.verdicts /\ Goto("filtered")
    BY <2>3 DEF Goto
  <2>4. QED
    BY <1>2, <2>1, <2>2, <2>3, RequestParts, RequestsAreRequests DEF RunFilter
<1>3. CASE CheckBudget
  BY <1>3, RequestParts, RequestsAreRequests DEF CheckBudget, Return, Continue
<1>4. CASE Search
  BY <1>4 DEF Search, Return, Continue, Goto
<1>5. CASE Decide
  <2>1. CASE \E d \in req.best : Return(Dispatch(d.target, d.confidence, "strategy"))
    BY <2>1, RequestParts, RequestsAreRequests DEF Return, Dispatch
  <2>2. CASE Goto("fallback") \/ Return(Continue)
    BY <2>2 DEF Goto, Return, Continue
  <2>3. QED
    BY <1>5, <2>1, <2>2 DEF Decide
<1>6. CASE AskLlm \/ StartTimer
  BY <1>6, RequestParts, RequestsAreRequests DEF AskLlm, StartTimer, Return, Continue, OverBudget
<1>7. CASE ReadReply
  BY <1>7 DEF ReadReply, Return, Continue, Dispatch
<1>8. CASE LlmReplies \/ LlmFails \/ LlmTimesOut
  BY <1>8 DEF LlmReplies, LlmFails, LlmTimesOut, Goto, Return, Continue
<1>9. CASE Tick
  BY <1>9 DEF Tick
<1>10. CASE UNCHANGED routeVars
  BY <1>10 DEF routeVars
<1>11. QED
  BY <1>1, <1>2, <1>3, <1>4, <1>5, <1>6, <1>7, <1>8, <1>9, <1>10 DEF RouteNext, Compute

(* Every state is of its type: route visits its filters in order and       *)
(* returns one of the directives, with a target and a confidence that the  *)
(* strategy or the LLM gave.                                               *)
THEOREM RouteTypeCorrect == RouteSpec => []RouteTypeOK
<1>1. RouteInit => RouteTypeOK /\ AtAFilter
  BY RequestsAreSound, RequestParts, RequestsAreRequests DEF RouteInit, RouteTypeOK, AtAFilter, Continue
<1>2. RouteTypeOK /\ AtAFilter /\ [RouteNext]_routeVars => RouteTypeOK' /\ AtAFilter'
  BY TypesStep
<1>3. QED
  BY <1>1, <1>2, PTL DEF RouteSpec

-----------------------------------------------------------------------------
(* A request stays in hand. *)
LEMMA HandStep ==
    ASSUME InHand, [RouteNext]_routeVars
    PROVE  InHand'
<1> USE DEF InHand, AtAFilter, clockVars
<1>1. CASE Receive
  BY <1>1 DEF Receive, Start
<1>2. CASE RunFilter
  BY <1>2 DEF RunFilter, Goto, Return
<1>3. CASE CheckBudget
  BY <1>3, RequestParts DEF CheckBudget, Return
<1>4. CASE Search \/ Decide
  BY <1>4 DEF Search, Decide, Goto, Return
<1>5. CASE LlmReplies \/ LlmFails \/ LlmTimesOut \/ ReadReply
  BY <1>5 DEF LlmReplies, LlmFails, LlmTimesOut, ReadReply, Goto, Return
<1>6. CASE Tick
  BY <1>6 DEF Tick
<1>7. CASE AskLlm \/ StartTimer
  BY <1>7, RequestParts DEF AskLlm, OverBudget, StartTimer, Return
<1>8. CASE UNCHANGED routeVars
  BY <1>8 DEF routeVars
<1>9. QED
  BY <1>1, <1>2, <1>3, <1>4, <1>5, <1>6, <1>7, <1>8 DEF RouteNext, Compute

(* Before the end the three properties say no more than the accounts do. *)
LEMMA AnsweredBeforeTheEnd ==
    ASSUME InHand', Running', (pc # "done")'
    PROVE  Answered'
<1>1. (req.budget \in Nat)'
  BY DEF InHand, IsRequest
<1>2. LateByOwnWorkOnly'
  BY <1>1 DEF InHand, Running, TimeIsAccounted, LateByOwnWorkOnly
<1>3. QED
  BY <1>2 DEF Answered, FilterVerdictIsFinal, DispatchIsEarned

(* At the end a step has nothing to show for where it came from. *)
LEMMA RunningAtTheEnd == (pc = "done")' => Running'
BY DEF Running, FiltersPassed, StrategyMissed, TimeIsAccounted, NothingChosen

(* A directive takes no time: what was accounted for stays so. *)
LEMMA ReturnKeepsTime ==
    ASSUME LateByOwnWorkOnly, NEW directive, Return(directive)
    PROVE  LateByOwnWorkOnly'
BY DEF Return, LateByOwnWorkOnly, clockVars

(* A request that is let go is always right. *)
LEMMA ReturnContinue == LateByOwnWorkOnly /\ Return(Continue) => Answered'
BY ReturnKeepsTime DEF Return, Continue, Answered, FilterVerdictIsFinal, DispatchIsEarned

(* What route keeps on its way, action by action. *)
LEMMA RunningStep ==
    ASSUME InHand, Running, [RouteNext]_routeVars, (pc # "done")'
    PROVE  Running'
<1> USE DEF InHand, AtAFilter, Running, NothingChosen, clockVars
<1>1. CASE Receive
  BY <1>1, RequestParts DEF Receive, Start, FiltersPassed, StrategyMissed, TimeIsAccounted
<1>2. CASE RunFilter
  <2>1. CASE at > Len(req.verdicts) /\ Goto("search")
    <3>1. Stops = {}
      BY <1>2, <2>1, RequestParts DEF RunFilter, FiltersPassed, Stops
    <3>2. Stops' = {}
      BY <2>1, <3>1 DEF Goto, Stops
    <3>3. pc = "filter" /\ pc' = "search" /\ out' = Continue /\ UNCHANGED clockVars
      BY <1>2, <2>1 DEF RunFilter, Goto
    <3>4. FiltersPassed' /\ StrategyMissed' /\ TimeIsAccounted' /\ NothingChosen'
      BY <3>2, <3>3 DEF FiltersPassed, StrategyMissed, TimeIsAccounted
    <3>5. QED
      BY <3>4
  <2>2. CASE at \in DOMAIN req.verdicts /\ req.verdicts[at] = "proceed" /\ Goto("filtered")
    <3>1. pc = "filter" /\ pc' = "filtered" /\ UNCHANGED <<req, at, clockVars, out>>
      BY <1>2, <2>2 DEF RunFilter, Goto
    <3>2. \A i \in DOMAIN req.verdicts : i <= at => req.verdicts[i] = "proceed"
      BY <2>2, <3>1, RequestParts DEF FiltersPassed
    <3>3. QED
      BY <3>1, <3>2 DEF FiltersPassed, StrategyMissed, TimeIsAccounted
  <2>3. QED
    BY <1>2, <2>1, <2>2 DEF RunFilter, Return
<1>3. CASE CheckBudget
  BY <1>3, RequestParts DEF CheckBudget, Return, FiltersPassed, StrategyMissed, TimeIsAccounted
<1>4. CASE Search
  BY <1>4 DEF Search, Return, Goto, FiltersPassed, StrategyMissed, TimeIsAccounted, Stops
<1>5. CASE Decide
  BY <1>5 DEF Decide, Return, Goto, FiltersPassed, StrategyMissed, TimeIsAccounted, Stops, Confident
<1>6. CASE AskLlm \/ StartTimer
  BY <1>6, RequestParts DEF AskLlm, OverBudget, StartTimer, Return, FiltersPassed, StrategyMissed, TimeIsAccounted,
     Stops, Confident
<1>7. CASE LlmReplies \/ LlmFails \/ LlmTimesOut \/ ReadReply
  BY <1>7 DEF LlmReplies, LlmFails, LlmTimesOut, ReadReply, Goto, Return, FiltersPassed, StrategyMissed,
     TimeIsAccounted, Stops, Confident
<1>8. CASE Tick
  <2>1. FiltersPassed' /\ StrategyMissed' /\ NothingChosen'
    BY <1>8, RequestParts DEF Tick, FiltersPassed, StrategyMissed, Stops, Confident
  <2>2. TimeIsAccounted'
    <3>1. req.budget \in Nat
      BY RequestParts
    <3>2. CASE pc \in {"call", "reply"}
      BY <1>8, <3>1, <3>2 DEF Tick, TimeIsAccounted
    <3>3. CASE pc = "llm"
      BY <1>8, <3>1, <3>3 DEF Tick, TimeIsAccounted
    <3>4. CASE pc \notin {"call", "llm", "reply"}
      BY <1>8, <3>4 DEF Tick, TimeIsAccounted
    <3>5. QED
      BY <3>2, <3>3, <3>4
  <2>3. QED
    BY <2>1, <2>2
<1>9. CASE UNCHANGED routeVars
  BY <1>9 DEF routeVars, FiltersPassed, StrategyMissed, TimeIsAccounted, Stops, Confident
<1>10. QED
  BY <1>1, <1>2, <1>3, <1>4, <1>5, <1>6, <1>7, <1>8, <1>9 DEF RouteNext, Compute

(* A directive is right when it is returned: by a filter, the strategy or  *)
(* the LLM; a step after the end changes nothing.                          *)
LEMMA AnsweredStep ==
    ASSUME InHand, Running, Answered, [RouteNext]_routeVars, (pc = "done")'
    PROVE  Answered'
<1> USE DEF InHand, AtAFilter, Running, clockVars
<1>1. CASE Receive
  BY <1>1 DEF Receive, Start, NothingChosen, Continue, Answered, FilterVerdictIsFinal,
     DispatchIsEarned, LateByOwnWorkOnly
<1>2. CASE RunFilter
  <2>1. /\ pc = "filter" /\ at \in DOMAIN req.verdicts /\ req.verdicts[at] # "proceed"
        /\ Return([kind |-> req.verdicts[at]])
    BY <1>2 DEF RunFilter, Goto
  <2>2. at \in Stops /\ \A j \in Stops : at <= j
    BY <2>1, RequestParts DEF FiltersPassed, Stops
  <2>3. Stops' = Stops /\ req' = req /\ out'.kind = req.verdicts[at] /\ out'.kind # "dispatch"
    BY <2>1, RequestParts DEF Return, Stops, Verdicts
  <2>4. QED
    BY <2>1, <2>2, <2>3, ReturnKeepsTime DEF Answered, FilterVerdictIsFinal, DispatchIsEarned
<1>3. CASE Return(Continue)
  BY <1>3, ReturnContinue DEF Answered
<1>4. CASE Decide /\ ~Return(Continue)
  <2>1. PICK d \in req.best :
           pc = "decide" /\ Confident /\ Return(Dispatch(d.target, d.confidence, "strategy"))
    BY <1>4 DEF Decide, Goto
  <2>2. /\ UNCHANGED req /\ out' = Dispatch(d.target, d.confidence, "strategy") /\ pc' = "done"
        /\ d.target \in req.candidates /\ ~req.blank /\ Stops = {} /\ Stops' = {}
    BY <2>1, RequestParts DEF Return, FiltersPassed, StrategyMissed, Stops
  <2>3. d.confidence >= req.min
    BY <2>1, RequestParts DEF Confident
  <2>4. QED
    BY <2>1, <2>2, <2>3, ReturnKeepsTime DEF Dispatch, Answered, FilterVerdictIsFinal, DispatchIsEarned
<1>5. CASE ReadReply /\ ~Return(Continue)
  <2>1. PICK t \in Targets, c \in Confidence :
           pc = "reply" /\ c >= req.llmMin /\ Return(Dispatch(t, c, "llm"))
    BY <1>5 DEF ReadReply
  <2>2. \A d \in req.best : d.confidence < req.min
    <3>1. ~Confident
      BY <2>1 DEF StrategyMissed
    <3>2. \A d \in req.best : ~(d.confidence >= req.min)
      BY <3>1 DEF Confident
    <3>3. QED
      BY <3>2, RequestParts
  <2>3. /\ UNCHANGED req /\ out' = Dispatch(t, c, "llm") /\ pc' = "done"
        /\ req.llm /\ ~req.blank /\ Stops = {} /\ Stops' = {}
    BY <2>1 DEF Return, FiltersPassed, StrategyMissed, Stops
  <2>4. QED
    BY <2>1, <2>2, <2>3, ReturnKeepsTime DEF Dispatch, Answered, FilterVerdictIsFinal, DispatchIsEarned
<1>6. CASE UNCHANGED routeVars
  BY <1>6 DEF routeVars, Stops, Answered, FilterVerdictIsFinal, DispatchIsEarned, LateByOwnWorkOnly
<1>7. QED
  BY <1>1, <1>2, <1>3, <1>4, <1>5, <1>6
  DEF RouteNext, Compute, CheckBudget, Search, AskLlm, StartTimer, LlmReplies, LlmFails, LlmTimesOut,
      ReadReply, Tick, Goto, Decide

(* The inductive invariant holds in every reachable state. *)
THEOREM RouteInvariance == RouteSpec => []RouteInv
<1>1. RouteInit => RouteInv
  BY RequestsAreSound, RequestParts, RequestsAreRequests
  DEF RouteInit, RouteInv, RouteTypeOK, AtAFilter, Running, Answered, FiltersPassed, StrategyMissed,
      TimeIsAccounted, NothingChosen, FilterVerdictIsFinal, DispatchIsEarned, LateByOwnWorkOnly, Continue
<1>2. RouteInv /\ [RouteNext]_routeVars => RouteInv'
  <2>1. RouteInv /\ [RouteNext]_routeVars => RouteTypeOK' /\ AtAFilter' /\ InHand /\ InHand'
    BY TypesStep, TypesAreInHand, HandStep DEF RouteInv
  <2>2. RouteInv /\ [RouteNext]_routeVars => Running'
    BY <2>1, RunningStep, RunningAtTheEnd DEF RouteInv
  <2>3. RouteInv /\ [RouteNext]_routeVars => Answered'
    BY <2>1, <2>2, AnsweredStep, AnsweredBeforeTheEnd DEF RouteInv
  <2>4. QED
    BY <2>1, <2>2, <2>3 DEF RouteInv
<1>3. QED
  BY <1>1, <1>2, PTL DEF RouteSpec

-----------------------------------------------------------------------------
(* No filter after the first that objects has a say, and nothing is        *)
(* dispatched past one that did, for any list of filters.                  *)
THEOREM FiltersAreFinal == RouteSpec => []FilterVerdictIsFinal
BY RouteInvariance, PTL DEF RouteInv, Answered

(* A dispatch is a candidate at the strategy's threshold, or an answer at  *)
(* the LLM's after the strategy missed.                                    *)
THEOREM DispatchesAreEarned == RouteSpec => []DispatchIsEarned
BY RouteInvariance, PTL DEF RouteInv, Answered

(* The provider is waited for no longer than what was left of the budget:  *)
(* lateness is the router's own work, for any budget and any clock.        *)
THEOREM LlmStaysInBudget == RouteSpec => []LateByOwnWorkOnly
BY RouteInvariance, PTL DEF RouteInv, Answered

(* The router goes on from the LLM to Continue or to a dispatch. *)
LEMMA LlmStep ==
    [RouteNext]_routeVars =>
        [Asking /\ ~Asking' =>
            pc' = "done" /\ out'.kind \in {"continue", "dispatch"}]_routeVars
BY DEF RouteNext, Compute, Receive, Start, RunFilter, CheckBudget, Search, Decide, AskLlm, StartTimer,
       LlmReplies, LlmFails, LlmTimesOut, ReadReply, Tick, Return, Goto, Continue, Dispatch, Asking, routeVars

(* Whatever a provider does, the router then answers Continue or Dispatch. *)
THEOREM LlmNeverDenies == RouteSpec => LlmFailsOpen
BY LlmStep, PTL DEF RouteSpec, LlmFailsOpen
=============================================================================
