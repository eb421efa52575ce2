---------------------------- MODULE CoreRoute ----------------------------
(***************************************************************************)
(* CoreRouter::route (crates/fast2flow-core): hook filters, index search,  *)
(* deterministic strategy, confidence threshold, optional LLM, under the   *)
(* time budget of the request.  Requests share no state, so one at a time  *)
(* is routed.  Time passes at every point of the pipeline, also between a  *)
(* look at the clock and what is done with it.                             *)
(*                                                                         *)
(* A request r has budget, verdicts (what each filter says of it), blank   *)
(* (its trimmed text is empty), candidates (targets that the index search  *)
(* returns), best (the strategy's choice among them with its confidence,   *)
(* an option), and the router's llm, min and llmMin.                       *)
(***************************************************************************)
EXTENDS Naturals, Sequences

CONSTANTS
    Requests,       \* the requests that can arrive
    Targets,        \* the flows that an answer of the LLM can name
    Confidence,     \* the levels of confidence, a set of numbers
    MaxElapsed      \* bound: time stops there, except while a timer runs

(* FilterDecision *)
Verdicts == {"proceed", "continue", "respond", "deny"}

Decisions == [target : Targets, confidence : Confidence]

(* What a request is: verdicts of its filters, an index search and the     *)
(* decision of the strategy, whose target it found among the candidates.   *)
ASSUME RequestsAreSound ==
    /\ Confidence \subseteq Nat /\ MaxElapsed \in Nat
    /\ Requests \subseteq
         [budget : Nat, verdicts : Seq(Verdicts), blank : BOOLEAN, candidates : SUBSET Targets,
          best : SUBSET Decisions, llm : BOOLEAN, min : Nat, llmMin : Nat]
    /\ \A r \in Requests : \A d, e \in r.best : d.target \in r.candidates /\ d = e

VARIABLES
    pc,         \* the point of the pipeline
    req,        \* the request being routed
    at,         \* the filter to evaluate next
    elapsed,    \* started_at.elapsed()
    remaining,  \* what was left of the budget before the LLM call
    deadline,   \* when the timer of the LLM call fires
    ownWork,    \* history: the time of the LLM call that no timer covers
    out         \* the directive, and who chose it

clockVars == <<elapsed, remaining, deadline, ownWork>>
routeVars == <<pc, req, at, clockVars, out>>

Continue == [kind |-> "continue"]
Dispatch(target, confidence, source) ==
    [kind |-> "dispatch", target |-> target, confidence |-> confidence, source |-> source]

RouteInit ==
    /\ pc = "idle"
    /\ req \in Requests
    /\ at = 1
    /\ elapsed = 0
    /\ remaining = 0
    /\ deadline = 0
    /\ ownWork = 0
    /\ out = Continue

Goto(label) ==
    /\ pc' = label
    /\ UNCHANGED <<req, at, clockVars, out>>

Return(directive) ==
    /\ pc' = "done"
    /\ out' = directive
    /\ UNCHANGED <<req, at, clockVars>>

(* The clock starts; a zero budget is refused before any filter runs. *)
Start(r) ==
    /\ req' = r
    /\ pc' = IF r.budget = 0 THEN "done" ELSE "filter"
    /\ UNCHANGED <<at, clockVars, out>>

Receive == pc = "idle" /\ Start(req)

OverBudget == elapsed >= req.budget

(* Mutant: a filter's Continue lets the request go on. *)
RunFilterLenient ==
    /\ pc = "filter"
    /\ \/ /\ at > Len(req.verdicts)
          /\ Goto("search")
       \/ /\ at \in DOMAIN req.verdicts
          /\ req.verdicts[at] \in {"respond", "deny"}
          /\ Return([kind |-> req.verdicts[at]])
       \/ /\ at \in DOMAIN req.verdicts
          /\ req.verdicts[at] \in {"proceed", "continue"}
          /\ Goto("filtered")

RunFilter ==
    /\ pc = "filter"
    /\ \/ /\ at > Len(req.verdicts)
          /\ Goto("search")
       \/ /\ at \in DOMAIN req.verdicts
          /\ req.verdicts[at] # "proceed"
          /\ Return([kind |-> req.verdicts[at]])
       \/ /\ at \in DOMAIN req.verdicts
          /\ req.verdicts[at] = "proceed"
          /\ Goto("filtered")

(* Mutant: every second filter is skipped. *)
CheckBudgetSkipping ==
    /\ pc = "filtered"
    /\ \/ OverBudget /\ Return(Continue)
       \/ /\ ~OverBudget
          /\ pc' = "filter"
          /\ at' = at + 2
          /\ UNCHANGED <<req, clockVars, out>>

(* The budget is checked after each filter that lets the request proceed. *)
CheckBudget ==
    /\ pc = "filtered"
    /\ \/ OverBudget /\ Return(Continue)
       \/ /\ ~OverBudget
          /\ pc' = "filter"
          /\ at' = at + 1
          /\ UNCHANGED <<req, clockVars, out>>

(* index.search and strategy.evaluate, whose result is req.best *)
Search ==
    /\ pc = "search"
    /\ IF req.blank THEN Return(Continue) ELSE Goto("decide")

(* Mutant: any decision of the strategy is taken. *)
ConfidentIfAny == req.best # {}

Confident == \E d \in req.best : d.confidence >= req.min

Decide ==
    /\ pc = "decide"
    /\ \/ \E d \in req.best :
            /\ Confident
            /\ Return(Dispatch(d.target, d.confidence, "strategy"))
       \/ ~Confident /\ req.llm /\ Goto("fallback")
       \/ ~Confident /\ ~req.llm /\ Return(Continue)

(* Mutant: the LLM call gets the whole budget, not what is left of it. *)
AskLlmWholeBudget ==
    /\ pc = "fallback"
    /\ \/ OverBudget /\ Return(Continue)
       \/ /\ ~OverBudget
          /\ pc' = "call"
          /\ remaining' = req.budget
          /\ UNCHANGED <<req, at, elapsed, deadline, ownWork, out>>

(* The clock is read for what is left of the budget. *)
AskLlm ==
    /\ pc = "fallback"
    /\ \/ OverBudget /\ Return(Continue)
       \/ /\ ~OverBudget
          /\ pc' = "call"
          /\ remaining' = req.budget - elapsed
          /\ UNCHANGED <<req, at, elapsed, deadline, ownWork, out>>

(* The prompt and the provider's request are made; then its timer starts. *)
StartTimer ==
    /\ pc = "call"
    /\ pc' = "llm"
    /\ deadline' = elapsed + remaining
    /\ UNCHANGED <<req, at, elapsed, remaining, ownWork, out>>

LlmReplies == pc = "llm" /\ Goto("reply")

(* Mutant: the router denies what it cannot route. *)
LlmFailsClosed == pc = "llm" /\ Return([kind |-> "deny"])

(* It is unavailable, or answers with an error status. *)
LlmFails == pc = "llm" /\ Return(Continue)

(* Mutant: the LLM call has no timer. *)
LlmNeverTimesOut == FALSE /\ UNCHANGED routeVars

LlmTimesOut ==
    /\ pc = "llm"
    /\ elapsed >= deadline
    /\ Return(Continue)

(* A reply may be invalid JSON, or name any target with any confidence. *)
ReadReply ==
    /\ pc = "reply"
    /\ \/ Return(Continue)
       \/ \E t \in Targets, c \in Confidence :
              /\ c >= req.llmMin
              /\ Return(Dispatch(t, c, "llm"))

(* A due timer is served before time moves on. *)
Tick ==
    /\ pc \notin {"idle", "done"}
    /\ elapsed < IF pc = "llm" THEN deadline ELSE MaxElapsed
    /\ elapsed' = elapsed + 1
    /\ ownWork' = IF pc \in {"call", "reply"} THEN ownWork + 1 ELSE ownWork
    /\ UNCHANGED <<pc, req, at, remaining, deadline, out>>

Compute ==
    RunFilter \/ CheckBudget \/ Search \/ Decide \/ AskLlm \/ StartTimer \/ LlmTimesOut \/ ReadReply

RouteNext ==
    \/ Receive
    \/ Compute
    \/ LlmReplies
    \/ LlmFails
    \/ Tick

RouteSpec == RouteInit /\ [][RouteNext]_routeVars

(* The pipeline runs and time passes; no provider need ever answer. *)
RouteFairSpec == RouteSpec /\ WF_routeVars(Compute) /\ WF_routeVars(Tick)

-----------------------------------------------------------------------------
RouteTypeOK ==
    /\ pc \in {"idle", "filter", "filtered", "search", "decide", "fallback", "call", "llm", "reply", "done"}
    /\ req \in Requests
    /\ at \in 1 .. Len(req.verdicts) + 1
    /\ elapsed \in Nat /\ remaining \in Nat /\ deadline \in Nat /\ ownWork \in Nat
    /\ out \in [kind : {"continue", "respond", "deny"}]
           \cup [kind : {"dispatch"}, target : Targets, confidence : Confidence,
                 source : {"strategy", "llm"}]

Stops == {i \in DOMAIN req.verdicts : req.verdicts[i] # "proceed"}

(* A filter's verdict is final: nothing is dispatched past a filter that   *)
(* did not let the request proceed, and a deny or a canned response comes  *)
(* from the first filter that objected, never from one behind it.          *)
FilterVerdictIsFinal ==
    pc = "done" =>
        \/ out.kind = "continue"
        \/ out.kind = "dispatch" /\ Stops = {}
        \/ \E i \in Stops : /\ out.kind = req.verdicts[i]
                            /\ \A j \in Stops : i <= j

(* A dispatch is earned: the strategy's choice is a candidate of the index *)
(* at the threshold or above, and the LLM's is at its own threshold and    *)
(* was asked for only when the strategy had missed.                        *)
DispatchIsEarned ==
    pc = "done" /\ out.kind = "dispatch" =>
        /\ ~req.blank
        /\ \/ /\ out.source = "strategy"
              /\ out.target \in req.candidates
              /\ out.confidence >= req.min
           \/ /\ out.source = "llm"
              /\ req.llm
              /\ out.confidence >= req.llmMin
              /\ \A d \in req.best : d.confidence < req.min

(* A request for which the LLM is asked is past its budget by no more than *)
(* the router's own work: what goes by from the look at the clock to the   *)
(* timer, and from the reply to the directive, which no timer covers.  The *)
(* provider uses up what was left at that look and nothing more.           *)
LateByOwnWorkOnly == remaining > 0 => elapsed <= req.budget + ownWork

Asking == pc \in {"call", "llm", "reply"}

(* The LLM is the last resort and cannot deny or respond: once it is asked *)
(* the router goes on to Continue or to a dispatch only.                   *)
LlmFailsOpen ==
    [][Asking /\ ~Asking' =>
           /\ pc' = "done"
           /\ out'.kind \in {"continue", "dispatch"}]_routeVars

(* Every request gets a directive, also when the provider never answers.   *)
EveryRequestAnswered == pc \notin {"idle", "done"} ~> pc = "done"
=============================================================================
