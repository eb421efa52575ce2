--------------------------- MODULE HookPathProofs ---------------------------
(***************************************************************************)
(* Proofs about the path of a hook.  First its names: the rules for        *)
(* endpoint ids and those for scopes fit together, for ids of any          *)
(* characters and any length, and so a hook that has been accepted for its *)
(* endpoint id is never turned away for the scope that is made of it.      *)
(* Then its settings: what lets it through is the policy of the scope that *)
(* was searched.  Last the index that it loads: eviction reaches the user. *)
(***************************************************************************)
EXTENDS HookPath, EndpointReindexProofs, CoreRouteProofs, SequenceTheorems

(* The scope of an endpoint, character by character. *)
LEMMA EndpointScopeShape ==
    ASSUME NEW id \in Seq(Character)
    PROVE  LET s == EndpointScope(id)  n == Len(EndpointPrefix) IN
           /\ s \in Seq(Character)
           /\ n \in Nat
           /\ Len(s) = n + 1 + Len(id)
           /\ \A i \in 1 .. n : s[i] = EndpointPrefix[i]
           /\ s[n + 1] = ":"
           /\ \A i \in 1 .. Len(id) : s[n + 1 + i] = id[i]
<1>1. EndpointPrefix \in Seq(Character) /\ Len(EndpointPrefix) \in Nat
  <2>1. /\ Len(EndpointPrefix) \in Nat
        /\ EndpointPrefix \in [1 .. Len(EndpointPrefix) -> Alphanumeric]
      BY PrefixIsAName
  <2>2. EndpointPrefix \in [1 .. Len(EndpointPrefix) -> Character]
      BY <2>1, CharactersAreKnown
  <2> QED BY <2>1, <2>2
<1>3. ":" \in Character
    BY CharactersAreKnown
<1>4. <<":">> \in Seq(Character) /\ Len(<<":">>) = 1 /\ <<":">>[1] = ":"
    BY <1>3
<1>2. EndpointPrefix \o <<":">> \in Seq(Character)
      /\ Len(EndpointPrefix \o <<":">>) = Len(EndpointPrefix) + 1
    BY <1>1, <1>4
<1> QED BY <1>1, <1>2, <1>4 DEF EndpointScope

(* What makes a segment valid, by its characters.                           *)
LEMMA SegmentIsValid ==
    ASSUME NEW t \in Seq(Character), Len(t) > 0,
           \A i \in 1 .. Len(t) : t[i] \in NameChar,
           t[1] # ".", t[Len(t)] # "."
    PROVE  ValidSegment(t)
<1>1. t # <<>>
    BY EmptySeq
<1>2. DOMAIN t = 1 .. Len(t)
    BY LenProperties
<1> QED BY <1>1, <1>2 DEF ValidSegment, AllNameChars

(* The text before the colon of a scope of an endpoint is a segment, and    *)
(* so is its id if it is valid.                                             *)
THEOREM EndpointScopeIsValid ==
    ASSUME NEW id \in Seq(Character), ValidEndpointId(id)
    PROVE  ValidScope(EndpointScope(id))
<1> DEFINE s == EndpointScope(id)
           n == Len(EndpointPrefix)
           left == SubSeq(s, 1, n)
           right == SubSeq(s, n + 2, Len(s))
<1>1. /\ s \in Seq(Character) /\ n \in Nat /\ Len(s) = n + 1 + Len(id) /\ s[n + 1] = ":"
      /\ \A i \in 1 .. n : s[i] = EndpointPrefix[i]
      /\ \A i \in 1 .. Len(id) : s[n + 1 + i] = id[i]
    BY EndpointScopeShape
<1>2. /\ n > 0 /\ \A i \in 1 .. n : EndpointPrefix[i] \in Alphanumeric
    BY PrefixIsAName, EmptySeq
<1>3. /\ Len(id) \in 1 .. MaxEndpointId
      /\ \A i \in 1 .. Len(id) : id[i] \in NameChar
      /\ id[1] \in Alphanumeric /\ id[Len(id)] \in Alphanumeric
    BY ScopesAreLongEnough, EmptySeq DEF ValidEndpointId, AllNameChars
<1>4. ValidSegment(left)
  <2>1. left \in Seq(Character) /\ Len(left) = n /\ \A i \in 1 .. n : left[i] = s[i]
      BY <1>1, <1>2
  <2>2. \A i \in 1 .. n : left[i] \in Alphanumeric
      BY <1>1, <1>2, <2>1
  <2>3. \A c \in Alphanumeric : c \in NameChar /\ c # "."
      BY PunctuationIsApart DEF NameChar
  <2>4. 1 \in 1 .. n /\ n \in 1 .. n
      BY <1>1, <1>2
  <2>5. (\A i \in 1 .. n : left[i] \in NameChar) /\ left[1] # "." /\ left[n] # "."
      BY <2>2, <2>3, <2>4
  <2> HIDE DEF left
  <2> QED BY <1>2, <2>1, <2>5, SegmentIsValid
<1>5. ValidSegment(right)
  <2>1. right \in Seq(Character) /\ Len(right) = Len(id)
        /\ \A i \in 1 .. Len(id) : right[i] = s[n + 1 + i]
      BY <1>1, <1>2, <1>3
  <2> HIDE DEF right
  <2>2. \A i \in 1 .. Len(id) : right[i] = id[i]
      BY <1>1, <2>1
  <2>3. \A c \in Alphanumeric : c # "."
      BY PunctuationIsApart
  <2>4. /\ 1 \in 1 .. Len(id) /\ Len(id) \in 1 .. Len(id)
        /\ \A i \in 1 .. Len(id) : right[i] \in NameChar
        /\ right[1] # "." /\ right[Len(id)] # "."
      BY <1>3, <2>2, <2>3, LenProperties
  <2> QED BY <1>3, <2>1, <2>4, SegmentIsValid
<1>6. Len(s) <= MaxScope
    BY <1>1, <1>3, ScopesAreLongEnough
<1>7. n + 1 \in DOMAIN s /\ (n + 1) - 1 = n /\ (n + 1) + 1 = n + 2
    BY <1>1
<1> QED BY <1>1, <1>4, <1>5, <1>6, <1>7 DEF ValidScope

(* A valid scope, of an endpoint or not, is one name: a single colon between *)
(* name characters, and no dot at either end or next to the colon.  So it    *)
(* splits into its two segments in one way only.                             *)
THEOREM ValidScopesAreNames ==
    ASSUME NEW s \in Seq(Character), ValidScope(s)
    PROVE  \E colon \in 2 .. Len(s) - 1 :
              /\ s[colon] = ":"
              /\ \A i \in 1 .. Len(s) : i # colon => s[i] \in NameChar /\ s[i] # ":"
              /\ \A i \in {1, colon - 1, colon + 1, Len(s)} : s[i] # "."
<1>1. PICK n \in Nat : n = Len(s) /\ DOMAIN s = 1 .. n
  OBVIOUS
<1>2. PICK colon \in 1 .. n :
         /\ s[colon] = ":"
         /\ ValidSegment(SubSeq(s, 1, colon - 1))
         /\ ValidSegment(SubSeq(s, colon + 1, n))
  BY <1>1 DEF ValidScope
<1> DEFINE left == SubSeq(s, 1, colon - 1)
           right == SubSeq(s, colon + 1, n)
<1>3. /\ left \in Seq(Character) /\ Len(left) = colon - 1
      /\ \A i \in 1 .. colon - 1 : left[i] = s[i]
  BY <1>1, <1>2
<1>4. /\ right \in Seq(Character) /\ Len(right) = n - colon
      /\ \A i \in 1 .. n - colon : right[i] = s[colon + i]
  BY <1>1, <1>2
<1>5. ValidSegment(left) /\ ValidSegment(right)
  BY <1>2
<1> HIDE DEF left, right
<1>6. /\ Len(left) > 0 /\ left[1] # "." /\ left[Len(left)] # "."
      /\ \A i \in 1 .. Len(left) : left[i] \in NameChar
  BY <1>3, <1>5, EmptySeq, LenProperties DEF ValidSegment, AllNameChars
<1>7. /\ Len(right) > 0 /\ right[1] # "." /\ right[Len(right)] # "."
      /\ \A i \in 1 .. Len(right) : right[i] \in NameChar
  BY <1>4, <1>5, EmptySeq, LenProperties DEF ValidSegment, AllNameChars
<1>8. colon \in 2 .. n - 1
  BY <1>1, <1>2, <1>3, <1>4, <1>6, <1>7
<1>9. \A i \in 1 .. n : i # colon => s[i] \in NameChar
  <2> TAKE i \in 1 .. n
  <2>1. CASE i < colon
    <3>1. i \in 1 .. colon - 1
      BY <1>8, <2>1
    <3>2. QED
      BY <1>3, <1>6, <3>1
  <2>2. CASE i > colon
    <3>1. PICK k \in 1 .. n - colon : colon + k = i
      <4>1. i - colon \in 1 .. n - colon /\ colon + (i - colon) = i
        BY <1>1, <1>8, <2>2
      <4>2. QED
        BY <4>1
    <3>2. QED
      BY <1>4, <1>7, <3>1
  <2>3. QED
    BY <1>2, <2>1, <2>2
<1>10. ":" \notin NameChar
  BY PunctuationIsApart DEF NameChar
<1>11. s[1] # "." /\ s[colon - 1] # "."
  BY <1>3, <1>6, <1>8
<1>12. s[colon + 1] # "." /\ s[n] # "."
  <2>1. right[1] = s[colon + 1] /\ right[n - colon] = s[colon + (n - colon)] /\ colon + (n - colon) = n
    BY <1>1, <1>4, <1>8
  <2>2. QED
    BY <1>4, <1>7, <2>1
<1>13. QED
  BY <1>1, <1>2, <1>8, <1>9, <1>10, <1>11, <1>12

(* No two endpoints share a scope, and with it an index and a policy.       *)
THEOREM EndpointScopesAreDistinct ==
    ASSUME NEW a \in Seq(Character), NEW b \in Seq(Character),
           EndpointScope(a) = EndpointScope(b)
    PROVE  a = b
<1>1. Len(a) = Len(b)
    BY EndpointScopeShape
<1> DEFINE n == Len(EndpointPrefix)
<1>3. \A i \in 1 .. Len(a) : EndpointScope(a)[n + 1 + i] = a[i]
    BY EndpointScopeShape
<1>4. \A i \in 1 .. Len(b) : EndpointScope(b)[n + 1 + i] = b[i]
    BY EndpointScopeShape
<1>2. \A i \in 1 .. Len(a) : a[i] = b[i]
    BY <1>1, <1>3, <1>4
<1> QED BY <1>1, <1>2, SeqEqual
-----------------------------------------------------------------------------
(* The inductive invariant: a hook on its way to the index has an endpoint  *)
(* id that was parsed, in whichever entry.                                  *)
ParsedBeforeLoad == pc = "load" => EndpointIdParses(hook)

NameInv ==
    /\ hook \in HookIn
    /\ hook.entry = "component" => hook.endpoint = {}
    /\ ParsedBeforeLoad

LEMMA NameInit == PathInit => NameInv
BY HooksAreSound DEF PathInit, RouteInit, NameInv, ParsedBeforeLoad

(* The scope of a hook with a parsed endpoint id is a sequence of characters *)
(* again, and the rest of the hook is as before.                             *)
LEMMA CanonicalizeKeepsId ==
    ASSUME NEW h \in HookIn
    PROVE  /\ Canonicalize(h) \in HookIn
           /\ Canonicalize(h).endpoint = h.endpoint
           /\ Canonicalize(h).entry = h.entry
<1>1. EffectiveScope(h) \in Seq(Character)
  <2>1. CASE h.endpoint = {}
      BY <2>1 DEF EffectiveScope, HookIn
  <2>2. CASE h.endpoint # {}
    <3> DEFINE id == CHOOSE e \in h.endpoint : TRUE
    <3>1. id \in Seq(Character)
        BY <2>2 DEF HookIn
    <3> HIDE DEF id
    <3>2. EndpointScope(id) \in Seq(Character)
        BY <3>1, EndpointScopeShape
    <3>3. EffectiveScope(h) = EndpointScope(id)
        BY <2>2 DEF EffectiveScope, id
    <3> QED BY <3>2, <3>3
  <2> QED BY <2>1, <2>2
<1> QED BY <1>1 DEF Canonicalize, HookIn

(* No step of the router leads back to the index. *)
LEMMA RouteStaysOff ==
    ASSUME pc # "load", RouteNext PROVE pc' # "load"
<1>1. ASSUME NEW directive, Return(directive) PROVE pc' # "load"
    BY <1>1 DEF Return
<1>2. CASE Receive
    BY <1>2 DEF Receive, Start
<1>3. CASE Compute
    BY <1>3, Zenon DEF Compute, RunFilter, CheckBudget, Search, Decide, AskLlm, StartTimer, LlmTimesOut,
       ReadReply, Goto, Return
<1>4. CASE LlmReplies \/ LlmFails
    BY <1>4, <1>1 DEF LlmReplies, LlmFails, Goto
<1>5. CASE Tick
    BY <1>5 DEF Tick
<1> QED BY <1>2, <1>3, <1>4, <1>5 DEF RouteNext

LEMMA NameStep == NameInv /\ [PathNext]_pathVars => NameInv'
<1> SUFFICES ASSUME NameInv, [PathNext]_pathVars PROVE NameInv'
    OBVIOUS
<1> USE DEF NameInv
<1>1. CASE hook' = hook /\ (pc' = pc \/ pc' # "load")
    BY <1>1 DEF ParsedBeforeLoad, EndpointIdParses
<1>2. CASE UNCHANGED pathVars \/ Background
    BY <1>1, <1>2 DEF pathVars, hookVars, routeVars, Background
<1>3. CASE BootFails \/ ExtractPanics
    BY <1>1, <1>3 DEF BootFails, ExtractPanics, Exit, Return, hookVars
<1>4. CASE Arrive
  <2>1. hook' = Canonicalize(hook) /\ EndpointIdParses(hook)
      BY <1>4 DEF Arrive
  <2> QED BY <2>1, CanonicalizeKeepsId DEF ParsedBeforeLoad, EndpointIdParses
<1>5. CASE Install
    BY <1>1, <1>5 DEF Install, routeVars
<1>6. CASE HandleHookFails \/ ReturnEarly \/ LoadFails
    BY <1>1, <1>6 DEF HandleHookFails, ReturnEarly, LoadFails, Return, hookVars
<1>7. CASE HandleHook
    BY <1>7 DEF HandleHook, WellNamed, ParsedBeforeLoad, EndpointIdParses
<1>8. CASE RouteIntent
    BY <1>8 DEF RouteIntent, At, ParsedBeforeLoad, EndpointIdParses
<1>9. CASE LoadIndex
    BY <1>1, <1>9 DEF LoadIndex, routeVars, hookVars
<1>10. CASE EnterRouter
  <2>1. hook' = hook /\ pc' \in {"done", "filter"}
      BY <1>10, Zenon DEF EnterRouter, Start, hookVars
  <2> QED BY <1>1, <2>1
<1>11. CASE RouteStep
    BY <1>1, <1>11, RouteStaysOff DEF RouteStep, hookVars
<1> QED
    BY <1>2, <1>3, <1>4, <1>5, <1>6, <1>7, <1>8, <1>9, <1>10, <1>11 DEF PathNext

(* A hook that is accepted for its endpoint id, at any entry, is looked up   *)
(* with a valid scope.                                                       *)
THEOREM EndpointsAreServed == PathSpec => []EndpointIsNeverMisnamed
<1>1. NameInv => EndpointIsNeverMisnamed
  <2> SUFFICES ASSUME NameInv, pc = "load", hook.endpoint # {}
               PROVE  ValidScope(Located.scope)
      BY DEF EndpointIsNeverMisnamed
  <2> DEFINE id == CHOOSE e \in hook.endpoint : TRUE
  <2>1. id \in hook.endpoint
      OBVIOUS
  <2>2. id \in Seq(Character) /\ ValidEndpointId(id)
      BY <2>1 DEF NameInv, ParsedBeforeLoad, EndpointIdParses, HookIn
  <2>3. Located.scope = EndpointScope(id)
      BY DEF Located, EffectiveScope, NameInv, HookIn
  <2> HIDE DEF id
  <2> QED BY <2>2, <2>3, EndpointScopeIsValid
<1> QED BY <1>1, NameInit, NameStep, PTL DEF PathSpec

-----------------------------------------------------------------------------
(* The settings of a request.  Its step at the router: *)
AtTheRouter == pc \in {"filter", "filtered", "search", "decide", "fallback", "call", "llm", "reply"}

(* The index of a hook is that of the endpoint, and is loaded on its way.  *)
LookedUp ==
    /\ step[Caller] # "idle" => Indexed /\ pc # "idle"
    /\ AtTheRouter => step[Caller] = "hit"

(* The runtimes that an environment can give to the component. *)
Installable == UNION {RouterFromEnv(env, TRUE) : env \in Environments}

FirstInstallStays ==
    /\ installs \in Seq(Installable)
    /\ runtime = IF installs = <<>> THEN {} ELSE {installs[1]}

(* A hook on its way to a directive of the router, or there.               *)
Admitted == pc = "load" \/ AtTheRouter \/ step[Caller] = "hit"

AdmittedByItsPolicy ==
    Admitted =>
        /\ hook.entry = "host" =>
              /\ hook = Located
              /\ \E booted \in host :
                    host = {booted} /\ filter = ResolveRequestPolicy(booted, hook).filter
        /\ hook.entry = "wit" => installs # <<>>

(* The request that the router has is made of the hook and its settings.   *)
MadeOfTheHook ==
    step[Caller] = "hit" /\ pc # "load" =>
        /\ req.budget = hook.budget
        /\ req.verdicts = <<Evaluate(filter, Located)>>
        /\ \A d, e \in req.best : d.target \in req.candidates /\ d = e
        /\ \E router \in Settings :
              req.llm = router.llm /\ req.min = router.min /\ req.llmMin = router.llmMin

(* The router is past the one filter only if that let the request proceed. *)
PastTheFilter ==
    /\ pc \in {"idle", "load", "done"} \/ AtTheRouter
    /\ pc \in {"idle", "load", "filtered"} => at = 1
    /\ pc = "filter" => at = 1 \/ (at = 2 /\ req.verdicts[1] = "proceed")
    /\ AtTheRouter /\ pc # "filter" => req.verdicts[1] = "proceed"
    /\ pc \in {"fallback", "call", "llm", "reply"} => req.llm
    /\ pc # "done" => out = Continue

(* What a directive says of the request that it answers.                   *)
DirectiveOfTheRouter ==
    pc = "done" =>
        /\ out.kind = "dispatch" =>
              /\ step[Caller] = "hit" /\ req.verdicts[1] = "proceed"
              /\ \/ (/\ out.source = "strategy" /\ out.confidence >= req.min
                     /\ out.target \in req.candidates)
                 \/ (out.source = "llm" /\ req.llm /\ out.confidence >= req.llmMin)
        /\ step[Caller] = "hit" /\ req.verdicts[1] = "deny" /\ req.budget # 0 => out.kind = "deny"

SettingsInv ==
    /\ LookedUp
    /\ FirstInstallStays
    /\ AdmittedByItsPolicy
    /\ MadeOfTheHook
    /\ PastTheFilter
    /\ DirectiveOfTheRouter

(* The verdict of a filter is that of one of its rules, and the first rule  *)
(* that objects decides.                                                    *)
LEMMA FirstVerdictDecides ==
    ASSUME NEW a \in Verdicts, NEW b \in Verdicts, NEW c \in Verdicts,
           NEW d \in Verdicts, NEW e \in Verdicts, NEW g \in Verdicts
    PROVE  LET word == FirstVerdict(<<a, b, c, d, e, g>>) IN
           /\ word \in Verdicts
           /\ a = "proceed" /\ b = "deny" => word = "deny"
<1> DEFINE verdicts == <<a, b, c, d, e, g>>
           stops == {i \in DOMAIN verdicts : verdicts[i] # "proceed"}
           first == CHOOSE i \in stops : \A j \in stops : i <= j
<1>1. DOMAIN verdicts = {1, 2, 3, 4, 5, 6} /\ \A i \in DOMAIN verdicts : verdicts[i] \in Verdicts
  OBVIOUS
<1>2. stops \subseteq {1, 2, 3, 4, 5, 6}
  BY <1>1
<1>3. verdicts[1] = a /\ verdicts[2] = b
  OBVIOUS
<1>4. FirstVerdict(verdicts) = IF stops = {} THEN "proceed" ELSE verdicts[first]
  BY DEF FirstVerdict
<1>5. \A i : i \in stops <=> i \in DOMAIN verdicts /\ verdicts[i] # "proceed"
  OBVIOUS
<1> HIDE DEF verdicts, stops
<1>6. ASSUME stops # {} PROVE first \in stops /\ \A j \in stops : first <= j
  <2>1. \E i \in stops : \A j \in stops : i <= j
    <3>1. PICK i \in {1, 2, 3, 4, 5, 6} : i \in stops /\ \A j \in {1, 2, 3, 4, 5, 6} : j < i => j \notin stops
      <4>1. CASE 1 \in stops
        BY <4>1
      <4>2. CASE 1 \notin stops /\ 2 \in stops
        BY <4>2
      <4>3. CASE 1 \notin stops /\ 2 \notin stops /\ 3 \in stops
        BY <4>3
      <4>4. CASE 1 \notin stops /\ 2 \notin stops /\ 3 \notin stops /\ 4 \in stops
        BY <4>4
      <4>5. CASE 1 \notin stops /\ 2 \notin stops /\ 3 \notin stops /\ 4 \notin stops /\ 5 \in stops
        BY <4>5
      <4>6. CASE stops \cap {1, 2, 3, 4, 5} = {}
        <5>1. 6 \in stops /\ \A j \in {1, 2, 3, 4, 5} : j \notin stops
          BY <1>2, <1>6, <4>6
        <5>2. QED
          BY <5>1
      <4>7. QED
        BY <4>1, <4>2, <4>3, <4>4, <4>5, <4>6
    <3>2. QED
      BY <1>2, <3>1
  <2>2. QED
    BY <2>1
<1> HIDE DEF first
<1>7. FirstVerdict(verdicts) \in Verdicts
  BY <1>1, <1>4, <1>5, <1>6 DEF Verdicts
<1>8. ASSUME a = "proceed", b = "deny" PROVE FirstVerdict(verdicts) = "deny"
  <2>1. 1 \notin stops /\ 2 \in stops
    BY <1>1, <1>3, <1>5, <1>8
  <2>2. first \in {1, 2, 3, 4, 5, 6} /\ first # 1 /\ first <= 2
    BY <1>2, <1>6, <2>1
  <2>3. first = 2
    BY <2>2
  <2>4. QED
    BY <1>3, <1>4, <1>8, <2>1, <2>3
<1>9. QED
  BY <1>7, <1>8 DEF verdicts

(* So a policy decides, and it denies a scope on its deny list unless the   *)
(* request is on a session.                                                 *)
LEMMA PolicyDecides ==
    ASSUME NEW f, NEW r
    PROVE  /\ Evaluate(f, r) \in Verdicts
           /\ r.session = FALSE /\ Listed(r.scope, f.denyScopes) => Evaluate(f, r) = "deny"
<1> DEFINE session == IF r.session THEN "continue" ELSE "proceed"
           scope == ScopeVerdict(f, r)
           respond == RespondVerdict(f, r)
           allow == AllowVerdict(f.allowScopes, {r.scope})
           channel == ListVerdict(f.denyChannels, f.allowChannels, r.channel)
           provider == ListVerdict(f.denyProviders, f.allowProviders, r.provider)
<1>1. session \in Verdicts /\ scope \in Verdicts /\ respond \in Verdicts
  BY DEF ScopeVerdict, RespondVerdict, Verdicts
<1>2. allow \in Verdicts /\ channel \in Verdicts /\ provider \in Verdicts
  BY DEF ListVerdict, AllowVerdict, Verdicts
<1>3. r.session = FALSE /\ Listed(r.scope, f.denyScopes) => session = "proceed" /\ scope = "deny"
  BY DEF ScopeVerdict
<1>4. Evaluate(f, r) = FirstVerdict(<<session, scope, respond, allow, channel, provider>>)
  BY DEF Evaluate
<1> HIDE DEF session, scope, respond, allow, channel, provider
<1>5. QED
  BY <1>1, <1>2, <1>3, <1>4, FirstVerdictDecides

(* A WebAssembly component has no LLM. *)
LEMMA InstallableHasNoLlm == \A router \in Installable : router.llm = FALSE
<1>1. ASSUME NEW env, NEW llm, NEW provider \in BuildLlm(llm, env, TRUE)
      PROVE  provider = FALSE
  <2>1. CASE llm = "disabled"
    BY <1>1, <2>1 DEF BuildLlm
  <2>2. CASE llm # "disabled"
    BY <1>1, <2>2 DEF BuildLlm
  <2>3. QED
    BY <2>1, <2>2
<1>2. ASSUME NEW env \in Environments, NEW router \in RouterFromEnv(env, TRUE)
      PROVE  router.llm = FALSE
  <2> DEFINE mins == Parsed(env.min, DefaultConfidence)
             llmMins == Parsed(env.llmMin, DefaultConfidence)
             limits == Parsed(env.limit, DefaultLimit)
             Routers(providers) ==
                {[min |-> min, llmMin |-> llmMin, limit |-> limit, llm |-> provider] :
                    min \in mins, llmMin \in llmMins, limit \in limits, provider \in providers}
  <2>1. RouterFromEnv(env, TRUE) = UNION {Routers(BuildLlm(llm, env, TRUE)) : llm \in ParseLlm(env)}
    BY DEF RouterFromEnv
  <2> HIDE DEF mins, llmMins, limits
  <2>2. ASSUME NEW providers, \A provider \in providers : provider = FALSE,
               router \in Routers(providers)
        PROVE  router.llm = FALSE
    BY <2>2
  <2> HIDE DEF Routers
  <2>3. QED
    BY <1>1, <1>2, <2>1, <2>2
<1>3. QED
  BY <1>2 DEF Installable

(* A canonical hook is canonical. *)
LEMMA CanonicalIsLocated ==
    ASSUME NEW h \in HookIn
    PROVE  Canonicalize(h) = [Canonicalize(h) EXCEPT !.scope = EffectiveScope(Canonicalize(h))]
<1>1. Canonicalize(h).endpoint = h.endpoint /\ Canonicalize(h).scope = EffectiveScope(h)
  BY DEF Canonicalize, HookIn
<1>2. EffectiveScope(Canonicalize(h)) = EffectiveScope(h)
  BY <1>1 DEF EffectiveScope
<1>3. QED
  BY <1>2 DEF Canonicalize, HookIn

LEMMA SettingsInit == PathInit => SettingsInv
<1> SUFFICES ASSUME PathInit PROVE SettingsInv
  OBVIOUS
<1> USE CallerLoads DEF PathInit, ReindexInit, Init, RouteInit, Continue
<1>1. LookedUp
  BY DEF LookedUp, AtTheRouter
<1>2. FirstInstallStays
  BY DEF FirstInstallStays
<1>3. AdmittedByItsPolicy /\ MadeOfTheHook
  BY DEF AdmittedByItsPolicy, MadeOfTheHook, Admitted, AtTheRouter
<1>4. PastTheFilter /\ DirectiveOfTheRouter
  BY DEF PastTheFilter, DirectiveOfTheRouter, AtTheRouter
<1>5. QED
  BY <1>1, <1>2, <1>3, <1>4 DEF SettingsInv

(* Steps that the hook and its request do not notice. *)
LEMMA SettingsKept ==
    ASSUME SettingsInv,
           UNCHANGED <<step, pc, req, at, out, host, runtime, hook, filter, installs>>
    PROVE  SettingsInv'
<1> USE DEF SettingsInv, AtTheRouter
<1>1. Located' = Located /\ Settings' = Settings /\ Indexed' = Indexed
  BY DEF Located, Settings, Indexed
<1>2. LookedUp' /\ FirstInstallStays'
  BY <1>1 DEF LookedUp, FirstInstallStays
<1>3. AdmittedByItsPolicy' /\ MadeOfTheHook'
  BY <1>1 DEF AdmittedByItsPolicy, MadeOfTheHook, Admitted
<1>4. PastTheFilter' /\ DirectiveOfTheRouter'
  BY DEF PastTheFilter, DirectiveOfTheRouter
<1>5. QED
  BY <1>2, <1>3, <1>4

(* Reindexing is one of them. *)
LEMMA ReindexLoadsNothing == [ReindexNext]_allVars => UNCHANGED <<step, seen>>
BY DEF ReindexNext, Relink, Reindex, Begin, Publish, WriteStep, OpenTmp, FillTmp, Rename, FailBuild,
       Stop, WriteDocs, ReturnWithoutDocs, OpenDocs, FillDocs, FailDocs, allVars, vars, loadVars

(* An answer without the router. *)
LEMMA SettingsReturnEarly ==
    ASSUME SettingsInv, pc \in {"idle", "load"}, step[Caller] # "hit",
           NEW kind \in {"exit", "continue"}, Return([kind |-> kind]),
           UNCHANGED <<allVars, hookVars>>
    PROVE  SettingsInv'
<1> USE DEF SettingsInv, Return, allVars, vars, hookVars, AtTheRouter
<1>1. LookedUp' /\ FirstInstallStays'
  BY DEF LookedUp, FirstInstallStays, Indexed, Located
<1>2. AdmittedByItsPolicy' /\ MadeOfTheHook'
  BY DEF AdmittedByItsPolicy, MadeOfTheHook, Admitted
<1>3. PastTheFilter' /\ DirectiveOfTheRouter'
  BY DEF PastTheFilter, DirectiveOfTheRouter
<1>4. QED
  BY <1>1, <1>2, <1>3

(* A hook is admitted with the settings of its entry. *)
LEMMA SettingsAdmit ==
    ASSUME NameInv, SettingsInv, Arrive \/ HandleHook \/ RouteIntent
    PROVE  SettingsInv'
<1> USE DEF SettingsInv
<1>1. /\ pc = "idle" /\ pc' = "load" /\ step[Caller] = "idle"
      /\ UNCHANGED <<step, seen, runtime, installs, req, at, out>>
  BY DEF Arrive, HandleHook, RouteIntent, At, Proceed, allVars, vars, LookedUp
<1>2. LookedUp' /\ FirstInstallStays'
  BY <1>1 DEF LookedUp, FirstInstallStays, AtTheRouter
<1>3. AdmittedByItsPolicy'
  <2>1. CASE Arrive
    <3>1. hook.entry = "host" /\ hook' = Canonicalize(hook)
      BY <2>1 DEF Arrive, At
    <3>2. hook'.entry = "host" /\ hook' = Located'
      BY <3>1, CanonicalIsLocated, CanonicalizeKeepsId DEF NameInv, Located
    <3>3. PICK booted : /\ host' = {booted}
                        /\ filter' = ResolveRequestPolicy(booted, hook').filter
      BY <2>1 DEF Arrive, Proceed
    <3>4. QED
      BY <3>2, <3>3 DEF AdmittedByItsPolicy
  <2>2. CASE HandleHook
    BY <1>1, <2>2 DEF HandleHook, At, AdmittedByItsPolicy, FirstInstallStays
  <2>3. CASE RouteIntent
    BY <2>3 DEF RouteIntent, At, AdmittedByItsPolicy
  <2>4. QED
    BY <2>1, <2>2, <2>3
<1>4. MadeOfTheHook' /\ PastTheFilter' /\ DirectiveOfTheRouter'
  BY <1>1 DEF MadeOfTheHook, PastTheFilter, DirectiveOfTheRouter, AtTheRouter
<1>5. QED
  BY <1>2, <1>3, <1>4

(* The first runtime stays. *)
LEMMA SettingsInstall == SettingsInv /\ Install => SettingsInv'
<1> SUFFICES ASSUME SettingsInv, Install PROVE SettingsInv'
  OBVIOUS
<1> USE DEF SettingsInv
<1>1. /\ pc = "idle"
      /\ UNCHANGED <<step, seen, pc, req, at, out, host, hook, filter>>
  BY DEF Install, At, allVars, vars, routeVars
<1>2. FirstInstallStays'
  <2>1. PICK env \in Environments : \E router \in RouterFromEnv(env, TRUE) :
          /\ runtime' = IF runtime = {} THEN {router} ELSE runtime
          /\ installs' = Append(installs, router)
    BY DEF Install
  <2>2. PICK router \in Installable :
          /\ runtime' = IF runtime = {} THEN {router} ELSE runtime
          /\ installs' = Append(installs, router)
    BY <2>1 DEF Installable
  <2>3. installs \in Seq(Installable) /\ installs' \in Seq(Installable) /\ installs' # <<>>
    BY <2>2 DEF FirstInstallStays
  <2>4. CASE installs = <<>>
    BY <2>2, <2>3, <2>4 DEF FirstInstallStays
  <2>5. CASE installs # <<>>
    <3>1. installs'[1] = installs[1]
      BY <2>2, <2>3, <2>5
    <3>2. QED
      BY <2>2, <2>3, <2>5, <3>1 DEF FirstInstallStays
  <2>6. QED
    BY <2>4, <2>5
<1>3. LookedUp' /\ PastTheFilter' /\ DirectiveOfTheRouter'
  BY <1>1 DEF LookedUp, PastTheFilter, DirectiveOfTheRouter, AtTheRouter, Indexed, Located
<1>4. AdmittedByItsPolicy' /\ MadeOfTheHook'
  BY <1>1 DEF LookedUp, AdmittedByItsPolicy, MadeOfTheHook, Admitted, AtTheRouter
<1>5. QED
  BY <1>2, <1>3, <1>4

LEMMA SettingsLoad == SettingsInv /\ LoadIndex => SettingsInv'
<1> SUFFICES ASSUME SettingsInv, LoadIndex PROVE SettingsInv'
  OBVIOUS
<1> USE DEF SettingsInv
<1>1. /\ pc = "load" /\ Indexed
      /\ UNCHANGED <<pc, req, at, out, host, runtime, hook, filter, installs>>
  BY DEF LoadIndex, routeVars, hookVars
<1>2. LookedUp' /\ FirstInstallStays' /\ PastTheFilter' /\ DirectiveOfTheRouter'
  BY <1>1 DEF LookedUp, FirstInstallStays, PastTheFilter, DirectiveOfTheRouter, AtTheRouter, Indexed, Located
<1>3. AdmittedByItsPolicy' /\ MadeOfTheHook'
  BY <1>1 DEF AdmittedByItsPolicy, MadeOfTheHook, Admitted, Located
<1>4. QED
  BY <1>2, <1>3

(* The router gets the verdict of the policy, and the settings. *)
LEMMA SettingsEnter == SettingsInv /\ EnterRouter => SettingsInv'
<1> SUFFICES ASSUME SettingsInv, EnterRouter PROVE SettingsInv'
  OBVIOUS
<1> USE DEF SettingsInv
<1>1. /\ pc = "load" /\ step[Caller] = "hit"
      /\ UNCHANGED <<step, seen, host, runtime, hook, filter, installs>>
  BY DEF EnterRouter, allVars, vars, hookVars
<1>0. PICK router \in Settings : \E candidates \in Searches(router.limit) : \E best \in Choices(candidates) :
        Start([budget |-> hook.budget, verdicts |-> <<Evaluate(filter, Located)>>,
               blank |-> hook.text = "", candidates |-> candidates, best |-> best,
               llm |-> router.llm, min |-> router.min, llmMin |-> router.llmMin])
  BY DEF EnterRouter
<1>10. PICK candidates \in Searches(router.limit) : \E best \in Choices(candidates) :
        Start([budget |-> hook.budget, verdicts |-> <<Evaluate(filter, Located)>>,
               blank |-> hook.text = "", candidates |-> candidates, best |-> best,
               llm |-> router.llm, min |-> router.min, llmMin |-> router.llmMin])
  BY <1>0
<1>2. PICK best \in Choices(candidates) :
        Start([budget |-> hook.budget, verdicts |-> <<Evaluate(filter, Located)>>,
               blank |-> hook.text = "", candidates |-> candidates, best |-> best,
               llm |-> router.llm, min |-> router.min, llmMin |-> router.llmMin])
  BY <1>10
<1>11. \A d, e \in best : d.target \in candidates /\ d = e
  BY DEF Choices
<1>3. /\ req'.budget = hook.budget /\ req'.verdicts = <<Evaluate(filter, Located)>>
      /\ req'.llm = router.llm /\ req'.min = router.min /\ req'.llmMin = router.llmMin
      /\ pc' = IF hook.budget = 0 THEN "done" ELSE "filter"
      /\ req'.candidates = candidates /\ req'.best = best
      /\ UNCHANGED <<at, out>>
  BY <1>2 DEF Start
<1>4. Located' = Located /\ Settings' = Settings /\ Indexed' = Indexed
  BY <1>1 DEF Located, Settings, Indexed
<1>5. LookedUp' /\ FirstInstallStays'
  BY <1>1, <1>3, <1>4 DEF LookedUp, FirstInstallStays, AtTheRouter
<1>6. AdmittedByItsPolicy'
  BY <1>1, <1>4 DEF AdmittedByItsPolicy, Admitted
<1>7. MadeOfTheHook'
  BY <1>1, <1>3, <1>4, <1>11 DEF MadeOfTheHook
<1>8. PastTheFilter' /\ DirectiveOfTheRouter'
  BY <1>1, <1>3 DEF PastTheFilter, DirectiveOfTheRouter, AtTheRouter, Continue
<1>9. QED
  BY <1>5, <1>6, <1>7, <1>8

(* What the router decides, it decides by the request that it has. *)
LEMMA RouterDecides ==
    ASSUME PastTheFilter, DirectiveOfTheRouter, AtTheRouter, step[Caller] = "hit",
           NEW word \in Verdicts, req.verdicts = <<word>>,
           \A d, e \in req.best : d.target \in req.candidates /\ d = e,
           RouteNext, UNCHANGED <<step, seen>>
    PROVE  /\ UNCHANGED req /\ pc' \notin {"idle", "load"}
           /\ PastTheFilter' /\ DirectiveOfTheRouter'
<1> USE DEF AtTheRouter
<1>1. req.verdicts[1] = word /\ Len(req.verdicts) = 1 /\ DOMAIN req.verdicts = {1}
  OBVIOUS
<1> USE DEF PastTheFilter
<1>2. CASE RunFilter
  <2>1. CASE at > Len(req.verdicts)
    BY <1>1, <1>2, <2>1 DEF RunFilter, Goto, DirectiveOfTheRouter
  <2>2. CASE at = 1 /\ word = "proceed"
    BY <1>1, <1>2, <2>2 DEF RunFilter, Goto, DirectiveOfTheRouter
  <2>3. CASE at = 1 /\ word # "proceed"
    <3>1. Return([kind |-> word])
      BY <1>1, <1>2, <2>3 DEF RunFilter
    <3>2. pc' = "done" /\ out' = [kind |-> word] /\ UNCHANGED <<req, at>>
      BY <3>1 DEF Return
    <3>3. out'.kind = word /\ word # "dispatch"
      BY <3>2 DEF Verdicts
    <3>4. PastTheFilter'
      BY <3>2
    <3>5. DirectiveOfTheRouter'
      BY <1>1, <3>2, <3>3 DEF DirectiveOfTheRouter
    <3>6. QED
      BY <3>2, <3>4, <3>5
  <2>4. QED
    BY <1>1, <1>2, <2>1, <2>2, <2>3 DEF RunFilter
<1>3. CASE CheckBudget
  BY <1>1, <1>3 DEF CheckBudget, Return, Continue, DirectiveOfTheRouter
<1>4. CASE Search
  BY <1>4 DEF Search, Return, Goto, Continue, DirectiveOfTheRouter
<1>5. CASE Decide
  <2>1. CASE \E d \in req.best : Confident /\ Return(Dispatch(d.target, d.confidence, "strategy"))
    <3>1. PICK d \in req.best : Confident /\ Return(Dispatch(d.target, d.confidence, "strategy"))
      BY <2>1
    <3>2. d.confidence >= req.min /\ d.target \in req.candidates
      BY <3>1 DEF Confident
    <3>3. pc' = "done" /\ out' = Dispatch(d.target, d.confidence, "strategy") /\ UNCHANGED <<req, at>>
      BY <3>1 DEF Return
    <3>4. /\ out'.kind = "dispatch" /\ out'.source = "strategy"
          /\ out'.confidence = d.confidence /\ out'.target = d.target
      BY <3>3 DEF Dispatch
    <3>5. req.verdicts[1] = "proceed"
      BY <1>5 DEF Decide
    <3>6. DirectiveOfTheRouter'
      BY <3>2, <3>3, <3>4, <3>5 DEF DirectiveOfTheRouter
    <3>7. PastTheFilter'
      BY <3>3
    <3>8. QED
      BY <3>3, <3>6, <3>7
  <2>2. CASE (req.llm /\ Goto("fallback")) \/ Return(Continue)
    BY <1>5, <2>2 DEF Decide, Return, Goto, Continue, DirectiveOfTheRouter
  <2>3. QED
    BY <1>5, <2>1, <2>2 DEF Decide
<1>6. CASE AskLlm \/ StartTimer
  BY <1>6 DEF AskLlm, StartTimer, Return, Continue, DirectiveOfTheRouter
<1>7. CASE ReadReply
  BY <1>7 DEF ReadReply, Return, Dispatch, Continue, DirectiveOfTheRouter
<1>8. CASE LlmReplies \/ LlmFails \/ LlmTimesOut
  BY <1>8 DEF LlmReplies, LlmFails, LlmTimesOut, Goto, Return, Continue, DirectiveOfTheRouter
<1>9. CASE Tick
  BY <1>9 DEF Tick, DirectiveOfTheRouter
<1>10. ~Receive
  BY DEF Receive
<1>11. QED
  BY <1>2, <1>3, <1>4, <1>5, <1>6, <1>7, <1>8, <1>9, <1>10 DEF RouteNext, Compute

LEMMA SettingsRoute == SettingsInv /\ RouteStep => SettingsInv'
<1> SUFFICES ASSUME SettingsInv, RouteStep PROVE SettingsInv'
  OBVIOUS
<1> USE DEF SettingsInv
<1>1. /\ RouteNext /\ pc \notin {"idle", "load"}
      /\ UNCHANGED <<step, seen, host, runtime, hook, filter, installs>>
  BY DEF RouteStep, allVars, vars, hookVars
<1>2. AtTheRouter
  <2>1. pc # "done"
    BY <1>1, Zenon DEF RouteNext, Compute, Receive, RunFilter, CheckBudget, Search, Decide, AskLlm,
       StartTimer, LlmReplies, LlmFails, LlmTimesOut, ReadReply, Tick
  <2>2. QED
    BY <1>1, <2>1 DEF PastTheFilter
<1>3. step[Caller] = "hit" /\ req.verdicts = <<Evaluate(filter, Located)>>
  BY <1>1, <1>2 DEF LookedUp, MadeOfTheHook
<1>8. Evaluate(filter, Located) \in Verdicts
      /\ \A d, e \in req.best : d.target \in req.candidates /\ d = e
  BY <1>1, <1>2, <1>3, PolicyDecides DEF MadeOfTheHook
<1>4. UNCHANGED req /\ pc' \notin {"idle", "load"} /\ PastTheFilter' /\ DirectiveOfTheRouter'
  BY <1>1, <1>2, <1>3, <1>8, RouterDecides
<1>5. Located' = Located /\ Settings' = Settings /\ Indexed' = Indexed
  BY <1>1 DEF Located, Settings, Indexed
<1>6. LookedUp' /\ FirstInstallStays' /\ AdmittedByItsPolicy' /\ MadeOfTheHook'
  BY <1>1, <1>2, <1>3, <1>4, <1>5
     DEF LookedUp, FirstInstallStays, AdmittedByItsPolicy, MadeOfTheHook, Admitted
<1>7. QED
  BY <1>4, <1>6

LEMMA SettingsStep == NameInv /\ SettingsInv /\ [PathNext]_pathVars => SettingsInv'
<1> SUFFICES ASSUME NameInv, SettingsInv, [PathNext]_pathVars PROVE SettingsInv'
  OBVIOUS
<1>1. CASE Background
  <2>1. UNCHANGED <<step, pc, req, at, out, host, runtime, hook, filter, installs>>
    BY <1>1, ReindexLoadsNothing DEF Background, routeVars, hookVars
  <2>2. QED
    BY <2>1, SettingsKept
<1>2. CASE BootFails \/ ExtractPanics \/ HandleHookFails \/ ReturnEarly
  <2>1. pc = "idle" /\ step[Caller] # "hit"
    BY <1>2 DEF BootFails, ExtractPanics, HandleHookFails, ReturnEarly, At, SettingsInv, LookedUp
  <2>2. /\ Return([kind |-> "exit"]) \/ Return([kind |-> "continue"])
        /\ UNCHANGED <<allVars, hookVars>>
    BY <1>2 DEF BootFails, ExtractPanics, HandleHookFails, ReturnEarly, Exit, Continue
  <2>3. QED
    BY <2>1, <2>2, SettingsReturnEarly
<1>3. CASE LoadFails
  <2>1. /\ pc = "load" /\ step[Caller] # "hit" /\ Return([kind |-> "continue"])
        /\ UNCHANGED <<allVars, hookVars>>
    BY <1>3 DEF LoadFails, SettingsInv, LookedUp, Continue
  <2>2. QED
    BY <2>1, SettingsReturnEarly
<1>4. CASE UNCHANGED pathVars
  BY <1>4, SettingsKept DEF pathVars, allVars, vars, routeVars, hookVars
<1>5. QED
  BY <1>1, <1>2, <1>3, <1>4, SettingsAdmit, SettingsInstall, SettingsLoad, SettingsEnter, SettingsRoute
     DEF PathNext

LEMMA SettingsInvariance == PathSpec => [](NameInv /\ SettingsInv)
BY NameInit, NameStep, SettingsInit, SettingsStep, PTL DEF PathSpec
-----------------------------------------------------------------------------
(* What lets a request through are the settings that apply to it: at the   *)
(* host the policy of the scope that was searched, in the WebAssembly      *)
(* component the runtime that was installed first.                         *)
THEOREM SettingsDecide == PathSpec => []DispatchedByItsSettings
<1>1. ASSUME NameInv, SettingsInv, Dispatched, hook.entry = "host"
      PROVE  \E booted \in host :
                LET searched == [hook EXCEPT !.scope = EndpointScope(Endpoint)]
                    own == ResolveRequestPolicy(booted, searched) IN
                /\ Evaluate(own.filter, searched) = "proceed"
                /\ IF out.source = "llm"
                   THEN own.router.llm /\ out.confidence >= own.router.llmMin
                   ELSE out.confidence >= own.router.min
  <2> DEFINE searched == [hook EXCEPT !.scope = EndpointScope(Endpoint)]
  <2>1. /\ step[Caller] = "hit" /\ pc = "done" /\ req.verdicts[1] = "proceed"
        /\ \/ out.source = "strategy" /\ out.confidence >= req.min
           \/ out.source = "llm" /\ req.llm /\ out.confidence >= req.llmMin
    BY <1>1 DEF SettingsInv, Dispatched, DirectiveOfTheRouter
  <2>2. hook = Located /\ Located.scope = EndpointScope(Endpoint)
    BY <1>1, <2>1 DEF SettingsInv, LookedUp, Indexed, AdmittedByItsPolicy, Admitted
  <2>3. searched = hook
    BY <1>1, <2>2 DEF NameInv, HookIn
  <2>4. PICK booted \in host : host = {booted} /\ filter = ResolveRequestPolicy(booted, hook).filter
    BY <1>1, <2>1 DEF SettingsInv, AdmittedByItsPolicy, Admitted
  <2> DEFINE own == ResolveRequestPolicy(booted, hook)
  <2>5. req.verdicts[1] = Evaluate(own.filter, hook)
    BY <1>1, <2>1, <2>2, <2>4 DEF SettingsInv, MadeOfTheHook
  <2>6. req.llm = own.router.llm /\ req.min = own.router.min /\ req.llmMin = own.router.llmMin
    <3>1. PICK router \in Settings :
            req.llm = router.llm /\ req.min = router.min /\ req.llmMin = router.llmMin
      BY <1>1, <2>1 DEF SettingsInv, MadeOfTheHook
    <3>2. Settings = {ResolveRequestPolicy(b, hook).router : b \in host}
      BY <1>1 DEF Settings
    <3>3. router = own.router
      BY <2>4, <3>2
    <3>4. QED
      BY <3>1, <3>3
  <2> HIDE DEF own, searched
  <2>7. /\ Evaluate(own.filter, hook) = "proceed"
        /\ IF out.source = "llm" THEN own.router.llm /\ out.confidence >= own.router.llmMin
           ELSE out.confidence >= own.router.min
    BY <2>1, <2>5, <2>6
  <2>8. QED
    BY <2>3, <2>7 DEF own, searched
<1>2. ASSUME SettingsInv, Dispatched, hook.entry = "wit"
      PROVE  installs # <<>> /\ out.source = "strategy" /\ out.confidence >= installs[1].min
  <2>1. /\ step[Caller] = "hit" /\ pc = "done"
        /\ \/ out.source = "strategy" /\ out.confidence >= req.min
           \/ out.source = "llm" /\ req.llm /\ out.confidence >= req.llmMin
    BY <1>2 DEF SettingsInv, Dispatched, DirectiveOfTheRouter
  <2>2. installs # <<>> /\ installs \in Seq(Installable) /\ runtime = {installs[1]}
    BY <1>2, <2>1 DEF SettingsInv, AdmittedByItsPolicy, Admitted, FirstInstallStays
  <2>3. installs[1] \in Installable
    BY <2>2
  <2>4. Settings = runtime
    BY <1>2 DEF Settings
  <2>5. req.llm = installs[1].llm /\ req.min = installs[1].min
    BY <1>2, <2>1, <2>2, <2>4 DEF SettingsInv, MadeOfTheHook
  <2>6. QED
    BY <2>1, <2>2, <2>3, <2>5, InstallableHasNoLlm
<1>3. NameInv /\ SettingsInv => DispatchedByItsSettings
  BY <1>1, <1>2 DEF DispatchedByItsSettings
<1>4. QED
  BY <1>3, SettingsInvariance, PTL

(* A denied scope is denied once its index was loaded, unless the request  *)
(* is on a session or out of budget from the start.                        *)
THEOREM DenialHolds == PathSpec => []DeniedOnceIndexed
<1>1. ASSUME SettingsInv, pc = "done", DeniedHook, step[Caller] = "hit"
      PROVE  out.kind = "deny"
  <2>1. hook.entry = "host" /\ hook.budget > 0 /\ hook.session = FALSE /\ Listed(hook.scope, filter.denyScopes)
    BY <1>1 DEF DeniedHook, Listed
  <2>2. hook = Located
    BY <1>1, <2>1 DEF SettingsInv, AdmittedByItsPolicy, Admitted
  <2>3. req.budget # 0 /\ req.verdicts[1] = Evaluate(filter, hook)
    BY <1>1, <2>1, <2>2 DEF SettingsInv, MadeOfTheHook
  <2>4. Evaluate(filter, hook) = "deny"
    BY <2>1, PolicyDecides
  <2>5. QED
    BY <1>1, <2>3, <2>4 DEF SettingsInv, DirectiveOfTheRouter
<1>2. SettingsInv => DeniedOnceIndexed
  BY <1>1 DEF DeniedOnceIndexed
<1>3. QED
  BY <1>2, SettingsInvariance, PTL

-----------------------------------------------------------------------------
(* The index that a hook is routed with.  The reindexes that had returned   *)
(* Ok when it came have published, and what it loads is theirs or newer.    *)
OkHadPublished == \A b \in okBefore : b \in Builds /\ phase[b] = "ok"

LoadedIsNewer ==
    step[Caller] = "hit" =>
        \A b \in okBefore : \/ seen[Caller] = b
                            \/ call[seen[Caller]].generatedAt > call[b].generatedAt

LoadedInv == OkHadPublished /\ LoadedIsNewer

(* The index that was loaded is of a reindex, and what the router searched  *)
(* is what it says of the text.                                             *)
LoadedWasCalled == step[Caller] = "hit" => seen[Caller] \in Called

CandidatesAreLoaded ==
    step[Caller] = "hit" /\ pc # "load" =>
        req.candidates \subseteq call[seen[Caller]].corpus \cap Matches(hook.text)

SearchedInv == LoadedWasCalled /\ CandidatesAreLoaded

(* To the endpoint the path of a hook is a load of its index. *)
LEMMA PathLoads == [PathNext]_pathVars => [ReindexOrLoad]_allVars
<1>1. LoadIndex => ReindexOrLoad
  BY CallerLoads DEF LoadIndex, ReindexOrLoad, Load, LoadStep
<1>2. Background => ReindexOrLoad
  BY DEF Background, ReindexOrLoad
<1>3. UNCHANGED pathVars \/ BootFails \/ ExtractPanics \/ Arrive \/ Install => UNCHANGED allVars
  BY DEF pathVars, BootFails, ExtractPanics, Exit, Arrive, Proceed, Install
<1>4. HandleHookFails \/ HandleHook \/ ReturnEarly \/ RouteIntent => UNCHANGED allVars
  BY DEF HandleHookFails, HandleHook, ReturnEarly, RouteIntent, Proceed
<1>5. LoadFails \/ EnterRouter \/ RouteStep => UNCHANGED allVars
  BY DEF LoadFails, EnterRouter, RouteStep
<1>6. QED
  BY <1>1, <1>2, <1>3, <1>4, <1>5 DEF PathNext

LEMMA PathCalls == PathSpec => [](IInv /\ CallsInv)
<1>1. PathInit => Init /\ CallsInv
  BY CallsInit DEF PathInit, ReindexInit
<1>2. [PathNext]_pathVars => [Next]_vars
  BY PathLoads, DirectoryStep
<1>3. TypeOK /\ CallsInv /\ [PathNext]_pathVars => CallsInv'
  BY PathLoads, CallsStep
<1>4. IInv => TypeOK
  BY DEF IInv
<1>5. QED
  BY <1>1, <1>2, <1>3, <1>4, Invariance, PTL DEF PathSpec, Spec

LEMMA PathInvariance ==
    ASSUME MaxInFlight = 1
    PROVE  PathSpec => [](IInv /\ CallsInv /\ SerialInv)
<1>1. PathInit => SerialInv
  BY SerialInit DEF PathInit
<1>2. IInv /\ IInv' /\ CallsInv /\ SerialInv /\ [PathNext]_pathVars => SerialInv'
  BY PathLoads, SerialStep
<1>3. QED
  BY <1>1, <1>2, PathCalls, PTL DEF PathSpec

(* What was called stays as it was called, and what is published is ok.     *)
LEMMA CallsStay ==
    ASSUME TypeOK, CallsInv, [ReindexOrLoad]_allVars
    PROVE  \A b \in Called : /\ b \in Called' /\ call'[b] = call[b]
                             /\ phase[b] = "ok" => phase'[b] = "ok"
<1> USE DEF TypeOK, CallsInv, CallsTypeOK
<1>1. ASSUME NEW b \in Called PROVE phase[b] = "ok" => phase'[b] = "ok"
  <2>1. b \in Builds
    BY DEF Called
  <2>2. ASSUME NEW c \in Builds, Publish(c) \/ FailBuild(c) \/ Reindex(c) PROVE phase[b] = "ok" => phase'[b] = "ok"
    <3>1. phase[c] # "ok" /\ \E p : phase' = [phase EXCEPT ![c] = p]
      BY <2>2 DEF Publish, WriteStep, OpenTmp, FillTmp, Rename, FailBuild, Stop, Reindex, Begin
    <3>2. QED
      BY <2>1, <3>1
  <2>3. ASSUME UNCHANGED phase PROVE phase[b] = "ok" => phase'[b] = "ok"
    BY <2>3
  <2>4. ASSUME NEW c \in Builds, WriteDocs(c) \/ FailDocs(c) PROVE UNCHANGED phase
    BY <2>4 DEF WriteDocs, ReturnWithoutDocs, OpenDocs, FillDocs, FailDocs, vars
  <2>5. ASSUME NEW l \in Loads, Load(l) PROVE UNCHANGED phase
    BY <2>5 DEF Load, LoadStep, ReadLatest, ReadIndex, Reload, buildVars
  <2>6. QED
    BY <2>2, <2>3, <2>4, <2>5 DEF ReindexOrLoad, ReindexNext, Relink, vars, allVars
<1>2. CASE \E b \in Builds : Reindex(b)
  <2>1. PICK b \in Builds : Reindex(b)
    BY <1>2
  <2>2. b \notin Called /\ Called' = Called \cup {b} /\ call' = [call EXCEPT ![b] = call'[b]]
    BY <2>1, CallStep
  <2>3. \A c \in Called : c \in Builds /\ c # b
    BY <2>2 DEF Called
  <2>4. QED
    BY <1>1, <2>2, <2>3
<1>3. CASE \A b \in Builds : ~Reindex(b)
  BY <1>1, <1>3, SameCalls
<1>4. QED
  BY <1>2, <1>3

(* Steps that leave the load and the request of the hook as they are. *)
LEMMA SearchedKept ==
    ASSUME TypeOK, CallsInv, SearchedInv, [ReindexOrLoad]_allVars,
           UNCHANGED <<step, seen>>,
           step[Caller] = "hit" => hook' = hook /\ req' = req /\ (pc' # "load" => pc # "load")
    PROVE  SearchedInv'
<1> USE DEF SearchedInv
<1>1. \A b \in Called : b \in Called' /\ call'[b] = call[b]
  BY CallsStay
<1>2. LoadedWasCalled'
  BY <1>1 DEF LoadedWasCalled
<1>3. CandidatesAreLoaded'
  BY <1>1 DEF LoadedWasCalled, CandidatesAreLoaded
<1>4. QED
  BY <1>2, <1>3

(* The router gets what the loaded index says of the text. *)
LEMMA SearchedEnter ==
    ASSUME SearchedInv, EnterRouter
    PROVE  SearchedInv'
<1>1. UNCHANGED <<step, seen, call, phase, hook>>
  BY DEF EnterRouter, allVars, vars, reindexVars, hookVars
<1>2. PICK router \in Settings : \E candidates \in Searches(router.limit) : \E best \in Choices(candidates) :
        Start([budget |-> hook.budget, verdicts |-> <<Evaluate(filter, Located)>>,
               blank |-> hook.text = "", candidates |-> candidates, best |-> best,
               llm |-> router.llm, min |-> router.min, llmMin |-> router.llmMin])
  BY DEF EnterRouter
<1>3. PICK candidates \in Searches(router.limit) : \E best \in Choices(candidates) :
        Start([budget |-> hook.budget, verdicts |-> <<Evaluate(filter, Located)>>,
               blank |-> hook.text = "", candidates |-> candidates, best |-> best,
               llm |-> router.llm, min |-> router.min, llmMin |-> router.llmMin])
  BY <1>2
<1>4. req'.candidates = candidates
  <2>1. PICK best \in Choices(candidates) :
          Start([budget |-> hook.budget, verdicts |-> <<Evaluate(filter, Located)>>,
                 blank |-> hook.text = "", candidates |-> candidates, best |-> best,
                 llm |-> router.llm, min |-> router.min, llmMin |-> router.llmMin])
    BY <1>3
  <2>2. QED
    BY <2>1 DEF Start
<1>5. candidates \subseteq call[seen[Caller]].corpus \cap Matches(hook.text)
  BY DEF Searches
<1>6. QED
  BY <1>1, <1>4, <1>5 DEF SearchedInv, LoadedWasCalled, CandidatesAreLoaded, Called

(* What the file of the endpoint gives is of a reindex. *)
LEMMA LoadFindsACall ==
    ASSUME IInv, ReadIndex(Caller)
    PROVE  /\ file["latest"] = "pointer" /\ file["index.json"] \in Builds
           /\ file["index.json"] \in Called
           /\ step'[Caller] = "hit" /\ seen'[Caller] = file["index.json"]
<1> USE DEF IInv, IBody, TypeOK
<1>1. file["latest"] = "pointer" /\ file["index.json"] \in Builds
  BY CallerLoads DEF ReadIndex, LatestStays, LatestNamesManifest
<1>2. step'[Caller] = "hit" /\ seen'[Caller] = file["index.json"]
  BY <1>1, CallerLoads DEF ReadIndex
<1>3. QED
  BY <1>1, <1>2 DEF FromABuild, Called

LEMMA SearchedStep ==
    ASSUME IInv, CallsInv, SettingsInv, SearchedInv, [PathNext]_pathVars
    PROVE  SearchedInv'
<1> USE DEF IInv
<1>1. [ReindexOrLoad]_allVars
  BY PathLoads
<1>2. CASE Background \/ Install \/ UNCHANGED pathVars
  <2>1. UNCHANGED <<step, seen, hook, req, pc>>
    BY <1>2, ReindexLoadsNothing DEF Background, Install, pathVars, hookVars, routeVars, allVars, vars, loadVars
  <2>2. QED
    BY <1>1, <2>1, SearchedKept
<1>3. CASE BootFails \/ ExtractPanics \/ HandleHookFails \/ ReturnEarly \/ LoadFails
           \/ Arrive \/ HandleHook \/ RouteIntent
  <2>1. UNCHANGED <<step, seen>>
    BY <1>3 DEF BootFails, ExtractPanics, Exit, HandleHookFails, ReturnEarly, LoadFails, Arrive,
       HandleHook, RouteIntent, Proceed, allVars, vars
  <2>2. step[Caller] # "hit"
    BY <1>3 DEF BootFails, ExtractPanics, HandleHookFails, ReturnEarly, LoadFails, Arrive, HandleHook,
       RouteIntent, At, SettingsInv, LookedUp
  <2>3. QED
    BY <1>1, <2>1, <2>2, SearchedKept
<1>4. CASE LoadIndex
  <2>1. /\ pc = "load" /\ UNCHANGED <<pc, phase>>
        /\ ReadLatest(Caller) \/ ReadIndex(Caller)
    BY <1>4 DEF LoadIndex, ReadLatest, ReadIndex, buildVars, routeVars
  <2>2. ReadLatest(Caller) => step'[Caller] # "hit"
    BY CallerLoads DEF ReadLatest, TypeOK
  <2>3. LoadedWasCalled'
    BY <2>1, <2>2, LoadFindsACall DEF LoadedWasCalled, Called
  <2>4. QED
    BY <2>1, <2>3 DEF SearchedInv, CandidatesAreLoaded
<1>5. CASE EnterRouter
  BY <1>5, SearchedEnter
<1>6. CASE RouteStep
  <2>1. UNCHANGED <<step, seen, hook, req>> /\ pc # "load"
    BY <1>6 DEF RouteStep, allVars, vars, loadVars, hookVars, RouteNext, Receive, Compute, RunFilter, CheckBudget,
       Search, Decide, AskLlm, StartTimer, LlmReplies, LlmFails, LlmTimesOut, ReadReply, Tick, Goto, Return
  <2>2. QED
    BY <1>1, <2>1, SearchedKept
<1>7. QED
  BY <1>2, <1>3, <1>4, <1>5, <1>6 DEF PathNext

LEMMA SearchedInvariance == PathSpec => [](IInv /\ CallsInv /\ NameInv /\ SettingsInv /\ SearchedInv)
<1>1. PathInit => SearchedInv
  BY CallerLoads DEF PathInit, ReindexInit, Init, SearchedInv, LoadedWasCalled, CandidatesAreLoaded
<1>2. IInv /\ CallsInv /\ SettingsInv /\ SearchedInv /\ [PathNext]_pathVars => SearchedInv'
  BY SearchedStep
<1>3. QED
  BY <1>1, <1>2, PathCalls, SettingsInvariance, PTL DEF PathSpec

(* What had been published stays older than what was loaded. *)
LEMMA LoadedKept ==
    ASSUME TypeOK, CallsInv, SearchedInv, LoadedInv, [ReindexOrLoad]_allVars,
           UNCHANGED <<step, seen, okBefore>>
    PROVE  LoadedInv'
<1>1. \A b \in okBefore : b \in Called
  BY DEF LoadedInv, OkHadPublished, Called
<1>2. \A b \in Called : /\ call'[b] = call[b] /\ b \in Builds
                        /\ phase[b] = "ok" => phase'[b] = "ok"
  BY CallsStay DEF Called
<1>3. OkHadPublished'
  BY <1>1, <1>2 DEF LoadedInv, OkHadPublished
<1>4. LoadedIsNewer'
  BY <1>1, <1>2 DEF LoadedInv, LoadedIsNewer, SearchedInv, LoadedWasCalled
<1>5. QED
  BY <1>3, <1>4 DEF LoadedInv

LEMMA LoadedStep ==
    ASSUME IInv, CallsInv, SerialInv, SettingsInv, SearchedInv, LoadedInv, [PathNext]_pathVars
    PROVE  LoadedInv'
<1> USE DEF IInv
<1>1. [ReindexOrLoad]_allVars
  BY PathLoads
<1>2. CASE Background \/ Install \/ UNCHANGED pathVars
  <2>1. UNCHANGED <<step, seen, okBefore>>
    BY <1>2, ReindexLoadsNothing DEF Background, Install, pathVars, hookVars, allVars, vars, loadVars
  <2>2. QED
    BY <1>1, <2>1, LoadedKept
<1>3. CASE BootFails \/ ExtractPanics \/ HandleHookFails \/ ReturnEarly \/ LoadFails \/ EnterRouter \/ RouteStep
  <2>1. UNCHANGED <<step, seen, okBefore>>
    BY <1>3 DEF BootFails, ExtractPanics, Exit, HandleHookFails, ReturnEarly, LoadFails, EnterRouter,
       RouteStep, hookVars, allVars, vars
  <2>2. QED
    BY <1>1, <2>1, LoadedKept
<1>4. CASE Arrive \/ HandleHook \/ RouteIntent
  <2>1. /\ pc = "idle" /\ step[Caller] = "idle"
        /\ UNCHANGED <<step, phase>> /\ okBefore' = {b \in Builds : reply[b] = "ok"}
    BY <1>4 DEF Arrive, HandleHook, RouteIntent, At, Proceed, allVars, vars, SettingsInv, LookedUp
  <2>2. OkHadPublished'
    BY <2>1 DEF OkHadPublished, SerialInv, ReplyFollowsPhase
  <2>3. QED
    BY <2>1, <2>2 DEF LoadedInv, LoadedIsNewer
<1>5. CASE LoadIndex
  <2>1. /\ UNCHANGED <<okBefore, phase, call>>
        /\ ReadLatest(Caller) \/ ReadIndex(Caller)
    BY <1>5 DEF LoadIndex, ReadLatest, ReadIndex, buildVars, reindexVars, hookVars
  <2>2. OkHadPublished'
    BY <2>1 DEF LoadedInv, OkHadPublished
  <2>3. CASE ReadLatest(Caller)
    <3>1. step'[Caller] # "hit"
      BY <2>3, CallerLoads DEF ReadLatest, TypeOK
    <3>2. QED
      BY <2>2, <3>1 DEF LoadedInv, LoadedIsNewer
  <2>4. CASE ReadIndex(Caller)
    <3>1. seen'[Caller] = file["index.json"]
      BY <2>4, LoadFindsACall
    <3>2. ASSUME NEW b \in okBefore
          PROVE  \/ file["index.json"] = b
                 \/ call[file["index.json"]].generatedAt > call[b].generatedAt
      BY DEF LoadedInv, OkHadPublished, SerialInv, ReplyFollowsPhase, NeverReplacedByOlder
    <3>3. QED
      BY <2>1, <2>2, <3>1, <3>2 DEF LoadedInv, LoadedIsNewer
  <2>5. QED
    BY <2>1, <2>3, <2>4
<1>6. QED
  BY <1>2, <1>3, <1>4, <1>5 DEF PathNext

(* Eviction reaches the user: if reindexes come one after the other, the   *)
(* strategy never dispatches to a flow that was left out before the hook   *)
(* came.                                                                   *)
THEOREM EvictionReachesTheUser ==
    ASSUME MaxInFlight = 1
    PROVE  PathSpec => []DispatchHonoursEviction
<1>1. PathInit => LoadedInv
  BY CallerLoads DEF PathInit, ReindexInit, Init, LoadedInv, OkHadPublished, LoadedIsNewer
<1>2. IInv /\ CallsInv /\ SerialInv /\ SettingsInv /\ SearchedInv /\ LoadedInv /\ [PathNext]_pathVars
      => LoadedInv'
  BY LoadedStep
<1>3. SettingsInv /\ SearchedInv /\ LoadedInv => DispatchHonoursEviction
  <2> SUFFICES ASSUME SettingsInv, SearchedInv, LoadedInv, Dispatched, out.source = "strategy", NEW b \in okBefore
               PROVE  \/ out.target \in call[b].corpus
                      \/ \E c \in Builds : /\ call[c].generatedAt > call[b].generatedAt
                                           /\ out.target \in call[c].corpus
    BY DEF DispatchHonoursEviction
  <2>1. pc = "done" /\ step[Caller] = "hit" /\ out.target \in req.candidates
    BY DEF SettingsInv, Dispatched, DirectiveOfTheRouter
  <2>2. out.target \in call[seen[Caller]].corpus
    BY <2>1 DEF SearchedInv, CandidatesAreLoaded
  <2>3. /\ seen[Caller] \in Builds
        /\ seen[Caller] = b \/ call[seen[Caller]].generatedAt > call[b].generatedAt
    BY <2>1 DEF SearchedInv, LoadedWasCalled, LoadedInv, LoadedIsNewer, Called
  <2>4. QED
    BY <2>2, <2>3
<1>4. QED
  BY <1>1, <1>2, <1>3, PathInvariance, SearchedInvariance, PTL DEF PathSpec
-----------------------------------------------------------------------------
(* What holds of the parts holds of the whole: the directory and the router *)
(* keep their promises on the path of a hook.                               *)

(* The hooks and the toolchain that reindexes use the directory of the      *)
(* scope as IndexStore lets them, so it is an atomic register to the hook.  *)
THEOREM HooksReadARegister == PathSpec => ImplementsRegister
<1>1. PathInit => Init
  BY DEF PathInit, ReindexInit
<1>2. [PathNext]_pathVars => [Next]_vars
  BY PathLoads, DirectoryStep
<1>3. PathSpec => Spec
  BY <1>1, <1>2, PTL DEF PathSpec, Spec
<1>4. QED
  BY <1>3, Implementation

(* What an environment can make of the host. *)
Boots == UNION {HostFromEnv(env) : env \in Environments}

LEMMA ParsedLevels ==
    ASSUME NEW setting, setting \subseteq Nat \cup {Garbage}, NEW level \in Parsed(setting, DefaultConfidence)
    PROVE  level \in Nat
BY ThresholdsAreLevels DEF Parsed

LEMMA RouterLevels ==
    ASSUME NEW env \in Environments, NEW wasm, NEW router \in RouterFromEnv(env, wasm)
    PROVE  router.min \in Nat /\ DOMAIN router = {"min", "llmMin", "limit", "llm"}
<1> DEFINE mins == Parsed(env.min, DefaultConfidence)
           llmMins == Parsed(env.llmMin, DefaultConfidence)
           limits == Parsed(env.limit, DefaultLimit)
           Routers(providers) ==
              {[min |-> min, llmMin |-> llmMin, limit |-> limit, llm |-> provider] :
                  min \in mins, llmMin \in llmMins, limit \in limits, provider \in providers}
<1>1. RouterFromEnv(env, wasm) = UNION {Routers(BuildLlm(llm, env, wasm)) : llm \in ParseLlm(env)}
  BY DEF RouterFromEnv
<1>2. \A min \in mins : min \in Nat
  BY ThresholdsAreLevels, ParsedLevels
<1> HIDE DEF mins, llmMins, limits
<1>3. ASSUME NEW providers, router \in Routers(providers)
      PROVE  router.min \in Nat /\ DOMAIN router = {"min", "llmMin", "limit", "llm"}
  BY <1>2, <1>3
<1> HIDE DEF Routers
<1>4. QED
  BY <1>1, <1>3

(* The threshold that the policy of the endpoint gives to its requests. *)
LEMMA ResolvedLevels ==
    ASSUME NEW booted \in Boots, NEW h, h.scope = EndpointScope(Endpoint)
    PROVE  ResolveRequestPolicy(booted, h).router.min \in Nat
<1>1. PICK env \in Environments : booted \in HostFromEnv(env)
  BY DEF Boots
<1>2. PICK router \in RouterFromEnv(env, FALSE), policy \in LoadPolicy(env) :
         booted = [router |-> router, policy |-> policy]
  <2> DEFINE routers == RouterFromEnv(env, FALSE)
             policies == LoadPolicy(env)
  <2>1. booted \in {[router |-> router, policy |-> policy] : router \in routers, policy \in policies}
    <3>1. HostFromEnv(env) =
             {[router |-> router, policy |-> policy] : router \in routers, policy \in policies}
      BY DEF HostFromEnv
    <3> HIDE DEF routers, policies
    <3>2. QED
      BY <1>1, <3>1
  <2> HIDE DEF routers, policies
  <2>2. \E router \in routers, policy \in policies : booted = [router |-> router, policy |-> policy]
    BY <2>1
  <2>3. QED
    BY <2>2 DEF routers, policies
<1>3. router.min \in Nat /\ DOMAIN router = {"min", "llmMin", "limit", "llm"}
  BY RouterLevels
<1>4. CASE policy = NoFile
  BY <1>2, <1>3, <1>4 DEF ResolveRequestPolicy
<1>5. CASE policy # NoFile
  <2>1. \E path \in DOMAIN PolicyFiles : policy = PolicyFiles[path] /\ policy # Garbage
    BY ThresholdsAreLevels DEF LoadPolicy
  <2> DEFINE rules == policy[EndpointScope(Endpoint)]
  <2>2. "min" \in DOMAIN rules.sets => rules.sets.min \in Nat
    BY <1>5, <2>1, ThresholdsAreLevels
  <2>3. ResolveRequestPolicy(booted, h).router =
           [f \in DOMAIN router |-> IF f \in DOMAIN rules.sets THEN rules.sets[f] ELSE router[f]]
    BY <1>2, <1>5 DEF ResolveRequestPolicy
  <2> HIDE DEF rules
  <2>4. ResolveRequestPolicy(booted, h).router.min =
           IF "min" \in DOMAIN rules.sets THEN rules.sets.min ELSE router.min
    BY <1>3, <2>3
  <2>5. QED
    BY <1>3, <2>2, <2>4
<1>6. QED
  BY <1>4, <1>5

(* What CoreRouteProofs keeps of a request, and where the host comes from.  *)
Exited == pc = "done" /\ out.kind = "exit"

RouterInv == host \subseteq Boots /\ InHand /\ Running /\ (Exited \/ Answered)

LEMMA RouterInit == PathInit => RouterInv
<1> SUFFICES ASSUME PathInit PROVE RouterInv
  OBVIOUS
<1> USE DEF PathInit, RouteInit
<1>1. InHand
  BY RequestsAreRequests, RequestParts DEF InHand, AtAFilter
<1>2. Running /\ Answered
  BY DEF Running, FiltersPassed, StrategyMissed, TimeIsAccounted, NothingChosen, Answered,
         FilterVerdictIsFinal, DispatchIsEarned, LateByOwnWorkOnly
<1>3. QED
  BY <1>1, <1>2 DEF RouterInv

(* Steps of the router, and those that leave it alone. *)
LEMMA RouterSteps ==
    ASSUME RouterInv, [RouteNext]_routeVars, host' \subseteq Boots
    PROVE  RouterInv'
<1> USE DEF RouterInv
<1>1. InHand'
  BY HandStep
<1>2. Running'
  BY RunningStep, RunningAtTheEnd
<1>3. CASE Answered
  BY <1>1, <1>2, <1>3, AnsweredStep, AnsweredBeforeTheEnd
<1>4. CASE Exited
  <2>1. UNCHANGED routeVars
    BY <1>4 DEF Exited, RouteNext, Receive, Compute, RunFilter, CheckBudget, Search, Decide, AskLlm,
       StartTimer, LlmReplies, LlmFails, LlmTimesOut, ReadReply, Tick
  <2>2. Exited'
    BY <1>4, <2>1 DEF Exited, routeVars
  <2>3. QED
    BY <1>1, <1>2, <2>2
<1>5. QED
  BY <1>3, <1>4

(* An answer without the router. *)
LEMMA RouterSkipped ==
    ASSUME RouterInv, pc # "done", NEW kind \in {"exit", "continue"}, Return([kind |-> kind]),
           UNCHANGED host
    PROVE  RouterInv'
<1> USE DEF RouterInv, clockVars
<1>1. pc' = "done" /\ UNCHANGED <<req, at, clockVars>>
  BY DEF Return
<1>2. InHand' /\ Running'
  BY <1>1, RunningAtTheEnd DEF InHand, AtAFilter
<1>3. Exited' \/ Answered'
  BY ReturnContinue DEF Exited, Return, Continue, Answered
<1>4. QED
  BY <1>2, <1>3

(* A hook goes on to the index, and the router has not begun. *)
LEMMA RouterWaits ==
    ASSUME NameInv, SettingsInv, RouterInv, Arrive \/ HandleHook \/ RouteIntent
    PROVE  RouterInv'
<1> USE DEF RouterInv
<1>1. pc = "idle" /\ pc' = "load" /\ UNCHANGED <<req, at, clockVars, out>>
  BY DEF Arrive, HandleHook, RouteIntent, At, Proceed
<1>2. host' \subseteq Boots
  BY DEF Arrive, HandleHook, RouteIntent, Boots
<1>3. InHand'
  BY <1>1 DEF InHand, AtAFilter, clockVars
<1>4. Running'
  BY <1>1 DEF clockVars, Running, FiltersPassed, StrategyMissed, TimeIsAccounted, NothingChosen
<1>5. QED
  BY <1>1, <1>2, <1>3, <1>4, AnsweredBeforeTheEnd

(* The router begins with a request of its own. *)
LEMMA RouterBegins ==
    ASSUME NameInv, SettingsInv, RouterInv, EnterRouter
    PROVE  RouterInv'
<1> USE DEF RouterInv
<1>1. /\ pc = "load" /\ step[Caller] = "hit" /\ UNCHANGED host
      /\ \E router \in Settings : \E candidates \in Searches(router.limit) : \E best \in Choices(candidates) :
            Start([budget |-> hook.budget, verdicts |-> <<Evaluate(filter, Located)>>,
                   blank |-> hook.text = "", candidates |-> candidates, best |-> best,
                   llm |-> router.llm, min |-> router.min, llmMin |-> router.llmMin])
  BY DEF EnterRouter, hookVars
<1>2. PICK router \in Settings : \E candidates \in Searches(router.limit) : \E best \in Choices(candidates) :
         Start([budget |-> hook.budget, verdicts |-> <<Evaluate(filter, Located)>>,
                blank |-> hook.text = "", candidates |-> candidates, best |-> best,
                llm |-> router.llm, min |-> router.min, llmMin |-> router.llmMin])
  BY <1>1
<1>3. PICK candidates \in Searches(router.limit) : \E best \in Choices(candidates) :
         Start([budget |-> hook.budget, verdicts |-> <<Evaluate(filter, Located)>>,
                blank |-> hook.text = "", candidates |-> candidates, best |-> best,
                llm |-> router.llm, min |-> router.min, llmMin |-> router.llmMin])
  BY <1>2
<1>4. PICK best \in Choices(candidates) :
         Start([budget |-> hook.budget, verdicts |-> <<Evaluate(filter, Located)>>,
                blank |-> hook.text = "", candidates |-> candidates, best |-> best,
                llm |-> router.llm, min |-> router.min, llmMin |-> router.llmMin])
  BY <1>3
<1>5. router.min \in Nat
  <2>1. CASE hook.entry = "host"
    <3>1. PICK booted \in host : router = ResolveRequestPolicy(booted, hook).router
      BY <2>1 DEF Settings
    <3>2. hook.scope = EndpointScope(Endpoint)
      BY <1>1, <2>1 DEF SettingsInv, AdmittedByItsPolicy, Admitted, LookedUp, Indexed
    <3>3. QED
      BY <3>1, <3>2, ResolvedLevels
  <2>2. CASE hook.entry = "wit"
    <3>1. installs # <<>> /\ installs \in Seq(Installable) /\ router = installs[1]
      BY <1>1, <2>2 DEF SettingsInv, AdmittedByItsPolicy, Admitted, FirstInstallStays, Settings
    <3>2. router \in Installable
      BY <3>1
    <3>3. QED
      BY <3>2, RouterLevels DEF Installable
  <2>3. CASE hook.entry = "component"
    BY <2>3, ThresholdsAreLevels DEF Settings, DefaultRouter
  <2>4. hook.entry \in {"host", "wit", "component"}
    BY DEF NameInv, HookIn
  <2>5. QED
    BY <2>1, <2>2, <2>3, <2>4
<1>6. /\ req'.budget = hook.budget /\ req'.verdicts = <<Evaluate(filter, Located)>>
      /\ req'.candidates = candidates /\ req'.best = best /\ req'.min = router.min
      /\ pc' \in {"done", "filter"} /\ UNCHANGED <<at, clockVars, out>>
  BY <1>4, Zenon DEF Start
<1>7. IsRequest(req')
  <2>1. hook.budget \in Nat
    BY DEF NameInv, HookIn
  <2>2. <<Evaluate(filter, Located)>> \in Seq(Verdicts)
    <3>1. PICK word \in Verdicts : word = Evaluate(filter, Located)
      BY PolicyDecides
    <3>2. <<word>> \in Seq(Verdicts)
      OBVIOUS
    <3>3. QED
      BY <3>1, <3>2
  <2>3. \A d \in best : d.confidence \in Nat /\ d.target \in candidates /\ \A e \in best : d = e
    BY RequestsAreSound DEF Choices
  <2>4. QED
    BY <1>5, <1>6, <2>1, <2>2, <2>3 DEF IsRequest
<1>8. at = 1 /\ out = Continue
  BY <1>1 DEF SettingsInv, PastTheFilter
<1>9. InHand'
  BY <1>6, <1>7, <1>8, RequestParts DEF InHand, AtAFilter, clockVars
<1>10. Running'
  <2>1. remaining' = 0 /\ ownWork' = 0 /\ at' = 1 /\ out' = Continue
    BY <1>1, <1>6, <1>8 DEF Running, TimeIsAccounted, clockVars
  <2>2. CASE pc' = "done"
    BY <2>2, RunningAtTheEnd
  <2>3. CASE pc' = "filter"
    <3>1. DOMAIN req'.verdicts = {1}
      BY <1>6
    <3>2. FiltersPassed' /\ StrategyMissed'
      BY <2>1, <2>3, <3>1 DEF FiltersPassed, StrategyMissed
    <3>3. TimeIsAccounted' /\ NothingChosen'
      BY <2>1, <2>3 DEF TimeIsAccounted, NothingChosen
    <3>4. QED
      BY <3>2, <3>3 DEF Running
  <2>4. QED
    BY <1>6, <2>2, <2>3
<1>11. Answered'
  <2>1. remaining' = 0
    BY <1>1, <1>6 DEF Running, TimeIsAccounted, clockVars
  <2>2. QED
    BY <1>6, <1>8, <2>1 DEF Answered, FilterVerdictIsFinal, DispatchIsEarned, LateByOwnWorkOnly, Continue
<1>12. QED
  BY <1>1, <1>9, <1>10, <1>11

LEMMA RouterStep ==
    ASSUME NameInv, SettingsInv, RouterInv, [PathNext]_pathVars
    PROVE  RouterInv'
<1>1. CASE Background \/ Install \/ LoadIndex \/ UNCHANGED pathVars
  <2>1. UNCHANGED <<routeVars, host>>
    BY <1>1 DEF Background, Install, LoadIndex, pathVars, hookVars
  <2>2. QED
    BY <2>1, RouterSteps DEF RouterInv
<1>2. CASE BootFails \/ ExtractPanics \/ HandleHookFails \/ ReturnEarly \/ LoadFails
  <2>1. /\ Return([kind |-> "exit"]) \/ Return([kind |-> "continue"])
        /\ pc # "done" /\ UNCHANGED host
    BY <1>2 DEF BootFails, ExtractPanics, HandleHookFails, ReturnEarly, LoadFails, Exit, Continue, At, hookVars
  <2>2. QED
    BY <2>1, RouterSkipped
<1>3. CASE RouteStep
  <2>1. RouteNext /\ UNCHANGED host
    BY <1>3 DEF RouteStep, hookVars
  <2>2. QED
    BY <2>1, RouterSteps DEF RouterInv
<1>4. QED
  BY <1>1, <1>2, <1>3, RouterWaits, RouterBegins DEF PathNext

LEMMA RouterInvariance == PathSpec => [](NameInv /\ SettingsInv /\ RouterInv)
<1>1. NameInv /\ SettingsInv /\ RouterInv /\ [PathNext]_pathVars => RouterInv'
  BY RouterStep
<1>2. QED
  BY <1>1, RouterInit, SettingsInvariance, PTL DEF PathSpec

(* What the router promises of its requests it keeps for those that are     *)
(* made of hooks, at every entry and with every policy: a directive that is *)
(* not an error of the host is the first filter's or earned, and an LLM     *)
(* that it waited for used no more than what was left of the budget.        *)
THEOREM HooksAreRouted ==
    PathSpec => [](~Exited => FilterVerdictIsFinal /\ DispatchIsEarned /\ LateByOwnWorkOnly)
<1>1. RouterInv => (~Exited => FilterVerdictIsFinal /\ DispatchIsEarned /\ LateByOwnWorkOnly)
  BY DEF RouterInv, Answered
<1>2. QED
  BY <1>1, RouterInvariance, PTL

(* Nor does an LLM deny or respond to a hook. *)
THEOREM HooksFailOpen == PathSpec => LlmFailsOpen
<1>1. [PathNext]_pathVars =>
         [Asking /\ ~Asking' =>
             pc' = "done" /\ out'.kind \in {"continue", "dispatch"}]_routeVars
  <2>1. RouteStep \/ UNCHANGED routeVars => [RouteNext]_routeVars
    BY DEF RouteStep
  <2>2. Background \/ Install \/ LoadIndex \/ UNCHANGED pathVars => UNCHANGED routeVars
    BY DEF Background, Install, LoadIndex, pathVars
  <2>3. ASSUME [PathNext]_pathVars, Asking
        PROVE  [RouteNext]_routeVars
    BY <2>1, <2>2, <2>3 DEF PathNext, BootFails, ExtractPanics, Arrive, HandleHookFails, HandleHook,
       ReturnEarly, RouteIntent, LoadFails, EnterRouter, At, Asking
  <2>4. QED
    BY <2>3, LlmStep
<1>2. QED
  BY <1>1, PTL DEF PathSpec, LlmFailsOpen

-----------------------------------------------------------------------------
(* The whole is what HookService promises to a hook.  What is served        *)
(* changes as a whole, and never to nothing.                                *)
LEMMA ServedAsAWhole ==
    ASSUME IInv, CallsInv, IInv', CallsInv', [ReindexOrLoad]_allVars
    PROVE  CorpusServed' = CorpusServed \/ CorpusServed' \in {{corpus} : corpus \in SUBSET Packs}
<1> USE DEF IInv
<1>1. CASE file'["latest"] = "pointer"
  <2>1. file'["index.json"] \in Builds
    BY <1>1 DEF IBody, LatestNamesManifest
  <2>2. call'[file'["index.json"]].corpus \in SUBSET Packs
    BY <2>1 DEF CallsInv, CallsTypeOK
  <2>3. CorpusServed' = {call'[file'["index.json"]].corpus}
    BY <1>1 DEF CorpusServed
  <2>4. QED
    BY <2>2, <2>3
<1>2. CASE file'["latest"] # "pointer"
  <2>1. [Next]_vars
    BY DirectoryStep
  <2>2. ASSUME NEW b \in Builds, Rename(b)
        PROVE  file'["latest"] = file["latest"] \/ file'["latest"] = "pointer"
    BY <2>2 DEF TypeOK, IBody, TmpFilled, Rename, Payload, Names
  <2>3. file'["latest"] = file["latest"]
    BY <1>2, <2>1, <2>2 DEF Next, Begin, WriteStep, OpenTmp, FillTmp, Stop, LoadStep, ReadLatest, ReadIndex,
       Reload, dirVars, vars
  <2>4. QED
    BY <1>2, <2>3 DEF CorpusServed
<1>3. QED
  BY <1>1, <1>2

(* Reindexing serves, and does nothing else to a hook. *)
LEMMA ServiceBackground ==
    ASSUME IInv, CallsInv, IInv', CallsInv', SearchedInv, Background
    PROVE  [Service!ServiceNext]_Service!svars
<1>1. [ReindexOrLoad]_allVars
  BY DEF Background, ReindexOrLoad
<1>2. UNCHANGED <<step, seen, pc, out, hook>>
  BY ReindexLoadsNothing DEF Background, routeVars, hookVars
<1>3. Stage' = Stage /\ Matches(hook.text)' = Matches(hook.text)
  BY <1>2 DEF Stage
<1>4. CorpusLoaded' = CorpusLoaded
  BY <1>1, <1>2, CallsStay DEF CorpusLoaded, SearchedInv, LoadedWasCalled, IInv
<1>5. CASE CorpusServed' = CorpusServed
  BY <1>2, <1>3, <1>4, <1>5 DEF Service!svars
<1>6. CASE CorpusServed' \in {{corpus} : corpus \in SUBSET Packs}
  <2>1. Service!Serve
    BY <1>2, <1>3, <1>4, <1>6, Zenon DEF Service!Serve
  <2>2. QED
    BY <2>1 DEF Service!ServiceNext
<1>7. QED
  BY <1>1, <1>5, <1>6, ServedAsAWhole

(* What does not touch the directory. *)
LEMMA SameDirectory ==
    ASSUME UNCHANGED allVars
    PROVE  CorpusServed' = CorpusServed /\ CorpusLoaded' = CorpusLoaded
BY DEF allVars, vars, reindexVars, CorpusServed, CorpusLoaded

(* An answer without the router. *)
LEMMA ServiceAnswers ==
    ASSUME pc # "done", pc' = "done", UNCHANGED <<allVars, hook>>,
           Service!Permitted(out')
    PROVE  [Service!ServiceNext]_Service!svars
<1>1. Stage # "answered" /\ Stage' = "answered"
  BY DEF Stage
<1>2. Service!Answer
  BY <1>1, SameDirectory DEF Service!Answer
<1>3. QED
  BY <1>2 DEF Service!ServiceNext

(* A hook is admitted with the text that it came with. *)
LEMMA ServiceAdmits ==
    ASSUME NameInv, Arrive \/ HandleHook \/ RouteIntent
    PROVE  [Service!ServiceNext]_Service!svars
<1>1. pc = "idle" /\ pc' = "load" /\ UNCHANGED <<allVars, out>>
  BY DEF Arrive, HandleHook, RouteIntent, At, Proceed
<1>2. hook'.text = hook.text
  BY DEF Arrive, HandleHook, RouteIntent, Canonicalize, NameInv, HookIn
<1>3. Stage = "new" /\ Stage' = "open" /\ Matches(hook.text)' = Matches(hook.text)
  BY <1>1, <1>2 DEF Stage
<1>4. Service!Admit
  BY <1>1, <1>3, SameDirectory DEF Service!Admit
<1>5. QED
  BY <1>4 DEF Service!ServiceNext

(* The two reads of a load look like one. *)
LEMMA ServiceLooks ==
    ASSUME IInv, LoadIndex
    PROVE  [Service!ServiceNext]_Service!svars
<1> USE DEF IInv, TypeOK
<1>1. /\ pc = "load" /\ UNCHANGED <<pc, out, hook, file, call>>
      /\ ReadLatest(Caller) \/ ReadIndex(Caller)
  BY DEF LoadIndex, ReadLatest, ReadIndex, dirVars, reindexVars, routeVars, hookVars
<1>2. Stage = "open" /\ Stage' = Stage /\ CorpusServed' = CorpusServed
      /\ Matches(hook.text)' = Matches(hook.text)
  BY <1>1 DEF Stage, CorpusServed
<1>3. CASE ReadLatest(Caller)
  <2>1. CorpusLoaded' = CorpusLoaded
    BY <1>3, CallerLoads DEF ReadLatest, CorpusLoaded
  <2>2. QED
    BY <1>1, <1>2, <2>1 DEF Service!svars
<1>4. CASE ReadIndex(Caller)
  <2>1. CorpusLoaded = {} /\ CorpusServed # {} /\ CorpusLoaded' = CorpusServed
    BY <1>1, <1>4, LoadFindsACall DEF ReadIndex, CorpusLoaded, CorpusServed
  <2>2. Service!Look
    BY <1>1, <1>2, <2>1 DEF Service!Look
  <2>3. QED
    BY <2>2 DEF Service!ServiceNext
<1>5. QED
  BY <1>1, <1>3, <1>4

(* A request with no budget is answered at once, any other goes on. *)
LEMMA ServiceEnters ==
    ASSUME SettingsInv, EnterRouter
    PROVE  [Service!ServiceNext]_Service!svars
<1>1. pc = "load" /\ pc' \in {"done", "filter"} /\ UNCHANGED <<allVars, out, hook>>
  BY Zenon DEF EnterRouter, Start, hookVars
<1>2. out' = Continue
  BY <1>1 DEF SettingsInv, PastTheFilter
<1>3. CASE pc' = "done"
  <2>1. Service!Permitted(out')
    BY <1>2 DEF Continue, Service!Permitted
  <2>2. QED
    BY <1>1, <1>3, <2>1, ServiceAnswers
<1>4. CASE pc' = "filter"
  <2>1. Stage' = Stage /\ Matches(hook.text)' = Matches(hook.text)
    BY <1>1, <1>4 DEF Stage
  <2>2. QED
    BY <1>1, <2>1, SameDirectory DEF Service!svars
<1>5. QED
  BY <1>1, <1>3, <1>4

(* What the router can say. *)
LEMMA RouterSays ==
    ASSUME RouteNext, pc' = "done", \A i \in DOMAIN req.verdicts : req.verdicts[i] \in Verdicts
    PROVE  /\ out'.kind \in {"continue", "respond", "deny", "dispatch"} \/ UNCHANGED out
           /\ out'.kind = "dispatch" /\ out'.source = "llm" => out'.target \in Targets \/ UNCHANGED out
<1>1. CASE RunFilter
  <2>1. PICK i \in DOMAIN req.verdicts : req.verdicts[i] # "proceed" /\ out' = [kind |-> req.verdicts[i]]
    BY <1>1 DEF RunFilter, Goto, Return
  <2>2. req.verdicts[i] \in {"continue", "respond", "deny"}
    BY <2>1 DEF Verdicts
  <2>3. out'.kind = req.verdicts[i]
    BY <2>1
  <2>4. QED
    BY <2>2, <2>3
<1>2. CASE CheckBudget \/ Search \/ AskLlm \/ StartTimer \/ LlmReplies \/ LlmFails \/ LlmTimesOut
  BY <1>2 DEF CheckBudget, Search, AskLlm, StartTimer, LlmReplies, LlmFails, LlmTimesOut, Goto, Return, Continue
<1>3. CASE Decide
  BY <1>3 DEF Decide, Goto, Return, Dispatch, Continue
<1>4. CASE ReadReply
  BY <1>4 DEF ReadReply, Return, Dispatch, Continue
<1>5. CASE Receive \/ Tick
  BY <1>5 DEF Receive, Start, Tick
<1>6. QED
  BY <1>1, <1>2, <1>3, <1>4, <1>5 DEF RouteNext, Compute

LEMMA RouterStaysAwake ==
    ASSUME pc # "idle", RouteNext PROVE pc' # "idle"
BY Zenon DEF RouteNext, Receive, Compute, RunFilter, CheckBudget, Search, Decide, AskLlm, StartTimer, LlmReplies,
       LlmFails, LlmTimesOut, ReadReply, Tick, Goto, Return

(* The router answers from the index that was loaded, or with what an LLM   *)
(* named.                                                                   *)
LEMMA ServiceRoutes ==
    ASSUME SettingsInv, SettingsInv', SearchedInv, SearchedInv', RouteStep
    PROVE  [Service!ServiceNext]_Service!svars
<1>1. RouteNext /\ pc \notin {"idle", "load"} /\ UNCHANGED <<allVars, hook>>
  BY DEF RouteStep, hookVars
<1>2. AtTheRouter
  <2>1. pc # "done"
    BY <1>1, Zenon DEF RouteNext, Compute, Receive, RunFilter, CheckBudget, Search, Decide, AskLlm,
       StartTimer, LlmReplies, LlmFails, LlmTimesOut, ReadReply, Tick
  <2>2. QED
    BY <1>1, <2>1 DEF SettingsInv, PastTheFilter
<1>3. step[Caller] = "hit" /\ req.verdicts = <<Evaluate(filter, Located)>> /\ out = Continue /\ pc # "done"
  BY <1>2 DEF SettingsInv, LookedUp, MadeOfTheHook, PastTheFilter, AtTheRouter
<1>4. CorpusLoaded = {call[seen[Caller]].corpus}
  BY <1>3 DEF CorpusLoaded
<1>5. step'[Caller] = "hit" /\ seen'[Caller] = seen[Caller] /\ call' = call
  BY <1>1, <1>3 DEF allVars, vars, reindexVars
<1>6. CASE pc' = "done"
  <2>1. PICK word \in Verdicts : req.verdicts = <<word>>
    BY <1>3, PolicyDecides
  <2>2. \A i \in DOMAIN req.verdicts : req.verdicts[i] \in Verdicts
    BY <2>1
  <2>3. /\ out'.kind \in {"continue", "respond", "deny", "dispatch"}
        /\ out'.kind = "dispatch" /\ out'.source = "llm" => out'.target \in Targets
    BY <1>1, <1>3, <1>6, <2>2, RouterSays DEF Continue
  <2>4. out'.kind = "dispatch" =>
           out'.source = "llm" \/ (out'.source = "strategy" /\ out'.target \in req'.candidates)
    BY <1>6 DEF SettingsInv, DirectiveOfTheRouter
  <2>5. \A p \in req'.candidates :
           p \in call[seen[Caller]].corpus /\ p \in Matches(hook.text)
    BY <1>1, <1>5, <1>6 DEF SearchedInv, CandidatesAreLoaded
  <2>6. \A p \in req'.candidates : p \in Service!Found
    BY <1>4, <2>5 DEF Service!Found
  <2>7. Service!Permitted(out')
    BY <1>4, <2>3, <2>4, <2>6 DEF Service!Permitted
  <2>8. QED
    BY <1>1, <1>3, <1>6, <2>7, ServiceAnswers
<1>7. CASE pc' # "done"
  <2>1. out' = out
    BY <1>3, <1>7 DEF SettingsInv, PastTheFilter
  <2>2. pc' \notin {"idle", "load"}
    BY <1>1, <1>2, RouteStaysOff, RouterStaysAwake DEF AtTheRouter
  <2>3. Stage' = Stage /\ Matches(hook.text)' = Matches(hook.text)
    BY <1>1, <1>3, <1>7, <2>2 DEF Stage
  <2>4. QED
    BY <1>1, <2>1, <2>3, SameDirectory DEF Service!svars
<1>8. QED
  BY <1>6, <1>7

(* The end-to-end refinement: while packs are linked and reindexed, builds  *)
(* fail and loads read, a hook gets one directive that follows from what    *)
(* its endpoint served at one instant after it was admitted; this needs no  *)
(* order of the reindexes.                                                  *)
THEOREM HooksAreServed == PathSpec => ImplementsService
<1>1. PathInit => Service!ServiceInit
  BY CallerLoads DEF PathInit, ReindexInit, Init, RouteInit, Names, CorpusServed, CorpusLoaded, Stage, Continue,
     Service!ServiceInit
<1> DEFINE Inv == IInv /\ CallsInv /\ NameInv /\ SettingsInv /\ SearchedInv
<1>2. Inv /\ Inv' /\ [PathNext]_pathVars => [Service!ServiceNext]_Service!svars
  <2> SUFFICES ASSUME Inv, Inv', [PathNext]_pathVars
               PROVE  [Service!ServiceNext]_Service!svars
    OBVIOUS
  <2>1. CASE UNCHANGED pathVars \/ Install
    <3>1. UNCHANGED <<allVars, pc, out, hook>>
      BY <2>1 DEF pathVars, routeVars, hookVars, Install
    <3>2. Stage' = Stage /\ Matches(hook.text)' = Matches(hook.text)
      BY <3>1 DEF Stage
    <3>3. QED
      BY <3>1, <3>2, SameDirectory DEF Service!svars
  <2>2. CASE BootFails \/ ExtractPanics
    <3>1. pc = "idle" /\ pc' = "done" /\ out' = [kind |-> "exit"] /\ UNCHANGED <<allVars, hook>>
      BY <2>2 DEF BootFails, ExtractPanics, Exit, At, Return, hookVars
    <3>2. Service!Permitted(out')
      BY <3>1 DEF Stage, Service!Permitted
    <3>3. QED
      BY <3>1, <3>2, ServiceAnswers
  <2>3. CASE HandleHookFails \/ ReturnEarly \/ LoadFails
    <3>1. pc \in {"idle", "load"} /\ pc' = "done" /\ out' = Continue /\ UNCHANGED <<allVars, hook>>
      BY <2>3 DEF HandleHookFails, ReturnEarly, LoadFails, At, Return, hookVars
    <3>2. Service!Permitted(out')
      BY <3>1 DEF Continue, Service!Permitted
    <3>3. QED
      BY <3>1, <3>2, ServiceAnswers
  <2>4. QED
    BY <2>1, <2>2, <2>3, ServiceBackground, ServiceAdmits, ServiceLooks, ServiceEnters, ServiceRoutes DEF PathNext
<1>3. QED
  BY <1>1, <1>2, SearchedInvariance, PTL DEF PathSpec, ImplementsService, Service!ServiceSpec
=============================================================================
