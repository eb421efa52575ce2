# Verification of greentic-fast2flow

Fast2Flow routes an inbound message to a flow: a host resolves a policy, loads
the index of the message's scope, filters, searches and scores, asks an LLM if
nothing matched, and answers with a directive (`Continue`, `Dispatch`,
`Respond`, `Deny`).  Another program, the toolchain, indexes bundles of flows
into the directories that the host loads.  The modules here model that code,
TLC checks them on small instances, and TLAPS proves what matters most for all
instances.

## The system

| part | state | operations | hard because |
|---|---|---|---|
| index directory (`fast2flow-indexer`) | `index.json`, `latest`, temporary files, per scope | `build_index`, `load_latest` | processes without locks, failures and deaths between system calls, a load of two reads |
| index search (`search_manifest`) | none | `search` | ties, limit |
| scanner and parser (`fast2flow-bundle`) | none | `scan_bundle`, `parse_flow_file` | any order of the walk, files that are skipped, equal names |
| bundle indexing for endpoints (`fast2flow-bundle`) | `intents.md`, the endpoint's index | `index_bundle_for_endpoint`, `reindex_for_endpoint_on_pack_change` | eviction of unlinked packs, overlapping reindexes, documentation after publication |
| bundle index for people (`fast2flow-bundle`) | `index.json` with term counts, `intents.md` | `index_bundle_after_setup`, `reindex_on_pack_change` | two writes in place, flows of one name, a version that routing refuses |
| hook filters (`fast2flow-hooks`) | none | `evaluate` | precedence of lists, case, absent names |
| router core (`fast2flow-core`) | one request's position, clock and deadline | `route` | time passing, a provider that fails or never answers |
| strategy (`fast2flow-strategy*`) | none | `evaluate` | thresholds |
| LLM providers (`fast2flow-llm*`) | none | `complete` | a timer that starts after the look at the clock, late answers |
| policy (`policy.rs`) | the host's policy | `validate_policy`, `resolve_policy` | three stages, priorities, trace |
| host configuration (`config.rs`) | none | `from_env`, `build_router_from_env`, `load_policy_from_env` | unset, blank and unparsable variables, secrets, two targets |
| host (`lib.rs`, `host.rs`) | policy, base settings | `boot`, `route_from_mounts` | one scope for policy, path and lookup |
| WIT entrypoint | one runtime, installed once | `install_runtime`, `handle_hook` | calls before and after installation |
| contracts | none | `validate_endpoint_id`, `validate_scope`, `effective_scope`, `endpoint_scope`, v1 to v2 | shared by both programs, and the two validators must agree |
| intent engine (`greentic-intent`) | none between calls | `mark` | byte offsets against characters, overlapping entities, offsets that move |
| pack flows and components (`indexer`, `matcher`, `router`) | the index per tenant and team in the state store | `index_flows`, `match_intent`, `route_message` | flows of several steps beside each other, blocks against ambiguity |
| CLI | none | `index build`, `route simulate`, `bundle index` | settings of its own |
| telemetry, scripts | none | | |

The toolchain and the host share only the mounted directory of indexes.  The
host calls down: `route_from_mounts` canonicalizes the scope, resolves the
policy, calls `handle_hook_from_mounts`, which loads the index and calls
`CoreRouter::route`, which calls filters, index, strategy and the LLM.  The
flows of `packs/fast2flow` are a second way to route, over an index of their
own in the runtime's state store.  The intent engine is called by the indexer
and the host, and stands alone.

## What makes each part correct

* Index directory: what a loader sees is whole, never taken away, and was
  current at one instant: an atomic register.
* Bundle indexing: a pack that is unlinked is no longer served once the
  reindex has returned `Ok`.
* Router: a filter's verdict is final; a dispatch is earned; the LLM is the
  last resort, is waited for no longer than what was left of the budget, and
  fails open; every request is answered.
* Policy: the strongest override wins, the trace explains the result, nothing
  leaks from one request to the next.
* Host and components: the policy, the path and the lookup use one scope; a
  request is let through by the settings that apply to it; an accepted endpoint
  id is never turned away for its scope.
* Search: an answer depends on the indexed flows alone, and an exact title wins.
* Bundle index: an `Ok` describes both files; the two tables fit together.
* Intent engine: `mark` never loops and panics in two known ways only, its entities do not overlap and follow the
  rule chain, and the marked text is the message with exactly them replaced.
* Pack flows: a blocked intent is never reached, a choice that is left is not
  denied, and what is dispatched was indexed for the message's own team.

## Modules

| module | models | extends or uses |
|---|---|---|
| `IndexRegister` | abstract: an atomic register of manifests | |
| `IndexStore` | `build_index`/`write_manifest` and `load_latest` on one directory | implements `IndexRegister` |
| `IndexStoreProofs` | theorems about `IndexStore` | `IndexStore`, `TLAPS` |
| `EndpointReindex` | `index_bundle_for_endpoint_internal` around `IndexStore` | `IndexStore` |
| `EndpointReindexProofs` | theorems about `EndpointReindex` | `EndpointReindex`, `IndexStoreProofs` |
| `HookFilter` | `DefaultHookFilter::evaluate` as operators | |
| `CoreRoute` | `CoreRouter::route` | |
| `CoreRouteProofs` | theorems about `CoreRoute` | `CoreRoute`, `TLAPS` |
| `RoutingPolicy` | `validate_policy`, `resolve_policy`, the tracker | |
| `RoutingPolicyProofs` | theorems about `RoutingPolicy` | `RoutingPolicy`, `TLAPS` |
| `FlowFiles` | the flow files of a bundle: scanner and parser, as operators | |
| `FlowSearch` | the flows of a bundle to a decision: manifests of both versions, `search_manifest`, the phase 1 strategy | `FlowFiles` |
| `BundleIndex` | `index_bundle_internal`, `build_index_manifest`, `generate_intents_md`, beside the index that routes | `FlowSearch` |
| `BundleIndexProofs` | theorems about `FlowSearch` and `BundleIndex` | `BundleIndex`, `TLAPS` |
| `HookService` | abstract: one hook, one atomic look at what its endpoint serves, one directive that follows from it | |
| `ScopeNames` | `validate_endpoint_id`, `validate_scope`, `endpoint_scope`, `normalize_under_root`, as operators | |
| `HostConfig` | environment, secrets and policy file to the settings of a router, as operators | |
| `HookPath` | one hook through the host binary, the WebAssembly component or `route_intent`, with reindexing around | `EndpointReindex`, `CoreRoute`, `HookFilter`, `ScopeNames`, `HostConfig`; implements `HookService` |
| `HookPathProofs` | theorems about `ScopeNames` and `HookPath` | `HookPath`, `EndpointReindexProofs`, `CoreRouteProofs` |
| `IntentEngine` | `IntentEngine::mark`: extractors, `resolve`, `render_markers` | |
| `IntentEngineProofs` | theorems about `IntentEngine` | `IntentEngine`, `TLAPS` |
| `PackFlows` | the flows of the pack with the three components | |
| `PackFlowsProofs` | theorems about `PackFlows` | `PackFlows`, `TLAPS` |
| `MC*` | instances for TLC | |

Definitions carry the names of the code where TLA+ allows it.  A definition
whose comment begins with "Mutant:" is a plausible bug: put in place of the
definition after it, it violates one of the properties (`PROJECT.json`,
`mutants`), which shows that the property depends on the code.

### IndexStore

`file` is what the two final names hold, `tmp` the temporary files by tag
(`<pid>.<nanos>`), `phase` and `target` the position of each build in
`write_manifest`, `step` and `seen` that of each load.  `fs::write` is two
steps, as a file is truncated before it is filled; `fs::rename` is one.  `Stop`
is any early return with `Err` and also the death of the process, since neither
cleans up.  A manifest is named by the build that made it.  Assumed: no two
builds draw the same tag (`TagsDistinct`); a machine that loses power, where a
rename can survive without the data it named (there is no `fsync`), is not
modelled.

Refinement: the register holds what `latest` leads to, so it changes when
`latest` is first renamed and, from then on, when `index.json` is.  A load is
answered at its last read.

### EndpointReindex

`linked` is the endpoint's packs, changed by the toolchain at any time; `call`
the corpus and the time that each reindex was called with; `reply` its result;
`doc` the file `intents.md`.  `MaxInFlight` bounds the reindexes that run at
once: the code has no lock, so 1 is an assumption about the caller.  With 1,
`StaleRoutesEvicted` holds; with 2 it does not.

### CoreRoute

`pc` names the places in `route` between which time can pass; `at` is the
filter, `elapsed` the clock, `out` the directive.  The search result and the
strategy's decision are part of the request, chosen freely.

The LLM call is four steps, as time passes between any two of them.  `AskLlm` is
the look at the clock: `remaining` is what is left of the budget.  Then the prompt
and the provider's request are made, and `StartTimer` is
`tokio::time::timeout(remaining)`, which counts from there: `deadline` is the
time at which it fires, and can be after the end of the budget.  `LlmReplies`,
`LlmFails` and `LlmTimesOut` are its outcomes, and `ReadReply` parses a reply and
decides, without a look at the clock.  `ownWork` is a history variable: the time
that went by before the timer and after the reply, which no timer covers.

`Tick` may happen anywhere, but not past a timer that is due: the runtime is
assumed to serve the timer promptly.

### RoutingPolicy

`stage` is the place in `stage_order`, 0 before the default rules; `left` the
matching overrides of that stage that are still to be applied; `effective` the
settings so far; `seen`, `applied` and `warnings` the tracker.  Each layer is an
action: `ApplyDefault`, `ApplyOverride` for the weakest of `left` (which is the
sorted loop of the code), `NextStage`.  `Rendered` is the formatting whose
result `track_set` compares.  The declarative precedence that the steps are
checked against (`Setters`, `Stronger`) compares overrides with each other, not
positions in a sorted list.

### ScopeNames and HostConfig

A name is a sequence of characters: letters and digits, the four characters
that the validators treat in a way of their own, and others.  The lengths are
constants, and the assumption `ScopesAreLongEnough` is 8 + 1 + 255 <= 512.
`UnderRoot` is `normalize_under_root`: links are the only way in which a valid
scope can leave the root.

An environment is a record of options, and a setting that does not parse is
`Garbage`.  `RouterFromEnv` gives the settings of a router, or the empty set for
an `Err`; on `wasm32` every provider is an `Err`.  `LoadPolicy` gives `NoFile`
for a path at which there is nothing, also if it was set.  Numbers are not
validated there, so a threshold can be one that no confidence meets (NaN).

### HookPath

One hook, which comes while the toolchain reindexes the endpoint.  It enters
through one of three doors, and all three go on to `handle_hook_from_mounts`
(`LoadIndex`, `LoadFails`, `EnterRouter`, `RouteStep`):

* `host`: a process for each hook.  `BootFails` and `ExtractPanics` are its
  ends without a directive, before any policy; `Arrive` makes the scope
  canonical, and resolves the policy for it (`ResolveRequestPolicy`, which has
  the result of `RoutingPolicy` for each scope).  The variable `host` is what it
  booted with.
* `wit`: `Install` sets the variable `runtime` once; `HandleHookFails` and
  `HandleHook` are the validation at the boundary.  There is no policy here and
  no LLM, and the scope is made canonical when the index is loaded (`Located`).
* `component`: `route_intent` of the router component returns early on a zero
  budget or a blank text, and routes with default settings otherwise.

`okBefore` (the reindexes that had returned `Ok` when the hook came) and
`installs` are history variables.  TLC lets time pass here only while a timer
runs (`MaxElapsed = 0`), as `CoreRoute` covers the rest; the theorems hold for any
clock.

Refinement: `HookService` says what all this is to one hook.  The endpoint
serves one corpus at a time, that of the build whose manifest `latest` leads to
(`CorpusServed`); the hook is new, open or answered (`Stage`), and looks once,
when its load reads `index.json` (`CorpusLoaded`).  What `answer` may be is
`Permitted`: a flow of that corpus that matches the text, a flow that the LLM
named, what a filter says, or `continue`.  So a hook is never answered from two
corpora, nor from one that its endpoint served only before it came, nor twice.

### FlowFiles, FlowSearch and BundleIndex

A text is a sequence of words, and words, packs and ids are numbers in
alphabetical order, so that sorting is arithmetic.  `manifest` is what the
directory of the scope holds.  Bundle, links, walk order and version are inputs
of `Reindex`; `Mount` puts a handwritten manifest there, with several titles
(v1) or utterances (v2), which no build writes.  `Route` has the settings of a
host, `Simulate` those of `route simulate`.  `answer` is the last dispatch since
the indexed flows changed; a reindex that finds the same flows in another order,
or writes them in the other version, keeps it.

A candidate carries the place of its entry, and a stable sort is an order:
`SortsBefore` is by score, target and flow id, and by place when all of these
are equal.  `Take` cuts the search at its limit, `Winners` is the head of the
strategy's sort.  The share of a text's words is counted in `Unit`s, a common
multiple of the lengths up to `Longest`, so that it is a whole number for every
text; confidences are tenths of these (7, 2 and 1 are the weights 0.7, 0.2 and
0.1).  The code adds the same numbers as `f32`, so two scores that are equal
here can differ there in the last bit; the order is then decided by the score
and not by the target, and still not by the walk.

`BundleIndex` adds the commands that write `index.json` and `intents.md` for
people.  `tool` is the position of the one command that runs, `output` the two
files, each none, torn or whole: `fs::write` is two steps, and `Stop` is an
error or the death of the process at any of them.  `intents.md` is a section for
each pack, in ascending order, with the flows of the pack as they were scanned
(`OfPack`).  `CopyToMount` is what
`intents.md` tells its reader to do.  The flows in `index.json` have keywords
and descriptions, which no manifest that routes has.

### IntentEngine

`extractor` and `offset` are where the scan is, in bytes; a text is its size
and the offsets at which a character begins.  What an extractor recognises is
left open (any span that its way of walking can yield, with the confidences it
gives); how it moves, what it slices and what can panic is not.  `found` are
the candidates in order of arrival, `pending` and `kept` those of `resolve`,
`marked` the text as a sequence of bytes and markers (`Byte` and `Marker` tell
them apart), `left` the number of entities still to be replaced, from the last
to the first, and `StepsLeft` how many steps `mark` can still take.  `Panic` ends
`mark` in the date extractor on any message, and in the url extractor on one that
has a character of several bytes; `CanPanic` names these, and `MarkReturns` asks
for a result in all other cases.  Of the
three marked texts one is modelled, as they differ in the markers' wording only.

### PackFlows

`stored` is the state store, an index or nothing for each key, `deploy` and `run` the positions of the flows
`index_flows` and `route_message`; one node of a flow is one step.  A flow in
the index is its pack, its id and the set of its terms.  A BM25 score is any
positive number up to `MaxScore` if the flow has a term of the query, and
zero otherwise; since confidences are ratios of scores, small numbers give
every outcome of the two comparisons.  Candidates are a set, and the matcher's
stable sort is the order `Ahead`; a clarification offers the first four that are
not blocked.  The tenant is fixed: it is a part of the
key as the team is, and has no default.

## Runs

| run | instance | shows |
|---|---|---|
| `index_store` | 3 builds, 1 load | types, no torn file, no dangling `latest`, misses only before publication, loads succeed after it, refinement |
| `endpoint_reindex` | 3 reindexes, 2 packs, one at a time | eviction holds, `intents.md` never ahead, failures publish nothing later |
| `endpoint_reindex_race` | the same, two at a time | eviction is lost (finding) |
| `core_route` | 0 to 2 filters, budgets 0 to 2, thresholds around the confidence, time at every step | verdicts, earned dispatch, lateness by own work only, fail open, termination |
| `routing_policy` | 20096 policies: up to 2 scope, 1 channel, 1 provider override, 4 stage orders; 2 requests in any sequence | precedence, warnings, validity |
| `hook_path` | 2 reindexes, 1 pack, 7 hooks to the host, 5 to the WebAssembly component, 4 to the router component, 9 environments, 2 policies, 2 installs | eviction reaches the user, no split brain, no misnamed endpoint, deny by name, refinement of `HookService` |
| `hook_path_deny` | the same | a denied scope is not denied while it has no index (finding) |
| `flow_search` | 3 bundles of up to 3 files in 4 places, all walk orders, both versions, 2 handwritten manifests, 6 messages, a limit of 2; 3 bundles indexed for people | answers are those of the flows, an exact title wins, confidences, the weight of a title; both files and both tables of the bundle index |
| `bundle_index_copy` | the same | the documented copy is refused by the loader (finding) |
| `intent_engine` | three engines, which hold the seven extractors, one of them without those that panic on any message, messages of 3 bytes, with 2 or 3 characters | disjoint entities, the rule chain, marked text, every step counts, `mark` returns where it cannot panic |
| `intent_engine_url` | the url extractor alone | a message with a wide character makes it panic (finding) |
| `pack_flows` | 2 deployments, 1 message, 2 teams, lists of 1 and 3 flows, blocks by pack, id and both | blocks, denials, team and index of what is dispatched, a sole match |

Why these bounds are enough.  Builds interact only through two names, and three
of them give a reader an old, a new and a racing manifest, with failures of any.
One load suffices, because loads do not affect anyone.  Eviction is about a pack in, out, and in
again: three reindexes; two packs let one stay.  Two filters give a first
objection and one behind it.  Budgets 0, 1 and 2 with time up to 3 put every
check before, at and after the end of the budget, with own work on either side of
the provider's timer; a timer that starts late runs on beyond 3.  Two scope overrides give
every order and tie of priorities, and an override in every other stage every
pair of stages.  Builds and packs are compared for equality only, so symmetry
is sound where no liveness is checked.

Three bytes hold three
candidates side by side, one in another, and chains in which the second
overlaps the first and the third; the extractors of the run scan bytes and
tokens, tie in confidence, and arrive in the order opposite to their kinds'
priority.  Bundles of up to three flows against a limit of two makes the cut matter, with two
files of one pack and id, a file that does not parse, a flow without a title,
repeated words, an empty message, and a path of each length; texts have up to
three words, and 6 units are a whole one; with the threshold at 0.5, the
default, as `TitleWordNeeded` needs one above 0.3.
Ids of two characters and scopes of four put every rule of the validators at
its boundary (`e:b` is `endpoint:bot`), and there is a hook for each way of
being malformed that the three doors tell apart: an id with a dot, an empty
scope, two colons, a scope whose directory is a link.  The environments are one
for each outcome of `RouterFromEnv` and `LoadPolicy`.  Two installs show which
of them stays.  One command at a time writes the bundle index, and any number
of them one after the other.
The lists of flows have one pack with two ids, one id in two
packs, and one flow twice.

Deadlock is checked for `index_store`, `endpoint_reindex` and `flow_search`; the other
systems stop: a request ends with its directive, a host can be rejected, and
`mark` and the pack's flows return.

Fairness.  `IndexStore`: a build that runs and a load that is called take their
next step, as processes do (a build may still die: `Stop` is not fair, and
neither is `Begin`).  `CoreRoute`: the pipeline's own steps, with `StartTimer`
and `ReadReply`, and time; never the provider's reply or failure (`LlmReplies`,
`LlmFails`), which the code does not control.  `IntentEngine`: `Next` as
a whole, as `mark` is sequential and waits for nothing.

## Findings

* Overlapping reindexes lose an eviction (`endpoint_reindex_race`).
* Policy is applied after the index is loaded, not first (`hook_path_deny`).
* `intents.md` tells its reader to copy an `index.json` over the mounted one
  that the loader refuses (`bundle_index_copy`).
* The url extractor slices inside characters and panics (`intent_engine_url`).

`PROJECT.json` quotes the lines.

Seen while modelling, and not the subject of a run:

* The time budget is not checked after search and strategy: a deterministic
  dispatch is returned however long they took, where
  `.codex/fast2flow-core/PR.md` asks for the full cycle.
* An LLM's dispatch can be returned after the budget, too: the provider's timer
  is given what was left at the look at the clock, but starts after the prompt
  and the request are made, and nothing looks at the clock after the reply.
  `LateByOwnWorkOnly` says that there is no other lateness.
* Warnings of the policy are about printed values, so an override that changes a
  confidence by less than 0.0001 is not warned of.
* `validate_bundle` is documented to return `true` for a bundle with a flow
  that parses; it returns `true` for any `.ygtc` file.
* The walk skips directories that it cannot read, so a missing or unreadable
  bundle scans as an empty one.  For an endpoint that is an `Ok` which evicts
  its routes; for the bundle index it is an `Ok` that leaves the files of the
  bundle before.
* Of two flows with one pack and id the bundle index counts both in the
  document frequencies, and keeps the terms of one.
* The `intents.md` of an endpoint says to copy to the directory `id:id`, which
  is not the endpoint's scope.  Copied into a directory without `latest`, a
  manifest is not found.
* The regular expression in the comment of `MessagingEndpointId` admits two
  dots in a row, which the code and its tests reject.
* A policy path at which there is no file means no policy, and so no denials.
* `handle_hook` comments that a malformed hook fails closed; it answers
  `Continue`, as for everything else that it does not route.
* The indexer's `update` takes a mode (`add`, `remove`, `replace`) and ignores
  it: it builds an index of the flows it is given, so that `remove` leaves the
  flows to be removed.  A comment in `do_update_index` says that it does not
  merge yet.
* The matcher divides by the best score, so its best candidate has confidence
  1 whenever a term is in common, and its threshold decides about the second
  candidate only.  The router reads its two thresholds and does not use them.
* The matcher's result has no `flow_type`, so `route_message` dispatches every
  flow as deterministic.
* The target that the LLM names is not looked for among the candidates, so it
  can be a flow of another tenant or no flow at all.
* A flow's description and keywords are extracted "for matching", but the
  manifest that is routed with has neither: only titles, tags and utterances
  match, and tags and utterances alone never reach the default threshold.
* `derive_pack_id` falls back to the directory above the parent, where its
  comment says the parent; `packs/x` and `apps/x` give one pack id.
* `route_intent` applies no policy, so a scope that the host denies is
  dispatched by the component.
* An extractor that panics ends the host before policy is asked.
* `in <N> days` with a large `N` panics in the date extractor.
* `with_extractor` promises that the earlier extractor wins on ties; `resolve`
  asks for the kinds' priority first.

## Proofs

`IndexStoreProofs` holds for any sets of builds, loads and tags, from
`TagsDistinct` and `BuildsAreValues` only.

1. `TypeCorrect`: by cases of `Next`.
2. `Invariance`: the inductive invariant `IInv`.  `PublishedWhole` alone is not
   inductive: a rename publishes what the temporary file holds, so `TmpFilled`
   says that it holds the whole content, which rests on tags being distinct.
   `LatestNamesManifest` needs `IndexBeforeLatest`: a build that has come to
   `latest` knows that some `index.json` is in place.  The loads need
   `LatestStays`, and the refinement `FromABuild` and `SeenOnHit`.
3. `NeverTorn`, `NeverDangling`, `MissesOnlyBefore` follow.
4. `Implementation`: `Spec => Register!RegSpec`, a lemma for each kind of step:
   one submits, publishes, answers, asks or stutters.

`EndpointReindexProofs` holds for any packs, reindexes and loads.  Every step of
a reindex is a step of the directory or leaves it alone
(`ReindexIsADirectory`), so that what is proved of `IndexStore` holds here too
and is cited, not proved again.  This holds with the loads of any number of readers
in between (`ServedSpec`), and so the refinement does: `ReindexIsARegister` is
about what these readers get.

1. `ReindexTypeCorrect`, for any number of reindexes at once.
2. `SerialInvariance` assumes `MaxInFlight = 1`, that the caller waits for one
   reindex before it starts the next: nothing in the code sees to it, and with 2
   the run `endpoint_reindex_race` refutes what follows.  `StaleRoutesEvicted` is not
   inductive, as it speaks of the reindexes that have returned only.
   `NeverReplacedByOlder` says of each build past its rename of `index.json` that
   the file is its own or a newer one's; it is kept because `RunningIsNewest`: the
   one that renames was called last.  That rests on `DatedWhenCalled`.
   `ReplyFollowsPhase` links the caller's result to the position of the build,
   and `DocsAfterIndex` puts `intents.md` behind it.
3. `EvictionHolds`, `DocsNeverAhead` and `FailedIsNeverPublished` (a property of
   steps) follow.

`CoreRouteProofs` holds for any requests, any number of filters, any budgets
and thresholds, from `RequestsAreSound` only: what a request is, and that the
strategy's decision, at most one, names a candidate
(`Phase1DeterministicStrategy` picks among them).  Confidences are natural
numbers here, as only their order matters.

1. `RouteTypeCorrect`: the types with `AtAFilter`, which bounds the filter
   index when the loop increments it.
2. `RouteInvariance`, of `RouteInv`: `Running` says what the position in `route` implies of
   the request (filters passed, strategy missed), and where the time of the LLM
   call is (`TimeIsAccounted`): until the timer starts, the clock and `remaining`
   together are the budget and the own work so far; `deadline` is then that sum,
   and the reply comes by it.  `LateByOwnWorkOnly` alone is not inductive, as it
   does not bound what a timer that starts late still allows.  `Answered` is the
   three properties.  `AnsweredStep` shows that a
   directive is right when it is returned, `RunningStep` that every other step
   keeps what was known.
3. `FiltersAreFinal`, `DispatchesAreEarned` and `LlmStaysInBudget` (the state
   property `LateByOwnWorkOnly`) follow; `LlmNeverDenies` is a property of steps
   and needs no invariant.

`RoutingPolicyProofs` holds for any fields, base, policies and requests, any
validation, any formatting and any lower-casing, from `PoliciesAreSound`: stages
are the three, priorities numbers, rules about known fields.

1. `PolicyInv`: while a policy is resolved, each setting is that of the strongest
   override applied so far (`StrongestSoFar`), which stays true because what is
   left of a stage is stronger than what was applied of it (`LeftIsStronger`),
   and a later stage is stronger than an earlier one; a stage that is listed
   twice is applied twice, and its overrides count where they come last.
   `TraceExplains` says which layers of the trace set a field and what they
   printed; `OneSeen` makes the tracker's memory a function.
2. `PolicyTypeCorrect`, `PrecedenceHolds`, `TraceIsComplete`, `SettingsStayValid`
   follow.  The last needs `Booted`: nothing is resolved before validation.

`BundleIndexProofs` holds for any bundles, links, handwritten manifests,
messages and settings, any length of texts and any number of flows, from
`SharesAreWhole`, `MessagesAreTexts`, `SettingsAreSound`, `BundlesAreSound`,
`IndexedAreSound` and `HandMadeAreSound`, which say what these are made of.

1. `Representative`: two orders of the same entries have candidates of the same
   ranks, where a rank is score, target and flow id.  `WinnersAgree` concludes
   that their decisions are equal or of namesakes.  Behind it are lemmas about
   finite sets: a strict order on one has a first element, and a candidate is
   cut exactly if as many as the limit are ahead of it.
2. `SearchInv`: the mounted manifest is well-formed, an answer was a decision for
   *some* order of the entries that are mounted now, and the two files are what
   the command at its position has written.
3. `SearchTypeCorrect`, `OrderIsIrrelevant`, `ExactTitlesAreServed`,
   `TablesFitTogether` follow, and `TitlesDecide` for a threshold above 0.3,
   which it needs: 0.2 of a tag and 0.1 of the hint are 0.3.  The default is 0.5,
   but a host can set one that is lower.
4. `OkIsWritten`: after an `Ok` both files are whole and are made of the flows of
   this command (`SearchInv`).  That `intents.md` lists each flow once rests on
   lemmas about `Ascending`: it enumerates a finite set of numbers without a gap
   and in order, so the place of a flow among those of its pack, and that of its
   pack among the packs, is a bijection between flows and lines.

`IntentEngineProofs` holds for any messages and any extractors, from
`TextsAreSound` and `ExtractorsAreKnown`.

1. `IntentTypeCorrect`: a token scan stays at the beginning of characters, a
   byte scan need not, and every candidate is whole characters all the same,
   because a match begins at one.
2. `ResolveInvariance`: `ResolvedByTheRules` is not inductive, as it speaks of
   the end.  `ConsideredByTheRules` is its form for the candidates considered
   so far, and `InOrder`, that these sort before the pending ones, keeps it
   true: a candidate considered later never counts against an earlier one.
3. `EntitiesAreDisjoint` and `GreedyFollowsTheRules` follow.
4. `MarksAreInPlace`: `MarkedAtItsSpans` does not say that the offsets of the
   entities that are left still point at their bytes, which is what replacing
   from the back is for.  `RenderInv` adds it: in front of the last replacement
   (`Frontier`) nothing has moved, and what is in `marked` is in the order of
   the text.
5. `MarkEnds`: every step lowers `StepsLeft`, a natural number, also where an
   extractor walks back behind what it has emitted (email).  That is
   termination but for fairness: what is left to TLC is that `mark` takes its
   next step.
6. `OnlyKnownPanics`: where `CanPanic` does not hold, `mark` never panics.  It
   needs the types, as the offset that the url extractor slices at is one of the
   message.

`HookPathProofs` holds for any characters and lengths, from the four
assumptions of `ScopeNames`, from `HooksAreSound`, from `CallerLoads`, that
the hook's load is one of the directory's, and from `ThresholdsAreLevels`: a
threshold is a level wherever it is set, and at each path of a policy there is a
policy, garbage or nothing.

1. `EndpointScopeIsValid`: what `endpoint_scope` makes of an id that
   `validate_endpoint_id` accepts is a scope that `validate_scope` accepts.  The
   colon is at one place, since neither side can have one; the two sides are
   segments, since an id neither begins nor ends with a dot; and the lengths
   fit.  `EndpointScopesAreDistinct`: two ids never make one scope.
   `ValidScopesAreNames`: a valid scope splits at one colon in one way only.
2. `EndpointsAreServed`: `EndpointIsNeverMisnamed` in every state of `PathSpec`.
   The invariant behind it says that a hook at the index has an id that parsed,
   through whichever door it came (`ParsedBeforeLoad`), and that the hook is one
   of `Hooks` with at most its scope replaced.
3. `SettingsDecide` and `DenialHolds`: `SettingsInv` follows a request through
   the two programs.  The request in the router is made of the hook and of the
   filter that its own policy gave (`MadeOfTheHook`, `AdmittedByItsPolicy`), the
   runtime is the one installed first (`FirstInstallStays`), and what the router
   has passed or answered is what that filter allows (`PastTheFilter`,
   `DirectiveOfTheRouter`).
4. `EvictionReachesTheUser`, for one reindex at a time as above: what the hook
   has loaded is at least as new as every reindex that had returned `Ok` when
   it came (`LoadedIsNewer`), and the candidates are of that
   (`CandidatesAreLoaded`).  It uses `SerialInv` at every step of the toolchain.
5. What holds of the parts holds of the whole.  `HooksReadARegister`: every step
   is one of the directory or leaves it alone.  `HooksAreRouted` and
   `HooksFailOpen`: the request that a hook is made into is one that `CoreRoute`
   allows (`IsRequest`, with what `Settings` gives for filter, threshold and
   budget), so what was proved of the router holds, at the three entries.
   `CoreRoute` fixes the requests from the start and here they are made, which
   is why its lemmas are about one request in hand (`InHand`).
6. `HooksAreServed`: `PathSpec` implements `HookService`.  It needs no order of
   the reindexes, so it says what a hook still has when they overlap.
   `SearchedInv` links what the hook loaded to the call that built it
   (`LoadedWasCalled`) and the candidates to that corpus and to the text; then
   each step serves, admits, looks, answers or stutters, a lemma for each kind.

`PackFlowsProofs` holds for any flows, teams, queries, blocks and limits, and any
number of deployments and messages side by side, from `LimitsArePositive` and
`FlowsAreListed`.

1. `PackInvariance`: what is stored under a key was stored there by a deployment
   of that team (`StoreInv`); a run's index is one of these, and its result the
   matcher's over this index, not over what is stored now (`RunInv`).
2. `PackTypeCorrect`, `BlocksHold`, `DispatchesAreIndexed`, `DenialsAreEarned`
   follow.  `SoleMatchesAreServed` needs in addition that a flow that alone has
   a term in common is the only candidate, so that neither limit nor threshold
   can take it away.

Only model-checked: liveness, which is `ServedAfterOk`, `EveryRequestAnswered`
and `MarkReturns`.  Fairness and `ENABLED` are beyond the provers here.  The four
findings are counterexamples that TLC finds; there is nothing to prove of them.
The other way round, the types of `EndpointReindex` and of `RoutingPolicy` are
proved (`ReindexTypeCorrect`, `PolicyTypeCorrect`) and no run repeats them.

## Plan

What could come next, in this order:

1. The entities that the host attaches to a dispatch, from `IntentEngine`.
2. The arithmetic of dates and times in the extractors.
3. `MountedIndexLookup` takes its candidates from `FlowSearch` in `HookPath`;
   `HookService` would then promise the better of two matches, too.

## Not modelled

* The providers' wire format and telemetry: input and output only.
* What the extractors recognise in characters, gazetteer and locales: pattern
  matching over text; `IntentEngine` leaves open what they find.
* `index inspect`, `bundle validate` and the policy commands of the CLI: they
  print what functions modelled here return, and change nothing.
* JSON, Markdown and YAML as text; the scripts, schemas and assets of the packs.
* Power loss, as above.
