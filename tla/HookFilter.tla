---------------------------- MODULE HookFilter ----------------------------
(***************************************************************************)
(* DefaultHookFilter::evaluate (crates/fast2flow-hooks): the verdict of a  *)
(* policy's lists and canned responses on a request.  An Option<T> is a    *)
(* set with at most one element.                                           *)
(*   request: session, scope, channel, provider (options), text            *)
(*   filter:  denyScopes, respond, allowScopes (option), denyChannels,     *)
(*            allowChannels (option), denyProviders, allowProviders        *)
(* A respond rule is reduced to the set of texts that it matches, which is *)
(* empty for a blank needle and for an invalid regex.                      *)
(***************************************************************************)
EXTENDS Naturals, Sequences, FiniteSets

CONSTANT Lower(_)   \* a name in ASCII lower case

(* Mutant: names are compared with their case. *)
ListedExactly(name, list) == name \in list

(* eq_ignore_ascii_case with some element of a list *)
Listed(name, list) == \E item \in list : Lower(item) = Lower(name)

(* Absent names pass, and an absent allow list admits every name. *)
ScopeVerdict(f, r) == IF Listed(r.scope, f.denyScopes) THEN "deny" ELSE "proceed"

RespondVerdict(f, r) ==
    IF \E rule \in f.respond : r.text \in rule THEN "respond" ELSE "proceed"

AllowVerdict(allow, name) ==
    IF \A list \in allow, n \in name : Listed(n, list) THEN "proceed" ELSE "continue"

ListVerdict(deny, allow, name) ==
    IF \E n \in name : Listed(n, deny) THEN "deny" ELSE AllowVerdict(allow, name)

(* The first verdict other than "proceed", as in evaluate_filters too. *)
FirstVerdict(verdicts) ==
    LET stops == {i \in DOMAIN verdicts : verdicts[i] # "proceed"}
    IN  IF stops = {} THEN "proceed"
        ELSE verdicts[CHOOSE i \in stops : \A j \in stops : i <= j]

Evaluate(f, r) ==
    FirstVerdict(<< IF r.session THEN "continue" ELSE "proceed",
                    ScopeVerdict(f, r),
                    RespondVerdict(f, r),
                    AllowVerdict(f.allowScopes, {r.scope}),
                    ListVerdict(f.denyChannels, f.allowChannels, r.channel),
                    ListVerdict(f.denyProviders, f.allowProviders, r.provider) >>)
=============================================================================
