---------------------------- MODULE MCPackFlows ----------------------------
(* Three flows in two packs, and one that is deployed twice with other terms. *)
EXTENDS PackFlows, TLC

CONSTANTS p, q, a, b, t, u

Flow(pack, id, terms) == [pack |-> pack, id |-> id, terms |-> terms]

MCFlowLists ==
    {<<Flow(p, a, {t})>>,
     <<Flow(q, a, {u}), Flow(p, a, {t}), Flow(p, b, {t, u})>>,
     <<Flow(p, a, {t}), Flow(q, a, {t}), Flow(p, a, {u})>>}

MCQueries == {{}, {t}, {t, u}}

(* Nothing, a pack, an id, and one flow. *)
MCBlockLists == {{}, {p}, {a}, {<<p, a>>}}

(* A deploy is compared for equality only. *)
DeploySymmetry == Permutations(Deploys)

MCTeams == {"none", "sales"}
=============================================================================
