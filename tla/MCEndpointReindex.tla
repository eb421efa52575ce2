------------------------- MODULE MCEndpointReindex -------------------------
(* Three reindexes of an endpoint that links and unlinks two packs.        *)
(* Builds and packs are only compared for equality, so both are symmetric. *)
EXTENDS EndpointReindex, TLC

MCTagOf == [b \in Builds |-> b]

Symmetry == Permutations(Builds) \cup Permutations(Packs)
=============================================================================
