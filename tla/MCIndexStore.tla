--------------------------- MODULE MCIndexStore ---------------------------
(* Three builds race on one directory while a caller keeps loading it.     *)
EXTENDS IndexStore

MCTagOf == [b \in Builds |-> b]
=============================================================================
