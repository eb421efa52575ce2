--------------------------- MODULE IndexRegister ---------------------------
(***************************************************************************)
(* What the index directory of one scope promises to those who load it: an *)
(* atomic register.  A build submits a manifest; at some instant the       *)
(* register holds a submitted manifest, whole, and never becomes empty     *)
(* again; a load answers with what the register held at one instant.       *)
(* IndexStore is the directory of files that implements it.                *)
(***************************************************************************)
CONSTANTS Builds, Loads

VARIABLES
    submitted,  \* the manifests offered so far
    current,    \* the manifest the register holds, or "absent"
    answer      \* per load: "pending", "absent" (an error) or a manifest

rvars == <<submitted, current, answer>>

RegInit ==
    /\ submitted = {}
    /\ current = "absent"
    /\ answer = [l \in Loads |-> "pending"]

Submit(b) ==
    /\ b \notin submitted
    /\ submitted' = submitted \cup {b}
    /\ UNCHANGED <<current, answer>>

Publish ==
    /\ current' \in submitted
    /\ UNCHANGED <<submitted, answer>>

Answer(l) ==
    /\ answer[l] = "pending"
    /\ answer' = [answer EXCEPT ![l] = current]
    /\ UNCHANGED <<submitted, current>>

Ask(l) ==
    /\ answer[l] # "pending"
    /\ answer' = [answer EXCEPT ![l] = "pending"]
    /\ UNCHANGED <<submitted, current>>

RegNext ==
    \/ \E b \in Builds : Submit(b)
    \/ Publish
    \/ \E l \in Loads : Answer(l) \/ Ask(l)

RegSpec == RegInit /\ [][RegNext]_rvars
=============================================================================
