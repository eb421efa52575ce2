--------------------------- MODULE MCCoreRoute ---------------------------
(* Up to two filters, an index with no candidate or two of them, a best    *)
(* candidate below, at or above the threshold, with and without an LLM.    *)
EXTENDS CoreRoute, SequencesExt

CONSTANTS f1, f2, ghost

MCTargets == {f1, f2, ghost}
MCConfidence == 0..2

Searches ==
    {[candidates |-> {}, best |-> {}]} \cup
    {[candidates |-> {f1, f2}, best |-> {[target |-> f1, confidence |-> c]}] :
        c \in MCConfidence}

MCRequests ==
    {[budget |-> b, verdicts |-> v, blank |-> k, candidates |-> s.candidates,
      best |-> s.best, llm |-> l, min |-> 1, llmMin |-> m] :
        b \in 0..2, k \in BOOLEAN, l \in BOOLEAN, m \in 1..2, s \in Searches,
        v \in BoundedSeq({"proceed", "continue", "respond", "deny"}, 2)}
=============================================================================
