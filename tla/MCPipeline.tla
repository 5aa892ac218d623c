----------------------------- MODULE MCPipeline -----------------------------
(* EventPipeline with one peer behind each capability. *)
EXTENDS EventPipeline, TLC

CONSTANTS a1, g1

AnomalyList == <<a1>>
RiskList    == <<g1>>

Symmetry == Permutations(Events) \union Permutations(PeerThreads)
=============================================================================
