---------------------------- MODULE MCIngestion ----------------------------
(* IngestionPeer with one peer behind each capability. *)
EXTENDS IngestionPeer, TLC

CONSTANTS a1, g1

AnomalyList == <<a1>>
RiskList    == <<g1>>

Symmetry == Permutations(Workers) \union Permutations(Events)
=============================================================================
