----------------------------- MODULE MCRiskPeer -----------------------------
(* RiskPeer with threads as model values. *)
EXTENDS RiskPeer

WorkerSymmetry == Permutations(Workers)
=============================================================================
