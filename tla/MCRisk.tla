------------------------------- MODULE MCRisk -------------------------------
(* RiskMetrics with two symbols: two equal positions, or a single one. *)
EXTENDS RiskMetrics

CONSTANTS s1, s2

TwoPortfolios == {(s1 :> 1) @@ (s2 :> 1), s1 :> 1}
=============================================================================
