------------------------------ MODULE MCAnomaly ------------------------------
(* AnomalyPeer with one event for each of two symbols. *)
EXTENDS AnomalyPeer

CONSTANTS e1, e2, s1, s2

TwoSymbols == (e1 :> s1) @@ (e2 :> s2)

WorkerSymmetry == Permutations(Workers)
=============================================================================
