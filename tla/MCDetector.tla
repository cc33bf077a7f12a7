----------------------------- MODULE MCDetector -----------------------------
(* Model-checking instance of Detector: goroutines as a symmetry set.      *)
EXTENDS Detector, TLC

ProbeSymmetry == Permutations(Probes)
=============================================================================
