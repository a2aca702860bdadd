----------------------------- MODULE MCBenchJobs -----------------------------
(* Small instances of BenchJobs for TLC. *)
EXTENDS BenchJobs, TLC

CONSTANTS k1, k2

ClientSymmetry == Permutations(Clients)
=============================================================================
