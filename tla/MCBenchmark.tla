----------------------------- MODULE MCBenchmark -----------------------------
(* Benchmark with the values its configurations give it. *)
EXTENDS Benchmark
=============================================================================
