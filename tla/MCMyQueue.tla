----------------------------- MODULE MCMyQueue -----------------------------
(* Small instances of MyQueue for TLC, with one plausible bug per mutant.  *)
EXTENDS MyQueue, TLC

ThreadSymmetry ==
  Permutations(Producers) \cup Permutations(Consumers) \cup Permutations(Msgs)
=============================================================================
