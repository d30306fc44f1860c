-------------------------- MODULE MCProcessRuntime --------------------------
(* Instances of ProcessRuntime for TLC. *)
EXTENDS ProcessRuntime, TLC

ThreadsAndTokens == Permutations(Threads) \cup Permutations(Tokens)
=============================================================================
