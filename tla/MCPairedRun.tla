---------------------------- MODULE MCPairedRun ----------------------------
(* PairedRun with interchangeable plans, arms, directories and processes. *)
EXTENDS PairedRun, TLC

Interchangeable ==
  Permutations(Plans) \cup Permutations(Arms) \cup Permutations(Dirs) \cup Permutations(Runners)
=============================================================================
