---------------------------- MODULE MCExecution ----------------------------
(* Small instances of the execution store for TLC. *)
EXTENDS Execution, TLC

\* Every two bounds overlap, as a directory and a file inside it do.
OverlappingBounds == Resources \X Resources

\* Identifiers are interchangeable, and so are the request ids of a client and
\* bounds that all overlap.
ExecSymmetry ==
  Permutations(SessionIds) \cup Permutations(ClaimIds) \cup
  Permutations(ExecutionIds) \cup Permutations(RequestIds) \cup
  Permutations(Resources)
=============================================================================
