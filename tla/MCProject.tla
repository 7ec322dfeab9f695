----------------------------- MODULE MCProject -----------------------------
(* Small instances of a project's lifecycle for TLC. *)
EXTENDS Project, TLC

NoConflicts == {}

\* Identifiers are interchangeable, and so are the request ids of a client.
ProjectSymmetry ==
  Permutations(SessionIds) \cup Permutations(ClaimIds) \cup Permutations(RequestIds)
=============================================================================
