------------------------------ MODULE MCLease ------------------------------
(* Small instances of the lease store for TLC. *)
EXTENDS Lease, TLC

\* Identifiers are interchangeable; scopes, works, actors and clients are not
\* permuted.
IdSymmetry ==
  Permutations(SessionIds) \cup Permutations(ClaimIds)
=============================================================================
