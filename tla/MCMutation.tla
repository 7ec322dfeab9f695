----------------------------- MODULE MCMutation -----------------------------
(* A file holds the value of one field, which each proposal sets to its own. *)
EXTENDS Mutation, TLC

CONSTANTS p1, p2, h1, h2, none, original

MCContents == {original, p1, p2}
MCEdit == [p \in {p1, p2} |-> [c \in MCContents |-> p]]
MCSymmetry == Permutations({h1, h2})
=============================================================================
