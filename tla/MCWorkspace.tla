---------------------------- MODULE MCWorkspace -----------------------------
(* One path is shared in the beginning, the other is not yet. *)
EXTENDS Workspace, TLC

CONSTANTS p1, p2, v0, v1, h1, h2, none

MCShared == (p1 :> v0) @@ (p2 :> none)
MCOne == (p1 :> v0)
MCSymmetry == Permutations({h1, h2})
=============================================================================
