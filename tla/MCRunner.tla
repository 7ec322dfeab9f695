------------------------------ MODULE MCRunner ------------------------------
(* Small instances of the reference runner for TLC. *)
EXTENDS Runner, TLC

CONSTANTS e1, e2, e3, work, old, new

At(epoch, fence) == [work |-> work, epoch |-> epoch, fence |-> fence]

\* Two executions from before a restore, the second with a fence far ahead of
\* the restored counter, and one from after it.
RestoredDeliveries ==
  [e \in Executions |-> CASE e = e1 -> At(old, 1) [] e = e2 -> At(old, 3) [] e = e3 -> At(new, 2)]

\* The barrier of the restore, and a late one of the epoch it left.
RestoreBarriers == {At(new, 1), At(old, 2)}

HandlerSymmetry == Permutations(Handlers)
=============================================================================
