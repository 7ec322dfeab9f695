-------------------------- MODULE MCResourceBounds --------------------------
(* A small tree of paths, with the spellings that give such code trouble. *)
EXTENDS ResourceBounds, TLC

Spellings ==
  { <<"a">>, <<"a", "b">>, <<"a", "c">>, <<"a", "b", "c">>, \* plain
    <<".", "a">>, <<"a", "", "b">>,                             \* aliases
    <<"", "a">>, <<"a", "..", "b">>, <<".">>, <<"">> }      \* absolute, parent, empty

ExecutionSymmetry == Permutations(Executions)
=============================================================================
