-------------------------- MODULE MCRecipeSession --------------------------
(* Constants of the TLC runs of RecipeSession.                             *)
EXTENDS RecipeSession, TLC

CONSTANTS f, g

TwoNames == {f, g}
OneName == {f}

\* Numbers that are a multiple of a batch of two and that are not, each of two kinds.
FewBatches == {<<"file", 2>>, <<"file", 3>>, <<"secure", 2>>, <<"key", 3>>}

Symm == Permutations(Name)
=============================================================================
