------------------------------- MODULE MCFacade --------------------------------
EXTENDS Facade, TLC

CONSTANTS r1, r2, A, B, X, none, broken, nobody

\* Upstream 1 is redefined and upstream 2 leaves or comes back.
MCLayouts == {1 :> A @@ 2 :> X, 1 :> B @@ 2 :> none}

MCLayouts1 == {1 :> A, 1 :> B}

Idents == Permutations(Requests)
================================================================================
