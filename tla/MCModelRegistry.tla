---------------------------- MODULE MCModelRegistry ----------------------------
(* A small instance of ModelRegistry: two providers with a model each, a third  *)
(* provider and model to be made, and two batches over two signals under a      *)
(* bound and a free version.                                                    *)
EXTENDS ModelRegistry, TLC

CONSTANTS m1, m2, m3, p1, p2, p3, bound, free

TwoProviders == [m \in {m1, m2, m3} |-> IF m = m2 THEN p2 ELSE p1]
MadeVersions == [m \in {m1, m2} |-> IF m = m1 THEN bound ELSE free]
AllVersions == {bound, free}
BoundVersions == {bound}

Symmetry == Permutations(Signals) \union Permutations(Batches) \union Permutations(Names)
            \union Permutations(Urls)
=============================================================================
