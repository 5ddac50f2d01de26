---------------------------- MODULE MCTaxonomyDb ----------------------------
(* Instances of TaxonomyDb for TLC: the overlaps to allow, and symmetry.    *)
EXTENDS TaxonomyDb, TLC

Symmetry ==
    Permutations(Category) \cup Permutations(Product) \cup Permutations(Session)

AnyOverlap == Op \X Op

RaceFree ==
    AnyOverlap \ {<<"reparent", "reparent">>,
                  <<"assign", "create">>, <<"create", "assign">>,
                  <<"assign", "reparent">>, <<"reparent", "assign">>}

OneAssign == AnyOverlap \ {<<"assign", "assign">>}

TwoReparents == {<<"reparent", "reparent">>}
AssignAndCreate == {<<"assign", "create">>, <<"create", "assign">>}
=============================================================================
