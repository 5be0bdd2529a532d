--------------------------- MODULE MCPackTenancy ----------------------------
(***************************************************************************)
(* Two small instances of PackTenancy: Packs whose names are apart, though *)
(* a dashboard of each has the same ID, and Packs whose names are not.     *)
(***************************************************************************)
EXTENDS PackTenancy

Manifest(name, dashboards) == [name |-> name, dashboards |-> dashboards]

Vocabulary == {"pay", "web", "a", "b", "c", "d", "gateway"}

Pair == {"p", "q"}

ApartSpecs ==
    [k \in Pair |->
        IF k = "p"
        THEN {Manifest(<<"pay">>, {<<"d">>}), Manifest(<<"pay">>, {})}
        ELSE {Manifest(<<"web">>, {<<"d">>})}]

\* pack-a-b-c is a dashboard of both.
NestedSpecs ==
    [k \in Pair |->
        IF k = "p"
        THEN {Manifest(<<"a">>, {<<"b", "c">>})}
        ELSE {Manifest(<<"a", "b">>, {<<"c">>})}]
=============================================================================
