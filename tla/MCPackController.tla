-------------------------- MODULE MCPackController --------------------------
(***************************************************************************)
(* Small instances of PackController: sets of specs chosen so that every   *)
(* outcome of the core, every target and the edits between them occur.     *)
(***************************************************************************)
EXTENDS PackController, PackClaims, PackInvariant

Manifest(dashboards, body) ==
    [parses |-> TRUE, refsOK |-> TRUE, name |-> "pay",
     dashboards |-> dashboards, body |-> body]

SpecFor(target, manifest) ==
    [target |-> target, namespace |-> "", pipeline |-> TRUE, manifest |-> manifest]

\* A pack, and its next version without the dashboard.
SpecV1 == SpecFor("ske", Manifest(<<"d">>, 1))
SpecV2 == SpecFor("bare-k8s", Manifest(<<>>, 2))

SpecAzure   == SpecFor("azure", Manifest(<<"d">>, 1))
SpecAzureV2 == SpecFor("azure", Manifest(<<>>, 2))
SpecDangles == SpecFor("ske", [Manifest(<<"d">>, 3) EXCEPT !.refsOK = FALSE])
SpecInvalid == SpecFor("ske", [Manifest(<<>>, 4) EXCEPT !.name = ""])

\* The rendered objects go to a namespace that is not the Pack's.
SpecForeign == [SpecV1 EXCEPT !.namespace = "monitoring"]

\* Two dashboards: one of them may fail while the other is applied.
SpecTwoDashboards == SpecFor("ske", Manifest(<<"d", "e">>, 1))

\* The API server has no use for the first of them.
FirstDashboard == {Object(SpecTwoDashboards, "GrafanaDashboard", <<"pay", "d">>)}

VerdictSpecs  ==
    {SpecV1, SpecAzure, SpecAzureV2, SpecDangles, SpecInvalid}
AzureSpecs    == {SpecAzure, SpecV2, SpecDangles}
SettlingSpecs == {SpecTwoDashboards, SpecV2, SpecDangles}
ForeignSpecs  == {SpecForeign}
=============================================================================
