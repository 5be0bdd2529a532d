--------------------------- MODULE MCPackFailover ---------------------------
(***************************************************************************)
(* Two processes, and a Pack that is edited to its next version, to one    *)
(* that is blocked, or back.                                               *)
(***************************************************************************)
EXTENDS PackFailover

SpecFor(body, refsOK) ==
    [target |-> "ske", namespace |-> "", pipeline |-> FALSE,
     manifest |-> [parses |-> TRUE, refsOK |-> refsOK, name |-> "pay",
                   dashboards |-> <<>>, body |-> body]]

Created == {SpecFor(1, TRUE), SpecFor(3, FALSE)}
FailoverSpecs == {SpecFor(1, TRUE), SpecFor(2, TRUE), SpecFor(3, FALSE)}
=============================================================================
