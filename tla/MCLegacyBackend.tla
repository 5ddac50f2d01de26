-------------------------- MODULE MCLegacyBackend --------------------------
EXTENDS LegacyBackend

CONSTANTS p1, p2, x1, x2, apple, lemon, c1, c2

(* The two answers share a product, which then moves.                       *)
Both == [name |-> apple, products |-> {x1, x2}]
One == [name |-> lemon, products |-> {x1}]

MCAnswer == {Both, One}
MCFilter == {{}, {x1, x2}}

Scenario(processes, serial, answers) ==
    [processes |-> processes, serial |-> serial, answers |-> answers, clients |-> {},
     calls |-> {}, browsing |-> FALSE, away |-> {}]

Calls(s, calls) == [s EXCEPT !.clients = {c1, c2}, !.calls = calls]
Browses(s, reasons) == [s EXCEPT !.browsing = TRUE, !.away = reasons]

(* Two overlapping discoveries; two one after the other; one and two        *)
(* clients that save schemas; two clients that register attributes; one and *)
(* the page; one and the page, which may be hidden or lose the network.     *)
MCScenarios ==
    { Scenario({p1, p2}, FALSE, {Both, One}),
      Scenario({p1, p2}, TRUE, {Both, One}),
      Calls(Scenario({p1}, TRUE, {One}), {"latest"}),
      Calls(Scenario({}, TRUE, {}), {"find"}),
      Browses(Scenario({p1}, TRUE, {Both, One}), {}),
      Browses(Scenario({p1}, TRUE, {Both}), {"hidden", "offline"}) }
=============================================================================
