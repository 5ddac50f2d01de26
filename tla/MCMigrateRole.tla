--------------------------- MODULE MCMigrateRole ---------------------------
EXTENDS MigrateRole

CONSTANTS p1, p2, p3

Scenario(commands, processes, older, overlap, orphans) ==
    [commands |-> commands, processes |-> processes, older |-> older,
     overlap |-> overlap, orphans |-> orphans]

(* Migrates one after the other on a new and on an older database, two that  *)
(* overlap or leave a child behind, and the other commands.                 *)
MCScenarios ==
    { Scenario({"migrate"}, {p1, p2, p3}, FALSE, FALSE, FALSE),
      Scenario({"migrate"}, {p1, p2}, TRUE, FALSE, FALSE),
      Scenario({"migrate"}, {p1, p2}, FALSE, TRUE, TRUE),
      Scenario({"migrate"}, {p1, p2}, TRUE, TRUE, TRUE),
      Scenario({"worker", "api", "once"}, {p1}, FALSE, FALSE, FALSE) }
=============================================================================
