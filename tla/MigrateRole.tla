----------------------------- MODULE MigrateRole -----------------------------
(***************************************************************************)
(* run_migrate: ready waits, alembic in a subprocess, the two vendors'       *)
(* schemas, the grants, ready waits again and a last look.  Each statement   *)
(* is a transaction of its own; a run may stop after any of them, and other  *)
(* runs may come after it or overlap it.                                     *)
(***************************************************************************)
EXTENDS RoleProcess

vars == <<db, scenario, proc>>

Init ==
    /\ scenario \in Scenarios
    /\ db \in (IF scenario.older THEN {Older} ELSE {Fresh})
    /\ proc = [p \in Process |-> Off]

(* What comes after each wait.                                              *)
AfterWait ==
    [database |-> "databases", databases |-> "alembic",
     phoenixDatabase |-> "phoenixHttp", phoenixHttp |-> "verify"]

(* The waits and the look at pg_database: they pass, or raise a             *)
(* MigrateError when they have run out of attempts.                         *)
Wait(p) ==
    /\ \E step \in DOMAIN AfterWait :
          /\ Runs(p, step)
          /\ To(p, AfterWait[step]) \/ Fails(p, "notReady")
    /\ UNCHANGED db

(* The alembic subprocess reads the revision, ...                           *)
StartAlembic(p) ==
    /\ Runs(p, "alembic") /\ proc[p].child = "none"
    /\ proc' = [proc EXCEPT ![p] =
                   [proc[p] EXCEPT !.child = "running", !.read = db.rev]]
    /\ UNCHANGED db

(* ... and commits every revision above it at once.  It fails if another    *)
(* has made them meanwhile.                                                 *)
EndAlembic(p) ==
    /\ proc[p].child = "running"
    /\ IF proc[p].read = db.rev
       THEN Upgrades /\ proc' = [proc EXCEPT ![p].child = "done"]
       ELSE UNCHANGED db /\ proc' = [proc EXCEPT ![p].child = "conflict"]

AlembicReturns(p) ==
    /\ Runs(p, "alembic") /\ proc[p].child \in {"done", "conflict", "lost"}
    /\ IF proc[p].child = "done"
       THEN proc' = [proc EXCEPT ![p] =
                        [proc[p] EXCEPT !.step = "hasTable", !.child = "none"]]
       ELSE Fails(p, proc[p].child)
    /\ UNCHANGED db
-----------------------------------------------------------------------------
(* Mutant: an installation that is there is not upgraded.                   *)
HasTableOnly(p) ==
    /\ Runs(p, "hasTable")
    /\ To(p, IF HasQueueTable THEN "graphSchema" ELSE "install")
    /\ UNCHANGED db

(* _install_pgqueuer                                                        *)
HasTable(p) ==
    /\ Runs(p, "hasTable")
    /\ To(p, IF HasQueueTable THEN "upgrade" ELSE "install")
    /\ UNCHANGED db

(* One query with every CREATE in it.                                       *)
Install(p) ==
    /\ Runs(p, "install")
    /\ IF \E t \in db.tables : t[1] = "pgqueuer"
       THEN Fails(p, "conflict") /\ UNCHANGED db
       ELSE /\ db' = [db EXCEPT !.schemas = @ \cup {"pgqueuer"},
                                !.tables = @ \cup TablesOf("pgqueuer", QueueTables)]
            /\ To(p, "upgrade")

MissingQueueTables == TablesOf("pgqueuer", QueueTables) \ db.tables

(* IF NOT EXISTS, one by one.                                               *)
Upgrade(p) ==
    /\ Runs(p, "upgrade")
    /\ \/ \E t \in MissingQueueTables : Creates({t}) /\ UNCHANGED proc
       \/ MissingQueueTables = {} /\ To(p, "graphSchema") /\ UNCHANGED db

(* _install_langgraph_async                                                 *)
GraphSchema(p) ==
    /\ Runs(p, "graphSchema")
    /\ CreatesSchema("langgraph") /\ To(p, "graphVersion")

(* setup: the highest migration recorded is read once, ...                  *)
NextMigration(p, n) ==
    proc' = [proc EXCEPT ![p] =
        [proc[p] EXCEPT !.step = IF n > GraphTables THEN "grantQueue" ELSE "graphMigrate",
                        !.next = n]]

(* Mutant: what is recorded is not read.                                    *)
GraphFromStart(p) ==
    /\ Runs(p, "graphVersion") /\ NextMigration(p, 1) /\ UNCHANGED db

GraphVersion(p) ==
    /\ Runs(p, "graphVersion")
    /\ \E n \in 0..GraphTables :
          /\ \A m \in db.recorded : m <= n
          /\ n \in db.recorded \cup {0}
          /\ NextMigration(p, n + 1)
    /\ UNCHANGED db

(* ... and each later one is made (IF NOT EXISTS), then recorded.           *)
GraphMigrate(p) ==
    /\ Runs(p, "graphMigrate")
    /\ Creates({<<"langgraph", proc[p].next>>}) /\ To(p, "graphRecord")

GraphRecord(p) ==
    /\ Runs(p, "graphRecord")
    /\ IF proc[p].next \in db.recorded
       THEN Fails(p, "conflict") /\ UNCHANGED db
       ELSE Records(proc[p].next) /\ NextMigration(p, proc[p].next + 1)
-----------------------------------------------------------------------------
(* _grant_vendor_schema_privileges: the tables there are, then the default  *)
(* for those to come.                                                       *)
Grant(p) ==
    \/ Runs(p, "grantQueue") /\ GrantsTables("pgqueuer") /\ To(p, "defaultQueue")
    \/ Runs(p, "defaultQueue") /\ GrantsDefault("pgqueuer") /\ To(p, "grantGraph")
    \/ Runs(p, "grantGraph") /\ GrantsTables("langgraph") /\ To(p, "defaultGraph")
    \/ Runs(p, "defaultGraph") /\ GrantsDefault("langgraph") /\ To(p, "phoenixDatabase")

Verify(p) ==
    /\ Runs(p, "verify")
    /\ IF Verified THEN Ends(p, "ok", "none", 0) ELSE Fails(p, "incomplete")
    /\ UNCHANGED db

(* The steps that hold a connection.                                        *)
Connected ==
    {"hasTable", "install", "upgrade", "graphSchema", "graphVersion", "graphMigrate",
     "graphRecord", "grantQueue", "defaultQueue", "grantGraph", "defaultGraph", "verify"}

LoseConnection(p) ==
    /\ \/ At(p, "body") /\ proc[p].step \in Connected /\ Fails(p, "lost")
       \/ proc[p].child = "running" /\ proc' = [proc EXCEPT ![p].child = "lost"]
    /\ UNCHANGED db

MigrateStep(p) ==
    \/ Wait(p) \/ StartAlembic(p) \/ AlembicReturns(p)
    \/ HasTable(p) \/ Install(p) \/ Upgrade(p)
    \/ GraphSchema(p) \/ GraphVersion(p) \/ GraphMigrate(p) \/ GraphRecord(p)
    \/ Grant(p) \/ Verify(p)

Next ==
    /\ \E p \in Process :
          \/ (\E command \in Command : Start(p, command)) /\ UNCHANGED db
          \/ MainStep(p) /\ UNCHANGED db
          \/ MigrateStep(p) \/ EndAlembic(p) \/ LoseConnection(p)
          \/ (Signal(p) \/ Kill(p) \/ ServeFails(p)) /\ UNCHANGED db
    /\ UNCHANGED scenario

Spec == Init /\ [][Next]_vars

-----------------------------------------------------------------------------
(* A migrate that exits 0, and was not told to stop, leaves a database the  *)
(* application can run on, whatever runs were killed before it, at whatever *)
(* statement, and whatever other run overlapped it.                         *)
OkMeansInstalled ==
    \A p \in Process :
        /\ At(p, "exited") /\ proc[p].command = "migrate"
        /\ proc[p].code = 0 /\ proc[p].hit = {}
        => Installed

(* Migrate can be run again: one at a time, no run trips over what an       *)
(* earlier one, stopped at any statement, or an older release left.         *)
RerunNeverConflicts ==
    ~ scenario.overlap /\ ~ scenario.orphans =>
        \A p \in Process : proc[p].why \notin {"conflict", "incomplete"}

(* One signal costs no spans once a command runs: a process that exits has  *)
(* shut its adapter down, unless a signal came while it was being set up or *)
(* shut down.                                                               *)
SpansAreFlushed ==
    \A p \in Process :
        At(p, "exited") /\ proc[p].hit \subseteq {"body"} =>
            proc[p].telemetry \in {"none", "down"}
=============================================================================
