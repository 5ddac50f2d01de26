---------------------------- MODULE Installation ----------------------------
(***************************************************************************)
(* The application database as the migrate role builds it: the revision of   *)
(* its own schema, the tables of the two vendors (the queue and the agents'  *)
(* checkpoints), and what the application role may use of them.              *)
(***************************************************************************)
EXTENDS Naturals

CONSTANTS Head,         \* revisions of the application's schema
          QueueTables,  \* tables of pgqueuer, the first one its queue table
          GraphTables   \* migrations of the checkpoint tables, one table each

ASSUME InstallationAssumption ==
    /\ Head \in Nat \ {0} /\ QueueTables \in Nat \ {0} /\ GraphTables \in Nat \ {0}

VARIABLE db

Vendor == {"pgqueuer", "langgraph"}

TablesOf(vendor, n) == {vendor} \X (1..n)
Table == TablesOf("pgqueuer", QueueTables) \cup TablesOf("langgraph", GraphTables)

Database ==
    [ rev      : 0..Head,             \* alembic_version, 0 without the table
      schemas  : SUBSET Vendor,
      tables   : SUBSET Table,
      recorded : SUBSET (1..GraphTables),  \* checkpoint_migrations
      granted  : SUBSET Table,        \* what the application role may use
      default  : SUBSET Vendor ]      \* whose future tables it may use

(* What the volume's first start leaves, and what a release with fewer      *)
(* revisions and tables left behind.                                        *)
Fresh ==
    [rev |-> 0, schemas |-> {}, tables |-> {}, recorded |-> {}, granted |-> {}, default |-> {}]

Older ==
    LET held == TablesOf("pgqueuer", QueueTables - 1) \cup TablesOf("langgraph", GraphTables - 1)
    IN  [rev |-> Head - 1, schemas |-> Vendor, tables |-> held,
         recorded |-> 1..(GraphTables - 1), granted |-> held, default |-> Vendor]

(* The application can run on it.                                           *)
Installed ==
    /\ db.rev = Head
    /\ db.tables = Table /\ db.recorded = 1..GraphTables
    /\ db.granted = Table /\ db.default = Vendor
-----------------------------------------------------------------------------
(* CREATE: default privileges reach the tables that come after them.        *)
Creates(new) ==
    db' = [db EXCEPT !.tables = @ \cup new,
                     !.granted = @ \cup {t \in new \ db.tables : t[1] \in db.default}]

HasQueueTable == <<"pgqueuer", 1>> \in db.tables

CreatesSchema(vendor) == db' = [db EXCEPT !.schemas = @ \cup {vendor}]

GrantsTables(vendor) ==
    db' = [db EXCEPT !.granted = @ \cup {t \in db.tables : t[1] = vendor}]

GrantsDefault(vendor) == db' = [db EXCEPT !.default = @ \cup {vendor}]

Records(n) == db' = [db EXCEPT !.recorded = @ \cup {n}]

(* alembic upgrade head is one transaction.                                 *)
Upgrades == db' = [db EXCEPT !.rev = Head]

(* _verify_bootstrap_state.                                                 *)
Verified == db.rev > 0 /\ Vendor \subseteq db.schemas
=============================================================================
