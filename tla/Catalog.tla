------------------------------ MODULE Catalog ------------------------------
(***************************************************************************)
(* What the catalog promises: import_snapshot is one atomic step over       *)
(* catalog_snapshots and catalog_products.  CatalogIngest runs it statement *)
(* by statement.                                                            *)
(***************************************************************************)
EXTENDS CatalogFiles, Tables

CONSTANTS Policy,       \* values of identity_policy_version
          Time          \* values of source_observed_at

VARIABLES snapshots,    \* content_checksum -> the rest of the snapshot row
          products      \* source identity -> the rest of the product row

vars == <<snapshots, products>>

Snapshot == [ns : Retailer, observed : Time]

(* row: the id of the product, named by the content that first brought it;  *)
(* snap: last_snapshot_id, which stands for the imported facts as well.     *)
ProductRow == [row : Content, snap : Content, policy : Policy]

Init ==
    /\ snapshots = [c \in {} |-> c]
    /\ products = [i \in {} |-> i]

InNamespace(r) == {i \in DOMAIN products : NsOf[i] = r}

(* A known content keeps the snapshot row it has.                           *)
Registered(c, r, time) ==
    IF c \in DOMAIN snapshots THEN snapshots
    ELSE Put(snapshots, c, [ns |-> r, observed |-> time])

(* Mutant: the upsert replaces the row, id included.                        *)
UpsertedAsNew(c, seen, policy) ==
    [i \in DOMAIN products \cup seen |->
        IF i \in seen THEN [row |-> c, snap |-> c, policy |-> policy]
                      ELSE products[i]]

(* ON CONFLICT DO UPDATE leaves the id of the row alone.                    *)
Upserted(c, seen, policy) ==
    [i \in DOMAIN products \cup seen |->
        IF i \in seen
        THEN [row |-> IF i \in DOMAIN products THEN products[i].row ELSE c,
              snap |-> c, policy |-> policy]
        ELSE products[i]]

(* import_snapshot of content c, found for retailer r under filter f.       *)
Import(r, c, f, policy, time) ==
    /\ \A i \in InNamespace(r) : products[i].policy = policy
    /\ snapshots' = Registered(c, r, time)
    /\ products' = Upserted(c, Seen(c, Matched(r, c, f)), policy)

Next ==
    \E r \in Retailer, c \in Content \ Malformed, f \in Filter, policy \in Policy, time \in Time :
        Import(r, c, f, policy, time)

Spec == Init /\ [][Next]_vars
-----------------------------------------------------------------------------
TypeOK ==
    /\ DOMAIN snapshots \subseteq Content
    /\ snapshots \in [DOMAIN snapshots -> Snapshot]
    /\ DOMAIN products \subseteq Identity
    /\ products \in [DOMAIN products -> ProductRow]
    /\ \A i \in DOMAIN products : products[i].snap \in DOMAIN snapshots

(* The products of a retailer are all known under one identity policy:      *)
(* import_snapshot refuses another one.                                     *)
OnePolicy ==
    \A i, j \in DOMAIN products :
        NsOf[i] = NsOf[j] => products[i].policy = products[j].policy

(* "Ingest replaces imported facts only for the products it actually        *)
(* observed" (docs/specs/architecture.md): the facts of a product come from *)
(* a registered file that has exactly one row for it.                       *)
FactsWereObserved ==
    \A i \in DOMAIN products :
        /\ products[i].snap \in DOMAIN snapshots
        /\ \E n \in Unique(NsOf[i], products[i].snap) : Rows[products[i].snap][n] = i

(* A file imported in bulk is imported whole: no product of a registered    *)
(* file is missing, whatever crashed or raced on the way.                   *)
BulkIsWhole ==
    Filter = {Bulk} =>
        \A c \in DOMAIN snapshots :
            Seen(c, Unique(snapshots[c].ns, c)) \subseteq DOMAIN products

(* Snapshots are immutable, and a product keeps its id through every later  *)
(* import: memberships and deferred items refer to it.                      *)
KeepsIds ==
    /\ \A c \in DOMAIN snapshots : c \in DOMAIN snapshots' /\ snapshots'[c] = snapshots[c]
    /\ \A i \in DOMAIN products :
          i \in DOMAIN products' /\ products'[i].row = products[i].row

IdsAreStable == [][KeepsIds]_vars
=============================================================================
