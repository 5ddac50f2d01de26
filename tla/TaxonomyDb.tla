----------------------------- MODULE TaxonomyDb -----------------------------
(***************************************************************************)
(* The taxonomy commands as they run against Postgres.  A session is one    *)
(* process of the CLI: it opens a transaction (connect_app, autocommit off, *)
(* so READ COMMITTED), sends its SELECTs one by one, decides in Python from *)
(* what each returned, sends its single INSERT, UPDATE or upsert, and       *)
(* commits.  Every statement is a step of its own; between two of them the  *)
(* other sessions run.  The code takes no lock of its own: what Postgres    *)
(* does is in Conflict (row locks and the one-root index).                  *)
(*                                                                          *)
(* Which commands the operator lets run at the same time is the constant    *)
(* Overlap: {} is "one process touching the DB" (docs/plans/roadmap.md),    *)
(* Op \X Op is no discipline at all.                                        *)
(***************************************************************************)
EXTENDS TaxonomyTree

CONSTANTS Product, Session, Overlap

Op == {"create", "reparent", "assign"}

(* The disciplines the properties below depend on.                          *)
ReparentsAlone == <<"reparent", "reparent">> \notin Overlap
AssignsApart == \A op \in {"create", "reparent"} : <<"assign", op>> \notin Overlap

ASSUME OverlapIsSymmetric ==
    /\ Overlap \subseteq Op \X Op
    /\ \A a, b \in Op : <<a, b>> \in Overlap => <<b, a>> \in Overlap

VARIABLES products, parent, leafOf,     \* the committed rows, as in Taxonomy
          txn                           \* what each session is doing

tables == <<products, parent, leafOf>>
vars == <<products, parent, leafOf, txn>>

Taxon == INSTANCE Taxonomy

categories == DOMAIN parent
Members(c) == {p \in DOMAIN leafOf : leafOf[p] = c}

(* A transaction: the command, the statement it sends next, the row it will *)
(* write (node: the category or product id; target: its new parent or leaf) *)
(* and the "moved" flag assign_product_to_leaf computes on the way.         *)
Step == {"idle", "get_root", "get_category", "get_parent", "list_all",
         "count_members", "exists", "get_leaf", "is_leaf", "get_membership",
         "write", "commit"}

Transaction ==
    [op : Op \cup {"none"}, step : Step, moved : BOOLEAN,
     node : Category \cup Product \cup {NoParent},
     target : Category \cup {NoParent}]

NoTxn == [op |-> "none", step |-> "idle", moved |-> FALSE,
          node |-> NoParent, target |-> NoParent]

Init ==
    /\ products = {}
    /\ parent = [c \in {} |-> NoParent]
    /\ leafOf = [p \in {} |-> NoParent]
    /\ txn = [s \in Session |-> NoTxn]

At(s, op, step) == txn[s].op = op /\ txn[s].step = step

Goto(s, step) ==
    /\ txn' = [txn EXCEPT ![s].step = step]
    /\ UNCHANGED tables

(* The exception leaves the "with connect_app" block: rollback.             *)
Raise(s) ==
    /\ txn' = [txn EXCEPT ![s] = NoTxn]
    /\ UNCHANGED tables

Check(s, holds, step) == IF holds THEN Goto(s, step) ELSE Raise(s)
-----------------------------------------------------------------------------
(* The operator starts a command in an idle session.                        *)
Begin(s, op, first, node, target) ==
    /\ txn[s] = NoTxn
    /\ \A t \in Session \ {s} : txn[t] # NoTxn => <<op, txn[t].op>> \in Overlap
    /\ txn' = [txn EXCEPT ![s] = [op |-> op, step |-> first, moved |-> FALSE,
                                  node |-> node, target |-> target]]
    /\ UNCHANGED tables

(* The id uuid7() will mint: no row and no running command has it.          *)
Fresh(c) ==
    /\ c \notin categories
    /\ \A t \in Session : txn[t].op = "create" => txn[t].node # c

BeginCreate(s, c, p) ==
    /\ Fresh(c)
    /\ Begin(s, "create", IF p = NoParent THEN "get_root" ELSE "get_parent", c, p)

(* A category that is its own new parent is refused before any statement.   *)
BeginReparent(s, c, p) ==
    /\ c # p
    /\ Begin(s, "reparent", "get_category", c, p)

BeginAssign(s, p, leaf) == Begin(s, "assign", "exists", p, leaf)
-----------------------------------------------------------------------------
GetRoot(s) ==
    /\ At(s, "create", "get_root")
    /\ Check(s, Roots(parent) = {}, "write")

GetCategory(s) ==
    /\ At(s, "reparent", "get_category")
    /\ Check(s, txn[s].node \in categories, "get_parent")

(* Mutant: the parent is not looked up.                                     *)
GetParentUnchecked(s) ==
    \/ At(s, "create", "get_parent") /\ Goto(s, "count_members")
    \/ At(s, "reparent", "get_parent") /\ Goto(s, "list_all")

GetParent(s) ==
    \/ /\ At(s, "create", "get_parent")
       /\ Check(s, txn[s].target \in categories, "count_members")
    \/ /\ At(s, "reparent", "get_parent")
       /\ Check(s, txn[s].target \in categories, "list_all")

(* Mutant: the arguments of would_create_cycle swapped.                     *)
CheckCycleSwapped(s) ==
    /\ At(s, "reparent", "list_all")
    /\ Check(s, ~ WouldCreateCycle(parent, txn[s].target, txn[s].node),
             "count_members")

(* list_all and would_create_cycle over the rows it returned.               *)
CheckCycle(s) ==
    /\ At(s, "reparent", "list_all")
    /\ Check(s, ~ WouldCreateCycle(parent, txn[s].node, txn[s].target),
             "count_members")

(* Mutant: the members of the moved category instead of its new parent.     *)
CountMembersOfNode(s) ==
    /\ txn[s].step = "count_members"
    /\ Check(s, Members(txn[s].node) = {}, "write")

CountMembers(s) ==
    /\ txn[s].step = "count_members"
    /\ Check(s, Members(txn[s].target) = {}, "write")

(* _resolve_product_id and products.exists: both look for a row that, once  *)
(* there, stays.                                                            *)
ProductExists(s) ==
    /\ At(s, "assign", "exists")
    /\ Check(s, txn[s].node \in products, "get_leaf")

(* Mutant: the leaf is not looked up.                                       *)
GetLeafUnchecked(s) == At(s, "assign", "get_leaf") /\ Goto(s, "is_leaf")

GetLeaf(s) ==
    /\ At(s, "assign", "get_leaf")
    /\ Check(s, txn[s].target \in categories, "is_leaf")

(* Mutant: any category takes products.                                     *)
CheckLeafDropped(s) == At(s, "assign", "is_leaf") /\ Goto(s, "get_membership")

CheckLeaf(s) ==
    /\ At(s, "assign", "is_leaf")
    /\ Check(s, IsLeaf(parent, txn[s].target), "get_membership")

HasOtherLeaf(p, leaf) == p \in DOMAIN leafOf /\ leafOf[p] # leaf

GetMembership(s) ==
    /\ At(s, "assign", "get_membership")
    /\ txn' = [txn EXCEPT ![s] =
                  [txn[s] EXCEPT !.step = "write",
                                 !.moved = HasOtherLeaf(txn[s].node, txn[s].target)]]
    /\ UNCHANGED tables
-----------------------------------------------------------------------------
(* t has written, not yet committed, what s must wait for: the other root   *)
(* row (unique index), the same category row or the same membership row.    *)
(* Foreign keys only share-lock the row they name, which no UPDATE of       *)
(* parent_id blocks.                                                        *)
AddsRoot(s) == txn[s].op = "create" /\ txn[s].target = NoParent

(* Mutant: a writer that itself waits is waited for.                        *)
ConflictWithWaiting(s, t) ==
    /\ s # t
    /\ txn[t].step \in {"write", "commit"}
    /\ txn[t].op = txn[s].op
    /\ (AddsRoot(s) /\ AddsRoot(t)) \/ txn[t].node = txn[s].node

Conflict(s, t) ==
    /\ s # t
    /\ txn[t].step = "commit"
    /\ txn[t].op = txn[s].op
    /\ (AddsRoot(s) /\ AddsRoot(t)) \/ txn[t].node = txn[s].node

(* Mutant: no one-root index.                                               *)
WriteWithoutIndex(s) ==
    /\ txn[s].step = "write"
    /\ \A t \in Session : ~ Conflict(s, t)
    /\ Goto(s, "commit")

(* The INSERT, UPDATE or upsert, once nothing it waits for is in flight.    *)
(* A second root row is a unique violation.                                 *)
Write(s) ==
    /\ txn[s].step = "write"
    /\ \A t \in Session : ~ Conflict(s, t)
    /\ Check(s, ~ (AddsRoot(s) /\ Roots(parent) # {}), "commit")

Commit(s) ==
    /\ txn[s].step = "commit"
    /\ IF txn[s].op = "assign"
       THEN /\ leafOf' = Put(leafOf, txn[s].node, txn[s].target)
            /\ UNCHANGED parent
       ELSE /\ parent' = Put(parent, txn[s].node, txn[s].target)
            /\ UNCHANGED leafOf
    /\ txn' = [txn EXCEPT ![s] = NoTxn]
    /\ UNCHANGED products

(* The process is killed or loses its connection: Postgres rolls back.      *)
Crash(s) ==
    /\ txn[s] # NoTxn
    /\ Raise(s)

(* Meanwhile an ingest commits a new product.                               *)
Ingest(p) ==
    /\ p \notin products
    /\ products' = products \cup {p}
    /\ UNCHANGED <<parent, leafOf, txn>>
-----------------------------------------------------------------------------
Read(s) ==
    \/ GetRoot(s) \/ GetCategory(s) \/ GetParent(s) \/ CheckCycle(s)
    \/ CountMembers(s)
    \/ ProductExists(s) \/ GetLeaf(s) \/ CheckLeaf(s) \/ GetMembership(s)

Start(s) ==
    \/ \E c \in Category, p \in Category \cup {NoParent} : BeginCreate(s, c, p)
    \/ \E c, p \in Category : BeginReparent(s, c, p)
    \/ \E p \in Product, leaf \in Category : BeginAssign(s, p, leaf)

Next ==
    \/ \E s \in Session : Start(s) \/ Read(s) \/ Write(s) \/ Commit(s) \/ Crash(s)
    \/ \E p \in Product : Ingest(p)

Spec == Init /\ [][Next]_vars

(* A process that runs gets its answers: every statement returns.  Waiting  *)
(* writers queue for the row in Postgres, so none is passed over for ever.  *)
FairSpec ==
    /\ Spec
    /\ \A s \in Session : WF_vars(Read(s)) /\ SF_vars(Write(s)) /\ WF_vars(Commit(s))
-----------------------------------------------------------------------------
TypeOK ==
    /\ Taxon!TypeOK
    /\ txn \in [Session -> Transaction]

(* Whatever overlaps, there is one root: the partial unique index catches   *)
(* the two creates whose get_root both found none, and no other command     *)
(* adds a root or takes the last one away.                                  *)
OneRoot == Taxon!OneRoot

(* Whatever overlaps, the root stays the root: no interleaving lets a       *)
(* reparent of the root past the cycle check.                               *)
RootIsPermanent == [][Roots(parent) # {} => Roots(parent)' = Roots(parent)]_vars

TreeIsAcyclic == Taxon!TreeIsAcyclic
MembersOnLeaves == Taxon!MembersOnLeaves
ShowIsComplete == Taxon!ShowIsComplete

(* Statement by statement the commands do what the atomic ones of Taxonomy  *)
(* do, each taking effect at its commit.                                    *)
Implements == Taxon!Spec

(* Every command that was started ends: no session waits for ever.          *)
CommandsEnd == \A s \in Session : txn[s] # NoTxn ~> txn[s] = NoTxn
=============================================================================
