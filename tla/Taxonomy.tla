------------------------------ MODULE Taxonomy ------------------------------
(***************************************************************************)
(* What the taxonomy promises: every command of taxonomy/commands.py is one *)
(* atomic step over the tables taxonomy_categories, taxonomy_memberships    *)
(* and catalog_products.  A refused command raises before it writes, so it  *)
(* is a stuttering step here.  TaxonomyDb runs the same commands statement  *)
(* by statement and says when it implements this module.                    *)
(***************************************************************************)
EXTENDS TaxonomyTree

CONSTANT Product        \* ids of catalog products

VARIABLES products,     \* rows of catalog_products
          parent,       \* category id -> parent_id, per row of taxonomy_categories
          leafOf        \* product id -> category_id, per row of taxonomy_memberships

vars == <<products, parent, leafOf>>

categories == DOMAIN parent

Members(c) == {p \in DOMAIN leafOf : leafOf[p] = c}

Init ==
    /\ products = {}
    /\ parent = [c \in {} |-> NoParent]
    /\ leafOf = [p \in {} |-> NoParent]

(* Ingest registers a product it has not seen before (CatalogIngest has the *)
(* rest of that component); nothing ever deletes one.                       *)
Ingest(p) ==
    /\ p \notin products
    /\ products' = products \cup {p}
    /\ UNCHANGED <<parent, leafOf>>

(* create_category: a root when there is none, or a child of a category     *)
(* that holds no products.                                                  *)
CreateCategory(c, p) ==
    /\ c \notin categories
    /\ IF p = NoParent THEN Roots(parent) = {}
                       ELSE p \in categories /\ Members(p) = {}
    /\ parent' = Put(parent, c, p)
    /\ UNCHANGED <<products, leafOf>>

(* reparent_category.                                                       *)
ReparentCategory(c, p) ==
    /\ c # p
    /\ c \in categories
    /\ p \in categories
    /\ ~ WouldCreateCycle(parent, c, p)
    /\ Members(p) = {}
    /\ parent' = Put(parent, c, p)
    /\ UNCHANGED <<products, leafOf>>

(* assign_product_to_leaf: the upsert moves a product that has a leaf.      *)
AssignProduct(p, leaf) ==
    /\ p \in products
    /\ leaf \in categories
    /\ IsLeaf(parent, leaf)
    /\ leafOf' = Put(leafOf, p, leaf)
    /\ UNCHANGED <<products, parent>>

Next ==
    \/ \E p \in Product : Ingest(p)
    \/ \E c \in Category, p \in Category \cup {NoParent} : CreateCategory(c, p)
    \/ \E c, p \in Category : ReparentCategory(c, p)
    \/ \E p \in Product, leaf \in Category : AssignProduct(p, leaf)

Spec == Init /\ [][Next]_vars
-----------------------------------------------------------------------------
(* The tables hold rows of the right kind, and no row refers to a missing   *)
(* one: the two foreign keys of migration 003.                              *)
TypeOK ==
    /\ products \subseteq Product
    /\ categories \subseteq Category
    /\ parent \in [categories -> categories \cup {NoParent}]
    /\ DOMAIN leafOf \subseteq products
    /\ leafOf \in [DOMAIN leafOf -> categories]

(* "One rooted tree" (docs/specs/architecture.md, Taxonomy): once there are *)
(* categories exactly one is a root, and no parent chain runs in a circle.  *)
OneRoot ==
    /\ \A c, d \in Roots(parent) : c = d
    /\ categories # {} => Roots(parent) # {}

TreeIsAcyclic == Acyclic(parent)

(* Products sit on leaves only: create and reparent refuse to demote a      *)
(* membered category, assign refuses a category with children.              *)
MembersOnLeaves == \A p \in DOMAIN leafOf : IsLeaf(parent, leafOf[p])

(* "taxonomy show" leaves no category out: each is met by the walk of       *)
(* format_taxonomy_tree from the root.                                      *)
ShowIsComplete == Shown(parent) = categories

(* The root, once created, is the root for ever: every other category is    *)
(* below it, so that reparenting it always is a cycle.                      *)
RootIsPermanent == [][Roots(parent) # {} => Roots(parent)' = Roots(parent)]_vars
=============================================================================
