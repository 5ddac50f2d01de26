--------------------------- MODULE LegacyTables ---------------------------
(***************************************************************************)
(* The tables of the legacy backend that its parts share.  A category is     *)
(* named by its unique name; categories are never deleted.                   *)
(***************************************************************************)
EXTENDS Naturals, Sequences, FiniteSets, Tables

CONSTANTS Product,      \* rows of products
          Name,         \* names a category can have
          NoCategory    \* a null category_id, and the page's id 0

ASSUME LegacyTablesAssumption == IsFiniteSet(Product) /\ NoCategory \notin Name

VARIABLES categoryOf,   \* products.category_id
          count         \* categories: name |-> product_count

legacyTables == <<categoryOf, count>>

InitTables ==
    /\ categoryOf = [x \in Product |-> NoCategory]
    /\ count = [n \in {} |-> 0]

Categories == DOMAIN count
Members(n) == {x \in Product : categoryOf[x] = n}

TablesTyped ==
    /\ Categories \subseteq Name
    /\ count \in [Categories -> Nat]
    /\ categoryOf \in [Product -> Categories \cup {NoCategory}]
=============================================================================
