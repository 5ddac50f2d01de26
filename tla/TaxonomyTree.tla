---------------------------- MODULE TaxonomyTree ----------------------------
(***************************************************************************)
(* The pure tree helpers of taxonomy/tree.py.  A tree is its parent map: a  *)
(* function from the ids of the existing categories to their parent_id,     *)
(* NoParent standing for None (SQL NULL).  Nothing here is recursive: a     *)
(* path is described by the sets of categories closed under "parent of", so *)
(* that the definitions can be reasoned about for trees of every size.      *)
(***************************************************************************)

EXTENDS Tables

CONSTANTS NoParent,
          Category      \* ids of categories, in the table or not yet

ASSUME NoParentIsNoCategory == NoParent \notin Category

(* parents.get(c): None for an id that is not in the map.                   *)
ParentOf(parents, c) == IF c \in DOMAIN parents THEN parents[c] ELSE NoParent

(* children_map(categories)[c]; c = NoParent gives the roots.               *)
Children(parents, c) == {d \in DOMAIN parents : parents[d] = c}

Roots(parents) == Children(parents, NoParent)

(* is_leaf: no category names c as its parent.                              *)
IsLeaf(parents, c) == Children(parents, c) = {}

(* The ids a walk can meet: the known categories and the parents they name. *)
Named(parents) ==
    DOMAIN parents \cup ({parents[c] : c \in DOMAIN parents} \ {NoParent})

(* P holds the ancestors of each of its members.                            *)
Closed(parents, P) == \A c \in P : ParentOf(parents, c) \in P \cup {NoParent}

(* No walk towards the root can stay inside P for ever: every nonempty      *)
(* subset has a member whose parent is outside it.                          *)
WellFounded(parents, P) ==
    \A S \in SUBSET P : S # {} => \E c \in S : ParentOf(parents, c) \notin S

Acyclic(parents) == WellFounded(parents, DOMAIN parents)

(* would_create_cycle: the walk from newParent meets category, or runs in a *)
(* circle of its own.  It does neither when newParent and its ancestors are *)
(* a well-founded set without category.  CycleWalk models the loop itself.  *)
SafeParent(parents, category, newParent) ==
    \E P \in SUBSET (Named(parents) \cup {newParent}) :
        /\ newParent \in P
        /\ category \notin P
        /\ Closed(parents, P)
        /\ WellFounded(parents, P)

WouldCreateCycle(parents, category, newParent) ==
    ~ SafeParent(parents, category, newParent)

(* The categories format_taxonomy_tree prints: those its walk meets, going  *)
(* down from the roots through children_map.                                *)
Shown(parents) ==
    {c \in DOMAIN parents :
        \A S \in SUBSET DOMAIN parents :
            /\ Roots(parents) \subseteq S
            /\ \A d \in S : Children(parents, d) \subseteq S
            => c \in S}
=============================================================================
