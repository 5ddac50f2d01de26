------------------------------ MODULE CycleWalk ------------------------------
(***************************************************************************)
(* The loop of would_create_cycle (taxonomy/tree.py), one iteration per     *)
(* step.  It starts from any parent map at all, since the rows it is given  *)
(* may already be corrupt, and from any pair of categories, known or not.   *)
(***************************************************************************)
EXTENDS TaxonomyTree

VARIABLES parents, category, newParent,     \* the arguments, never written
          current, seen,                    \* the locals of the loop
          result                            \* "running" until it returns

arguments == <<parents, category, newParent>>
vars == <<parents, category, newParent, current, seen, result>>

ParentMaps ==
    UNION {[known -> Category \cup {NoParent}] : known \in SUBSET Category}

(* Mutant: the walk starts one category too high.                           *)
InitAtParent ==
    /\ parents \in ParentMaps
    /\ category \in Category
    /\ newParent \in Category
    /\ current = ParentOf(parents, newParent)
    /\ seen = {}
    /\ result = "running"

Init ==
    /\ parents \in ParentMaps
    /\ category \in Category
    /\ newParent \in Category
    /\ current = newParent
    /\ seen = {}
    /\ result = "running"

(* "return True": the walk met the category, or a category it has met.      *)
ReturnTrue ==
    /\ current # NoParent
    /\ current = category \/ current \in seen
    /\ result' = "cycle"
    /\ UNCHANGED <<current, seen>>

(* Mutant: the walk goes on without the seen set.                           *)
AdvanceForgetful ==
    /\ current # NoParent
    /\ current # category
    /\ current' = ParentOf(parents, current)
    /\ UNCHANGED <<seen, result>>

(* One more category towards the root.                                      *)
Advance ==
    /\ current # NoParent
    /\ current # category
    /\ current \notin seen
    /\ seen' = seen \cup {current}
    /\ current' = ParentOf(parents, current)
    /\ UNCHANGED result

(* Mutant: a category met twice ends the walk as the root does.             *)
ReturnFalseOnRepeat ==
    /\ current = NoParent \/ current \in seen
    /\ result' = "safe"
    /\ UNCHANGED <<current, seen>>

(* "return False": the walk left the tree at the top.                       *)
ReturnFalse ==
    /\ current = NoParent
    /\ result' = "safe"
    /\ UNCHANGED <<current, seen>>

Next ==
    /\ result = "running"
    /\ ReturnTrue \/ Advance \/ ReturnFalse
    /\ UNCHANGED arguments

Spec == Init /\ [][Next]_vars /\ WF_vars(Next)
-----------------------------------------------------------------------------
(* Every variable keeps its type: the walk never leaves the ids it was      *)
(* given and the ids its rows name.                                         *)
TypeOK ==
    /\ parents \in ParentMaps
    /\ category \in Category
    /\ newParent \in Category
    /\ current \in Category \cup {NoParent}
    /\ seen \subseteq Category
    /\ result \in {"running", "cycle", "safe"}

(* The answer of the loop is the answer of the set definition the database  *)
(* modules use, for corrupt maps as well as for trees.                      *)
AnswerIsWouldCreateCycle ==
    /\ result = "cycle" => WouldCreateCycle(parents, category, newParent)
    /\ result = "safe" => ~ WouldCreateCycle(parents, category, newParent)

(* What the caller needs of it: over an acyclic tree with no dangling       *)
(* parent, it answers False exactly when writing the edge keeps the tree    *)
(* acyclic ("would create a cycle", docstring of would_create_cycle).       *)
AnswerDecidesTheWrite ==
    Acyclic(parents) /\ Closed(parents, DOMAIN parents)
        /\ category \in DOMAIN parents /\ newParent \in DOMAIN parents =>
        LET written == Put(parents, category, newParent)
        IN  /\ result = "cycle" => ~ Acyclic(written)
            /\ result = "safe" => Acyclic(written)

(* The loop ends on every map, a cyclic one included.                       *)
Terminates == <>(result # "running")
=============================================================================
