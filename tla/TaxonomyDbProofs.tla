-------------------------- MODULE TaxonomyDbProofs --------------------------
(***************************************************************************)
(* The taxonomy commands statement by statement, for any number of sessions,*)
(* categories and products.  First what holds whatever overlaps, then what  *)
(* each excluded overlap buys, then the refinement of Taxonomy.             *)
(***************************************************************************)
EXTENDS TaxonomyDb, TaxonomyTreeProofs

(* What a running command has made sure of, and nobody can undo: rows are   *)
(* never deleted, and no two creates have the same new id.                  *)
CreateKnows(s) ==
    /\ txn[s].step \in {"get_root", "get_parent", "count_members", "write", "commit"}
    /\ txn[s].node \in Category \ categories
    /\ txn[s].step = "get_root" => txn[s].target = NoParent
    /\ txn[s].step \in {"count_members", "write", "commit"} =>
            txn[s].target \in categories \cup {NoParent}
    /\ \A t \in Session \ {s} : txn[t].op = "create" => txn[t].node # txn[s].node

ReparentKnows(s) ==
    /\ txn[s].step \in {"get_category", "get_parent", "list_all", "count_members",
                        "write", "commit"}
    /\ txn[s].node \in Category
    /\ txn[s].target \in Category
    /\ txn[s].step # "get_category" => txn[s].node \in categories
    /\ txn[s].step \in {"list_all", "count_members", "write", "commit"} =>
            txn[s].target \in categories

AssignKnows(s) ==
    /\ txn[s].step \in {"exists", "get_leaf", "is_leaf", "get_membership",
                        "write", "commit"}
    /\ txn[s].node \in Product
    /\ txn[s].target \in Category
    /\ txn[s].step # "exists" => txn[s].node \in products
    /\ txn[s].step \in {"is_leaf", "get_membership", "write", "commit"} =>
            txn[s].target \in categories

Knows(s) ==
    /\ txn[s].op = "none" => txn[s] = NoTxn
    /\ txn[s].op = "create" => CreateKnows(s)
    /\ txn[s].op = "reparent" => ReparentKnows(s)
    /\ txn[s].op = "assign" => AssignKnows(s)

Typed == TypeOK /\ \A s \in Session : Knows(s)

(* The helpers Taxonomy takes from TaxonomyTree are the ones used here.     *)
LEMMA SameTree ==
    ASSUME NEW parents, NEW c, NEW p
    PROVE  /\ Taxon!Put(parents, c, p) = Put(parents, c, p)
           /\ Taxon!Roots(parents) = Roots(parents)
           /\ Taxon!IsLeaf(parents, c) <=> IsLeaf(parents, c)
           /\ Taxon!Acyclic(parents) <=> Acyclic(parents)
           /\ Taxon!WouldCreateCycle(parents, c, p) <=> WouldCreateCycle(parents, c, p)
           /\ Taxon!Shown(parents) = Shown(parents)
           /\ Taxon!Members(c) = Members(c)
           /\ Taxon!categories = categories
<1>. USE DEF Taxon!Children, Children, Taxon!ParentOf, ParentOf,
             Taxon!WellFounded, WellFounded, Taxon!Closed, Closed, Taxon!Named, Named
<1>1. Taxon!Put(parents, c, p) = Put(parents, c, p)
  BY DEF Taxon!Put, Put
<1>2. Taxon!Roots(parents) = Roots(parents)
  BY DEF Taxon!Roots, Roots
<1>3. Taxon!IsLeaf(parents, c) <=> IsLeaf(parents, c)
  BY DEF Taxon!IsLeaf, IsLeaf
<1>4. Taxon!Acyclic(parents) <=> Acyclic(parents)
  BY DEF Taxon!Acyclic, Acyclic
<1>5. Taxon!WouldCreateCycle(parents, c, p) <=> WouldCreateCycle(parents, c, p)
  BY DEF Taxon!WouldCreateCycle, WouldCreateCycle, Taxon!SafeParent, SafeParent
<1>6. Taxon!Shown(parents) = Shown(parents)
  BY <1>2 DEF Taxon!Shown, Shown
<1>7. Taxon!Members(c) = Members(c) /\ Taxon!categories = categories
  BY DEF Taxon!Members, Members, Taxon!categories, categories
<1>. QED  BY <1>1, <1>2, <1>3, <1>4, <1>5, <1>6, <1>7

(* A step that only moves one session on.                                   *)
Quiet(s) == UNCHANGED tables /\ \A t \in Session \ {s} : txn'[t] = txn[t]

LEMMA InitTyped == Init => Typed
BY DEF Init, Typed, TypeOK, Taxon!TypeOK, Taxon!categories, Transaction, NoTxn,
       Step, Op, Knows

LEMMA StartTyped ==
    ASSUME Typed, NEW s \in Session, Start(s)
    PROVE  Typed' /\ Quiet(s)
<1>. USE DEF Typed, TypeOK, Transaction, Quiet, Knows, tables, categories, Op, Step
<1>1. ASSUME NEW c \in Category, NEW p \in Category \cup {NoParent}, BeginCreate(s, c, p)
      PROVE  Typed' /\ Quiet(s)
  BY <1>1 DEF BeginCreate, Begin, Fresh, NoTxn, CreateKnows, ReparentKnows, AssignKnows,
              Taxon!TypeOK, Taxon!categories
<1>2. ASSUME NEW c \in Category, NEW p \in Category, BeginReparent(s, c, p)
      PROVE  Typed' /\ Quiet(s)
  BY <1>2 DEF BeginReparent, Begin, NoTxn, CreateKnows, ReparentKnows, AssignKnows,
              Taxon!TypeOK, Taxon!categories
<1>3. ASSUME NEW p \in Product, NEW leaf \in Category, BeginAssign(s, p, leaf)
      PROVE  Typed' /\ Quiet(s)
  BY <1>3 DEF BeginAssign, Begin, NoTxn, CreateKnows, ReparentKnows, AssignKnows,
              Taxon!TypeOK, Taxon!categories
<1>. QED  BY <1>1, <1>2, <1>3 DEF Start

LEMMA RaiseTyped ==
    ASSUME Typed, NEW s \in Session, Raise(s)
    PROVE  Typed' /\ Quiet(s)
BY DEF Typed, TypeOK, Transaction, Quiet, Knows, tables, categories, Op, Step, Raise,
       NoTxn, CreateKnows, ReparentKnows, AssignKnows, Taxon!TypeOK, Taxon!categories

LEMMA GotoFields ==
    ASSUME Typed, NEW s \in Session, NEW step \in Step, Goto(s, step)
    PROVE  /\ txn'[s].step = step
           /\ txn'[s].op = txn[s].op
           /\ txn'[s].node = txn[s].node
           /\ txn'[s].target = txn[s].target
           /\ txn'[s] \in Transaction
           /\ Quiet(s)
           /\ categories' = categories
BY DEF Typed, TypeOK, Transaction, Quiet, tables, categories, Goto

(* Going on to the next statement is typed when the command now knows what  *)
(* the statement relies on.                                                 *)
LEMMA GotoTyped ==
    ASSUME Typed, NEW s \in Session, NEW step \in Step, Goto(s, step), Knows(s)'
    PROVE  Typed' /\ Quiet(s)
<1>1. TypeOK'
  BY GotoFields DEF Typed, TypeOK, Goto, tables, Taxon!TypeOK, Taxon!categories, Quiet
<1>2. ASSUME NEW t \in Session \ {s}  PROVE Knows(t)'
  BY <1>2, GotoFields DEF Typed, Knows, CreateKnows, ReparentKnows, AssignKnows, Quiet, tables
<1>. QED  BY <1>1, <1>2, GotoFields DEF Typed

LEMMA ReadTyped ==
    ASSUME Typed, NEW s \in Session, Read(s)
    PROVE  Typed' /\ Quiet(s)
<1>1. CASE Raise(s)
  BY <1>1, RaiseTyped
<1>2. CASE GetMembership(s)
  <2>1. HasOtherLeaf(txn[s].node, txn[s].target) \in BOOLEAN
    BY DEF HasOtherLeaf
  <2>2. PICK moved \in BOOLEAN :
            txn' = [txn EXCEPT ![s] = [txn[s] EXCEPT !.step = "write", !.moved = moved]]
    BY <1>2, <2>1 DEF GetMembership
  <2>3. /\ txn \in [Session -> Transaction]
        /\ txn[s] \in Transaction /\ txn[s].op = "assign"
        /\ UNCHANGED tables /\ categories' = categories
    BY <1>2 DEF GetMembership, At, Typed, TypeOK, tables, categories
  <2>4. /\ txn' = [txn EXCEPT ![s] = [txn[s] EXCEPT !.step = "write", !.moved = moved]]
        /\ [txn[s] EXCEPT !.step = "write", !.moved = moved] \in Transaction
    BY <2>2, <2>3 DEF Transaction, Step
  <2>5. /\ txn'[s].step = "write" /\ txn'[s].op = "assign"
        /\ txn'[s].node = txn[s].node /\ txn'[s].target = txn[s].target
        /\ \A t \in Session \ {s} : txn'[t] = txn[t]
        /\ UNCHANGED tables /\ categories' = categories
        /\ txn' \in [Session -> Transaction]
    BY <2>3, <2>4 DEF Transaction
  <2>6. TypeOK'
    BY <2>5 DEF Typed, TypeOK, tables, Taxon!TypeOK, Taxon!categories
  <2>7. Knows(s)'
    BY <1>2, <2>5 DEF GetMembership, At, Typed, Knows, AssignKnows, tables
  <2>8. ASSUME NEW t \in Session \ {s}  PROVE Knows(t)'
    BY <1>2, <2>5, <2>8 DEF GetMembership, At, Typed, Knows, CreateKnows, ReparentKnows, AssignKnows, tables
  <2>. QED  BY <2>5, <2>6, <2>7, <2>8 DEF Typed, Quiet
<1>3. CASE ~ Raise(s) /\ ~ GetMembership(s)
  <2>1. PICK step \in {"get_parent", "list_all", "count_members", "get_leaf", "is_leaf",
                       "get_membership", "write"} :
            /\ Goto(s, step)
            /\ \/ GetRoot(s) /\ step = "write"
               \/ GetCategory(s) /\ txn[s].node \in categories /\ step = "get_parent"
               \/ /\ GetParent(s) /\ txn[s].target \in categories
                  /\ step = IF txn[s].op = "create" THEN "count_members" ELSE "list_all"
               \/ CheckCycle(s) /\ step = "count_members"
               \/ CountMembers(s) /\ step = "write"
               \/ ProductExists(s) /\ txn[s].node \in products /\ step = "get_leaf"
               \/ GetLeaf(s) /\ txn[s].target \in categories /\ step = "is_leaf"
               \/ CheckLeaf(s) /\ step = "get_membership"
    BY <1>3 DEF Read, GetRoot, GetCategory, GetParent, CheckCycle, CountMembers,
                ProductExists, GetLeaf, CheckLeaf, Check, At
  <2>2. step \in Step
    BY <2>1 DEF Step
  <2>3. /\ txn'[s].step = step /\ txn'[s].op = txn[s].op
        /\ txn'[s].node = txn[s].node /\ txn'[s].target = txn[s].target
        /\ \A t \in Session \ {s} : txn'[t] = txn[t]
        /\ categories' = categories /\ products' = products
    BY <2>1, <2>2, GotoFields DEF Quiet, tables
  <2>4. Knows(s) /\ txn[s] # NoTxn
    BY <2>1 DEF Typed, NoTxn, GetRoot, GetCategory, GetParent, CheckCycle, CountMembers,
                ProductExists, GetLeaf, CheckLeaf, At
  <2>5. txn[s].op # "none"
    BY <2>4 DEF Knows
  <2>6. CASE txn[s].op = "create"
    <3>1. Knows(s)'
      BY <2>1, <2>3, <2>4, <2>6
      DEF Knows, CreateKnows, GetRoot, GetCategory, GetParent, CheckCycle, CountMembers,
          ProductExists, GetLeaf, CheckLeaf, At
    <3>. QED  BY <2>1, <2>2, <3>1, GotoTyped
  <2>7. CASE txn[s].op = "reparent"
    <3>1. Knows(s)'
      BY <2>1, <2>3, <2>4, <2>7
      DEF Knows, ReparentKnows, GetRoot, GetCategory, GetParent, CheckCycle, CountMembers,
          ProductExists, GetLeaf, CheckLeaf, At
    <3>. QED  BY <2>1, <2>2, <3>1, GotoTyped
  <2>8. CASE txn[s].op = "assign"
    <3>1. Knows(s)'
      BY <2>1, <2>3, <2>4, <2>8
      DEF Knows, AssignKnows, GetRoot, GetCategory, GetParent, CheckCycle, CountMembers,
          ProductExists, GetLeaf, CheckLeaf, At
    <3>. QED  BY <2>1, <2>2, <3>1, GotoTyped
  <2>. QED  BY <2>5, <2>6, <2>7, <2>8 DEF Typed, TypeOK, Transaction, Op
<1>. QED  BY <1>1, <1>2, <1>3

LEMMA WriteTyped ==
    ASSUME Typed, NEW s \in Session, Write(s)
    PROVE  Typed' /\ Quiet(s)
<1>1. CASE Raise(s)
  BY <1>1, RaiseTyped
<1>2. CASE Goto(s, "commit")
  <2>1. "commit" \in Step /\ txn[s].step = "write"
    BY DEF Write, Step
  <2>2. /\ txn'[s].step = "commit" /\ txn'[s].op = txn[s].op
        /\ txn'[s].node = txn[s].node /\ txn'[s].target = txn[s].target
        /\ \A t \in Session \ {s} : txn'[t] = txn[t]
        /\ categories' = categories /\ products' = products
    BY <1>2, <2>1, GotoFields DEF Quiet, tables
  <2>3. Knows(s) /\ txn[s].op # "none"
    BY <2>1 DEF Typed, Knows, NoTxn
  <2>4. Knows(s)'
    BY <2>1, <2>2, <2>3 DEF Knows, CreateKnows, ReparentKnows, AssignKnows
  <2>. QED  BY <1>2, <2>1, <2>4, GotoTyped
<1>. QED  BY <1>1, <1>2 DEF Write, Check

(* What a commit does to the tables.                                        *)
LEMMA CommitEffect ==
    ASSUME Typed, NEW s \in Session, Commit(s)
    PROVE  /\ txn[s].op \in Op
           /\ txn' = [txn EXCEPT ![s] = NoTxn]
           /\ txn[s].op = "assign" =>
                /\ leafOf' = Put(leafOf, txn[s].node, txn[s].target)
                /\ parent' = parent
           /\ txn[s].op # "assign" =>
                /\ parent' = Put(parent, txn[s].node, txn[s].target)
                /\ leafOf' = leafOf
           /\ txn[s].op = "create" => categories' = categories \cup {txn[s].node}
           /\ txn[s].op # "create" => categories' = categories
           /\ products' = products
<1>1. txn[s].op \in Op /\ Knows(s) /\ txn[s].step = "commit"
  BY DEF Commit, Typed, TypeOK, Transaction, Knows, NoTxn
<1>2. /\ txn' = [txn EXCEPT ![s] = NoTxn] /\ products' = products
      /\ txn[s].op = "assign" =>
            leafOf' = Put(leafOf, txn[s].node, txn[s].target) /\ parent' = parent
      /\ txn[s].op # "assign" =>
            parent' = Put(parent, txn[s].node, txn[s].target) /\ leafOf' = leafOf
  BY DEF Commit
<1>3. txn[s].op # "assign" => categories' = categories \cup {txn[s].node}
  BY <1>2 DEF categories, Put
<1>4. txn[s].op = "reparent" => txn[s].node \in categories
  BY <1>1 DEF Knows, ReparentKnows
<1>. QED  BY <1>1, <1>2, <1>3, <1>4 DEF Op, categories

LEMMA CommitTyped ==
    ASSUME Typed, NEW s \in Session, Commit(s)
    PROVE  Typed'
<1>1. Knows(s) /\ txn[s].step = "commit" /\ Taxon!TypeOK
  BY DEF Commit, Typed, TypeOK
<1>2. Taxon!TypeOK'
  <2>. USE DEF Taxon!TypeOK, Taxon!categories, categories
  <2>1. CASE txn[s].op = "assign"
    <3>1. /\ leafOf' = Put(leafOf, txn[s].node, txn[s].target)
          /\ parent' = parent /\ products' = products
          /\ txn[s].node \in products /\ txn[s].target \in categories
      BY <1>1, <2>1, CommitEffect DEF Knows, AssignKnows
    <3>. QED  BY <1>1, <3>1 DEF Put
  <2>2. CASE txn[s].op # "assign"
    <3>1. /\ parent' = Put(parent, txn[s].node, txn[s].target)
          /\ leafOf' = leafOf /\ products' = products
          /\ txn[s].op \in {"create", "reparent"}
      BY <2>2, CommitEffect DEF Op
    <3>2. txn[s].node \in Category /\ txn[s].target \in categories \cup {NoParent}
      BY <1>1, <3>1 DEF Knows, CreateKnows, ReparentKnows
    <3>. QED  BY <1>1, <3>1, <3>2 DEF Put
  <2>. QED  BY <2>1, <2>2
<1>3. txn' \in [Session -> Transaction] /\ txn'[s] = NoTxn
  <2>1. txn' = [txn EXCEPT ![s] = NoTxn]
    BY CommitEffect
  <2>2. NoTxn \in Transaction
    BY DEF NoTxn, Transaction, Step
  <2>. QED  BY <2>1, <2>2 DEF Typed, TypeOK
<1>4. Knows(s)'
  BY <1>3 DEF Knows, NoTxn
<1>5. ASSUME NEW t \in Session \ {s}  PROVE Knows(t)'
  <2>1. txn'[t] = txn[t] /\ categories \subseteq categories' /\ products' = products
        /\ \A u \in Session : txn'[u].op = "create" => txn'[u] = txn[u]
    BY CommitEffect DEF Typed, TypeOK, NoTxn
  <2>2. txn[t].op = "create" => txn[t].node \notin categories'
    BY <1>1, CommitEffect DEF Typed, Knows, CreateKnows
  <2>. QED  BY <2>1, <2>2 DEF Typed, Knows, CreateKnows, ReparentKnows, AssignKnows
<1>. QED  BY <1>2, <1>3, <1>4, <1>5 DEF Typed, TypeOK

LEMMA IngestTyped ==
    ASSUME Typed, NEW p \in Product, Ingest(p)
    PROVE  Typed'
BY DEF Ingest, Typed, TypeOK, Taxon!TypeOK, Taxon!categories, categories,
       Knows, CreateKnows, ReparentKnows, AssignKnows

(* Every step is one session going on, one session committing, an ingest or *)
(* a stutter.                                                               *)
LEMMA NextTyped == Typed /\ [Next]_vars => Typed'
<1>. SUFFICES ASSUME Typed, [Next]_vars  PROVE Typed'
  OBVIOUS
<1>1. CASE UNCHANGED vars
  BY <1>1 DEF vars, Typed, TypeOK, Taxon!TypeOK, Taxon!categories, categories,
              Knows, CreateKnows, ReparentKnows, AssignKnows
<1>2. ASSUME NEW s \in Session, Start(s) \/ Read(s) \/ Write(s) \/ Commit(s) \/ Crash(s)
      PROVE  Typed'
  BY <1>2, StartTyped, ReadTyped, WriteTyped, CommitTyped, RaiseTyped DEF Crash
<1>3. ASSUME NEW p \in Product, Ingest(p)  PROVE Typed'
  BY <1>3, IngestTyped
<1>. QED  BY <1>1, <1>2, <1>3 DEF Next

(* The rows keep their types and foreign keys under every interleaving.     *)
THEOREM DbTyped == Spec => []TypeOK
<1>1. Spec => []Typed
  BY InitTyped, NextTyped, PTL DEF Spec
<1>2. Typed => TypeOK
  BY DEF Typed
<1>. QED  BY <1>1, <1>2, PTL
-----------------------------------------------------------------------------
SameCommand(s) ==
    /\ txn'[s].op = txn[s].op
    /\ txn'[s].node = txn[s].node
    /\ txn'[s].target = txn[s].target

(* What a session must have found to be where it now is, when it was not    *)
(* there before: one conjunct per check the commands rely on later.         *)
Found(s) ==
    /\ txn[s] = NoTxn /\ txn'[s] # NoTxn =>
          /\ txn'[s].step \in {"get_root", "get_parent", "get_category", "exists"}
          /\ \A t \in Session \ {s} :
                txn[t] # NoTxn => <<txn'[s].op, txn[t].op>> \in Overlap
    /\ txn[s] # NoTxn /\ txn'[s] # NoTxn => SameCommand(s)
    /\ txn'[s].op = "reparent" /\ txn'[s].step = "count_members" =>
          /\ txn[s].step = "list_all"
          /\ ~ WouldCreateCycle(parent, txn[s].node, txn[s].target)
    /\ txn'[s].op = "reparent" /\ txn'[s].step \in {"write", "commit"} =>
          txn[s].step \in {"count_members", "write"}
    /\ txn'[s].op \in {"create", "reparent"} /\ txn'[s].step = "write" =>
          txn[s].target = NoParent \/ Members(txn[s].target) = {}
    /\ txn'[s].op = "assign" /\ txn'[s].step = "get_membership" =>
          IsLeaf(parent, txn[s].target)
    /\ txn'[s].op = "assign" /\ txn'[s].step = "write" =>
          /\ txn[s].step = "get_membership"
          /\ txn'[s].moved = HasOtherLeaf(txn[s].node, txn[s].target)
    /\ txn'[s].step = "commit" =>
          /\ txn[s].step = "write"
          /\ txn'[s].moved = txn[s].moved
          /\ \A t \in Session : ~ Conflict(s, t)
          /\ AddsRoot(s) => Roots(parent) = {}

LEMMA StartFound ==
    ASSUME Typed, NEW s \in Session, Start(s)
    PROVE  Found(s)
<1>1. PICK op \in Op, first \in {"get_root", "get_parent", "get_category", "exists"},
           node \in Category \cup Product, target \in Category \cup {NoParent} :
        Begin(s, op, first, node, target)
  BY DEF Start, BeginCreate, BeginReparent, BeginAssign, Op
<1>2. /\ txn[s] = NoTxn
      /\ txn'[s] = [op |-> op, step |-> first, moved |-> FALSE,
                    node |-> node, target |-> target]
  BY <1>1 DEF Begin, Typed, TypeOK
<1>3. \A t \in Session \ {s} : txn[t] # NoTxn => <<op, txn[t].op>> \in Overlap
  BY <1>1 DEF Begin
<1>4. txn'[s].op = op /\ txn'[s].step = first
  BY <1>2
<1>. QED  BY <1>2, <1>3, <1>4 DEF Found

LEMMA RaiseFound ==
    ASSUME Typed, NEW s \in Session, Raise(s)
    PROVE  Found(s) /\ txn'[s] = NoTxn
BY DEF Raise, Typed, TypeOK, Found, NoTxn

LEMMA GotoFound ==
    ASSUME Typed, NEW s \in Session, NEW step \in Step, Goto(s, step),
           txn[s].op \in Op
    PROVE  /\ txn'[s].step = step
           /\ SameCommand(s)
           /\ txn'[s].moved = txn[s].moved
           /\ txn[s] # NoTxn /\ txn'[s] # NoTxn
BY DEF Typed, TypeOK, Transaction, Goto, SameCommand, NoTxn, Op

LEMMA ReadFound ==
    ASSUME Typed, NEW s \in Session, Read(s)
    PROVE  Found(s)
<1>1. CASE Raise(s)
  BY <1>1, RaiseFound
<1>. USE DEF Found, Step, At, Check, Op
<1>2. CASE ~ Raise(s)
  <2>1. CASE GetRoot(s)
    <3>1. Goto(s, "write") /\ txn[s].op = "create" /\ txn[s].step = "get_root"
      BY <1>2, <2>1 DEF GetRoot
    <3>2. txn[s].target = NoParent
      BY <3>1 DEF Typed, Knows, CreateKnows
    <3>. QED  BY <3>1, <3>2, GotoFound DEF SameCommand
  <2>2. CASE GetCategory(s)
    BY <1>2, <2>2, GotoFound DEF GetCategory, SameCommand
  <2>3. CASE GetParent(s)
    BY <1>2, <2>3, GotoFound DEF GetParent, SameCommand
  <2>4. CASE CheckCycle(s)
    BY <1>2, <2>4, GotoFound DEF CheckCycle, SameCommand
  <2>5. CASE CountMembers(s)
    <3>1. /\ Goto(s, "write") /\ txn[s].step = "count_members"
          /\ Members(txn[s].target) = {}
      BY <1>2, <2>5 DEF CountMembers
    <3>2. txn[s].op \in {"create", "reparent"}
      BY <3>1 DEF Typed, TypeOK, Transaction, Knows, AssignKnows, NoTxn
    <3>. QED  BY <3>1, <3>2, GotoFound DEF SameCommand
  <2>6. CASE ProductExists(s)
    BY <1>2, <2>6, GotoFound DEF ProductExists, SameCommand
  <2>7. CASE GetLeaf(s)
    BY <1>2, <2>7, GotoFound DEF GetLeaf, SameCommand
  <2>8. CASE CheckLeaf(s)
    BY <1>2, <2>8, GotoFound DEF CheckLeaf, SameCommand
  <2>9. CASE GetMembership(s)
    <3>1. /\ txn[s].op = "assign" /\ txn[s].step = "get_membership"
          /\ txn'[s] = [txn[s] EXCEPT !.step = "write",
                                     !.moved = HasOtherLeaf(txn[s].node, txn[s].target)]
      BY <2>9 DEF GetMembership, Typed, TypeOK
    <3>2. /\ txn'[s].op = "assign" /\ txn'[s].step = "write"
          /\ txn'[s].moved = HasOtherLeaf(txn[s].node, txn[s].target)
          /\ SameCommand(s) /\ txn[s] # NoTxn
      BY <3>1 DEF SameCommand, Typed, TypeOK, Transaction, NoTxn
    <3>. QED  BY <3>1, <3>2
  <2>. QED  BY <2>1, <2>2, <2>3, <2>4, <2>5, <2>6, <2>7, <2>8, <2>9 DEF Read
<1>. QED  BY <1>1, <1>2

LEMMA WriteFound ==
    ASSUME Typed, NEW s \in Session, Write(s)
    PROVE  Found(s)
<1>1. CASE Raise(s)
  BY <1>1, RaiseFound
<1>2. CASE Goto(s, "commit") /\ ~ (AddsRoot(s) /\ Roots(parent) # {})
  <2>1. txn[s].step = "write" /\ txn[s].op \in Op /\ \A t \in Session : ~ Conflict(s, t)
    BY DEF Write, Typed, TypeOK, Transaction, Knows, NoTxn
  <2>. QED  BY <1>2, <2>1, GotoFound DEF Found, Step
<1>. QED  BY <1>1, <1>2 DEF Write, Check

LEMMA CommandFound ==
    ASSUME Typed, NEW s \in Session, Start(s) \/ Read(s) \/ Write(s) \/ Crash(s)
    PROVE  Found(s) /\ Quiet(s)
BY StartTyped, ReadTyped, WriteTyped, RaiseTyped, StartFound, ReadFound, WriteFound, RaiseFound
   DEF Crash
-----------------------------------------------------------------------------
(* Whatever overlaps: the root.                                             *)
RootRule ==
    /\ \A c, d \in Roots(parent) : c = d
    /\ categories # {} => Roots(parent) # {}

(* No two transactions have written the same row or a new root each.        *)
WritersExclude == \A s, t \in Session : txn[s].step = "commit" => ~ Conflict(s, t)

RootInv ==
    /\ WritersExclude
    /\ RootRule
    /\ \A s \in Session : txn[s].step = "commit" /\ AddsRoot(s) => Roots(parent) = {}
    /\ \A s \in Session :
          /\ txn[s].op = "reparent"
          /\ txn[s].step \in {"count_members", "write", "commit"}
          => txn[s].node \notin Roots(parent)

KeepsRoot == Roots(parent) # {} => Roots(parent)' = Roots(parent)

LEMMA DbForeignKey == Typed => ForeignKey(parent)
BY NoParentIsNoCategory DEF Typed, TypeOK, Taxon!TypeOK, Taxon!categories, ForeignKey

LEMMA CommandRootInv ==
    ASSUME Typed, RootInv, NEW s \in Session, Found(s), Quiet(s)
    PROVE  RootInv' /\ KeepsRoot
<1>1. /\ parent' = parent /\ Roots(parent)' = Roots(parent)
      /\ \A t \in Session \ {s} : txn'[t] = txn[t]
  BY DEF Quiet, tables, Roots, Children
<1>2. txn'[s].step = "commit" => SameCommand(s) /\ txn[s].step = "write"
  BY DEF Found, Typed, Knows, NoTxn
<1>3. WritersExclude'
  BY <1>1, <1>2 DEF WritersExclude, RootInv, Conflict, AddsRoot, Found, SameCommand
<1>4. ASSUME NEW t \in Session, (txn[t].step = "commit" /\ AddsRoot(t))'
      PROVE  Roots(parent)' = {}
  BY <1>1, <1>2, <1>4 DEF RootInv, AddsRoot, Found, SameCommand
<1>5. ASSUME NEW t \in Session, txn'[t].op = "reparent",
             txn'[t].step \in {"count_members", "write", "commit"}
      PROVE  txn'[t].node \notin Roots(parent)'
  <2>1. CASE t # s
    BY <1>1, <1>5, <2>1 DEF RootInv
  <2>2. CASE t = s
    <3>1. txn[s] # NoTxn /\ txn'[s] # NoTxn
      BY <1>5, <2>2 DEF Found, NoTxn, Typed, Knows, CreateKnows
    <3>2. SameCommand(s) /\ txn[s].op = "reparent"
      BY <1>5, <2>2, <3>1 DEF Found, SameCommand
    <3>3. CASE txn'[s].step = "count_members"
      <4>1. ~ WouldCreateCycle(parent, txn[s].node, txn[s].target)
        BY <1>5, <2>2, <3>3 DEF Found
      <4>2. txn[s].target \in DOMAIN parent
        BY <1>5, <2>2, <3>2, <3>3 DEF Found, Typed, Knows, ReparentKnows, categories
      <4>. QED
        BY <1>1, <2>2, <3>2, <4>1, <4>2, DbForeignKey, RootIsNeverSafe
        DEF RootInv, RootRule, SameCommand
    <3>4. CASE txn'[s].step \in {"write", "commit"}
      BY <1>1, <1>5, <2>2, <3>2, <3>4 DEF Found, RootInv, SameCommand
    <3>. QED  BY <1>5, <2>2, <3>3, <3>4
  <2>. QED  BY <2>1, <2>2
<1>6. RootRule'
  BY <1>1 DEF RootInv, RootRule, categories
<1>. QED  BY <1>1, <1>3, <1>4, <1>5, <1>6 DEF RootInv, KeepsRoot

LEMMA CommitOthers ==
    ASSUME Typed, NEW s \in Session, Commit(s)
    PROVE  txn'[s] = NoTxn /\ \A t \in Session \ {s} : txn'[t] = txn[t]
BY CommitEffect DEF Typed, TypeOK

(* A commit adds its new root, or adds no root and removes the one it moves.*)
LEMMA CommitRoots ==
    ASSUME Typed, NEW s \in Session, Commit(s)
    PROVE  /\ AddsRoot(s) => Roots(parent)' = Roots(parent) \cup {txn[s].node}
           /\ ~ AddsRoot(s) => Roots(parent)' \subseteq Roots(parent)
           /\ txn[s].op # "reparent" => Roots(parent) \subseteq Roots(parent)'
           /\ txn[s].node \notin Roots(parent) => Roots(parent) \subseteq Roots(parent)'
<1>1. Knows(s) /\ txn[s].step = "commit" /\ txn[s].op \in Op
  BY CommitEffect DEF Typed, Commit
<1>2. CASE txn[s].op = "assign"
  BY <1>2, CommitEffect DEF Roots, Children, AddsRoot
<1>3. CASE txn[s].op = "create"
  <2>1. parent' = Put(parent, txn[s].node, txn[s].target) /\ txn[s].node \notin DOMAIN parent
    BY <1>1, <1>3, CommitEffect DEF Knows, CreateKnows, categories
  <2>. QED  BY <1>3, <2>1 DEF Roots, Children, AddsRoot, Put
<1>4. CASE txn[s].op = "reparent"
  <2>1. /\ parent' = Put(parent, txn[s].node, txn[s].target)
        /\ txn[s].node \in DOMAIN parent /\ txn[s].target # NoParent
    BY <1>1, <1>4, CommitEffect, NoParentIsNoCategory DEF Knows, ReparentKnows, categories
  <2>. QED  BY <1>4, <2>1 DEF Roots, Children, AddsRoot, Put
<1>. QED  BY <1>1, <1>2, <1>3, <1>4 DEF Op

LEMMA CommitRootInv ==
    ASSUME Typed, RootInv, NEW s \in Session, Commit(s)
    PROVE  RootInv' /\ KeepsRoot
<1>. DEFINE roots == Roots(parent)
<1>1. /\ txn[s].step = "commit" /\ Knows(s)
      /\ txn'[s] = NoTxn
      /\ \A t \in Session \ {s} : txn'[t] = txn[t]
  BY CommitOthers DEF Commit, Typed
<1>2. AddsRoot(s) => roots = {}
  BY <1>1 DEF RootInv
<1>3. txn[s].op = "reparent" => txn[s].node \notin roots
  BY <1>1 DEF RootInv
<1>4. /\ AddsRoot(s) => roots' = {txn[s].node}
      /\ ~ AddsRoot(s) => roots' = roots
  BY <1>2, <1>3, CommitRoots
<1>5. WritersExclude'
  BY <1>1 DEF WritersExclude, RootInv, Conflict, AddsRoot, NoTxn
<1>6. RootRule'
  <2>1. categories = {} /\ categories' # {} => AddsRoot(s)
    BY <1>1, CommitEffect DEF Knows, CreateKnows, ReparentKnows, AddsRoot
  <2>. QED  BY <1>4, <2>1 DEF RootInv, RootRule
<1>7. ASSUME NEW t \in Session, (txn[t].step = "commit" /\ AddsRoot(t))'
      PROVE  Roots(parent)' = {}
  <2>1. t # s /\ txn[t].step = "commit" /\ AddsRoot(t)
    BY <1>1, <1>7 DEF NoTxn, AddsRoot
  <2>2. ~ AddsRoot(s)
    BY <1>1, <2>1 DEF RootInv, WritersExclude, Conflict, AddsRoot
  <2>. QED  BY <1>4, <2>1, <2>2 DEF RootInv
<1>8. ASSUME NEW t \in Session, txn'[t].op = "reparent",
             txn'[t].step \in {"count_members", "write", "commit"}
      PROVE  txn'[t].node \notin Roots(parent)'
  <2>1. t # s /\ txn'[t] = txn[t]
    BY <1>1, <1>8 DEF NoTxn
  <2>2. txn[t].node \notin roots /\ txn[t].node \in categories
    BY <1>8, <2>1 DEF RootInv, Typed, Knows, ReparentKnows
  <2>3. AddsRoot(s) => txn[s].node \notin categories
    BY <1>1 DEF Knows, CreateKnows, AddsRoot
  <2>. QED  BY <1>4, <2>1, <2>2, <2>3
<1>. QED  BY <1>2, <1>4, <1>5, <1>6, <1>7, <1>8 DEF RootInv, KeepsRoot

LEMMA NextRootInv ==
    ASSUME Typed, RootInv, [Next]_vars
    PROVE  RootInv' /\ KeepsRoot
<1>. USE DEF KeepsRoot
<1>1. CASE UNCHANGED vars
  BY <1>1 DEF vars, RootInv, WritersExclude, RootRule, Conflict, AddsRoot, Roots, Children, categories
<1>2. ASSUME NEW s \in Session, Start(s) \/ Read(s) \/ Write(s) \/ Crash(s)
      PROVE  RootInv' /\ KeepsRoot
  BY <1>2, CommandFound, CommandRootInv
<1>3. ASSUME NEW s \in Session, Commit(s)  PROVE RootInv' /\ KeepsRoot
  BY <1>3, CommitRootInv
<1>4. ASSUME NEW p \in Product, Ingest(p)  PROVE RootInv' /\ KeepsRoot
  BY <1>4 DEF Ingest, RootInv, WritersExclude, RootRule, Conflict, AddsRoot, Roots, Children, categories
<1>. QED  BY <1>1, <1>2, <1>3, <1>4 DEF Next

LEMMA DbRootInv == Spec => [](Typed /\ RootInv)
<1>1. Init => RootInv
  BY DEF Init, RootInv, WritersExclude, RootRule, Conflict, AddsRoot, Roots, Children, NoTxn, categories
<1>. QED  BY <1>1, InitTyped, NextTyped, NextRootInv, PTL DEF Spec

(* Two creates that both found no root still leave one root only.           *)
THEOREM DbOneRoot == Spec => []OneRoot
<1>1. RootInv => OneRoot
  BY SameTree DEF RootInv, RootRule, OneRoot, Taxon!OneRoot
<1>. QED  BY <1>1, DbRootInv, PTL

(* No interleaving of commands moves the root.                              *)
THEOREM DbRootIsPermanent == Spec => RootIsPermanent
<1>1. Typed /\ RootInv /\ [Next]_vars => [KeepsRoot]_vars
  BY NextRootInv
<1>. QED  BY <1>1, DbRootInv, PTL DEF Spec, RootIsPermanent, KeepsRoot
-----------------------------------------------------------------------------
(* What the disciplines buy.  Commands that may not overlap do not.         *)
OverlapInv ==
    \A s, t \in Session :
        s # t /\ txn[s] # NoTxn /\ txn[t] # NoTxn => <<txn[s].op, txn[t].op>> \in Overlap

LEMMA DbOverlapInv == Spec => [](Typed /\ OverlapInv)
<1>1. Init => OverlapInv
  BY DEF Init, OverlapInv
<1>2. Typed /\ OverlapInv /\ [Next]_vars => OverlapInv'
  <2>. SUFFICES ASSUME Typed, OverlapInv, [Next]_vars  PROVE OverlapInv'
    OBVIOUS
  <2>1. CASE UNCHANGED vars
    BY <2>1 DEF vars, OverlapInv
  <2>2. ASSUME NEW s \in Session, Start(s) \/ Read(s) \/ Write(s) \/ Crash(s)
        PROVE  OverlapInv'
    <3>1. Found(s) /\ \A t \in Session \ {s} : txn'[t] = txn[t]
      BY <2>2, CommandFound DEF Quiet
    <3>2. ASSUME NEW t \in Session \ {s}, txn[t] # NoTxn, txn'[s] # NoTxn
          PROVE  <<txn'[s].op, txn[t].op>> \in Overlap /\ <<txn[t].op, txn'[s].op>> \in Overlap
      <4>1. <<txn'[s].op, txn[t].op>> \in Overlap
        BY <3>1, <3>2 DEF Found, SameCommand, OverlapInv
      <4>. QED  BY <4>1, OverlapIsSymmetric
    <3>. QED  BY <3>1, <3>2 DEF OverlapInv
  <2>3. ASSUME NEW s \in Session, Commit(s)  PROVE OverlapInv'
    BY <2>3, CommitOthers DEF OverlapInv
  <2>4. ASSUME NEW p \in Product, Ingest(p)  PROVE OverlapInv'
    BY <2>4 DEF Ingest, OverlapInv
  <2>. QED  BY <2>1, <2>2, <2>3, <2>4 DEF Next
<1>. QED  BY <1>1, <1>2, InitTyped, NextTyped, PTL DEF Spec

(* A reparent past its cycle check is still safe to commit.                 *)
CycleInv ==
    /\ Acyclic(parent)
    /\ \A s \in Session :
          /\ txn[s].op = "reparent"
          /\ txn[s].step \in {"count_members", "write", "commit"}
          => ~ WouldCreateCycle(parent, txn[s].node, txn[s].target)

LEMMA CommandCycleInv ==
    ASSUME Typed, CycleInv, NEW s \in Session, Found(s), Quiet(s)
    PROVE  CycleInv'
<1>1. parent' = parent /\ \A t \in Session \ {s} : txn'[t] = txn[t]
  BY DEF Quiet, tables
<1>2. ASSUME txn'[s].op = "reparent",
             txn'[s].step \in {"count_members", "write", "commit"}
      PROVE  ~ WouldCreateCycle(parent, txn'[s].node, txn'[s].target)
  <2>1. txn[s] # NoTxn /\ txn'[s] # NoTxn
    BY <1>2 DEF Found, NoTxn
  <2>2. SameCommand(s)
    BY <2>1 DEF Found
  <2>. QED  BY <1>2, <2>2 DEF Found, CycleInv, SameCommand
<1>. QED  BY <1>1, <1>2 DEF CycleInv

LEMMA CommitCycleInv ==
    ASSUME ReparentsAlone, Typed, OverlapInv, CycleInv, NEW s \in Session, Commit(s)
    PROVE  CycleInv'
<1>1. Knows(s) /\ txn[s].step = "commit" /\ txn[s].op \in Op
  BY CommitEffect DEF Typed, Commit
<1>2. txn'[s] = NoTxn /\ \A t \in Session \ {s} : txn'[t] = txn[t]
  BY CommitOthers
<1>3. ForeignKey(parent) /\ Acyclic(parent)
  BY DbForeignKey DEF CycleInv
<1>4. CASE txn[s].op = "assign"
  BY <1>2, <1>4, CommitEffect DEF CycleInv, NoTxn
<1>5. CASE txn[s].op = "create"
  <2>1. /\ parent' = Put(parent, txn[s].node, txn[s].target)
        /\ txn[s].node \notin DOMAIN parent /\ txn[s].node # NoParent
        /\ txn[s].target \in DOMAIN parent \cup {NoParent}
    BY <1>1, <1>5, CommitEffect, NoParentIsNoCategory DEF Knows, CreateKnows, categories
  <2>2. Acyclic(parent')
    BY <1>3, <2>1, NewCategoryKeepsAcyclic
  <2>3. ASSUME NEW t \in Session, txn'[t].op = "reparent",
               txn'[t].step \in {"count_members", "write", "commit"}
        PROVE  ~ WouldCreateCycle(parent', txn'[t].node, txn'[t].target)
    <3>1. t # s /\ txn'[t] = txn[t]
      BY <1>2, <2>3 DEF NoTxn
    <3>2. /\ ~ WouldCreateCycle(parent, txn[t].node, txn[t].target)
          /\ txn[t].target \in DOMAIN parent
      BY <2>3, <3>1 DEF CycleInv, Typed, Knows, ReparentKnows, categories
    <3>. QED  BY <1>3, <2>1, <3>1, <3>2, NewCategoryKeepsSafe
  <2>. QED  BY <2>2, <2>3 DEF CycleInv
<1>6. CASE txn[s].op = "reparent"
  <2>1. /\ parent' = Put(parent, txn[s].node, txn[s].target)
        /\ txn[s].node \in DOMAIN parent /\ txn[s].target \in DOMAIN parent
        /\ ~ WouldCreateCycle(parent, txn[s].node, txn[s].target)
    BY <1>1, <1>6, CommitEffect DEF Knows, ReparentKnows, categories, CycleInv
  <2>2. Acyclic(parent')
    BY <1>3, <2>1, SafeEdgeKeepsAcyclic
  <2>3. \A t \in Session : txn'[t].op # "reparent"
    BY <1>2, <1>6 DEF OverlapInv, ReparentsAlone, NoTxn
  <2>. QED  BY <2>2, <2>3 DEF CycleInv
<1>. QED  BY <1>1, <1>4, <1>5, <1>6 DEF Op

LEMMA DbCycleInv ==
    ASSUME ReparentsAlone
    PROVE  Spec => []CycleInv
<1>1. Init => CycleInv
  BY DEF Init, CycleInv, Acyclic, WellFounded, NoTxn
<1>2. Typed /\ OverlapInv /\ CycleInv /\ [Next]_vars => CycleInv'
  <2>. SUFFICES ASSUME Typed, OverlapInv, CycleInv, [Next]_vars  PROVE CycleInv'
    OBVIOUS
  <2>1. CASE UNCHANGED vars
    BY <2>1 DEF vars, CycleInv
  <2>2. ASSUME NEW s \in Session, Start(s) \/ Read(s) \/ Write(s) \/ Crash(s)
        PROVE  CycleInv'
    BY <2>2, CommandFound, CommandCycleInv
  <2>3. ASSUME NEW s \in Session, Commit(s)  PROVE CycleInv'
    BY <2>3, CommitCycleInv, ReparentsAlone
  <2>4. ASSUME NEW p \in Product, Ingest(p)  PROVE CycleInv'
    BY <2>4 DEF Ingest, CycleInv
  <2>. QED  BY <2>1, <2>2, <2>3, <2>4 DEF Next
<1>. QED  BY <1>1, <1>2, DbOverlapInv, PTL DEF Spec

(* Two reparents at once are the only way to a cycle: where they are kept   *)
(* apart the tree stays acyclic, whatever creates and assigns run beside.   *)
THEOREM DbAcyclic ==
    ASSUME ReparentsAlone
    PROVE  Spec => []TreeIsAcyclic
<1>1. CycleInv => TreeIsAcyclic
  BY SameTree DEF CycleInv, TreeIsAcyclic, Taxon!TreeIsAcyclic
<1>. QED  BY <1>1, DbCycleInv, PTL

(* ... and "taxonomy show" then prints every category.                      *)
THEOREM DbShowIsComplete ==
    ASSUME ReparentsAlone
    PROVE  Spec => []ShowIsComplete
<1>1. Typed /\ CycleInv => ShowIsComplete
  BY DbForeignKey, AcyclicIsShown, SameTree
  DEF CycleInv, ShowIsComplete, Taxon!ShowIsComplete, Taxon!categories
<1>. QED  BY <1>1, DbCycleInv, DbRootInv, PTL
-----------------------------------------------------------------------------
(* A command past its membership or leaf check may still write.             *)
LeafInv ==
    /\ \A p \in DOMAIN leafOf : IsLeaf(parent, leafOf[p])
    /\ \A s \in Session :
          /\ txn[s].op \in {"create", "reparent"}
          /\ txn[s].step \in {"write", "commit"}
          => txn[s].target = NoParent \/ Members(txn[s].target) = {}
    /\ \A s \in Session :
          /\ txn[s].op = "assign"
          /\ txn[s].step \in {"get_membership", "write", "commit"}
          => IsLeaf(parent, txn[s].target)

LEMMA CommandLeafInv ==
    ASSUME Typed, LeafInv, NEW s \in Session, Found(s), Quiet(s)
    PROVE  LeafInv'
<1>1. /\ parent' = parent /\ leafOf' = leafOf
      /\ \A c : Members(c)' = Members(c)
      /\ \A t \in Session \ {s} : txn'[t] = txn[t]
  BY DEF Quiet, tables, Members
<1>2. ASSUME txn'[s].op \in {"create", "reparent"}, txn'[s].step \in {"write", "commit"}
      PROVE  txn'[s].target = NoParent \/ Members(txn'[s].target) = {}
  <2>1. SameCommand(s)
    BY <1>2 DEF Found, NoTxn
  <2>. QED  BY <1>2, <2>1 DEF Found, LeafInv, SameCommand
<1>3. ASSUME txn'[s].op = "assign",
             txn'[s].step \in {"get_membership", "write", "commit"}
      PROVE  IsLeaf(parent, txn'[s].target)
  <2>1. SameCommand(s)
    BY <1>3 DEF Found, NoTxn
  <2>. QED  BY <1>3, <2>1 DEF Found, LeafInv, SameCommand
<1>. QED  BY <1>1, <1>2, <1>3 DEF LeafInv

LEMMA CommitLeafInv ==
    ASSUME AssignsApart, Typed, OverlapInv, LeafInv, NEW s \in Session, Commit(s)
    PROVE  LeafInv'
<1>1. Knows(s) /\ txn[s].step = "commit" /\ txn[s].op \in Op
  BY CommitEffect DEF Typed, Commit
<1>2. txn'[s] = NoTxn /\ \A t \in Session \ {s} : txn'[t] = txn[t]
  BY CommitOthers
<1>3. CASE txn[s].op = "assign"
  <2>1. /\ parent' = parent /\ leafOf' = Put(leafOf, txn[s].node, txn[s].target)
        /\ IsLeaf(parent, txn[s].target)
    BY <1>1, <1>3, CommitEffect DEF LeafInv
  <2>2. \A t \in Session : txn'[t].op \notin {"create", "reparent"}
    BY <1>2, <1>3 DEF OverlapInv, AssignsApart, NoTxn
  <2>3. \A p \in DOMAIN leafOf' : IsLeaf(parent', leafOf'[p])
    BY <2>1 DEF Put, LeafInv
  <2>4. \A t \in Session :
            /\ txn'[t].op = "assign"
            /\ txn'[t].step \in {"get_membership", "write", "commit"}
            => IsLeaf(parent', txn'[t].target)
    BY <1>2, <2>1 DEF LeafInv, NoTxn
  <2>. QED  BY <2>2, <2>3, <2>4 DEF LeafInv
<1>4. CASE txn[s].op # "assign"
  <2>1. /\ parent' = Put(parent, txn[s].node, txn[s].target) /\ leafOf' = leafOf
        /\ txn[s].target = NoParent \/ Members(txn[s].target) = {}
        /\ txn[s].op \in {"create", "reparent"}
    BY <1>1, <1>4, CommitEffect DEF LeafInv, Op
  <2>2. \A t \in Session : txn'[t].op # "assign"
    BY <1>2, <2>1, OverlapIsSymmetric DEF OverlapInv, AssignsApart, NoTxn
  <2>3. ASSUME NEW p \in DOMAIN leafOf  PROVE IsLeaf(parent', leafOf[p])
    <3>1. IsLeaf(parent, leafOf[p]) /\ leafOf[p] # NoParent
      BY NoParentIsNoCategory DEF LeafInv, Typed, TypeOK, Taxon!TypeOK, Taxon!categories
    <3>2. leafOf[p] # txn[s].target
      BY <2>1, <3>1 DEF Members
    <3>. QED  BY <2>1, <3>1, <3>2 DEF IsLeaf, Children, Put
  <2>4. \A c : Members(c)' = Members(c)
    BY <2>1 DEF Members
  <2>5. \A t \in Session :
            (/\ txn[t].op \in {"create", "reparent"}
             /\ txn[t].step \in {"write", "commit"}
             => txn[t].target = NoParent \/ Members(txn[t].target) = {})'
    BY <1>2, <2>4 DEF LeafInv, NoTxn
  <2>. QED  BY <2>1, <2>2, <2>3, <2>5 DEF LeafInv
<1>. QED  BY <1>3, <1>4

LEMMA DbLeafInv ==
    ASSUME AssignsApart
    PROVE  Spec => []LeafInv
<1>1. Init => LeafInv
  BY DEF Init, LeafInv, NoTxn
<1>2. Typed /\ OverlapInv /\ LeafInv /\ [Next]_vars => LeafInv'
  <2>. SUFFICES ASSUME Typed, OverlapInv, LeafInv, [Next]_vars  PROVE LeafInv'
    OBVIOUS
  <2>1. CASE UNCHANGED vars
    BY <2>1 DEF vars, LeafInv, Members
  <2>2. ASSUME NEW s \in Session, Start(s) \/ Read(s) \/ Write(s) \/ Crash(s)
        PROVE  LeafInv'
    BY <2>2, CommandFound, CommandLeafInv
  <2>3. ASSUME NEW s \in Session, Commit(s)  PROVE LeafInv'
    BY <2>3, CommitLeafInv, AssignsApart
  <2>4. ASSUME NEW p \in Product, Ingest(p)  PROVE LeafInv'
    BY <2>4 DEF Ingest, LeafInv, Members
  <2>. QED  BY <2>1, <2>2, <2>3, <2>4 DEF Next
<1>. QED  BY <1>1, <1>2, DbOverlapInv, PTL DEF Spec

(* Products stay on leaves when no assign runs beside a create or reparent. *)
THEOREM DbMembersOnLeaves ==
    ASSUME AssignsApart
    PROVE  Spec => []MembersOnLeaves
<1>1. LeafInv => MembersOnLeaves
  BY SameTree DEF LeafInv, MembersOnLeaves, Taxon!MembersOnLeaves
<1>. QED  BY <1>1, DbLeafInv, PTL
-----------------------------------------------------------------------------
(* The commit of a command is the atomic command.                           *)
LEMMA CommitIsCommand ==
    ASSUME Typed, RootInv, CycleInv, LeafInv, NEW s \in Session, Commit(s)
    PROVE  Taxon!Next
<1>. DEFINE node == txn[s].node
            target == txn[s].target
<1>1. Knows(s) /\ txn[s].step = "commit" /\ txn[s].op \in Op
  BY CommitEffect DEF Typed, Commit
<1>2. products' = products
  BY CommitEffect
<1>3. CASE txn[s].op = "create"
  <2>1. /\ parent' = Put(parent, node, target) /\ leafOf' = leafOf
        /\ node \in Category \ categories
        /\ target \in categories \cup {NoParent}
        /\ target \in Category \cup {NoParent}
    BY <1>1, <1>3, CommitEffect
       DEF Knows, CreateKnows, Typed, TypeOK, Taxon!TypeOK, Taxon!categories, categories
  <2>2. target = NoParent => Roots(parent) = {}
    BY <1>1, <1>3 DEF RootInv, AddsRoot
  <2>3. target # NoParent => target \in categories /\ Members(target) = {}
    BY <1>1, <1>3, <2>1 DEF LeafInv
  <2>4. Taxon!CreateCategory(node, target)
    BY <1>2, <2>1, <2>2, <2>3, SameTree DEF Taxon!CreateCategory
  <2>. QED  BY <2>1, <2>4 DEF Taxon!Next
<1>4. CASE txn[s].op = "reparent"
  <2>1. /\ parent' = Put(parent, node, target) /\ leafOf' = leafOf
        /\ node \in categories /\ node \in Category
        /\ target \in categories /\ target \in Category /\ target # NoParent
    BY <1>1, <1>4, CommitEffect, NoParentIsNoCategory DEF Knows, ReparentKnows
  <2>2. ~ WouldCreateCycle(parent, node, target)
    BY <1>1, <1>4 DEF CycleInv
  <2>3. Members(target) = {}
    BY <1>1, <1>4, <2>1 DEF LeafInv
  <2>4. node # target
    BY <2>2 DEF WouldCreateCycle, SafeParent
  <2>5. Taxon!ReparentCategory(node, target)
    BY <1>2, <2>1, <2>2, <2>3, <2>4, SameTree DEF Taxon!ReparentCategory
  <2>. QED  BY <2>1, <2>5 DEF Taxon!Next
<1>5. CASE txn[s].op = "assign"
  <2>1. /\ parent' = parent /\ leafOf' = Put(leafOf, node, target)
        /\ node \in products /\ node \in Product
        /\ target \in categories /\ target \in Category
    BY <1>1, <1>5, CommitEffect DEF Knows, AssignKnows
  <2>2. IsLeaf(parent, target)
    BY <1>1, <1>5 DEF LeafInv
  <2>3. Taxon!AssignProduct(node, target)
    BY <1>2, <2>1, <2>2, SameTree DEF Taxon!AssignProduct
  <2>. QED  BY <2>1, <2>3 DEF Taxon!Next
<1>. QED  BY <1>1, <1>3, <1>4, <1>5 DEF Op

(* With reparents alone, and assigns apart from creates and reparents, the  *)
(* commands run statement by statement implement the atomic ones.           *)
THEOREM DbImplements ==
    ASSUME ReparentsAlone, AssignsApart
    PROVE  Spec => Implements
<1>1. Init => Taxon!Init
  BY DEF Init, Taxon!Init
<1>2. Typed /\ RootInv /\ CycleInv /\ LeafInv /\ [Next]_vars => [Taxon!Next]_(Taxon!vars)
  <2>. SUFFICES ASSUME Typed, RootInv, CycleInv, LeafInv, [Next]_vars
                PROVE  Taxon!Next \/ UNCHANGED tables
    BY DEF tables, Taxon!vars
  <2>1. CASE UNCHANGED vars
    BY <2>1 DEF vars, tables
  <2>2. ASSUME NEW s \in Session, Start(s) \/ Read(s) \/ Write(s) \/ Crash(s)
        PROVE  UNCHANGED tables
    BY <2>2, CommandFound DEF Quiet
  <2>3. ASSUME NEW s \in Session, Commit(s)  PROVE Taxon!Next
    BY <2>3, CommitIsCommand
  <2>4. ASSUME NEW p \in Product, Ingest(p)  PROVE Taxon!Next
    BY <2>4 DEF Ingest, Taxon!Ingest, Taxon!Next
  <2>. QED  BY <2>1, <2>2, <2>3, <2>4 DEF Next
<1>3. Spec => [](Typed /\ RootInv /\ CycleInv /\ LeafInv)
  BY DbRootInv, DbCycleInv, DbLeafInv, PTL
<1>. QED  BY <1>1, <1>2, <1>3, PTL DEF Spec, Implements, Taxon!Spec
=============================================================================
