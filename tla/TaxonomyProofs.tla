--------------------------- MODULE TaxonomyProofs ---------------------------
(***************************************************************************)
(* The promises of the atomic taxonomy commands, for every set of           *)
(* categories and products.                                                 *)
(***************************************************************************)
EXTENDS Taxonomy, TaxonomyTreeProofs

LEMMA TaxonomyTyped == Spec => []TypeOK
<1>1. Init => TypeOK
  BY DEF Init, TypeOK, categories
<1>2. TypeOK /\ [Next]_vars => TypeOK'
  <2>. SUFFICES ASSUME TypeOK, [Next]_vars  PROVE TypeOK'
    OBVIOUS
  <2>. USE DEF TypeOK, categories
  <2>1. ASSUME NEW p \in Product, Ingest(p)  PROVE TypeOK'
    BY <2>1 DEF Ingest
  <2>2. ASSUME NEW c \in Category, NEW p \in Category \cup {NoParent}, CreateCategory(c, p)
        PROVE TypeOK'
    BY <2>2 DEF CreateCategory, Put
  <2>3. ASSUME NEW c \in Category, NEW p \in Category, ReparentCategory(c, p)
        PROVE TypeOK'
    BY <2>3 DEF ReparentCategory, Put
  <2>4. ASSUME NEW p \in Product, NEW leaf \in Category, AssignProduct(p, leaf)
        PROVE TypeOK'
    BY <2>4 DEF AssignProduct, Put
  <2>5. CASE UNCHANGED vars
    BY <2>5 DEF vars
  <2>. QED  BY <2>1, <2>2, <2>3, <2>4, <2>5 DEF Next
<1>. QED  BY <1>1, <1>2, PTL DEF Spec

LEMMA TypedForeignKey == TypeOK => ForeignKey(parent)
BY NoParentIsNoCategory DEF TypeOK, categories, ForeignKey

(* The tree stays acyclic through every create and every reparent.          *)
THEOREM TaxonomyAcyclic == Spec => []TreeIsAcyclic
<1>1. Init => TreeIsAcyclic
  BY DEF Init, TreeIsAcyclic, Acyclic, WellFounded
<1>2. TypeOK /\ TreeIsAcyclic /\ [Next]_vars => TreeIsAcyclic'
  <2>. SUFFICES ASSUME TypeOK, TreeIsAcyclic, [Next]_vars  PROVE TreeIsAcyclic'
    OBVIOUS
  <2>. USE DEF TreeIsAcyclic
  <2>0. ForeignKey(parent)
    BY TypedForeignKey
  <2>1. ASSUME NEW p \in Product, Ingest(p)  PROVE TreeIsAcyclic'
    BY <2>1 DEF Ingest
  <2>2. ASSUME NEW c \in Category, NEW p \in Category \cup {NoParent}, CreateCategory(c, p)
        PROVE TreeIsAcyclic'
    <3>1. /\ c \notin DOMAIN parent /\ c # NoParent
          /\ p \in DOMAIN parent \cup {NoParent}
          /\ parent' = Put(parent, c, p)
      BY <2>2, NoParentIsNoCategory DEF CreateCategory, categories
    <3>. QED  BY <2>0, <3>1, NewCategoryKeepsAcyclic
  <2>3. ASSUME NEW c \in Category, NEW p \in Category, ReparentCategory(c, p)
        PROVE TreeIsAcyclic'
    <3>1. /\ c \in DOMAIN parent /\ p \in DOMAIN parent
          /\ ~ WouldCreateCycle(parent, c, p)
          /\ parent' = Put(parent, c, p)
      BY <2>3 DEF ReparentCategory, categories
    <3>. QED  BY <2>0, <3>1, SafeEdgeKeepsAcyclic
  <2>4. ASSUME NEW p \in Product, NEW leaf \in Category, AssignProduct(p, leaf)
        PROVE TreeIsAcyclic'
    BY <2>4 DEF AssignProduct
  <2>5. CASE UNCHANGED vars
    BY <2>5 DEF vars
  <2>. QED  BY <2>1, <2>2, <2>3, <2>4, <2>5 DEF Next
<1>. QED  BY <1>1, <1>2, TaxonomyTyped, PTL DEF Spec

(* There is one root from the first create on, and only one.                *)
THEOREM TaxonomyOneRoot == Spec => []OneRoot
<1>. DEFINE AtMostOne == \A c, d \in Roots(parent) : c = d
<1>1. Init => AtMostOne
  BY DEF Init, Roots, Children
<1>2. TypeOK /\ AtMostOne /\ [Next]_vars => AtMostOne'
  <2>. SUFFICES ASSUME TypeOK, AtMostOne, [Next]_vars  PROVE AtMostOne'
    OBVIOUS
  <2>. USE DEF Roots, Children
  <2>1. ASSUME NEW p \in Product, Ingest(p)  PROVE AtMostOne'
    BY <2>1 DEF Ingest
  <2>2. ASSUME NEW c \in Category, NEW p \in Category \cup {NoParent}, CreateCategory(c, p)
        PROVE AtMostOne'
    BY <2>2 DEF CreateCategory, Put
  <2>3. ASSUME NEW c \in Category, NEW p \in Category, ReparentCategory(c, p)
        PROVE AtMostOne'
    BY <2>3, NoParentIsNoCategory DEF ReparentCategory, Put
  <2>4. ASSUME NEW p \in Product, NEW leaf \in Category, AssignProduct(p, leaf)
        PROVE AtMostOne'
    BY <2>4 DEF AssignProduct
  <2>5. CASE UNCHANGED vars
    BY <2>5 DEF vars
  <2>. QED  BY <2>1, <2>2, <2>3, <2>4, <2>5 DEF Next
<1>3. TypeOK /\ TreeIsAcyclic /\ AtMostOne => OneRoot
  BY TypedForeignKey, AcyclicHasRoot DEF OneRoot, TreeIsAcyclic, categories
<1>. QED  BY <1>1, <1>2, <1>3, TaxonomyTyped, TaxonomyAcyclic, PTL DEF Spec

(* No command leaves a product on a category that has children.             *)
THEOREM TaxonomyMembersOnLeaves == Spec => []MembersOnLeaves
<1>1. Init => MembersOnLeaves
  BY DEF Init, MembersOnLeaves
<1>2. TypeOK /\ MembersOnLeaves /\ [Next]_vars => MembersOnLeaves'
  <2>. SUFFICES ASSUME TypeOK, MembersOnLeaves, [Next]_vars  PROVE MembersOnLeaves'
    OBVIOUS
  <2>. USE DEF MembersOnLeaves, IsLeaf, Children, TypeOK, categories
  <2>1. ASSUME NEW p \in Product, Ingest(p)  PROVE MembersOnLeaves'
    BY <2>1 DEF Ingest
  <2>2. ASSUME NEW c \in Category, NEW p \in Category \cup {NoParent}, CreateCategory(c, p)
        PROVE MembersOnLeaves'
    BY <2>2, NoParentIsNoCategory DEF CreateCategory, Put, Members
  <2>3. ASSUME NEW c \in Category, NEW p \in Category, ReparentCategory(c, p)
        PROVE MembersOnLeaves'
    BY <2>3 DEF ReparentCategory, Put, Members
  <2>4. ASSUME NEW p \in Product, NEW leaf \in Category, AssignProduct(p, leaf)
        PROVE MembersOnLeaves'
    BY <2>4 DEF AssignProduct, Put
  <2>5. CASE UNCHANGED vars
    BY <2>5 DEF vars
  <2>. QED  BY <2>1, <2>2, <2>3, <2>4, <2>5 DEF Next
<1>. QED  BY <1>1, <1>2, TaxonomyTyped, PTL DEF Spec

(* "taxonomy show" prints every category.                                   *)
THEOREM TaxonomyShowIsComplete == Spec => []ShowIsComplete
<1>1. TypeOK /\ TreeIsAcyclic => ShowIsComplete
  BY TypedForeignKey, AcyclicIsShown DEF ShowIsComplete, TreeIsAcyclic, categories
<1>. QED  BY <1>1, TaxonomyTyped, TaxonomyAcyclic, PTL

(* The first root is the root for ever.                                     *)
THEOREM TaxonomyRootIsPermanent == Spec => RootIsPermanent
<1>. DEFINE Keeps == Roots(parent) # {} => Roots(parent)' = Roots(parent)
<1>1. TypeOK /\ OneRoot /\ [Next]_vars => [Keeps]_vars
  <2>. SUFFICES ASSUME TypeOK, OneRoot, Next, Roots(parent) # {}
                PROVE  Roots(parent)' = Roots(parent)
    OBVIOUS
  <2>. USE DEF Roots, Children
  <2>1. ASSUME NEW p \in Product, Ingest(p)  PROVE Roots(parent)' = Roots(parent)
    BY <2>1 DEF Ingest
  <2>2. ASSUME NEW c \in Category, NEW p \in Category \cup {NoParent}, CreateCategory(c, p)
        PROVE Roots(parent)' = Roots(parent)
    BY <2>2 DEF CreateCategory, Put, categories
  <2>3. ASSUME NEW c \in Category, NEW p \in Category, ReparentCategory(c, p)
        PROVE Roots(parent)' = Roots(parent)
    <3>1. /\ c \in DOMAIN parent /\ p \in DOMAIN parent
          /\ ~ WouldCreateCycle(parent, c, p)
          /\ parent' = Put(parent, c, p)
      BY <2>3 DEF ReparentCategory, categories
    <3>2. c \notin Roots(parent)
      BY <3>1, TypedForeignKey, RootIsNeverSafe DEF OneRoot
    <3>. QED  BY <3>1, <3>2, NoParentIsNoCategory DEF Put
  <2>4. ASSUME NEW p \in Product, NEW leaf \in Category, AssignProduct(p, leaf)
        PROVE Roots(parent)' = Roots(parent)
    BY <2>4 DEF AssignProduct
  <2>. QED  BY <2>1, <2>2, <2>3, <2>4 DEF Next
<1>. QED  BY <1>1, TaxonomyTyped, TaxonomyOneRoot, PTL DEF Spec, RootIsPermanent
=============================================================================
