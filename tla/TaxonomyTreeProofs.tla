------------------------- MODULE TaxonomyTreeProofs -------------------------
(***************************************************************************)
(* Lemmas about parent maps of every size: what the set definitions of      *)
(* TaxonomyTree are worth, and that the cycle check decides the write.      *)
(***************************************************************************)
EXTENDS TaxonomyTree, TLAPS

(* The rows of the category table as the foreign key leaves them: every     *)
(* parent_id is NULL or the id of a row.                                    *)
ForeignKey(parents) ==
    /\ parents \in [DOMAIN parents -> DOMAIN parents \cup {NoParent}]
    /\ NoParent \notin DOMAIN parents

(* A nonempty acyclic tree has a root.                                      *)
LEMMA AcyclicHasRoot ==
    ASSUME NEW parents, ForeignKey(parents), Acyclic(parents),
           DOMAIN parents # {}
    PROVE  Roots(parents) # {}
<1>1. PICK c \in DOMAIN parents : ParentOf(parents, c) \notin DOMAIN parents
  BY DEF Acyclic, WellFounded
<1>2. parents[c] = NoParent
  BY <1>1 DEF ForeignKey, ParentOf
<1>. QED  BY <1>2 DEF Roots, Children

(* A category just created under an existing one, or as a root, is on no    *)
(* cycle.                                                                   *)
LEMMA NewCategoryKeepsAcyclic ==
    ASSUME NEW parents, ForeignKey(parents), Acyclic(parents),
           NEW c, c \notin DOMAIN parents, c # NoParent,
           NEW p \in DOMAIN parents \cup {NoParent}
    PROVE  Acyclic(Put(parents, c, p))
<1>. DEFINE new == Put(parents, c, p)
<1>1. /\ DOMAIN new = DOMAIN parents \cup {c}
      /\ new[c] = p
      /\ \A d \in DOMAIN parents : new[d] = parents[d]
  BY DEF Put
<1>. SUFFICES ASSUME NEW S \in SUBSET (DOMAIN parents \cup {c}), S # {}
              PROVE  \E d \in S : ParentOf(new, d) \notin S
  BY <1>1 DEF Acyclic, WellFounded
<1>2. CASE S = {c}
  BY <1>1, <1>2 DEF ParentOf
<1>3. CASE S # {c}
  <2>. DEFINE T == S \ {c}
  <2>1. T \in SUBSET DOMAIN parents /\ T # {}
    BY <1>3
  <2>2. PICK d \in T : ParentOf(parents, d) \notin T
    BY <2>1 DEF Acyclic, WellFounded
  <2>3. d \in DOMAIN parents /\ parents[d] \notin T /\ parents[d] # c
    BY <2>1, <2>2 DEF ParentOf, ForeignKey
  <2>4. ParentOf(new, d) = parents[d]
    BY <1>1, <2>3 DEF ParentOf
  <2>. QED  BY <2>2, <2>3, <2>4
<1>. QED  BY <1>2, <1>3

(* The cycle check is sound: an edge it lets through closes no cycle.       *)
LEMMA SafeEdgeKeepsAcyclic ==
    ASSUME NEW parents, ForeignKey(parents), Acyclic(parents),
           NEW c \in DOMAIN parents, NEW p \in DOMAIN parents,
           ~ WouldCreateCycle(parents, c, p)
    PROVE  Acyclic(Put(parents, c, p))
<1>. DEFINE new == Put(parents, c, p)
<1>1. /\ DOMAIN new = DOMAIN parents
      /\ new[c] = p
      /\ \A d \in DOMAIN parents : d # c => new[d] = parents[d]
  BY DEF Put
<1>2. PICK P : /\ p \in P /\ c \notin P
               /\ Closed(parents, P) /\ WellFounded(parents, P)
  BY DEF WouldCreateCycle, SafeParent
<1>. SUFFICES ASSUME NEW S \in SUBSET DOMAIN parents, S # {}
              PROVE  \E d \in S : ParentOf(new, d) \notin S
  BY <1>1 DEF Acyclic, WellFounded
<1>3. CASE c \notin S
  <2>1. PICK d \in S : ParentOf(parents, d) \notin S
    BY DEF Acyclic, WellFounded
  <2>. QED  BY <1>1, <1>3, <2>1 DEF ParentOf
<1>4. CASE c \in S /\ p \notin S
  BY <1>1, <1>4 DEF ParentOf
<1>5. CASE c \in S /\ p \in S
  <2>1. S \cap P \in SUBSET P /\ S \cap P # {}
    BY <1>2, <1>5
  <2>2. PICK d \in S \cap P : ParentOf(parents, d) \notin S \cap P
    BY <1>2, <2>1 DEF WellFounded
  <2>3. ParentOf(parents, d) \in P \cup {NoParent}
    BY <1>2, <2>2 DEF Closed
  <2>4. ParentOf(parents, d) \notin S
    BY <2>2, <2>3 DEF ForeignKey
  <2>5. d # c /\ ParentOf(new, d) = ParentOf(parents, d)
    BY <1>1, <1>2, <2>2 DEF ParentOf
  <2>. QED  BY <2>2, <2>4, <2>5
<1>. QED  BY <1>3, <1>4, <1>5

(* The cycle check is no stricter than needed: an edge it refuses over an   *)
(* acyclic tree would have closed a cycle.  K below is the part of the walk *)
(* that leads to c.                                                         *)
LEMMA RefusedEdgeClosesCycle ==
    ASSUME NEW parents, ForeignKey(parents), Acyclic(parents),
           NEW c \in DOMAIN parents, NEW p \in DOMAIN parents,
           WouldCreateCycle(parents, c, p)
    PROVE  ~ Acyclic(Put(parents, c, p))
<1>. DEFINE new == Put(parents, c, p)
            Above(d) == {Q \in SUBSET DOMAIN parents : d \in Q /\ Closed(parents, Q)}
            K == {d \in DOMAIN parents : \A Q \in Above(d) : c \in Q}
<1>1. /\ DOMAIN new = DOMAIN parents
      /\ new[c] = p
      /\ \A d \in DOMAIN parents : d # c => new[d] = parents[d]
  BY DEF Put
<1>2. p \in K
  <2>. SUFFICES ASSUME NEW Q \in SUBSET DOMAIN parents, p \in Q,
                       Closed(parents, Q), c \notin Q
                PROVE  FALSE
    OBVIOUS
  <2>1. WellFounded(parents, Q)
    BY DEF Acyclic, WellFounded
  <2>2. Q \in SUBSET (Named(parents) \cup {p})
    BY DEF Named
  <2>. QED  BY <2>1, <2>2 DEF WouldCreateCycle, SafeParent
<1>3. ASSUME NEW d \in K, d # c  PROVE  parents[d] \in K
  <2>1. parents[d] # NoParent
    <3>1. SUFFICES ASSUME parents[d] = NoParent  PROVE {d} \in Above(d)
      BY <1>3
    <3>. QED  BY <3>1 DEF Closed, ParentOf
  <2>2. parents[d] \in DOMAIN parents
    BY <2>1 DEF ForeignKey
  <2>3. ASSUME NEW Q \in Above(parents[d])  PROVE  c \in Q
    <3>1. Q \cup {d} \in Above(d)
      BY <2>2, <2>3 DEF Closed, ParentOf
    <3>. QED  BY <1>3, <3>1
  <2>. QED  BY <2>2, <2>3
<1>4. \A d \in K : ParentOf(new, d) \in K
  BY <1>1, <1>2, <1>3 DEF ParentOf
<1>5. K \in SUBSET DOMAIN new /\ K # {}
  BY <1>1, <1>2
<1>. QED  BY <1>4, <1>5 DEF Acyclic, WellFounded

(* A reparent that was found safe stays safe while others only create.      *)
LEMMA NewCategoryKeepsSafe ==
    ASSUME NEW parents, ForeignKey(parents),
           NEW c, c \notin DOMAIN parents, c # NoParent,
           NEW q \in DOMAIN parents \cup {NoParent},
           NEW d, NEW p \in DOMAIN parents,
           ~ WouldCreateCycle(parents, d, p)
    PROVE  ~ WouldCreateCycle(Put(parents, c, q), d, p)
<1>. DEFINE new == Put(parents, c, q)
<1>1. /\ DOMAIN new = DOMAIN parents \cup {c}
      /\ \A e \in DOMAIN parents : new[e] = parents[e]
  BY DEF Put
<1>2. PICK P \in SUBSET (Named(parents) \cup {p}) :
               /\ p \in P /\ d \notin P
               /\ Closed(parents, P) /\ WellFounded(parents, P)
  BY DEF WouldCreateCycle, SafeParent
<1>3. Named(parents) \subseteq DOMAIN parents
  BY DEF Named, ForeignKey
<1>4. P \subseteq DOMAIN parents
  BY <1>2, <1>3
<1>5. \A e \in P : ParentOf(new, e) = ParentOf(parents, e)
  BY <1>1, <1>4 DEF ParentOf
<1>6. Closed(new, P) /\ WellFounded(new, P)
  BY <1>2, <1>5 DEF Closed, WellFounded
<1>7. P \in SUBSET (Named(new) \cup {p})
  BY <1>1, <1>4 DEF Named
<1>. QED  BY <1>2, <1>6, <1>7 DEF WouldCreateCycle, SafeParent

(* The root cannot be moved: everything is below it.  The tree need not be  *)
(* acyclic: a category on a detached cycle is no safe parent either.        *)
LEMMA RootIsNeverSafe ==
    ASSUME NEW parents, ForeignKey(parents),
           NEW r \in Roots(parents), \A c \in Roots(parents) : c = r,
           NEW p \in DOMAIN parents
    PROVE  WouldCreateCycle(parents, r, p)
<1>. SUFFICES ASSUME NEW P \in SUBSET (Named(parents) \cup {p}), p \in P, r \notin P,
                     Closed(parents, P), WellFounded(parents, P)
              PROVE  FALSE
  BY DEF WouldCreateCycle, SafeParent
<1>1. P \subseteq DOMAIN parents
  BY DEF Named, ForeignKey
<1>2. PICK c \in P : ParentOf(parents, c) \notin P
  BY DEF WellFounded
<1>3. ParentOf(parents, c) = NoParent
  BY <1>2 DEF Closed
<1>4. c \in Roots(parents)
  BY <1>1, <1>3 DEF Roots, Children, ParentOf
<1>. QED  BY <1>4

(* format_taxonomy_tree prints every category of an acyclic tree.           *)
LEMMA AcyclicIsShown ==
    ASSUME NEW parents, ForeignKey(parents), Acyclic(parents)
    PROVE  Shown(parents) = DOMAIN parents
<1>. SUFFICES ASSUME NEW S \in SUBSET DOMAIN parents, Roots(parents) \subseteq S,
                     \A d \in S : Children(parents, d) \subseteq S,
                     DOMAIN parents \ S # {}
              PROVE  FALSE
  BY DEF Shown
<1>. DEFINE T == DOMAIN parents \ S
<1>1. PICK c \in T : ParentOf(parents, c) \notin T
  BY DEF Acyclic, WellFounded
<1>2. parents[c] = NoParent \/ parents[c] \in S
  BY <1>1 DEF ParentOf, ForeignKey
<1>. QED  BY <1>1, <1>2 DEF Roots, Children
=============================================================================
