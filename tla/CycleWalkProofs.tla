--------------------------- MODULE CycleWalkProofs ---------------------------
(***************************************************************************)
(* Partial correctness of the loop of would_create_cycle, for every set of  *)
(* categories and every parent map over it.                                 *)
(***************************************************************************)
EXTENDS CycleWalk, TaxonomyTreeProofs

Meetable == Named(parents) \cup {newParent}

(* What the loop keeps: "seen" is the walk so far, in order to be followed  *)
(* by "current".                                                            *)
WalkInv ==
    /\ category \notin seen
    /\ newParent \in seen \cup {current}
    /\ seen \subseteq Meetable
    /\ current \in Meetable \cup {NoParent}
    /\ NoParent \notin Meetable
    \* the parent of what was met was met too, or comes next
    /\ \A c \in seen : ParentOf(parents, c) \in seen \cup {current}
    \* no circle inside "seen" but through "current"
    /\ \A S \in SUBSET seen : S # {} =>
            \E c \in S : ParentOf(parents, c) \notin S \/ ParentOf(parents, c) = current
    \* the walk stays in every ancestor-closed set it starts in
    /\ \A P \in SUBSET Meetable :
            newParent \in P /\ Closed(parents, P) =>
                seen \subseteq P /\ current \in P \cup {NoParent}
    /\ result = "cycle" => current # NoParent /\ (current = category \/ current \in seen)
    /\ result = "safe" => current = NoParent

LEMMA CycleWalkTyped == Spec => []TypeOK
<1>1. Init => TypeOK
  BY DEF Init, TypeOK
<1>2. TypeOK /\ [Next]_vars => TypeOK'
  <2>. SUFFICES ASSUME TypeOK, [Next]_vars  PROVE TypeOK'
    OBVIOUS
  <2>. USE DEF TypeOK, arguments
  <2>1. CASE Next /\ ReturnTrue
    BY <2>1 DEF Next, ReturnTrue
  <2>2. CASE Next /\ Advance
    <3>1. PICK known \in SUBSET Category : parents \in [known -> Category \cup {NoParent}]
      BY DEF ParentMaps
    <3>2. ParentOf(parents, current) \in Category \cup {NoParent}
      BY <3>1 DEF ParentOf
    <3>. QED  BY <2>2, <3>2 DEF Next, Advance
  <2>3. CASE Next /\ ReturnFalse
    BY <2>3 DEF Next, ReturnFalse
  <2>4. CASE UNCHANGED vars
    BY <2>4 DEF vars
  <2>. QED  BY <2>1, <2>2, <2>3, <2>4 DEF Next
<1>. QED  BY <1>1, <1>2, PTL DEF Spec

LEMMA WalkInvInductive ==
    ASSUME TypeOK, WalkInv, [Next]_vars
    PROVE  WalkInv'
<1>1. CASE Next /\ ReturnTrue
  BY <1>1 DEF Next, ReturnTrue, WalkInv, Meetable, arguments
<1>2. CASE Next /\ ReturnFalse
  BY <1>2 DEF Next, ReturnFalse, WalkInv, Meetable, arguments
<1>3. CASE Next /\ Advance
  <2>1. /\ current # NoParent /\ current # category /\ current \notin seen
        /\ seen' = seen \cup {current}
        /\ current' = ParentOf(parents, current)
        /\ result' = "running"
        /\ parents' = parents /\ category' = category /\ newParent' = newParent
        /\ Meetable' = Meetable
    BY <1>3 DEF Next, Advance, arguments, Meetable
  <2>2. current \in Meetable
    BY <2>1 DEF WalkInv
  <2>3. current' \in Meetable \cup {NoParent}
    BY <2>1 DEF ParentOf, Meetable, Named
  <2>4. \A c \in seen' : ParentOf(parents, c) \in seen' \cup {current'}
    BY <2>1 DEF WalkInv
  <2>5. ASSUME NEW S \in SUBSET seen', S # {}
        PROVE  \E c \in S : \/ ParentOf(parents, c) \notin S
                            \/ ParentOf(parents, c) = current'
    <3>1. CASE current \in S
      BY <2>1, <3>1
    <3>2. CASE current \notin S
      BY <2>1, <2>5, <3>2 DEF WalkInv
    <3>. QED  BY <3>1, <3>2
  <2>6. ASSUME NEW P \in SUBSET Meetable, newParent \in P, Closed(parents, P)
        PROVE  seen' \subseteq P /\ current' \in P \cup {NoParent}
    <3>1. seen \subseteq P /\ current \in P
      BY <2>1, <2>6 DEF WalkInv
    <3>. QED  BY <2>1, <2>6, <3>1 DEF Closed
  <2>7. category' \notin seen' /\ newParent' \in seen' \cup {current'}
    BY <2>1 DEF WalkInv
  <2>. QED  BY <2>1, <2>2, <2>3, <2>4, <2>5, <2>6, <2>7 DEF WalkInv
<1>4. CASE UNCHANGED vars
  BY <1>4 DEF vars, WalkInv, Meetable
<1>. QED  BY <1>1, <1>2, <1>3, <1>4 DEF Next

LEMMA WalkInvHolds == Spec => [](TypeOK /\ WalkInv)
<1>1. Init /\ TypeOK => WalkInv
  <2>. SUFFICES ASSUME Init, TypeOK  PROVE WalkInv
    OBVIOUS
  <2>1. NoParent \notin Meetable
    BY NoParentIsNoCategory DEF Meetable, Named, TypeOK, ParentMaps
  <2>. QED  BY <2>1 DEF Init, WalkInv, Meetable
<1>2. TypeOK /\ WalkInv /\ [Next]_vars => WalkInv'
  BY WalkInvInductive
<1>. QED  BY <1>1, <1>2, CycleWalkTyped, PTL DEF Spec

(* Whatever rows the walk is given, corrupt ones included, its answer is    *)
(* the one WouldCreateCycle defines.                                        *)
THEOREM WalkAnswers == Spec => []AnswerIsWouldCreateCycle
<1>1. WalkInv => AnswerIsWouldCreateCycle
  <2>. SUFFICES ASSUME WalkInv  PROVE AnswerIsWouldCreateCycle
    OBVIOUS
  <2>1. ASSUME result = "cycle",
               NEW P \in SUBSET Meetable, newParent \in P, category \notin P,
               Closed(parents, P), WellFounded(parents, P)
        PROVE  FALSE
    <3>1. seen \subseteq P /\ current \in P /\ current \in seen
      BY <2>1 DEF WalkInv
    <3>2. \A c \in seen : ParentOf(parents, c) \in seen
      BY <3>1 DEF WalkInv
    <3>. QED  BY <2>1, <3>1, <3>2 DEF WellFounded
  <2>2. ASSUME result = "safe"
        PROVE  SafeParent(parents, category, newParent)
    <3>1. current = NoParent /\ newParent \in seen /\ category \notin seen
      BY <2>2 DEF WalkInv, Meetable
    <3>2. Closed(parents, seen)
      BY <3>1 DEF WalkInv, Closed
    <3>3. WellFounded(parents, seen)
      BY <3>1 DEF WalkInv, WellFounded
    <3>. QED  BY <3>1, <3>2, <3>3 DEF SafeParent, WalkInv, Meetable
  <2>. QED
    BY <2>1, <2>2 DEF AnswerIsWouldCreateCycle, WouldCreateCycle, SafeParent, Meetable
<1>. QED  BY <1>1, WalkInvHolds, PTL

(* Over a proper tree the answer is False exactly when writing the edge     *)
(* keeps the tree acyclic.                                                  *)
THEOREM WalkDecidesTheWrite == Spec => []AnswerDecidesTheWrite
<1>1. TypeOK /\ AnswerIsWouldCreateCycle => AnswerDecidesTheWrite
  <2>. SUFFICES ASSUME TypeOK, AnswerIsWouldCreateCycle, Acyclic(parents),
                       Closed(parents, DOMAIN parents),
                       category \in DOMAIN parents, newParent \in DOMAIN parents
                PROVE  /\ result = "cycle" => ~ Acyclic(Put(parents, category, newParent))
                       /\ result = "safe" => Acyclic(Put(parents, category, newParent))
    BY DEF AnswerDecidesTheWrite
  <2>1. ForeignKey(parents)
    BY NoParentIsNoCategory DEF TypeOK, ParentMaps, Closed, ParentOf, ForeignKey
  <2>2. CASE result = "cycle"
    BY <2>1, <2>2, RefusedEdgeClosesCycle DEF AnswerIsWouldCreateCycle
  <2>3. CASE result = "safe"
    BY <2>1, <2>3, SafeEdgeKeepsAcyclic DEF AnswerIsWouldCreateCycle
  <2>. QED  BY <2>2, <2>3
<1>. QED  BY <1>1, WalkAnswers, CycleWalkTyped, PTL
=============================================================================
