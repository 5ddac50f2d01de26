SPECIFICATION Spec
CONSTANTS
    Category = {c1, c2, c3, c4}
    Product = {p1, p2}
    Session = {s1, s2}
    NoParent = NoParent
    Overlap <- RaceFree
INVARIANTS
    TreeIsAcyclic
    MembersOnLeaves
    ShowIsComplete
PROPERTIES
    Implements
SYMMETRY Symmetry
