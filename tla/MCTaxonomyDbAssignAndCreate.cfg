SPECIFICATION Spec
CONSTANTS
    Category = {c1, c2, c3}
    Product = {p1}
    Session = {s1, s2}
    NoParent = NoParent
    Overlap <- AssignAndCreate
INVARIANTS
    MembersOnLeaves
SYMMETRY Symmetry
