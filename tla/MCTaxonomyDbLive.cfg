SPECIFICATION FairSpec
CONSTANTS
    Category = {c1, c2, c3}
    Product = {p1}
    Session = {s1, s2}
    NoParent = NoParent
    Overlap <- OneAssign
INVARIANTS
    TypeOK
    OneRoot
PROPERTIES
    RootIsPermanent
    CommandsEnd
