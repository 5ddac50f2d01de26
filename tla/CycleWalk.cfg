SPECIFICATION Spec
CONSTANTS
    Category = {c1, c2, c3, c4}
    NoParent = NoParent
INVARIANTS
    AnswerIsWouldCreateCycle
    AnswerDecidesTheWrite
PROPERTY
    Terminates
CHECK_DEADLOCK FALSE
