CONSTANTS
    p1 = p1
    p2 = p2
    x1 = x1
    x2 = x2
    apple = apple
    lemon = lemon
    c1 = c1
    c2 = c2
    NoCategory = NoCategory
    List = List
    Process = {p1, p2}
    Product = {x1, x2}
    Name = {apple, lemon}
    Client = {c1, c2}
    Attribute = {weight}
    Given = {2}
    MaxSchemas = 2
    MaxUses = 2
    MaxAnswers = 2
    Retries = 2
    Answer <- MCAnswer
    Filter <- MCFilter
    Scenarios <- MCScenarios
SPECIFICATION FairSpec
INVARIANTS TypeOK EverythingStoredIsLogged ShownIsLogged CountNeverLow LinksMatchOutput UsageIsCalls
           VersionsCountUp NeverBlank
PROPERTIES ResultIsStored RunsEndOrAwaitProvider
CHECK_DEADLOCK FALSE
