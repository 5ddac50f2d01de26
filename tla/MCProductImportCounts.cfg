CONSTANTS
    i1 = i1
    i2 = i2
    asc = asc
    desc = desc
    long = long
    odd = odd
    cut = cut
    stray = stray
    pieces = pieces
    Importer = {i1, i2}
    File = {asc, desc, long, odd, cut, stray, pieces}
    NoFile = NoFile
    Rows <- MCRows
    Broken = {cut}
    Shop <- MCShop
    Filter = {"all", "coop", "aldi"}
    BatchSize = 2
    Category = {drinks}
    NoCategory = NoCategory
    Scenarios <- MCScenarios
SPECIFICATION Spec
INVARIANTS CountsMatchStore
CHECK_DEADLOCK FALSE
