SPECIFICATION FairSpec
CONSTANTS
    migros = migros
    coop = coop
    m1 = m1
    m2 = m2
    m3 = m3
    k1 = k1
    f0 = f0
    f1 = f1
    f2 = f2
    f3 = f3
    bad = bad
    Retailer = {migros, coop}
    Identity = {m1, m2, m3, k1}
    Content = {f1, f2, f3}
    Untrusted = Untrusted
    Malformed = {}
    Rows <- Files
    NsOf <- Shops
    Filter <- BulkOnly
    Order <- MigrosFirst
    Policy = {v1}
    Session = {s1, s2}
    MaxFiles = 2
    Overlap = TRUE
    AnyFile = FALSE
    Wanted = {{migros, coop}}
INVARIANTS
    TypeOK
PROPERTIES
    Implements
    RunsEnd
