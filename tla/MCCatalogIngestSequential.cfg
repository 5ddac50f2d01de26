SPECIFICATION Spec
CONSTANTS
    migros = migros
    coop = coop
    m1 = m1
    m2 = m2
    m3 = m3
    k1 = k1
    f0 = f0
    f1 = f1
    f2 = f2
    f3 = f3
    bad = bad
    Retailer = {migros, coop}
    Identity = {m1, m2, m3, k1}
    Content = {f0, f1, f2, f3, bad}
    Untrusted = Untrusted
    Malformed = {bad}
    Rows <- Files
    NsOf <- Shops
    Filter <- BulkAndOne
    Order <- MigrosFirst
    Policy = {v1, v2}
    Session = {s1, s2}
    MaxFiles = 2
    Overlap = FALSE
    AnyFile = FALSE
    Wanted = {{migros, coop}, {coop}}
INVARIANTS
    OkMeansImported
    OnePolicy
    FactsWereObserved
PROPERTIES
    NeverOlder
    IdsAreStable
SYMMETRY Symmetry
