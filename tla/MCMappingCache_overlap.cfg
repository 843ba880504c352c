SPECIFICATION FairSpec
CONSTANTS
    a1 = a1
    a2 = a2
    p1 = p1
    p2 = p2
    m1 = m1
    m2 = m2
    c1 = c1
    c2 = c2
    k1 = k1
    k2 = k2
    s1 = s1
    s2 = s2
    NoRow = NoRow
    Admins = {a1, a2}
    ProviderIds = {p1}
    RuleIds = {m1}
    Codes = {c1}
    Keys = {k1}
    Settings = {s1, s2}
INVARIANTS
    TypeOK
    FreshUnlessOvertaken
PROPERTIES
    RefreshLands
    RevivedOnlyByOverlap
