SPECIFICATION MCSpec
CONSTANTS
    t1 = t1
    t2 = t2
    a1 = a1
    p1 = p1
    p2 = p2
    None = None
    Tenants = {t1, t2}
    Agents = {a1}
    Phones = {p1, p2}
    MaxNet = 2
    MaxUser = 4
    Codes = {c1, c2}
    Short = Short
    FormNet = 3
    Ranges = {r1, r2, r3}
    Jobs = {j1, j2}
    Rows = {w1, w2}
    PanelNet = 3
    PanelUser = 3
INVARIANTS
    PagesTypeOK
    NeverBlank
    InFlightIsShown
    OneRedeemOut
    PanelsAgree
PROPERTIES
    PageLoads
    VerdictComes
    PanelsLoad
