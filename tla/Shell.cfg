SPECIFICATION MCSpec
CONSTANTS
    t1 = t1
    t2 = t2
    None = None
    Tenants = {t1, t2}
    MaxNet = 2
    MaxUser = 2
    Agents = {a1, a2}
    Legacy = {a2}
    AdminNet = 3
    AdminUser = 4
INVARIANTS
    ShellTypeOK
    LandingWhenOut
    ProgressHasCause
    PanelNeverBlank
PROPERTIES
    ShellBoots
    Settles
    PanelLoads
