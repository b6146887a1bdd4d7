SPECIFICATION Spec
CONSTANTS
    Modules = {"abstract"}
    MaxDay = 2
    f1 = f1
    g1 = g1
    p1 = p1
    p2 = p2
    FormTabs = {f1}
    PanelTabs = {g1}
    Zone <- East
    Requests = {p1, p2}
    Scenarios <- SetupScenarios
    MaxWrites = 2
    MaxTyped = 1
    NoTab = NoTab
CHECK_DEADLOCK FALSE
INVARIANTS
    TypeOK
    StagesInOrder
    FormKeepsEntered
    PreviewFollowsTemplate
    RefetchShowsWrite
