SPECIFICATION Spec
CONSTANTS
    r1 = r1
    r2 = r2
    r3 = r3
    t1 = t1
    t2 = t2
    t3 = t3
    Run <- Runs
    Tree <- Trees
    Catalog <- Names
    First = t1
    HeadOf <- Heads
    Selects <- Chosen
    Tests <- Testing
    Layout = "layout"
    None = None
    Groups = {"tests", "static"}
    Keeps = {0, 2}
    MaxUpsets = 1
SYMMETRY Symmetry
INVARIANTS
    EvidenceIsComplete
    StandsAlone
PROPERTIES
    KeepsNewest
CHECK_DEADLOCK FALSE
