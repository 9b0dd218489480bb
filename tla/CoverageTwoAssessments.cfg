SPECIFICATION Spec
CONSTANTS
    Controls = {"c1", "c2"}
    Objectives = {"o1", "o2"}
    ControlOf <- MCControlOf
    Weight <- MCWeight
    Assessments = {a1, a2}
    Products = {p1}
    MaxVersion = 1
    Baseline <- MCBaseline
    Artifacts = {}
    Uploads = {}
    Records = {}
    PatchStatuses = {"met"}
    p1 = p1
    p2 = p2
    k1 = k1
    k2 = k2
INVARIANTS ContributorsAreCurrent
