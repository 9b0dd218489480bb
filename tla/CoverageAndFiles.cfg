\* One component at a time; see MCCoverageAndFiles.
SPECIFICATION FilesSpec
CONSTANTS
    Controls = {"c1", "c2"}
    Objectives = {"o1", "o2"}
    ControlOf <- MCControlOf
    Weight <- MCWeight
    Assessments = {a1}
    Products = {p1, p2}
    MaxVersion = 2
    Baseline <- MCBaseline
    Artifacts = {k1, k2}
    Uploads = {e1}
    Records = {r1}
    PatchStatuses = {"met", "not_applicable"}
    p1 = p1
    p2 = p2
    k1 = k1
    k2 = k2
    Keys = {x1, x2}
    CuRequests = {q1, q2}
    CuMax = 2
    Keep = 2
    SnapCap = 5
    MaxSnaps = 3
    CuCrashMax = 1
SYMMETRY FilesSymmetry
CONSTRAINT Slice
INVARIANTS
    FilesTypeOK
    DerivedRowsFollow
    WorkFollowsProducts
    FilesAreSafe
PROPERTIES
    PeoplesWorkStands
    KeepsTheNewest
