\* One component at a time; see MCAssessmentTxn.
SPECIFICATION TxnSpec
CONSTANTS
    Controls = {"c1", "c2"}
    Objectives = {"o1", "o2"}
    ControlOf <- MCControlOf
    Weight <- MCWeight
    Requests = {r1, r2}
    Products = {p1}
    Versions = {1, 2}
    Claim <- MCClaim
    Current <- MCCurrent
    Operations = {"patch", "activate", "deactivate", "move", "snapshot", "detach"}
    PatchStatuses = {"met"}
    BdControls = {"c1", "c2"}
    BdObjectives = {1, 2, 3}
    BdControlOf <- MCBdControlOf
    BdWeight <- MCWeight
    BdStatuses = {"met", "inherited", "not_applicable"}
    Artifacts = {1, 2, 3, 4, 5}
    ArtifactRow <- MCArtifactRow
    BdLists = {"l1"}
    Chosen <- MCChosen
    People = {"ann"}
    Assets = {1, 2, 3}
    BdFold <- MCBdFold
    BdMax = 3
    BdRaced = 2
    EvOrgs = {"a", "b"}
    EnvironmentIds = {1, 2}
    Responsible <- MCResponsible
    EvRequests = {r1, r2}
    EvMax = 2
    r1 = r1
    r2 = r2
    p1 = p1
    p2 = p2
SYMMETRY RequestSymmetry
CONSTRAINT Slice
INVARIANTS
    TxnTypeOK
    SeriesIsCurrent
    BundleIsConsistent
    BundleIsComplete
    PendingIsAnnounced
PROPERTIES
    ScoreWritesAreRight
    EnvironmentsStayApart
