\* One component at a time; see MCEstate.
SPECIFICATION EstateSpec
CONSTANTS
    Users = {f, x1, x2}
    Orgs = {root, o1}
    Founder = f
    Root = root
    MemRequests = {q1, q2}
    MemMax = 4
    MemRaced = 3
    c1 = c1
    c2 = c2
    Controls = {c1, c2}
    Files <- SomeFiles
    Answers <- SomeAnswers
    Urls <- SomeUrls
    Web <- SomeWeb
    MaxRedirects = 1
    Imports = {q1, q2}
    MaxVersions = 2
    LibMax = 4
    w1 = x1
    w2 = x2
    NoWorker = NoWorker
    Workers <- MCWorkers
    Registry <- MCRegistry
    Interval <- MCInterval
    MaxTime = 1
    MaxCrashes = 1
    MaxDrops = 0
    Contacts = {k1, k2}
    Client = k1
    CwObjectives = {j1, j2}
    Opening = j1
    Staff = {x1, x2}
    Year = 1
    CwLast = 1
    CwRequests = {q1, q2}
    CwMax = 3
    CwRaced = 2
    CwCrashMax = 1
    Connectors = {x1, x2}
    Secrets = {"old", "new"}
    Labels = {"k1", "k2", "k3"}
    FirstLabel = "k1"
    CrRequests = {q1, q2}
    CrMax = 6
SYMMETRY EstateSymmetry
INVARIANTS
    EstateTypeOK
    MutualExclusion
    OneRunningRow
    MembershipsAreSound
    LibraryIsSound
    CaseworkIsSound
    CredentialsAreSound
PROPERTIES
    HistoryIsFinal
    ImplementsLedger
    CompletedWorkStands
