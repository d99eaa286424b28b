SPECIFICATION MCSpec
CONSTANTS
    a = a
    b = b
    c = c
    u = u
    s = s
    t = t
    p1 = p1
    p2 = p2
    Groups = {a, b, c}
    Users = {u}
    Patterns = {}
    Relations = {"member", "dozent"}
    Member = "member"
    NoRelation = "none"
    Matches = {}
    Sources = {s, t}
    Local = Local
    NoSource = NoSource
    Forever = Forever
    Absent = Absent
    LikeIds <- PlainIds
    Procs = {p1, p2}
    Requests <- SeparatedRequests
    APIToken = APIToken
    AdminTokens <- MCAdminTokens
    Registered = {s, t}
    InitReserved <- OwnNames
    Nobody = Nobody
    History <- Explaining
    MaxTime = 0
    Faults = FALSE
    r1 = r1
    r2 = r2
    Runs = {r1, r2}
    Deletion = Deletion
    Source = s
    Files <- MCFiles
    Earlier <- MCEarlier
    Before = Before
    Pointed = {}
    RunFaults = TRUE
INVARIANTS
    OneWriter
    ExpiryOnlyLocal
    AuditComplete
    SyncTypeOK
PROPERTIES
    ReplacesContents
    UndisturbedHasGroups
    RunsLogged
