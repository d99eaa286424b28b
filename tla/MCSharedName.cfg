SPECIFICATION Spec
CONSTANTS
    a = a
    b = b
    c = c
    u = u
    s = s
    t = t
    p1 = p1
    p2 = p2
    Groups = {a, b, c}
    Users = {u}
    Patterns = {}
    Relations = {"member", "dozent"}
    Member = "member"
    NoRelation = "none"
    Matches = {}
    Sources = {s, t}
    Local = Local
    NoSource = NoSource
    Forever = Forever
    Absent = Absent
    LikeIds <- PlainIds
    Procs = {p1, p2}
    Requests <- SharedNameRequests
    APIToken = APIToken
    AdminTokens = {}
    Registered = {s, t}
    InitReserved <- NoReservations
    Nobody = Nobody
    History = {}
    MaxTime = 0
    Faults = FALSE
INVARIANT
    OneWriter
