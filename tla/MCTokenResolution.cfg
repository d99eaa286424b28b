SPECIFICATION MCSpec
CONSTANTS
    a = a
    b = b
    c = c
    u = u
    q = q
    s = s
    Groups = {a, b, c}
    Users = {u}
    Patterns = {q}
    Relations = {"member", "dozent"}
    Member = "member"
    NoRelation = "none"
    Matches <- MCMatches
    Sources = {s}
    Local = Local
    NoSource = NoSource
    Forever = Forever
    Stores <- MCStores
    MaxTime = 2
    Questions <- MCQuestions
    Trees <- MCTrees
    Belongings <- MCBelongings
    Listing = {"g1", "g2", "g3", "g1#dozent"}
    Plain = {"g1", "g2", "g3"}
    AndWords = {"und"}
    OrWords = {"oder"}
    EmptyTerms = {"*"}
    Terms = {"ma", "ka", "dozent"}
    Finds <- MCFinds
    MaxWords = 4
    AsGroup <- MCAsGroup
    AsMember <- MCAsMember
    AsRelation <- MCAsRelation
    Unknown = Unknown
    Malformed = Malformed
    Blank = ""
    Heads <- MCHeads
    RoleOf <- MCRoleOf
    Rows <- MCRows
    Objects <- MCObjects
    MaxLines = 3
INVARIANTS
    TypeOK
    NothingUnearned
    NothingMissed
    MembersExact
    AnswersAgree
    PathOpens
    QueryMeans
    ImportsWhatItSays
PROPERTY
    CallsAnswered
