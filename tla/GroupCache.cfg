SPECIFICATION FairSpec
CONSTANTS
    Groups = {g1, g2}
    Relations = {"dozent"}
    Sources = {s}
    Local = Local
    NoSource = NoSource
    Absent = Absent
    NoName = NoName
    Callers = {c1, c2}
    Ticker = Ticker
    AutoRefresh = TRUE
    MaxChanges = 2
    MaxFailures = 1
INVARIANTS
    TypeOK
PROPERTIES
    EventuallyCurrent
