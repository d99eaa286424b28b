SPECIFICATION Spec
CONSTANTS
    Groups = {g1, g2}
    Relations = {"dozent"}
    Sources = {s}
    Local = Local
    NoSource = NoSource
    Absent = Absent
    NoName = NoName
    Callers = {c1}
    Ticker = Ticker
    AutoRefresh = TRUE
    MaxChanges = 2
    MaxFailures = 0
INVARIANTS
    SearchableImmediately
