SPECIFICATION GrowingSpec
CONSTANTS
    Emails = {"ann", "bob"}
    Nobody = Nobody
    Values = {"student", "affiliate"}
    Scopes = {"ma", "kit"}
    Groups = {"standort-ma", "alle"}
    Relations = {"member", "studierende"}
    Locations <- MCLocations
    Roles <- MCRoles
    AllGroup = {"alle"}
    Attributes <- MCAttributes
    Reads = {r1}
    Lookups = {l1}
    PageSize = 1
    RetryAfter = 1
    MaxTime = 1
    MaxEdits = 2
    MaxFailures = 0
INVARIANTS
    KnownHold
