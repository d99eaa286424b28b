SPECIFICATION MCSpec
CONSTANTS
    old = old
    new = new
    Replicas = {old, new}
    Calls = {call1, call2}
    Ids = {i1, i2}
    Names = {"csv", "keycloak"}
    Schedules = {"hourly", "daily"}
    Groups = {course, campus}
    KeycloakGroups = {campus}
    Legacy = {course}
    NoSchedule = NoSchedule
    NoSource = NoSource
    None = None
    Jobs = {1, 2}
SYMMETRY Alike
INVARIANTS
    TypeOK
    OneLocal
    EverybodyOwned
    JobsFollow
PROPERTIES
    NeverEmptied
