----------------------------- MODULE MCKeycloak -----------------------------
(***************************************************************************)
(* Instances of Keycloak: one mapped location and a foreign one, one       *)
(* mapped value, the group of all locations.                               *)
(***************************************************************************)
EXTENDS Keycloak

MCLocations == [s \in {"ma"} |-> "standort-ma"]

MCRoles == [v \in {"student"} |-> "studierende"]

Student == [value |-> "student", scope |-> "ma"]
Guest == [value |-> "affiliate", scope |-> "ma"]
Foreign == [value |-> "student", scope |-> "kit"]

\* A student, and a plain member who is a student elsewhere.
MCAttributes == {{Student}, {Guest, Foreign}}

\* Accounts come, and nothing else happens to them.
GrowingNext == Next /\ (edits' = edits \/ Len(realm') > Len(realm))

GrowingSpec == Init /\ [][GrowingNext]_vars
=============================================================================
