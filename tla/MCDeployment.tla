---------------------------- MODULE MCDeployment ----------------------------
(***************************************************************************)
(* The instance of Deployment for TLC.  Of two replicas                    *)
(*   "alone"   only `new' ever runs, in full;                              *)
(*   "rollout" `old' serves a store with a local source and a file when    *)
(*             `new' starts.  Both start, adopt, crash, sync and maintain; *)
(*             nobody calls and there is no Keycloak.                      *)
(* Ids are alike, and so are calls.                                        *)
(***************************************************************************)
EXTENDS Deployment, TLC

CONSTANTS old, new

VARIABLE part

Alike == Permutations(Ids) \cup Permutations(Calls)

MCInit ==
    \/ part = "alone" /\ Init
    \/ /\ part = "rollout"
       /\ \E local, file \in Ids :
             /\ local # file
             /\ used = {local, file}
             /\ sources = [id \in Ids |->
                   IF id = local
                   THEN [type |-> "local", name |-> "keycloak", schedule |-> NoSchedule]
                   ELSE IF id = file
                   THEN [type |-> "file", name |-> "csv", schedule |-> NoSchedule]
                   ELSE None]
             /\ localID = [r \in Replicas |-> IF r = old THEN local ELSE None]
       /\ stage = [r \in Replicas |-> IF r = old THEN "serving" ELSE "down"]
       /\ owner = [g \in Groups |-> None] /\ entry = owner
       /\ config = [r \in Replicas |-> None]
       /\ left = [r \in Replicas |-> {}]
       /\ taking = [r \in Replicas |-> None]
       /\ connected = {}
       /\ jobs = [r \in Replicas |-> [id \in Ids |-> None]]
       /\ cron = [r \in Replicas |-> {}]
       /\ lock = [r \in Replicas |-> None]
       /\ calls = [r \in Replicas |-> [c \in Calls |-> None]]
       /\ intact = Replicas
       /\ late = [r \in Replicas |-> {}]

NoKeycloak == \A r \in Replicas : config[r] # None => config[r].keycloak = None

MCNext ==
    /\ UNCHANGED part
    /\ \/ part = "alone" /\ Acts(new)
       \/ part = "rollout" /\ Next /\ calls' = calls /\ NoKeycloak'

MCSpec == MCInit /\ [][MCNext]_<<vars, part>>
=============================================================================
