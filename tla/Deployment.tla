----------------------------- MODULE Deployment -----------------------------
(***************************************************************************)
(* The life of the service around its requests (app.go, scheduler.go,      *)
(* api_sync.go): a replica starts, finds or makes the local source, adopts *)
(* what is to be adopted, sets up the Keycloak source and a job for every  *)
(* source with a schedule; it serves calls that create, change and delete  *)
(* sources and their jobs; it stops anywhere and starts again on the same  *)
(* store, maybe with another configuration.                                *)
(*                                                                         *)
(* Abstracted: a group has one entry, or none; syncs and the group API     *)
(* (RoleProvider has them in detail) are one step each; reservations; the  *)
(* log and the history; schedules that do not parse, which are refused     *)
(* before anything is stored (api_sync.go:96-101, 201-206).                *)
(***************************************************************************)
EXTENDS Integers, FiniteSets

CONSTANTS
    Replicas,
    Calls,           \* calls that a replica may serve at once
    Ids,             \* source ids
    Names,           \* names of sources
    Schedules,
    Groups,
    KeycloakGroups,  \* the groups the mapping fills
    Legacy,          \* groups older than the local source
    NoSchedule,      \* the empty schedule
    NoSource,        \* the nil source id
    None,            \* no source, no job, no group, no entry
    Jobs             \* cron's numbers for its entries, as far as those of
                     \* one source are told apart by them

Source == [type : {"local", "file", "keycloak"}, name : Names,
           schedule : Schedules \cup {NoSchedule}]

Config == [name : Names, adopt : SUBSET Names, keycloak : Schedules \cup {None}]

CronEntry == [job : Jobs, id : Ids, schedule : Schedules]

Call == [at : {"create", "get to update", "update", "reread", "register",
               "replace", "unregister", "get to delete", "delete job",
               "delete", "adopt"},
         id : Ids, name : Names, schedule : Schedules \cup {NoSchedule}]

ASSUME DeploymentAssumption ==
    /\ "keycloak" \in Names
    /\ NoSource # None /\ NoSchedule # None
    /\ {NoSource, None} \cap Ids = {} /\ None \notin Jobs \cup Calls
    /\ None \notin Source \cup Call
    /\ {NoSchedule, None} \cap Schedules = {}
    /\ KeycloakGroups \subseteq Groups /\ Legacy \subseteq Groups
    /\ \A j \in Jobs : \E k \in Jobs : j # k
    /\ Jobs # {}

VARIABLES
    (* the store *)
    sources,  \* each source, or None
    used,     \* the ids that were given away
    owner,    \* whose each group is; None for a group there is not
    entry,    \* which source the group's entry belongs to; None for no entry
    (* each replica *)
    stage,    \* how far its start is
    config,   \* what it is configured with
    localID,  \* the local source it found or made
    left,     \* what it has yet to adopt
    taking,   \* the source it adopts or sets up just now, or None
    connected, \* the replicas whose sync engine can read Keycloak
    jobs,     \* Scheduler.jobs
    cron,     \* the entries of its cron runner
    lock,     \* Scheduler.mu: the call that holds it, or None
    calls,    \* what each call does next, or None
    intact,   \* the replicas where, since they started, nothing has failed
              \* half way, no two calls were about one source at once and no
              \* other replica was running
    late      \* the groups into which, since the replica moved what the
              \* source it takes over had, another one synced that source

store == <<sources, used, owner, entry>>
scheduler == <<jobs, cron, lock>>
booting == <<stage, config, localID, left, taking, connected>>
running == <<scheduler, connected, calls, intact, late>>
vars == <<store, booting, scheduler, calls, intact, late>>

TypeOK ==
    /\ sources \in [Ids -> Source \cup {None}]
    /\ used \in SUBSET Ids
    /\ \A id \in Ids : sources[id] # None => id \in used
    /\ owner \in [Groups -> Ids \cup {NoSource, None}]
    /\ entry \in [Groups -> Ids \cup {NoSource, None}]
    /\ stage \in [Replicas -> {"down", "local", "rename local", "make local",
                               "orphans", "list", "move", "delete", "keycloak",
                               "reschedule", "make keycloak", "check",
                               "schedule", "serving"}]
    /\ config \in [Replicas -> Config \cup {None}]
    /\ localID \in [Replicas -> Ids \cup {None}]
    /\ left \in [Replicas -> SUBSET Ids]
    /\ taking \in [Replicas -> Ids \cup {None}]
    /\ connected \in SUBSET Replicas
    /\ jobs \in [Replicas -> [Ids -> Jobs \cup {None}]]
    /\ cron \in [Replicas -> SUBSET CronEntry]
    /\ lock \in [Replicas -> Calls \cup {None}]
    /\ calls \in [Replicas -> [Calls -> Call \cup {None}]]
    /\ intact \in SUBSET Replicas
    /\ late \in [Replicas -> SUBSET Groups]

\* A store from before there was a local source.
Init ==
    /\ sources = [id \in Ids |-> None]
    /\ used = {}
    /\ owner = [g \in Groups |-> IF g \in Legacy THEN NoSource ELSE None]
    /\ entry = owner
    /\ stage = [r \in Replicas |-> "down"]
    /\ config = [r \in Replicas |-> None]
    /\ localID = [r \in Replicas |-> None]
    /\ left = [r \in Replicas |-> {}]
    /\ taking = [r \in Replicas |-> None]
    /\ connected = {}
    /\ jobs = [r \in Replicas |-> [id \in Ids |-> None]]
    /\ cron = [r \in Replicas |-> {}]
    /\ lock = [r \in Replicas |-> None]
    /\ calls = [r \in Replicas |-> [c \in Calls |-> None]]
    /\ intact = Replicas
    /\ late = [r \in Replicas |-> {}]

-----------------------------------------------------------------------------
(* The store.                                                              *)

OfType(type) == {id \in Ids : sources[id] # None /\ sources[id].type = type}

\* Faulty on purpose, like every definition named for what it gets wrong:
\* a property must notice when it stands in for the definition after it.
PutUnmarked(id, src) ==
    /\ id \notin used
    /\ sources' = [sources EXCEPT ![id] = src]
    /\ UNCHANGED <<used, owner, entry>>

Put(id, src) ==
    /\ id \notin used
    /\ used' = used \cup {id}
    /\ sources' = [sources EXCEPT ![id] = src]
    /\ UNCHANGED <<owner, entry>>

\* An update of a row that is gone changes nothing, and nobody notices.
Set(id, src) ==
    /\ sources' = [sources EXCEPT ![id] = IF @ = None THEN None ELSE src]
    /\ UNCHANGED <<used, owner, entry>>

\* MoveToSource.
Move(from, to) ==
    /\ owner' = [g \in Groups |-> IF owner[g] = from THEN to ELSE owner[g]]
    /\ entry' = [g \in Groups |-> IF entry[g] = from THEN to ELSE entry[g]]
    /\ UNCHANGED <<sources, used>>

DropKeepingGroups(id) ==
    /\ sources' = [sources EXCEPT ![id] = None]
    /\ entry' = [g \in Groups |-> IF entry[g] = id THEN None ELSE entry[g]]
    /\ UNCHANGED <<used, owner>>

\* DeleteSource: its entries go, its groups belong to no source.
Drop(id) ==
    /\ sources' = [sources EXCEPT ![id] = None]
    /\ entry' = [g \in Groups |-> IF entry[g] = id THEN None ELSE entry[g]]
    /\ owner' = [g \in Groups |-> IF owner[g] = id THEN NoSource ELSE owner[g]]
    /\ UNCHANGED used

-----------------------------------------------------------------------------
(* A replica starts.                                                       *)

Goto(r, next) == stage' = [stage EXCEPT ![r] = next]

Others(r) == {x \in Replicas \ {r} : stage[x] # "down"}

\* Maybe beside others: at a rollout the old one serves until the new one does.
Start(r) ==
    /\ stage[r] = "down"
    /\ \E cfg \in Config : config' = [config EXCEPT ![r] = cfg]
    /\ Goto(r, "local")
    /\ intact' = IF Others(r) = {} THEN intact ELSE intact \ (Others(r) \cup {r})
    /\ UNCHANGED <<store, localID, left, taking, connected, scheduler, calls, late>>

LocalNamed(r) == {id \in OfType("local") : sources[id].name = config[r].name}

FindLocalAmong(r, found) ==
    /\ stage[r] = "local"
    /\ \/ \E id \in found :
             /\ localID' = [localID EXCEPT ![r] = id]
             /\ Goto(r, IF id \in LocalNamed(r) THEN "orphans" ELSE "rename local")
       \/ /\ found = {}
          /\ Goto(r, "make local")
          /\ UNCHANGED localID
    /\ UNCHANGED <<store, config, left, taking, running>>

FindLocalNamed(r) == FindLocalAmong(r, LocalNamed(r))

\* setupLocalSource finds the local source, whatever it is called, ...
FindLocal(r) == FindLocalAmong(r, OfType("local"))

\* ... and names it as configured, ...
RenameLocal(r) ==
    /\ stage[r] = "rename local"
    /\ Set(localID[r], [sources[localID[r]] EXCEPT !.name = config[r].name])
    /\ Goto(r, "orphans")
    /\ UNCHANGED <<config, localID, left, taking, running>>

\* ... or makes it.
MakeLocal(r, id) ==
    /\ stage[r] = "make local"
    /\ Put(id, [type |-> "local", name |-> config[r].name, schedule |-> NoSchedule])
    /\ localID' = [localID EXCEPT ![r] = id]
    /\ Goto(r, "orphans")
    /\ UNCHANGED <<config, left, taking, running>>

\* adoptIntoLocal: first the groups of no source ...
AdoptOrphans(r) ==
    /\ stage[r] = "orphans"
    /\ Move(NoSource, localID[r])
    /\ Goto(r, "list")
    /\ UNCHANGED <<config, localID, left, taking, running>>

\* ... then those of the sources named; of two with one name, one.
ListAdopted(r, S) ==
    /\ stage[r] = "list"
    /\ S \subseteq {id \in Ids : sources[id] # None}
    /\ \A n \in config[r].adopt :
          LET named == {id \in Ids : sources[id] # None /\ sources[id].name = n}
          IN  Cardinality(S \cap named) = IF named = {} THEN 0 ELSE 1
    /\ \A id \in S : sources[id].name \in config[r].adopt
    /\ left' = [left EXCEPT ![r] = S]
    /\ Goto(r, "move")
    /\ UNCHANGED <<store, config, localID, taking, running>>

TakesOver(r, id) ==
    /\ stage[r] = "move"
    /\ id \in left[r]
    /\ sources[id] # None => sources[id].type = "file"
    /\ left' = [left EXCEPT ![r] = @ \ {id}]
    /\ taking' = [taking EXCEPT ![r] = id]
    /\ Goto(r, "delete")
    /\ UNCHANGED <<config, localID, running>>

\* The source goes first, and what it left behind is moved.
DeleteThenMove(r, id) == TakesOver(r, id) /\ Drop(id)

MoveAdopted(r, id) == TakesOver(r, id) /\ Move(id, localID[r])

DeleteAdopted(r) ==
    /\ stage[r] = "delete"
    /\ Drop(taking[r])
    /\ taking' = [taking EXCEPT ![r] = None]
    /\ late' = [late EXCEPT ![r] = {}]
    /\ Goto(r, "move")
    /\ UNCHANGED <<config, localID, left, connected, scheduler, calls, intact>>

Adopted(r) ==
    /\ stage[r] = "move"
    /\ left[r] = {}
    /\ Goto(r, IF config[r].keycloak = None THEN "schedule" ELSE "keycloak")
    /\ UNCHANGED <<store, config, localID, left, taking, running>>

\* setupKeycloakSource: a source of the type gets the configured schedule;
\* without one it is made.
FindKeycloak(r) ==
    /\ stage[r] = "keycloak"
    /\ \/ \E id \in OfType("keycloak") :
             /\ taking' = [taking EXCEPT ![r] = id]
             /\ Goto(r, IF sources[id].schedule = config[r].keycloak
                        THEN "check" ELSE "reschedule")
       \/ /\ OfType("keycloak") = {}
          /\ Goto(r, "make keycloak")
          /\ UNCHANGED taking
    /\ UNCHANGED <<store, config, localID, left, running>>

RescheduleKeycloak(r) ==
    /\ stage[r] = "reschedule"
    /\ Set(taking[r], [sources[taking[r]] EXCEPT !.schedule = config[r].keycloak])
    /\ Goto(r, "check")
    /\ UNCHANGED <<config, localID, left, taking, running>>

MakeKeycloak(r, id) ==
    /\ stage[r] = "make keycloak"
    /\ Put(id, [type |-> "keycloak", name |-> "keycloak", schedule |-> config[r].keycloak])
    /\ taking' = [taking EXCEPT ![r] = id]
    /\ Goto(r, "check")
    /\ UNCHANGED <<config, localID, left, running>>

\* CheckOwnership of all groups the mapping fills.
Collides(r) ==
    \E g \in KeycloakGroups : owner[g] \notin {None, taking[r]}

CheckKeycloak(r) ==
    /\ stage[r] = "check"
    /\ ~Collides(r)
    /\ taking' = [taking EXCEPT ![r] = None]
    /\ connected' = connected \cup {r}
    /\ Goto(r, "schedule")
    /\ UNCHANGED <<store, config, localID, left, scheduler, calls, intact, late>>

Scheduled == {id \in Ids : sources[id] # None /\ sources[id].schedule # NoSchedule}

FirstJob == CHOOSE j \in Jobs : TRUE

\* Scheduler.Start: a job for each source that has a schedule.
StartScheduler(r) ==
    /\ stage[r] = "schedule"
    /\ jobs' = [jobs EXCEPT ![r] =
                   [id \in Ids |-> IF id \in Scheduled THEN FirstJob ELSE None]]
    /\ cron' = [cron EXCEPT ![r] =
                   {[job |-> FirstJob, id |-> id, schedule |-> sources[id].schedule] :
                       id \in Scheduled}]
    /\ config' = [config EXCEPT ![r] = None]
    /\ Goto(r, "serving")
    /\ UNCHANGED <<store, localID, left, taking, connected, lock, calls, intact, late>>

\* Its listing of the sources fails: the replica serves without a scheduler.
StartUnscheduled(r) ==
    /\ stage[r] = "schedule"
    /\ config' = [config EXCEPT ![r] = None]
    /\ intact' = intact \ {r}
    /\ Goto(r, "serving")
    /\ UNCHANGED <<store, localID, left, taking, connected, scheduler, calls, late>>

\* The process ends: what is in memory is gone.
Down(r) ==
    /\ Goto(r, "down")
    /\ config' = [config EXCEPT ![r] = None]
    /\ localID' = [localID EXCEPT ![r] = None]
    /\ left' = [left EXCEPT ![r] = {}]
    /\ taking' = [taking EXCEPT ![r] = None]
    /\ connected' = connected \ {r}
    /\ jobs' = [jobs EXCEPT ![r] = [id \in Ids |-> None]]
    /\ cron' = [cron EXCEPT ![r] = {}]
    /\ lock' = [lock EXCEPT ![r] = None]
    /\ calls' = [calls EXCEPT ![r] = [c \in Calls |-> None]]
    /\ intact' = intact \cup {r}
    /\ late' = [late EXCEPT ![r] = {}]
    /\ UNCHANGED store

\* A source to adopt that is no file, groups of Keycloak that are another's.
RefuseToStart(r) ==
    /\ \/ /\ stage[r] = "move"
          /\ \E id \in left[r] : sources[id] # None /\ sources[id].type # "file"
       \/ stage[r] = "check" /\ Collides(r)
    /\ Down(r)

Crash(r) == stage[r] # "down" /\ Down(r)

-----------------------------------------------------------------------------
(* Calls about sources.                                                    *)

Serving(r) == stage[r] = "serving" /\ UNCHANGED <<booting, late>>

At(r, c, label) ==
    /\ Serving(r) /\ UNCHANGED intact
    /\ calls[r][c] # None /\ calls[r][c].at = label

Proceed(r, c, label) == calls' = [calls EXCEPT ![r][c].at = label]

Done(r, c) == calls' = [calls EXCEPT ![r][c] = None]

\* Creating, changing or deleting a source: what the request says (to delete,
\* nothing but the id).
Request(r, c, call) ==
    /\ Serving(r)
    /\ calls[r][c] = None
    /\ \/ call.at = "create" /\ call.id \notin used
       \/ call.at \in {"get to update", "get to delete"} /\ call.id \in used
    /\ call.at = "get to delete" => call.schedule = NoSchedule /\ call.name = "keycloak"
    /\ intact' = IF \E x \in Replicas, y \in Calls :
                       calls[x][y] # None /\ calls[x][y].id = call.id
                 THEN intact \ {r} ELSE intact
    /\ calls' = [calls EXCEPT ![r][c] = call]
    /\ UNCHANGED <<store, scheduler>>

\* A failed store operation or an end of the request: a 500.
Fail(r, c) ==
    /\ Serving(r)
    /\ calls[r][c] # None /\ lock[r] # c
    /\ intact' = intact \ {r}
    /\ Done(r, c)
    /\ UNCHANGED <<store, scheduler>>

CreateSource(r, c) ==
    /\ At(r, c, "create")
    /\ LET call == calls[r][c]
       IN  /\ Put(call.id, [type |-> "file", name |-> call.name, schedule |-> call.schedule])
           /\ IF call.schedule = NoSchedule THEN Done(r, c) ELSE Proceed(r, c, "register")
    /\ UNCHANGED scheduler

\* changeableSource: there is one, and it is not the local one.
Changeable(id) == sources[id] # None /\ sources[id].type # "local"

GetSource(r, c) ==
    /\ \/ At(r, c, "get to update") \/ At(r, c, "get to delete")
    /\ IF Changeable(calls[r][c].id)
       THEN Proceed(r, c, IF calls[r][c].at = "get to update"
                          THEN "update" ELSE "delete job")
       ELSE Done(r, c)
    /\ UNCHANGED <<store, scheduler>>

UpdateSource(r, c) ==
    /\ At(r, c, "update")
    /\ LET call == calls[r][c]
       IN  Set(call.id, [sources[call.id] EXCEPT !.name = call.name,
                                                 !.schedule = call.schedule])
    /\ Proceed(r, c, "reread")
    /\ UNCHANGED scheduler

\* The schedule as it is stored now goes to the scheduler.
RereadSource(r, c) ==
    /\ At(r, c, "reread")
    /\ LET src == sources[calls[r][c].id]
       IN  IF src = None
           THEN Done(r, c)
           ELSE calls' = [calls EXCEPT ![r][c].schedule = src.schedule,
                             ![r][c].at = IF src.schedule = NoSchedule
                                          THEN "unregister" ELSE "register"]
    /\ UNCHANGED <<store, scheduler>>

DeleteSource(r, c) ==
    /\ At(r, c, "delete")
    /\ Drop(calls[r][c].id)
    /\ Proceed(r, c, "adopt")
    /\ UNCHANGED scheduler

Adopt(r, c) ==
    /\ At(r, c, "adopt")
    /\ Move(NoSource, localID[r])
    /\ Done(r, c)
    /\ UNCHANGED scheduler

-----------------------------------------------------------------------------
(* The scheduler.                                                          *)

JobsOf(r, id) == {e.job : e \in {x \in cron[r] : x.id = id}}

Without(r, id) == {e \in cron[r] : ~(e.id = id /\ e.job = jobs[r][id])}

\* Register adds the new job ...
Register(r, c) ==
    /\ At(r, c, "register")
    /\ lock[r] = None
    /\ lock' = [lock EXCEPT ![r] = c]
    /\ LET call == calls[r][c]
           job == CHOOSE j \in Jobs : j \notin JobsOf(r, call.id)
       IN  cron' = [cron EXCEPT ![r] = @ \cup
                      {[job |-> job, id |-> call.id, schedule |-> call.schedule]}]
    /\ Proceed(r, c, "replace")
    /\ UNCHANGED <<store, jobs>>

NewJob(r, id) == CHOOSE j \in JobsOf(r, id) : j # jobs[r][id]

KeepOldJob(r, c) ==
    /\ At(r, c, "replace")
    /\ LET id == calls[r][c].id
       IN  jobs' = [jobs EXCEPT ![r][id] = NewJob(r, id)]
    /\ lock' = [lock EXCEPT ![r] = None]
    /\ Done(r, c)
    /\ UNCHANGED <<store, cron>>

\* ... and then removes the old one.
ReplaceJob(r, c) ==
    /\ At(r, c, "replace")
    /\ LET id == calls[r][c].id
       IN  /\ cron' = [cron EXCEPT ![r] = Without(r, id)]
           /\ jobs' = [jobs EXCEPT ![r][id] = NewJob(r, id)]
    /\ lock' = [lock EXCEPT ![r] = None]
    /\ Done(r, c)
    /\ UNCHANGED store

Unregister(r, c) ==
    /\ \/ At(r, c, "unregister") \/ At(r, c, "delete job")
    /\ lock[r] = None
    /\ LET id == calls[r][c].id
       IN  /\ cron' = [cron EXCEPT ![r] = Without(r, id)]
           /\ jobs' = [jobs EXCEPT ![r][id] = None]
    /\ IF calls[r][c].at = "unregister" THEN Done(r, c) ELSE Proceed(r, c, "delete")
    /\ UNCHANGED <<store, lock>>

-----------------------------------------------------------------------------
(* Meanwhile.                                                              *)

\* A sync of a source, on its schedule or triggered: a group of its own gets
\* or loses its entry.  A file fills no group that is Keycloak's.
Sync(r, id, g) ==
    /\ stage[r] = "serving"
    /\ sources[id] # None /\ sources[id].type # "local"
    /\ owner[g] \in {None, id}
    /\ (g \in KeycloakGroups) = (sources[id].type = "keycloak")
    /\ sources[id].type = "keycloak" => r \in connected
    /\ \/ /\ owner' = [owner EXCEPT ![g] = id]
          /\ entry' = [entry EXCEPT ![g] = id]
       \/ /\ owner' = [owner EXCEPT ![g] = None]
          /\ entry' = [entry EXCEPT ![g] = None]
    /\ late' = [x \in Replicas |->
                   IF stage[x] = "delete" /\ taking[x] = id
                   THEN late[x] \cup {g} ELSE late[x]]
    /\ UNCHANGED <<sources, used, booting, scheduler, calls, intact>>

\* Somebody creates, fills, empties or deletes a group that is maintained here.
Maintain(r, g) ==
    /\ Serving(r)
    /\ owner[g] \in {None, localID[r]}
    /\ owner[g] = None => g \notin KeycloakGroups
    /\ \/ /\ owner' = [owner EXCEPT ![g] = localID[r]]
          /\ \E x \in {localID[r], None} : entry' = [entry EXCEPT ![g] = x]
       \/ /\ owner' = [owner EXCEPT ![g] = None]
          /\ entry' = [entry EXCEPT ![g] = None]
    /\ UNCHANGED <<sources, used, scheduler, calls, intact>>

-----------------------------------------------------------------------------

Boot(r) ==
    \/ FindLocal(r) \/ RenameLocal(r) \/ FindKeycloak(r) \/ RescheduleKeycloak(r)
    \/ \E id \in Ids : MakeLocal(r, id) \/ MoveAdopted(r, id) \/ MakeKeycloak(r, id)
    \/ \E S \in SUBSET Ids : ListAdopted(r, S)
    \/ AdoptOrphans(r) \/ DeleteAdopted(r) \/ Adopted(r)
    \/ CheckKeycloak(r) \/ StartScheduler(r) \/ StartUnscheduled(r)

Handle(r, c) ==
    \/ CreateSource(r, c) \/ GetSource(r, c) \/ UpdateSource(r, c)
    \/ RereadSource(r, c) \/ DeleteSource(r, c) \/ Adopt(r, c)
    \/ Register(r, c) \/ ReplaceJob(r, c) \/ Unregister(r, c)

Acts(r) ==
    \/ Start(r) \/ Boot(r) \/ RefuseToStart(r) \/ Crash(r)
    \/ \E c \in Calls :
          \/ Handle(r, c) \/ Fail(r, c)
          \/ \E call \in Call : Request(r, c, call)
    \/ \E id \in Ids, g \in Groups : Sync(r, id, g)
    \/ \E g \in Groups : Maintain(r, g)

Next == \E r \in Replicas : Acts(r)

Spec == Init /\ [][Next]_vars

-----------------------------------------------------------------------------

\* OneLocal: there is one local source at most, whatever it was called and
\* wherever a start was cut short ("which exists exactly once", README.md:50).
\* Asked where there is one replica: two that start on an empty store at the
\* same time make one each.
OneLocal == \A a, b \in OfType("local") : a = b

\* NeverEmptied: a start that adopts a source takes no entry out of a group,
\* also when it was cut short before and whatever other replicas do meanwhile
\* ("without a moment in which a group is empty", README.md:56), but for one
\* case: at a rollout the old replica still syncs the source, and what it
\* puts into a group after MoveToSource goes with DeleteSource (app.go:298-302).
NeverEmptied ==
    [][\A r \in Replicas : Boot(r) =>
          \A g \in Groups \ late[r] : entry[g] # None => entry'[g] # None]_vars

Quiet(r) ==
    /\ stage[r] = "serving" /\ r \in intact
    /\ \A c \in Calls : calls[r][c] = None

\* EverybodyOwned: when a replica serves and no call is under way each group
\* belongs to a source there is, and its entry too, although a source is
\* deleted in one transaction and its groups are handed over in another
\* ("Every group belongs to a source", api_sync.go:268).  A call that ends
\* between the two leaves that to the next start, which does it.
\* Not asked of a replica that ran beside another: see NeverEmptied.  A sync
\* is one step here: one that overlaps the deletion of its source is another
\* matter (RoleProvider).
EverybodyOwned ==
    \A r \in Replicas : Quiet(r) =>
        \A g \in Groups :
            /\ owner[g] # None => owner[g] \in Ids /\ sources[owner[g]] # None
            /\ entry[g] \in {None, owner[g]}

\* JobsFollow: when a replica serves and no call is under way its scheduler
\* runs each source that has a schedule, once and on that schedule, and
\* nothing else (scheduler.go:14), whatever the failed or overlapping calls
\* of an earlier process left.  Not asked of a replica that ran beside another,
\* which hears of the other's changes when it starts.
JobsFollow ==
    \A r \in Replicas : Quiet(r) =>
        /\ {<<e.id, e.schedule>> : e \in cron[r]} =
               {<<id, sources[id].schedule>> : id \in Scheduled}
        /\ Cardinality(cron[r]) = Cardinality(Scheduled)
        /\ \A e \in cron[r] : jobs[r][e.id] = e.job
=============================================================================
