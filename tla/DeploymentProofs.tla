-------------------------- MODULE DeploymentProofs --------------------------
(***************************************************************************)
(* What Deployment guarantees for any sources, names, schedules, groups    *)
(* and calls at once, wherever a replica stops and whatever it is          *)
(* configured with when it starts again: of any number of replicas types   *)
(* and that a start empties no group, of one (OneReplica) that there is    *)
(* one local source at most, that every group belongs to a source and that *)
(* the scheduler follows the sources.                                      *)
(*                                                                         *)
(* The argument: a source keeps its type and an id is never given away     *)
(* twice, so what a call or a start has found out about a source stays     *)
(* true until it acts on it (Found), and the local source, once there, is  *)
(* out of the reach of every call (Spared).  The scheduler has at most one *)
(* cron entry it does not know, that of the call which holds its lock      *)
(* (Kept); what a source and its entry lack of each other is what the one  *)
(* call about it has yet to do (Following); and no group is without a      *)
(* source but between the two transactions of a deletion (Placed).         *)
(***************************************************************************)
EXTENDS Deployment, FiniteSetTheorems, TLAPS

-----------------------------------------------------------------------------
(* The invariant.                                                          *)

Locals == OfType("local")

Booting == {"local", "rename local", "make local", "orphans", "list", "move",
            "delete", "keycloak", "reschedule", "make keycloak", "check",
            "schedule"}

\* Where a replica has its local source.
Settled == (Booting \cup {"serving"}) \ {"local", "make local"}

Shape ==
    /\ sources \in [Ids -> Source \cup {None}]
    /\ used \in SUBSET Ids
    /\ \A id \in Ids : sources[id] # None => id \in used
    /\ config \in [Replicas -> Config \cup {None}]
    /\ stage \in [Replicas -> Booting \cup {"down", "serving"}]
    /\ localID \in [Replicas -> Ids \cup {None}]
    /\ left \in [Replicas -> SUBSET Ids]
    /\ taking \in [Replicas -> Ids \cup {None}]
    /\ calls \in [Replicas -> [Calls -> Call \cup {None}]]
    /\ late \in [Replicas -> SUBSET Groups]

OneReplica == \A r, s \in Replicas : r = s

\* What a start has found out.  Of a source that it has moved and not deleted
\* yet, groups have only what another replica synced since.
Found(r) ==
    /\ stage[r] \in Booting => config[r] \in Config
    /\ stage[r] \in {"keycloak", "reschedule", "make keycloak"} =>
          config[r].keycloak # None
    /\ stage[r] = "make local" => (OneReplica => Locals = {})
    /\ stage[r] \in Settled => localID[r] \in Locals
    /\ left[r] \subseteq used
    /\ stage[r] = "delete" =>
          /\ taking[r] \in used \ Locals
          /\ \A g \in Groups : entry[g] = taking[r] => g \in late[r]
    /\ stage[r] = "reschedule" => taking[r] \in Ids

\* A call that will change or delete a source is not about the local one.
Spared(r, c) ==
    /\ calls[r][c] # None
    /\ calls[r][c].at \in {"update", "delete job", "delete"}
    => calls[r][c].id \in used \ Locals

Inv ==
    /\ Shape
    /\ OneReplica => OneLocal
    /\ \A r \in Replicas : Found(r) /\ \A c \in Calls : Spared(r, c)

-----------------------------------------------------------------------------
(* What the store's operations do to the sources.                          *)

SourcesShape ==
    /\ sources \in [Ids -> Source \cup {None}]
    /\ \A id \in Ids : sources[id] # None => id \in used

LEMMA PutKeeps ==
    ASSUME SourcesShape, NEW id \in Ids, NEW src \in Source, Put(id, src)
    PROVE  /\ SourcesShape'
           /\ used' = used \cup {id} /\ id \notin used
           /\ Locals' = IF src.type = "local" THEN Locals \cup {id} ELSE Locals
<1>1. sources[id] = None /\ id \notin used
    BY DEF Put, SourcesShape
<1>2. \A x \in Ids : sources'[x] = IF x = id THEN src ELSE sources[x]
    BY DEF Put, SourcesShape
<1>3. SourcesShape'
    BY DEF Put, SourcesShape
<1>4. src # None
    BY DeploymentAssumption
<1>5. ASSUME NEW x \in Ids
      PROVE  x \in Locals' <=> x \in Locals \/ (x = id /\ src.type = "local")
    BY <1>1, <1>2, <1>4 DEF Locals, OfType
<1>6. Locals \subseteq Ids /\ Locals' \subseteq Ids
    BY DEF Locals, OfType
<1>7. Locals' = IF src.type = "local" THEN Locals \cup {id} ELSE Locals
    <2>1. CASE src.type = "local"
        BY <1>5, <1>6, <2>1
    <2>2. CASE src.type # "local"
        BY <1>5, <1>6, <2>2
    <2> QED BY <2>1, <2>2
<1> QED BY <1>1, <1>3, <1>7 DEF Put

LEMMA SetKeeps ==
    ASSUME SourcesShape, NEW id, NEW src, Set(id, src),
           id \in Ids /\ sources[id] # None =>
               src \in Source /\ src.type = sources[id].type
    PROVE  /\ SourcesShape'
           /\ used' = used
           /\ \A type : OfType(type)' = OfType(type)
<1>1. \A x \in Ids :
          sources'[x] = IF x = id /\ sources[x] # None THEN src ELSE sources[x]
    BY DEF Set, SourcesShape
<1>2. id \in Ids /\ sources[id] # None => src # None
    BY DeploymentAssumption
<1>3. SourcesShape'
    BY DEF Set, SourcesShape
<1>4. ASSUME NEW type
      PROVE  OfType(type)' = OfType(type)
    BY <1>1, <1>2 DEF OfType
<1> QED BY <1>3, <1>4 DEF Set

LEMMA DropKeeps ==
    ASSUME SourcesShape, NEW id, Drop(id)
    PROVE  /\ SourcesShape'
           /\ used' = used
           /\ Locals' = Locals \ {id}
BY DEF Drop, SourcesShape, Locals, OfType

\* A source with another name or schedule is a source of the same type.
LEMMA ChangedSource ==
    ASSUME NEW src \in Source, NEW n \in Names,
           NEW s \in Schedules \cup {NoSchedule}
    PROVE  /\ [src EXCEPT !.name = n] \in Source
           /\ [src EXCEPT !.name = n].type = src.type
           /\ [src EXCEPT !.schedule = s] \in Source
           /\ [src EXCEPT !.schedule = s].type = src.type
           /\ [src EXCEPT !.name = n, !.schedule = s] \in Source
           /\ [src EXCEPT !.name = n, !.schedule = s].type = src.type
BY DEF Source

LEMMA RescheduledSource ==
    ASSUME NEW src \in Source, NEW s \in Schedules
    PROVE  [src EXCEPT !.schedule = s] \in Source
BY DEF Source

LEMMA OneMoreLocal ==
    ASSUME OneLocal, Locals = {}, NEW id, Locals' = {id}
    PROVE  OneLocal'
BY DEF OneLocal, Locals

LEMMA InitInv == Init => Inv
<1> SUFFICES ASSUME Init
             PROVE  Inv
    OBVIOUS
<1> USE DEF Init
<1>1. Shape
    BY DEF Shape
<1>2. Locals = {}
    BY DEF Locals, OfType
<1>3. OneLocal
    BY <1>2 DEF OneLocal, Locals
<1>4. \A r \in Replicas : Found(r)
    BY <1>2 DEF Found, Booting, Settled
<1>5. \A r \in Replicas, c \in Calls : Spared(r, c)
    BY DEF Spared
<1> QED BY <1>1, <1>3, <1>4, <1>5 DEF Inv

-----------------------------------------------------------------------------
(* A replica starts.                                                       *)

LEMMA SourcesOf == Shape => SourcesShape
BY DEF Shape, SourcesShape

\* What a step does to the sources: the local ones stay, and what is none of
\* them does not become one.
Grow ==
    /\ Locals \subseteq Locals' /\ used \subseteq used'
    /\ used \ Locals \subseteq used' \ Locals'

\* A replica that another one's step leaves as it is, but for groups that were
\* synced late.
Rests(r) ==
    /\ stage'[r] = stage[r] /\ config'[r] = config[r]
    /\ localID'[r] = localID[r] /\ left'[r] = left[r]
    /\ taking'[r] = taking[r] /\ calls'[r] = calls[r]
    /\ late[r] \subseteq late'[r]
    /\ stage[r] = "delete" =>
          \A g \in Groups : entry'[g] = taking[r] =>
              entry[g] = taking[r] \/ g \in late'[r]

\* What it has found out is still so.
LEMMA RestsFound ==
    ASSUME Grow, NEW r \in Replicas, Rests(r), Found(r),
           OneReplica => Locals' = Locals
    PROVE  Found(r)'
BY DEF Grow, Rests, Found

\* A step of one replica.
LEMMA OneActs ==
    ASSUME Inv, NEW r \in Replicas, Shape', Grow, OneReplica => OneLocal',
           \A x \in Replicas \ {r} : Rests(x),
           Found(r)', \A c \in Calls : Spared(r, c)'
    PROVE  Inv'
<1>1. ASSUME NEW x \in Replicas, x # r
      PROVE  Found(x)' /\ \A c \in Calls : Spared(x, c)'
    <2>1. ~OneReplica
        BY <1>1 DEF OneReplica
    <2>2. Rests(x)
        BY <1>1
    <2>3. Found(x)'
        BY <1>1, <2>1, <2>2, RestsFound DEF Inv
    <2>4. \A c \in Calls : Spared(x, c)'
        BY <1>1, <2>2 DEF Inv, Rests, Grow, Spared
    <2> QED BY <2>3, <2>4
<1> QED BY <1>1 DEF Inv

\* The steps of a start change no call; those that write neither sources nor
\* entries ...
LEMMA SourcesLeft ==
    ASSUME Inv, NEW r \in Replicas, UNCHANGED <<sources, used, entry, calls, late>>,
           Shape', Found(r)',
           \A x \in Replicas \ {r} :
               /\ stage'[x] = stage[x] /\ config'[x] = config[x]
               /\ localID'[x] = localID[x] /\ left'[x] = left[x]
               /\ taking'[x] = taking[x]
    PROVE  Inv'
<1>1. Locals' = Locals
    BY DEF Locals, OfType
<1>2. Grow /\ (OneReplica => OneLocal')
    BY <1>1 DEF Inv, Grow, OneLocal, OfType
<1>3. \A c \in Calls : Spared(r, c)'
    BY <1>1 DEF Inv, Spared
<1>4. \A x \in Replicas \ {r} : Rests(x)
    BY DEF Rests
<1> QED BY <1>2, <1>3, <1>4, OneActs

\* ... are these.
LEMMA LookingAround ==
    ASSUME Inv, NEW r \in Replicas,
           \/ Start(r) \/ FindLocal(r) \/ Adopted(r) \/ FindKeycloak(r)
           \/ CheckKeycloak(r) \/ StartScheduler(r) \/ StartUnscheduled(r)
           \/ \E S \in SUBSET Ids : ListAdopted(r, S)
    PROVE  Inv'
<1> USE DEF store, scheduler, running, booting
<1>0. Shape /\ Found(r)
    BY DEF Inv
<1>a. ASSUME UNCHANGED <<sources, used, entry, calls, late>>, Found(r)',
             stage' \in [Replicas -> Booting \cup {"down", "serving"}],
             config' \in [Replicas -> Config \cup {None}],
             localID' \in [Replicas -> Ids \cup {None}],
             left' \in [Replicas -> SUBSET Ids],
             taking' \in [Replicas -> Ids \cup {None}],
             \A x \in Replicas \ {r} :
                 /\ stage'[x] = stage[x] /\ config'[x] = config[x]
                 /\ localID'[x] = localID[x] /\ left'[x] = left[x]
                 /\ taking'[x] = taking[x]
      PROVE  Inv'
    <2>1. Shape'
        BY <1>0, <1>a DEF Shape
    <2> QED BY <1>a, <2>1, SourcesLeft
<1> USE <1>0 DEF Shape
<1>1. CASE Start(r)
    <2>1. Found(r)'
        BY <1>1 DEF Start, Goto, Found, Settled, Booting
    <2> QED BY <1>1, <1>a, <2>1 DEF Start, Goto, Booting
<1>2. CASE FindLocal(r)
    <2>1. Found(r)'
        BY <1>2 DEF FindLocal, FindLocalAmong, Goto, Found, Settled, Booting,
                    OfType, Locals
    <2> QED BY <1>2, <1>a, <2>1 DEF FindLocal, FindLocalAmong, Goto, Booting, OfType
<1>3. CASE Adopted(r)
    <2>1. Found(r)'
        BY <1>3 DEF Adopted, Goto, Found, Settled, Booting, Locals, OfType
    <2> QED BY <1>3, <1>a, <2>1 DEF Adopted, Goto, Booting
<1>4. CASE FindKeycloak(r)
    <2>1. Found(r)'
        BY <1>4 DEF FindKeycloak, Goto, Found, Settled, Booting, Locals, OfType
    <2> QED BY <1>4, <1>a, <2>1 DEF FindKeycloak, Goto, Booting, OfType
<1>5. CASE CheckKeycloak(r)
    <2>1. Found(r)'
        BY <1>5 DEF CheckKeycloak, Goto, Found, Settled, Booting, Locals, OfType
    <2> QED BY <1>5, <1>a, <2>1 DEF CheckKeycloak, Goto, Booting
<1>6. CASE StartScheduler(r) \/ StartUnscheduled(r)
    <2>1. Found(r)'
        BY <1>6 DEF StartScheduler, StartUnscheduled, Goto, Found, Settled,
                    Booting, Locals, OfType
    <2> QED BY <1>6, <1>a, <2>1 DEF StartScheduler, StartUnscheduled, Goto, Booting
<1>7. ASSUME NEW S \in SUBSET Ids, ListAdopted(r, S)
      PROVE  Inv'
    <2>1. S \subseteq used
        BY <1>7 DEF ListAdopted
    <2>2. Found(r)'
        BY <1>7, <2>1 DEF ListAdopted, Goto, Found, Settled, Booting, Locals, OfType
    <2> QED BY <1>7, <1>a, <2>2 DEF ListAdopted, Goto, Booting
<1> QED BY <1>1, <1>2, <1>3, <1>4, <1>5, <1>6, <1>7

LEMMA Stopping ==
    ASSUME Inv, NEW r \in Replicas, RefuseToStart(r) \/ Crash(r)
    PROVE  Inv'
<1>0. Shape /\ Found(r) /\ Down(r) /\ UNCHANGED <<sources, used, entry>>
    BY DEF Inv, RefuseToStart, Crash, Down, store
<1>1. Locals' = Locals
    BY <1>0 DEF Locals, OfType
<1>2. Grow /\ (OneReplica => OneLocal')
    BY <1>0, <1>1 DEF Inv, Grow, OneLocal, OfType
<1>3. Shape'
    BY <1>0 DEF Down, Goto, Shape
<1>4. Found(r)'
    BY <1>0 DEF Down, Goto, Found, Settled, Booting, Shape
<1>5. \A c \in Calls : Spared(r, c)'
    BY <1>0 DEF Down, Spared, Shape
<1>6. \A x \in Replicas \ {r} : Rests(x)
    BY <1>0 DEF Rests, Down, Goto, Shape
<1> QED BY <1>2, <1>3, <1>4, <1>5, <1>6, OneActs

\* The steps of a start that write.
LEMMA Naming ==
    ASSUME Inv, NEW r \in Replicas, RenameLocal(r) \/ RescheduleKeycloak(r)
    PROVE  Inv'
<1>0. Shape /\ SourcesShape /\ Found(r)
    BY SourcesOf DEF Inv
<1>1. UNCHANGED <<config, localID, left, taking, calls, late>>
    BY DEF RenameLocal, RescheduleKeycloak, running
<1>2. /\ SourcesShape' /\ used' = used
      /\ \A type : OfType(type)' = OfType(type)
    <2>1. CASE RenameLocal(r)
        <3>1. /\ sources[localID[r]] \in Source
              /\ config[r].name \in Names
            BY <1>0, <2>1 DEF RenameLocal, Found, Settled, Booting, Locals,
                              OfType, Shape, Config
        <3> DEFINE src == [sources[localID[r]] EXCEPT !.name = config[r].name]
        <3>2. src \in Source /\ src.type = sources[localID[r]].type
            BY <3>1, ChangedSource
        <3>3. Set(localID[r], src)
            BY <2>1 DEF RenameLocal
        <3> HIDE DEF src
        <3> QED BY <1>0, <3>2, <3>3, SetKeeps
    <2>2. CASE RescheduleKeycloak(r)
        <3>1. config[r].keycloak \in Schedules
            BY <1>0, <2>2 DEF RescheduleKeycloak, Found, Booting, Config
        <3> DEFINE src == [sources[taking[r]] EXCEPT !.schedule = config[r].keycloak]
        <3>2. taking[r] \in Ids /\ sources[taking[r]] # None =>
                  src \in Source /\ src.type = sources[taking[r]].type
            BY <1>0, <3>1, ChangedSource, DeploymentAssumption DEF Shape
        <3>3. Set(taking[r], src)
            BY <2>2 DEF RescheduleKeycloak
        <3> HIDE DEF src
        <3> QED BY <1>0, <3>2, <3>3, SetKeeps
    <2> QED BY <2>1, <2>2
<1>3. /\ stage' \in [Replicas -> Booting \cup {"down", "serving"}]
      /\ UNCHANGED entry
    BY <1>0 DEF RenameLocal, RescheduleKeycloak, Goto, Booting, Shape, Set
<1>4. Shape'
    BY <1>0, <1>1, <1>2, <1>3 DEF Shape, SourcesShape
<1>5. Found(r)'
    BY <1>0, <1>1, <1>2
       DEF Found, Settled, Booting, Locals, RenameLocal, RescheduleKeycloak,
           Goto, Shape
<1>6. Grow /\ (OneReplica => OneLocal')
    BY <1>2 DEF Inv, Grow, Locals, OneLocal
<1>7. \A c \in Calls : Spared(r, c)'
    BY <1>1, <1>2 DEF Inv, Spared, Locals
<1>8. \A x \in Replicas \ {r} : Rests(x)
    BY <1>0, <1>1, <1>3 DEF Rests, RenameLocal, RescheduleKeycloak, Goto, Shape
<1> QED BY <1>4, <1>5, <1>6, <1>7, <1>8, OneActs

LEMMA Making ==
    ASSUME Inv, NEW r \in Replicas, NEW id \in Ids,
           MakeLocal(r, id) \/ MakeKeycloak(r, id)
    PROVE  Inv'
<1>0. Shape /\ SourcesShape /\ Found(r) /\ (OneReplica => OneLocal)
    BY SourcesOf DEF Inv
<1>1. UNCHANGED <<config, left, calls, entry, late>>
    BY DEF MakeLocal, MakeKeycloak, running, Put
<1>2. Shape' /\ Found(r)' /\ (OneReplica => OneLocal') /\ id \notin used
      /\ used' = used \cup {id}
      /\ Locals \subseteq Locals' /\ Locals' \subseteq Locals \cup {id}
    <2>1. CASE MakeLocal(r, id)
        <3> DEFINE src == [type |-> "local", name |-> config[r].name,
                           schedule |-> NoSchedule]
        <3>1. stage[r] = "make local" /\ src \in Source
            BY <1>0, <2>1 DEF MakeLocal, Found, Booting, Config, Source
        <3>2. src.type = "local"
            OBVIOUS
        <3>3. Put(id, src)
            BY <2>1 DEF MakeLocal
        <3> HIDE DEF src
        <3>4. /\ SourcesShape' /\ used' = used \cup {id} /\ id \notin used
              /\ Locals' = Locals \cup {id}
            BY <1>0, <3>1, <3>2, <3>3, PutKeeps
        <3>5. OneReplica => Locals = {}
            BY <1>0, <3>1 DEF Found
        <3>6. OneReplica => OneLocal'
            BY <1>0, <3>4, <3>5, OneMoreLocal
        <3>7. Shape'
            BY <1>0, <1>1, <2>1, <3>4
               DEF Shape, SourcesShape, MakeLocal, Goto, Booting
        <3>8. Found(r)'
            BY <1>0, <1>1, <2>1, <3>4
               DEF Found, Settled, Booting, MakeLocal, Goto, Shape
        <3> QED BY <3>4, <3>6, <3>7, <3>8
    <2>2. CASE MakeKeycloak(r, id)
        <3> DEFINE src == [type |-> "keycloak", name |-> "keycloak",
                           schedule |-> config[r].keycloak]
        <3>1. stage[r] = "make keycloak" /\ src \in Source
            BY <1>0, <2>2, DeploymentAssumption
               DEF MakeKeycloak, Found, Booting, Config, Source
        <3>2. src.type # "local"
            OBVIOUS
        <3>3. Put(id, src)
            BY <2>2 DEF MakeKeycloak
        <3> HIDE DEF src
        <3>4. /\ SourcesShape' /\ used' = used \cup {id} /\ id \notin used
              /\ Locals' = Locals
            BY <1>0, <3>1, <3>2, <3>3, PutKeeps
        <3>5. OneReplica => OneLocal'
            BY <1>0, <3>4 DEF OneLocal, Locals
        <3>6. Shape'
            BY <1>0, <1>1, <2>2, <3>4
               DEF Shape, SourcesShape, MakeKeycloak, Goto, Booting
        <3>7. Found(r)'
            BY <1>0, <1>1, <2>2, <3>1, <3>4
               DEF Found, Settled, Booting, MakeKeycloak, Goto, Shape
        <3> QED BY <3>4, <3>5, <3>6, <3>7
    <2> QED BY <2>1, <2>2
<1>3. Grow
    BY <1>2 DEF Grow
<1>4. \A c \in Calls : Spared(r, c)'
    BY <1>1, <1>3 DEF Inv, Spared, Grow
<1>5. \A x \in Replicas \ {r} : Rests(x)
    BY <1>0, <1>1 DEF Rests, MakeLocal, MakeKeycloak, Goto, Shape
<1> QED BY <1>2, <1>3, <1>4, <1>5, OneActs

\* What a move of groups and entries leaves where it took them from.
LEMMA MoveEmpties ==
    ASSUME NEW from, NEW to, from # to, Move(from, to), NEW g \in Groups
    PROVE  entry'[g] # from
BY DEF Move

LEMMA Adopting ==
    ASSUME Inv, NEW r \in Replicas,
           AdoptOrphans(r) \/ \E id \in Ids : MoveAdopted(r, id)
    PROVE  Inv'
<1>0. Shape /\ Found(r)
    BY DEF Inv
<1>1. UNCHANGED <<sources, used, config, localID, calls, late>>
    BY DEF AdoptOrphans, MoveAdopted, TakesOver, Move, running, scheduler
<1>2. stage[r] \in Settled /\ localID[r] \in Locals
    BY <1>0 DEF AdoptOrphans, MoveAdopted, TakesOver, Found, Settled, Booting
<1>3. Locals' = Locals
    BY <1>1 DEF Locals, OfType
<1>4. Shape' /\ Found(r)'
    <2>1. CASE AdoptOrphans(r)
        <3>1. Shape'
            BY <1>0, <1>1, <2>1 DEF Shape, AdoptOrphans, Goto, Booting
        <3> QED BY <1>0, <1>1, <1>3, <2>1, <3>1
                DEF Found, Settled, Booting, AdoptOrphans, Goto, Shape
    <2>2. ASSUME NEW id \in Ids, MoveAdopted(r, id)
          PROVE  Shape' /\ Found(r)'
        <3>1. Shape'
            BY <1>0, <1>1, <2>2 DEF Shape, MoveAdopted, TakesOver, Goto, Booting
        <3>2. id \in used \ Locals
            BY <1>0, <2>2 DEF MoveAdopted, TakesOver, Locals, OfType, Found
        <3>3. taking'[r] = id /\ stage'[r] = "delete" /\ left'[r] \subseteq left[r]
            BY <1>0, <2>2 DEF MoveAdopted, TakesOver, Goto, Shape
        <3>4. \A g \in Groups : entry'[g] # id
            BY <1>2, <2>2, <3>2, MoveEmpties DEF MoveAdopted
        <3>5. config[r] \in Config
            BY <1>0, <2>2 DEF Found, Booting, MoveAdopted, TakesOver
        <3>6. left[r] \subseteq used
            BY <1>0 DEF Found
        <3> QED BY <1>1, <1>2, <1>3, <3>1, <3>2, <3>3, <3>4, <3>5, <3>6
                DEF Found, Settled, Booting
    <2> QED BY <2>1, <2>2
<1>5. \A g \in Groups : entry'[g] \in {entry[g], localID[r]}
    BY DEF AdoptOrphans, MoveAdopted, Move
<1>6. ASSUME NEW x \in Replicas, x # r
      PROVE  Rests(x)
    <2>1. /\ stage'[x] = stage[x] /\ left'[x] = left[x] /\ taking'[x] = taking[x]
        BY <1>0, <1>6 DEF AdoptOrphans, MoveAdopted, TakesOver, Goto, Shape
    <2>2. stage[x] = "delete" => taking[x] # localID[r]
        BY <1>2 DEF Inv, Found
    <2> QED BY <1>1, <1>5, <2>1, <2>2 DEF Rests
<1>7. Grow /\ (OneReplica => OneLocal')
    BY <1>1, <1>3 DEF Inv, Grow, OneLocal, Locals
<1>8. \A c \in Calls : Spared(r, c)'
    BY <1>1, <1>3 DEF Inv, Spared
<1> QED BY <1>4, <1>6, <1>7, <1>8, OneActs

LEMMA Deleting ==
    ASSUME Inv, NEW r \in Replicas, DeleteAdopted(r)
    PROVE  Inv'
<1>0. Shape /\ SourcesShape /\ Found(r)
    BY SourcesOf DEF Inv
<1>1. UNCHANGED <<config, localID, left, calls>>
    BY DEF DeleteAdopted
<1>2. taking[r] \notin Locals
    BY <1>0 DEF DeleteAdopted, Found
<1>3. SourcesShape' /\ used' = used /\ Locals' = Locals
    BY <1>0, <1>2, DropKeeps DEF DeleteAdopted
<1>4. Shape'
    BY <1>0, <1>1, <1>3 DEF Shape, SourcesShape, DeleteAdopted, Goto, Booting
<1>5. Found(r)'
    BY <1>0, <1>1, <1>3 DEF Found, Settled, Booting, DeleteAdopted, Goto, Shape
<1>6. Grow /\ (OneReplica => OneLocal')
    BY <1>3 DEF Inv, Grow, OneLocal, Locals
<1>7. \A c \in Calls : Spared(r, c)'
    BY <1>1, <1>3 DEF Inv, Spared
<1>8. ASSUME NEW x \in Replicas, x # r
      PROVE  Rests(x)
    <2>1. /\ stage'[x] = stage[x] /\ taking'[x] = taking[x] /\ late'[x] = late[x]
        BY <1>0, <1>8 DEF DeleteAdopted, Goto, Shape
    <2>2. stage[x] = "delete" => taking[x] # None
        BY <1>0, <1>8, DeploymentAssumption DEF Inv, Found, Shape
    <2>3. \A g \in Groups : entry'[g] \in {entry[g], None}
        BY DEF DeleteAdopted, Drop
    <2> QED BY <1>1, <2>1, <2>2, <2>3 DEF Rests
<1> QED BY <1>4, <1>5, <1>6, <1>7, <1>8, OneActs

-----------------------------------------------------------------------------
(* Calls about sources, and what happens meanwhile.                        *)

\* Where a replica serves, what a start has found out is where it is.
LEMMA FoundServing ==
    ASSUME NEW r \in Replicas, Found(r), stage[r] = "serving",
           UNCHANGED <<stage, localID, left>>, localID[r] \in Locals',
           used \subseteq used'
    PROVE  Found(r)'
BY DEF Found, Booting

\* A step of one call leaves the others as they are; where it goes on it is
\* about the same source.
LEMMA SparedStep ==
    ASSUME Shape, NEW r \in Replicas, NEW c \in Calls, NEW next,
           calls' = [calls EXCEPT ![r][c] = next],
           used \ Locals \subseteq used' \ Locals',
           \A y \in Calls : Spared(r, y),
           /\ next # None
           /\ next.at \in {"update", "delete job", "delete"}
           => next.id \in used' \ Locals'
    PROVE  \A y \in Calls : Spared(r, y)'
BY DEF Spared, Shape

\* What a step of a call has to keep.
LEMMA CallStep ==
    ASSUME Inv, NEW r \in Replicas, NEW c \in Calls, Serving(r),
           SourcesShape', used' \in SUBSET Ids, Locals' = Locals,
           used \subseteq used',
           \A g \in Groups : entry'[g] \in {entry[g], None} \cup Locals,
           NEW next \in Call \cup {None},
           calls' = [calls EXCEPT ![r][c] = next],
           /\ next # None
           /\ next.at \in {"update", "delete job", "delete"}
           => next.id \in used \ Locals
    PROVE  Inv'
<1>0. Shape /\ Found(r) /\ \A y \in Calls : Spared(r, y)
    BY DEF Inv
<1>1. /\ UNCHANGED <<config, stage, localID, left, taking, late>>
      /\ stage[r] = "serving"
    BY DEF Serving, booting
<1>2. Shape'
    BY <1>0, <1>1 DEF Shape, SourcesShape
<1>3. localID[r] \in Locals
    BY <1>0, <1>1 DEF Found, Settled, Booting
<1>4. Found(r)'
    BY <1>0, <1>1, <1>3, FoundServing
<1>5. \A y \in Calls : Spared(r, y)'
    BY <1>0, SparedStep
<1>6. Grow /\ (OneReplica => OneLocal')
    BY DEF Inv, Grow, OneLocal, Locals
<1>7. ASSUME NEW x \in Replicas, x # r
      PROVE  Rests(x)
    <2>1. stage[x] = "delete" => taking[x] # None /\ taking[x] \notin Locals
        BY <1>0, <1>7, DeploymentAssumption DEF Inv, Found, Shape
    <2>2. calls'[x] = calls[x]
        BY <1>0, <1>7 DEF Shape
    <2> QED BY <1>1, <2>1, <2>2 DEF Rests
<1> QED BY <1>2, <1>4, <1>5, <1>6, <1>7, OneActs

\* A step that does not touch the sources.
LEMMA SourcesAsTheyAre ==
    ASSUME Inv, UNCHANGED <<sources, used>>
    PROVE  /\ SourcesShape' /\ Locals' = Locals /\ used \subseteq used'
           /\ used' \in SUBSET Ids
BY SourcesOf DEF Inv, Shape, SourcesShape, Locals, OfType

\* Where a call goes on after its first step.
Later == {"update", "reread", "register", "replace", "unregister", "delete job",
          "delete", "adopt"}

\* A call goes on as another step of the same call.
LEMMA ProceedStep ==
    ASSUME Shape, NEW r \in Replicas, NEW c \in Calls, calls[r][c] \in Call,
           NEW label \in Later, Proceed(r, c, label)
    PROVE  \E next \in Call :
               /\ next.at = label /\ next.id = calls[r][c].id
               /\ calls' = [calls EXCEPT ![r][c] = next]
<1> DEFINE call == calls[r][c]
           next == [call EXCEPT !.at = label]
<1>1. calls' = [calls EXCEPT ![r][c] = next]
    BY DEF Proceed, Shape
<1>2. call \in Call
    OBVIOUS
<1> HIDE DEF call
<1>3. next \in Call /\ next.at = label /\ next.id = call.id
    BY <1>2 DEF Call, Later
<1> HIDE DEF next
<1> QED BY <1>1, <1>3 DEF call

\* The steps of calls that leave the sources alone.
LEMMA CallLooks ==
    ASSUME Inv, NEW r \in Replicas, NEW c \in Calls,
           \/ Fail(r, c) \/ GetSource(r, c) \/ RereadSource(r, c)
           \/ Adopt(r, c) \/ Register(r, c) \/ ReplaceJob(r, c)
           \/ Unregister(r, c) \/ \E call \in Call : Request(r, c, call)
    PROVE  Inv'
<1>0. Shape /\ Found(r) /\ Spared(r, c)
    BY DEF Inv
<1>1. calls[r][c] \in Call \cup {None}
    BY <1>0 DEF Shape
<1>2. UNCHANGED <<sources, used>> /\ Serving(r)
    BY DEF Fail, GetSource, RereadSource, Adopt, Register, ReplaceJob,
           Unregister, Request, At, Move, store
<1>3. /\ SourcesShape' /\ Locals' = Locals /\ used \subseteq used'
      /\ used' \in SUBSET Ids
    BY <1>2, SourcesAsTheyAre
<1>b. \A g \in Groups : entry'[g] \in {entry[g], None} \cup Locals
    <2>1. localID[r] \in Locals
        BY <1>0, <1>2 DEF Serving, Found, Settled, Booting
    <2> QED BY <2>1 DEF Fail, GetSource, RereadSource, Adopt, Register,
                        ReplaceJob, Unregister, Request, Move, store
<1>4. ASSUME NEW next \in Call \cup {None},
             calls' = [calls EXCEPT ![r][c] = next],
             /\ next # None
             /\ next.at \in {"update", "delete job", "delete"}
             => next.id \in used \ Locals
      PROVE  Inv'
    BY <1>2, <1>3, <1>4, <1>b, CallStep
<1>5. CASE calls' = [calls EXCEPT ![r][c] = None]
    BY <1>4, <1>5
<1>6. ASSUME NEW label \in {"register", "replace", "unregister", "reread"},
             calls[r][c] # None, Proceed(r, c, label)
      PROVE  Inv'
    <2>1. PICK next \in Call : /\ next.at = label
                              /\ calls' = [calls EXCEPT ![r][c] = next]
        <3>1. label \in Later
            BY <1>6 DEF Later
        <3> QED BY <1>0, <1>1, <1>6, <3>1, ProceedStep
    <2> QED BY <1>4, <2>1
<1>7. CASE GetSource(r, c)
    <2>1. CASE ~Changeable(calls[r][c].id)
        BY <1>5, <1>7, <2>1 DEF GetSource, Done
    <2>2. CASE Changeable(calls[r][c].id)
        <3>1. calls[r][c] \in Call /\ calls[r][c] # None
            BY <1>1, <1>7 DEF GetSource, At
        <3>2. calls[r][c].id \in used \ Locals
            BY <1>0, <2>2, <3>1
               DEF Changeable, Shape, Locals, OfType, Call
        <3>3. PICK label \in Later : Proceed(r, c, label)
            BY <1>7, <2>2 DEF GetSource, Later
        <3>4. PICK next \in Call : /\ next.id = calls[r][c].id
                                  /\ calls' = [calls EXCEPT ![r][c] = next]
            <4>1. Shape /\ calls[r][c] \in Call
                BY <1>0, <3>1
            <4> QED BY <3>3, <4>1, ProceedStep
        <3> QED BY <1>4, <3>2, <3>4
    <2> QED BY <2>1, <2>2
<1>8. CASE RereadSource(r, c)
    <2> DEFINE src == sources[calls[r][c].id]
    <2>1. CASE src = None
        BY <1>5, <1>8, <2>1 DEF RereadSource, Done
    <2>2. CASE src # None
        <3>1. calls[r][c] \in Call
            BY <1>1, <1>8 DEF RereadSource, At
        <3>2. src \in Source
            BY <1>0, <2>2, <3>1 DEF Shape, Call
        <3> DEFINE label == IF src.schedule = NoSchedule
                            THEN "unregister" ELSE "register"
                   next == [calls[r][c] EXCEPT !.schedule = src.schedule,
                                               !.at = label]
        <3>3. next \in Call /\ next.at \in {"unregister", "register"}
            BY <3>1, <3>2 DEF Call, Source
        <3>4. calls' = [calls EXCEPT ![r][c] = next]
            BY <1>0, <1>8, <2>2 DEF RereadSource, Shape
        <3> HIDE DEF next
        <3> QED BY <1>4, <3>3, <3>4
    <2> QED BY <2>1, <2>2
<1>9. CASE Register(r, c)
    BY <1>6, <1>9 DEF Register, At
<1>10. CASE Unregister(r, c)
    <2>1. CASE calls[r][c].at = "unregister"
        BY <1>5, <1>10, <2>1 DEF Unregister, Done
    <2>2. CASE calls[r][c].at # "unregister"
        <3>1. /\ calls[r][c] \in Call /\ calls[r][c] # None
              /\ calls[r][c].at = "delete job"
            BY <1>1, <1>10, <2>2 DEF Unregister, At
        <3>2. calls[r][c].id \in used \ Locals
            BY <1>0, <3>1 DEF Spared
        <3>3. Proceed(r, c, "delete")
            BY <1>10, <2>2 DEF Unregister
        <3>4. PICK next \in Call : /\ next.id = calls[r][c].id
                                  /\ calls' = [calls EXCEPT ![r][c] = next]
            <4>1. "delete" \in Later
                BY DEF Later
            <4>2. Shape /\ calls[r][c] \in Call
                BY <1>0, <3>1
            <4> QED BY <3>3, <4>1, <4>2, ProceedStep
        <3> QED BY <1>4, <3>2, <3>4
    <2> QED BY <2>1, <2>2
<1>11. CASE Fail(r, c) \/ Adopt(r, c) \/ ReplaceJob(r, c)
    BY <1>5, <1>11 DEF Fail, Adopt, ReplaceJob, Done
<1>12. ASSUME NEW call \in Call, Request(r, c, call)
       PROVE  Inv'
    BY <1>4, <1>12 DEF Request
<1> QED BY <1>7, <1>8, <1>9, <1>10, <1>11, <1>12

\* The steps of calls that write sources.
LEMMA CallWrites ==
    ASSUME Inv, NEW r \in Replicas, NEW c \in Calls,
           CreateSource(r, c) \/ UpdateSource(r, c) \/ DeleteSource(r, c)
    PROVE  Inv'
<1> DEFINE call == calls[r][c]
<1>0. Shape /\ SourcesShape /\ Spared(r, c)
    BY SourcesOf DEF Inv
<1>1. call \in Call /\ call # None /\ Serving(r)
    BY <1>0 DEF Shape, CreateSource, UpdateSource, DeleteSource, At
<1>2. /\ SourcesShape' /\ Locals' = Locals /\ used \subseteq used'
      /\ used' \in SUBSET Ids
    <2>0. used \in SUBSET Ids
        BY <1>0 DEF Shape
    <2>1. CASE CreateSource(r, c)
        <3> DEFINE src == [type |-> "file", name |-> call.name,
                           schedule |-> call.schedule]
        <3>1. src \in Source /\ src.type # "local" /\ call.id \in Ids
            BY <1>1 DEF Source, Call
        <3>2. Put(call.id, src)
            BY <2>1 DEF CreateSource
        <3> HIDE DEF src
        <3> QED BY <1>0, <2>0, <3>1, <3>2, PutKeeps
    <2>2. CASE UpdateSource(r, c)
        <3> DEFINE src == [sources[call.id] EXCEPT !.name = call.name,
                                                   !.schedule = call.schedule]
        <3>1. call.name \in Names /\ call.schedule \in Schedules \cup {NoSchedule}
            BY <1>1 DEF Call
        <3>2. call.id \in Ids /\ sources[call.id] # None =>
                  src \in Source /\ src.type = sources[call.id].type
            BY <1>0, <3>1, ChangedSource DEF SourcesShape
        <3>3. Set(call.id, src)
            BY <2>2 DEF UpdateSource
        <3> HIDE DEF src
        <3> QED BY <1>0, <2>0, <3>2, <3>3, SetKeeps DEF Locals
    <2>3. CASE DeleteSource(r, c)
        <3>1. call.id \notin Locals
            BY <1>0, <2>3 DEF DeleteSource, At, Spared
        <3> QED BY <1>0, <2>0, <2>3, <3>1, DropKeeps DEF DeleteSource
    <2> QED BY <2>1, <2>2, <2>3
<1>b. \A g \in Groups : entry'[g] \in {entry[g], None} \cup Locals
    BY DEF CreateSource, UpdateSource, DeleteSource, Put, Set, Drop
<1>3. \/ calls' = [calls EXCEPT ![r][c] = None]
      \/ \E label \in {"register", "reread", "adopt"} : Proceed(r, c, label)
    BY DEF CreateSource, UpdateSource, DeleteSource, Done
<1>4. CASE calls' = [calls EXCEPT ![r][c] = None]
    BY <1>1, <1>2, <1>4, <1>b, CallStep
<1>5. ASSUME NEW label \in {"register", "reread", "adopt"},
             Proceed(r, c, label)
      PROVE  Inv'
    <2>1. PICK next \in Call : /\ next.at = label
                              /\ calls' = [calls EXCEPT ![r][c] = next]
        <3>1. label \in Later
            BY DEF Later
        <3> QED BY <1>0, <1>1, <1>5, <3>1, ProceedStep
    <2> QED BY <1>1, <1>2, <1>b, <2>1, CallStep
<1> QED BY <1>3, <1>4, <1>5

-----------------------------------------------------------------------------
(* Types, of any number of replicas.                                       *)

StoreTyped ==
    /\ SourcesShape
    /\ used \in SUBSET Ids
    /\ owner \in [Groups -> Ids \cup {NoSource, None}]
    /\ entry \in [Groups -> Ids \cup {NoSource, None}]

BootTyped ==
    /\ stage \in [Replicas -> Booting \cup {"down", "serving"}]
    /\ config \in [Replicas -> Config \cup {None}]
    /\ localID \in [Replicas -> Ids \cup {None}]
    /\ left \in [Replicas -> SUBSET Ids]
    /\ taking \in [Replicas -> Ids \cup {None}]
    /\ connected \in SUBSET Replicas

SchedulerTyped ==
    /\ jobs \in [Replicas -> [Ids -> Jobs \cup {None}]]
    /\ cron \in [Replicas -> SUBSET CronEntry]
    /\ lock \in [Replicas -> Calls \cup {None}]

CallsTyped ==
    /\ calls \in [Replicas -> [Calls -> Call \cup {None}]]
    /\ intact \in SUBSET Replicas

\* The groups that were synced late.
LateTyped == late \in [Replicas -> SUBSET Groups]

\* What a replica has got together at each point of its start.
Equipped(r) ==
    /\ stage[r] \in Booting => config[r] \in Config
    /\ stage[r] \in {"keycloak", "reschedule", "make keycloak"} =>
          config[r].keycloak # None
    /\ stage[r] \in Settled => localID[r] \in Ids
    /\ stage[r] \in {"delete", "reschedule"} => taking[r] \in Ids
    /\ stage[r] # "serving" =>
          /\ jobs[r] = [id \in Ids |-> None] /\ cron[r] = {}
          /\ lock[r] = None /\ calls[r] = [c \in Calls |-> None]

\* The scheduler knows the cron entry of each source that has one, and no
\* other is there but the one that the call holding the lock just added.
Current(r, e) == e.job = jobs[r][e.id]

Kept(r) ==
    /\ \A c \in Calls :
          lock[r] = c <=> calls[r][c] # None /\ calls[r][c].at = "replace"
    /\ \A e, f \in cron[r] : e.id = f.id /\ e.job = f.job => e = f
    /\ \A id \in Ids : jobs[r][id] # None =>
          \E e \in cron[r] : e.id = id /\ Current(r, e)
    /\ \A e \in cron[r] :
          ~Current(r, e) => lock[r] # None /\ calls[r][lock[r]].id = e.id
    /\ \A e, f \in cron[r] : Current(r, e) \/ Current(r, f) \/ e = f
    /\ lock[r] # None =>
          \E e \in cron[r] : e.id = calls[r][lock[r]].id /\ ~Current(r, e)
    /\ \A c \in Calls :
          calls[r][c] # None /\ calls[r][c].at = "register" =>
              calls[r][c].schedule # NoSchedule

TypeInv ==
    /\ StoreTyped /\ BootTyped /\ SchedulerTyped /\ CallsTyped
    /\ \A r \in Replicas : Equipped(r) /\ Kept(r)

LEMMA TypeInvTypes == TypeInv /\ LateTyped => TypeOK
BY DEF TypeInv, LateTyped, TypeOK, StoreTyped, BootTyped, SchedulerTyped,
       CallsTyped, SourcesShape, Booting

LEMMA InitTyped == Init => TypeInv
<1> SUFFICES ASSUME Init
             PROVE  TypeInv
    OBVIOUS
<1> USE DEF Init
<1>1. StoreTyped
    BY DEF StoreTyped, SourcesShape
<1>2. BootTyped
    BY DEF BootTyped
<1>3. SchedulerTyped
    BY DEF SchedulerTyped
<1>4. CallsTyped
    BY DEF CallsTyped
<1>5. \A r \in Replicas : Equipped(r)
    BY DEF Equipped, Booting, Settled
<1>6. \A r \in Replicas : Kept(r)
    BY DeploymentAssumption DEF Kept
<1> QED BY <1>1, <1>2, <1>3, <1>4, <1>5, <1>6 DEF TypeInv

LEMMA StoreStaysTyped ==
    ASSUME StoreTyped,
           \/ \E id \in Ids, src \in Source : Put(id, src)
           \/ \E id, src : /\ Set(id, src)
                           /\ id \in Ids /\ sources[id] # None => src \in Source
           \/ \E from, to \in Ids \cup {NoSource, None} : Move(from, to)
           \/ \E id : Drop(id)
           \/ UNCHANGED store
    PROVE  StoreTyped'
<1> USE DEF StoreTyped, SourcesShape
<1>1. CASE \E id \in Ids, src \in Source : Put(id, src)
    BY <1>1 DEF Put
<1>2. ASSUME NEW id, NEW src, Set(id, src),
             id \in Ids /\ sources[id] # None => src \in Source
      PROVE  StoreTyped'
    <2>1. UNCHANGED <<used, owner, entry>>
        BY <1>2 DEF Set
    <2>2. \A x \in Ids :
              sources'[x] = IF x = id /\ sources[x] # None THEN src ELSE sources[x]
        BY <1>2 DEF Set
    <2>3. SourcesShape'
        BY <1>2, <2>1, <2>2 DEF Set
    <2> QED BY <2>1, <2>3
<1>3. ASSUME NEW from, NEW to \in Ids \cup {NoSource, None}, Move(from, to)
      PROVE  StoreTyped'
    BY <1>3 DEF Move
<1>4. ASSUME NEW id, Drop(id)
      PROVE  StoreTyped'
    BY <1>4 DEF Drop
<1>5. CASE UNCHANGED store
    BY <1>5 DEF store
<1> QED BY <1>1, <1>2, <1>3, <1>4, <1>5

LEMMA SetStaysTyped ==
    ASSUME StoreTyped, NEW id \in Ids, NEW src, Set(id, src),
           sources[id] # None => src \in Source
    PROVE  StoreTyped'
BY StoreStaysTyped

\* The other replicas stay as they are.
Same(r) ==
    /\ stage'[r] = stage[r] /\ config'[r] = config[r]
    /\ localID'[r] = localID[r] /\ taking'[r] = taking[r]
    /\ jobs'[r] = jobs[r] /\ cron'[r] = cron[r] /\ lock'[r] = lock[r]
    /\ calls'[r] = calls[r]

LEMMA SameKeeps ==
    ASSUME NEW r, Equipped(r), Kept(r), Same(r)
    PROVE  Equipped(r)' /\ Kept(r)'
<1>1. Equipped(r)'
    BY DEF Equipped, Same
<1>2. Kept(r)'
    BY DEF Kept, Current, Same
<1> QED BY <1>1, <1>2

\* A scheduler and calls that stay as they are.
LEMMA KeptLeft ==
    ASSUME NEW r, Kept(r), jobs'[r] = jobs[r], cron'[r] = cron[r],
           lock'[r] = lock[r], calls'[r] = calls[r]
    PROVE  Kept(r)'
BY DEF Kept, Current

\* One that has nothing to do.
LEMMA KeptIdle ==
    ASSUME NEW r \in Replicas, jobs'[r] = [id \in Ids |-> None], cron'[r] = {},
           lock'[r] = None, calls'[r] = [c \in Calls |-> None]
    PROVE  Kept(r)'
BY DeploymentAssumption DEF Kept

\* A step of one replica.
LEMMA OneMoves ==
    ASSUME TypeInv, NEW r \in Replicas,
           StoreTyped', BootTyped', SchedulerTyped', CallsTyped',
           \A x \in Replicas : x # r => Same(x),
           Equipped(r)', Kept(r)'
    PROVE  TypeInv'
BY SameKeeps DEF TypeInv

LEMMA StartTyped ==
    ASSUME TypeInv, NEW r \in Replicas, Start(r) \/ Boot(r)
    PROVE  TypeInv'
<1>0. /\ StoreTyped /\ BootTyped /\ SchedulerTyped /\ CallsTyped
      /\ Equipped(r) /\ Kept(r)
    BY DEF TypeInv
<1> USE DEF Goto, running, scheduler, booting
<1>1. ASSUME UNCHANGED <<scheduler, calls>>, intact' \in SUBSET Replicas,
             stage[r] # "serving", BootTyped', StoreTyped', Equipped(r)',
             \A x \in Replicas \ {r} :
                 /\ stage'[x] = stage[x] /\ config'[x] = config[x]
                 /\ localID'[x] = localID[x] /\ taking'[x] = taking[x]
      PROVE  TypeInv'
    <2>1. SchedulerTyped' /\ CallsTyped'
        BY <1>0, <1>1 DEF SchedulerTyped, CallsTyped
    <2>2. Kept(r)'
        BY <1>0, <1>1, KeptLeft
    <2>3. \A x \in Replicas : x # r => Same(x)
        BY <1>1 DEF Same
    <2> QED BY <1>1, <2>1, <2>2, <2>3, OneMoves
<1>2. CASE Start(r)
    <2>1. StoreTyped'
        BY <1>0, <1>2, StoreStaysTyped DEF Start
    <2>2. BootTyped' /\ Equipped(r)'
        BY <1>0, <1>2 DEF Start, BootTyped, Equipped, Booting, Settled
    <2> QED BY <1>0, <1>1, <1>2, <2>1, <2>2 DEF Start, BootTyped, CallsTyped
<1>3. CASE FindLocal(r)
    <2>1. StoreTyped'
        BY <1>0, <1>3, StoreStaysTyped DEF FindLocal, FindLocalAmong
    <2>2. BootTyped'
        BY <1>0, <1>3 DEF FindLocal, FindLocalAmong, OfType, BootTyped, Booting
    <2>3. Equipped(r)'
        BY <1>0, <1>3 DEF FindLocal, FindLocalAmong, OfType, BootTyped, Equipped,
                          Booting, Settled
    <2> QED BY <1>0, <1>1, <1>3, <2>1, <2>2, <2>3
            DEF FindLocal, FindLocalAmong, BootTyped, CallsTyped
<1>4. CASE RenameLocal(r)
    <2>1. StoreTyped'
        <3>1. config[r].name \in Names
            BY <1>0, <1>4 DEF RenameLocal, Equipped, Booting, Config
        <3>2. localID[r] \in Ids
            BY <1>0, <1>4 DEF RenameLocal, Equipped, Settled, Booting
        <3>3. sources[localID[r]] \in Source \cup {None}
            BY <1>0, <3>2 DEF StoreTyped, SourcesShape
        <3>4. sources[localID[r]] # None =>
                  [sources[localID[r]] EXCEPT !.name = config[r].name] \in Source
            BY <3>1, <3>3, ChangedSource
        <3>5. Set(localID[r], [sources[localID[r]] EXCEPT !.name = config[r].name])
            BY <1>4 DEF RenameLocal
        <3> QED BY <1>0, <3>2, <3>4, <3>5, SetStaysTyped
    <2>2. BootTyped' /\ Equipped(r)'
        BY <1>0, <1>4 DEF RenameLocal, BootTyped, Equipped, Booting, Settled
    <2> QED BY <1>0, <1>1, <1>4, <2>1, <2>2 DEF RenameLocal, BootTyped, CallsTyped
<1>5. ASSUME NEW id \in Ids, MakeLocal(r, id)
      PROVE  TypeInv'
    <2>1. StoreTyped'
        <3>1. [type |-> "local", name |-> config[r].name,
               schedule |-> NoSchedule] \in Source
            BY <1>0, <1>5 DEF MakeLocal, Equipped, Booting, Config, Source
        <3> QED BY <1>0, <1>5, <3>1, StoreStaysTyped DEF MakeLocal
    <2>2. BootTyped' /\ Equipped(r)'
        BY <1>0, <1>5 DEF MakeLocal, BootTyped, Equipped, Booting, Settled
    <2> QED BY <1>0, <1>1, <1>5, <2>1, <2>2 DEF MakeLocal, BootTyped, CallsTyped
<1>6. CASE AdoptOrphans(r)
    <2>1. StoreTyped'
        <3>1. localID[r] \in Ids
            BY <1>0, <1>6 DEF AdoptOrphans, Equipped, Settled, Booting
        <3> QED BY <1>0, <1>6, <3>1, StoreStaysTyped DEF AdoptOrphans
    <2>2. BootTyped' /\ Equipped(r)'
        BY <1>0, <1>6 DEF AdoptOrphans, BootTyped, Equipped, Booting, Settled
    <2> QED BY <1>0, <1>1, <1>6, <2>1, <2>2 DEF AdoptOrphans, BootTyped, CallsTyped
<1>7. ASSUME NEW S \in SUBSET Ids, ListAdopted(r, S)
      PROVE  TypeInv'
    <2>1. StoreTyped'
        BY <1>0, <1>7, StoreStaysTyped DEF ListAdopted
    <2>2. BootTyped' /\ Equipped(r)'
        BY <1>0, <1>7 DEF ListAdopted, BootTyped, Equipped, Booting, Settled
    <2> QED BY <1>0, <1>1, <1>7, <2>1, <2>2 DEF ListAdopted, BootTyped, CallsTyped
<1>8. ASSUME NEW id \in Ids, MoveAdopted(r, id)
      PROVE  TypeInv'
    <2>1. StoreTyped'
        <3>1. localID[r] \in Ids
            BY <1>0, <1>8 DEF MoveAdopted, TakesOver, Equipped, Settled, Booting
        <3> QED BY <1>0, <1>8, <3>1, StoreStaysTyped DEF MoveAdopted
    <2>2. BootTyped' /\ Equipped(r)'
        BY <1>0, <1>8 DEF MoveAdopted, TakesOver, BootTyped, Equipped, Booting,
                          Settled
    <2> QED BY <1>0, <1>1, <1>8, <2>1, <2>2 DEF MoveAdopted, TakesOver, BootTyped, CallsTyped
<1>9. CASE DeleteAdopted(r)
    <2>1. StoreTyped'
        BY <1>0, <1>9, StoreStaysTyped DEF DeleteAdopted
    <2>2. BootTyped' /\ Equipped(r)'
        BY <1>0, <1>9 DEF DeleteAdopted, BootTyped, Equipped, Booting, Settled
    <2> QED BY <1>0, <1>1, <1>9, <2>1, <2>2 DEF DeleteAdopted, BootTyped, CallsTyped
<1>10. CASE Adopted(r)
    <2>1. StoreTyped'
        BY <1>0, <1>10, StoreStaysTyped DEF Adopted
    <2>2. BootTyped' /\ Equipped(r)'
        BY <1>0, <1>10 DEF Adopted, BootTyped, Equipped, Booting, Settled
    <2> QED BY <1>0, <1>1, <1>10, <2>1, <2>2 DEF Adopted, BootTyped, CallsTyped
<1>11. CASE FindKeycloak(r)
    <2>1. StoreTyped'
        BY <1>0, <1>11, StoreStaysTyped DEF FindKeycloak
    <2>2. BootTyped'
        BY <1>0, <1>11 DEF FindKeycloak, OfType, BootTyped, Booting
    <2>3. Equipped(r)'
        BY <1>0, <1>11 DEF FindKeycloak, OfType, BootTyped, Equipped, Booting,
                           Settled
    <2> QED BY <1>0, <1>1, <1>11, <2>1, <2>2, <2>3 DEF FindKeycloak, BootTyped, CallsTyped
<1>12. CASE RescheduleKeycloak(r)
    <2>1. StoreTyped'
        <3>1. config[r].keycloak \in Schedules
            BY <1>0, <1>12 DEF RescheduleKeycloak, Equipped, Booting, Config
        <3>2. taking[r] \in Ids
            BY <1>0, <1>12 DEF RescheduleKeycloak, Equipped
        <3>3. sources[taking[r]] \in Source \cup {None}
            BY <1>0, <3>2 DEF StoreTyped, SourcesShape
        <3>4. sources[taking[r]] # None =>
                  [sources[taking[r]] EXCEPT !.schedule = config[r].keycloak]
                      \in Source
            BY <3>1, <3>3, RescheduledSource
        <3>5. Set(taking[r],
                  [sources[taking[r]] EXCEPT !.schedule = config[r].keycloak])
            BY <1>12 DEF RescheduleKeycloak
        <3> QED BY <1>0, <3>2, <3>4, <3>5, SetStaysTyped
    <2>2. BootTyped' /\ Equipped(r)'
        BY <1>0, <1>12 DEF RescheduleKeycloak, BootTyped, Equipped, Booting,
                           Settled
    <2> QED BY <1>0, <1>1, <1>12, <2>1, <2>2 DEF RescheduleKeycloak, BootTyped, CallsTyped
<1>13. ASSUME NEW id \in Ids, MakeKeycloak(r, id)
       PROVE  TypeInv'
    <2>1. StoreTyped'
        <3>1. [type |-> "keycloak", name |-> "keycloak",
               schedule |-> config[r].keycloak] \in Source
            BY <1>0, <1>13, DeploymentAssumption
               DEF MakeKeycloak, Equipped, Booting, Config, Source
        <3> QED BY <1>0, <1>13, <3>1, StoreStaysTyped DEF MakeKeycloak
    <2>2. BootTyped' /\ Equipped(r)'
        BY <1>0, <1>13 DEF MakeKeycloak, BootTyped, Equipped, Booting, Settled
    <2> QED BY <1>0, <1>1, <1>13, <2>1, <2>2 DEF MakeKeycloak, BootTyped, CallsTyped
<1>14. CASE CheckKeycloak(r)
    <2>1. StoreTyped'
        BY <1>0, <1>14, StoreStaysTyped DEF CheckKeycloak
    <2>2. BootTyped' /\ Equipped(r)'
        BY <1>0, <1>14 DEF CheckKeycloak, BootTyped, Equipped, Booting, Settled
    <2> QED BY <1>0, <1>1, <1>14, <2>1, <2>2 DEF CheckKeycloak, BootTyped, CallsTyped
<1>15. CASE StartUnscheduled(r)
    <2>1. StoreTyped'
        BY <1>0, <1>15, StoreStaysTyped DEF StartUnscheduled
    <2>2. BootTyped' /\ Equipped(r)'
        BY <1>0, <1>15 DEF StartUnscheduled, BootTyped, Equipped, Booting, Settled
    <2>3. SchedulerTyped' /\ CallsTyped' /\ Kept(r)'
        BY <1>0, <1>15, KeptLeft
           DEF StartUnscheduled, SchedulerTyped, CallsTyped
    <2>4. \A x \in Replicas : x # r => Same(x)
        BY <1>0, <1>15 DEF StartUnscheduled, Same, BootTyped
    <2> QED BY <2>1, <2>2, <2>3, <2>4, OneMoves
<1>16. CASE StartScheduler(r)
    <2>1. StoreTyped'
        BY <1>0, <1>16, StoreStaysTyped DEF StartScheduler
    <2>2. BootTyped' /\ Equipped(r)'
        BY <1>0, <1>16 DEF StartScheduler, BootTyped, Equipped, Booting, Settled
    <2>3. FirstJob \in Jobs
        BY DeploymentAssumption DEF FirstJob
    <2>4. \A id \in Scheduled : id \in Ids /\ sources[id].schedule \in Schedules
        BY <1>0 DEF Scheduled, StoreTyped, SourcesShape, Source
    <2>5. SchedulerTyped'
        BY <1>0, <1>16, <2>3, <2>4 DEF StartScheduler, SchedulerTyped, CronEntry
    <2>6. CallsTyped'
        BY <1>0, <1>16 DEF StartScheduler, CallsTyped
    <2>7. Kept(r)'
        <3>1. lock'[r] = None /\ calls'[r] = [c \in Calls |-> None]
            BY <1>0, <1>16 DEF StartScheduler, Equipped
        <3>2. /\ jobs'[r] = [id \in Ids |-> IF id \in Scheduled THEN FirstJob ELSE None]
              /\ cron'[r] = {[job |-> FirstJob, id |-> id,
                              schedule |-> sources[id].schedule] : id \in Scheduled}
            BY <1>0, <1>16 DEF StartScheduler, SchedulerTyped
        <3>3. \A e \in cron'[r] : /\ e.id \in Scheduled /\ e.job = FirstJob
                                  /\ e = [job |-> FirstJob, id |-> e.id,
                                          schedule |-> sources[e.id].schedule]
            BY <3>2
        <3>4. ASSUME NEW id \in Scheduled
              PROVE  \E e \in cron'[r] : e.id = id /\ e.job = FirstJob
            <4> DEFINE e == [job |-> FirstJob, id |-> id,
                             schedule |-> sources[id].schedule]
            <4>1. e \in cron'[r] /\ e.id = id /\ e.job = FirstJob
                BY <3>2
            <4> QED BY <4>1
        <3>5. \A e \in cron'[r] : e.job = jobs'[r][e.id]
            BY <2>4, <3>2, <3>3
        <3>6. \A id \in Ids : jobs'[r][id] # None => id \in Scheduled
            BY <3>2
        <3> QED BY <3>1, <3>3, <3>4, <3>5, <3>6, DeploymentAssumption
                DEF Kept, Current
    <2>8. \A x \in Replicas : x # r => Same(x)
        BY <1>0, <1>16 DEF StartScheduler, Same, BootTyped, SchedulerTyped
    <2> QED BY <2>1, <2>2, <2>5, <2>6, <2>7, <2>8, OneMoves
<1> QED
    BY <1>2, <1>3, <1>4, <1>5, <1>6, <1>7, <1>8, <1>9, <1>10, <1>11, <1>12,
       <1>13, <1>14, <1>15, <1>16 DEF Boot

LEMMA DownTyped ==
    ASSUME TypeInv, NEW r \in Replicas, RefuseToStart(r) \/ Crash(r)
    PROVE  TypeInv'
<1>0. /\ StoreTyped /\ BootTyped /\ SchedulerTyped /\ CallsTyped
      /\ Down(r)
    BY DEF TypeInv, RefuseToStart, Crash
<1>1. StoreTyped'
    BY <1>0, StoreStaysTyped DEF Down
<1>2. BootTyped' /\ SchedulerTyped' /\ CallsTyped'
    BY <1>0 DEF Down, Goto, BootTyped, SchedulerTyped, CallsTyped
<1>3. /\ stage'[r] = "down"
      /\ jobs'[r] = [id \in Ids |-> None] /\ cron'[r] = {} /\ lock'[r] = None
      /\ calls'[r] = [c \in Calls |-> None]
    BY <1>0 DEF Down, Goto, BootTyped, SchedulerTyped, CallsTyped
<1>4. Equipped(r)'
    BY <1>3 DEF Equipped, Booting, Settled
<1>5. Kept(r)'
    BY <1>3, KeptIdle
<1>6. \A x \in Replicas : x # r => Same(x)
    BY <1>0 DEF Down, Goto, Same, BootTyped, SchedulerTyped, CallsTyped
<1> QED BY <1>1, <1>2, <1>4, <1>5, <1>6, OneMoves

\* A call that does not come to the scheduler leaves it as it is.
LEMMA KeptByCall ==
    ASSUME SchedulerTyped, CallsTyped, NEW r \in Replicas, Kept(r),
           NEW c \in Calls, lock[r] # c, UNCHANGED scheduler,
           NEW next, calls' = [calls EXCEPT ![r][c] = next],
           next # None =>
               /\ next.at # "replace"
               /\ next.at = "register" => next.schedule # NoSchedule
    PROVE  Kept(r)'
<1>1. calls'[r][c] = next /\ \A x \in Calls \ {c} : calls'[r][x] = calls[r][x]
    BY DEF CallsTyped
<1>2. \A x \in Calls :
          lock'[r] = x <=> calls'[r][x] # None /\ calls'[r][x].at = "replace"
    BY <1>1 DEF Kept, scheduler
<1>3. lock[r] # None =>
          lock[r] = lock'[r] /\ calls'[r][lock[r]].id = calls[r][lock[r]].id
    <2>1. lock[r] # None => lock[r] \in Calls \ {c}
        BY DEF SchedulerTyped
    <2> QED BY <1>1, <2>1 DEF scheduler
<1>4. \A x \in Calls :
          calls'[r][x] # None /\ calls'[r][x].at = "register" =>
              calls'[r][x].schedule # NoSchedule
    BY <1>1 DEF Kept
<1> QED BY <1>2, <1>3, <1>4 DEF Kept, Current, scheduler

\* What a step of a call has to keep.
LEMMA CallTyped ==
    ASSUME TypeInv, NEW r \in Replicas, NEW c \in Calls, Serving(r), StoreTyped',
           NEW next \in Call \cup {None}, calls' = [calls EXCEPT ![r][c] = next],
           intact' \in SUBSET Replicas, SchedulerTyped', Kept(r)',
           \A x \in Replicas \ {r} :
               jobs'[x] = jobs[x] /\ cron'[x] = cron[x] /\ lock'[x] = lock[x]
    PROVE  TypeInv'
<1>0. BootTyped /\ CallsTyped /\ Equipped(r)
    BY DEF TypeInv
<1>1. UNCHANGED booting /\ stage[r] = "serving"
    BY DEF Serving
<1>2. BootTyped' /\ Equipped(r)'
    BY <1>0, <1>1 DEF booting, BootTyped, Equipped, Booting
<1>3. CallsTyped'
    BY <1>0 DEF CallsTyped
<1>4. \A x \in Replicas : x # r => Same(x)
    BY <1>0, <1>1 DEF Same, booting, CallsTyped
<1> QED BY <1>2, <1>3, <1>4, OneMoves

\* The same of a call that does not come to the scheduler.
LEMMA PlainCallTyped ==
    ASSUME TypeInv, NEW r \in Replicas, NEW c \in Calls, Serving(r), StoreTyped',
           NEW next \in Call \cup {None}, calls' = [calls EXCEPT ![r][c] = next],
           intact' \in SUBSET Replicas, UNCHANGED scheduler, lock[r] # c,
           next # None =>
               /\ next.at # "replace"
               /\ next.at = "register" => next.schedule # NoSchedule
    PROVE  TypeInv'
<1>1. SchedulerTyped'
    BY DEF TypeInv, SchedulerTyped, scheduler
<1>2. Kept(r)'
    BY KeptByCall DEF TypeInv
<1> QED BY <1>1, <1>2, CallTyped DEF scheduler

LEMMA ProceedTyped ==
    ASSUME CallsTyped, NEW r \in Replicas, NEW c \in Calls, calls[r][c] # None,
           NEW label \in Later, Proceed(r, c, label)
    PROVE  \E next \in Call :
               /\ next.at = label /\ next.id = calls[r][c].id
               /\ next.schedule = calls[r][c].schedule
               /\ calls' = [calls EXCEPT ![r][c] = next]
<1> DEFINE call == calls[r][c]
           next == [call EXCEPT !.at = label]
<1>1. calls' = [calls EXCEPT ![r][c] = next]
    BY DEF Proceed, CallsTyped
<1>2. call \in Call
    BY DEF CallsTyped
<1> HIDE DEF call
<1>3. /\ next \in Call /\ next.at = label /\ next.id = call.id
      /\ next.schedule = call.schedule
    BY <1>2 DEF Call, Later
<1> HIDE DEF next
<1> QED BY <1>1, <1>3 DEF call

\* An updated source is read again, with what is stored of it now.
LEMMA RereadGoesOn ==
    ASSUME StoreTyped, CallsTyped, NEW r \in Replicas, NEW c \in Calls,
           RereadSource(r, c)
    PROVE  \/ /\ sources[calls[r][c].id] = None
              /\ calls' = [calls EXCEPT ![r][c] = None]
           \/ \E next \in Call :
                 /\ sources[calls[r][c].id] # None
                 /\ next.schedule = sources[calls[r][c].id].schedule
                 /\ next.id = calls[r][c].id
                 /\ next.at = IF next.schedule = NoSchedule
                              THEN "unregister" ELSE "register"
                 /\ calls' = [calls EXCEPT ![r][c] = next]
<1> DEFINE call == calls[r][c]
           src  == sources[call.id]
<1>1. CASE src = None
    BY <1>1 DEF RereadSource, Done
<1>2. CASE src # None
    <2>1. call \in Call
        BY DEF RereadSource, At, CallsTyped
    <2>2. src \in Source
        BY <1>2, <2>1 DEF StoreTyped, SourcesShape, Call
    <2> DEFINE label == IF src.schedule = NoSchedule
                        THEN "unregister" ELSE "register"
               next == [call EXCEPT !.schedule = src.schedule, !.at = label]
    <2>3. /\ next \in Call /\ next.schedule = src.schedule /\ next.id = call.id
          /\ next.at = label
        BY <2>1, <2>2 DEF Call, Source
    <2>4. calls' = [calls EXCEPT ![r][c] = next]
        BY <1>2 DEF RereadSource, CallsTyped
    <2> HIDE DEF next
    <2> QED BY <1>2, <2>3, <2>4
<1> QED BY <1>1, <1>2

\* The steps that do not come to the scheduler.
LEMMA PlainStepTyped ==
    ASSUME TypeInv, NEW r \in Replicas, NEW c \in Calls,
           \/ Fail(r, c) \/ CreateSource(r, c) \/ GetSource(r, c)
           \/ UpdateSource(r, c) \/ RereadSource(r, c) \/ DeleteSource(r, c)
           \/ Adopt(r, c) \/ \E call \in Call : Request(r, c, call)
    PROVE  TypeInv'
<1> DEFINE call == calls[r][c]
<1>0. /\ StoreTyped /\ CallsTyped /\ Equipped(r) /\ Kept(r)
      /\ call \in Call \cup {None}
    BY DEF TypeInv, CallsTyped
<1>1. /\ Serving(r) /\ UNCHANGED scheduler /\ lock[r] # c
      /\ intact' \in SUBSET Replicas
    BY <1>0 DEF Fail, CreateSource, GetSource, UpdateSource, RereadSource,
                DeleteSource, Adopt, Request, At, Kept, CallsTyped
<1>2. StoreTyped'
    <2>1. CASE \/ Fail(r, c) \/ GetSource(r, c) \/ RereadSource(r, c)
               \/ \E new \in Call : Request(r, c, new)
        BY <1>0, <2>1, StoreStaysTyped DEF Fail, GetSource, RereadSource, Request
    <2>2. CASE CreateSource(r, c)
        <3>1. /\ [type |-> "file", name |-> call.name,
                  schedule |-> call.schedule] \in Source
              /\ call.id \in Ids
            BY <1>0, <2>2 DEF CreateSource, At, Call, Source
        <3> QED BY <1>0, <2>2, <3>1, StoreStaysTyped DEF CreateSource
    <2>3. CASE UpdateSource(r, c)
        <3>0. /\ call.id \in Ids /\ call.name \in Names
              /\ call.schedule \in Schedules \cup {NoSchedule}
            BY <1>0, <2>3 DEF UpdateSource, At, Call
        <3>1. sources[call.id] \in Source \cup {None}
            BY <1>0, <3>0 DEF StoreTyped, SourcesShape
        <3>2. sources[call.id] # None =>
                  [sources[call.id] EXCEPT !.name = call.name,
                                           !.schedule = call.schedule] \in Source
            BY <3>0, <3>1, ChangedSource
        <3>3. Set(call.id, [sources[call.id] EXCEPT !.name = call.name,
                                                    !.schedule = call.schedule])
            BY <2>3 DEF UpdateSource
        <3> QED BY <1>0, <3>0, <3>2, <3>3, SetStaysTyped
    <2>4. CASE DeleteSource(r, c)
        BY <1>0, <2>4, StoreStaysTyped DEF DeleteSource
    <2>5. CASE Adopt(r, c)
        <3>1. localID[r] \in Ids
            BY <1>0, <1>1 DEF Serving, Equipped, Settled
        <3> QED BY <1>0, <2>5, <3>1, StoreStaysTyped DEF Adopt
    <2> QED BY <2>1, <2>2, <2>3, <2>4, <2>5
<1>3. ASSUME NEW next \in Call \cup {None},
             calls' = [calls EXCEPT ![r][c] = next],
             next # None =>
                 /\ next.at # "replace"
                 /\ next.at = "register" => next.schedule # NoSchedule
      PROVE  TypeInv'
    BY <1>1, <1>2, <1>3, PlainCallTyped
<1>4. CASE calls' = [calls EXCEPT ![r][c] = None]
    BY <1>3, <1>4
<1>5. ASSUME NEW label \in Later \ {"replace"}, call # None, Proceed(r, c, label),
             label = "register" => call.schedule # NoSchedule
      PROVE  TypeInv'
    <2>1. PICK next \in Call : /\ next.at = label
                              /\ next.schedule = call.schedule
                              /\ calls' = [calls EXCEPT ![r][c] = next]
        BY <1>0, <1>5, ProceedTyped
    <2> QED BY <1>3, <1>5, <2>1
<1>6. CASE Fail(r, c) \/ Adopt(r, c)
    BY <1>4, <1>6 DEF Fail, Adopt, Done
<1>7. CASE \/ CreateSource(r, c) \/ GetSource(r, c) \/ UpdateSource(r, c)
           \/ DeleteSource(r, c)
    <2>1. call # None
        BY <1>7 DEF CreateSource, GetSource, UpdateSource, DeleteSource, At
    <2>2. \/ calls' = [calls EXCEPT ![r][c] = None]
          \/ \E label \in {"register", "update", "delete job", "reread", "adopt"} :
                /\ Proceed(r, c, label)
                /\ label = "register" => call.schedule # NoSchedule
        BY <1>7 DEF CreateSource, GetSource, UpdateSource, DeleteSource, Done
    <2> QED BY <1>4, <1>5, <2>1, <2>2 DEF Later
<1>8. CASE RereadSource(r, c)
    BY <1>0, <1>3, <1>4, <1>8, RereadGoesOn
<1>9. ASSUME NEW new \in Call, Request(r, c, new)
      PROVE  TypeInv'
    <2>1. calls' = [calls EXCEPT ![r][c] = new]
        BY <1>9 DEF Request
    <2>2. new.at \notin {"replace", "register"}
        BY <1>9 DEF Request
    <2> QED BY <1>3, <2>1, <2>2
<1> QED BY <1>6, <1>7, <1>8, <1>9

\* Cron numbers its entries anew, so there is a number the source has not.
LEMMA FreshJob ==
    ASSUME TypeInv, NEW r \in Replicas, NEW id \in Ids, lock[r] = None,
           NEW job, job = CHOOSE j \in Jobs : j \notin JobsOf(r, id)
    PROVE  job \in Jobs /\ job \notin JobsOf(r, id) /\ job # jobs[r][id]
<1>0. Kept(r) /\ SchedulerTyped
    BY DEF TypeInv
<1>1. JobsOf(r, id) \subseteq {jobs[r][id]}
    BY <1>0 DEF JobsOf, Kept, Current
<1>2. \E j \in Jobs : j \notin JobsOf(r, id)
    BY <1>1, DeploymentAssumption
<1>3. job \in Jobs /\ job \notin JobsOf(r, id)
    BY <1>2
<1>4. jobs[r][id] # None => jobs[r][id] \in JobsOf(r, id)
    BY <1>0 DEF JobsOf, Kept, Current
<1> QED BY <1>3, <1>4, DeploymentAssumption

LEMMA RegisterTyped ==
    ASSUME TypeInv, NEW r \in Replicas, NEW c \in Calls, Register(r, c)
    PROVE  TypeInv'
<1> DEFINE call == calls[r][c]
           job  == CHOOSE j \in Jobs : j \notin JobsOf(r, call.id)
<1>0. /\ StoreTyped /\ SchedulerTyped /\ CallsTyped /\ Kept(r)
      /\ Serving(r) /\ lock[r] = None
      /\ call \in Call /\ call.at = "register" /\ call # None
    BY DEF TypeInv, Register, At, CallsTyped
<1>1. call.id \in Ids /\ call.schedule \in Schedules
    BY <1>0 DEF Call, Kept
<1>2. job \in Jobs /\ job \notin JobsOf(r, call.id) /\ job # jobs[r][call.id]
    BY <1>0, <1>1, FreshJob
<1>3. PICK new \in CronEntry :
          /\ new.id = call.id /\ new.job \notin JobsOf(r, call.id)
          /\ new.job # jobs[r][call.id]
          /\ cron' = [cron EXCEPT ![r] = @ \cup {new}]
    <2> DEFINE new == [job |-> job, id |-> call.id, schedule |-> call.schedule]
    <2>1. cron' = [cron EXCEPT ![r] = @ \cup {new}]
        BY DEF Register
    <2> HIDE DEF job
    <2>2. new \in CronEntry /\ new.id = call.id /\ new.job = job
        BY <1>1, <1>2 DEF CronEntry
    <2> HIDE DEF new
    <2> QED BY <1>2, <2>1, <2>2
<1>4. lock' = [lock EXCEPT ![r] = c] /\ UNCHANGED <<jobs, store, intact>>
    BY DEF Register, At
<1>5. SchedulerTyped'
    BY <1>0, <1>3, <1>4 DEF SchedulerTyped
<1>6. StoreTyped' /\ intact' \in SUBSET Replicas
    BY <1>0, <1>4, StoreStaysTyped DEF CallsTyped
<1>7. PICK next \in Call : /\ next.at = "replace" /\ next.id = call.id
                          /\ calls' = [calls EXCEPT ![r][c] = next]
    <2>1. Proceed(r, c, "replace") /\ "replace" \in Later
        BY DEF Register, Later
    <2> QED BY <1>0, <2>1, ProceedTyped
<1>8. Kept(r)'
    <2>1. /\ calls'[r][c] = next /\ next # None
          /\ \A x \in Calls \ {c} : calls'[r][x] = calls[r][x]
        BY <1>0, <1>7, DeploymentAssumption DEF CallsTyped
    <2>2. cron'[r] = cron[r] \cup {new} /\ lock'[r] = c /\ jobs'[r] = jobs[r]
        BY <1>0, <1>3, <1>4 DEF SchedulerTyped
    <2>3. \A x \in Calls :
              lock'[r] = x <=> calls'[r][x] # None /\ calls'[r][x].at = "replace"
        BY <1>0, <1>7, <2>1, <2>2, DeploymentAssumption DEF Kept
    <2>4. \A e \in cron[r] : e.id = new.id => e.job # new.job
        BY <1>3 DEF JobsOf
    <2>5. \A e, f \in cron'[r] : e.id = f.id /\ e.job = f.job => e = f
        BY <1>0, <2>2, <2>4 DEF Kept
    <2>6. new.job # jobs'[r][new.id]
        BY <1>3, <2>2
    <2>7. \A e \in cron[r] : e.job = jobs'[r][e.id]
        BY <1>0, <2>2 DEF Kept, Current
    <2>8. \A x \in Calls :
              calls'[r][x] # None /\ calls'[r][x].at = "register" =>
                  calls'[r][x].schedule # NoSchedule
        BY <1>0, <1>7, <2>1 DEF Kept
    <2>9. \A id \in Ids : jobs'[r][id] # None =>
              \E e \in cron'[r] : e.id = id /\ e.job = jobs'[r][e.id]
        BY <1>0, <2>2 DEF Kept, Current
    <2>10. c # None
        BY DeploymentAssumption
    <2> QED BY <1>3, <1>7, <2>1, <2>2, <2>3, <2>5, <2>6, <2>7, <2>8, <2>9, <2>10
            DEF Kept, Current
<1> QED BY <1>0, <1>3, <1>4, <1>5, <1>6, <1>7, <1>8, CallTyped DEF SchedulerTyped

\* The call that replaces a job holds the lock, and has the job it takes the
\* place of known to the scheduler.
LEMMA NewJobFound ==
    ASSUME TypeInv, NEW r \in Replicas, NEW c \in Calls, At(r, c, "replace")
    PROVE  /\ lock[r] = c /\ c # None
           /\ \E new \in cron[r] :
                 /\ new.id = calls[r][c].id /\ ~Current(r, new)
                 /\ NewJob(r, calls[r][c].id) = new.job
                 /\ \A e \in cron[r] : Current(r, e) \/ e = new
<1> DEFINE id == calls[r][c].id
<1>0. Kept(r)
    BY DEF TypeInv
<1>1. lock[r] = c /\ c # None
    BY <1>0, DeploymentAssumption DEF At, Kept
<1>2. PICK new \in cron[r] : new.id = id /\ ~Current(r, new)
    BY <1>0, <1>1 DEF Kept
<1>3. \A e \in cron[r] : Current(r, e) \/ e = new
    BY <1>0, <1>2 DEF Kept
<1>4. new.job \in JobsOf(r, id) /\ new.job # jobs[r][id]
    BY <1>2 DEF JobsOf, Current
<1>5. NewJob(r, id) \in JobsOf(r, id) /\ NewJob(r, id) # jobs[r][id]
    BY <1>4 DEF NewJob
<1>6. PICK e \in cron[r] : e.id = id /\ e.job = NewJob(r, id)
    BY <1>5 DEF JobsOf
<1>7. e = new
    BY <1>3, <1>5, <1>6 DEF Current
<1> QED BY <1>1, <1>2, <1>3, <1>6, <1>7

LEMMA ReplaceTyped ==
    ASSUME TypeInv, NEW r \in Replicas, NEW c \in Calls, ReplaceJob(r, c)
    PROVE  TypeInv'
<1> DEFINE id == calls[r][c].id
<1>0. /\ StoreTyped /\ SchedulerTyped /\ CallsTyped /\ Kept(r)
      /\ Serving(r) /\ At(r, c, "replace")
    BY DEF TypeInv, ReplaceJob, At
<1>1. id \in Ids
    BY <1>0 DEF At, CallsTyped, Call
<1>2. PICK new \in cron[r] :
          /\ new.id = id /\ ~Current(r, new) /\ NewJob(r, id) = new.job
          /\ \A e \in cron[r] : Current(r, e) \/ e = new
    BY <1>0, NewJobFound
<1>3. lock[r] = c /\ c # None
    BY <1>0, NewJobFound
<1>4. /\ cron' = [cron EXCEPT ![r] = Without(r, id)]
      /\ jobs' = [jobs EXCEPT ![r][id] = new.job]
      /\ lock' = [lock EXCEPT ![r] = None]
      /\ calls' = [calls EXCEPT ![r][c] = None]
      /\ UNCHANGED <<store, intact>>
    BY <1>2 DEF ReplaceJob, Done, At
<1>5. SchedulerTyped'
    BY <1>0, <1>1, <1>4 DEF SchedulerTyped, Without, CronEntry
<1>6. StoreTyped' /\ intact' \in SUBSET Replicas
    BY <1>0, <1>4, StoreStaysTyped DEF CallsTyped
<1>7. Kept(r)'
    <2>1. /\ calls'[r][c] = None
          /\ \A x \in Calls \ {c} : calls'[r][x] = calls[r][x]
        BY <1>0, <1>4 DEF CallsTyped
    <2>2. /\ cron'[r] = Without(r, id) /\ lock'[r] = None
          /\ jobs'[r][id] = new.job
          /\ \A x \in Ids \ {id} : jobs'[r][x] = jobs[r][x]
        BY <1>0, <1>1, <1>4 DEF SchedulerTyped
    <2>3. \A x \in Calls :
              lock'[r] = x <=> calls'[r][x] # None /\ calls'[r][x].at = "replace"
        BY <1>0, <1>3, <2>1, <2>2, DeploymentAssumption DEF Kept
    <2>4. new \in cron'[r] /\ cron'[r] \subseteq cron[r]
        BY <1>2, <2>2 DEF Without, Current
    <2>5. \A e \in cron[r] : e.id # id => e \in cron'[r]
        BY <2>2 DEF Without
    <2>6. \A e \in cron[r] : e.id \in Ids
        BY <1>0 DEF SchedulerTyped, CronEntry
    <2>7. \A e \in cron'[r] : Current(r, e)'
        <3>1. \A e \in cron'[r] : e.id = id => e = new
            BY <1>2, <2>2 DEF Without, Current
        <3>2. \A e \in cron'[r] : e.id # id => Current(r, e)
            BY <1>2, <2>4
        <3> QED BY <1>2, <2>2, <2>4, <2>6, <3>1, <3>2 DEF Current
    <2>8. \A x \in Ids : jobs'[r][x] # None =>
              \E e \in cron'[r] : e.id = x /\ Current(r, e)'
        BY <1>0, <1>2, <2>2, <2>4, <2>5 DEF Kept, Current
    <2> QED BY <1>0, <2>1, <2>2, <2>3, <2>4, <2>7, <2>8 DEF Kept
<1> QED BY <1>0, <1>4, <1>5, <1>6, <1>7, CallTyped DEF SchedulerTyped

LEMMA UnregisterTyped ==
    ASSUME TypeInv, NEW r \in Replicas, NEW c \in Calls, Unregister(r, c)
    PROVE  TypeInv'
<1> DEFINE id == calls[r][c].id
<1>0. /\ StoreTyped /\ SchedulerTyped /\ CallsTyped /\ Kept(r)
      /\ Serving(r) /\ lock[r] = None
      /\ calls[r][c] # None /\ calls[r][c] \in Call
    <2>1. Serving(r) /\ lock[r] = None /\ calls[r][c] # None
        BY DEF Unregister, At
    <2>2. StoreTyped /\ SchedulerTyped /\ CallsTyped /\ Kept(r)
        BY DEF TypeInv
    <2>3. calls[r][c] \in Call \cup {None}
        BY <2>2 DEF CallsTyped
    <2> QED BY <2>1, <2>2, <2>3
<1>1. id \in Ids
    BY <1>0 DEF Call
<1>2. /\ cron' = [cron EXCEPT ![r] = Without(r, id)]
      /\ jobs' = [jobs EXCEPT ![r][id] = None]
      /\ UNCHANGED <<store, lock, intact>>
    BY DEF Unregister, At
<1>3. SchedulerTyped'
    BY <1>0, <1>2 DEF SchedulerTyped, Without
<1>4. StoreTyped' /\ intact' \in SUBSET Replicas
    BY <1>0, <1>2, StoreStaysTyped DEF CallsTyped
<1>5. PICK next \in Call \cup {None} :
          /\ calls' = [calls EXCEPT ![r][c] = next]
          /\ next # None => next.at = "delete"
    <2>1. CASE Done(r, c)
        BY <2>1 DEF Done
    <2>2. CASE Proceed(r, c, "delete")
        <3>1. "delete" \in Later
            BY DEF Later
        <3> QED BY <1>0, <2>2, <3>1, ProceedTyped
    <2> QED BY <2>1, <2>2 DEF Unregister
<1>6. Kept(r)'
    <2>1. /\ calls'[r][c] = next
          /\ \A x \in Calls \ {c} : calls'[r][x] = calls[r][x]
        BY <1>0, <1>5 DEF CallsTyped
    <2>2. /\ cron'[r] = Without(r, id) /\ lock'[r] = None
          /\ jobs'[r][id] = None
          /\ \A x \in Ids \ {id} : jobs'[r][x] = jobs[r][x]
        BY <1>0, <1>1, <1>2 DEF SchedulerTyped
    <2>3. \A x \in Calls :
              lock'[r] = x <=> calls'[r][x] # None /\ calls'[r][x].at = "replace"
        BY <1>0, <1>5, <2>1, <2>2, DeploymentAssumption DEF Kept
    <2>4. \A e \in cron[r] : Current(r, e) /\ e.id \in Ids
        <3>1. \A e \in cron[r] : e.id \in Ids
            BY <1>0 DEF SchedulerTyped, CronEntry
        <3> QED BY <1>0, <3>1 DEF Kept
    <2>5. cron'[r] = {e \in cron[r] : e.id # id}
        BY <2>2, <2>4 DEF Without, Current
    <2>6. \A e \in cron'[r] : Current(r, e)'
        BY <2>2, <2>4, <2>5 DEF Current
    <2>7. \A x \in Ids : jobs'[r][x] # None =>
              \E e \in cron'[r] : e.id = x /\ Current(r, e)'
        BY <1>0, <2>2, <2>5 DEF Kept, Current
    <2>8. \A x \in Calls :
              calls'[r][x] # None /\ calls'[r][x].at = "register" =>
                  calls'[r][x].schedule # NoSchedule
        BY <1>0, <1>5, <2>1 DEF Kept
    <2> QED BY <1>0, <2>2, <2>3, <2>5, <2>6, <2>7, <2>8 DEF Kept
<1> QED BY <1>0, <1>2, <1>3, <1>4, <1>5, <1>6, CallTyped DEF SchedulerTyped

LEMMA MeanwhileTyped ==
    ASSUME TypeInv, NEW r \in Replicas,
           \/ \E id \in Ids, g \in Groups : Sync(r, id, g)
           \/ \E g \in Groups : Maintain(r, g)
    PROVE  TypeInv'
<1>1. UNCHANGED <<sources, used, booting, scheduler, calls, intact>>
    BY DEF Sync, Maintain, Serving
<1>2. localID[r] \in Ids
    BY DEF TypeInv, Equipped, Settled, Sync, Maintain, Serving
<1>3. owner' \in [Groups -> Ids \cup {NoSource, None}]
    BY <1>2 DEF Sync, Maintain, TypeInv, StoreTyped
<1>4. entry' \in [Groups -> Ids \cup {NoSource, None}]
    BY <1>2 DEF Sync, Maintain, TypeInv, StoreTyped
<1>5. StoreTyped'
    BY <1>1, <1>3, <1>4 DEF TypeInv, StoreTyped, SourcesShape
<1>6. BootTyped' /\ SchedulerTyped' /\ CallsTyped'
    BY <1>1 DEF TypeInv, BootTyped, SchedulerTyped, CallsTyped, booting, scheduler
<1>7. \A x \in Replicas : Same(x)
    BY <1>1 DEF Same, booting, scheduler
<1> QED BY <1>5, <1>6, <1>7, SameKeeps DEF TypeInv

LEMMA NextTyped == TypeInv /\ [Next]_vars => TypeInv'
<1> SUFFICES ASSUME TypeInv, [Next]_vars
             PROVE  TypeInv'
    OBVIOUS
<1>1. CASE UNCHANGED vars
    <2>1. StoreTyped' /\ BootTyped' /\ SchedulerTyped' /\ CallsTyped'
        BY <1>1 DEF vars, store, booting, scheduler, TypeInv, StoreTyped,
                    SourcesShape, BootTyped, SchedulerTyped, CallsTyped
    <2>2. \A r \in Replicas : Same(r)
        BY <1>1 DEF vars, booting, scheduler, Same
    <2> QED BY <2>1, <2>2, SameKeeps DEF TypeInv
<1>2. ASSUME NEW r \in Replicas, NEW c \in Calls, Handle(r, c)
      PROVE  TypeInv'
    BY <1>2, PlainStepTyped, RegisterTyped, ReplaceTyped, UnregisterTyped
       DEF Handle
<1> QED
    BY <1>1, <1>2, StartTyped, DownTyped, PlainStepTyped, MeanwhileTyped
       DEF Next, Acts

LEMMA LateStaysTyped == LateTyped /\ [Next]_vars => LateTyped'
<1> SUFFICES ASSUME LateTyped, [Next]_vars
             PROVE  LateTyped'
    OBVIOUS
<1> USE DEF LateTyped, running, booting
<1>1. CASE UNCHANGED vars
    BY <1>1 DEF vars
<1>2. ASSUME NEW r \in Replicas, Start(r) \/ Boot(r) \/ RefuseToStart(r) \/ Crash(r)
      PROVE  LateTyped'
    BY <1>2 DEF Start, RefuseToStart, Crash, Down, Boot, FindLocal,
        FindLocalAmong, RenameLocal, FindKeycloak, RescheduleKeycloak,
        AdoptOrphans, DeleteAdopted, Adopted, CheckKeycloak, MakeLocal,
        MoveAdopted, TakesOver, MakeKeycloak, ListAdopted, StartScheduler,
        StartUnscheduled
<1>3. ASSUME NEW r \in Replicas, NEW c \in Calls,
             Handle(r, c) \/ Fail(r, c) \/ \E call \in Call : Request(r, c, call)
      PROVE  LateTyped'
    BY <1>3 DEF Handle, CreateSource, GetSource, UpdateSource, RereadSource,
        DeleteSource, Adopt, Register, ReplaceJob, Unregister, Fail, Request,
        At, Serving
<1>4. ASSUME NEW r \in Replicas,
             \/ \E id \in Ids, g \in Groups : Sync(r, id, g)
             \/ \E g \in Groups : Maintain(r, g)
      PROVE  LateTyped'
    BY <1>4 DEF Sync, Maintain, Serving
<1> QED BY <1>1, <1>2, <1>3, <1>4 DEF Next, Acts

\* TypeCorrect: of any number of replicas on one store, however they start,
\* stop and serve, every state is typed; a cron runner has one entry per
\* source at most that the scheduler does not know (scheduler.go:56-76).
THEOREM TypeCorrect == Spec => []TypeOK
<1>1. Init => TypeInv /\ LateTyped
    BY InitTyped DEF Init, LateTyped
<1>2. TypeInv /\ LateTyped /\ [Next]_vars => TypeInv' /\ LateTyped'
    BY NextTyped, LateStaysTyped
<1> QED BY <1>1, <1>2, TypeInvTypes, PTL DEF Spec

-----------------------------------------------------------------------------
(* One local source, and no group that a start empties.                    *)

LEMMA Meanwhile ==
    ASSUME Inv, StoreTyped, NEW r \in Replicas,
           \/ \E id \in Ids, g \in Groups : Sync(r, id, g)
           \/ \E g \in Groups : Maintain(r, g)
    PROVE  Inv'
<1>0. /\ Shape /\ Found(r)
      /\ entry \in [Groups -> Ids \cup {NoSource, None}]
    BY DEF Inv, StoreTyped
<1>1. /\ UNCHANGED <<sources, used, calls, config, stage, localID, left, taking>>
      /\ stage[r] = "serving"
    BY DEF Sync, Maintain, Serving, booting
<1>2. Locals' = Locals /\ localID[r] \in Locals
    BY <1>0, <1>1 DEF Locals, OfType, Found, Settled, Booting
<1>3. /\ late' \in [Replicas -> SUBSET Groups]
      /\ \A x \in Replicas : late[x] \subseteq late'[x]
    <2>1. CASE \E g \in Groups : Maintain(r, g)
        BY <1>0, <2>1 DEF Maintain, Serving, Shape
    <2>2. ASSUME NEW id \in Ids, NEW g \in Groups, Sync(r, id, g)
          PROVE  /\ late' \in [Replicas -> SUBSET Groups]
                 /\ \A x \in Replicas : late[x] \subseteq late'[x]
        <3>1. late' = [x \in Replicas |->
                         IF stage[x] = "delete" /\ taking[x] = id
                         THEN late[x] \cup {g} ELSE late[x]]
            BY <2>2 DEF Sync
        <3> QED BY <1>0, <3>1 DEF Shape
    <2> QED BY <2>1, <2>2
<1>4. ASSUME NEW x \in Replicas, stage[x] = "delete", NEW g \in Groups,
             entry'[g] = taking[x], entry[g] # taking[x]
      PROVE  g \in late'[x]
    <2>1. taking[x] # None /\ taking[x] \notin Locals
        BY <1>0, <1>4, DeploymentAssumption DEF Inv, Found, Shape
    <2>2. ASSUME NEW y \in Groups, Maintain(r, y)
          PROVE  FALSE
        BY <1>0, <1>2, <1>4, <2>1, <2>2 DEF Maintain
    <2>3. PICK id \in Ids, y \in Groups : Sync(r, id, y)
        BY <2>2
    <2>4. y = g /\ taking[x] = id
        BY <1>0, <1>4, <2>1, <2>3 DEF Sync
    <2> QED BY <1>4, <2>3, <2>4 DEF Sync
<1>5. \A x \in Replicas : Rests(x)
    BY <1>1, <1>3, <1>4 DEF Rests
<1>6. Grow /\ (OneReplica => OneLocal')
    BY <1>1, <1>2 DEF Inv, Grow, OneLocal, Locals
<1>7. Shape'
    BY <1>0, <1>1, <1>3 DEF Shape
<1>8. Found(r)'
    BY <1>0, <1>1, <1>2, FoundServing
<1>9. \A c \in Calls : Spared(r, c)'
    BY <1>1, <1>2 DEF Inv, Spared
<1> QED BY <1>5, <1>6, <1>7, <1>8, <1>9, OneActs

LEMMA NextInv ==
    ASSUME Inv, TypeInv, [Next]_vars
    PROVE  Inv'
<1>1. CASE UNCHANGED vars
    <2>1. /\ UNCHANGED <<sources, used, calls, config, stage, localID, left>>
          /\ UNCHANGED <<taking, entry, late>>
        BY <1>1 DEF vars, store, booting
    <2>2. Shape'
        BY <2>1 DEF Inv, Shape
    <2>3. Locals' = Locals
        BY <2>1 DEF Locals, OfType
    <2>4. \A r \in Replicas : Found(r)'
        BY <2>1, <2>3 DEF Inv, Found
    <2>5. \A r \in Replicas, c \in Calls : Spared(r, c)'
        BY <2>1, <2>3 DEF Inv, Spared
    <2>6. OneReplica => OneLocal'
        BY <2>3 DEF Inv, OneLocal, Locals
    <2> QED BY <2>2, <2>4, <2>5, <2>6 DEF Inv
<1>2. ASSUME NEW r \in Replicas, Boot(r)
      PROVE  Inv'
    BY <1>2, LookingAround, Naming, Making, Adopting, Deleting DEF Boot
<1>3. ASSUME NEW r \in Replicas, Start(r) \/ RefuseToStart(r) \/ Crash(r)
      PROVE  Inv'
    BY <1>3, LookingAround, Stopping
<1>4. ASSUME NEW r \in Replicas, NEW c \in Calls,
             \/ Handle(r, c) \/ Fail(r, c)
             \/ \E call \in Call : Request(r, c, call)
      PROVE  Inv'
    BY <1>4, CallLooks, CallWrites DEF Handle
<1>5. ASSUME NEW r \in Replicas,
             \/ \E id \in Ids, g \in Groups : Sync(r, id, g)
             \/ \E g \in Groups : Maintain(r, g)
      PROVE  Inv'
    BY <1>5, Meanwhile DEF TypeInv
<1> QED BY <1>1, <1>2, <1>3, <1>4, <1>5 DEF Next, Acts

\* OneLocalAlways: a service of one replica never has two local sources,
\* however often it stops anywhere in its start, and whatever the local
\* source is called from one start to the next (app.go:245-269).
THEOREM OneLocalAlways ==
    ASSUME OneReplica
    PROVE  Spec => []OneLocal
<1>1. Init => Inv /\ TypeInv
    BY InitInv, InitTyped
<1>2. Inv /\ TypeInv /\ [Next]_vars => Inv' /\ TypeInv'
    BY NextInv, NextTyped
<1>3. Inv => OneLocal
    BY DEF Inv
<1> QED BY <1>1, <1>2, <1>3, PTL DEF Spec

\* NeverEmptiedAlways: of any number of replicas that start, stop, serve calls
\* and sync beside each other, no start takes an entry out of a group, for any
\* sources to adopt and any point at which an earlier start was cut short, but
\* one that another replica's sync of the source that is taken over put there
\* after the groups were moved (app.go:274-308).
THEOREM NeverEmptiedAlways == Spec => NeverEmptied
<1> DEFINE A == \A r \in Replicas : Boot(r) =>
                    \A g \in Groups \ late[r] :
                        entry[g] # None => entry'[g] # None
<1>1. Inv => A
    <2> SUFFICES ASSUME Inv, NEW r \in Replicas, Boot(r),
                        NEW g \in Groups \ late[r], entry[g] # None
                 PROVE  entry'[g] # None
        OBVIOUS
    <2>1. Shape /\ Found(r)
        BY DEF Inv
    <2>2. CASE AdoptOrphans(r) \/ \E id \in Ids : MoveAdopted(r, id)
        <3>1. localID[r] \in Locals
            BY <2>1, <2>2 DEF AdoptOrphans, MoveAdopted, TakesOver, Found,
                              Settled, Booting
        <3>2. localID[r] # None
            BY <3>1, DeploymentAssumption DEF Locals, OfType
        <3>3. entry'[g] \in {entry[g], localID[r]}
            BY <2>2 DEF AdoptOrphans, MoveAdopted, Move
        <3> QED BY <3>2, <3>3
    <2>3. CASE DeleteAdopted(r)
        <3>1. entry[g] # taking[r]
            BY <2>1, <2>3 DEF DeleteAdopted, Found
        <3> QED BY <2>3, <3>1 DEF DeleteAdopted, Drop
    <2>4. CASE \/ RenameLocal(r) \/ RescheduleKeycloak(r)
               \/ \E id \in Ids : MakeLocal(r, id) \/ MakeKeycloak(r, id)
        BY <2>4 DEF RenameLocal, RescheduleKeycloak, MakeLocal, MakeKeycloak,
                    Put, Set
    <2>5. CASE \/ FindLocal(r) \/ FindKeycloak(r) \/ Adopted(r)
               \/ CheckKeycloak(r) \/ StartScheduler(r) \/ StartUnscheduled(r)
               \/ \E S \in SUBSET Ids : ListAdopted(r, S)
        BY <2>5 DEF FindLocal, FindLocalAmong, FindKeycloak, Adopted,
                    CheckKeycloak, StartScheduler, StartUnscheduled,
                    ListAdopted, store
    <2> QED BY <2>2, <2>3, <2>4, <2>5 DEF Boot
<1>2. Init => Inv /\ TypeInv
    BY InitInv, InitTyped
<1>3. Inv /\ TypeInv /\ [Next]_vars => Inv' /\ TypeInv'
    BY NextInv, NextTyped
<1> QED BY <1>1, <1>2, <1>3, PTL DEF Spec, NeverEmptied

-----------------------------------------------------------------------------
(* Every group belongs to a source.                                        *)

\* Where in a start the groups of no source have been adopted.
Housed == Booting \ {"local", "rename local", "make local", "orphans"}

NoneHomeless == \A g \in Groups : owner[g] # NoSource

\* Entries go with their groups, and groups belong to sources there are, or to
\* none.
Belongs ==
    /\ \A g \in Groups : entry[g] \in {None, owner[g]}
    /\ \A g \in Groups : owner[g] \in Ids => sources[owner[g]] # None

\* None is left to none where a start or the end of a deletion has been.
Placed(r) ==
    /\ stage[r] = "delete" => \A g \in Groups : owner[g] # taking[r]
    /\ stage[r] \in Housed => NoneHomeless
    /\ /\ stage[r] = "serving" /\ r \in intact
       /\ \A c \in Calls : calls[r][c] # None => calls[r][c].at # "adopt"
       => NoneHomeless

OwnedInv == Belongs /\ \A r \in Replicas : Placed(r)

LEMMA OwnedInvOwns == TypeInv /\ OwnedInv => EverybodyOwned
BY DEF TypeInv, StoreTyped, OwnedInv, Belongs, Placed, EverybodyOwned, Quiet,
       NoneHomeless

LEMMA InitOwned == Init => OwnedInv
BY DeploymentAssumption
   DEF Init, OwnedInv, Belongs, Placed, Housed, Booting

\* A move to a source there is leaves nothing to whom it took it from.
LEMMA MoveBelongs ==
    ASSUME Belongs, NEW from, from # None, NEW to \in Ids, sources[to] # None,
           StoreTyped, from # to, Move(from, to)
    PROVE  /\ Belongs'
           /\ \A g \in Groups : owner'[g] # from
           /\ \A g \in Groups : owner'[g] \in {owner[g], to}
BY DEF Belongs, StoreTyped, Move

LEMMA DropBelongs ==
    ASSUME Belongs, StoreTyped, NEW id \in Ids, Drop(id)
    PROVE  /\ Belongs'
           /\ \A g \in Groups : owner'[g] = NoSource => owner[g] \in {id, NoSource}
BY DeploymentAssumption DEF Belongs, StoreTyped, SourcesShape, Drop

LEMMA PutBelongs ==
    ASSUME Belongs, StoreTyped, NEW id \in Ids, NEW src \in Source, Put(id, src)
    PROVE  Belongs' /\ UNCHANGED owner
BY DeploymentAssumption DEF Belongs, StoreTyped, SourcesShape, Put

LEMMA SetBelongs ==
    ASSUME Belongs, StoreTyped, NEW id \in Ids, NEW src, Set(id, src), StoreTyped',
           sources[id] # None => src \in Source
    PROVE  Belongs' /\ UNCHANGED owner
BY DeploymentAssumption DEF Belongs, StoreTyped, SourcesShape, Set

\* The steps that leave the groups alone.
LEMMA OwnersLeft ==
    ASSUME OneReplica, Inv, TypeInv, TypeInv', OwnedInv, NEW r \in Replicas,
           UNCHANGED owner, Belongs',
           \/ Start(r) \/ FindLocal(r) \/ RenameLocal(r) \/ FindKeycloak(r)
           \/ RescheduleKeycloak(r) \/ Adopted(r) \/ CheckKeycloak(r)
           \/ StartScheduler(r) \/ StartUnscheduled(r) \/ RefuseToStart(r)
           \/ Crash(r)
           \/ \E id \in Ids : MakeLocal(r, id) \/ MakeKeycloak(r, id)
           \/ \E S \in SUBSET Ids : ListAdopted(r, S)
    PROVE  OwnedInv'
<1>0. \A x \in Replicas : x = r
    BY DEF OneReplica
<1>1. BootTyped /\ Placed(r)
    BY DEF TypeInv, OwnedInv
<1>2. CASE Start(r) \/ FindLocal(r) \/ \E id \in Ids : MakeLocal(r, id)
    <2>1. stage'[r] \in {"local", "rename local", "make local", "orphans"}
        BY <1>1, <1>2 DEF Start, FindLocal, FindLocalAmong, MakeLocal, Goto,
                          BootTyped
    <2>2. Placed(r)'
        BY <2>1 DEF Placed, Housed, Booting
    <2> QED BY <1>0, <2>2 DEF OwnedInv
<1>3. CASE RenameLocal(r)
    <2>1. stage'[r] = "orphans"
        BY <1>1, <1>3 DEF RenameLocal, Goto, BootTyped
    <2>2. Placed(r)'
        BY <2>1 DEF Placed, Housed, Booting
    <2> QED BY <1>0, <2>2 DEF OwnedInv
<1>4. CASE RefuseToStart(r) \/ Crash(r)
    <2>1. stage'[r] = "down"
        BY <1>1, <1>4 DEF RefuseToStart, Crash, Down, Goto, BootTyped
    <2>2. Placed(r)'
        BY <2>1 DEF Placed, Housed, Booting
    <2> QED BY <1>0, <2>2 DEF OwnedInv
<1>5. ASSUME stage[r] \in Housed, stage'[r] # "delete"
      PROVE  OwnedInv'
    <2>1. NoneHomeless'
        BY <1>1, <1>5 DEF Placed, NoneHomeless
    <2>2. Placed(r)'
        BY <1>5, <2>1 DEF Placed
    <2> QED BY <1>0, <2>2 DEF OwnedInv
<1>6. CASE \/ FindKeycloak(r) \/ RescheduleKeycloak(r) \/ Adopted(r)
           \/ CheckKeycloak(r) \/ StartScheduler(r) \/ StartUnscheduled(r)
           \/ \E id \in Ids : MakeKeycloak(r, id)
           \/ \E S \in SUBSET Ids : ListAdopted(r, S)
    <2>1. stage[r] \in Housed
        BY <1>6 DEF FindKeycloak, RescheduleKeycloak, Adopted, CheckKeycloak,
                    StartScheduler, StartUnscheduled, MakeKeycloak, ListAdopted,
                    Housed, Booting
    <2>2. stage'[r] # "delete"
        BY <1>1, <1>6
           DEF FindKeycloak, RescheduleKeycloak, Adopted, CheckKeycloak,
               StartScheduler, StartUnscheduled, MakeKeycloak, ListAdopted, Goto,
               BootTyped
    <2> QED BY <1>5, <2>1, <2>2
<1> QED BY <1>2, <1>3, <1>4, <1>6

\* The local source is there to take what is moved to it.
LEMMA LocalThere ==
    ASSUME Inv, NEW r \in Replicas, stage[r] \in Settled
    PROVE  localID[r] \in Locals /\ localID[r] \in Ids
           /\ sources[localID[r]] # None /\ localID[r] \notin {NoSource, None}
<1>1. localID[r] \in Locals
    BY DEF Inv, Found
<1> QED BY <1>1, DeploymentAssumption DEF Locals, OfType

LEMMA StartMoves ==
    ASSUME OneReplica, Inv, TypeInv, TypeInv', OwnedInv, NEW r \in Replicas,
           \/ AdoptOrphans(r) \/ DeleteAdopted(r)
           \/ \E id \in Ids : MoveAdopted(r, id)
    PROVE  OwnedInv'
<1>0. \A x \in Replicas : x = r
    BY DEF OneReplica
<1>1. StoreTyped /\ BootTyped /\ Belongs /\ Placed(r) /\ Equipped(r)
    BY DEF TypeInv, OwnedInv
<1>2. NoSource # None /\ NoSource \notin Ids /\ None \notin Ids
    BY DeploymentAssumption
<1>3. CASE AdoptOrphans(r)
    <2>1. /\ localID[r] \in Ids /\ sources[localID[r]] # None
          /\ localID[r] # NoSource
        BY <1>3, LocalThere DEF AdoptOrphans, Settled, Booting
    <2>2. Belongs' /\ NoneHomeless'
        BY <1>1, <1>2, <1>3, <2>1, MoveBelongs DEF AdoptOrphans, NoneHomeless
    <2>3. stage'[r] = "list"
        BY <1>1, <1>3 DEF AdoptOrphans, Goto, BootTyped
    <2>4. Placed(r)'
        BY <2>2, <2>3 DEF Placed
    <2> QED BY <1>0, <2>2, <2>4 DEF OwnedInv
<1>4. ASSUME NEW id \in Ids, MoveAdopted(r, id)
      PROVE  OwnedInv'
    <2>1. /\ localID[r] \in Ids /\ sources[localID[r]] # None
          /\ localID[r] # NoSource /\ localID[r] \in Locals
        BY <1>4, LocalThere DEF MoveAdopted, TakesOver, Settled, Booting
    <2>2. id # localID[r]
        BY <1>4, <2>1 DEF MoveAdopted, TakesOver, Locals, OfType
    <2>3. /\ Belongs' /\ \A g \in Groups : owner'[g] # id
          /\ \A g \in Groups : owner'[g] \in {owner[g], localID[r]}
        BY <1>1, <1>2, <1>4, <2>1, <2>2, MoveBelongs DEF MoveAdopted
    <2>4. stage[r] = "move" /\ stage'[r] = "delete" /\ taking'[r] = id
        BY <1>1, <1>4 DEF MoveAdopted, TakesOver, Goto, BootTyped
    <2>5. NoneHomeless
        BY <1>1, <2>4 DEF Placed, Housed, Booting
    <2>6. NoneHomeless'
        BY <2>1, <2>3, <2>5 DEF NoneHomeless
    <2>7. Placed(r)'
        BY <2>3, <2>4, <2>6 DEF Placed
    <2> QED BY <1>0, <2>3, <2>7 DEF OwnedInv
<1>5. CASE DeleteAdopted(r)
    <2>1. stage[r] = "delete" /\ stage'[r] = "move" /\ taking[r] \in Ids
        BY <1>1, <1>5 DEF DeleteAdopted, Goto, BootTyped, Equipped
    <2>2. /\ Belongs'
          /\ \A g \in Groups : owner'[g] = NoSource => owner[g] \in {taking[r], NoSource}
        BY <1>1, <1>5, <2>1, DropBelongs DEF DeleteAdopted
    <2>3. NoneHomeless /\ \A g \in Groups : owner[g] # taking[r]
        BY <1>1, <2>1 DEF Placed, Housed, Booting
    <2>4. NoneHomeless'
        BY <2>2, <2>3 DEF NoneHomeless
    <2>5. Placed(r)'
        BY <2>1, <2>4 DEF Placed
    <2> QED BY <1>0, <2>2, <2>5 DEF OwnedInv
<1> QED BY <1>3, <1>4, <1>5

\* A step of a call: either it leaves the groups alone and does not come from
\* "adopt", or it goes there, or none is left without a source.
LEMMA CallPlaces ==
    ASSUME OneReplica, TypeInv, OwnedInv, NEW r \in Replicas, NEW c \in Calls,
           Serving(r), Belongs', intact' \subseteq intact,
           NEW next, calls' = [calls EXCEPT ![r][c] = next],
           \/ NoneHomeless'
           \/ next # None /\ next.at = "adopt"
           \/ r \notin intact'
           \/ /\ UNCHANGED owner
              /\ calls[r][c] # None => calls[r][c].at # "adopt"
    PROVE  OwnedInv'
<1>0. \A x \in Replicas : x = r
    BY DEF OneReplica
<1>1. CallsTyped /\ Placed(r) /\ UNCHANGED <<stage, taking>> /\ stage[r] = "serving"
    BY DEF TypeInv, OwnedInv, Serving, booting
<1>2. /\ calls'[r][c] = next
      /\ \A x \in Calls \ {c} : calls'[r][x] = calls[r][x]
    BY <1>1 DEF CallsTyped
<1>3. ASSUME r \in intact',
             \A x \in Calls : calls'[r][x] # None => calls'[r][x].at # "adopt"
      PROVE  NoneHomeless'
    <2>1. CASE /\ UNCHANGED owner
               /\ calls[r][c] # None => calls[r][c].at # "adopt"
        BY <1>1, <1>2, <1>3, <2>1 DEF Placed, NoneHomeless
    <2> QED BY <1>2, <1>3, <2>1
<1>4. Placed(r)'
    BY <1>1, <1>3 DEF Placed, Housed, Booting
<1> QED BY <1>0, <1>4 DEF OwnedInv

LEMMA CallOwns ==
    ASSUME OneReplica, Inv, TypeInv, TypeInv', OwnedInv,
           NEW r \in Replicas, NEW c \in Calls,
           \/ Handle(r, c) \/ Fail(r, c)
           \/ \E call \in Call : Request(r, c, call)
    PROVE  OwnedInv'
<1> DEFINE call == calls[r][c]
<1>1. /\ StoreTyped /\ StoreTyped' /\ CallsTyped /\ Belongs
      /\ intact \subseteq Replicas
    BY DEF TypeInv, OwnedInv, CallsTyped
<1>2. CASE DeleteSource(r, c)
    <2>1. /\ Serving(r) /\ UNCHANGED intact /\ call # None
          /\ Drop(call.id) /\ Proceed(r, c, "adopt")
        BY <1>2 DEF DeleteSource, At
    <2>2. call.id \in Ids
        BY <1>1, <2>1 DEF CallsTyped, Call
    <2>3. Belongs'
        BY <1>1, <2>1, <2>2, DropBelongs
    <2>4. PICK next \in Call : /\ next.at = "adopt"
                              /\ calls' = [calls EXCEPT ![r][c] = next]
        <3>1. "adopt" \in Later
            BY DEF Later
        <3> QED BY <1>1, <2>1, <3>1, ProceedTyped
    <2>5. next # None
        BY DeploymentAssumption
    <2> QED BY <2>1, <2>3, <2>4, <2>5, CallPlaces
<1>3. CASE Adopt(r, c)
    <2>1. /\ Serving(r) /\ UNCHANGED intact
          /\ Move(NoSource, localID[r])
          /\ calls' = [calls EXCEPT ![r][c] = None]
        BY <1>3 DEF Adopt, At, Done
    <2>2. /\ localID[r] \in Ids /\ sources[localID[r]] # None
          /\ localID[r] # NoSource
        BY <2>1, LocalThere DEF Serving, Settled
    <2>3. Belongs' /\ NoneHomeless'
        BY <1>1, <2>1, <2>2, MoveBelongs, DeploymentAssumption DEF NoneHomeless
    <2> QED BY <2>1, <2>3, CallPlaces
<1>4. CASE Fail(r, c)
    <2>1. /\ Serving(r) /\ intact' = intact \ {r} /\ UNCHANGED store
          /\ calls' = [calls EXCEPT ![r][c] = None]
        BY <1>4 DEF Fail, Done
    <2>2. Belongs'
        BY <1>1, <2>1 DEF Belongs, store
    <2> QED BY <2>1, <2>2, CallPlaces
<1>5. ASSUME NEW new \in Call, Request(r, c, new)
      PROVE  OwnedInv'
    <2>1. /\ Serving(r) /\ intact' \subseteq intact /\ UNCHANGED store
          /\ call = None /\ calls' = [calls EXCEPT ![r][c] = new]
        BY <1>5 DEF Request
    <2>2. Belongs' /\ UNCHANGED owner
        BY <1>1, <2>1 DEF Belongs, store
    <2> QED BY <2>1, <2>2, CallPlaces
<1>6. ASSUME \E next : calls' = [calls EXCEPT ![r][c] = next],
             Serving(r), UNCHANGED <<intact, owner>>, Belongs',
             call # None, call.at # "adopt"
      PROVE  OwnedInv'
    BY <1>6, CallPlaces
<1>7. CASE CreateSource(r, c) \/ UpdateSource(r, c)
    <2>1. /\ Serving(r) /\ UNCHANGED intact /\ call # None /\ call.at # "adopt"
          /\ \E next : calls' = [calls EXCEPT ![r][c] = next]
        BY <1>1, <1>7 DEF CreateSource, UpdateSource, At, Done, Proceed, CallsTyped
    <2>2. call \in Call
        BY <1>1, <2>1 DEF CallsTyped
    <2>3. Belongs' /\ UNCHANGED owner
        <3>1. CASE CreateSource(r, c)
            <4>1. /\ [type |-> "file", name |-> call.name,
                      schedule |-> call.schedule] \in Source
                  /\ call.id \in Ids
                BY <2>2 DEF Call, Source
            <4> QED BY <1>1, <3>1, <4>1, PutBelongs DEF CreateSource
        <3>2. CASE UpdateSource(r, c)
            <4>1. /\ call.id \in Ids /\ call.name \in Names
                  /\ call.schedule \in Schedules \cup {NoSchedule}
                BY <2>2 DEF Call
            <4>2. sources[call.id] \in Source \cup {None}
                BY <1>1, <4>1 DEF StoreTyped, SourcesShape
            <4>3. sources[call.id] # None =>
                      [sources[call.id] EXCEPT !.name = call.name,
                                               !.schedule = call.schedule]
                          \in Source
                BY <4>1, <4>2, ChangedSource
            <4>4. Set(call.id, [sources[call.id] EXCEPT !.name = call.name,
                                        !.schedule = call.schedule])
                BY <3>2 DEF UpdateSource
            <4> QED BY <1>1, <4>1, <4>3, <4>4, SetBelongs
        <3> QED BY <1>7, <3>1, <3>2
    <2> QED BY <1>6, <2>1, <2>3
<1>8. CASE \/ GetSource(r, c) \/ RereadSource(r, c) \/ Register(r, c)
           \/ ReplaceJob(r, c) \/ Unregister(r, c)
    <2>1. /\ Serving(r) /\ UNCHANGED <<intact, store>>
          /\ call # None /\ call.at # "adopt"
        BY <1>8 DEF GetSource, RereadSource, Register, ReplaceJob, Unregister, At
    <2>2. \E next : calls' = [calls EXCEPT ![r][c] = next]
        <3>1. Done(r, c) => \E next : calls' = [calls EXCEPT ![r][c] = next]
            BY DEF Done
        <3>2. ASSUME NEW label, Proceed(r, c, label)
              PROVE  \E next : calls' = [calls EXCEPT ![r][c] = next]
            BY <1>1, <3>2 DEF Proceed, CallsTyped
        <3>3. CASE RereadSource(r, c)
            BY <1>1, <3>3, RereadGoesOn
        <3>4. CASE \/ GetSource(r, c) \/ Register(r, c) \/ ReplaceJob(r, c)
                   \/ Unregister(r, c)
            BY <3>1, <3>2, <3>4 DEF GetSource, Register, ReplaceJob, Unregister
        <3> QED BY <1>8, <3>3, <3>4
    <2>3. Belongs' /\ UNCHANGED owner
        BY <1>1, <2>1 DEF Belongs, store
    <2> QED BY <1>6, <2>1, <2>2, <2>3
<1> QED BY <1>2, <1>3, <1>4, <1>5, <1>7, <1>8 DEF Handle

LEMMA MeanwhileOwns ==
    ASSUME OneReplica, Inv, TypeInv, OwnedInv, NEW r \in Replicas,
           \/ \E id \in Ids, g \in Groups : Sync(r, id, g)
           \/ \E g \in Groups : Maintain(r, g)
    PROVE  OwnedInv'
<1>0. \A x \in Replicas : x = r
    BY DEF OneReplica
<1>1. /\ StoreTyped /\ Belongs /\ Placed(r)
      /\ stage[r] = "serving" /\ UNCHANGED <<stage, taking, calls, intact, sources>>
    BY DEF TypeInv, OwnedInv, Sync, Maintain, Serving, booting
<1>2. localID[r] \in Ids /\ sources[localID[r]] # None
    BY <1>1, LocalThere DEF Settled
<1>3. Belongs' /\ \A g \in Groups : owner'[g] = NoSource => owner[g] = NoSource
    <2>1. ASSUME NEW id \in Ids, NEW g \in Groups, Sync(r, id, g)
          PROVE  /\ Belongs'
                 /\ \A h \in Groups : owner'[h] = NoSource => owner[h] = NoSource
        BY <1>1, <2>1, DeploymentAssumption DEF Sync, Belongs, StoreTyped
    <2>2. ASSUME NEW g \in Groups, Maintain(r, g)
          PROVE  /\ Belongs'
                 /\ \A h \in Groups : owner'[h] = NoSource => owner[h] = NoSource
        BY <1>1, <1>2, <2>2, DeploymentAssumption DEF Maintain, Belongs, StoreTyped
    <2> QED BY <2>1, <2>2
<1>4. Placed(r)'
    BY <1>1, <1>3 DEF Placed, NoneHomeless, Housed, Booting
<1> QED BY <1>0, <1>3, <1>4 DEF OwnedInv

LEMMA NextOwned ==
    ASSUME OneReplica, Inv, TypeInv, TypeInv', OwnedInv, [Next]_vars
    PROVE  OwnedInv'
<1>0. StoreTyped /\ StoreTyped' /\ BootTyped /\ Belongs
    BY DEF TypeInv, OwnedInv
<1>1. CASE UNCHANGED vars
    BY <1>1 DEF OwnedInv, Belongs, Placed, NoneHomeless, vars, store, booting
<1>2. ASSUME NEW r \in Replicas,
             \/ Start(r) \/ FindLocal(r) \/ FindKeycloak(r) \/ Adopted(r)
             \/ CheckKeycloak(r) \/ StartScheduler(r) \/ StartUnscheduled(r)
             \/ RefuseToStart(r) \/ Crash(r)
             \/ \E S \in SUBSET Ids : ListAdopted(r, S)
      PROVE  OwnedInv'
    <2>1. UNCHANGED store
        BY <1>2 DEF Start, FindLocal, FindLocalAmong, FindKeycloak, Adopted,
                    CheckKeycloak, StartScheduler, StartUnscheduled,
                    RefuseToStart, Crash, Down, ListAdopted
    <2>2. Belongs' /\ UNCHANGED owner
        BY <1>0, <2>1 DEF Belongs, store
    <2> QED BY <1>2, <2>2, OwnersLeft
<1>3. ASSUME NEW r \in Replicas, NEW id \in Ids,
             MakeLocal(r, id) \/ MakeKeycloak(r, id)
      PROVE  OwnedInv'
    <2>1. Belongs' /\ UNCHANGED owner
        <3>1. Equipped(r)
            BY DEF TypeInv
        <3>2. CASE MakeLocal(r, id)
            <4>1. [type |-> "local", name |-> config[r].name,
                   schedule |-> NoSchedule] \in Source
                BY <3>1, <3>2 DEF MakeLocal, Equipped, Booting, Config, Source
            <4> QED BY <1>0, <3>2, <4>1, PutBelongs DEF MakeLocal
        <3>3. CASE MakeKeycloak(r, id)
            <4>1. [type |-> "keycloak", name |-> "keycloak",
                   schedule |-> config[r].keycloak] \in Source
                BY <3>1, <3>3, DeploymentAssumption
                   DEF MakeKeycloak, Equipped, Booting, Config, Source
            <4> QED BY <1>0, <3>3, <4>1, PutBelongs DEF MakeKeycloak
        <3> QED BY <1>3, <3>2, <3>3
    <2> QED BY <1>3, <2>1, OwnersLeft
<1>4. ASSUME NEW r \in Replicas, RenameLocal(r) \/ RescheduleKeycloak(r)
      PROVE  OwnedInv'
    <2>1. Belongs' /\ UNCHANGED owner
        <3>1. Equipped(r)
            BY DEF TypeInv
        <3>2. CASE RenameLocal(r)
            <4>1. localID[r] \in Ids /\ config[r].name \in Names
                BY <3>1, <3>2 DEF RenameLocal, Equipped, Settled, Booting, Config
            <4>2. sources[localID[r]] # None =>
                      [sources[localID[r]] EXCEPT !.name = config[r].name]
                          \in Source
                <5>1. sources[localID[r]] \in Source \cup {None}
                    BY <1>0, <4>1 DEF StoreTyped, SourcesShape
                <5> QED BY <4>1, <5>1, ChangedSource
            <4>3. Set(localID[r],
                      [sources[localID[r]] EXCEPT !.name = config[r].name])
                BY <3>2 DEF RenameLocal
            <4> QED BY <1>0, <4>1, <4>2, <4>3, SetBelongs
        <3>3. CASE RescheduleKeycloak(r)
            <4>1. taking[r] \in Ids /\ config[r].keycloak \in Schedules
                BY <3>1, <3>3 DEF RescheduleKeycloak, Equipped, Booting, Config
            <4>2. sources[taking[r]] # None =>
                      [sources[taking[r]] EXCEPT !.schedule = config[r].keycloak]
                          \in Source
                <5>1. sources[taking[r]] \in Source \cup {None}
                    BY <1>0, <4>1 DEF StoreTyped, SourcesShape
                <5> QED BY <4>1, <5>1, RescheduledSource
            <4>3. Set(taking[r],
                      [sources[taking[r]] EXCEPT !.schedule = config[r].keycloak])
                BY <3>3 DEF RescheduleKeycloak
            <4> QED BY <1>0, <4>1, <4>2, <4>3, SetBelongs
        <3> QED BY <1>4, <3>2, <3>3
    <2> QED BY <1>4, <2>1, OwnersLeft
<1>5. ASSUME NEW r \in Replicas, Boot(r)
      PROVE  OwnedInv'
    BY <1>2, <1>3, <1>4, <1>5, StartMoves DEF Boot
<1> QED BY <1>1, <1>2, <1>5, CallOwns, MeanwhileOwns DEF Next, Acts

\* EverybodyOwnedAlways: whenever a service of one replica serves and rests,
\* every group belongs to a source there is and its entry to the same, for any
\* sources and groups, and wherever an earlier start or the deletion of a
\* source was cut short (api_sync.go:268-296, app.go:274-308).
THEOREM EverybodyOwnedAlways ==
    ASSUME OneReplica
    PROVE  Spec => []EverybodyOwned
<1>1. Init => Inv /\ TypeInv /\ OwnedInv
    BY InitInv, InitTyped, InitOwned
<1>2. Inv /\ TypeInv /\ OwnedInv /\ [Next]_vars => Inv' /\ TypeInv' /\ OwnedInv'
    BY NextInv, NextTyped, NextOwned
<1>3. TypeInv /\ OwnedInv => EverybodyOwned
    BY OwnedInvOwns
<1> QED BY <1>1, <1>2, <1>3, PTL DEF Spec

-----------------------------------------------------------------------------
(* The scheduler follows the sources.                                      *)

InStep(r, id) ==
    \A s \in Schedules :
        (\E e \in cron[r] : e.id = id /\ e.schedule = s)
            <=> sources[id] # None /\ sources[id].schedule = s

NoJob(r, id) == \A e \in cron[r] : e.id # id

\* What a call has yet to do about its source, or has found out.
Pending(r, call) ==
    LET id == call.id
    IN  /\ call.at = "create" => id \notin used /\ NoJob(r, id)
        /\ call.at \in {"get to update", "get to delete"} => InStep(r, id)
        /\ call.at \in {"update", "reread", "register", "replace", "unregister"} =>
              sources[id] # None
        /\ call.at \in {"register", "replace"} =>
              sources[id].schedule = call.schedule
        /\ call.at = "replace" =>
              \A e \in cron[r] :
                  e.id = id /\ ~Current(r, e) => e.schedule = call.schedule
        /\ call.at = "unregister" => sources[id].schedule = NoSchedule
        /\ call.at = "delete" => NoJob(r, id)
        /\ call.at = "adopt" => NoJob(r, id) /\ sources[id] = None

\* While nothing fails and no two calls are about one source, what they have
\* yet to do is all that keeps the cron runner from following the sources.
Following(r) ==
    stage[r] = "serving" /\ r \in intact =>
        /\ \A c, d \in Calls :
              /\ calls[r][c] # None /\ calls[r][d] # None
              /\ calls[r][c].id = calls[r][d].id
              => c = d
        /\ \A c \in Calls : calls[r][c] # None => Pending(r, calls[r][c])
        /\ \A id \in Ids :
              (\A c \in Calls : calls[r][c] # None => calls[r][c].id # id)
                  => InStep(r, id)

\* Nothing is done about a source.
Untouched(r, id) ==
    /\ sources'[id] = sources[id]
    /\ id \in used' <=> id \in used
    /\ \A e : e \in cron'[r] /\ e.id = id <=> e \in cron[r] /\ e.id = id
    /\ jobs'[r][id] = jobs[r][id]

LEMMA InStepKept ==
    ASSUME NEW r, NEW id, Untouched(r, id), InStep(r, id)
    PROVE  InStep(r, id)'
BY DEF Untouched, InStep

LEMMA PendingKept ==
    ASSUME NEW r, NEW call, Untouched(r, call.id), Pending(r, call)
    PROVE  Pending(r, call)'
<1>1. InStep(r, call.id) => InStep(r, call.id)'
    BY InStepKept
<1>2. NoJob(r, call.id) => NoJob(r, call.id)'
    BY DEF Untouched, NoJob
<1>3. \A e \in cron'[r] : e.id = call.id =>
          e \in cron[r] /\ (Current(r, e)' <=> Current(r, e))
    BY DEF Untouched, Current
<1> QED BY <1>1, <1>2, <1>3 DEF Untouched, Pending

\* What a step of a call has to keep.
LEMMA CallFollows ==
    ASSUME CallsTyped, NEW r \in Replicas, NEW c \in Calls, Following(r),
           Serving(r), intact' \subseteq intact, NEW id \in Ids,
           \A x \in Ids \ {id} : Untouched(r, x),
           NEW next, calls' = [calls EXCEPT ![r][c] = next],
           calls[r][c] # None => calls[r][c].id = id,
           r \in intact' =>
               /\ \A d \in Calls \ {c} : calls[r][d] # None => calls[r][d].id # id
               /\ next # None => next.id = id /\ Pending(r, next)'
               /\ next = None => InStep(r, id)'
    PROVE  Following(r)'
<1> SUFFICES ASSUME r \in intact'
             PROVE  Following(r)'
    BY DEF Following
<1>0. stage[r] = "serving" /\ r \in intact
    BY DEF Serving
<1>1. /\ calls'[r][c] = next
      /\ \A d \in Calls \ {c} : calls'[r][d] = calls[r][d]
    BY DEF CallsTyped
<1>2. \A d, e \in Calls :
          /\ calls'[r][d] # None /\ calls'[r][e] # None
          /\ calls'[r][d].id = calls'[r][e].id
          => d = e
    BY <1>0, <1>1 DEF Following
<1>3. ASSUME NEW d \in Calls, calls'[r][d] # None
      PROVE  Pending(r, calls[r][d])' 
    <2>1. CASE d = c
        BY <1>1, <1>3, <2>1
    <2>2. CASE d # c
        <3>1. PICK call \in Call : call = calls[r][d] /\ call # None
            BY <1>1, <1>3, <2>2 DEF CallsTyped
        <3>2. call.id \in Ids \ {id} /\ Pending(r, call)
            BY <1>0, <2>2, <3>1 DEF Following, Call
        <3>3. Pending(r, call)'
            BY <3>2, PendingKept
        <3> QED BY <1>1, <2>2, <3>1, <3>3
    <2> QED BY <2>1, <2>2
<1>4. ASSUME NEW x \in Ids,
             \A d \in Calls : calls'[r][d] # None => calls'[r][d].id # x
      PROVE  InStep(r, x)'
    <2>1. CASE x = id
        BY <1>1, <1>4, <2>1
    <2>2. CASE x # id
        <3>1. InStep(r, x)
            BY <1>0, <1>1, <1>4, <2>2 DEF Following
        <3> QED BY <2>2, <3>1, InStepKept
    <2> QED BY <2>1, <2>2
<1> QED BY <1>2, <1>3, <1>4 DEF Following

\* A source that is not there, or has no schedule, has no job.
LEMMA WithoutJob ==
    ASSUME SchedulerTyped, NEW r \in Replicas, NEW id \in Ids,
           sources[id] # None => sources[id].schedule = NoSchedule
    PROVE  InStep(r, id) <=> NoJob(r, id)
<1>1. \A e \in cron[r] : e.schedule \in Schedules
    BY DEF SchedulerTyped, CronEntry
<1> QED BY <1>1, DeploymentAssumption DEF InStep, NoJob

LEMMA WithoutJobThen ==
    ASSUME SchedulerTyped', NEW r \in Replicas, NEW id \in Ids,
           sources'[id] # None => sources'[id].schedule = NoSchedule
    PROVE  InStep(r, id)' <=> NoJob(r, id)'
<1>1. \A e \in cron'[r] : e.schedule \in Schedules
    BY DEF SchedulerTyped, CronEntry
<1> QED BY <1>1, DeploymentAssumption DEF InStep, NoJob

\* A call is alone with its source and has its work before it.
LEMMA Alone ==
    ASSUME CallsTyped, NEW r \in Replicas, NEW c \in Calls, Following(r),
           stage[r] = "serving", r \in intact, calls[r][c] # None
    PROVE  /\ \A d \in Calls \ {c} :
                  calls[r][d] # None => calls[r][d].id # calls[r][c].id
           /\ Pending(r, calls[r][c])
BY DEF Following

LEMMA RequestFollows ==
    ASSUME TypeInv, TypeInv', NEW r \in Replicas, NEW c \in Calls, Following(r),
           NEW call \in Call, Request(r, c, call)
    PROVE  Following(r)'
<1> DEFINE id == call.id
<1>1. /\ StoreTyped /\ SchedulerTyped /\ CallsTyped /\ id \in Ids
    BY DEF TypeInv, Call
<1>2. /\ Serving(r) /\ stage[r] = "serving" /\ UNCHANGED <<store, scheduler>>
      /\ calls[r][c] = None /\ calls' = [calls EXCEPT ![r][c] = call]
      /\ intact' \subseteq intact
    BY DEF Request, Serving
<1>3. \A x : Untouched(r, x)
    BY <1>2 DEF Untouched, store, scheduler
<1>4. ASSUME r \in intact'
      PROVE  /\ \A d \in Calls : calls[r][d] # None => calls[r][d].id # id
             /\ Pending(r, call)'
    <2>1. r \in intact /\ \A d \in Calls : calls[r][d] # None => calls[r][d].id # id
        BY <1>4 DEF Request
    <2>2. InStep(r, id)
        BY <1>1, <1>2, <2>1 DEF Following
    <2>3. call.at = "create" => id \notin used /\ NoJob(r, id)
        <3>1. SUFFICES ASSUME call.at = "create"
                       PROVE  id \notin used /\ NoJob(r, id)
            OBVIOUS
        <3>2. id \notin used
            BY <3>1 DEF Request
        <3>3. sources[id] = None
            BY <1>1, <3>2 DEF StoreTyped, SourcesShape
        <3> QED BY <1>1, <2>2, <3>2, <3>3, WithoutJob
    <2>4. call.at \in {"create", "get to update", "get to delete"}
        BY DEF Request
    <2>5. Pending(r, call)
        BY <2>2, <2>3, <2>4 DEF Pending
    <2> QED BY <1>3, <2>1, <2>5, PendingKept
<1>5. call # None
    BY DeploymentAssumption
<1> QED BY <1>1, <1>2, <1>3, <1>4, <1>5, CallFollows

LEMMA FailFollows ==
    ASSUME NEW r \in Replicas, NEW c \in Calls, Fail(r, c)
    PROVE  Following(r)'
BY DEF Fail, Following

\* A step of a call is about its source alone, and does its work.
LEMMA HandleFollows ==
    ASSUME CallsTyped, NEW r \in Replicas, NEW c \in Calls, Following(r),
           Serving(r), UNCHANGED intact, calls[r][c] # None,
           \A x \in Ids \ {calls[r][c].id} : Untouched(r, x),
           NEW next, calls' = [calls EXCEPT ![r][c] = next],
           Pending(r, calls[r][c]) =>
               /\ next # None => next.id = calls[r][c].id /\ Pending(r, next)'
               /\ next = None => \E id : id = calls[r][c].id /\ InStep(r, id)'
    PROVE  Following(r)'
<1>1. PICK id \in Ids : id = calls[r][c].id
    BY DEF CallsTyped, Call
<1>2. stage[r] = "serving"
    BY DEF Serving
<1>3. r \in intact =>
          /\ \A d \in Calls \ {c} : calls[r][d] # None => calls[r][d].id # id
          /\ Pending(r, calls[r][c])
    BY <1>1, <1>2, Alone
<1> QED BY <1>1, <1>3, CallFollows

\* The same for a rigid call that goes on to another step ...
LEMMA GoesOn ==
    ASSUME CallsTyped, NEW r \in Replicas, NEW c \in Calls, Following(r),
           Serving(r), UNCHANGED intact,
           NEW call \in Call, call = calls[r][c], call # None,
           \A x \in Ids \ {call.id} : Untouched(r, x),
           NEW label \in Later, Proceed(r, c, label),
           ASSUME NEW next \in Call, next.at = label, next.id = call.id,
                  next.schedule = call.schedule, Pending(r, call)
           PROVE  Pending(r, next)'
    PROVE  Following(r)'
<1>1. PICK next \in Call :
          /\ next.at = label /\ next.id = call.id /\ next.schedule = call.schedule
          /\ calls' = [calls EXCEPT ![r][c] = next]
    BY ProceedTyped
<1>2. next # None
    BY DeploymentAssumption
<1> QED BY <1>1, <1>2, HandleFollows

\* ... and for one that ends.
LEMMA Ends ==
    ASSUME CallsTyped, NEW r \in Replicas, NEW c \in Calls, Following(r),
           Serving(r), UNCHANGED intact,
           NEW call \in Call, call = calls[r][c], call # None,
           \A x \in Ids \ {call.id} : Untouched(r, x), Done(r, c),
           Pending(r, call) => InStep(r, call.id)'
    PROVE  Following(r)'
<1>1. calls' = [calls EXCEPT ![r][c] = None]
    BY DEF Done
<1> QED BY <1>1, HandleFollows

\* A call that changes nothing.
LEMMA LooksOnly ==
    ASSUME TypeInv, NEW r \in Replicas, NEW c \in Calls, Following(r),
           GetSource(r, c) \/ RereadSource(r, c) \/ Adopt(r, c)
    PROVE  Following(r)'
<1>0. StoreTyped /\ SchedulerTyped /\ CallsTyped
    BY DEF TypeInv
<1>1. /\ Serving(r) /\ UNCHANGED <<intact, sources, used, scheduler>>
      /\ calls[r][c] # None
    BY DEF GetSource, RereadSource, Adopt, At, store, Move
<1>2. PICK call \in Call : call = calls[r][c] /\ call # None
    BY <1>0, <1>1 DEF CallsTyped
<1>3. \A x : Untouched(r, x)
    BY <1>1 DEF Untouched, scheduler
<1>4. call.id \in Ids
    BY DEF Call
<1>5. CASE GetSource(r, c)
    <2>1. call.at \in {"get to update", "get to delete"}
        BY <1>2, <1>5 DEF GetSource, At
    <2>2. CASE Changeable(call.id)
        <3>1. PICK label \in {"update", "delete job"} : Proceed(r, c, label)
            BY <1>2, <1>5, <2>2 DEF GetSource
        <3>2. ASSUME NEW next \in Call, next.at = label, next.id = call.id
              PROVE  Pending(r, next)'
            BY <1>1, <2>2, <3>1, <3>2 DEF Pending, Changeable
        <3>3. label \in Later
            BY <3>1 DEF Later
        <3> QED BY <1>0, <1>1, <1>2, <1>3, <3>1, <3>2, <3>3, GoesOn
    <2>3. CASE ~Changeable(call.id)
        <3>1. Done(r, c)
            BY <1>2, <1>5, <2>3 DEF GetSource
        <3>2. Pending(r, call) => InStep(r, call.id)'
            BY <1>3, <2>1, InStepKept DEF Pending
        <3> QED BY <1>0, <1>1, <1>2, <1>3, <3>1, <3>2, Ends
    <2> QED BY <2>2, <2>3
<1>6. CASE RereadSource(r, c)
    <2>1. Pending(r, call) => sources[call.id] # None
        BY <1>2, <1>6 DEF Pending, RereadSource, At
    <2>2. CASE calls' = [calls EXCEPT ![r][c] = None] /\ sources[call.id] = None
        BY <1>0, <1>1, <1>2, <1>3, <2>1, <2>2, HandleFollows
    <2>3. ASSUME NEW next \in Call, sources[call.id] # None,
                 next.schedule = sources[call.id].schedule, next.id = call.id,
                 next.at = IF next.schedule = NoSchedule
                           THEN "unregister" ELSE "register",
                 calls' = [calls EXCEPT ![r][c] = next]
          PROVE  Following(r)'
        <3>1. Pending(r, next)'
            BY <1>1, <2>3 DEF Pending
        <3>2. next # None
            BY DeploymentAssumption
        <3> QED BY <1>0, <1>1, <1>2, <1>3, <2>3, <3>1, <3>2, HandleFollows
    <2> QED BY <1>0, <1>2, <1>6, <2>2, <2>3, RereadGoesOn
<1>7. CASE Adopt(r, c)
    <2>1. call.at = "adopt" /\ Done(r, c)
        BY <1>2, <1>7 DEF Adopt, At
    <2>2. Pending(r, call) => InStep(r, call.id)
        BY <1>0, <1>4, <2>1, WithoutJob DEF Pending
    <2>3. Pending(r, call) => InStep(r, call.id)'
        BY <1>3, <2>2, InStepKept
    <2> QED BY <1>0, <1>1, <1>2, <1>3, <2>1, <2>3, Ends
<1> QED BY <1>5, <1>6, <1>7

\* A call that writes the source.
LEMMA WritesFollow ==
    ASSUME TypeInv, TypeInv', NEW r \in Replicas, NEW c \in Calls, Following(r),
           CreateSource(r, c) \/ UpdateSource(r, c) \/ DeleteSource(r, c)
    PROVE  Following(r)'
<1>0. /\ StoreTyped /\ SchedulerTyped /\ CallsTyped
      /\ StoreTyped' /\ SchedulerTyped'
    BY DEF TypeInv
<1>1. /\ Serving(r) /\ UNCHANGED <<intact, scheduler>> /\ calls[r][c] # None
    BY DEF CreateSource, UpdateSource, DeleteSource, At
<1>2. PICK call \in Call : call = calls[r][c] /\ call # None
    BY <1>0, <1>1 DEF CallsTyped
<1>3. call.id \in Ids /\ call.schedule \in Schedules \cup {NoSchedule}
    BY DEF Call
<1>4. NoJob(r, call.id)' <=> NoJob(r, call.id)
    BY <1>1 DEF NoJob, scheduler
<1>5. CASE CreateSource(r, c)
    <2> DEFINE src == [type |-> "file", name |-> call.name,
                       schedule |-> call.schedule]
    <2>1. call.at = "create" /\ Put(call.id, src)
        BY <1>2, <1>5 DEF CreateSource, At
    <2>2. /\ sources'[call.id] = src /\ src # None
          /\ \A x \in Ids \ {call.id} : sources'[x] = sources[x]
        <3>1. src \in Source
            BY DEF Source, Call
        <3>2. src # None
            BY <3>1, DeploymentAssumption
        <3> QED BY <1>0, <1>3, <2>1, <3>2 DEF Put, StoreTyped, SourcesShape
    <2>3. \A x \in Ids \ {call.id} : Untouched(r, x)
        BY <1>1, <2>1, <2>2 DEF Untouched, scheduler, Put
    <2>4. CASE call.schedule = NoSchedule
        <3>1. Done(r, c)
            BY <1>2, <1>5, <2>4 DEF CreateSource
        <3>2. sources'[call.id].schedule = NoSchedule
            BY <2>2, <2>4
        <3>3. Pending(r, call) => InStep(r, call.id)'
            BY <1>0, <1>3, <1>4, <2>1, <3>2, WithoutJobThen DEF Pending
        <3> QED BY <1>0, <1>1, <1>2, <2>3, <3>1, <3>3, Ends
    <2>5. CASE call.schedule # NoSchedule
        <3>1. Proceed(r, c, "register") /\ "register" \in Later
            BY <1>2, <1>5, <2>5 DEF CreateSource, Later
        <3>2. ASSUME NEW next \in Call, next.at = "register", next.id = call.id,
                     next.schedule = call.schedule
              PROVE  Pending(r, next)'
            BY <2>2, <3>2 DEF Pending
        <3> QED BY <1>0, <1>1, <1>2, <2>3, <3>1, <3>2, GoesOn
    <2> QED BY <2>4, <2>5
<1>6. CASE UpdateSource(r, c)
    <2> DEFINE src == [sources[call.id] EXCEPT !.name = call.name,
                                               !.schedule = call.schedule]
    <2>1. call.at = "update" /\ Set(call.id, src)
        BY <1>2, <1>6 DEF UpdateSource, At
    <2>2. sources[call.id] # None => sources'[call.id] # None
        <3>1. sources[call.id] # None => src \in Source
            <4>1. call.name \in Names
                BY DEF Call
            <4>2. sources[call.id] \in Source \cup {None}
                BY <1>0, <1>3 DEF StoreTyped, SourcesShape
            <4> QED BY <1>3, <4>1, <4>2, ChangedSource
        <3>2. sources[call.id] # None => src # None
            BY <3>1, DeploymentAssumption
        <3> HIDE DEF src
        <3> QED BY <1>0, <1>3, <2>1, <3>2 DEF Set, StoreTyped, SourcesShape
    <2>3. \A x \in Ids \ {call.id} : Untouched(r, x)
        BY <1>0, <1>1, <2>1 DEF Untouched, scheduler, Set, StoreTyped, SourcesShape
    <2>4. ASSUME NEW next \in Call, next.at = "reread", next.id = call.id,
                 Pending(r, call)
          PROVE  Pending(r, next)'
        BY <2>1, <2>2, <2>4 DEF Pending
    <2>5. Proceed(r, c, "reread") /\ "reread" \in Later
        BY <1>6 DEF UpdateSource, Later
    <2> QED BY <1>0, <1>1, <1>2, <2>3, <2>4, <2>5, GoesOn
<1>7. CASE DeleteSource(r, c)
    <2>1. call.at = "delete" /\ Drop(call.id)
        BY <1>2, <1>7 DEF DeleteSource, At
    <2>2. sources'[call.id] = None
        BY <1>0, <1>3, <2>1 DEF Drop, StoreTyped, SourcesShape
    <2>3. \A x \in Ids \ {call.id} : Untouched(r, x)
        BY <1>0, <1>1, <2>1 DEF Untouched, scheduler, Drop, StoreTyped, SourcesShape
    <2>4. ASSUME NEW next \in Call, next.at = "adopt", next.id = call.id,
                 Pending(r, call)
          PROVE  Pending(r, next)'
        BY <1>4, <2>1, <2>2, <2>4 DEF Pending
    <2>5. Proceed(r, c, "adopt") /\ "adopt" \in Later
        BY <1>7 DEF DeleteSource, Later
    <2> QED BY <1>0, <1>1, <1>2, <2>3, <2>4, <2>5, GoesOn
<1> QED BY <1>5, <1>6, <1>7

\* A call that works on the scheduler.
LEMMA RegisterFollows ==
    ASSUME TypeInv, NEW r \in Replicas, NEW c \in Calls, Following(r),
           Register(r, c)
    PROVE  Following(r)'
<1>0. SchedulerTyped /\ CallsTyped /\ Kept(r)
    BY DEF TypeInv
<1>1. /\ Serving(r) /\ UNCHANGED <<intact, store, jobs>>
      /\ lock[r] = None /\ calls[r][c].at = "register"
      /\ calls[r][c] # None
    BY DEF Register, At
<1>2. PICK call \in Call : call = calls[r][c] /\ call # None
    BY <1>0, <1>1 DEF CallsTyped
<1>3. PICK new : /\ cron'[r] = cron[r] \cup {new}
                 /\ new.id = call.id /\ new.schedule = call.schedule
    <2> DEFINE job == CHOOSE j \in Jobs : j \notin JobsOf(r, call.id)
               new == [job |-> job, id |-> call.id, schedule |-> call.schedule]
    <2>1. cron' = [cron EXCEPT ![r] = @ \cup {new}]
        BY <1>2 DEF Register
    <2>2. new.id = call.id /\ new.schedule = call.schedule
        OBVIOUS
    <2> HIDE DEF new
    <2> QED BY <1>0, <2>1, <2>2 DEF SchedulerTyped
<1>4. \A x \in Ids \ {call.id} : Untouched(r, x)
    BY <1>1, <1>3 DEF Untouched, store
<1>5. \A e \in cron[r] : Current(r, e)
    BY <1>0, <1>1 DEF Kept
<1>6. \A e \in cron'[r] : ~Current(r, e)' => e = new
    BY <1>1, <1>3, <1>5 DEF Current
<1>7. Proceed(r, c, "replace") /\ "replace" \in Later
    BY DEF Register, Later
<1>8. ASSUME NEW next \in Call, next.at = "replace", next.id = call.id,
             next.schedule = call.schedule, Pending(r, call)
      PROVE  Pending(r, next)'
    <2>1. sources[call.id] # None /\ sources[call.id].schedule = call.schedule
        BY <1>1, <1>2, <1>8 DEF Pending
    <2>2. UNCHANGED sources
        BY <1>1 DEF store
    <2> QED BY <1>3, <1>6, <1>8, <2>1, <2>2 DEF Pending
<1>9. Serving(r) /\ UNCHANGED intact /\ CallsTyped
    BY <1>0, <1>1
<1> QED BY <1>2, <1>4, <1>7, <1>8, <1>9, GoesOn

LEMMA ReplaceFollows ==
    ASSUME TypeInv, NEW r \in Replicas, NEW c \in Calls, Following(r),
           ReplaceJob(r, c)
    PROVE  Following(r)'
<1>0. SchedulerTyped /\ CallsTyped
    BY DEF TypeInv
<1>1. /\ Serving(r) /\ UNCHANGED <<intact, store>> /\ At(r, c, "replace")
      /\ calls[r][c] # None /\ calls[r][c].at = "replace" /\ Done(r, c)
    BY DEF ReplaceJob, At
<1>2. PICK call \in Call : call = calls[r][c] /\ call # None
    BY <1>0, <1>1 DEF CallsTyped
<1>3. PICK new \in cron[r] :
          /\ new.id = call.id /\ ~Current(r, new)
          /\ \A e \in cron[r] : Current(r, e) \/ e = new
    BY <1>1, <1>2, NewJobFound
<1>4. call.id \in Ids
    BY DEF Call
<1>5. /\ cron'[r] = {e \in cron[r] : ~(e.id = call.id /\ Current(r, e))}
      /\ \A x \in Ids \ {call.id} : jobs'[r][x] = jobs[r][x]
    <2>1. cron'[r] = Without(r, call.id)
        BY <1>0, <1>2 DEF ReplaceJob, SchedulerTyped
    <2>2. \A x \in Ids \ {call.id} : jobs'[r][x] = jobs[r][x]
        BY <1>0, <1>2 DEF ReplaceJob, SchedulerTyped
    <2> QED BY <2>1, <2>2 DEF Without, Current
<1>6. \A x \in Ids \ {call.id} : Untouched(r, x)
    BY <1>1, <1>5 DEF Untouched, store
<1>7. \A e : e \in cron'[r] /\ e.id = call.id <=> e = new
    BY <1>3, <1>5
<1>8. ASSUME Pending(r, call)
      PROVE  InStep(r, call.id)'
    <2>1. /\ sources[call.id] # None /\ sources[call.id].schedule = call.schedule
          /\ new.schedule = call.schedule
        BY <1>1, <1>2, <1>3, <1>8 DEF Pending
    <2>2. UNCHANGED sources
        BY <1>1 DEF store
    <2> QED BY <1>7, <2>1, <2>2 DEF InStep
<1> QED BY <1>0, <1>1, <1>2, <1>6, <1>8, Ends

LEMMA UnregisterFollows ==
    ASSUME TypeInv, TypeInv', NEW r \in Replicas, NEW c \in Calls, Following(r),
           Unregister(r, c)
    PROVE  Following(r)'
<1>0. SchedulerTyped /\ CallsTyped /\ Kept(r) /\ SchedulerTyped'
    BY DEF TypeInv
<1>1. /\ Serving(r) /\ UNCHANGED <<intact, store>> /\ lock[r] = None
      /\ calls[r][c] # None
    BY DEF Unregister, At
<1>2. PICK call \in Call : call = calls[r][c] /\ call # None
    BY <1>0, <1>1 DEF CallsTyped
<1>3. call.id \in Ids
    BY DEF Call
<1>4. \A e \in cron[r] : Current(r, e)
    BY <1>0, <1>1 DEF Kept
<1>5. /\ cron'[r] = Without(r, call.id)
      /\ \A x \in Ids \ {call.id} : jobs'[r][x] = jobs[r][x]
    BY <1>0, <1>2 DEF Unregister, SchedulerTyped
<1>6. cron'[r] = {e \in cron[r] : e.id # call.id}
    BY <1>4, <1>5 DEF Without, Current
<1>7. NoJob(r, call.id)'
    BY <1>6 DEF NoJob
<1>8. \A x \in Ids \ {call.id} : Untouched(r, x)
    BY <1>1, <1>5, <1>6 DEF Untouched, store
<1>9. CASE call.at = "unregister"
    <2>1. Done(r, c)
        BY <1>2, <1>9 DEF Unregister
    <2>2. Pending(r, call) => sources'[call.id].schedule = NoSchedule
        BY <1>1, <1>9 DEF Pending, store
    <2>3. Pending(r, call) => InStep(r, call.id)'
        BY <1>0, <1>3, <1>7, <2>2, WithoutJobThen
    <2> QED BY <1>0, <1>1, <1>2, <1>8, <2>1, <2>3, Ends
<1>10. CASE call.at # "unregister"
    <2>1. Proceed(r, c, "delete") /\ "delete" \in Later
        BY <1>2, <1>10 DEF Unregister, Later
    <2>2. ASSUME NEW next \in Call, next.at = "delete", next.id = call.id
          PROVE  Pending(r, next)'
        BY <1>7, <2>2 DEF Pending
    <2> QED BY <1>0, <1>1, <1>2, <1>8, <2>1, <2>2, GoesOn
<1> QED BY <1>9, <1>10

\* A replica that starts has no calls, and a job for each source with a
\* schedule.
LEMMA StartFollows ==
    ASSUME TypeInv, NEW r \in Replicas,
           Start(r) \/ Boot(r) \/ RefuseToStart(r) \/ Crash(r)
    PROVE  Following(r)'
<1>0. BootTyped /\ SchedulerTyped /\ StoreTyped /\ Equipped(r)
    BY DEF TypeInv
<1>1. CASE StartScheduler(r)
    <2>1. /\ \A c \in Calls : calls'[r][c] = None
          /\ sources' = sources
        BY <1>0, <1>1 DEF StartScheduler, Equipped, store
    <2>2. cron'[r] = {[job |-> FirstJob, id |-> id,
                       schedule |-> sources[id].schedule] : id \in Scheduled}
        BY <1>0, <1>1 DEF StartScheduler, SchedulerTyped
    <2>3. ASSUME NEW id \in Ids
          PROVE  InStep(r, id)'
        <3>1. ASSUME NEW s \in Schedules, sources[id] # None, sources[id].schedule = s
              PROVE  \E e \in cron'[r] : e.id = id /\ e.schedule = s
            <4> DEFINE e == [job |-> FirstJob, id |-> id,
                             schedule |-> sources[id].schedule]
            <4>1. id \in Scheduled
                BY <3>1, DeploymentAssumption DEF Scheduled
            <4>2. e \in cron'[r] /\ e.id = id /\ e.schedule = s
                BY <2>2, <3>1, <4>1
            <4> QED BY <4>2
        <3>2. ASSUME NEW e \in cron'[r], e.id = id
              PROVE  sources[id] # None /\ sources[id].schedule = e.schedule
            BY <2>2, <3>2 DEF Scheduled
        <3> QED BY <2>1, <3>1, <3>2 DEF InStep
    <2> QED BY <2>1, <2>3 DEF Following
<1>2. CASE StartUnscheduled(r)
    BY <1>2 DEF StartUnscheduled, Following
<1>3. CASE Start(r) \/ RefuseToStart(r) \/ Crash(r)
    <2>1. stage'[r] # "serving"
        BY <1>0, <1>3 DEF Start, RefuseToStart, Crash, Down, Goto, BootTyped
    <2> QED BY <2>1 DEF Following
<1>4. CASE \/ FindLocal(r) \/ RenameLocal(r) \/ FindKeycloak(r)
           \/ RescheduleKeycloak(r) \/ AdoptOrphans(r) \/ DeleteAdopted(r)
           \/ Adopted(r) \/ CheckKeycloak(r)
           \/ \E id \in Ids : \/ MakeLocal(r, id) \/ MoveAdopted(r, id)
                              \/ MakeKeycloak(r, id)
           \/ \E S \in SUBSET Ids : ListAdopted(r, S)
    <2>1. stage'[r] # "serving"
        BY <1>0, <1>4
           DEF FindLocal, FindLocalAmong, RenameLocal, FindKeycloak,
               RescheduleKeycloak, AdoptOrphans, DeleteAdopted, Adopted,
               CheckKeycloak, MakeLocal, MoveAdopted, TakesOver, MakeKeycloak,
               ListAdopted, Goto, BootTyped
    <2> QED BY <2>1 DEF Following
<1> QED BY <1>1, <1>2, <1>3, <1>4 DEF Boot

LEMMA RestFollows ==
    ASSUME NEW r, Following(r),
           UNCHANGED <<sources, used, stage, cron, jobs, calls, intact>>
    PROVE  Following(r)'
<1>1. \A x : Untouched(r, x)
    BY DEF Untouched
<1>2. ASSUME NEW c \in Calls, Pending(r, calls[r][c])
      PROVE  Pending(r, calls[r][c])'
    <2>1. PICK call : call = calls[r][c]
        OBVIOUS
    <2>2. Pending(r, call)'
        BY <1>1, <1>2, <2>1, PendingKept
    <2> QED BY <2>1, <2>2
<1>3. \A id : InStep(r, id) => InStep(r, id)'
    BY <1>1, InStepKept
<1> QED BY <1>2, <1>3 DEF Following

LEMMA NextFollows ==
    ASSUME OneReplica, TypeInv, TypeInv', \A r \in Replicas : Following(r),
           [Next]_vars
    PROVE  \A r \in Replicas : Following(r)'
<1> SUFFICES ASSUME NEW r \in Replicas
             PROVE  Following(r)'
    OBVIOUS
<1>0. Following(r) /\ \A x \in Replicas : x = r
    BY DEF OneReplica
<1>1. CASE UNCHANGED vars
    BY <1>0, <1>1, RestFollows DEF vars, store, booting, scheduler
<1>2. CASE \/ \E id \in Ids, g \in Groups : Sync(r, id, g)
           \/ \E g \in Groups : Maintain(r, g)
    <2>1. UNCHANGED <<sources, used, stage, cron, jobs, calls, intact>>
        BY <1>2 DEF Sync, Maintain, Serving, booting, scheduler
    <2> QED BY <1>0, <2>1, RestFollows
<1>3. CASE \E c \in Calls : Handle(r, c)
    BY <1>0, <1>3, LooksOnly, WritesFollow, RegisterFollows, ReplaceFollows,
       UnregisterFollows DEF Handle
<1>4. CASE \E c \in Calls : Fail(r, c) \/ \E call \in Call : Request(r, c, call)
    BY <1>0, <1>4, FailFollows, RequestFollows
<1>5. CASE Start(r) \/ Boot(r) \/ RefuseToStart(r) \/ Crash(r)
    BY <1>5, StartFollows
<1> QED BY <1>0, <1>1, <1>2, <1>3, <1>4, <1>5 DEF Next, Acts

LEMMA InitFollows == Init => \A r \in Replicas : Following(r)
BY DEF Init, Following

\* A store has given away as many ids as there were steps to, at most.
LEMMA UsedFinite ==
    ASSUME IsFiniteSet(used), [Next]_vars
    PROVE  IsFiniteSet(used')
<1>1. \A x : IsFiniteSet(used \cup {x})
    BY FS_AddElement
<1>2. ASSUME NEW r \in Replicas, Boot(r)
      PROVE  used' = used \/ \E x : used' = used \cup {x}
    BY <1>2 DEF Boot, FindLocal, FindLocalAmong, RenameLocal, FindKeycloak,
        RescheduleKeycloak, AdoptOrphans, DeleteAdopted, Adopted, CheckKeycloak,
        MakeLocal, MoveAdopted, TakesOver, MakeKeycloak, ListAdopted,
        StartScheduler, StartUnscheduled, Put, Set, Move, Drop, store
<1>3. ASSUME NEW r \in Replicas, NEW c \in Calls,
             Handle(r, c) \/ Fail(r, c) \/ \E call \in Call : Request(r, c, call)
      PROVE  used' = used \/ \E x : used' = used \cup {x}
    BY <1>3 DEF Handle, CreateSource, GetSource, UpdateSource, RereadSource,
        DeleteSource, Adopt, Register, ReplaceJob, Unregister, Fail, Request,
        Put, Set, Move, Drop, store
<1>4. ASSUME NEW r \in Replicas,
             \/ Start(r) \/ RefuseToStart(r) \/ Crash(r)
             \/ \E id \in Ids, g \in Groups : Sync(r, id, g)
             \/ \E g \in Groups : Maintain(r, g)
      PROVE  used' = used
    BY <1>4 DEF Start, RefuseToStart, Crash, Down, Sync, Maintain, store
<1>5. UNCHANGED vars => used' = used
    BY DEF vars, store
<1>6. used' = used \/ \E x : used' = used \cup {x}
    BY <1>2, <1>3, <1>4, <1>5 DEF Next, Acts
<1> QED BY <1>1, <1>6

\* With one entry per source there are as many as sources with a schedule.
LEMMA EntriesCounted ==
    ASSUME IsFiniteSet(used), StoreTyped, NEW E,
           \A e, f \in E : e.id = f.id => e = f,
           \A e \in E : e.id \in Scheduled,
           \A id \in Scheduled : \E e \in E : e.id = id
    PROVE  Cardinality(E) = Cardinality(Scheduled)
<1> DEFINE f == [id \in Scheduled |-> CHOOSE e \in E : e.id = id]
<1>1. Scheduled \in SUBSET used
    BY DEF StoreTyped, SourcesShape, Scheduled
<1>2. IsFiniteSet(Scheduled)
    BY <1>1, FS_Subset
<1>3. \A id \in Scheduled : f[id] \in E /\ f[id].id = id
    OBVIOUS
<1>4. f \in [Scheduled -> E]
    BY <1>3
<1>5. \A e \in E : e.id \in Scheduled /\ f[e.id] = e
    BY <1>3
<1> HIDE DEF f
<1>6. f \in Injection(Scheduled, E)
    BY <1>3, <1>4 DEF Injection, IsInjective
<1>7. f \in Surjection(Scheduled, E)
    BY <1>4, <1>5 DEF Surjection
<1>8. ExistsBijection(Scheduled, E)
    BY <1>6, <1>7 DEF Bijection, ExistsBijection
<1> QED BY <1>2, <1>8, FS_Bijection

LEMMA FollowingFollows ==
    ASSUME TypeInv, IsFiniteSet(used), \A r \in Replicas : Following(r)
    PROVE  JobsFollow
<1> SUFFICES ASSUME NEW r \in Replicas, Quiet(r)
             PROVE  /\ {<<e.id, e.schedule>> : e \in cron[r]} =
                           {<<id, sources[id].schedule>> : id \in Scheduled}
                    /\ Cardinality(cron[r]) = Cardinality(Scheduled)
                    /\ \A e \in cron[r] : jobs[r][e.id] = e.job
    BY DEF JobsFollow
<1>0. StoreTyped /\ SchedulerTyped
    BY DEF TypeInv
<1>1. Kept(r)
    BY DEF TypeInv
<1>2. \A id \in Ids : InStep(r, id)
    BY DEF Following, Quiet
<1>3. lock[r] = None
    BY <1>0, <1>1 DEF Kept, Quiet, SchedulerTyped
<1>4. \A e \in cron[r] : jobs[r][e.id] = e.job
    BY <1>1, <1>3 DEF Kept, Current
<1>5. \A e, f \in cron[r] : e.id = f.id => e = f
    BY <1>1, <1>4 DEF Kept
<1>6. \A e \in cron[r] : e.id \in Ids /\ e.schedule \in Schedules
    BY <1>0 DEF SchedulerTyped, CronEntry
<1>7. \A e \in cron[r] :
          e.id \in Scheduled /\ sources[e.id].schedule = e.schedule
    BY <1>2, <1>6, DeploymentAssumption DEF InStep, Scheduled
<1>8. \A id \in Scheduled :
          \E e \in cron[r] : e.id = id /\ e.schedule = sources[id].schedule
    BY <1>0, <1>2 DEF InStep, Scheduled, StoreTyped, SourcesShape, Source
<1>9. Cardinality(cron[r]) = Cardinality(Scheduled)
    BY <1>0, <1>5, <1>7, <1>8, EntriesCounted
<1>10. {<<e.id, e.schedule>> : e \in cron[r]} =
           {<<id, sources[id].schedule>> : id \in Scheduled}
    <2>1. \A e \in cron[r] : \E id \in Scheduled :
              <<e.id, e.schedule>> = <<id, sources[id].schedule>>
        BY <1>7
    <2>2. \A id \in Scheduled : \E e \in cron[r] :
              <<e.id, e.schedule>> = <<id, sources[id].schedule>>
        BY <1>8
    <2> QED BY <2>1, <2>2
<1> QED BY <1>4, <1>9, <1>10

\* JobsFollowAlways: whenever a service of one replica serves and rests, with
\* no failed and no overlapping calls since it started, its cron runner has
\* exactly one entry for each source with a schedule, on that schedule, which
\* the scheduler can find, for any sources, schedules and calls at once
\* (scheduler.go:14-20, api_sync.go:102-118, 213-240, 268-296).
THEOREM JobsFollowAlways ==
    ASSUME OneReplica
    PROVE  Spec => []JobsFollow
<1> DEFINE I == /\ TypeInv /\ IsFiniteSet(used)
                /\ \A r \in Replicas : Following(r)
<1>1. Init => I
    <2>1. Init => IsFiniteSet(used)
        BY FS_EmptySet DEF Init
    <2> QED BY <2>1, InitTyped, InitFollows
<1>2. I /\ [Next]_vars => I'
    <2> SUFFICES ASSUME I, [Next]_vars
                 PROVE  I'
        OBVIOUS
    <2>1. TypeInv'
        BY NextTyped
    <2>2. IsFiniteSet(used')
        BY UsedFinite
    <2>3. \A r \in Replicas : Following(r)'
        BY <2>1, NextFollows
    <2> QED BY <2>1, <2>2, <2>3
<1>3. I => JobsFollow
    BY FollowingFollows
<1> QED BY <1>1, <1>2, <1>3, PTL DEF Spec
=============================================================================
