----------------------------- MODULE GroupCache -----------------------------
(***************************************************************************)
(* The snapshot the group search is served from (catalog.GroupCache) and   *)
(* the store it is a snapshot of.  Callers change the store and then, for  *)
(* most changes, refresh the snapshot; the ticker refreshes it now and     *)
(* then.  A refresh reads the store three times (groups, the relations     *)
(* held in them, names of sources) and only then takes the lock to put the *)
(* result in place, so refreshes overtake each other.                      *)
(*                                                                         *)
(* Abstracted: names and descriptions of groups, renaming a source, what a *)
(* query matches (catalog/query.go).                                       *)
(***************************************************************************)
EXTENDS Integers, FiniteSets

CONSTANTS
    Groups,
    Relations,    \* the configured relations but "member"
    Sources,
    Local,        \* the local source
    NoSource,     \* the nil source id
    Absent,       \* the owner of a group without a row
    NoName,       \* the empty source name
    Callers,      \* goroutines that work on calls
    Ticker,       \* the goroutine of StartAutoRefresh
    AutoRefresh,  \* whether there is one: the interval is positive
    MaxChanges,   \* bound on the changes of the store
    MaxFailures   \* bound on the refreshes that fail

ASSUME GroupCacheAssumption ==
    /\ {Local, NoSource} \cap Sources = {} /\ Local # NoSource
    /\ Absent \notin Sources \cup {Local, NoSource}
    /\ NoName \notin Sources \cup {Local}
    /\ Ticker \notin Callers
    /\ AutoRefresh \in BOOLEAN
    /\ MaxChanges \in Nat /\ MaxFailures \in Nat

Owners == Sources \cup {Local, NoSource, Absent}

Refreshers == Callers \cup {Ticker}

VARIABLES
    owner,     \* the groups: whose each is
    held,      \* <<g, r>>: somebody holds r in g
    sources,   \* the sync sources there are
    snapshot,  \* what is searched
    pc,        \* what each goroutine does next
    read,      \* what its refresh has read
    changes,   \* how often the store has changed
    failures   \* how often a refresh has failed

vars == <<owner, held, sources, snapshot, pc, read, changes, failures>>

Found == [id : Groups, relations : SUBSET Relations,
          source : Sources \cup {Local, NoName}]

\* Faulty on purpose, like every definition named for what it gets wrong:
\* a property must notice when it stands in for the definition after it.
ViewUnguarded(own, hold, known) ==
    {[id |-> g, relations |-> {r \in Relations : <<g, r>> \in hold},
      source |-> IF own[g] \in Sources \ known THEN NoName ELSE own[g]] :
        g \in {x \in Groups : own[x] # Absent}}

\* A source that is gone has no name, a group of nobody neither.
View(own, hold, known) ==
    {[id |-> g, relations |-> {r \in Relations : <<g, r>> \in hold},
      source |-> IF own[g] \in known \cup {Local} THEN own[g] ELSE NoName] :
        g \in {x \in Groups : own[x] # Absent}}

NothingRead == [owner |-> [g \in Groups |-> Absent], held |-> {}, sources |-> {}]

TypeOK ==
    /\ owner \in [Groups -> Owners]
    /\ held \in SUBSET (Groups \X Relations)
    /\ sources \in SUBSET Sources
    /\ snapshot \in SUBSET Found
    /\ pc \in [Refreshers -> {"idle", "adopt", "groups", "relations",
                              "sources", "store"}]
    /\ read \in [Refreshers -> [owner : [Groups -> Owners],
                                held : SUBSET (Groups \X Relations),
                                sources : SUBSET Sources]]
    /\ changes \in 0 .. MaxChanges
    /\ failures \in 0 .. MaxFailures

\* At startup the snapshot is loaded before anything is served.
Init ==
    /\ owner = [g \in Groups |-> Absent]
    /\ held = {}
    /\ sources = Sources
    /\ snapshot = {}
    /\ pc = [p \in Refreshers |-> "idle"]
    /\ read = [p \in Refreshers |-> NothingRead]
    /\ changes = 0
    /\ failures = 0

Goto(p, label) == pc' = [pc EXCEPT ![p] = label]

-----------------------------------------------------------------------------
(* Changes of the store, and which of them the snapshot is refreshed for.  *)

Change(p) ==
    /\ p \in Callers /\ pc[p] = "idle"
    /\ changes < MaxChanges
    /\ changes' = changes + 1
    /\ UNCHANGED <<snapshot, read, failures>>

CreateGroup(p, g) ==
    /\ Change(p)
    /\ owner[g] = Absent
    /\ owner' = [owner EXCEPT ![g] = Local]
    /\ Goto(p, "groups")
    /\ UNCHANGED <<held, sources>>

\* Its members go, and in other groups the entries that name it.
DeleteGroup(p, g) ==
    /\ Change(p)
    /\ owner[g] = Local
    /\ owner' = [owner EXCEPT ![g] = Absent]
    /\ held' \in SUBSET {x \in held : x[1] # g}
    /\ Goto(p, "groups")
    /\ UNCHANGED sources

\* Adding, removing, changing members (or their expiry, which nobody calls)
\* leaves the snapshot to the ticker.
EditMembers(p, g, R) ==
    /\ Change(p)
    /\ owner[g] = Local
    /\ held' = {x \in held : x[1] # g} \cup ({g} \X R)
    /\ UNCHANGED <<owner, sources, pc>>

\* A file that fills group g of the source, or empties it; an empty group
\* stays only while others name it.
RunSync(p, s, g, R) ==
    /\ Change(p)
    /\ s \in sources
    /\ owner[g] \in {Absent, s}
    /\ \E o \in IF R = {} THEN {Absent, owner[g]} ELSE {s} :
          owner' = [owner EXCEPT ![g] = o]
    /\ held' = {x \in held : x[1] # g} \cup ({g} \X R)
    /\ Goto(p, "groups")
    /\ UNCHANGED sources

\* Two transactions: the source and its entries go, then its groups pass to
\* the local source.
DeleteSource(p, s) ==
    /\ Change(p)
    /\ s \in sources
    /\ sources' = sources \ {s}
    /\ owner' = [g \in Groups |-> IF owner[g] = s THEN NoSource ELSE owner[g]]
    /\ held' = {x \in held : owner[x[1]] # s}
    /\ Goto(p, "adopt")

Adopt(p) ==
    /\ pc[p] = "adopt"
    /\ owner' = [g \in Groups |-> IF owner[g] = NoSource THEN Local ELSE owner[g]]
    /\ Goto(p, IF owner' = owner THEN "idle" ELSE "groups")
    /\ UNCHANGED <<held, sources, snapshot, read, changes, failures>>

-----------------------------------------------------------------------------
(* Refresh.                                                                *)

Loading == UNCHANGED <<owner, held, sources, snapshot, changes, failures>>

Tick ==
    /\ AutoRefresh
    /\ pc[Ticker] = "idle"
    /\ Goto(Ticker, "groups")
    /\ Loading /\ UNCHANGED read

LoadGroups(p) ==
    /\ pc[p] = "groups"
    /\ read' = [read EXCEPT ![p].owner = owner]
    /\ Goto(p, "relations")
    /\ Loading

LoadRelations(p) ==
    /\ pc[p] = "relations"
    /\ read' = [read EXCEPT ![p].held = held]
    /\ Goto(p, "sources")
    /\ Loading

LoadSources(p) ==
    /\ pc[p] = "sources"
    /\ read' = [read EXCEPT ![p].sources = sources]
    /\ Goto(p, "store")
    /\ Loading

StoreMerged(p) ==
    /\ pc[p] = "store"
    /\ snapshot' = snapshot \cup View(read[p].owner, read[p].held, read[p].sources)
    /\ read' = [read EXCEPT ![p] = NothingRead]
    /\ Goto(p, "idle")
    /\ UNCHANGED <<owner, held, sources, changes, failures>>

Store(p) ==
    /\ pc[p] = "store"
    /\ snapshot' = View(read[p].owner, read[p].held, read[p].sources)
    /\ read' = [read EXCEPT ![p] = NothingRead]
    /\ Goto(p, "idle")
    /\ UNCHANGED <<owner, held, sources, changes, failures>>

\* A read that fails ends the refresh; the snapshot stays, and whoever asked
\* for it goes on as if nothing had happened.
LoadFails(p) ==
    /\ pc[p] \in {"groups", "relations", "sources"}
    /\ failures < MaxFailures
    /\ failures' = failures + 1
    /\ read' = [read EXCEPT ![p] = NothingRead]
    /\ Goto(p, "idle")
    /\ UNCHANGED <<owner, held, sources, snapshot, changes>>

Edit(p) ==
    \/ \E g \in Groups : CreateGroup(p, g) \/ DeleteGroup(p, g)
    \/ \E g \in Groups, R \in SUBSET Relations : EditMembers(p, g, R)
    \/ \E s \in Sources, g \in Groups, R \in SUBSET Relations :
           RunSync(p, s, g, R)
    \/ \E s \in Sources : DeleteSource(p, s)

Step(p) ==
    Adopt(p) \/ LoadGroups(p) \/ LoadRelations(p) \/ LoadSources(p) \/ Store(p)

Next ==
    \/ \E p \in Callers : Edit(p)
    \/ \E p \in Refreshers : Step(p) \/ LoadFails(p)
    \/ Tick

Spec == Init /\ [][Next]_vars

\* What has begun goes on, and the ticker ticks (time.Ticker keeps one tick
\* for a goroutine that is late).  Nobody has to call.
FairSpec ==
    /\ Spec
    /\ \A p \in Refreshers : WF_vars(Step(p))
    /\ WF_vars(Tick)

-----------------------------------------------------------------------------

\* EventuallyCurrent: when the store no longer changes the search finds what
\* the store has and goes on doing so, whatever refreshes overtook each other
\* or failed: the ticker makes up for it (cache.go:51-71).
EventuallyCurrent == <>[](snapshot = View(owner, held, sources))

\* SearchableImmediately: when no call and no refresh is under way and none
\* failed, the search finds the groups there are ("so edits are searchable
\* immediately, without waiting for the background backstop refresh",
\* groupmgmt/service.go:101-102).
SearchableImmediately ==
    (failures = 0 /\ \A p \in Refreshers : pc[p] = "idle") =>
        {x.id : x \in snapshot} = {g \in Groups : owner[g] # Absent}
=============================================================================
