----------------------------- MODULE TwoStores -----------------------------
(***************************************************************************)
(* The service on either of its two stores.  The state of the Postgres     *)
(* store is read as a state of the memory store, and each operation of the *)
(* service has to be the memory store's too.                               *)
(***************************************************************************)
EXTENDS RoleProvider

ManagedBy(g) == {m.tok : m \in {x \in managers : x.grp = g}}

Memory ==
    INSTANCE MemoryStore WITH
        memGroups <- owner,
        memTuples <- tuples,
        memManagers <- [g \in Groups |-> ManagedBy(g)],
        memSources <- {x \in Sources : source[x] = "present"},
        memReserved <- reserved

MembersOnBoth(p) ==
    LET r == req[p] IN
    /\ AddMember(p) => Memory!MemAddMember(Named(r), Local, r.exp)
    /\ RemoveMember(p) => Memory!MemRemoveMember(Named(r))
    /\ ChangeRelation(p) => Memory!MemChangeRelation(r.grp, r.sub, r.rel, r.to)

GroupsOnBoth(p) ==
    LET r == req[p] IN
    /\ CreateGroup(p) => Memory!MemCreateGroup(r.grp, Local)
    /\ DeleteGroup(p) => Memory!MemDeleteGroup(r.grp)
    /\ AddManager(p) => Memory!MemAddManager(r.grp, r.tok)
    /\ AddNextManager(p) => Memory!MemAddManager(r.grp, NextOf(p))
    /\ RemoveManager(p) => Memory!MemRemoveManager(r.grp, r.tok)

SourcesOnBoth(p) ==
    LET r == req[p] IN
    /\ Replace(p) => Memory!MemReplaceTuples(r.src, r.file)
    /\ CreateSource(p) => Memory!MemCreateSource(r.src, r.names)
    /\ UpdateSource(p) => Memory!MemUpdateSource(r.src, r.names)
    /\ DeleteSource(p) => Memory!MemDeleteSource(r.src)
    /\ Adopt(p) => Memory!MemMoveToSource(NoSource, Local)

\* StoresAgree: whatever an operation of the service makes of groups, owners,
\* entries, validities, managers and sources in the Postgres store, the memory
\* store may make of them too ("as in the Postgres store", memory.go:650),
\* although the one says with sets and conflicts what the other does row by
\* row.
StoresAgree ==
    /\ Memory!MemInit(Registered, InitReserved)
    /\ [][\A p \in Procs :
             MembersOnBoth(p) /\ GroupsOnBoth(p) /\ SourcesOnBoth(p)]_vars
============================================================================
