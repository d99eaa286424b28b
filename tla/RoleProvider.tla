---------------------------- MODULE RoleProvider ----------------------------
(***************************************************************************)
(* The service at work: people and services maintaining groups through the *)
(* API (groupmgmt.Service), sources being synced (sync.Engine.RunSync) and *)
(* administered (the handlers of webserver/api_sync.go), all on one store. *)
(*                                                                         *)
(* Every call runs in a process of its own (a goroutine, of any replica)   *)
(* and is a sequence of store operations.  One store operation is one      *)
(* atomic step, a transaction of GroupStore; between two of them the other *)
(* processes do what they like.  pc[p] names the operation p does next.    *)
(*                                                                         *)
(* Abstracted: display names, the sync log and the search cache; who acts  *)
(* for whom (a request carries the person it is judged by); of the         *)
(* history, who made a change and when, and what it says of the time       *)
(* before something was there last.                                        *)
(***************************************************************************)
EXTENDS GroupStore

CONSTANTS
    Procs,        \* the calls that may run at the same time
    Requests,     \* the calls clients may make
    APIToken,     \* the caller behind a write token, an admin
    AdminTokens,  \* the tokens that make a person an admin
    Registered,   \* the sources that exist at the beginning
    InitReserved, \* and the group ids each of them reserves
    Nobody,       \* the member of a change about the group itself
    History,      \* bound: the kinds of change whose history is kept
    MaxTime,      \* bound on the clock
    Faults        \* whether a call may be cut short

Callers == Users \cup {APIToken}

-----------------------------------------------------------------------------
(* The calls.  Ids are normalized, relations configured and tokens well    *)
(* formed: anything else is refused before the store is asked.             *)

MemberRequest ==
    [op : {"AddMember"}, who : Callers, grp : Groups, rel : Relations,
     sub : Subjects, exp : Expiries]
    \cup [op : {"RemoveMember"}, who : Callers, grp : Groups,
          rel : Relations, sub : Subjects]
    \cup [op : {"ChangeRelation"}, who : Callers, grp : Groups,
          rel : Relations, to : Relations, sub : Subjects]

GroupRequest ==
    [op : {"CreateGroup"}, who : Callers, grp : Groups, toks : SUBSET Tokens]
    \cup [op : {"DeleteGroup"}, who : Callers, grp : Groups]

ManagerRequest ==
    [op : {"AddManager", "RemoveManager"}, who : Callers, grp : Groups,
     tok : Tokens]

\* wellFormed: the file parses and names configured relations only.
SyncRequest ==
    [op : {"RunSync"}, src : Sources, file : SUBSET Entry,
     wellFormed : BOOLEAN]

SourceRequest ==
    [op : {"CreateSource", "UpdateSource"}, src : Sources,
     names : SUBSET Groups]
    \cup [op : {"DeleteSource"}, src : Sources]

PersonRequest == MemberRequest \cup GroupRequest \cup ManagerRequest

Request == PersonRequest \cup SyncRequest \cup SourceRequest

NoRequest == [op |-> "none"]

Actions ==
    {"group_created", "group_deleted", "group_adopted", "member_added",
     "member_removed", "relation_changed", "manager_added",
     "manager_removed"}

Change ==
    [grp : Groups, act : Actions, sub : Subjects \cup {Nobody},
     rel : Relations \cup {NoRelation}]

MkChange(g, a, m, r) == [grp |-> g, act |-> a, sub |-> m, rel |-> r]

ASSUME RoleProviderAssumption ==
    /\ APIToken \notin Users
    /\ Requests \subseteq Request
    /\ AdminTokens \subseteq Tokens
    /\ Registered \subseteq Sources
    /\ InitReserved \in [Sources -> SUBSET Groups]
    /\ \A s \in Sources \ Registered : InitReserved[s] = {}
    /\ History \subseteq Actions
    /\ MaxTime \in Nat
    /\ Faults \in BOOLEAN

-----------------------------------------------------------------------------

VARIABLES
    owner,     \* groups: the source a group belongs to
    tuples,    \* the entries
    managers,  \* who maintains what
    source,    \* sources: "new", "present", "deleted"
    reserved,  \* the ids each source reserves
    changes,   \* the history: what was written since its object came to be here
    now,       \* the clock
    pc,        \* the store operation each process does next
    req,       \* the call it works on
    toks,      \* the tokens its caller holds, resolved when the call came in
    todo       \* what the loop it is in has left

store == <<owner, tuples, managers, source, reserved>>

local == <<pc, req, toks, todo>>

vars == <<store, changes, now, local>>

Label ==
    {"idle", "getGroup", "listManagers", "groupEdges", "listSources",
     "checkToken", "write", "record", "addManager", "recordManager",
     "getSource", "groupOwners", "syncReserved", "replace", "listGroups",
     "storeSource", "deleteSource", "adopt", "recordAdopted"}

TypeOK ==
    /\ owner \in [Groups -> Owners \cup {Absent}]
    /\ tuples \in SUBSET Tuple /\ OneRowPerEntry(tuples)
    /\ managers \in SUBSET Manager
    /\ source \in [Sources -> {"new", "present", "deleted"}]
    /\ reserved \in [Sources -> SUBSET Groups]
    /\ changes \in SUBSET Change
    /\ now \in Nat
    /\ pc \in [Procs -> Label]
    /\ req \in [Procs -> Request \cup {NoRequest}]
    /\ toks \in [Procs -> SUBSET Tokens]
    /\ todo \in [Procs -> SUBSET (Tokens \cup Groups)]

Init ==
    /\ owner = [g \in Groups |-> Absent]
    /\ tuples = {}
    /\ managers = {}
    /\ source = [s \in Sources |-> IF s \in Registered THEN "present" ELSE "new"]
    /\ reserved = InitReserved
    /\ changes = {}
    /\ now = 0
    /\ pc = [p \in Procs |-> "idle"]
    /\ req = [p \in Procs |-> NoRequest]
    /\ toks = [p \in Procs |-> {}]
    /\ todo = [p \in Procs |-> {}]

-----------------------------------------------------------------------------
(* How a call moves on.                                                    *)

Reads == UNCHANGED <<store, changes, now>>

Goto(p, label) ==
    /\ pc' = [pc EXCEPT ![p] = label]
    /\ UNCHANGED <<req, toks, todo>>

Loop(p, label, S) ==
    /\ pc' = [pc EXCEPT ![p] = label]
    /\ todo' = [todo EXCEPT ![p] = S]
    /\ UNCHANGED <<req, toks>>

\* The call is answered, with success or an error.
Return(p) ==
    /\ pc' = [pc EXCEPT ![p] = "idle"]
    /\ req' = [req EXCEPT ![p] = NoRequest]
    /\ toks' = [toks EXCEPT ![p] = {}]
    /\ todo' = [todo EXCEPT ![p] = {}]

Doing(p, label, op) == pc[p] = label /\ req[p].op = op

\* Loops follow the order of a list, here any fixed one.
NextOf(p) == CHOOSE x \in todo[p] : TRUE

Admin(r, T) == r.who = APIToken \/ T \cap AdminTokens # {}

\* personAuthMiddleware resolves the person before the handler runs.
CallerTokens(r) ==
    IF r \in PersonRequest /\ r.who \in Users
    THEN TokensOf(r.who, Held(LiveOf(tuples, now), r.who))
    ELSE {}

FirstStep(r) ==
    CASE r.op = "CreateGroup" -> "listSources"
      [] r.op = "CreateSource" -> "listGroups"
      [] r.op \in {"RunSync", "UpdateSource", "DeleteSource"} -> "getSource"
      [] OTHER -> "getGroup"

\* A source gets an id nobody had before.
BeingCreated(s) ==
    \E q \in Procs : req[q].op = "CreateSource" /\ req[q].src = s

\* What is refused before the store is asked never begins.
Begin(p, r) ==
    /\ pc[p] = "idle"
    /\ r.op = "AddMember" => (r.exp # Forever => r.exp > now)
    /\ r.op = "CreateGroup" => Admin(r, CallerTokens(r))
    /\ r.op = "CreateSource" => source[r.src] = "new" /\ ~BeingCreated(r.src)
    /\ pc' = [pc EXCEPT ![p] = FirstStep(r)]
    /\ req' = [req EXCEPT ![p] = r]
    /\ toks' = [toks EXCEPT ![p] = CallerTokens(r)]
    /\ Reads /\ UNCHANGED todo

-----------------------------------------------------------------------------
(* The checks before a change.                                             *)

\* What comes once the caller is known to maintain the group.
Checked(p) ==
    LET r == req[p] IN
    CASE r.op = "AddMember" /\ r.sub.type = "group" -> Goto(p, "groupEdges")
      [] r.op = "AddManager" /\ r.tok.type = "group" ->
             Loop(p, "checkToken", {r.tok})
      [] r.op = "DeleteGroup" /\ ~Admin(r, toks[p]) -> Return(p)
      [] OTHER -> Goto(p, "write")

\* Faulty on purpose, like every definition named for what it gets wrong:
\* a property must notice when it stands in for the definition after it.
GetAnyGroup(p) ==
    /\ pc[p] = "getGroup"
    /\ IF owner[req[p].grp] = Absent THEN Return(p)
       ELSE IF Admin(req[p], toks[p]) THEN Checked(p)
       ELSE Goto(p, "listManagers")
    /\ Reads

\* localGroup: only a group of the local source is changed here.
GetGroup(p) ==
    /\ pc[p] = "getGroup"
    /\ IF owner[req[p].grp] # Local THEN Return(p)
       ELSE IF Admin(req[p], toks[p]) THEN Checked(p)
       ELSE Goto(p, "listManagers")
    /\ Reads

\* mayManage, by the tokens the call came in with.
ListManagers(p) ==
    /\ pc[p] = "listManagers"
    /\ IF \E m \in managers : m.grp = req[p].grp /\ m.tok \in toks[p]
       THEN Checked(p) ELSE Return(p)
    /\ Reads

CyclicUpwards(E, g, child) == g = child \/ child \in Below(E, g)

\* checkNoCycle, on the entries that count now.
Cyclic(E, g, child) == g = child \/ g \in Below(E, child)

CheckNoCycle(p) ==
    /\ pc[p] = "groupEdges"
    /\ IF Cyclic(GroupEdges(LiveOf(tuples, now)), req[p].grp, req[p].sub.id)
       THEN Return(p) ELSE Goto(p, "write")
    /\ Reads

\* A name reserved by a source other than s (Local reserves none).
ReservedFromOthers(g, s) ==
    \E x \in Sources \ {s} : source[x] = "present" /\ g \in reserved[x]

CheckNotReserved(p) ==
    /\ pc[p] = "listSources"
    /\ IF ReservedFromOthers(req[p].grp, Local) THEN Return(p)
       ELSE IF req[p].toks = {} THEN Goto(p, "write")
       ELSE Loop(p, "checkToken", req[p].toks)
    /\ Reads

\* checkManagerToken: a group that manages must exist.
CheckManagerToken(p) ==
    /\ pc[p] = "checkToken"
    /\ LET x == NextOf(p) IN
       IF x.type = "group" /\ owner[x.id] = Absent THEN Return(p)
       ELSE IF todo[p] = {x} THEN Loop(p, "write", {})
       ELSE Loop(p, "checkToken", todo[p] \ {x})
    /\ Reads

-----------------------------------------------------------------------------
(* The changes of groups, members and managers.                            *)

Named(r) == MkEntry(r.grp, r.rel, r.sub)

\* What is maintained here: entries, managers, groups of the local source.
Maintained ==
    {<<t.obj, t.sub, t.rel>> : t \in {x \in tuples : x.src = Local}}
    \cup {<<m.grp, m.tok, NoRelation>> : m \in managers}
    \cup {<<g, Nobody, NoRelation>> : g \in {x \in Groups : owner[x] = Local}}

About(c) == <<c.grp, c.sub, c.rel>>

\* Of something that comes to be here, the history up to now is of the past:
\* it explains what was there before.
Renewed ==
    changes' = {c \in changes : About(c) \in Maintained \/ About(c) \notin Maintained'}

AddMember(p) ==
    /\ Doing(p, "write", "AddMember")
    /\ tuples' = PutMember(tuples, Named(req[p]), Local, req[p].exp)
    /\ Goto(p, "record")
    /\ UNCHANGED <<owner, managers, source, reserved, now>>
    /\ Renewed

RemoveMember(p) ==
    /\ Doing(p, "write", "RemoveMember")
    /\ tuples' = DropMember(tuples, Named(req[p]))
    /\ Goto(p, "record")
    /\ UNCHANGED <<owner, managers, source, reserved, changes, now>>

ChangeRelation(p) ==
    /\ Doing(p, "write", "ChangeRelation")
    /\ LET r    == req[p]
           from == Named(r)
           to   == MkEntry(r.grp, r.to, r.sub)
       IN  IF from = to \/ RowsOf(tuples, from) = {}
           THEN tuples' = tuples /\ Return(p)
           ELSE tuples' = MoveRelation(tuples, from, to) /\ Goto(p, "record")
    /\ UNCHANGED <<owner, managers, source, reserved, now>>
    /\ Renewed

CreateGroup(p) ==
    /\ Doing(p, "write", "CreateGroup")
    /\ IF owner[req[p].grp] # Absent
       THEN owner' = owner /\ Return(p)
       ELSE /\ owner' = [owner EXCEPT ![req[p].grp] = Local]
            /\ Goto(p, "record")
    /\ UNCHANGED <<tuples, managers, source, reserved, now>>
    /\ Renewed

DeleteGroup(p) ==
    /\ Doing(p, "write", "DeleteGroup")
    /\ owner' = [owner EXCEPT ![req[p].grp] = Absent]
    /\ tuples' = DropGroupTuples(tuples, req[p].grp)
    /\ managers' = DropGroupManagers(managers, req[p].grp)
    /\ Goto(p, "record")
    /\ UNCHANGED <<source, reserved, changes, now>>

AddManager(p) ==
    /\ Doing(p, "write", "AddManager")
    /\ managers' = managers \cup {[grp |-> req[p].grp, tok |-> req[p].tok]}
    /\ Goto(p, "record")
    /\ UNCHANGED <<owner, tuples, source, reserved, now>>
    /\ Renewed

RemoveManager(p) ==
    /\ Doing(p, "write", "RemoveManager")
    /\ managers' = managers \ {[grp |-> req[p].grp, tok |-> req[p].tok]}
    /\ Goto(p, "record")
    /\ UNCHANGED <<owner, tuples, source, reserved, changes, now>>

-----------------------------------------------------------------------------
(* The history, written after the change.                                  *)

\* A change that cannot be written down is only logged: the call goes on.
Keep(c) ==
    \/ changes' = IF c.act \in History THEN changes \cup {c} ELSE changes
    \/ Faults /\ changes' = changes

ChangeOf(r) ==
    CASE r.op = "AddMember" -> MkChange(r.grp, "member_added", r.sub, r.rel)
      [] r.op = "RemoveMember" ->
             MkChange(r.grp, "member_removed", r.sub, r.rel)
      [] r.op = "ChangeRelation" ->
             MkChange(r.grp, "relation_changed", r.sub, r.to)
      [] r.op = "CreateGroup" ->
             MkChange(r.grp, "group_created", Nobody, NoRelation)
      [] r.op = "DeleteGroup" ->
             MkChange(r.grp, "group_deleted", Nobody, NoRelation)
      [] r.op = "AddManager" ->
             MkChange(r.grp, "manager_added", r.tok, NoRelation)
      [] r.op = "RemoveManager" ->
             MkChange(r.grp, "manager_removed", r.tok, NoRelation)

RecordOrLoop(p) ==
    /\ pc[p] = "record"
    /\ IF req[p].op = "CreateGroup" /\ req[p].toks # {}
       THEN changes' = changes /\ Loop(p, "addManager", req[p].toks)
       ELSE Keep(ChangeOf(req[p])) /\ Return(p)
    /\ UNCHANGED <<store, now>>

Record(p) ==
    /\ pc[p] = "record"
    /\ Keep(ChangeOf(req[p]))
    /\ IF req[p].op = "CreateGroup" /\ req[p].toks # {}
       THEN Loop(p, "addManager", req[p].toks)
       ELSE Return(p)
    /\ UNCHANGED <<store, now>>

\* The managers a group is created with, one after the other.
AddNextManager(p) ==
    /\ pc[p] = "addManager"
    /\ managers' = managers \cup {[grp |-> req[p].grp, tok |-> NextOf(p)]}
    /\ Goto(p, "recordManager")
    /\ UNCHANGED <<owner, tuples, source, reserved, now>>
    /\ Renewed

RecordNextManager(p) ==
    /\ pc[p] = "recordManager"
    /\ Keep(MkChange(req[p].grp, "manager_added", NextOf(p), NoRelation))
    /\ IF todo[p] = {NextOf(p)} THEN Return(p)
       ELSE Loop(p, "addManager", todo[p] \ {NextOf(p)})
    /\ UNCHANGED <<store, now>>

-----------------------------------------------------------------------------
(* Sources.                                                                *)

\* GetSource, and what follows for the three calls that begin with it.
GetSource(p) ==
    /\ pc[p] = "getSource"
    /\ LET r == req[p] IN
       IF source[r.src] # "present" \/ (r.op = "RunSync" /\ ~r.wellFormed)
       THEN Return(p)
       ELSE CASE r.op = "RunSync"      -> Goto(p, "groupOwners")
              [] r.op = "UpdateSource" -> Goto(p, "listGroups")
              [] r.op = "DeleteSource" -> Goto(p, "deleteSource")
    /\ Reads

CheckNoOwners(p) == pc[p] = "groupOwners" /\ Goto(p, "syncReserved") /\ Reads

\* CheckOwnership: the owners of the groups the file writes members into.
CheckOwners(p) ==
    /\ pc[p] = "groupOwners"
    /\ IF \E g \in GroupsOf(req[p].file) : owner[g] \notin {Absent, req[p].src}
       THEN Return(p) ELSE Goto(p, "syncReserved")
    /\ Reads

\* And the names other sources reserve.
CheckSyncReserved(p) ==
    /\ pc[p] = "syncReserved"
    /\ IF \E g \in GroupsOf(req[p].file) : ReservedFromOthers(g, req[p].src)
       THEN Return(p) ELSE Goto(p, "replace")
    /\ Reads

Replace(p) ==
    /\ pc[p] = "replace"
    /\ tuples' = ReplaceRows(tuples, req[p].src, req[p].file)
    /\ owner' = ReplaceOwners(owner, tuples, managers, req[p].src, req[p].file)
    /\ Return(p)
    /\ UNCHANGED <<managers, source, reserved, changes, now>>

TakenBySource(names, s) == \E g \in names : owner[g] \in Sources \ {s}

\* CheckReservation: no reserved name may be a group of somebody else.
Taken(names, s) == \E g \in names : owner[g] \notin {Absent, s}

CheckReservation(p) ==
    /\ pc[p] = "listGroups"
    /\ IF Taken(req[p].names, req[p].src)
       THEN Return(p) ELSE Goto(p, "storeSource")
    /\ Reads

CreateSource(p) ==
    /\ Doing(p, "storeSource", "CreateSource")
    /\ source' = [source EXCEPT ![req[p].src] = "present"]
    /\ reserved' = [reserved EXCEPT ![req[p].src] = req[p].names]
    /\ Return(p)
    /\ UNCHANGED <<owner, tuples, managers, changes, now>>

UpdateSource(p) ==
    /\ Doing(p, "storeSource", "UpdateSource")
    /\ reserved' = IF source[req[p].src] = "present"
                   THEN [reserved EXCEPT ![req[p].src] = req[p].names]
                   ELSE reserved
    /\ Return(p)
    /\ UNCHANGED <<owner, tuples, managers, source, changes, now>>

DeleteSourceOnly(p) ==
    /\ pc[p] = "deleteSource"
    /\ tuples' = tuples \ OwnRows(tuples, req[p].src)
    /\ source' = [source EXCEPT ![req[p].src] = "deleted"]
    /\ reserved' = [reserved EXCEPT ![req[p].src] = {}]
    /\ Goto(p, "adopt")
    /\ UNCHANGED <<owner, managers, changes, now>>

\* The source's entries go, its groups stay and belong to nobody.
DeleteSource(p) ==
    /\ pc[p] = "deleteSource"
    /\ tuples' = tuples \ OwnRows(tuples, req[p].src)
    /\ owner' = Reowned(owner, req[p].src, NoSource)
    /\ source' = [source EXCEPT ![req[p].src] = "deleted"]
    /\ reserved' = [reserved EXCEPT ![req[p].src] = {}]
    /\ Goto(p, "adopt")
    /\ UNCHANGED <<managers, changes, now>>

\* Adopt: whatever belongs to nobody passes to the local source.
Adopt(p) ==
    /\ pc[p] = "adopt"
    /\ tuples' = MoveRows(tuples, NoSource, Local)
    /\ owner' = Reowned(owner, NoSource, Local)
    /\ LET moved == {g \in Groups : owner[g] = NoSource} IN
       IF moved = {} THEN Return(p) ELSE Loop(p, "recordAdopted", moved)
    /\ UNCHANGED <<managers, source, reserved, now>>
    /\ Renewed

RecordAdopted(p) ==
    /\ pc[p] = "recordAdopted"
    /\ Keep(MkChange(NextOf(p), "group_adopted", Nobody, NoRelation))
    /\ IF todo[p] = {NextOf(p)} THEN Return(p)
       ELSE Loop(p, "recordAdopted", todo[p] \ {NextOf(p)})
    /\ UNCHANGED <<store, now>>

-----------------------------------------------------------------------------

\* The timeout of the call's context, a store error, the end of the process:
\* what was stored stays, the rest of the call does not happen.
Fail(p) ==
    /\ Faults
    /\ pc[p] # "idle"
    /\ Return(p)
    /\ Reads

Tick ==
    /\ now < MaxTime
    /\ now' = now + 1
    /\ UNCHANGED <<store, changes, local>>

Check(p) ==
    \/ GetGroup(p) \/ ListManagers(p) \/ CheckNoCycle(p)
    \/ CheckNotReserved(p) \/ CheckManagerToken(p)

Maintain(p) ==
    \/ AddMember(p) \/ RemoveMember(p) \/ ChangeRelation(p)
    \/ CreateGroup(p) \/ DeleteGroup(p) \/ AddManager(p) \/ RemoveManager(p)
    \/ Record(p) \/ AddNextManager(p) \/ RecordNextManager(p)

Sync(p) ==
    GetSource(p) \/ CheckOwners(p) \/ CheckSyncReserved(p) \/ Replace(p)

Administer(p) ==
    \/ CheckReservation(p) \/ CreateSource(p) \/ UpdateSource(p)
    \/ DeleteSource(p) \/ Adopt(p) \/ RecordAdopted(p)

Step(p) == Check(p) \/ Maintain(p) \/ Sync(p) \/ Administer(p)

Next ==
    \/ \E p \in Procs, r \in Requests : Begin(p, r)
    \/ \E p \in Procs : Step(p)
    \/ \E p \in Procs : Fail(p)
    \/ Tick

Spec == Init /\ [][Next]_vars

-----------------------------------------------------------------------------
(* Properties.  The first ones hold however many calls run at once, as     *)
(* long as each source keeps to the names it reserves; the checks and the  *)
(* writes of a call are separate transactions (service.go:271-297 and      *)
(* engine.go:94-108 before the write), so the others are promises about    *)
(* calls made one after the other.                                         *)

\* OneWriter: the entries of a group that exists were all written by the
\* source the group belongs to ("A group belongs to exactly one writer",
\* engine.go:171).
OneWriter ==
    \A t \in tuples : owner[t.obj] # Absent => t.src = owner[t.obj]

\* ExpiryOnlyLocal: no entry a sync source maintains ever expires ("Only
\* tuples maintained here carry one", postgres.go:81), although adding an
\* entry that exists sets the expiry of whatever row is there
\* (postgres.go:427-430).
ExpiryOnlyLocal == \A t \in tuples : t.exp # Forever => t.src = Local

\* NoOrphans: entries and managers belong to groups that exist, and a group
\* that manages another exists, whatever was deleted, pruned or cut short.
NoOrphans ==
    /\ \A t \in tuples : owner[t.obj] # Absent
    /\ \A m \in managers :
          /\ owner[m.grp] # Absent
          /\ m.tok.type = "group" => owner[m.tok.id] # Absent

\* LocalAcyclic: the groups maintained here never contain each other in a
\* circle, through entries of any relation, added, changed or expiring
\* (checkNoCycle, service.go:463-491).
LocalAcyclic ==
    Acyclic(GroupEdges({t \in LiveOf(tuples, now) : t.src = Local}))

\* ReservationRespected: what a source reserves exists only as its own group:
\* neither the API nor another source made it before or after the name was
\* reserved (service.go:201-217, engine.go:191-206, 292-316).
ReservationRespected ==
    \A s \in Sources : \A g \in reserved[s] :
        source[s] = "present" => owner[g] \in {Absent, s}

\* SourcesExist: groups and entries belong to sources that exist, and no entry
\* belongs to nobody, also between deleting a source and handing over its
\* groups (api_sync.go:263-268).
SourcesExist ==
    /\ \A g \in Groups : owner[g] \in Sources => source[owner[g]] = "present"
    /\ \A t \in tuples :
          /\ t.src # NoSource
          /\ t.src \in Sources => source[t.src] = "present"

ExactlyTheFile ==
    \A p \in Procs : Replace(p) =>
        {EntryOf(t) : t \in OwnRows(tuples', req[p].src)} = req[p].file

\* SyncExact: after a sync the entries of the source are those of its file,
\* no more and no less ("a source is always exactly its latest file",
\* README.md:38): no entry of somebody else stands in for one.
SyncExact == [][ExactlyTheFile]_vars

OthersUntouched ==
    \A p \in Procs : Replace(p) =>
        LET others == tuples \ OwnRows(tuples, req[p].src) IN
        /\ others \subseteq tuples'
        /\ \A g \in Groups :
              /\ owner[g] # Absent
              /\ \/ \E t \in others : IsGroup(t.sub, g)
                 \/ \E m \in managers : m.grp = g \/ IsGroup(m.tok, g)
              => owner'[g] # Absent

\* HandMadeKept: a sync leaves the entries of all others alone, and whatever
\* group such an entry or a manager names goes on existing ("so a
\* hand-maintained group never loses an entry because a source moved on",
\* postgres.go:960).
HandMadeKept == [][OthersUntouched]_vars

NobodyTakenOut ==
    \A p \in Procs : ChangeRelation(p) =>
        \A g \in Groups, sub \in Subjects, time \in now .. MaxTime :
            Counts(tuples, g, sub, time) => Counts(tuples', g, sub, time)

\* StaysMember: giving an entry another relation takes nobody out of a group,
\* now or later ("the person never holds both or neither", service.go:516),
\* also when the other relation is held already, for a different time.
StaysMember == [][NobodyTakenOut]_vars

\* A change is in the history, or made and about to be written down.
Written(g, act, sub, rel) ==
    LET change == MkChange(g, act, sub, rel) IN
    \/ change \in changes
    \/ \E p \in Procs : pc[p] = "record" /\ ChangeOf(req[p]) = change

\* AuditComplete: whatever calls run at once, the history has, for every entry
\* maintained here, every manager and every local group, a change that made it,
\* written since it was last missing ("every change records who made it",
\* README.md:55), or a call is about to write one: what an earlier life of the
\* same entry left in the history does not answer for this one.
AuditComplete ==
    /\ \A t \in tuples : t.src = Local =>
          \/ Written(t.obj, "member_added", t.sub, t.rel)
          \/ Written(t.obj, "relation_changed", t.sub, t.rel)
    /\ \A m \in managers :
          \/ Written(m.grp, "manager_added", m.tok, NoRelation)
          \/ \E p \in Procs : /\ pc[p] = "recordManager"
                              /\ req[p].grp = m.grp /\ NextOf(p) = m.tok
    /\ \A g \in Groups : owner[g] = Local =>
          \/ Written(g, "group_created", Nobody, NoRelation)
          \/ Written(g, "group_adopted", Nobody, NoRelation)
          \/ \E p \in Procs : pc[p] = "recordAdopted" /\ g \in todo[p]

-----------------------------------------------------------------------------
(* What the documentation promises and the code does not keep; see the     *)
(* runs that show it.                                                      *)

\* NoCycles: no group maintained here contains itself, directly or further
\* down (README.md:54).  checkNoCycle guards the API's way in
\* (service.go:448-452), a sync brings its edges past it.
NoCycles ==
    LET E == GroupEdges(LiveOf(tuples, now))
    IN  \A g \in Groups : owner[g] = Local => g \notin Below(E, g)

\* StartsEmpty: a group that is created has no entries yet and manages nothing
\* ("a group created later under the same id starts empty",
\* storage/relations_test.go:174; postgres.go:387 and 393).
StartsEmpty ==
    [][\A p \in Procs : CreateGroup(p) /\ owner' # owner =>
          /\ \A t \in tuples : t.obj # req[p].grp
          /\ \A m \in managers : m.grp # req[p].grp]_vars
=============================================================================
