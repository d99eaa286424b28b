--------------------------- MODULE OwnershipProofs ---------------------------
(***************************************************************************)
(* Who writes what.  Two theorems hold of every use of the service; the    *)
(* others need what the service does not enforce between a check and the   *)
(* write that follows it: that every source keeps to the names it reserves *)
(* and that sources are not administered meanwhile (Separated).  Under     *)
(* that they hold for any number of calls at once.  The last says that the *)
(* history explains what is there, as long as every call runs to its end   *)
(* and the changes that explain something are kept (Accounted).            *)
(***************************************************************************)
EXTENDS RoleProviderProofs

-----------------------------------------------------------------------------
(* Of every use.                                                           *)

LEMMA NobodyTakenOutStep == Inv => NobodyTakenOut
<1> SUFFICES ASSUME Inv, NEW p \in Procs, ChangeRelation(p), NEW g \in Groups,
                    NEW sub \in Subjects, NEW time \in now .. MaxTime,
                    Counts(tuples, g, sub, time)
             PROVE  Counts(tuples', g, sub, time)
    BY DEF NobodyTakenOut
<1> DEFINE from == Named(req[p])
           to   == MkEntry(req[p].grp, req[p].to, req[p].sub)
<1>1. req[p] \in Requests \cup {NoRequest} /\ req[p].op = "ChangeRelation"
    BY DEF Inv, LocalOK, ChangeRelation, Doing
<1>2. /\ from \in Entry /\ to \in Entry
      /\ from.obj = to.obj /\ from.sub = to.sub
    BY <1>1, NamedTyped, RequestShape
       DEF MkEntry, Named, Entry, PersonOps
<1>3. time \in Nat
    BY RoleProviderAssumption DEF Inv, StoreOK
<1>4. CASE from = to \/ RowsOf(tuples, from) = {}
    BY <1>4 DEF ChangeRelation
<1>5. CASE ~(from = to \/ RowsOf(tuples, from) = {})
    <2>1. tuples' = MoveRelation(tuples, from, to)
        BY <1>5 DEF ChangeRelation
    <2> QED BY <1>2, <1>3, <1>5, <2>1, MoveRelationKeepsMembers
            DEF Inv, StoreOK
<1> QED BY <1>4, <1>5

\* Giving an entry another relation (ChangeRelation, postgres.go:441-469)
\* takes nobody out of a group, at that time or later, whatever else runs.
THEOREM StaysMemberAlways == Spec => StaysMember
<1>1. Inv => [NobodyTakenOut]_vars
    BY NobodyTakenOutStep
<1> QED BY <1>1, InvAlways, PTL DEF StaysMember

LEMMA OthersUntouchedStep == Inv => OthersUntouched
<1> SUFFICES ASSUME Inv, NEW p \in Procs, Replace(p)
             PROVE  LET others == tuples \ OwnRows(tuples, req[p].src) IN
                    /\ others \subseteq tuples'
                    /\ \A g \in Groups :
                          /\ owner[g] # Absent
                          /\ \/ \E t \in others : IsGroup(t.sub, g)
                             \/ \E m \in managers :
                                    m.grp = g \/ IsGroup(m.tok, g)
                          => owner'[g] # Absent
    BY DEF OthersUntouched
<1> DEFINE s      == req[p].src
           file   == req[p].file
           others == tuples \ OwnRows(tuples, s)
<1>1. /\ tuples' = ReplaceRows(tuples, s, file)
      /\ owner' = ReplaceOwners(owner, tuples, managers, s, file)
    BY DEF Replace
<1>2. others \subseteq tuples'
    BY <1>1, ReplaceRowsKeeps DEF OwnRows
<1>3. ASSUME NEW g \in Groups, owner[g] # Absent,
             \/ \E t \in others : IsGroup(t.sub, g)
             \/ \E m \in managers : m.grp = g \/ IsGroup(m.tok, g)
      PROVE  owner'[g] # Absent
    <2>1. \A m \in managers : IsGroup(m.tok, g) => TokenNames(m.tok, g)
        BY GroupStoreAssumption DEF IsGroup, TokenNames
    <2>2. InUse(ReplaceRows(tuples, s, file), managers, g)
        BY <1>1, <1>2, <1>3, <2>1 DEF InUse
    <2> QED BY <1>1, <1>3, <2>2 DEF ReplaceOwners
<1> QED BY <1>2, <1>3

\* A sync (ReplaceTuples, postgres.go:828-968) leaves all entries of others
\* alone and prunes no group they or a manager name, whatever else runs.
THEOREM HandMadeKeptAlways == Spec => HandMadeKept
<1>1. Inv => [OthersUntouched]_vars
    BY OthersUntouchedStep
<1> QED BY <1>1, InvAlways, PTL DEF HandMadeKept

-----------------------------------------------------------------------------
(* Of separated sources.                                                   *)

Separated ==
    /\ \A r \in Requests :
          r.op \notin {"CreateSource", "UpdateSource", "DeleteSource"}
    /\ \A r \in Requests :
          r.op = "RunSync" => GroupsOf(r.file) \subseteq InitReserved[r.src]
    /\ \A s1, s2 \in Sources :
          s1 # s2 => InitReserved[s1] \cap InitReserved[s2] = {}

Unreserved(g) == \A s \in Sources : g \notin InitReserved[s]

\* The one source that may write group g.
Rightful(g, s) ==
    \/ s \in Sources /\ g \in InitReserved[s]
    \/ s = Local /\ Unreserved(g)

SourcesKept ==
    /\ source = [s \in Sources |-> IF s \in Registered THEN "present" ELSE "new"]
    /\ reserved = InitReserved

GroupsRight == \A g \in Groups : owner[g] # Absent => Rightful(g, owner[g])

RowsRight(T) ==
    \A t \in T : /\ Rightful(t.obj, t.src)
                 /\ t.exp # Forever => t.src = Local

\* A call past its checks is about a group of the local source's.
CallsRight ==
    \A p \in Procs :
        req[p].op \in PersonOps
        /\ pc[p] \notin {"idle", "getGroup", "listSources"} =>
            Unreserved(req[p].grp)

OwnInv == SourcesKept /\ GroupsRight /\ RowsRight(tuples) /\ CallsRight

LEMMA OneRightful ==
    ASSUME Separated, NEW g, NEW s1, NEW s2, Rightful(g, s1), Rightful(g, s2)
    PROVE  s1 = s2
BY DEF Separated, Rightful, Unreserved

\* The rows of a group that the API changes are the local source's.
LEMMA RightfulHere ==
    ASSUME NEW g, Unreserved(g), NEW s
    PROVE  Rightful(g, s) <=> s = Local
BY EntriesAssumption DEF Rightful, Unreserved

LEMMA PutMemberRight ==
    ASSUME NEW T, Table(T), RowsRight(T), NEW e \in Entry, Unreserved(e.obj),
           NEW x \in Expiries
    PROVE  RowsRight(PutMember(T, e, Local, x))
<1>1. CASE RowsOf(T, e) = {}
    <2>1. /\ MkTuple(e, Local, x).obj = e.obj
          /\ MkTuple(e, Local, x).src = Local
        BY DEF MkTuple
    <2>2. Rightful(e.obj, Local)
        BY RightfulHere
    <2>3. PutMember(T, e, Local, x) = T \cup {MkTuple(e, Local, x)}
        BY <1>1 DEF PutMember
    <2> QED BY <2>1, <2>2, <2>3 DEF RowsRight
<1>2. CASE RowsOf(T, e) # {}
    <2>1. \A t \in RowsOf(T, e) :
              /\ [t EXCEPT !.exp = x].obj = t.obj
              /\ [t EXCEPT !.exp = x].src = t.src
              /\ t \in T /\ t.obj = e.obj
        BY DEF RowsOf, EntryOf, Table, Tuple
    <2>2. \A t \in RowsOf(T, e) : t.src = Local
        BY <2>1, RightfulHere DEF RowsRight
    <2>3. \A t \in PutMember(T, e, Local, x) :
              t \in T \/ \E r \in RowsOf(T, e) : t = [r EXCEPT !.exp = x]
        BY <1>2 DEF PutMember
    <2> QED BY <2>1, <2>2, <2>3, RightfulHere DEF RowsRight
<1> QED BY <1>1, <1>2

LEMMA MoveRelationRight ==
    ASSUME NEW T, Table(T), RowsRight(T), NEW from \in Entry,
           NEW to \in Entry, from.obj = to.obj, Unreserved(to.obj)
    PROVE  RowsRight(MoveRelation(T, from, to))
<1>1. \A t \in RowsOf(T, from) \cup RowsOf(T, to) : t.src = Local
    BY RightfulHere DEF RowsRight, RowsOf, EntryOf
<1>2. \A t \in MovedTo(T, from, to) : t.obj = to.obj /\ t.src = Local
    BY <1>1 DEF MovedTo, MkTuple
<1>3. RowsRight(MovedTo(T, from, to))
    BY <1>2, RightfulHere DEF RowsRight
<1> QED BY <1>3, MoveRelationSplit DEF RowsRight

LEMMA ReplaceRowsRight ==
    ASSUME NEW T, RowsRight(T), NEW s \in Sources, NEW file \in SUBSET Entry,
           GroupsOf(file) \subseteq InitReserved[s]
    PROVE  RowsRight(ReplaceRows(T, s, file))
<1>1. \A t \in ReplaceRows(T, s, file) :
          t \in T \/ \E e \in file : t = MkTuple(e, s, Forever)
    BY DEF ReplaceRows
<1>2. \A e \in file : /\ MkTuple(e, s, Forever).obj = e.obj
                      /\ MkTuple(e, s, Forever).src = s
                      /\ MkTuple(e, s, Forever).exp = Forever
                      /\ e.obj \in InitReserved[s]
    BY DEF MkTuple, GroupsOf
<1> QED BY <1>1, <1>2 DEF RowsRight, Rightful

-----------------------------------------------------------------------------
(* The calls: what moves on, and what is known of it then.                 *)

MovesOn(p) ==
    /\ \E label \in Label : pc' = [pc EXCEPT ![p] = label]
    /\ req' \in {req, [req EXCEPT ![p] = NoRequest]}

LEMMA Moves ==
    ASSUME NEW p \in Procs
    PROVE  /\ \A label \in Label : Goto(p, label) => MovesOn(p)
           /\ \A label \in Label, S \in SUBSET (Tokens \cup Groups) :
                  Loop(p, label, S) => MovesOn(p)
           /\ Return(p) => MovesOn(p)
BY DEF Goto, Loop, Return, MovesOn, Label

LEMMA CallsMove ==
    ASSUME LocalOK, CallsRight, NEW p \in Procs, MovesOn(p),
           req[p].op \in PersonOps => Unreserved(req[p].grp)
    PROVE  CallsRight'
<1>1. NoRequest.op \notin PersonOps
    BY DEF NoRequest, PersonOps
<1>2. ASSUME NEW q \in Procs, q # p
      PROVE  pc'[q] = pc[q] /\ req'[q] = req[q]
    BY <1>2 DEF MovesOn, LocalOK
<1>3. req'[p] \in {req[p], NoRequest}
    BY DEF MovesOn, LocalOK
<1> QED BY <1>1, <1>2, <1>3 DEF CallsRight, Unreserved

LEMMA ReturnedRight ==
    ASSUME LocalOK, CallsRight, NEW p \in Procs, Return(p)
    PROVE  CallsRight'
<1>1. NoRequest.op \notin PersonOps
    BY DEF NoRequest, PersonOps
<1>2. \A q \in Procs : \/ q # p /\ pc'[q] = pc[q] /\ req'[q] = req[q]
                       \/ q = p /\ req'[q] = NoRequest
    BY DEF Return, LocalOK
<1> QED BY <1>1, <1>2 DEF CallsRight, Unreserved

\* The steps on the way write nothing and come after a check that holds.
LEMMA CheckRight ==
    ASSUME Inv, OwnInv, NEW p \in Procs, Check(p)
    PROVE  CallsRight'
<1> DEFINE r == req[p]
<1>1. r \in Requests \cup {NoRequest} /\ Fits(pc[p], r, todo[p])
    BY DEF Inv, LocalOK
<1>2. r.op \in PersonOps => r.grp \in Groups
    BY <1>1, RequestShape
<1>3. {"listManagers", "groupEdges", "checkToken", "write"} \subseteq Label
    BY DEF Label
<1>4. CASE GetGroup(p)
    <2>1. Return(p) \/ owner[r.grp] = Local
        BY <1>4 DEF GetGroup
    <2>2. CASE Return(p)
        BY <2>2, ReturnedRight DEF Inv, OwnInv
    <2>3. CASE owner[r.grp] = Local
        <3>1. r.op \in PersonOps => Unreserved(r.grp)
            BY <1>2, <2>3, EntriesAssumption, GroupStoreAssumption
               DEF OwnInv, GroupsRight, Rightful, Owners
        <3>2. Checked(p) => MovesOn(p)
            <4>1. ASSUME r.op = "AddManager"
                  PROVE  {r.tok} \in SUBSET (Tokens \cup Groups)
                BY <1>1, <4>1, RequestShape
            <4> QED BY <1>3, <4>1, Moves DEF Checked
        <3>3. MovesOn(p)
            BY <1>3, <1>4, <3>2, Moves DEF GetGroup
        <3> QED BY <3>1, <3>3, CallsMove DEF Inv, OwnInv
    <2> QED BY <2>1, <2>2, <2>3
<1>5. CASE CheckNotReserved(p)
    <2>1. r.op = "CreateGroup"
        BY <1>1, <1>5 DEF CheckNotReserved, Fits
    <2>2. r.toks \in SUBSET (Tokens \cup Groups)
        BY <1>1, <2>1, RequestShape
    <2>3. Return(p) \/ ~ReservedFromOthers(r.grp, Local)
        BY <1>5 DEF CheckNotReserved
    <2>4. CASE Return(p)
        BY <2>4, ReturnedRight DEF Inv, OwnInv
    <2>5. CASE ~ReservedFromOthers(r.grp, Local)
        <3>1. \A x \in Sources : source[x] = "present" => r.grp \notin reserved[x]
            BY <2>5, EntriesAssumption DEF ReservedFromOthers
        <3>2. Unreserved(r.grp)
            BY <3>1, RoleProviderAssumption
               DEF Unreserved, OwnInv, SourcesKept
        <3>3. MovesOn(p)
            BY <1>3, <1>5, <2>2, Moves DEF CheckNotReserved
        <3> QED BY <3>2, <3>3, CallsMove DEF Inv, OwnInv
    <2> QED BY <2>3, <2>4, <2>5
<1>6. CASE ListManagers(p) \/ CheckNoCycle(p) \/ CheckManagerToken(p)
    <2>1. pc[p] \in {"listManagers", "groupEdges", "checkToken"}
        BY <1>6 DEF ListManagers, CheckNoCycle, CheckManagerToken
    <2>2. r.op \in PersonOps => Unreserved(r.grp)
        BY <2>1 DEF OwnInv, CallsRight
    <2>3. Checked(p) => MovesOn(p)
        <3>1. ASSUME r.op = "AddManager"
              PROVE  {r.tok} \in SUBSET (Tokens \cup Groups)
            BY <1>1, <3>1, RequestShape
        <3> QED BY <1>3, <3>1, Moves DEF Checked
    <2>4. /\ {} \in SUBSET (Tokens \cup Groups)
          /\ todo[p] \ {NextOf(p)} \in SUBSET (Tokens \cup Groups)
        BY DEF Inv, LocalOK
    <2>5. MovesOn(p)
        BY <1>3, <1>6, <2>3, <2>4, Moves
           DEF ListManagers, CheckNoCycle, CheckManagerToken
    <2> QED BY <2>2, <2>5, CallsMove DEF Inv, OwnInv
<1> QED BY <1>4, <1>5, <1>6 DEF Check

LEMMA MaintainRight ==
    ASSUME Inv, OwnInv, NEW p \in Procs, Maintain(p)
    PROVE  /\ req[p].op \in PersonOps /\ req[p].grp \in Groups
           /\ Unreserved(req[p].grp)
           /\ CallsRight'
<1> DEFINE r == req[p]
<1>1. r \in Requests \cup {NoRequest} /\ Fits(pc[p], r, todo[p])
    BY DEF Inv, LocalOK
<1>2. pc[p] \in {"write", "record", "addManager", "recordManager"}
    BY DEF Maintain, AddMember, RemoveMember, ChangeRelation, CreateGroup,
           DeleteGroup, AddManager, RemoveManager, Doing, Record,
           AddNextManager, RecordNextManager
<1>3. r.op \in PersonOps
    BY <1>1, <1>2 DEF Fits, PersonOps
<1>4. r.grp \in Groups /\ Unreserved(r.grp)
    BY <1>1, <1>2, <1>3, RequestShape DEF OwnInv, CallsRight
<1>5. {"record", "addManager", "recordManager"} \subseteq Label
    BY DEF Label
<1>6. /\ r.op = "CreateGroup" => r.toks \in SUBSET (Tokens \cup Groups)
      /\ todo[p] \ {NextOf(p)} \in SUBSET (Tokens \cup Groups)
    BY <1>1, RequestShape DEF Inv, LocalOK
<1>7. MovesOn(p)
    <2>1. CASE \/ AddMember(p) \/ RemoveMember(p) \/ ChangeRelation(p)
               \/ CreateGroup(p) \/ DeleteGroup(p) \/ AddManager(p)
               \/ RemoveManager(p)
        BY <1>5, <2>1, Moves
           DEF AddMember, RemoveMember, ChangeRelation, CreateGroup,
               DeleteGroup, AddManager, RemoveManager
    <2>2. CASE Record(p) \/ AddNextManager(p) \/ RecordNextManager(p)
        BY <1>5, <1>6, <2>2, Moves
           DEF Record, AddNextManager, RecordNextManager
    <2> QED BY <2>1, <2>2 DEF Maintain
<1> QED BY <1>3, <1>4, <1>7, CallsMove DEF Inv, OwnInv

LEMMA SyncRight ==
    ASSUME Separated, Inv, OwnInv, NEW p \in Procs, Sync(p)
    PROVE  CallsRight'
<1>1. req[p] \in Requests \cup {NoRequest} /\ Fits(pc[p], req[p], todo[p])
    BY DEF Inv, LocalOK
<1>2. pc[p] \in {"getSource", "groupOwners", "syncReserved", "replace"}
    BY DEF Sync, GetSource, CheckOwners, CheckSyncReserved, Replace
<1>3. req[p].op \in {"RunSync", "UpdateSource", "DeleteSource"}
    BY <1>1, <1>2 DEF Fits
<1>4. {"groupOwners", "syncReserved", "replace", "listGroups",
       "deleteSource"} \subseteq Label
    BY DEF Label
<1>5. CASE GetSource(p)
    <2>1. \/ Return(p) \/ Goto(p, "groupOwners") \/ Goto(p, "listGroups")
          \/ Goto(p, "deleteSource")
        BY <1>3, <1>5 DEF GetSource
    <2> QED BY <1>3, <1>4, <2>1, Moves, CallsMove DEF Inv, OwnInv, PersonOps
<1>6. CASE CheckOwners(p) \/ CheckSyncReserved(p) \/ Replace(p)
    <2>1. MovesOn(p)
        BY <1>4, <1>6, Moves DEF CheckOwners, CheckSyncReserved, Replace
    <2> QED BY <1>3, <2>1, CallsMove DEF Inv, OwnInv, PersonOps
<1> QED BY <1>5, <1>6 DEF Sync

\* Nobody administers a source.
LEMMA NotAdministered ==
    ASSUME Separated, Inv, NEW p \in Procs
    PROVE  ~Administer(p)
<1>1. /\ req[p].op \notin {"CreateSource", "UpdateSource", "DeleteSource"}
      /\ Fits(pc[p], req[p], todo[p])
    BY DEF Separated, NoRequest, Inv, LocalOK
<1>2. pc[p] \notin {"listGroups", "storeSource", "deleteSource", "adopt",
                   "recordAdopted"}
    BY <1>1 DEF Fits
<1> QED BY <1>2
        DEF Administer, CheckReservation, CreateSource, UpdateSource, Doing,
            DeleteSource, Adopt, RecordAdopted

-----------------------------------------------------------------------------
(* The tables.                                                             *)

LEMMA MaintainTables ==
    ASSUME Inv, OwnInv, NEW p \in Procs, Maintain(p)
    PROVE  SourcesKept' /\ GroupsRight' /\ RowsRight(tuples')
<1> DEFINE r == req[p]
<1>1. /\ r \in Requests \cup {NoRequest} /\ r.grp \in Groups
      /\ Unreserved(r.grp)
    BY MaintainRight DEF Inv, LocalOK
<1>2. SourcesKept'
    BY DEF Maintain, AddMember, RemoveMember, ChangeRelation, CreateGroup,
           DeleteGroup, AddManager, RemoveManager, Record, AddNextManager,
           RecordNextManager, store, OwnInv, SourcesKept
<1>3. /\ Table(tuples) /\ RowsRight(tuples)
      /\ owner \in [Groups -> Owners \cup {Absent}]
      /\ GroupsRight
    BY DEF Inv, StoreOK, OwnInv
<1>4. CASE AddMember(p)
    <2>1. Named(r) \in Entry /\ Named(r).obj = r.grp /\ r.exp \in Expiries
        BY <1>1, <1>4, NamedTyped, RequestShape DEF AddMember, Doing
    <2>2. RowsRight(tuples')
        BY <1>1, <1>3, <1>4, <2>1, PutMemberRight DEF AddMember
    <2> QED BY <1>2, <1>3, <1>4, <2>2 DEF AddMember, GroupsRight
<1>5. CASE ChangeRelation(p)
    <2> DEFINE from == Named(r)
               to   == MkEntry(r.grp, r.to, r.sub)
    <2>1. /\ from \in Entry /\ to \in Entry
          /\ from.obj = r.grp /\ to.obj = r.grp
        BY <1>1, <1>5, NamedTyped, RequestShape
           DEF ChangeRelation, Doing, MkEntry, Entry, PersonOps
    <2>2. RowsRight(MoveRelation(tuples, from, to))
        BY <1>1, <1>3, <2>1, MoveRelationRight
    <2>3. /\ tuples' \in {tuples, MoveRelation(tuples, from, to)}
          /\ owner' = owner
        BY <1>5 DEF ChangeRelation
    <2> QED BY <1>2, <1>3, <2>2, <2>3 DEF GroupsRight
<1>6. CASE CreateGroup(p)
    <2>1. /\ tuples' = tuples
          /\ \A g \in Groups : owner'[g] = owner[g] \/ (g = r.grp /\ owner'[g] = Local)
        BY <1>3, <1>6 DEF CreateGroup
    <2>2. GroupsRight'
        BY <1>1, <1>3, <2>1, RightfulHere DEF GroupsRight
    <2> QED BY <1>2, <1>3, <2>1, <2>2
<1>7. CASE DeleteGroup(p)
    <2>1. /\ tuples' \subseteq tuples
          /\ \A g \in Groups : owner'[g] \in {owner[g], Absent}
        BY <1>3, <1>7 DEF DeleteGroup, DropGroupTuples
    <2> QED BY <1>2, <1>3, <2>1 DEF GroupsRight, RowsRight
<1>8. CASE RemoveMember(p)
    <2>1. tuples' \subseteq tuples /\ owner' = owner
        BY <1>8 DEF RemoveMember, DropMember
    <2> QED BY <1>2, <1>3, <2>1 DEF GroupsRight, RowsRight
<1>9. CASE \/ AddManager(p) \/ RemoveManager(p) \/ Record(p)
           \/ AddNextManager(p) \/ RecordNextManager(p)
    <2>1. tuples' = tuples /\ owner' = owner
        BY <1>9 DEF AddManager, RemoveManager, Record, AddNextManager,
                    RecordNextManager, store
    <2> QED BY <1>2, <1>3, <2>1 DEF GroupsRight
<1> QED BY <1>4, <1>5, <1>6, <1>7, <1>8, <1>9 DEF Maintain

LEMMA ReplaceTables ==
    ASSUME Separated, Inv, OwnInv, NEW p \in Procs, Replace(p)
    PROVE  /\ req[p].src \in Sources
           /\ req[p].file \in SUBSET Entry
           /\ GroupsOf(req[p].file) \subseteq InitReserved[req[p].src]
           /\ SourcesKept' /\ GroupsRight' /\ RowsRight(tuples')
<1> DEFINE s    == req[p].src
           file == req[p].file
<1>1. req[p] \in Requests \cup {NoRequest} /\ req[p].op = "RunSync"
    BY DEF Inv, LocalOK, Fits, Replace
<1>2. s \in Sources /\ s \in Owners /\ file \in SUBSET Entry
    BY <1>1, RequestShape DEF Owners
<1>3. GroupsOf(file) \subseteq InitReserved[s]
    BY <1>1 DEF Separated, NoRequest
<1>4. SourcesKept'
    BY DEF Replace, OwnInv, SourcesKept
<1>5. RowsRight(tuples')
    BY <1>2, <1>3, ReplaceRowsRight DEF Replace, OwnInv
<1>6. GroupsRight'
    <2> SUFFICES ASSUME NEW g \in Groups, owner'[g] # Absent
                 PROVE  Rightful(g, owner'[g])
        BY DEF GroupsRight, Rightful, Unreserved
    <2>1. \/ owner'[g] = owner[g]
          \/ owner'[g] = s /\ g \in GroupsOf(file)
        BY <1>2, ReplaceOwnersCases DEF Replace, Inv, StoreOK
    <2> QED BY <1>2, <1>3, <2>1 DEF OwnInv, GroupsRight, Rightful
<1> QED BY <1>2, <1>3, <1>4, <1>5, <1>6

LEMMA ReadRight ==
    ASSUME OwnInv, UNCHANGED store
    PROVE  SourcesKept' /\ GroupsRight' /\ RowsRight(tuples')
BY DEF OwnInv, SourcesKept, GroupsRight, store

LEMMA StepRight ==
    ASSUME Separated, Inv, OwnInv, NEW p \in Procs, Step(p)
    PROVE  OwnInv'
<1>1. CASE Check(p)
    <2>1. UNCHANGED store
        BY <1>1 DEF Check, GetGroup, ListManagers, CheckNoCycle,
                    CheckNotReserved, CheckManagerToken, Reads
    <2> QED BY <1>1, <2>1, CheckRight, ReadRight DEF OwnInv, RowsRight
<1>2. CASE Maintain(p)
    BY <1>2, MaintainRight, MaintainTables DEF OwnInv, RowsRight
<1>3. CASE Sync(p)
    <2>1. CASE Replace(p)
        BY <1>3, <2>1, SyncRight, ReplaceTables DEF OwnInv, RowsRight
    <2>2. CASE GetSource(p) \/ CheckOwners(p) \/ CheckSyncReserved(p)
        <3>1. UNCHANGED store
            BY <2>2 DEF GetSource, CheckOwners, CheckSyncReserved, Reads
        <3> QED BY <1>3, <3>1, SyncRight, ReadRight DEF OwnInv, RowsRight
    <2> QED BY <1>3, <2>1, <2>2 DEF Sync
<1> QED BY <1>1, <1>2, <1>3, NotAdministered DEF Step

LEMMA BeginRight ==
    ASSUME Inv, OwnInv, NEW p \in Procs, NEW r \in Requests, Begin(p, r)
    PROVE  OwnInv'
<1>1. /\ pc' = [pc EXCEPT ![p] = FirstStep(r)]
      /\ req' = [req EXCEPT ![p] = r]
      /\ UNCHANGED store
    BY DEF Begin, Reads
<1>2. r.op \in PersonOps => FirstStep(r) \in {"getGroup", "listSources"}
    BY DEF FirstStep, PersonOps
<1>3. \A q \in Procs : \/ q # p /\ pc'[q] = pc[q] /\ req'[q] = req[q]
                       \/ q = p /\ pc'[q] = FirstStep(r) /\ req'[q] = r
    BY <1>1 DEF Inv, LocalOK
<1>4. CallsRight'
    BY <1>2, <1>3 DEF OwnInv, CallsRight, Unreserved
<1> QED BY <1>1, <1>4, ReadRight DEF OwnInv, RowsRight

LEMMA NextRight ==
    ASSUME Separated, Inv, OwnInv, [Next]_vars
    PROVE  OwnInv'
<1>1. CASE \E p \in Procs, r \in Requests : Begin(p, r)
    BY <1>1, BeginRight
<1>2. CASE \E p \in Procs : Step(p)
    BY <1>2, StepRight
<1>3. CASE \E p \in Procs : Fail(p)
    BY <1>3, ReadRight, ReturnedRight DEF Fail, Reads, Inv, OwnInv, RowsRight
<1>4. CASE Tick \/ UNCHANGED vars
    <2>1. UNCHANGED <<store, local>>
        BY <1>4 DEF Tick, vars
    <2>2. CallsRight'
        BY <2>1 DEF local, OwnInv, CallsRight, Unreserved
    <2> QED BY <2>1, <2>2, ReadRight DEF OwnInv, RowsRight
<1> QED BY <1>1, <1>2, <1>3, <1>4 DEF Next

LEMMA InitRight == Init => OwnInv
<1> SUFFICES ASSUME Init PROVE OwnInv
    OBVIOUS
<1>1. SourcesKept /\ RowsRight(tuples)
    BY DEF Init, SourcesKept, RowsRight
<1>2. GroupsRight
    BY DEF Init, GroupsRight
<1>3. CallsRight
    BY DEF Init, CallsRight
<1> QED BY <1>1, <1>2, <1>3 DEF OwnInv

LEMMA OwnInvAlways == ASSUME Separated PROVE Spec => []OwnInv
<1>1. Inv /\ OwnInv /\ [Next]_vars => OwnInv'
    BY NextRight
<1> QED BY <1>1, InvAlways, InitRight, PTL DEF Spec

-----------------------------------------------------------------------------
(* What follows.                                                           *)

\* A group has one writer ("A group belongs to exactly one writer",
\* engine.go:171) with any number of calls and syncs at once, when the
\* sources keep to the names they reserve.
THEOREM OneWriterAlways == ASSUME Separated PROVE Spec => []OneWriter
<1>1. Inv /\ OwnInv => OneWriter
    <2> SUFFICES ASSUME Inv, OwnInv, NEW t \in tuples, owner[t.obj] # Absent
                 PROVE  t.src = owner[t.obj]
        BY DEF OneWriter
    <2>1. t.obj \in Groups
        BY DEF Inv, StoreOK, Table, Tuple
    <2>2. Rightful(t.obj, t.src) /\ Rightful(t.obj, owner[t.obj])
        BY <2>1 DEF OwnInv, RowsRight, GroupsRight
    <2> QED BY <2>2, OneRightful
<1> QED BY <1>1, InvAlways, OwnInvAlways, PTL

\* Nothing a sync source maintains ever expires (postgres.go:81), although
\* adding an entry sets the expiry of whatever row is there
\* (postgres.go:427-430): no such row is ever a source's.
THEOREM ExpiryOnlyLocalAlways == ASSUME Separated PROVE Spec => []ExpiryOnlyLocal
<1>1. OwnInv => ExpiryOnlyLocal
    BY DEF OwnInv, RowsRight, ExpiryOnlyLocal
<1> QED BY <1>1, OwnInvAlways, PTL

\* A source is exactly its latest file (README.md:38) after each of its syncs,
\* whatever the API and the other sources do meanwhile.
THEOREM SyncExactAlways == ASSUME Separated PROVE Spec => SyncExact
<1>1. Inv /\ OwnInv => ExactlyTheFile
    <2> SUFFICES ASSUME Inv, OwnInv, NEW p \in Procs, Replace(p)
                 PROVE  {EntryOf(t) : t \in OwnRows(tuples', req[p].src)}
                            = req[p].file
        BY DEF ExactlyTheFile
    <2> DEFINE s    == req[p].src
               file == req[p].file
    <2>1. /\ s \in Sources /\ s \in Owners /\ file \in SUBSET Entry
          /\ GroupsOf(file) \subseteq InitReserved[s]
        BY ReplaceTables DEF Owners
    <2>2. ASSUME NEW t \in tuples, EntryOf(t) \in file
          PROVE  t.src = s
        <3>1. t.obj \in InitReserved[s]
            BY <2>1, <2>2 DEF GroupsOf, EntryOf
        <3>2. Rightful(t.obj, s) /\ Rightful(t.obj, t.src)
            BY <2>1, <3>1 DEF Rightful, OwnInv, RowsRight
        <3> QED BY <3>2, OneRightful
    <2>3. tuples' = ReplaceRows(tuples, s, file)
        BY DEF Replace
    <2> QED BY <2>1, <2>2, <2>3, ReplaceRowsExact
<1>2. Inv /\ OwnInv => [ExactlyTheFile]_vars
    BY <1>1
<1> QED BY <1>2, InvAlways, OwnInvAlways, PTL DEF SyncExact

-----------------------------------------------------------------------------
(* Who answers for what is there.                                          *)

\* Calls run to their end, and the changes that can explain something are
\* kept; a group is adopted only after a source was deleted.
Accounted ==
    /\ Faults = FALSE
    /\ {"group_created", "member_added", "relation_changed",
        "manager_added"} \subseteq History
    /\ \A r \in Requests : r.op = "DeleteSource" => "group_adopted" \in History

EntryExplained(g, sub, rel) ==
    \/ Written(g, "member_added", sub, rel)
    \/ Written(g, "relation_changed", sub, rel)

ManagerExplained(g, x) ==
    \/ Written(g, "manager_added", x, NoRelation)
    \/ \E p \in Procs : /\ pc[p] = "recordManager"
                        /\ req[p].grp = g /\ NextOf(p) = x

GroupExplained(g) ==
    \/ Written(g, "group_created", Nobody, NoRelation)
    \/ Written(g, "group_adopted", Nobody, NoRelation)
    \/ \E p \in Procs : pc[p] = "recordAdopted" /\ g \in todo[p]

\* Groups belong to nobody for a moment, entries never do.
NoneNobodys == \A t \in tuples : t.src # NoSource

AuditInv ==
    /\ NoneNobodys
    /\ \A t \in tuples : t.src = Local => EntryExplained(t.obj, t.sub, t.rel)
    /\ \A m \in managers : ManagerExplained(m.grp, m.tok)
    /\ \A g \in Groups : owner[g] = Local => GroupExplained(g)

LEMMA AuditInvExplains == AuditInv => AuditComplete
BY DEF AuditInv, AuditComplete, EntryExplained, ManagerExplained,
       GroupExplained

\* The calls of all others stay where they are.
OnlyMoves(p) ==
    \A q \in Procs \ {p} :
        pc'[q] = pc[q] /\ req'[q] = req[q] /\ todo'[q] = todo[q]

LEMMA HowItMoves ==
    ASSUME LocalOK, NEW p \in Procs
    PROVE  /\ \A label : Goto(p, label) => OnlyMoves(p) /\ pc'[p] = label
                                          /\ req'[p] = req[p] /\ todo'[p] = todo[p]
           /\ \A label, S : Loop(p, label, S) =>
                  OnlyMoves(p) /\ pc'[p] = label /\ req'[p] = req[p] /\ todo'[p] = S
           /\ Return(p) => OnlyMoves(p)
BY DEF LocalOK, Goto, Loop, Return, OnlyMoves

LEMMA CheckMoves ==
    ASSUME LocalOK, NEW p \in Procs, Check(p)
    PROVE  OnlyMoves(p)
<1>1. Checked(p) => OnlyMoves(p)
    BY HowItMoves DEF Checked
<1> QED
    BY <1>1, HowItMoves
       DEF Check, GetGroup, ListManagers, CheckNoCycle, CheckNotReserved,
           CheckManagerToken

LEMMA MaintainMoves ==
    ASSUME LocalOK, NEW p \in Procs, Maintain(p)
    PROVE  OnlyMoves(p)
BY HowItMoves
   DEF Maintain, AddMember, RemoveMember, ChangeRelation, CreateGroup,
       DeleteGroup, AddManager, RemoveManager, Record, AddNextManager,
       RecordNextManager

LEMMA SyncMoves ==
    ASSUME LocalOK, NEW p \in Procs, Sync(p),
           Fits(pc[p], req[p], todo[p])
    PROVE  OnlyMoves(p)
<1>1. ASSUME GetSource(p)
      PROVE  OnlyMoves(p)
    <2>1. req[p].op \in {"RunSync", "UpdateSource", "DeleteSource"}
        BY <1>1 DEF GetSource, Fits
    <2>2. \/ Return(p) \/ Goto(p, "groupOwners") \/ Goto(p, "listGroups")
          \/ Goto(p, "deleteSource")
        BY <1>1, <2>1 DEF GetSource
    <2> QED BY <2>2, HowItMoves
<1> QED BY <1>1, HowItMoves
        DEF Sync, CheckOwners, CheckSyncReserved, Replace

LEMMA AdministerMoves ==
    ASSUME LocalOK, NEW p \in Procs, Administer(p)
    PROVE  OnlyMoves(p)
BY HowItMoves
   DEF Administer, CheckReservation, CreateSource, UpdateSource, DeleteSource,
       Adopt, RecordAdopted

LEMMA StepMoves ==
    ASSUME LocalOK, NEW p \in Procs, Step(p)
    PROVE  OnlyMoves(p)
<1>1. Fits(pc[p], req[p], todo[p])
    BY DEF LocalOK
<1> QED BY <1>1, CheckMoves, MaintainMoves, SyncMoves, AdministerMoves DEF Step

LEMMA BeginMoves ==
    ASSUME LocalOK, NEW p \in Procs, NEW r, Begin(p, r)
    PROVE  OnlyMoves(p)
BY DEF LocalOK, Begin, OnlyMoves

\* The kinds of change that account for something that is there.
Accounting ==
    {"group_created", "member_added", "relation_changed", "manager_added",
     "group_adopted"}

\* At the label of the history there is one thing to do.
LEMMA OnlyRecords ==
    ASSUME LocalOK, NEW p \in Procs, Step(p)
    PROVE  /\ pc[p] = "record" => Record(p)
           /\ pc[p] = "recordManager" => RecordNextManager(p)
           /\ pc[p] = "recordAdopted" => RecordAdopted(p)
BY DEF Step, Check, Maintain, Sync, Administer, GetGroup, ListManagers,
       CheckNoCycle, CheckNotReserved, CheckManagerToken, AddMember,
       RemoveMember, ChangeRelation, CreateGroup, DeleteGroup, AddManager,
       RemoveManager, Record, AddNextManager, RecordNextManager, GetSource,
       CheckOwners, CheckSyncReserved, Replace, CheckReservation,
       CreateSource, UpdateSource, DeleteSource, Adopt, RecordAdopted, Doing

\* What the history says of something that is there stays.
LEMMA HistoryStays ==
    ASSUME [Next]_vars, NEW c \in changes, About(c) \in Maintained
    PROVE  c \in changes'
<1>1. ASSUME NEW x, Keep(x)
      PROVE  c \in changes'
    BY <1>1 DEF Keep
<1>0. Renewed => c \in changes'
    BY DEF Renewed
<1>2. ASSUME NEW p \in Procs, Check(p)
      PROVE  changes' = changes
    BY <1>2 DEF Check, GetGroup, ListManagers, CheckNoCycle,
                CheckNotReserved, CheckManagerToken, Reads
<1>3. ASSUME NEW p \in Procs, Maintain(p)
      PROVE  c \in changes'
    BY <1>0, <1>1, <1>3 DEF Maintain, AddMember, RemoveMember, ChangeRelation,
           CreateGroup, DeleteGroup, AddManager, RemoveManager, Record,
           AddNextManager, RecordNextManager
<1>4. ASSUME NEW p \in Procs, Sync(p)
      PROVE  changes' = changes
    BY <1>4 DEF Sync, GetSource, CheckOwners, CheckSyncReserved, Replace, Reads
<1>5. ASSUME NEW p \in Procs, Administer(p)
      PROVE  c \in changes'
    BY <1>0, <1>1, <1>5 DEF Administer, CheckReservation, CreateSource,
           UpdateSource, DeleteSource, Adopt, RecordAdopted, Reads
<1>6. CASE \E p \in Procs, r \in Requests : Begin(p, r)
    BY <1>6 DEF Begin, Reads
<1>7. CASE \E p \in Procs : Fail(p)
    BY <1>7 DEF Fail, Reads
<1>8. CASE Tick \/ UNCHANGED vars
    BY <1>8 DEF Tick, vars
<1> QED BY <1>2, <1>3, <1>4, <1>5, <1>6, <1>7, <1>8 DEF Next, Step

\* How the calls not at p's step look afterwards, whatever the step is.
LEMMA WhoMoves ==
    ASSUME LocalOK, [Next]_vars, Faults = FALSE, NEW q \in Procs,
           pc[q] # "idle"
    PROVE  \/ pc'[q] = pc[q] /\ req'[q] = req[q] /\ todo'[q] = todo[q]
           \/ Step(q)
<1>1. CASE \E p \in Procs, r \in Requests : Begin(p, r)
    <2>1. PICK p \in Procs, r \in Requests : Begin(p, r)
        BY <1>1
    <2>2. q # p
        BY <2>1 DEF Begin
    <2> QED BY <2>1, <2>2, BeginMoves DEF OnlyMoves
<1>2. CASE \E p \in Procs : Step(p)
    BY <1>2, StepMoves DEF OnlyMoves
<1>3. CASE Tick \/ UNCHANGED vars
    BY <1>3 DEF Tick, vars, local
<1> QED BY <1>1, <1>2, <1>3 DEF Next, Fail

LEMMA ActOfChange ==
    ASSUME NEW r, r.op \in PersonOps
    PROVE  ChangeOf(r).act # "group_adopted"
BY DEF ChangeOf, MkChange, PersonOps

\* A change that accounts for something that is there stays in the history, and
\* one that is about to be written down gets there.
LEMMA WrittenStays ==
    ASSUME Inv, Accounted, [Next]_vars,
           NEW g, NEW act \in Accounting, NEW sub, NEW rel,
           Written(g, act, sub, rel), <<g, sub, rel>> \in Maintained
    PROVE  Written(g, act, sub, rel)'
<1> DEFINE change == MkChange(g, act, sub, rel)
<1>0. LocalOK /\ Faults = FALSE
    BY DEF Inv, Accounted
<1>1. CASE change \in changes
    BY <1>1, HistoryStays DEF Written, About, MkChange
<1>2. CASE \E q \in Procs : pc[q] = "record" /\ ChangeOf(req[q]) = change
    <2>1. PICK q \in Procs : pc[q] = "record" /\ ChangeOf(req[q]) = change
        BY <1>2
    <2>2. CASE Step(q)
        <3>1. Record(q)
            BY <1>0, <2>1, <2>2, OnlyRecords
        <3>2. req[q].op \in PersonOps
            BY <1>0, <2>1 DEF LocalOK, Fits
        <3>3. change.act = act
            BY DEF MkChange
        <3>4. change.act \in History
            BY <2>1, <3>2, <3>3, ActOfChange DEF Accounted, Accounting
        <3> QED BY <1>0, <2>1, <3>1, <3>4 DEF Record, Keep, Written
    <2>3. CASE pc'[q] = pc[q] /\ req'[q] = req[q]
        BY <2>1, <2>3 DEF Written
    <2> QED BY <1>0, <2>1, <2>2, <2>3, WhoMoves
<1> QED BY <1>1, <1>2 DEF Written

LEMMA EntryStays ==
    ASSUME Inv, Accounted, [Next]_vars, NEW g, NEW sub, NEW rel,
           EntryExplained(g, sub, rel), <<g, sub, rel>> \in Maintained
    PROVE  EntryExplained(g, sub, rel)'
BY WrittenStays DEF EntryExplained, Accounting

LEMMA ManagerStays ==
    ASSUME Inv, Accounted, [Next]_vars, NEW g, NEW x, ManagerExplained(g, x),
           <<g, x, NoRelation>> \in Maintained
    PROVE  ManagerExplained(g, x)'
<1>1. CASE Written(g, "manager_added", x, NoRelation)
    BY <1>1, WrittenStays DEF ManagerExplained, Accounting
<1>2. CASE \E q \in Procs : /\ pc[q] = "recordManager"
                            /\ req[q].grp = g /\ NextOf(q) = x
    <2>1. PICK q \in Procs : pc[q] = "recordManager" /\ req[q].grp = g
                             /\ NextOf(q) = x
        BY <1>2
    <2>2. CASE Step(q)
        <3>1. RecordNextManager(q)
            BY <2>1, <2>2, OnlyRecords DEF Inv
        <3>2. MkChange(g, "manager_added", x, NoRelation).act \in History
            BY DEF MkChange, Accounted
        <3> QED BY <2>1, <3>1, <3>2
                DEF Accounted, RecordNextManager, Keep, Written, ManagerExplained
    <2>3. CASE pc'[q] = pc[q] /\ req'[q] = req[q] /\ todo'[q] = todo[q]
        BY <2>1, <2>3 DEF ManagerExplained, NextOf
    <2> QED BY <2>1, <2>2, <2>3, WhoMoves DEF Inv, Accounted
<1> QED BY <1>1, <1>2 DEF ManagerExplained

LEMMA GroupStays ==
    ASSUME Inv, Accounted, [Next]_vars, NEW g, GroupExplained(g),
           <<g, Nobody, NoRelation>> \in Maintained
    PROVE  GroupExplained(g)'
<1>1. CASE \/ Written(g, "group_created", Nobody, NoRelation)
           \/ Written(g, "group_adopted", Nobody, NoRelation)
    BY <1>1, WrittenStays DEF GroupExplained, Accounting
<1>2. CASE \E q \in Procs : pc[q] = "recordAdopted" /\ g \in todo[q]
    <2>1. PICK q \in Procs : pc[q] = "recordAdopted" /\ g \in todo[q]
        BY <1>2
    <2>2. CASE Step(q)
        <3>1. RecordAdopted(q)
            BY <2>1, <2>2, OnlyRecords DEF Inv
        <3>2. CASE g = NextOf(q)
            <4>1. req[q] \in Requests /\ req[q].op = "DeleteSource"
                BY <2>1 DEF Inv, LocalOK, Fits, NoRequest
            <4>2. MkChange(g, "group_adopted", Nobody, NoRelation).act \in History
                BY <4>1 DEF MkChange, Accounted
            <4> QED BY <3>1, <3>2, <4>2
                    DEF Accounted, RecordAdopted, Keep, Written, GroupExplained
        <3>3. CASE g # NextOf(q)
            <4>1. Loop(q, "recordAdopted", todo[q] \ {NextOf(q)})
                BY <2>1, <3>1, <3>3 DEF RecordAdopted
            <4>2. pc'[q] = "recordAdopted" /\ g \in todo'[q]
                BY <2>1, <3>3, <4>1, HowItMoves DEF Inv
            <4> QED BY <4>2 DEF GroupExplained
        <3> QED BY <3>2, <3>3
    <2>3. CASE pc'[q] = pc[q] /\ req'[q] = req[q] /\ todo'[q] = todo[q]
        BY <2>1, <2>3 DEF GroupExplained
    <2> QED BY <2>1, <2>2, <2>3, WhoMoves DEF Inv, Accounted
<1> QED BY <1>1, <1>2 DEF GroupExplained

-----------------------------------------------------------------------------
(* What a step adds is explained.                                          *)

LEMMA AuditByParts ==
    ASSUME Inv, AuditInv, Accounted, [Next]_vars,
           \A t \in tuples' : t \notin tuples =>
               /\ t.src # NoSource
               /\ \/ \E x \in tuples : x.src = t.src /\ EntryOf(x) = EntryOf(t)
                  \/ t.src = Local => EntryExplained(t.obj, t.sub, t.rel)',
           \A m \in managers' \ managers : ManagerExplained(m.grp, m.tok)',
           \A g \in Groups : owner'[g] = Local /\ owner[g] # Local =>
               GroupExplained(g)'
    PROVE  AuditInv'
<1>1. NoneNobodys'
    BY DEF AuditInv, NoneNobodys
<1>2. ASSUME NEW t \in tuples', t.src = Local
      PROVE  EntryExplained(t.obj, t.sub, t.rel)'
    <2>1. CASE \E x \in tuples : x.src = t.src /\ EntryOf(x) = EntryOf(t)
        <3>1. PICK x \in tuples : x.src = Local /\ EntryOf(x) = EntryOf(t)
            BY <1>2, <2>1
        <3>2. EntryExplained(x.obj, x.sub, x.rel)
            BY <3>1 DEF AuditInv
        <3>3. x.obj = t.obj /\ x.sub = t.sub /\ x.rel = t.rel
            BY <3>1 DEF EntryOf
        <3>4. <<x.obj, x.sub, x.rel>> \in Maintained
            BY <3>1 DEF Maintained
        <3> QED BY <3>2, <3>3, <3>4, EntryStays
    <2>2. CASE ~\E x \in tuples : x.src = t.src /\ EntryOf(x) = EntryOf(t)
        BY <1>2, <2>2
    <2> QED BY <2>1, <2>2
<1>3. ASSUME NEW m \in managers'
      PROVE  ManagerExplained(m.grp, m.tok)'
    <2>1. m \in managers => <<m.grp, m.tok, NoRelation>> \in Maintained
        BY DEF Maintained
    <2> QED BY <1>3, <2>1, ManagerStays DEF AuditInv
<1>4. ASSUME NEW g \in Groups, owner'[g] = Local
      PROVE  GroupExplained(g)'
    <2>1. owner[g] = Local => <<g, Nobody, NoRelation>> \in Maintained
        BY DEF Maintained
    <2> QED BY <1>4, <2>1, GroupStays DEF AuditInv
<1> QED BY <1>1, <1>2, <1>3, <1>4 DEF AuditInv

\* A call that goes on to the history is about to write its change down.
LEMMA AboutToWrite ==
    ASSUME Inv, NEW p \in Procs, Goto(p, "record"),
           NEW g, NEW act, NEW sub, NEW rel,
           ChangeOf(req[p]) = MkChange(g, act, sub, rel)
    PROVE  Written(g, act, sub, rel)'
BY HowItMoves DEF Inv, Written

\* Where nothing is added there is nothing to explain.
NothingAdded ==
    /\ tuples' \subseteq tuples /\ managers' \subseteq managers
    /\ \A g \in Groups : owner'[g] = Local => owner[g] = Local

LEMMA NothingToExplain ==
    ASSUME Inv, AuditInv, Accounted, [Next]_vars, NothingAdded
    PROVE  AuditInv'
BY AuditByParts DEF NothingAdded

LEMMA PutMemberOrigin ==
    ASSUME NEW T, Table(T), NEW e, NEW s, NEW x, NEW t \in PutMember(T, e, s, x)
    PROVE  \/ \E y \in T : y.src = t.src /\ EntryOf(y) = EntryOf(t)
           \/ t = MkTuple(e, s, x)
<1>1. \A y \in RowsOf(T, e) :
          [y EXCEPT !.exp = x].src = y.src
          /\ EntryOf([y EXCEPT !.exp = x]) = EntryOf(y) /\ y \in T
    BY DEF RowsOf, EntryOf, Table, Tuple
<1> QED BY <1>1 DEF PutMember

LEMMA MoveRelationOrigin ==
    ASSUME NEW T, NEW from, NEW to, NEW t \in MoveRelation(T, from, to)
    PROVE  /\ \E y \in T : y.src = t.src
           /\ t \in T \/ (t.obj = to.obj /\ t.rel = to.rel /\ t.sub = to.sub)
<1>1. CASE t \in T
    BY <1>1
<1>2. CASE t \in MovedTo(T, from, to)
    BY <1>2 DEF MovedTo, MkTuple, RowsOf
<1> QED BY <1>1, <1>2, MoveRelationSplit

LEMMA MembersExplained ==
    ASSUME Inv, AuditInv, Accounted, [Next]_vars, NEW p \in Procs,
           AddMember(p) \/ ChangeRelation(p), NEW r, r = req[p]
    PROVE  AuditInv'
<1>1. /\ Table(tuples) /\ r \in Requests \cup {NoRequest}
      /\ NoneNobodys
    BY DEF Inv, StoreOK, LocalOK, AuditInv
<1>2. managers' = managers /\ owner' = owner
    BY DEF AddMember, ChangeRelation
<1>3. CASE AddMember(p)
    <2>1. /\ tuples' = PutMember(tuples, Named(r), Local, r.exp)
          /\ Goto(p, "record") /\ r.op = "AddMember"
        BY <1>3 DEF AddMember, Doing
    <2>2. Written(r.grp, "member_added", r.sub, r.rel)'
        <3>1. ChangeOf(req[p]) = MkChange(r.grp, "member_added", r.sub, r.rel)
            BY <2>1 DEF ChangeOf
        <3> QED BY <2>1, <3>1, AboutToWrite
    <2>3. ASSUME NEW t, t = MkTuple(Named(r), Local, r.exp)
          PROVE  /\ t.obj = r.grp /\ t.sub = r.sub /\ t.rel = r.rel
                 /\ t.src = Local
        BY <2>3 DEF MkTuple, Named, MkEntry
    <2>4. ASSUME NEW t \in tuples'
          PROVE  /\ t.src # NoSource
                 /\ \/ \E x \in tuples : x.src = t.src /\ EntryOf(x) = EntryOf(t)
                    \/ EntryExplained(t.obj, t.sub, t.rel)'
        <3>1. \/ \E x \in tuples : x.src = t.src /\ EntryOf(x) = EntryOf(t)
              \/ t = MkTuple(Named(r), Local, r.exp)
            BY <1>1, <2>1, <2>4, PutMemberOrigin
        <3> QED BY <1>1, <2>2, <2>3, <3>1, EntriesAssumption
                DEF EntryExplained, NoneNobodys
    <2> QED BY <1>2, <2>4, AuditByParts
<1>4. CASE ChangeRelation(p)
    <2> DEFINE from == Named(r)
               to   == MkEntry(r.grp, r.to, r.sub)
    <2>1. CASE tuples' = tuples
        BY <1>2, <2>1, NothingToExplain DEF NothingAdded
    <2>2. CASE tuples' = MoveRelation(tuples, from, to) /\ Goto(p, "record")
        <3>1. Written(r.grp, "relation_changed", r.sub, r.to)'
            <4>1. ChangeOf(req[p]) =
                      MkChange(r.grp, "relation_changed", r.sub, r.to)
                BY <1>4 DEF ChangeRelation, Doing, ChangeOf
            <4> QED BY <2>2, <4>1, AboutToWrite
        <3>2. ASSUME NEW t \in tuples', t \notin tuples
              PROVE  t.src # NoSource /\ EntryExplained(t.obj, t.sub, t.rel)'
            <4>1. /\ \E y \in tuples : y.src = t.src
                  /\ t.obj = r.grp /\ t.rel = r.to /\ t.sub = r.sub
                BY <2>2, <3>2, MoveRelationOrigin DEF MkEntry
            <4> QED BY <1>1, <3>1, <4>1 DEF EntryExplained, NoneNobodys
        <3> QED BY <1>2, <3>2, AuditByParts
    <2> QED BY <1>4, <2>1, <2>2 DEF ChangeRelation
<1> QED BY <1>3, <1>4

LEMMA ManagersExplained ==
    ASSUME Inv, AuditInv, Accounted, [Next]_vars, NEW p \in Procs,
           AddManager(p) \/ AddNextManager(p), NEW r, r = req[p],
           NEW x, x = NextOf(p)
    PROVE  AuditInv'
<1>1. tuples' = tuples /\ owner' = owner
    BY DEF AddManager, AddNextManager
<1>2. CASE AddManager(p)
    <2>1. ManagerExplained(r.grp, r.tok)'
        <3>1. ChangeOf(req[p]) =
                  MkChange(r.grp, "manager_added", r.tok, NoRelation)
            BY <1>2 DEF AddManager, Doing, ChangeOf
        <3>2. Goto(p, "record")
            BY <1>2 DEF AddManager
        <3> QED BY <3>1, <3>2, AboutToWrite DEF ManagerExplained
    <2> QED BY <1>1, <1>2, <2>1, AuditByParts DEF AddManager
<1>3. CASE AddNextManager(p)
    <2>1. ManagerExplained(r.grp, x)'
        BY <1>3, HowItMoves
           DEF AddNextManager, ManagerExplained, NextOf, Inv
    <2> QED BY <1>1, <1>3, <2>1, AuditByParts DEF AddNextManager
<1> QED BY <1>2, <1>3

LEMMA GroupsExplained ==
    ASSUME Inv, AuditInv, Accounted, [Next]_vars, NEW p \in Procs,
           CreateGroup(p) \/ Adopt(p), NEW r, r = req[p]
    PROVE  AuditInv'
<1>1. NoneNobodys /\ managers' = managers
      /\ owner \in [Groups -> Owners \cup {Absent}]
    BY DEF CreateGroup, Adopt, AuditInv, Inv, StoreOK
<1>2. CASE CreateGroup(p)
    <2>1. tuples' = tuples
        BY <1>2 DEF CreateGroup
    <2>2. CASE owner' = owner
        BY <1>1, <2>1, <2>2, NothingToExplain DEF NothingAdded
    <2>3. CASE /\ owner' = [owner EXCEPT ![r.grp] = Local]
               /\ Goto(p, "record")
        <3>1. GroupExplained(r.grp)'
            <4>1. ChangeOf(req[p]) =
                      MkChange(r.grp, "group_created", Nobody, NoRelation)
                BY <1>2 DEF CreateGroup, Doing, ChangeOf
            <4> QED BY <2>3, <4>1, AboutToWrite DEF GroupExplained
        <3>2. \A g \in Groups : g # r.grp => owner'[g] = owner[g]
            BY <1>1, <2>3
        <3> QED BY <1>1, <2>1, <3>1, <3>2, AuditByParts
    <2> QED BY <1>2, <2>2, <2>3 DEF CreateGroup
<1>3. CASE Adopt(p)
    <2> DEFINE moved == {g \in Groups : owner[g] = NoSource}
    <2>1. tuples' \subseteq tuples
        BY <1>1, <1>3 DEF Adopt, MoveRows, NoneNobodys
    <2>2. \A g \in Groups : owner'[g] = Local /\ owner[g] # Local => g \in moved
        BY <1>3 DEF Adopt, Reowned
    <2>3. ASSUME NEW g \in moved
          PROVE  GroupExplained(g)'
        <3>1. Loop(p, "recordAdopted", moved)
            BY <1>3 DEF Adopt
        <3>2. pc'[p] = "recordAdopted" /\ g \in todo'[p]
            BY <3>1, HowItMoves DEF Inv
        <3> QED BY <3>2 DEF GroupExplained
    <2> QED BY <1>1, <2>1, <2>2, <2>3, AuditByParts
<1> QED BY <1>2, <1>3

\* What a sync brings is the source's, and the history is silent about it.
LEMMA SyncedUnexplained ==
    ASSUME Inv, AuditInv, Accounted, [Next]_vars, NEW p \in Procs, Replace(p)
    PROVE  AuditInv'
<1> DEFINE s == req[p].src
<1>1. /\ s \in Sources /\ req[p].file \in SUBSET Entry
      /\ owner \in [Groups -> Owners \cup {Absent}]
      /\ s # Local /\ s # NoSource /\ s \in Owners
    <2>1. req[p] \in Requests \cup {NoRequest} /\ req[p].op = "RunSync"
        BY DEF Inv, LocalOK, Fits, Replace
    <2> QED BY <2>1, RequestShape, EntriesAssumption DEF Inv, StoreOK, Owners
<1>2. \A t \in tuples' : t \in tuples \/ t.src = s
    BY <1>1, ReplaceRowsOrigin DEF Replace
<1>3. \A g \in Groups : owner'[g] = Local => owner[g] = Local
    BY <1>1, ReplaceOwnersCases, GroupStoreAssumption DEF Replace, Owners
<1>4. managers' = managers
    BY DEF Replace
<1> QED BY <1>1, <1>2, <1>3, <1>4, AuditByParts

LEMMA AuditStep ==
    ASSUME Inv, AuditInv, Accounted, [Next]_vars
    PROVE  AuditInv'
<1> USE GroupStoreAssumption, EntriesAssumption
<1>1. ASSUME NEW p \in Procs, Check(p)
      PROVE  NothingAdded
    BY <1>1 DEF Check, GetGroup, ListManagers, CheckNoCycle,
                CheckNotReserved, CheckManagerToken, Reads, store, NothingAdded
<1>2. ASSUME NEW p \in Procs,
             RemoveMember(p) \/ RemoveManager(p) \/ Record(p)
             \/ RecordNextManager(p) \/ CreateSource(p) \/ UpdateSource(p)
             \/ CheckReservation(p) \/ RecordAdopted(p)
      PROVE  NothingAdded
    BY <1>2 DEF RemoveMember, DropMember, RemoveManager, Record,
                RecordNextManager, CreateSource, UpdateSource,
                CheckReservation, RecordAdopted, Reads, store, NothingAdded
<1>3. ASSUME NEW p \in Procs, DeleteGroup(p)
      PROVE  NothingAdded
    BY <1>3 DEF DeleteGroup, DropGroupTuples, DropGroupManagers,
                NothingAdded, Inv, StoreOK, Owners
<1>4. ASSUME NEW p \in Procs, DeleteSource(p)
      PROVE  NothingAdded
    BY <1>4 DEF DeleteSource, Reowned, NothingAdded
<1>5. ASSUME NEW p \in Procs, GetSource(p) \/ CheckOwners(p) \/ CheckSyncReserved(p)
      PROVE  NothingAdded
    BY <1>5 DEF GetSource, CheckOwners, CheckSyncReserved, Reads, store,
                NothingAdded
<1>6. CASE \E p \in Procs : Step(p)
    BY <1>1, <1>2, <1>3, <1>4, <1>5, <1>6, NothingToExplain,
       MembersExplained, ManagersExplained, GroupsExplained, SyncedUnexplained
       DEF Step, Maintain, Sync, Administer
<1>7. CASE \E p \in Procs, r \in Requests : Begin(p, r)
    BY <1>7, NothingToExplain DEF Begin, Reads, store, NothingAdded
<1>8. CASE Tick \/ UNCHANGED vars
    BY <1>8, NothingToExplain DEF Tick, vars, store, NothingAdded
<1> QED BY <1>6, <1>7, <1>8 DEF Next, Fail, Accounted

\* When the changes that add something are kept and calls run to their end,
\* the history has, for every hand-made entry, every manager and every group
\* of the local source, a change that made it, written since it was last
\* missing, however many calls run at once and in whatever order they change
\* something and write it down (service.go:300-340, 448-535; AddChange comes
\* after the write, in a transaction of its own).
THEOREM AuditCompleteAlways ==
    ASSUME Accounted
    PROVE  Spec => []AuditComplete
<1>1. Init => AuditInv
    BY GroupStoreAssumption
       DEF Init, AuditInv, NoneNobodys, Owners
<1>2. Inv /\ AuditInv /\ [Next]_vars => AuditInv'
    BY AuditStep
<1> QED BY <1>1, <1>2, InvAlways, AuditInvExplains, PTL DEF Spec
=============================================================================
