-------------------------- MODULE SequentialProofs --------------------------
(***************************************************************************)
(* What holds when one call is made after the other: no orphans, no        *)
(* circles, no name taken from the source that reserves it, no source gone *)
(* that something still belongs to.  The service checks before it writes   *)
(* and holds no lock in between, so these are theorems about one process;  *)
(* calls cut short, and the clock going on between a check and its write,  *)
(* are included.                                                           *)
(***************************************************************************)
EXTENDS RoleProviderProofs, TwoStores

\* One call at a time.
OneAtATime == \A p, q \in Procs : p = q

-----------------------------------------------------------------------------
(* Reachability.                                                           *)

LEMMA BelowLeast ==
    ASSUME NEW E, NEW g, NEW S \in SUBSET Groups, Children(E, S \cup {g}) \subseteq S
    PROVE  Below(E, g) \subseteq S
BY DEF Below

LEMMA BelowClosed ==
    ASSUME NEW E \in SUBSET (Groups \X Groups), NEW g
    PROVE  Children(E, Below(E, g) \cup {g}) \subseteq Below(E, g)
<1> SUFFICES ASSUME NEW e \in E, e[1] \in Below(E, g) \cup {g},
                    NEW S \in SUBSET Groups, Children(E, S \cup {g}) \subseteq S
             PROVE  e[2] \in Groups /\ e[2] \in S
    BY DEF Below, Children
<1>1. e[1] \in S \cup {g}
    BY DEF Below
<1> QED BY <1>1 DEF Children

LEMMA BelowGrows ==
    ASSUME NEW E, NEW F, E \subseteq F, NEW g
    PROVE  Below(E, g) \subseteq Below(F, g)
<1>1. \A S : Children(E, S) \subseteq Children(F, S)
    BY DEF Children
<1> QED BY <1>1 DEF Below

LEMMA BelowOnward ==
    ASSUME NEW E \in SUBSET (Groups \X Groups), NEW g, NEW h \in Below(E, g)
    PROVE  Below(E, h) \subseteq Below(E, g)
<1>1. Below(E, g) \in SUBSET Groups
    BY DEF Below
<1>2. Children(E, Below(E, g) \cup {h}) \subseteq Children(E, Below(E, g) \cup {g})
    BY DEF Children
<1> QED BY <1>1, <1>2, BelowClosed, BelowLeast

LEMMA FewerEdges ==
    ASSUME NEW E, NEW F, E \subseteq F, Acyclic(F)
    PROVE  Acyclic(E)
BY BelowGrows DEF Acyclic

\* checkNoCycle (service.go:463-491) asks the right question: an edge closes
\* a circle only if its group is its child or is found below it.
LEMMA NoCycleClosed ==
    ASSUME NEW E \in SUBSET (Groups \X Groups), Acyclic(E),
           NEW g \in Groups, NEW child \in Groups, ~Cyclic(E, g, child)
    PROVE  Acyclic(E \cup {<<g, child>>})
<1> DEFINE F == E \cup {<<g, child>>}
           Tail(x) == IF x = g \/ g \in Below(E, x)
                      THEN {child} \cup Below(E, child) ELSE {}
           Reach(x) == Below(E, x) \cup Tail(x)
<1>1. ASSUME NEW x \in Groups
      PROVE  Below(F, x) \subseteq Reach(x)
    <2>1. Reach(x) \in SUBSET Groups
        BY DEF Below
    <2>2. ASSUME NEW e \in F, e[1] \in Reach(x) \cup {x}
          PROVE  e[2] \in Reach(x)
        <3>1. CASE e = <<g, child>>
            <4>1. g = x \/ g \in Below(E, x)
                BY <2>2, <3>1 DEF Cyclic
            <4> QED BY <3>1, <4>1
        <3>2. CASE e \in E /\ e[1] \in Below(E, x) \cup {x}
            BY <3>2, BelowClosed DEF Children
        <3>3. CASE e \in E /\ e[1] \in Tail(x)
            <4>1. e[2] \in Below(E, child)
                BY <3>3, BelowClosed DEF Children
            <4> QED BY <3>3, <4>1
        <3> QED BY <2>2, <3>1, <3>2, <3>3
    <2>3. Children(F, Reach(x) \cup {x}) \subseteq Reach(x)
        BY <2>2 DEF Children
    <2> QED BY <2>1, <2>3, BelowLeast
<1>2. ASSUME NEW x \in Groups, x \in Reach(x)
      PROVE  FALSE
    <2>1. /\ x = g \/ g \in Below(E, x)
          /\ x = child \/ x \in Below(E, child)
        BY <1>2 DEF Acyclic
    <2>2. g = child \/ g \in Below(E, child)
        BY <2>1, BelowOnward
    <2> QED BY <2>2 DEF Cyclic
<1> QED BY <1>1, <1>2 DEF Acyclic

\* The rows a circle of the groups maintained here would consist of.
LocalRows(T, time) == {t \in LiveOf(T, time) : t.src = Local}

LEMMA EdgesTyped ==
    ASSUME NEW T \in SUBSET Tuple
    PROVE  GroupEdges(T) \in SUBSET (Groups \X Groups)
<1>1. \A t \in T : t.sub.type = "group" => t.sub.id \in Groups
    BY DEF Tuple, Subjects, UserSubjects, PatternSubjects, GroupSubjects,
           UserSubject, PatternSubject, GroupSubject
<1> QED BY <1>1 DEF GroupEdges, Tuple

LEMMA EdgesOfRows ==
    ASSUME NEW T, NEW S,
           \A t \in T : \E x \in S : x.obj = t.obj /\ x.sub = t.sub
    PROVE  GroupEdges(T) \subseteq GroupEdges(S)
<1>1. ASSUME NEW t \in T, t.sub.type = "group"
      PROVE  <<t.obj, t.sub.id>> \in GroupEdges(S)
    BY <1>1 DEF GroupEdges
<1> QED BY <1>1 DEF GroupEdges

LEMMA StillAcyclic ==
    ASSUME LocalAcyclic,
           \A t \in LocalRows(tuples', now') :
               \E x \in LocalRows(tuples, now) : x.obj = t.obj /\ x.sub = t.sub
    PROVE  LocalAcyclic'
<1>1. /\ LocalAcyclic = Acyclic(GroupEdges(LocalRows(tuples, now)))
      /\ LocalAcyclic' = Acyclic(GroupEdges(LocalRows(tuples', now')))
    BY DEF LocalAcyclic, LocalRows
<1> QED BY <1>1, EdgesOfRows, FewerEdges

-----------------------------------------------------------------------------
(* What the store is between two steps.                                    *)

\* OneWriter, NoOrphans and SourcesExist at once: the group of an entry
\* exists and belongs to the entry's source.
RowsOwned == \A t \in tuples : t.src = owner[t.obj] /\ t.src # NoSource

Exists(x) == x.type = "group" => owner[x.id] # Absent

ManagersHome == \A m \in managers : owner[m.grp] # Absent /\ Exists(m.tok)

OwnersPresent ==
    \A g \in Groups : owner[g] \in Sources => source[owner[g]] = "present"

StoreRight ==
    /\ RowsOwned /\ ManagersHome /\ OwnersPresent /\ ExpiryOnlyLocal
    /\ ReservationRespected /\ LocalAcyclic

LEMMA StoreRightMeans ==
    ASSUME StoreOK, StoreRight
    PROVE  NoOrphans /\ SourcesExist /\ OneWriter
<1>1. \A t \in tuples : /\ t \in Tuple /\ t.obj \in Groups
                        /\ t.src \in Owners /\ t.src = owner[t.obj]
                        /\ t.src # NoSource
    BY DEF StoreOK, Table, Tuple, StoreRight, RowsOwned
<1>2. Absent \notin Owners
    BY GroupStoreAssumption
<1> QED BY <1>1, <1>2
        DEF StoreRight, ManagersHome, Exists, OwnersPresent, NoOrphans,
            SourcesExist, OneWriter

(* And what a call has made sure of when it is at a label.                 *)

\* The tokens that are to become managers.
Claimed(r) ==
    IF r.op = "CreateGroup" THEN r.toks
    ELSE IF r.op = "AddManager" THEN {r.tok} ELSE {}

GroupChecked(label, r) ==
    /\ label \in {"listManagers", "groupEdges", "checkToken", "write"}
       /\ r.op # "CreateGroup" => owner[r.grp] = Local
    /\ label \in {"record", "addManager", "recordManager"}
       /\ r.op = "CreateGroup" => owner[r.grp] = Local
    /\ label \in {"checkToken", "write"} /\ r.op = "CreateGroup" =>
           ~ReservedFromOthers(r.grp, Local)

CircleChecked(label, r) ==
    label = "write" /\ r.op = "AddMember" /\ r.sub.type = "group" =>
        ~Cyclic(GroupEdges(LiveOf(tuples, now)), r.grp, r.sub.id)

TokensChecked(label, r, S) ==
    /\ label = "checkToken" => \A x \in Claimed(r) \ S : Exists(x)
    /\ label \in {"write", "record"} => \A x \in Claimed(r) : Exists(x)
    /\ label \in {"addManager", "recordManager"} => \A x \in S : Exists(x)

SourceChecked(label, r) ==
    /\ label \in {"groupOwners", "syncReserved", "replace"} =>
           source[r.src] = "present"
    /\ label \in {"syncReserved", "replace"} =>
           \A g \in GroupsOf(r.file) : owner[g] \in {Absent, r.src}
    /\ label = "replace" =>
           \A g \in GroupsOf(r.file) : ~ReservedFromOthers(g, r.src)
    /\ label = "storeSource" => ~Taken(r.names, r.src)

CallRight(label, r, S) ==
    /\ GroupChecked(label, r) /\ CircleChecked(label, r)
    /\ TokensChecked(label, r, S) /\ SourceChecked(label, r)

CallsRight == \A p \in Procs : CallRight(pc[p], req[p], todo[p])

SeqInv == StoreRight /\ CallsRight

\* The call's own view of a step: only it moves.
LEMMA OneMoves ==
    ASSUME OneAtATime, LocalOK, NEW p \in Procs
    PROVE  /\ \A label : Goto(p, label) =>
                  pc'[p] = label /\ req'[p] = req[p] /\ todo'[p] = todo[p]
           /\ \A label, S : Loop(p, label, S) =>
                  pc'[p] = label /\ req'[p] = req[p] /\ todo'[p] = S
           /\ Return(p) => pc'[p] = "idle"
BY DEF LocalOK, Goto, Loop, Return

LEMMA CallsByOne ==
    ASSUME OneAtATime, NEW p \in Procs,
           CallRight(pc[p], req[p], todo[p])'
    PROVE  CallsRight'
BY DEF OneAtATime, CallsRight

LEMMA IdleRight ==
    ASSUME OneAtATime, LocalOK, NEW p \in Procs, Return(p)
    PROVE  CallsRight'
<1>1. pc'[p] = "idle"
    BY OneMoves
<1>2. CallRight(pc[p], req[p], todo[p])'
    BY <1>1 DEF CallRight, GroupChecked, CircleChecked, TokensChecked,
                SourceChecked
<1> QED BY <1>2, CallsByOne

\* What the steps that write nothing keep.
LEMMA ReadsKeepRight ==
    ASSUME StoreRight, Reads
    PROVE  StoreRight'
BY DEF StoreRight, Reads, store, RowsOwned, ManagersHome, Exists,
       OwnersPresent, ExpiryOnlyLocal, ReservationRespected, LocalAcyclic

-----------------------------------------------------------------------------
(* Checks.                                                                 *)

LEMMA BeginRight ==
    ASSUME OneAtATime, Inv, SeqInv, NEW p \in Procs, NEW r \in Requests, Begin(p, r)
    PROVE  SeqInv'
<1>1. pc'[p] = FirstStep(r) /\ Reads
    BY DEF Begin, Inv, LocalOK
<1>2. FirstStep(r) \in {"listSources", "listGroups", "getSource", "getGroup"}
    BY DEF FirstStep
<1>3. CallRight(pc[p], req[p], todo[p])'
    BY <1>1, <1>2 DEF CallRight, GroupChecked, CircleChecked, TokensChecked,
                      SourceChecked
<1> QED BY <1>1, <1>3, CallsByOne, ReadsKeepRight DEF SeqInv

\* Past GetGroup, and ListManagers for who is no admin, the group is local.
LEMMA CheckedRight ==
    ASSUME OneAtATime, Inv, SeqInv, NEW p \in Procs,
           pc[p] \in {"getGroup", "listManagers"},
           owner[req[p].grp] = Local, Checked(p), Reads
    PROVE  CallsRight'
<1> DEFINE r == req[p]
<1>0. LocalOK /\ owner' = owner
    BY DEF Inv, Reads, store
<1>1. r.op \in PersonOps \ {"CreateGroup"}
    BY DEF Inv, LocalOK, Fits
<1>2. CASE r.op = "AddMember" /\ r.sub.type = "group"
    <2>1. Goto(p, "groupEdges")
        BY <1>2 DEF Checked
    <2>2. pc'[p] = "groupEdges" /\ req'[p] = r
        BY <1>0, <2>1, OneMoves
    <2>3. CallRight(pc[p], req[p], todo[p])'
        BY <1>0, <1>2, <2>2 DEF CallRight, GroupChecked, CircleChecked,
               TokensChecked, SourceChecked
    <2> QED BY <2>3, CallsByOne
<1>3. CASE r.op = "AddManager" /\ r.tok.type = "group"
    <2>1. Loop(p, "checkToken", {r.tok})
        BY <1>3 DEF Checked
    <2>2. pc'[p] = "checkToken" /\ req'[p] = r /\ todo'[p] = {r.tok}
        BY <1>0, <2>1, OneMoves
    <2>3. CallRight(pc[p], req[p], todo[p])'
        BY <1>0, <1>3, <2>2 DEF CallRight, GroupChecked, CircleChecked,
               TokensChecked, SourceChecked, Claimed
    <2> QED BY <2>3, CallsByOne
<1>4. CASE r.op = "DeleteGroup" /\ ~Admin(r, toks[p])
    <2>1. Return(p)
        BY <1>4 DEF Checked
    <2> QED BY <1>0, <2>1, IdleRight
<1>5. CASE /\ ~(r.op = "AddMember" /\ r.sub.type = "group")
           /\ ~(r.op = "AddManager" /\ r.tok.type = "group")
           /\ ~(r.op = "DeleteGroup" /\ ~Admin(r, toks[p]))
    <2>1. Goto(p, "write")
        BY <1>5 DEF Checked
    <2>2. pc'[p] = "write" /\ req'[p] = r
        BY <1>0, <2>1, OneMoves
    <2>3. \A x \in Claimed(r) : x.type # "group"
        BY <1>1, <1>5 DEF Claimed
    <2>4. CallRight(pc[p], req[p], todo[p])'
        BY <1>0, <1>1, <1>5, <2>2, <2>3 DEF CallRight, GroupChecked,
               CircleChecked, TokensChecked, SourceChecked, Exists, PersonOps
    <2> QED BY <2>4, CallsByOne
<1> QED BY <1>2, <1>3, <1>4, <1>5

LEMMA CheckRight ==
    ASSUME OneAtATime, Inv, SeqInv, NEW p \in Procs, Check(p)
    PROVE  SeqInv'
<1> DEFINE r == req[p]
<1>1. r \in Requests \cup {NoRequest} /\ Fits(pc[p], r, todo[p]) /\ LocalOK
    BY DEF Inv, LocalOK
<1>2. Reads
    BY DEF Check, GetGroup, ListManagers, CheckNoCycle, CheckNotReserved,
           CheckManagerToken
<1>3. /\ owner' = owner /\ tuples' = tuples /\ source' = source
      /\ reserved' = reserved /\ now' = now
    BY <1>2 DEF Reads, store
<1>4. CallRight(pc[p], r, todo[p])
    BY DEF SeqInv, CallsRight
<1>5. CASE Return(p)
    BY <1>1, <1>2, <1>5, IdleRight, ReadsKeepRight DEF SeqInv
<1>6. CASE GetGroup(p) /\ ~Return(p)
    <2>1. owner[r.grp] = Local
        BY <1>6 DEF GetGroup
    <2>2. CASE Checked(p)
        BY <1>2, <1>6, <2>1, <2>2, CheckedRight, ReadsKeepRight
           DEF GetGroup, SeqInv
    <2>3. CASE Goto(p, "listManagers")
        <3>1. pc'[p] = "listManagers" /\ req'[p] = r
            BY <1>1, <2>3, OneMoves
        <3>2. CallRight(pc[p], req[p], todo[p])'
            BY <1>3, <2>1, <3>1 DEF CallRight, GroupChecked, CircleChecked,
                   TokensChecked, SourceChecked
        <3> QED BY <1>2, <3>2, CallsByOne, ReadsKeepRight DEF SeqInv
    <2> QED BY <1>6, <2>2, <2>3 DEF GetGroup
<1>7. CASE ListManagers(p) /\ ~Return(p)
    <2>1. pc[p] = "listManagers" /\ Checked(p)
        BY <1>7 DEF ListManagers
    <2>2. owner[r.grp] = Local
        BY <1>1, <1>4, <2>1 DEF CallRight, GroupChecked, Fits
    <2> QED BY <1>2, <2>1, <2>2, CheckedRight, ReadsKeepRight DEF SeqInv
<1>8. CASE CheckNoCycle(p) /\ ~Return(p)
    <2>1. /\ pc[p] = "groupEdges" /\ Goto(p, "write")
          /\ ~Cyclic(GroupEdges(LiveOf(tuples, now)), r.grp, r.sub.id)
        BY <1>8 DEF CheckNoCycle
    <2>2. pc'[p] = "write" /\ req'[p] = r
        BY <1>1, <2>1, OneMoves
    <2>3. r.op = "AddMember"
        BY <1>1, <2>1 DEF Fits
    <2>4. CallRight(pc[p], req[p], todo[p])'
        BY <1>3, <1>4, <2>1, <2>2, <2>3 DEF CallRight, GroupChecked,
               CircleChecked, TokensChecked, SourceChecked, Claimed
    <2> QED BY <1>2, <2>4, CallsByOne, ReadsKeepRight DEF SeqInv
<1>9. CASE CheckNotReserved(p) /\ ~Return(p)
    <2>1. /\ pc[p] = "listSources" /\ ~ReservedFromOthers(r.grp, Local)
          /\ \/ r.toks = {} /\ Goto(p, "write")
             \/ r.toks # {} /\ Loop(p, "checkToken", r.toks)
        BY <1>9 DEF CheckNotReserved
    <2>2. r.op = "CreateGroup"
        BY <1>1, <2>1 DEF Fits
    <2>3. /\ req'[p] = r
          /\ \/ r.toks = {} /\ pc'[p] = "write"
             \/ pc'[p] = "checkToken" /\ todo'[p] = r.toks
        BY <1>1, <2>1, OneMoves
    <2>4. ~ReservedFromOthers(r.grp, Local)'
        BY <1>3, <2>1, <2>3 DEF ReservedFromOthers
    <2>5. CallRight(pc[p], req[p], todo[p])'
        BY <2>2, <2>3, <2>4 DEF CallRight, GroupChecked, CircleChecked,
               TokensChecked, SourceChecked, Claimed
    <2> QED BY <1>2, <2>5, CallsByOne, ReadsKeepRight DEF SeqInv
<1>10. CASE CheckManagerToken(p) /\ ~Return(p)
    <2> DEFINE x == NextOf(p)
    <2>1. /\ pc[p] = "checkToken" /\ Exists(x)
          /\ \/ todo[p] = {x} /\ Loop(p, "write", {})
             \/ Loop(p, "checkToken", todo[p] \ {x})
        BY <1>10 DEF CheckManagerToken, Exists
    <2>2. /\ req'[p] = r
          /\ \/ todo[p] = {x} /\ pc'[p] = "write"
             \/ pc'[p] = "checkToken" /\ todo'[p] = todo[p] \ {x}
        BY <1>1, <2>1, OneMoves
    <2>3. r.op \in {"CreateGroup", "AddManager"}
        BY <1>1, <2>1 DEF Fits
    <2>4. \A y \in Claimed(r) : y = x \/ y \in todo[p] \/ Exists(y)
        BY <1>4, <2>1 DEF CallRight, TokensChecked
    <2>5. \A y : Exists(y) => Exists(y)'
        BY <1>3 DEF Exists
    <2>6. GroupChecked(pc[p], req[p])'
        BY <1>3, <1>4, <2>1, <2>2
           DEF CallRight, GroupChecked, ReservedFromOthers
    <2>7. TokensChecked(pc[p], req[p], todo[p])'
        BY <2>1, <2>2, <2>4, <2>5 DEF TokensChecked, Claimed
    <2>8. CallRight(pc[p], req[p], todo[p])'
        BY <2>2, <2>3, <2>6, <2>7 DEF CallRight, CircleChecked, SourceChecked
    <2> QED BY <1>2, <2>8, CallsByOne, ReadsKeepRight DEF SeqInv
<1> QED BY <1>5, <1>6, <1>7, <1>8, <1>9, <1>10 DEF Check

-----------------------------------------------------------------------------
(* Members.                                                                *)

LEMMA LocalRowsOf ==
    ASSUME NEW T, NEW time
    PROVE  \A t : t \in LocalRows(T, time) <=>
                      t \in T /\ Live(t, time) /\ t.src = Local
BY DEF LocalRows, LiveOf

\* Where only the tuples change, and the rows stay owned, a circle is all
\* that could come up.
LEMMA RightByRows ==
    ASSUME StoreRight, UNCHANGED <<owner, managers, source, reserved>>,
           RowsOwned', ExpiryOnlyLocal', LocalAcyclic'
    PROVE  StoreRight'
BY DEF StoreRight, ManagersHome, Exists, OwnersPresent, ReservationRespected

\* What PutMember makes of the rows of the entry.
LEMMA PutMemberRows ==
    ASSUME NEW T, Table(T), NEW e \in Entry, NEW x \in Expiries,
           NEW t \in PutMember(T, e, Local, x)
    PROVE  \/ t \in T
           \/ /\ t.obj = e.obj /\ t.sub = e.sub
              /\ \/ t.src = Local
                 \/ \E y \in T : y.obj = t.obj /\ y.src = t.src
<1>1. \A y \in RowsOf(T, e) :
          /\ [y EXCEPT !.exp = x].obj = e.obj
          /\ [y EXCEPT !.exp = x].sub = e.sub
          /\ [y EXCEPT !.exp = x].src = y.src
          /\ y \in T /\ y.obj = e.obj
    BY DEF RowsOf, EntryOf, Table, Tuple
<1>2. /\ MkTuple(e, Local, x).obj = e.obj /\ MkTuple(e, Local, x).sub = e.sub
      /\ MkTuple(e, Local, x).src = Local
    BY DEF MkTuple
<1> QED BY <1>1, <1>2 DEF PutMember

LEMMA AddMemberRight ==
    ASSUME Inv, SeqInv, NEW p \in Procs, AddMember(p)
    PROVE  StoreRight'
<1> DEFINE r == req[p]
           e == Named(r)
           E == GroupEdges(LocalRows(tuples, now))
<1>1. /\ r \in Requests \cup {NoRequest} /\ Table(tuples)
      /\ pc[p] = "write" /\ r.op = "AddMember"
    BY DEF Inv, LocalOK, StoreOK, AddMember, Doing
<1>2. /\ e \in Entry /\ e.obj = r.grp /\ e.sub = r.sub
      /\ r.exp \in Expiries /\ r.grp \in Groups /\ r.sub \in Subjects
    BY <1>1, NamedTyped, RequestShape DEF PersonOps
<1>3. /\ owner[r.grp] = Local /\ CircleChecked(pc[p], r)
    BY <1>1 DEF SeqInv, CallsRight, CallRight, GroupChecked
<1>4. /\ tuples' = PutMember(tuples, e, Local, r.exp)
      /\ UNCHANGED <<owner, managers, source, reserved, now>>
    BY DEF AddMember
<1>5. RowsOwned /\ ExpiryOnlyLocal /\ LocalAcyclic /\ StoreRight
    BY DEF SeqInv, StoreRight
<1>6. ASSUME NEW t \in tuples'
      PROVE  t \in tuples \/ (t.obj = r.grp /\ t.sub = r.sub /\ t.src = Local)
    <2>1. \/ t \in tuples
          \/ /\ t.obj = r.grp /\ t.sub = r.sub
             /\ \/ t.src = Local
                \/ \E y \in tuples : y.obj = t.obj /\ y.src = t.src
        BY <1>1, <1>2, <1>4, PutMemberRows
    <2> QED BY <1>3, <1>5, <2>1 DEF RowsOwned
<1>7. RowsOwned' /\ ExpiryOnlyLocal'
    BY <1>3, <1>4, <1>5, <1>6, EntriesAssumption
       DEF RowsOwned, ExpiryOnlyLocal
<1>8. LocalAcyclic'
    <2>1. CASE r.sub.type # "group"
        <3>1. \A t \in LocalRows(tuples', now') : t.sub.type = "group" =>
                  t \in LocalRows(tuples, now)
            BY <1>4, <1>6, <2>1, LocalRowsOf
        <3>2. GroupEdges(LocalRows(tuples', now')) \subseteq E
            BY <3>1 DEF GroupEdges
        <3> QED BY <1>5, <3>2, FewerEdges DEF LocalAcyclic, LocalRows
    <2>2. CASE r.sub.type = "group"
        <3>1. E \in SUBSET (Groups \X Groups) /\ r.sub.id \in Groups
            <4>1. LocalRows(tuples, now) \in SUBSET Tuple
                BY <1>1, LocalRowsOf DEF Table
            <4>2. r.sub.id \in Groups
                BY <1>2, <2>2 DEF Subjects, UserSubjects, PatternSubjects,
                   GroupSubjects, UserSubject, PatternSubject, GroupSubject
            <4> QED BY <4>1, <4>2, EdgesTyped
        <3>2. ~Cyclic(E, r.grp, r.sub.id)
            <4>1. E \subseteq GroupEdges(LiveOf(tuples, now))
                BY DEF GroupEdges, LocalRows
            <4> QED BY <1>1, <1>3, <2>2, <4>1, BelowGrows
                    DEF CircleChecked, Cyclic
        <3>3. Acyclic(E)
            BY <1>5 DEF LocalAcyclic, LocalRows
        <3>4. Acyclic(E \cup {<<r.grp, r.sub.id>>})
            BY <1>2, <3>1, <3>2, <3>3, NoCycleClosed
        <3>5. ASSUME NEW t \in LocalRows(tuples', now'), t.sub.type = "group"
              PROVE  <<t.obj, t.sub.id>> \in E \cup {<<r.grp, r.sub.id>>}
            <4>1. \/ t \in LocalRows(tuples, now)
                  \/ t.obj = r.grp /\ t.sub = r.sub
                BY <1>4, <1>6, LocalRowsOf
            <4> QED BY <3>5, <4>1 DEF GroupEdges
        <3>6. GroupEdges(LocalRows(tuples', now'))
                  \subseteq E \cup {<<r.grp, r.sub.id>>}
            BY <3>5 DEF GroupEdges
        <3> QED BY <3>4, <3>6, FewerEdges DEF LocalAcyclic, LocalRows
    <2> QED BY <2>1, <2>2
<1> QED BY <1>4, <1>5, <1>7, <1>8, RightByRows

\* Taking rows away opens no circle.
LEMMA FewerRowsAcyclic ==
    ASSUME LocalAcyclic, now' = now,
           \A t \in tuples' : t.src = Local => t \in tuples
    PROVE  LocalAcyclic'
BY StillAcyclic, LocalRowsOf

LEMMA RemoveMemberRight ==
    ASSUME SeqInv, NEW p \in Procs, RemoveMember(p)
    PROVE  StoreRight'
<1>1. /\ tuples' \subseteq tuples
      /\ UNCHANGED <<owner, managers, source, reserved, now>>
    BY DEF RemoveMember, DropMember
<1>2. RowsOwned' /\ ExpiryOnlyLocal'
    BY <1>1 DEF SeqInv, StoreRight, RowsOwned, ExpiryOnlyLocal
<1>3. LocalAcyclic'
    BY <1>1, FewerRowsAcyclic DEF SeqInv, StoreRight
<1> QED BY <1>1, <1>2, <1>3, RightByRows DEF SeqInv

\* The row an entry's change of relation leads to: where it came from, and
\* it is live only if one it came from was.
LEMMA MoveRelationRows ==
    ASSUME NEW T, Table(T), NEW from \in Entry, NEW to \in Entry,
           from.obj = to.obj, from.sub = to.sub,
           NEW t \in MoveRelation(T, from, to)
    PROVE  \/ t \in T
           \/ /\ t.obj = to.obj /\ t.sub = to.sub
              /\ \E y \in T : y.obj = t.obj /\ y.src = t.src
              /\ \A time \in Nat : Live(t, time) =>
                     \E y \in T : y.obj = t.obj /\ y.sub = t.sub /\ Live(y, time)
<1>1. CASE t \in T
    BY <1>1
<1>2. ASSUME NEW e \in {from, to}, NEW y \in RowsOf(T, e)
      PROVE  /\ y \in T /\ y.obj = to.obj /\ y.sub = to.sub
             /\ y \in Tuple /\ y.exp \in Expiries
    BY <1>2 DEF RowsOf, EntryOf, Table, Tuple
<1>3. CASE t \in MovedTo(T, from, to) /\ RowsOf(T, to) = {}
    <2>1. PICK y \in RowsOf(T, from) : t = MkTuple(to, y.src, y.exp)
        BY <1>3 DEF MovedTo
    <2>2. t.obj = to.obj /\ t.sub = to.sub /\ t.src = y.src /\ t.exp = y.exp
        BY <2>1 DEF MkTuple
    <2> QED BY <1>2, <2>2 DEF Live
<1>4. CASE t \in MovedTo(T, from, to) /\ RowsOf(T, to) # {}
    <2>1. PICK y1 \in RowsOf(T, to), y2 \in RowsOf(T, from) :
              t = MkTuple(to, y1.src, LaterExpiry(y1.exp, y2.exp))
        BY <1>4 DEF MovedTo
    <2>2. /\ t.obj = to.obj /\ t.sub = to.sub /\ t.src = y1.src
          /\ t.exp \in {y1.exp, y2.exp}
        <3>1. t.exp = LaterExpiry(y1.exp, y2.exp)
            BY <2>1 DEF MkTuple
        <3>2. LaterExpiry(y1.exp, y2.exp) \in {y1.exp, y2.exp}
            BY DEF LaterExpiry
        <3> QED BY <2>1, <3>1, <3>2 DEF MkTuple
    <2> QED BY <1>2, <2>2 DEF Live
<1> QED BY <1>1, <1>3, <1>4, MoveRelationSplit

LEMMA ChangeRelationRight ==
    ASSUME Inv, SeqInv, NEW p \in Procs, ChangeRelation(p)
    PROVE  StoreRight'
<1> DEFINE r    == req[p]
           from == Named(r)
           to   == MkEntry(r.grp, r.to, r.sub)
<1>1. /\ r \in Requests \cup {NoRequest} /\ Table(tuples)
      /\ pc[p] = "write" /\ r.op = "ChangeRelation" /\ now \in Nat
    BY DEF Inv, LocalOK, StoreOK, ChangeRelation, Doing
<1>2. /\ from \in Entry /\ to \in Entry
      /\ from.obj = r.grp /\ to.obj = r.grp /\ from.sub = to.sub
    BY <1>1, NamedTyped, RequestShape DEF MkEntry, Entry, PersonOps, Named
<1>3. owner[r.grp] = Local
    BY <1>1 DEF SeqInv, CallsRight, CallRight, GroupChecked
<1>4. /\ tuples' = tuples \/ tuples' = MoveRelation(tuples, from, to)
      /\ UNCHANGED <<owner, managers, source, reserved, now>>
    BY DEF ChangeRelation
<1>5. RowsOwned /\ ExpiryOnlyLocal /\ LocalAcyclic /\ StoreRight
    BY DEF SeqInv, StoreRight
<1>6. ASSUME NEW t \in tuples'
      PROVE  \/ t \in tuples
             \/ /\ t.obj = r.grp /\ t.src = Local
                /\ Live(t, now) =>
                       \E y \in tuples : /\ y.obj = t.obj /\ y.sub = t.sub
                                         /\ Live(y, now) /\ y.src = Local
    <2>1. \/ t \in tuples
          \/ /\ t.obj = r.grp
             /\ \E y \in tuples : y.obj = t.obj /\ y.src = t.src
             /\ Live(t, now) =>
                    \E y \in tuples : y.obj = t.obj /\ y.sub = t.sub /\ Live(y, now)
        BY <1>1, <1>2, <1>4, MoveRelationRows
    <2> QED BY <1>3, <1>5, <2>1 DEF RowsOwned
<1>7. RowsOwned' /\ ExpiryOnlyLocal'
    BY <1>3, <1>4, <1>5, <1>6, EntriesAssumption
       DEF RowsOwned, ExpiryOnlyLocal
<1>8. LocalAcyclic'
    BY <1>4, <1>5, <1>6, StillAcyclic, LocalRowsOf
<1> QED BY <1>4, <1>5, <1>7, <1>8, RightByRows

-----------------------------------------------------------------------------
(* Groups and managers.                                                    *)

LEMMA CreateGroupRight ==
    ASSUME Inv, SeqInv, NEW p \in Procs, CreateGroup(p)
    PROVE  StoreRight'
<1> DEFINE g == req[p].grp
<1>1. /\ req[p] \in Requests \cup {NoRequest} /\ Table(tuples)
      /\ pc[p] = "write" /\ req[p].op = "CreateGroup"
      /\ owner \in [Groups -> Owners \cup {Absent}]
    BY DEF Inv, LocalOK, StoreOK, CreateGroup, Doing
<1>2. ~ReservedFromOthers(g, Local)
    BY <1>1 DEF SeqInv, CallsRight, CallRight, GroupChecked
<1>3. /\ UNCHANGED <<tuples, managers, source, reserved, now>>
      /\ \/ owner' = owner
         \/ owner[g] = Absent /\ owner' = [owner EXCEPT ![g] = Local]
    BY DEF CreateGroup
<1>4. \A h \in Groups : \/ owner'[h] = owner[h]
                        \/ h = g /\ owner[h] = Absent /\ owner'[h] = Local
    BY <1>1, <1>3
<1>5. \A t \in tuples : t.obj \in Groups /\ t.src \in Owners
    BY <1>1 DEF Table, Tuple
<1>6. \A m \in managers : m.grp \in Groups /\ m.tok \in Tokens
    BY DEF Inv, StoreOK, Manager
<1>7. \A x \in Tokens : x.type = "group" => x.id \in Groups
    BY DEF Tokens, UserSubjects, GroupSubjects, UserSubject, GroupSubject
<1>8. Local # Absent /\ Local \notin Sources
    BY GroupStoreAssumption, EntriesAssumption DEF Owners
<1>9. RowsOwned'
    BY <1>3, <1>4, <1>5, GroupStoreAssumption DEF SeqInv, StoreRight, RowsOwned
<1>10. ManagersHome'
    BY <1>3, <1>4, <1>6, <1>7, <1>8
       DEF SeqInv, StoreRight, ManagersHome, Exists
<1>11. OwnersPresent'
    BY <1>3, <1>4, <1>8 DEF SeqInv, StoreRight, OwnersPresent
<1>12. ReservationRespected'
    <2>1. \A s \in Sources : source[s] = "present" => g \notin reserved[s]
        BY <1>2, EntriesAssumption DEF ReservedFromOthers
    <2>2. \A s \in Sources : reserved[s] \subseteq Groups
        BY DEF Inv, StoreOK
    <2> QED BY <1>3, <1>4, <2>1, <2>2
            DEF SeqInv, StoreRight, ReservationRespected
<1>13. ExpiryOnlyLocal' /\ LocalAcyclic'
    BY <1>3 DEF SeqInv, StoreRight, ExpiryOnlyLocal, LocalAcyclic
<1> QED BY <1>9, <1>10, <1>11, <1>12, <1>13 DEF StoreRight

LEMMA TokensTyped ==
    ASSUME NEW x \in Tokens, x.type = "group"
    PROVE  x.id \in Groups
BY DEF Tokens, UserSubjects, GroupSubjects, UserSubject, GroupSubject

LEMMA DeleteGroupRight ==
    ASSUME Inv, SeqInv, NEW p \in Procs, DeleteGroup(p)
    PROVE  StoreRight'
<1> DEFINE g == req[p].grp
<1>1. /\ Table(tuples) /\ owner \in [Groups -> Owners \cup {Absent}]
      /\ managers \in SUBSET Manager
    BY DEF Inv, StoreOK
<1>2. /\ UNCHANGED <<source, reserved, now>>
      /\ tuples' \subseteq tuples /\ \A t \in tuples' : t.obj # g
      /\ managers' \subseteq managers
      /\ \A m \in managers' : m.grp # g /\ ~TokenNames(m.tok, g)
      /\ owner' = [owner EXCEPT ![g] = Absent]
    BY DEF DeleteGroup, DropGroupTuples, DropGroupManagers
<1>3. \A h \in Groups : owner'[h] = IF h = g THEN Absent ELSE owner[h]
    BY <1>1, <1>2
<1>4. \A t \in tuples : t.obj \in Groups
    BY <1>1 DEF Table, Tuple
<1>5. RowsOwned'
    BY <1>2, <1>3, <1>4 DEF SeqInv, StoreRight, RowsOwned
<1>6. ManagersHome'
    <2>1. ASSUME NEW m \in managers'
          PROVE  owner'[m.grp] # Absent /\ Exists(m.tok)'
        <3>1. /\ m \in managers /\ m.grp \in Groups /\ m.tok \in Tokens
              /\ m.grp # g /\ ~TokenNames(m.tok, g)
            BY <1>1, <1>2, <2>1 DEF Manager
        <3>2. owner[m.grp] # Absent /\ Exists(m.tok)
            BY <3>1 DEF SeqInv, StoreRight, ManagersHome
        <3>3. m.tok.type = "group" => m.tok.id \in Groups /\ m.tok.id # g
            BY <3>1, TokensTyped, GroupStoreAssumption DEF TokenNames
        <3> QED BY <1>3, <3>1, <3>2, <3>3 DEF Exists
    <2> QED BY <2>1 DEF ManagersHome
<1>7. OwnersPresent'
    BY <1>2, <1>3, GroupStoreAssumption
       DEF SeqInv, StoreRight, OwnersPresent, Owners
<1>8. ReservationRespected'
    <2>1. \A s \in Sources : reserved[s] \subseteq Groups
        BY DEF Inv, StoreOK
    <2> QED BY <1>2, <1>3, <2>1 DEF SeqInv, StoreRight, ReservationRespected
<1>9. ExpiryOnlyLocal' /\ LocalAcyclic'
    BY <1>2, FewerRowsAcyclic DEF SeqInv, StoreRight, ExpiryOnlyLocal
<1> QED BY <1>5, <1>6, <1>7, <1>8, <1>9 DEF StoreRight

\* A manager is added to a group that exists, and exists if it is a group.
LEMMA ManagerStepsRight ==
    ASSUME Inv, SeqInv, NEW p \in Procs,
           AddManager(p) \/ AddNextManager(p) \/ RemoveManager(p)
    PROVE  StoreRight'
<1>1. UNCHANGED <<owner, tuples, source, reserved, now>>
    BY DEF AddManager, AddNextManager, RemoveManager
<1>2. /\ LocalOK /\ Fits(pc[p], req[p], todo[p])
      /\ CallRight(pc[p], req[p], todo[p])
    BY DEF Inv, LocalOK, SeqInv, CallsRight
<1>3. Local # Absent
    BY GroupStoreAssumption DEF Owners
<1>4. ASSUME NEW m \in managers' \ managers
      PROVE  owner[m.grp] = Local /\ Exists(m.tok)
    <2>1. CASE AddManager(p)
        <3>1. /\ m.grp = req[p].grp /\ m.tok = req[p].tok
              /\ pc[p] = "write" /\ req[p].op = "AddManager"
            BY <1>4, <2>1 DEF AddManager, Doing
        <3> QED BY <1>2, <3>1
                DEF CallRight, GroupChecked, TokensChecked, Claimed
    <2>2. CASE AddNextManager(p)
        <3>1. /\ m.grp = req[p].grp /\ m.tok = NextOf(p)
              /\ pc[p] = "addManager" /\ req[p].op = "CreateGroup"
              /\ NextOf(p) \in todo[p]
            BY <1>2, <1>4, <2>2 DEF AddNextManager, Fits, NextOf
        <3> QED BY <1>2, <3>1 DEF CallRight, GroupChecked, TokensChecked
    <2>3. CASE RemoveManager(p)
        BY <1>4, <2>3 DEF RemoveManager
    <2> QED BY <2>1, <2>2, <2>3
<1>5. ManagersHome'
    BY <1>1, <1>3, <1>4 DEF SeqInv, StoreRight, ManagersHome, Exists
<1> QED BY <1>1, <1>5 DEF SeqInv, StoreRight, RowsOwned, OwnersPresent,
        ExpiryOnlyLocal, ReservationRespected, LocalAcyclic

\* The history is no part of the tables.
LEMMA RecordsRight ==
    ASSUME StoreRight, NEW p \in Procs,
           Record(p) \/ RecordNextManager(p) \/ RecordAdopted(p)
    PROVE  StoreRight' /\ owner' = owner
BY DEF Record, RecordNextManager, RecordAdopted, store, StoreRight, RowsOwned,
       ManagersHome, Exists, OwnersPresent, ExpiryOnlyLocal,
       ReservationRespected, LocalAcyclic

LEMMA MaintainRight ==
    ASSUME OneAtATime, Inv, SeqInv, NEW p \in Procs, Maintain(p)
    PROVE  SeqInv'
<1> DEFINE r == req[p]
<1>1. /\ r \in Requests \cup {NoRequest} /\ Fits(pc[p], r, todo[p])
      /\ LocalOK /\ CallRight(pc[p], r, todo[p])
    BY DEF Inv, LocalOK, SeqInv, CallsRight
<1>2. StoreRight'
    BY AddMemberRight, RemoveMemberRight, ChangeRelationRight,
       CreateGroupRight, DeleteGroupRight, ManagerStepsRight, RecordsRight
       DEF Maintain, SeqInv
<1>3. CASE Return(p)
    BY <1>1, <1>2, <1>3, IdleRight DEF SeqInv
<1>4. CASE pc[p] = "write" /\ Goto(p, "record")
    <2>1. pc'[p] = "record" /\ req'[p] = r
        BY <1>1, <1>4, OneMoves
    <2>2. r.op = "CreateGroup" => owner'[r.grp] = Local
        <3>1. ASSUME r.op = "CreateGroup"
              PROVE  CreateGroup(p)
            BY <1>4, <3>1 DEF Maintain, AddMember, RemoveMember,
                   ChangeRelation, CreateGroup, DeleteGroup, AddManager,
                   RemoveManager, Record, AddNextManager, RecordNextManager,
                   Doing
        <3>2. r.op = "CreateGroup" => r.grp \in Groups
            BY <1>1, RequestShape DEF PersonOps
        <3>3. Goto(p, "record") => ~Return(p)
            BY <1>1, OneMoves
        <3> QED BY <1>4, <3>1, <3>2, <3>3 DEF CreateGroup, Inv, StoreOK
    <2>3. \A x \in Claimed(r) : Exists(x)'
        <3>1. \A x \in Claimed(r) : Exists(x)
            BY <1>1, <1>4 DEF CallRight, TokensChecked
        <3>2. \A x \in Claimed(r) : x \in Tokens
            BY <1>1, RequestShape DEF Claimed
        <3>3. r.op \in {"CreateGroup", "AddManager"} =>
                  \A h \in Groups : owner[h] # Absent => owner'[h] # Absent
            BY <1>4, GroupStoreAssumption
               DEF Maintain, AddMember, RemoveMember,
                   ChangeRelation, CreateGroup, DeleteGroup, AddManager,
                   RemoveManager, Record, AddNextManager, RecordNextManager,
                   Doing, Inv, StoreOK, Owners
        <3>4. \A x \in Claimed(r) : r.op \in {"CreateGroup", "AddManager"}
            BY DEF Claimed
        <3> QED BY <3>1, <3>2, <3>3, <3>4, TokensTyped DEF Exists
    <2>4. CallRight(pc[p], req[p], todo[p])'
        BY <2>1, <2>2, <2>3
           DEF CallRight, GroupChecked, CircleChecked, TokensChecked,
               SourceChecked, Claimed
    <2> QED BY <1>2, <2>4, CallsByOne DEF SeqInv
<1>5. CASE Record(p) /\ ~Return(p)
    <2>1. /\ pc[p] = "record" /\ r.op = "CreateGroup"
          /\ Loop(p, "addManager", r.toks) /\ owner' = owner
        BY <1>5 DEF Record, store
    <2>2. pc'[p] = "addManager" /\ req'[p] = r /\ todo'[p] = r.toks
        BY <1>1, <2>1, OneMoves
    <2>3. CallRight(pc[p], req[p], todo[p])'
        BY <1>1, <2>1, <2>2
           DEF CallRight, GroupChecked, CircleChecked, TokensChecked,
               SourceChecked, Claimed, Exists
    <2> QED BY <1>2, <2>3, CallsByOne DEF SeqInv
<1>6. CASE AddNextManager(p)
    <2>1. /\ pc[p] = "addManager" /\ Goto(p, "recordManager") /\ owner' = owner
        BY <1>6 DEF AddNextManager
    <2>2. pc'[p] = "recordManager" /\ req'[p] = r /\ todo'[p] = todo[p]
        BY <1>1, <2>1, OneMoves
    <2>3. CallRight(pc[p], req[p], todo[p])'
        BY <1>1, <2>1, <2>2
           DEF CallRight, GroupChecked, CircleChecked, TokensChecked,
               SourceChecked, Exists
    <2> QED BY <1>2, <2>3, CallsByOne DEF SeqInv
<1>7. CASE RecordNextManager(p) /\ ~Return(p)
    <2>1. /\ pc[p] = "recordManager" /\ owner' = owner
          /\ Loop(p, "addManager", todo[p] \ {NextOf(p)})
        BY <1>7 DEF RecordNextManager, store
    <2>2. /\ pc'[p] = "addManager" /\ req'[p] = r
          /\ todo'[p] \subseteq todo[p]
        BY <1>1, <2>1, OneMoves
    <2>3. CallRight(pc[p], req[p], todo[p])'
        BY <1>1, <2>1, <2>2
           DEF CallRight, GroupChecked, CircleChecked, TokensChecked,
               SourceChecked, Exists
    <2> QED BY <1>2, <2>3, CallsByOne DEF SeqInv
<1>8. \/ Return(p) \/ (pc[p] = "write" /\ Goto(p, "record"))
      \/ Record(p) \/ AddNextManager(p) \/ RecordNextManager(p)
    BY DEF Maintain, AddMember, RemoveMember, ChangeRelation, CreateGroup,
           DeleteGroup, AddManager, RemoveManager, Doing
<1> QED BY <1>3, <1>4, <1>5, <1>6, <1>7, <1>8

-----------------------------------------------------------------------------
(* Sources.                                                                *)

LEMMA ReplaceRight ==
    ASSUME Inv, SeqInv, NEW p \in Procs, Replace(p)
    PROVE  StoreRight'
<1> DEFINE s    == req[p].src
           file == req[p].file
<1>1. /\ req[p] \in Requests \cup {NoRequest} /\ Table(tuples)
      /\ req[p].op = "RunSync" /\ pc[p] = "replace"
      /\ owner \in [Groups -> Owners \cup {Absent}]
      /\ managers \in SUBSET Manager
    BY DEF Inv, LocalOK, StoreOK, Fits, Replace
<1>2. /\ s \in Sources /\ s \in Owners /\ file \in SUBSET Entry
      /\ s # Local /\ s # NoSource /\ s # Absent
    BY <1>1, RequestShape, EntriesAssumption, GroupStoreAssumption DEF Owners
<1>3. /\ source[s] = "present"
      /\ \A g \in GroupsOf(file) : /\ owner[g] \in {Absent, s}
                                   /\ ~ReservedFromOthers(g, s)
    BY <1>1 DEF SeqInv, CallsRight, CallRight, SourceChecked
<1>4. /\ tuples' = ReplaceRows(tuples, s, file)
      /\ owner' = ReplaceOwners(owner, tuples, managers, s, file)
      /\ UNCHANGED <<managers, source, reserved, now>>
    BY DEF Replace
<1>5. \A g \in Groups :
          \/ owner'[g] = owner[g]
          \/ owner'[g] = s /\ owner[g] = Absent /\ g \in GroupsOf(file)
          \/ owner'[g] = Absent /\ owner[g] = s
    BY <1>1, <1>2, <1>4, ReplaceOwnersCases
<1>6. \A g \in Groups : InUse(tuples', managers, g) =>
          /\ owner[g] # Absent => owner'[g] = owner[g]
          /\ owner[g] = Absent /\ g \in GroupsOf(file) => owner'[g] = s
    BY <1>4 DEF ReplaceOwners
<1>7. ASSUME NEW t \in tuples'
      PROVE  /\ t.obj \in Groups
             /\ \/ t \in tuples /\ t.src # s
                \/ t.src = s /\ t.exp = Forever /\ t.obj \in GroupsOf(file)
    <2>1. \/ t \in tuples /\ t.src # s
          \/ t.src = s /\ EntryOf(t) \in file
        BY <1>2, <1>4, <1>7, ReplaceRowsOrigin
    <2>2. t \in tuples \/ t.exp = Forever
        <3>1. \A e : MkTuple(e, s, Forever).exp = Forever
            BY DEF MkTuple
        <3> QED BY <1>4, <1>7, <3>1 DEF ReplaceRows
    <2>3. t \in tuples /\ t.src = s => t.exp = Forever
        BY <1>2 DEF SeqInv, StoreRight, ExpiryOnlyLocal
    <2>4. EntryOf(t).obj = t.obj
        BY DEF EntryOf
    <2>5. EntryOf(t) \in file => t.obj \in GroupsOf(file) /\ t.obj \in Groups
        BY <1>2, <2>4 DEF GroupsOf, Entry
    <2>6. t \in tuples => t.obj \in Groups
        BY <1>1 DEF Table, Tuple
    <2> QED BY <2>1, <2>2, <2>3, <2>5, <2>6
<1>8. RowsOwned'
    <2>1. ASSUME NEW t \in tuples'
          PROVE  t.src = owner'[t.obj] /\ t.src # NoSource
        <3>1. InUse(tuples', managers, t.obj)
            BY DEF InUse
        <3>2. CASE t \in tuples /\ t.src # s
            <4>1. /\ t.src = owner[t.obj] /\ t.src # NoSource
                  /\ t.src \in Owners
                BY <1>1, <3>2 DEF SeqInv, StoreRight, RowsOwned, Table, Tuple
            <4> QED BY <1>6, <1>7, <3>1, <4>1, GroupStoreAssumption
        <3>3. CASE t.src = s /\ t.obj \in GroupsOf(file)
            BY <1>2, <1>3, <1>6, <1>7, <3>1, <3>3
        <3> QED BY <1>7, <3>2, <3>3
    <2> QED BY <2>1 DEF RowsOwned
<1>9. ManagersHome'
    <2>1. ASSUME NEW m \in managers
          PROVE  owner'[m.grp] # Absent /\ Exists(m.tok)'
        <3>1. /\ m.grp \in Groups /\ m.tok \in Tokens
              /\ owner[m.grp] # Absent /\ Exists(m.tok)
            BY <1>1, <2>1 DEF Manager, SeqInv, StoreRight, ManagersHome
        <3>2. InUse(tuples', managers, m.grp)
            BY DEF InUse
        <3>3. m.tok.type = "group" =>
                  m.tok.id \in Groups /\ InUse(tuples', managers, m.tok.id)
            BY <3>1, TokensTyped, GroupStoreAssumption DEF InUse, TokenNames
        <3> QED BY <1>6, <3>1, <3>2, <3>3 DEF Exists
    <2> QED BY <1>4, <2>1 DEF ManagersHome
<1>10. OwnersPresent'
    BY <1>3, <1>4, <1>5, GroupStoreAssumption
       DEF SeqInv, StoreRight, OwnersPresent, Owners
<1>11. ReservationRespected'
    <2>1. \A x \in Sources : reserved[x] \subseteq Groups
        BY DEF Inv, StoreOK
    <2> QED BY <1>3, <1>4, <1>5, <2>1
            DEF SeqInv, StoreRight, ReservationRespected, ReservedFromOthers
<1>12. ExpiryOnlyLocal' /\ LocalAcyclic'
    BY <1>2, <1>4, <1>7, FewerRowsAcyclic
       DEF SeqInv, StoreRight, ExpiryOnlyLocal
<1> QED BY <1>8, <1>9, <1>10, <1>11, <1>12 DEF StoreRight

LEMMA SyncRight ==
    ASSUME OneAtATime, Inv, SeqInv, NEW p \in Procs, Sync(p)
    PROVE  SeqInv'
<1> DEFINE r == req[p]
<1>1. /\ r \in Requests \cup {NoRequest} /\ Fits(pc[p], r, todo[p])
      /\ LocalOK /\ CallRight(pc[p], r, todo[p])
    BY DEF Inv, LocalOK, SeqInv, CallsRight
<1>2. CASE Replace(p)
    BY <1>1, <1>2, ReplaceRight, IdleRight DEF Replace, SeqInv
<1>3. CASE ~Replace(p)
    <2>1. Reads
        BY <1>3 DEF Sync, GetSource, CheckOwners, CheckSyncReserved
    <2>2. /\ StoreRight' /\ owner' = owner /\ source' = source
          /\ reserved' = reserved
        BY <2>1, ReadsKeepRight DEF SeqInv, Reads, store
    <2>3. CASE Return(p)
        BY <1>1, <2>2, <2>3, IdleRight DEF SeqInv
    <2>4. CASE GetSource(p) /\ ~Return(p)
        <3>1. r.op \in {"RunSync", "UpdateSource", "DeleteSource"}
            BY <1>1, <2>4 DEF GetSource, Fits
        <3>2. source[r.src] = "present"
            BY <2>4, <3>1 DEF GetSource
        <3>3. \/ Goto(p, "groupOwners") \/ Goto(p, "listGroups")
              \/ Goto(p, "deleteSource")
            BY <2>4, <3>1, <3>2 DEF GetSource
        <3>4. /\ pc'[p] \in {"groupOwners", "listGroups", "deleteSource"}
              /\ req'[p] = r
            BY <1>1, <3>3, OneMoves
        <3>5. CallRight(pc[p], req[p], todo[p])'
            BY <2>2, <3>2, <3>4 DEF CallRight, GroupChecked, CircleChecked,
                   TokensChecked, SourceChecked
        <3> QED BY <2>2, <3>5, CallsByOne DEF SeqInv
    <2>5. CASE CheckOwners(p) /\ ~Return(p)
        <3>1. /\ pc[p] = "groupOwners" /\ Goto(p, "syncReserved")
              /\ \A g \in GroupsOf(r.file) : owner[g] \in {Absent, r.src}
            BY <2>5 DEF CheckOwners
        <3>2. pc'[p] = "syncReserved" /\ req'[p] = r
            BY <1>1, <3>1, OneMoves
        <3>3. CallRight(pc[p], req[p], todo[p])'
            BY <1>1, <2>2, <3>1, <3>2 DEF CallRight, GroupChecked,
                   CircleChecked, TokensChecked, SourceChecked
        <3> QED BY <2>2, <3>3, CallsByOne DEF SeqInv
    <2>6. CASE CheckSyncReserved(p) /\ ~Return(p)
        <3>1. /\ pc[p] = "syncReserved" /\ Goto(p, "replace")
              /\ \A g \in GroupsOf(r.file) : ~ReservedFromOthers(g, r.src)
            BY <2>6 DEF CheckSyncReserved
        <3>2. pc'[p] = "replace" /\ req'[p] = r
            BY <1>1, <3>1, OneMoves
        <3>3. \A g, s : ReservedFromOthers(g, s)' <=> ReservedFromOthers(g, s)
            BY <2>2 DEF ReservedFromOthers
        <3>4. CallRight(pc[p], req[p], todo[p])'
            BY <1>1, <2>2, <3>1, <3>2, <3>3 DEF CallRight, GroupChecked,
                   CircleChecked, TokensChecked, SourceChecked
        <3> QED BY <2>2, <3>4, CallsByOne DEF SeqInv
    <2> QED BY <1>3, <2>3, <2>4, <2>5, <2>6 DEF Sync
<1> QED BY <1>2, <1>3

LEMMA StoreSourceRight ==
    ASSUME Inv, SeqInv, NEW p \in Procs, CreateSource(p) \/ UpdateSource(p)
    PROVE  StoreRight'
<1> DEFINE s == req[p].src
<1>1. /\ s \in Sources /\ req[p].names \in SUBSET Groups
      /\ source \in [Sources -> {"new", "present", "deleted"}]
      /\ reserved \in [Sources -> SUBSET Groups]
      /\ pc[p] = "storeSource"
    BY RequestShape DEF Inv, LocalOK, StoreOK, CreateSource, UpdateSource, Doing
<1>2. \A g \in req[p].names : owner[g] \in {Absent, s}
    BY <1>1 DEF SeqInv, CallsRight, CallRight, SourceChecked, Taken
<1>3. /\ UNCHANGED <<owner, tuples, managers, now>>
      /\ \A x \in Sources : /\ source[x] = "present" => source'[x] = "present"
                            /\ x # s => source'[x] = source[x]
      /\ \A x \in Sources : \/ reserved'[x] = reserved[x] /\ source'[x] = source[x]
                            \/ x = s /\ reserved'[x] = req[p].names
    BY <1>1 DEF CreateSource, UpdateSource
<1>4. OwnersPresent' /\ ReservationRespected'
    BY <1>1, <1>2, <1>3
       DEF SeqInv, StoreRight, OwnersPresent, ReservationRespected
<1> QED BY <1>3, <1>4 DEF SeqInv, StoreRight, RowsOwned, ManagersHome, Exists,
        ExpiryOnlyLocal, LocalAcyclic

LEMMA DeleteSourceRight ==
    ASSUME Inv, SeqInv, NEW p \in Procs, DeleteSource(p)
    PROVE  StoreRight'
<1> DEFINE s == req[p].src
<1>1. /\ s \in Sources /\ Table(tuples)
      /\ source \in [Sources -> {"new", "present", "deleted"}]
      /\ reserved \in [Sources -> SUBSET Groups]
      /\ managers \in SUBSET Manager
      /\ s \notin {Local, Absent}
      /\ NoSource \notin Sources /\ NoSource # Absent
    <2>1. req[p] \in Requests \cup {NoRequest} /\ req[p].op = "DeleteSource"
        BY DEF Inv, LocalOK, Fits, DeleteSource
    <2> QED BY <2>1, RequestShape, EntriesAssumption, GroupStoreAssumption
            DEF Inv, StoreOK, Owners
<1>2. /\ UNCHANGED <<managers, now>>
      /\ \A t \in tuples' : t \in tuples /\ t.src # s
      /\ \A g \in Groups :
             owner'[g] = IF owner[g] = s THEN NoSource ELSE owner[g]
      /\ \A x \in Sources : x # s => /\ source'[x] = source[x]
                                     /\ reserved'[x] = reserved[x]
      /\ reserved'[s] = {}
    BY <1>1 DEF DeleteSource, OwnRows, Reowned
<1>3. RowsOwned' /\ ExpiryOnlyLocal'
    <2>1. \A t \in tuples : t.obj \in Groups
        BY <1>1 DEF Table, Tuple
    <2> QED BY <1>2, <2>1
            DEF SeqInv, StoreRight, RowsOwned, ExpiryOnlyLocal
<1>4. ManagersHome'
    <2>1. \A m \in managers : /\ m.grp \in Groups /\ m.tok \in Tokens
                              /\ m.tok.type = "group" => m.tok.id \in Groups
        BY <1>1, TokensTyped DEF Manager
    <2> QED BY <1>1, <1>2, <2>1 DEF SeqInv, StoreRight, ManagersHome, Exists
<1>5. OwnersPresent'
    BY <1>1, <1>2 DEF SeqInv, StoreRight, OwnersPresent
<1>6. ReservationRespected'
    BY <1>1, <1>2 DEF SeqInv, StoreRight, ReservationRespected
<1>7. LocalAcyclic'
    BY <1>2, FewerRowsAcyclic DEF SeqInv, StoreRight
<1> QED BY <1>3, <1>4, <1>5, <1>6, <1>7 DEF StoreRight

LEMMA AdoptRight ==
    ASSUME Inv, SeqInv, NEW p \in Procs, Adopt(p)
    PROVE  StoreRight'
<1>1. tuples' = tuples
    BY DEF Adopt, MoveRows, SeqInv, StoreRight, RowsOwned
<1>2. /\ UNCHANGED <<managers, source, reserved, now>>
      /\ \A g \in Groups :
             owner'[g] = IF owner[g] = NoSource THEN Local ELSE owner[g]
    BY DEF Adopt, Reowned
<1>3. /\ Local # Absent /\ Local \notin Sources /\ NoSource \notin Sources
      /\ NoSource # Absent
    BY EntriesAssumption, GroupStoreAssumption DEF Owners
<1>4. /\ \A t \in tuples : t.obj \in Groups
      /\ \A m \in managers : /\ m.grp \in Groups /\ m.tok \in Tokens
                             /\ m.tok.type = "group" => m.tok.id \in Groups
      /\ \A x \in Sources : reserved[x] \subseteq Groups
    BY TokensTyped DEF Inv, StoreOK, Table, Tuple, Manager
<1>5. RowsOwned' /\ ExpiryOnlyLocal' /\ LocalAcyclic'
    BY <1>1, <1>2, <1>4
       DEF SeqInv, StoreRight, RowsOwned, ExpiryOnlyLocal, LocalAcyclic
<1>6. ManagersHome'
    BY <1>2, <1>3, <1>4 DEF SeqInv, StoreRight, ManagersHome, Exists
<1>7. OwnersPresent' /\ ReservationRespected'
    BY <1>2, <1>3, <1>4
       DEF SeqInv, StoreRight, OwnersPresent, ReservationRespected
<1> QED BY <1>5, <1>6, <1>7 DEF StoreRight

LEMMA AdministerRight ==
    ASSUME OneAtATime, Inv, SeqInv, NEW p \in Procs, Administer(p)
    PROVE  SeqInv'
<1>1. LocalOK
    BY DEF Inv
<1>2. CASE CheckReservation(p)
    <2>1. /\ Reads
          /\ \/ Return(p)
             \/ ~Taken(req[p].names, req[p].src) /\ Goto(p, "storeSource")
        BY <1>2 DEF CheckReservation
    <2>2. StoreRight' /\ owner' = owner
        BY <2>1, ReadsKeepRight DEF SeqInv, Reads, store
    <2>3. CASE Return(p)
        BY <1>1, <2>2, <2>3, IdleRight DEF SeqInv
    <2>4. CASE ~Taken(req[p].names, req[p].src) /\ Goto(p, "storeSource")
        <3>1. pc'[p] = "storeSource" /\ req'[p] = req[p]
            BY <1>1, <2>4, OneMoves
        <3>2. CallRight(pc[p], req[p], todo[p])'
            BY <2>2, <2>4, <3>1 DEF CallRight, GroupChecked, CircleChecked,
                   TokensChecked, SourceChecked, Taken
        <3> QED BY <2>2, <3>2, CallsByOne DEF SeqInv
    <2> QED BY <2>1, <2>3, <2>4
<1>3. CASE CreateSource(p) \/ UpdateSource(p)
    <2>1. Return(p)
        BY <1>3 DEF CreateSource, UpdateSource
    <2> QED BY <1>1, <1>3, <2>1, StoreSourceRight, IdleRight DEF SeqInv
<1>4. CASE DeleteSource(p) \/ Adopt(p) \/ RecordAdopted(p)
    <2>1. StoreRight'
        BY <1>4, DeleteSourceRight, AdoptRight, RecordsRight DEF SeqInv
    <2>2. CASE Return(p)
        BY <1>1, <2>1, <2>2, IdleRight DEF SeqInv
    <2>3. CASE ~Return(p)
        <3>1. pc'[p] \in {"adopt", "recordAdopted"}
            BY <1>1, <1>4, <2>3, OneMoves
               DEF DeleteSource, Adopt, RecordAdopted
        <3>2. CallRight(pc[p], req[p], todo[p])'
            BY <3>1 DEF CallRight, GroupChecked, CircleChecked,
                   TokensChecked, SourceChecked
        <3> QED BY <2>1, <3>2, CallsByOne DEF SeqInv
    <2> QED BY <2>2, <2>3
<1> QED BY <1>2, <1>3, <1>4 DEF Administer

-----------------------------------------------------------------------------
(* The clock, and what the invariant gives.                                *)

LEMMA LiveBefore ==
    ASSUME NEW T \in SUBSET Tuple, NEW t1 \in Nat, NEW t2 \in Nat, t1 <= t2
    PROVE  LiveOf(T, t2) \subseteq LiveOf(T, t1)
BY EntriesAssumption DEF LiveOf, Live, Tuple, Expiries

\* Entries only expire: no edge comes up by waiting, between checkNoCycle and
\* the write neither.
LEMMA TickRight ==
    ASSUME Inv, SeqInv, Tick
    PROVE  SeqInv'
<1>1. /\ now \in Nat /\ now' = now + 1 /\ tuples \in SUBSET Tuple
      /\ UNCHANGED <<owner, tuples, managers, source, reserved, pc, req, todo>>
    BY DEF Inv, StoreOK, Table, Tick, store, local
<1>2. LiveOf(tuples', now') \subseteq LiveOf(tuples, now)
    BY <1>1, LiveBefore
<1>3. LocalAcyclic'
    <2>1. \A t \in LocalRows(tuples', now') : t \in LocalRows(tuples, now)
        BY <1>2 DEF LocalRows
    <2> QED BY <2>1, StillAcyclic DEF SeqInv, StoreRight
<1>4. StoreRight'
    BY <1>1, <1>3 DEF SeqInv, StoreRight, RowsOwned, ManagersHome, Exists,
       OwnersPresent, ExpiryOnlyLocal, ReservationRespected
<1>5. ASSUME NEW g, NEW child, ~Cyclic(GroupEdges(LiveOf(tuples, now)), g, child)
      PROVE  ~Cyclic(GroupEdges(LiveOf(tuples', now')), g, child)
    <2>1. GroupEdges(LiveOf(tuples', now')) \subseteq
              GroupEdges(LiveOf(tuples, now))
        BY <1>2 DEF GroupEdges
    <2> QED BY <1>5, <2>1, BelowGrows DEF Cyclic
<1>6. ASSUME NEW p \in Procs
      PROVE  CallRight(pc[p], req[p], todo[p])'
    <2>1. CallRight(pc[p], req[p], todo[p])
        BY DEF SeqInv, CallsRight
    <2>2. CircleChecked(pc[p], req[p])'
        BY <1>1, <1>5, <2>1 DEF CallRight, CircleChecked
    <2> QED BY <1>1, <2>1, <2>2
            DEF CallRight, GroupChecked, TokensChecked, SourceChecked, Exists,
                Taken, ReservedFromOthers
<1> QED BY <1>4, <1>6 DEF SeqInv, CallsRight

LEMMA InitRight == Init => SeqInv
<1> SUFFICES ASSUME Init PROVE SeqInv
    OBVIOUS
<1>1. /\ tuples = {} /\ managers = {}
      /\ \A g \in Groups : owner[g] = Absent
      /\ reserved = InitReserved
      /\ \A p \in Procs : pc[p] = "idle"
    BY DEF Init
<1>2. LocalAcyclic
    <2>1. GroupEdges({t \in LiveOf(tuples, now) : t.src = Local}) = {}
        BY <1>1 DEF GroupEdges, LiveOf
    <2>2. \A g \in Groups : Below({}, g) = {}
        <3>1. ASSUME NEW g \in Groups
              PROVE  Below({}, g) \subseteq {}
            <4>1. Children({}, {} \cup {g}) \subseteq {}
                BY DEF Children
            <4> QED BY <4>1, BelowLeast
        <3> QED BY <3>1
    <2> QED BY <2>1, <2>2 DEF LocalAcyclic, Acyclic
<1>3. StoreRight
    <2>1. \A s \in Sources : reserved[s] \subseteq Groups
        BY <1>1, RoleProviderAssumption
    <2> QED BY <1>1, <1>2, <2>1, GroupStoreAssumption
            DEF StoreRight, RowsOwned, ManagersHome, OwnersPresent, Owners,
                ExpiryOnlyLocal, ReservationRespected
<1>4. CallsRight
    BY <1>1 DEF CallsRight, CallRight, GroupChecked, CircleChecked,
                TokensChecked, SourceChecked
<1> QED BY <1>3, <1>4 DEF SeqInv

LEMMA NextRight ==
    ASSUME OneAtATime, Inv, SeqInv, [Next]_vars
    PROVE  SeqInv'
<1>1. CASE \E p \in Procs, r \in Requests : Begin(p, r)
    BY <1>1, BeginRight
<1>2. CASE \E p \in Procs : Step(p)
    BY <1>2, CheckRight, MaintainRight, SyncRight, AdministerRight DEF Step
<1>3. CASE \E p \in Procs : Fail(p)
    BY <1>3, IdleRight, ReadsKeepRight DEF Fail, Inv, SeqInv
<1>4. CASE Tick
    BY <1>4, TickRight
<1>5. CASE UNCHANGED vars
    BY <1>5 DEF vars, store, local, SeqInv, StoreRight, RowsOwned,
       ManagersHome, Exists, OwnersPresent, ExpiryOnlyLocal,
       ReservationRespected, LocalAcyclic, CallsRight, CallRight,
       GroupChecked, CircleChecked, TokensChecked, SourceChecked, Taken,
       ReservedFromOthers
<1> QED BY <1>1, <1>2, <1>3, <1>4, <1>5 DEF Next

LEMMA SeqAlways ==
    ASSUME OneAtATime
    PROVE  Spec => [](Inv /\ SeqInv)
<1>1. Init => Inv /\ SeqInv
    BY InitInv, InitRight
<1>2. Inv /\ SeqInv /\ [Next]_vars => (Inv /\ SeqInv)'
    BY NextInv, NextRight
<1> QED BY <1>1, <1>2, PTL DEF Spec

\* Deleting a group, a source or a file's entries leaves no entry and no
\* manager behind that belongs to no group or names none (DeleteGroup,
\* postgres.go:380-398; checkManagerToken, service.go:365-382; the pruning of
\* ReplaceTuples, postgres.go:941-966), also when calls are cut short.
THEOREM NoOrphansSequentially ==
    ASSUME OneAtATime
    PROVE  Spec => []NoOrphans
<1>1. Inv /\ SeqInv => NoOrphans
    BY StoreRightMeans DEF Inv, SeqInv
<1> QED BY <1>1, SeqAlways, PTL

\* Groups and entries belong to sources that exist: what a deleted source
\* leaves passes to the local source (api_sync.go:250-270), and no call
\* writes for a source that is gone.
THEOREM SourcesExistSequentially ==
    ASSUME OneAtATime
    PROVE  Spec => []SourcesExist
<1>1. Inv /\ SeqInv => SourcesExist
    BY StoreRightMeans DEF Inv, SeqInv
<1> QED BY <1>1, SeqAlways, PTL

\* A reserved name is nobody's or its source's: the checks of the API
\* (service.go:201-217), of a sync (engine.go:94-108) and of a reservation
\* (engine.go:191-206) together leave no way round.
THEOREM ReservationRespectedSequentially ==
    ASSUME OneAtATime
    PROVE  Spec => []ReservationRespected
<1>1. SeqInv => ReservationRespected
    BY DEF SeqInv, StoreRight
<1> QED BY <1>1, SeqAlways, PTL

\* checkNoCycle is enough: by no sequence of additions, changes of relation,
\* expiries, prolongations, syncs and adoptions do the hand-made entries
\* close a circle of groups (service.go:448-535).
THEOREM LocalAcyclicSequentially ==
    ASSUME OneAtATime
    PROVE  Spec => []LocalAcyclic
<1>1. SeqInv => LocalAcyclic
    BY DEF SeqInv, StoreRight
<1> QED BY <1>1, SeqAlways, PTL

\* Without reserved names and with sources created, changed and deleted in
\* between, an entry is still its group's source's ("A group belongs to
\* exactly one writer", engine.go:171).
THEOREM OneWriterSequentially ==
    ASSUME OneAtATime
    PROVE  Spec => []OneWriter
<1>1. Inv /\ SeqInv => OneWriter
    BY StoreRightMeans DEF Inv, SeqInv
<1> QED BY <1>1, SeqAlways, PTL

\* And no synced entry ever expires (postgres.go:81).
THEOREM ExpiryOnlyLocalSequentially ==
    ASSUME OneAtATime
    PROVE  Spec => []ExpiryOnlyLocal
<1>1. SeqInv => ExpiryOnlyLocal
    BY DEF SeqInv, StoreRight
<1> QED BY <1>1, SeqAlways, PTL

\* What CheckOwnership lets through (engine.go:167-187) no entry of anybody
\* else is in the way of.
LEMMA FileIsFree ==
    ASSUME Inv, SeqInv, NEW p \in Procs, Replace(p),
           NEW t \in tuples, EntryOf(t) \in req[p].file
    PROVE  t.src = req[p].src
<1>1. \A g \in GroupsOf(req[p].file) : owner[g] \in {Absent, req[p].src}
    BY DEF Replace, SeqInv, CallsRight, CallRight, SourceChecked
<1>2. t.obj \in GroupsOf(req[p].file)
    BY DEF GroupsOf, EntryOf
<1>3. t.src \in Owners /\ t.src = owner[t.obj]
    BY DEF Inv, StoreOK, Table, Tuple, SeqInv, StoreRight, RowsOwned
<1> QED BY <1>1, <1>2, <1>3, GroupStoreAssumption

LEMMA ExactlyTheFileStep == Inv /\ SeqInv => ExactlyTheFile
<1> SUFFICES ASSUME Inv, SeqInv, NEW p \in Procs, Replace(p)
             PROVE  {EntryOf(t) : t \in OwnRows(tuples', req[p].src)} = req[p].file
    BY DEF ExactlyTheFile
<1>1. req[p] \in Requests \cup {NoRequest} /\ req[p].op = "RunSync"
    BY DEF Inv, LocalOK, Fits, Replace
<1>2. req[p].src \in Owners /\ req[p].file \in SUBSET Entry
    BY <1>1, RequestShape DEF Owners
<1> QED BY <1>2, FileIsFree, ReplaceRowsExact DEF Replace

\* A sync leaves the source with exactly its file (README.md:38), whatever
\* was added by hand, deleted and adopted before.
THEOREM SyncExactSequentially ==
    ASSUME OneAtATime
    PROVE  Spec => SyncExact
<1>1. Inv /\ SeqInv => [ExactlyTheFile]_vars
    BY ExactlyTheFileStep
<1> QED BY <1>1, SeqAlways, PTL DEF SyncExact

-----------------------------------------------------------------------------
(* The two stores.                                                         *)

\* "_" in a group id makes LIKE take others for it (postgres.go:394).
PlainSpelling == \A g \in Groups : LikeIds[g] = {g}

\* What the memory store takes from GroupStore is the same there.
LEMMA SameOperators ==
    /\ \A t : Memory!EntryOf(t) = EntryOf(t)
    /\ \A T, e : Memory!RowsOf(T, e) = RowsOf(T, e)
    /\ \A T, x : Memory!OwnRows(T, x) = OwnRows(T, x)
    /\ \A e, x, y : Memory!MkTuple(e, x, y) = MkTuple(e, x, y)
    /\ \A g, r, x : Memory!MkEntry(g, r, x) = MkEntry(g, r, x)
    /\ \A x, y : Memory!LaterExpiry(x, y) = LaterExpiry(x, y)
    /\ \A file : Memory!GroupsOf(file) = GroupsOf(file)
    /\ \A x, g : Memory!IsGroup(x, g) = IsGroup(x, g)
<1>1. \A t : Memory!EntryOf(t) = EntryOf(t)
    BY DEF Memory!EntryOf, EntryOf
<1> QED BY <1>1 DEF Memory!RowsOf, RowsOf, Memory!OwnRows, OwnRows,
        Memory!MkTuple, MkTuple, Memory!MkEntry, MkEntry,
        Memory!LaterExpiry, LaterExpiry, Memory!GroupsOf, GroupsOf,
        Memory!IsGroup, IsGroup

LEMMA OnlyTuplesAgree ==
    UNCHANGED <<owner, managers, source, reserved>> => Memory!OnlyTuples
BY DEF Memory!OnlyTuples, ManagedBy

LEMMA MembersAgree ==
    ASSUME Inv, NEW p \in Procs
    PROVE  MembersOnBoth(p)
<1> DEFINE r == req[p]
<1>1. /\ Table(tuples) /\ r \in Requests \cup {NoRequest}
    BY DEF Inv, StoreOK, LocalOK
<1>2. ASSUME NEW e, NEW t \in RowsOf(tuples, e)
      PROVE  /\ RowsOf(tuples, e) = {t}
             /\ t = MkTuple(e, t.src, t.exp)
    BY <1>1, <1>2, OneRow DEF RowsOf, EntryOf, MkTuple, Table, Tuple
<1>3. ASSUME AddMember(p)
      PROVE  Memory!MemAddMember(Named(r), Local, r.exp)
    <2> DEFINE e == Named(r)
    <2>1. /\ tuples' = PutMember(tuples, e, Local, r.exp)
          /\ UNCHANGED <<owner, managers, source, reserved>>
        BY <1>3 DEF AddMember
    <2>2. CASE RowsOf(tuples, e) = {}
        BY <2>1, <2>2, OnlyTuplesAgree, SameOperators
           DEF PutMember, Memory!MemAddMember
    <2>3. CASE RowsOf(tuples, e) # {}
        <3>1. PICK t \in RowsOf(tuples, e) : RowsOf(tuples, e) = {t}
            BY <1>2, <2>3
        <3>2. tuples' = (tuples \ {t}) \cup {[t EXCEPT !.exp = r.exp]}
            BY <2>1, <3>1 DEF PutMember
        <3> QED BY <2>1, <3>1, <3>2, OnlyTuplesAgree, SameOperators
                DEF Memory!MemAddMember
    <2> QED BY <2>2, <2>3
<1>4. ASSUME RemoveMember(p)
      PROVE  Memory!MemRemoveMember(Named(r))
    <2>1. tuples' = {t \in tuples : EntryOf(t) # Named(r)}
        BY <1>4 DEF RemoveMember, DropMember, RowsOf
    <2>2. tuples' = {t \in tuples : Memory!EntryOf(t) # Named(r)}
        BY <2>1, SameOperators
    <2> QED BY <1>4, <2>2, OnlyTuplesAgree
            DEF RemoveMember, Memory!MemRemoveMember
<1>5. ASSUME ChangeRelation(p)
      PROVE  Memory!MemChangeRelation(r.grp, r.sub, r.rel, r.to)
    <2> DEFINE from == MkEntry(r.grp, r.rel, r.sub)
               to   == MkEntry(r.grp, r.to, r.sub)
    <2>1. /\ \/ (from = to \/ RowsOf(tuples, from) = {}) /\ tuples' = tuples
             \/ /\ from # to /\ RowsOf(tuples, from) # {}
                /\ tuples' = MoveRelation(tuples, from, to)
          /\ UNCHANGED <<owner, managers, source, reserved>>
        BY <1>5 DEF ChangeRelation, Named
    <2>2. Memory!OnlyTuples
        BY <2>1, OnlyTuplesAgree
    <2>3. from = to <=> r.rel = r.to
        BY DEF MkEntry
    <2>4. CASE from = to \/ RowsOf(tuples, from) = {}
        BY <2>1, <2>2, <2>3, <2>4, SameOperators
           DEF Memory!MemChangeRelation
    <2>5. CASE from # to /\ RowsOf(tuples, from) # {}
        <3>1. PICK t \in RowsOf(tuples, from) : RowsOf(tuples, from) = {t}
            BY <1>2, <2>5
        <3>2. CASE RowsOf(tuples, to) = {}
            <4>1. tuples' = (tuples \ {t}) \cup {MkTuple(to, t.src, t.exp)}
                BY <2>1, <2>5, <3>1, <3>2 DEF MoveRelation
            <4>2. MkTuple(to, t.src, t.exp) = [t EXCEPT !.rel = r.to]
                BY <1>1, <3>1 DEF MkTuple, MkEntry, RowsOf, EntryOf, Table, Tuple
            <4> QED BY <2>2, <2>3, <2>5, <3>1, <3>2, <4>1, <4>2, SameOperators
                    DEF Memory!MemChangeRelation
        <3>3. CASE RowsOf(tuples, to) # {}
            <4>1. PICK m \in RowsOf(tuples, to) : RowsOf(tuples, to) = {m}
                BY <1>2, <3>3
            <4>2. tuples' = (tuples \ {t, m}) \cup
                            {MkTuple(to, m.src, LaterExpiry(m.exp, t.exp))}
                <5> DEFINE new == MkTuple(to, m.src, LaterExpiry(m.exp, t.exp))
                <5>1. MovedTo(tuples, from, to) = {new}
                    <6>1. \A y \in RowsOf(tuples, to) \X RowsOf(tuples, from) :
                              y[1] = m /\ y[2] = t
                        BY <3>1, <4>1
                    <6>2. <<m, t>> \in RowsOf(tuples, to) \X RowsOf(tuples, from)
                        BY <3>1, <4>1
                    <6> QED BY <3>3, <6>1, <6>2 DEF MovedTo
                <5> QED BY <2>1, <2>5, <3>1, <4>1, <5>1, MoveRelationSplit
            <4>3. LaterExpiry(m.exp, t.exp) = LaterExpiry(t.exp, m.exp)
                <5>1. m.exp \in Expiries /\ t.exp \in Expiries
                    BY <1>1 DEF Table, Tuple, RowsOf
                <5> QED BY <5>1 DEF LaterExpiry, Expiries
            <4>4. MkTuple(to, m.src, LaterExpiry(m.exp, t.exp)) =
                      [m EXCEPT !.exp = LaterExpiry(t.exp, m.exp)]
                BY <1>1, <4>1, <4>3
                   DEF MkTuple, MkEntry, RowsOf, EntryOf, Table, Tuple
            <4> QED BY <2>2, <2>3, <2>5, <3>1, <4>1, <4>2, <4>4, SameOperators
                    DEF Memory!MemChangeRelation
        <3> QED BY <3>2, <3>3
    <2> QED BY <2>4, <2>5
<1> QED BY <1>3, <1>4, <1>5 DEF MembersOnBoth

LEMMA NamesItself ==
    ASSUME PlainSpelling, NEW g \in Groups, NEW x
    PROVE  TokenNames(x, g) <=> IsGroup(x, g)
BY DEF PlainSpelling, TokenNames, IsGroup

\* Managers by group, before and after: one comes, one goes.
LEMMA ManagersByGroup ==
    ASSUME Inv, NEW g \in Groups, NEW x
    PROVE  /\ managers' = managers \cup {[grp |-> g, tok |-> x]} =>
                  [h \in Groups |-> ManagedBy(h)]' =
                  [[h \in Groups |-> ManagedBy(h)] EXCEPT ![g] = @ \cup {x}]
           /\ managers' = managers \ {[grp |-> g, tok |-> x]} =>
                  [h \in Groups |-> ManagedBy(h)]' =
                  [[h \in Groups |-> ManagedBy(h)] EXCEPT ![g] = @ \ {x}]
<1>1. \A m \in managers : m = [grp |-> m.grp, tok |-> m.tok]
    BY DEF Inv, StoreOK, Manager
<1>2. ASSUME managers' = managers \cup {[grp |-> g, tok |-> x]},
             NEW h \in Groups
      PROVE  ManagedBy(h)' = IF h = g THEN ManagedBy(h) \cup {x} ELSE ManagedBy(h)
    <2> DEFINE new == [grp |-> g, tok |-> x]
    <2>1. \A y : /\ y \in ManagedBy(h)' <=> \E m \in managers' : m.grp = h /\ m.tok = y
                 /\ y \in ManagedBy(h) <=> \E m \in managers : m.grp = h /\ m.tok = y
        BY DEF ManagedBy
    <2>2. \A m : m \in managers' <=> m \in managers \/ m = new
        BY <1>2
    <2>3. new.grp = g /\ new.tok = x
        OBVIOUS
    <2>4. \A y : y \in ManagedBy(h)' <=> y \in ManagedBy(h) \/ (h = g /\ y = x)
        BY <2>1, <2>2, <2>3
    <2> QED BY <2>4
<1>3. ASSUME managers' = managers \ {[grp |-> g, tok |-> x]},
             NEW h \in Groups
      PROVE  ManagedBy(h)' = IF h = g THEN ManagedBy(h) \ {x} ELSE ManagedBy(h)
    BY <1>1, <1>3 DEF ManagedBy
<1> QED BY <1>2, <1>3

LEMMA GroupsAgree ==
    ASSUME PlainSpelling, Inv, NEW p \in Procs
    PROVE  GroupsOnBoth(p)
<1> DEFINE r == req[p]
           M == [h \in Groups |-> ManagedBy(h)]
<1>1. /\ r \in Requests \cup {NoRequest} /\ Fits(pc[p], r, todo[p])
      /\ owner \in [Groups -> Owners \cup {Absent}]
      /\ managers \in SUBSET Manager
    BY DEF Inv, StoreOK, LocalOK
<1>2. ASSUME UNCHANGED managers
      PROVE  UNCHANGED M
    BY <1>2 DEF ManagedBy
<1>3. ASSUME UNCHANGED source
      PROVE  UNCHANGED {x \in Sources : source[x] = "present"}
    BY <1>3
<1>4. CreateGroup(p) => Memory!MemCreateGroup(r.grp, Local)
    BY <1>2, <1>3 DEF CreateGroup, Memory!MemCreateGroup
<1>5. ASSUME DeleteGroup(p)
      PROVE  Memory!MemDeleteGroup(r.grp)
    <2> DEFINE g == r.grp
    <2>1. g \in Groups
        BY <1>1, <1>5, RequestShape DEF DeleteGroup, Doing, PersonOps
    <2>2. /\ owner' = [owner EXCEPT ![g] = Absent]
          /\ tuples' = {t \in tuples : t.obj # g /\ ~IsGroup(t.sub, g)}
          /\ managers' = {m \in managers : m.grp # g /\ ~TokenNames(m.tok, g)}
          /\ UNCHANGED <<source, reserved>>
        BY <1>5 DEF DeleteGroup, DropGroupTuples, DropGroupManagers
    <2>3. managers' = {m \in managers : m.grp # g /\ ~IsGroup(m.tok, g)}
        BY <2>1, <2>2, NamesItself
    <2>4. \A h \in Groups :
              ManagedBy(h)' = IF h = g THEN {}
                              ELSE {x \in ManagedBy(h) : ~IsGroup(x, g)}
        BY <2>3 DEF ManagedBy
    <2>5. M' = [h \in Groups |-> IF h = g THEN {}
                                 ELSE {x \in M[h] : ~IsGroup(x, g)}]
        BY <2>4
    <2>6. \A x : Memory!IsGroup(x, g) = IsGroup(x, g)
        BY SameOperators
    <2> QED BY <1>3, <2>2, <2>5, <2>6 DEF Memory!MemDeleteGroup
<1>6. ASSUME NEW x, \/ AddManager(p) /\ x = r.tok
                    \/ AddNextManager(p) /\ x = NextOf(p)
      PROVE  Memory!MemAddManager(r.grp, x)
    <2>1. r.grp \in Groups
        BY <1>1, <1>6, RequestShape
           DEF AddManager, AddNextManager, Doing, PersonOps, Fits
    <2>2. /\ managers' = managers \cup {[grp |-> r.grp, tok |-> x]}
          /\ UNCHANGED <<owner, tuples, source, reserved>>
        BY <1>6 DEF AddManager, AddNextManager
    <2>3. M' = [M EXCEPT ![r.grp] = M[r.grp] \cup {x}]
        BY <2>1, <2>2, ManagersByGroup
    <2> QED BY <1>3, <2>2, <2>3
            DEF Memory!MemAddManager, Memory!MemSetManagers
<1>7. ASSUME RemoveManager(p)
      PROVE  Memory!MemRemoveManager(r.grp, r.tok)
    <2>1. r.grp \in Groups
        BY <1>1, <1>7, RequestShape DEF RemoveManager, Doing, PersonOps
    <2>2. /\ managers' = managers \ {[grp |-> r.grp, tok |-> r.tok]}
          /\ UNCHANGED <<owner, tuples, source, reserved>>
        BY <1>7 DEF RemoveManager
    <2>3. M' = [M EXCEPT ![r.grp] = M[r.grp] \ {r.tok}]
        BY <2>1, <2>2, ManagersByGroup
    <2> QED BY <1>3, <2>2, <2>3
            DEF Memory!MemRemoveManager, Memory!MemSetManagers
<1> QED BY <1>4, <1>5, <1>6, <1>7 DEF GroupsOnBoth

\* A group is in use on one store as it is on the other.
LEMMA SameUse ==
    ASSUME PlainSpelling, Inv, NEW T, NEW g \in Groups
    PROVE  InUse(T, managers, g) <=> Memory!MemUsed(T, g)
<1>1. \A m \in managers : m.grp \in Groups
    BY DEF Inv, StoreOK, Manager
<1>2. (\E m \in managers : m.grp = g) <=> ManagedBy(g) # {}
    BY DEF ManagedBy
<1>3. (\E m \in managers : TokenNames(m.tok, g)) <=>
          \E h \in Groups : \E x \in ManagedBy(h) : IsGroup(x, g)
    BY <1>1, NamesItself DEF ManagedBy
<1> QED BY <1>2, <1>3, SameOperators DEF InUse, Memory!MemUsed

\* The rows of the source become the file on both: the one lets an entry of
\* somebody else stand in, the other does not, and there is none.
LEMMA SameReplacement ==
    ASSUME NEW s, NEW file,
           \A t \in tuples : EntryOf(t) \in file => t.src = s
    PROVE  Memory!MemReplaceRows(s, file) = ReplaceRows(tuples, s, file)
<1> DEFINE kept == {t \in tuples : t.src = s => EntryOf(t) \in file}
           old  == OwnRows(tuples, s)
<1>1. kept = tuples \ {t \in old : EntryOf(t) \notin file}
    BY DEF OwnRows
<1>2. \A e \in file : RowsOf(kept, e) = {} <=> RowsOf(old, e) = {}
    BY DEF RowsOf, OwnRows
<1>3. {e \in file : RowsOf(kept, e) = {}} = {e \in file : RowsOf(old, e) = {}}
    BY <1>2
<1>4. Memory!MemReplaceRows(s, file) =
          (tuples \ {t \in old : EntryOf(t) \notin file}) \cup
              {MkTuple(e, s, Forever) : e \in {x \in file : RowsOf(old, x) = {}}}
    BY SameOperators DEF Memory!MemReplaceRows
<1> QED BY <1>1, <1>3, <1>4 DEF ReplaceRows

LEMMA SourcesAgree ==
    ASSUME PlainSpelling, Inv, SeqInv, NEW p \in Procs
    PROVE  SourcesOnBoth(p)
<1> DEFINE r == req[p]
           S == {x \in Sources : source[x] = "present"}
<1>1. /\ r \in Requests \cup {NoRequest} /\ Fits(pc[p], r, todo[p])
      /\ source \in [Sources -> {"new", "present", "deleted"}]
      /\ reserved \in [Sources -> SUBSET Groups]
    BY DEF Inv, StoreOK, LocalOK
<1>2. ASSUME UNCHANGED managers
      PROVE  UNCHANGED [h \in Groups |-> ManagedBy(h)]
    BY <1>2 DEF ManagedBy
<1>3. ASSUME Replace(p)
      PROVE  Memory!MemReplaceTuples(r.src, r.file)
    <2>1. /\ tuples' = ReplaceRows(tuples, r.src, r.file)
          /\ owner' = ReplaceOwners(owner, tuples, managers, r.src, r.file)
          /\ UNCHANGED <<managers, source, reserved>>
        BY <1>3 DEF Replace
    <2>2. tuples' = Memory!MemReplaceRows(r.src, r.file)
        BY <1>3, <2>1, FileIsFree, SameReplacement
    <2>3. \A g \in Groups :
              InUse(tuples', managers, g) <=> Memory!MemUsed(tuples', g)
        BY SameUse
    <2>4. owner' = [g \in Groups |->
              LET whose == IF owner[g] = Absent /\ g \in GroupsOf(r.file)
                           THEN r.src ELSE owner[g]
              IN  IF whose = r.src /\ ~Memory!MemUsed(tuples', g)
                  THEN Absent ELSE whose]
        BY <2>1, <2>3 DEF ReplaceOwners
    <2>5. Memory!GroupsOf(r.file) = GroupsOf(r.file)
        BY SameOperators
    <2> QED BY <1>2, <2>1, <2>2, <2>4, <2>5 DEF Memory!MemReplaceTuples
<1>4. ASSUME CreateSource(p)
      PROVE  Memory!MemCreateSource(r.src, r.names)
    <2>1. r.src \in Sources
        BY <1>1, <1>4, RequestShape DEF CreateSource, Doing
    <2>2. S' = S \cup {r.src}
        BY <1>1, <1>4, <2>1 DEF CreateSource
    <2> QED BY <1>2, <1>4, <2>2
            DEF CreateSource, Memory!MemCreateSource, Memory!MemSetSource
<1>5. ASSUME UpdateSource(p)
      PROVE  Memory!MemUpdateSource(r.src, r.names)
    <2>1. r.src \in Sources
        BY <1>1, <1>5, RequestShape DEF UpdateSource, Doing
    <2>2. /\ UNCHANGED <<owner, tuples, managers, source>>
          /\ S' = S
        BY <1>5 DEF UpdateSource
    <2>3. CASE r.src \in S
        BY <1>2, <1>5, <2>2, <2>3
           DEF UpdateSource, Memory!MemUpdateSource, Memory!MemSetSource
    <2>4. CASE r.src \notin S
        BY <1>2, <1>5, <2>1, <2>2, <2>4
           DEF UpdateSource, Memory!MemUpdateSource, Memory!memVars
    <2> QED BY <2>3, <2>4
<1>6. ASSUME DeleteSource(p)
      PROVE  Memory!MemDeleteSource(r.src)
    <2>1. r.src \in Sources
        BY <1>1, <1>6, RequestShape DEF DeleteSource, Fits
    <2>2. S' = S \ {r.src}
        BY <1>1, <1>6, <2>1 DEF DeleteSource
    <2>3. tuples' = {t \in tuples : t.src # r.src}
        BY <1>6 DEF DeleteSource, OwnRows
    <2> QED BY <1>2, <1>6, <2>2, <2>3
            DEF DeleteSource, Reowned, Memory!MemDeleteSource
<1>7. ASSUME Adopt(p)
      PROVE  Memory!MemMoveToSource(NoSource, Local)
    BY <1>2, <1>7 DEF Adopt, Reowned, MoveRows, Memory!MemMoveToSource
<1> QED BY <1>3, <1>4, <1>5, <1>6, <1>7 DEF SourcesOnBoth

\* Whatever the service makes of its tables in Postgres, one call after the
\* other, the memory store may make of its maps too ("as in the Postgres
\* store", memory.go:650), as long as no group id is spelled with "_".
THEOREM StoresAgreeSequentially ==
    ASSUME OneAtATime, PlainSpelling
    PROVE  Spec => StoresAgree
<1> DEFINE Both == \A p \in Procs :
                       MembersOnBoth(p) /\ GroupsOnBoth(p) /\ SourcesOnBoth(p)
<1>1. Init => Memory!MemInit(Registered, InitReserved)
    BY RoleProviderAssumption DEF Init, Memory!MemInit, ManagedBy
<1>2. Inv /\ SeqInv => [Both]_vars
    BY MembersAgree, GroupsAgree, SourcesAgree
<1>3. Spec => [][Both]_vars
    BY <1>2, SeqAlways, PTL
<1> QED BY <1>1, <1>3, PTL DEF Spec, StoresAgree
=============================================================================
