------------------------ MODULE RoleProviderProofs ------------------------
(***************************************************************************)
(* Theorems about RoleProvider, for any sets of groups, people, sources    *)
(* and calls, any number of calls running at once, any clock, with and     *)
(* without calls that are cut short.                                       *)
(*                                                                         *)
(* The lemmas about the operations of the store come first, what they      *)
(* return for every content: rows, one per entry, so that the unique index *)
(* idx_tuple_uniq never has anything to refuse.                            *)
(*                                                                         *)
(* TypeOK is not inductive: what a step reads of its call exists because   *)
(* of where the call is.  Fits says which calls can be where, and Inv adds *)
(* it to the types.                                                        *)
(***************************************************************************)
EXTENDS RoleProvider, TLAPS

-----------------------------------------------------------------------------
(* The store.                                                              *)

\* A table the unique index accepts.
Table(T) == T \in SUBSET Tuple /\ OneRowPerEntry(T)

LEMMA EntryTyped ==
    ASSUME NEW t \in Tuple
    PROVE  EntryOf(t) \in Entry
BY DEF Tuple, Entry, EntryOf

LEMMA MkTupleTyped ==
    ASSUME NEW e \in Entry, NEW s \in Owners, NEW x \in Expiries
    PROVE  /\ MkTuple(e, s, x) \in Tuple
           /\ EntryOf(MkTuple(e, s, x)) = e
           /\ MkTuple(e, s, x).src = s
           /\ MkTuple(e, s, x).exp = x
           /\ MkTuple(e, s, x).obj = e.obj
BY DEF Tuple, Entry, EntryOf, MkTuple

LEMMA LaterExpiryTyped ==
    ASSUME NEW x \in Expiries, NEW y \in Expiries
    PROVE  LaterExpiry(x, y) \in Expiries
BY DEF LaterExpiry, Expiries

\* Rows taken away leave a table.
LEMMA SubTable ==
    ASSUME NEW T, Table(T), NEW S, S \subseteq T
    PROVE  Table(S)
BY DEF Table, OneRowPerEntry

\* So do rows of new entries, one each.
LEMMA TableWithNew ==
    ASSUME NEW T, Table(T), NEW S, Table(S),
           \A t1 \in T, t2 \in S : EntryOf(t1) # EntryOf(t2)
    PROVE  Table(T \cup S)
BY DEF Table, OneRowPerEntry

\* Two rows are of different entries unless they are the same row: what is
\* left when the rows of an entry are taken out has no row of it.
LEMMA WithoutRows ==
    ASSUME NEW T, NEW e
    PROVE  \A t \in T \ RowsOf(T, e) : EntryOf(t) # e
BY DEF RowsOf

\* Setting one expiry everywhere in a table keeps it a table.
LEMMA ExpirySet ==
    ASSUME NEW T, Table(T), NEW x \in Expiries
    PROVE  Table({[t EXCEPT !.exp = x] : t \in T})
<1> DEFINE S == {[t EXCEPT !.exp = x] : t \in T}
<1>1. \A t \in T : /\ [t EXCEPT !.exp = x] \in Tuple
                   /\ EntryOf([t EXCEPT !.exp = x]) = EntryOf(t)
    BY DEF Table, Tuple, EntryOf
<1>2. S \in SUBSET Tuple
    BY <1>1
<1>3. ASSUME NEW s1 \in S, NEW s2 \in S, EntryOf(s1) = EntryOf(s2)
      PROVE  s1 = s2
    <2>1. PICK t1 \in T : s1 = [t1 EXCEPT !.exp = x]
        OBVIOUS
    <2>2. PICK t2 \in T : s2 = [t2 EXCEPT !.exp = x]
        OBVIOUS
    <2>3. EntryOf(t1) = EntryOf(t2)
        BY <1>1, <1>3, <2>1, <2>2
    <2>4. t1 = t2
        BY <2>3 DEF Table, OneRowPerEntry
    <2> QED BY <2>1, <2>2, <2>4
<1> QED BY <1>2, <1>3 DEF Table, OneRowPerEntry

\* AddMember (postgres.go:415-431) keeps one row per entry.
LEMMA PutMemberTable ==
    ASSUME NEW T, Table(T), NEW e \in Entry, NEW s \in Owners,
           NEW x \in Expiries
    PROVE  Table(PutMember(T, e, s, x))
<1>1. CASE RowsOf(T, e) = {}
    <2>1. Table({MkTuple(e, s, x)})
        BY MkTupleTyped DEF Table, OneRowPerEntry
    <2>2. \A t \in T : EntryOf(t) # e
        BY <1>1 DEF RowsOf
    <2>3. Table(T \cup {MkTuple(e, s, x)})
        BY <2>1, <2>2, MkTupleTyped, TableWithNew
    <2> QED BY <1>1, <2>3 DEF PutMember
<1>2. CASE RowsOf(T, e) # {}
    <2> DEFINE S == {[t EXCEPT !.exp = x] : t \in RowsOf(T, e)}
    <2>1. Table(T \ RowsOf(T, e)) /\ Table(RowsOf(T, e))
        BY SubTable DEF RowsOf
    <2>2. Table(S)
        BY <2>1, ExpirySet
    <2>3. \A t \in S : EntryOf(t) = e
        BY <2>1 DEF RowsOf, EntryOf, Table, Tuple
    <2>4. Table((T \ RowsOf(T, e)) \cup S)
        BY <2>1, <2>2, <2>3, WithoutRows, TableWithNew
    <2> QED BY <1>2, <2>4 DEF PutMember
<1> QED BY <1>1, <1>2

\* An entry has at most one row.
LEMMA OneRow ==
    ASSUME NEW T, Table(T), NEW e, NEW t1 \in RowsOf(T, e),
           NEW t2 \in RowsOf(T, e)
    PROVE  t1 = t2
BY DEF Table, OneRowPerEntry, RowsOf

\* The row ChangeRelation writes.
MovedTo(T, from, to) ==
    IF RowsOf(T, to) = {}
    THEN {MkTuple(to, t.src, t.exp) : t \in RowsOf(T, from)}
    ELSE {MkTuple(to, t[1].src, LaterExpiry(t[1].exp, t[2].exp)) :
             t \in RowsOf(T, to) \X RowsOf(T, from)}

LEMMA MoveRelationSplit ==
    ASSUME NEW T, NEW from, NEW to
    PROVE  MoveRelation(T, from, to) =
               (T \ (RowsOf(T, from) \cup RowsOf(T, to))) \cup
               MovedTo(T, from, to)
BY DEF MoveRelation, MovedTo

LEMMA MovedToTable ==
    ASSUME NEW T, Table(T), NEW from, NEW to \in Entry
    PROVE  /\ Table(MovedTo(T, from, to))
           /\ \A t \in MovedTo(T, from, to) : EntryOf(t) = to
<1>1. CASE RowsOf(T, to) = {}
    <2>1. \A t \in MovedTo(T, from, to) :
              \E x \in RowsOf(T, from) : t = MkTuple(to, x.src, x.exp)
        BY <1>1 DEF MovedTo
    <2>2. \A x \in RowsOf(T, from) : x.src \in Owners /\ x.exp \in Expiries
        BY DEF Table, Tuple, RowsOf
    <2>3. \A t \in MovedTo(T, from, to) : t \in Tuple /\ EntryOf(t) = to
        BY <2>1, <2>2, MkTupleTyped
    <2>4. \A t1, t2 \in MovedTo(T, from, to) : t1 = t2
        BY <2>1, OneRow
    <2> QED BY <2>3, <2>4 DEF Table, OneRowPerEntry
<1>2. CASE RowsOf(T, to) # {}
    <2>1. \A t \in MovedTo(T, from, to) :
              \E x \in RowsOf(T, to), y \in RowsOf(T, from) :
                  t = MkTuple(to, x.src, LaterExpiry(x.exp, y.exp))
        BY <1>2 DEF MovedTo
    <2>2. \A x \in T : x.src \in Owners /\ x.exp \in Expiries
        BY DEF Table, Tuple
    <2>3. \A x \in RowsOf(T, to), y \in RowsOf(T, from) :
              x.src \in Owners /\ LaterExpiry(x.exp, y.exp) \in Expiries
        BY <2>2, LaterExpiryTyped DEF RowsOf
    <2>4. \A t \in MovedTo(T, from, to) : t \in Tuple /\ EntryOf(t) = to
        BY <2>1, <2>3, MkTupleTyped
    <2>5. \A t1, t2 \in MovedTo(T, from, to) : t1 = t2
        BY <2>1, OneRow
    <2> QED BY <2>4, <2>5 DEF Table, OneRowPerEntry
<1> QED BY <1>1, <1>2

\* ChangeRelation (postgres.go:441-469) keeps one row per entry: moving the
\* row never meets another one.
LEMMA MoveRelationTable ==
    ASSUME NEW T, Table(T), NEW from \in Entry, NEW to \in Entry
    PROVE  Table(MoveRelation(T, from, to))
<1> DEFINE rest == T \ (RowsOf(T, from) \cup RowsOf(T, to))
<1>1. Table(rest)
    BY SubTable
<1>2. \A t \in rest : EntryOf(t) # to
    BY DEF RowsOf
<1>3. Table(rest \cup MovedTo(T, from, to))
    BY <1>1, <1>2, MovedToTable, TableWithNew
<1> QED BY <1>3, MoveRelationSplit

\* Whoever counts as a member of a group at some time still does so after a
\* change of relations.
LEMMA LaterOutlasts ==
    ASSUME NEW x \in Expiries, NEW y \in Expiries, NEW time \in Nat,
           \/ x = Forever \/ (x \in Nat /\ x > time)
           \/ y = Forever \/ (y \in Nat /\ y > time)
    PROVE  LaterExpiry(x, y) = Forever \/ LaterExpiry(x, y) > time
BY EntriesAssumption DEF LaterExpiry, Expiries

LEMMA LiveExpiry ==
    ASSUME NEW t \in Tuple, NEW time \in Nat
    PROVE  Live(t, time) <=> (t.exp = Forever \/ (t.exp \in Nat /\ t.exp > time))
BY EntriesAssumption DEF Live, Tuple, Expiries

LEMMA MoveRelationKeepsMembers ==
    ASSUME NEW T, Table(T), NEW from \in Entry, NEW to \in Entry,
           from.obj = to.obj, from.sub = to.sub, RowsOf(T, from) # {},
           NEW g, NEW sub, NEW time \in Nat, Counts(T, g, sub, time)
    PROVE  Counts(MoveRelation(T, from, to), g, sub, time)
<1>1. PICK t \in T : Live(t, time) /\ t.obj = g /\ t.sub = sub
    BY DEF Counts, LiveOf
<1>2. t \in Tuple /\ T \in SUBSET Tuple
    BY DEF Table
<1>3. PICK f \in RowsOf(T, from) : TRUE
    OBVIOUS
<1>4. f \in Tuple /\ f.src \in Owners /\ f.exp \in Expiries
    BY <1>2 DEF RowsOf, Tuple
<1>5. CASE EntryOf(t) \notin {from, to}
    <2>1. t \in MoveRelation(T, from, to)
        BY <1>5, MoveRelationSplit DEF RowsOf
    <2> QED BY <1>1, <2>1 DEF Counts, LiveOf
<1>6. CASE EntryOf(t) \in {from, to}
    <2>1. to.obj = g /\ to.sub = sub
        BY <1>1, <1>2, <1>6 DEF EntryOf
    <2>2. SUFFICES \E x \in Expiries, s \in Owners :
              /\ MkTuple(to, s, x) \in MovedTo(T, from, to)
              /\ x = Forever \/ (x \in Nat /\ x > time)
        <3>1. PICK x \in Expiries, s \in Owners :
                  /\ MkTuple(to, s, x) \in MovedTo(T, from, to)
                  /\ x = Forever \/ (x \in Nat /\ x > time)
            BY <2>2
        <3>2. MkTuple(to, s, x) \in MoveRelation(T, from, to)
            BY <3>1, MoveRelationSplit
        <3>3. /\ MkTuple(to, s, x) \in Tuple
              /\ MkTuple(to, s, x).exp = x
              /\ MkTuple(to, s, x).obj = g /\ MkTuple(to, s, x).sub = sub
            BY <2>1, MkTupleTyped DEF MkTuple
        <3>4. Live(MkTuple(to, s, x), time)
            BY <3>1, <3>3, LiveExpiry
        <3> QED BY <3>2, <3>3, <3>4 DEF Counts, LiveOf
    <2>3. CASE RowsOf(T, to) = {}
        <3>1. t = f
            BY <1>3, <1>6, <2>3, OneRow DEF RowsOf
        <3>2. MkTuple(to, f.src, f.exp) \in MovedTo(T, from, to)
            BY <2>3 DEF MovedTo
        <3> QED BY <1>1, <1>4, <3>1, <3>2, LiveExpiry
    <2>4. CASE RowsOf(T, to) # {}
        <3>1. PICK h \in RowsOf(T, to) : TRUE
            BY <2>4
        <3>2. h \in Tuple /\ h.src \in Owners /\ h.exp \in Expiries
            BY <1>2 DEF RowsOf, Tuple
        <3>3. t = f \/ t = h
            BY <1>6, OneRow DEF RowsOf
        <3>4. <<h, f>> \in RowsOf(T, to) \X RowsOf(T, from)
            OBVIOUS
        <3>5. MkTuple(to, h.src, LaterExpiry(h.exp, f.exp))
                  \in MovedTo(T, from, to)
            BY <2>4, <3>4 DEF MovedTo
        <3>6. \/ h.exp = Forever \/ (h.exp \in Nat /\ h.exp > time)
              \/ f.exp = Forever \/ (f.exp \in Nat /\ f.exp > time)
            BY <1>1, <1>4, <3>2, <3>3, LiveExpiry
        <3>7. LaterExpiry(h.exp, f.exp) \in Expiries
            BY <1>4, <3>2, LaterExpiryTyped
        <3>8. \/ LaterExpiry(h.exp, f.exp) = Forever
              \/ /\ LaterExpiry(h.exp, f.exp) \in Nat
                 /\ LaterExpiry(h.exp, f.exp) > time
            BY <1>4, <3>2, <3>6, <3>7, LaterOutlasts DEF Expiries
        <3> QED BY <3>2, <3>5, <3>7, <3>8
    <2> QED BY <2>3, <2>4
<1> QED BY <1>5, <1>6

\* A sync (postgres.go:828-968) keeps one row per entry: an entry somebody
\* else has a row of gets no second one.
LEMMA ReplaceRowsTable ==
    ASSUME NEW T, Table(T), NEW s \in Owners, NEW file \in SUBSET Entry
    PROVE  Table(ReplaceRows(T, s, file))
<1> DEFINE kept == {t \in T : t.src = s => EntryOf(t) \in file}
           new  == {e \in file : RowsOf(kept, e) = {}}
           rows == {MkTuple(e, s, Forever) : e \in new}
<1>1. Table(kept)
    BY SubTable
<1>2. \A t \in rows : \E e \in new : t = MkTuple(e, s, Forever)
    OBVIOUS
<1>3. Forever \in Expiries
    BY DEF Expiries
<1>4. \A e \in new : /\ MkTuple(e, s, Forever) \in Tuple
                     /\ EntryOf(MkTuple(e, s, Forever)) = e
    BY <1>3, MkTupleTyped
<1>5. Table(rows)
    <2>1. \A t1, t2 \in rows : EntryOf(t1) = EntryOf(t2) => t1 = t2
        BY <1>2, <1>4
    <2> QED BY <1>2, <1>4, <2>1 DEF Table, OneRowPerEntry
<1>6. \A t1 \in kept, t2 \in rows : EntryOf(t1) # EntryOf(t2)
    BY <1>2, <1>4 DEF RowsOf
<1>7. Table(kept \cup rows)
    BY <1>1, <1>5, <1>6, TableWithNew
<1> QED BY <1>7 DEF ReplaceRows

\* What a sync leaves is of the source and in the file, or was there and is
\* of somebody else.
LEMMA ReplaceRowsOrigin ==
    ASSUME NEW T, NEW s \in Owners, NEW file \in SUBSET Entry,
           NEW t \in ReplaceRows(T, s, file)
    PROVE  \/ t \in T /\ t.src # s
           \/ t.src = s /\ EntryOf(t) \in file
<1>1. \A e \in file : /\ MkTuple(e, s, Forever).src = s
                      /\ EntryOf(MkTuple(e, s, Forever)) = e
    <2>1. Forever \in Expiries
        BY DEF Expiries
    <2> QED BY <2>1, MkTupleTyped
<1>2. \/ t \in {x \in T : x.src = s => EntryOf(x) \in file}
      \/ \E e \in file : t = MkTuple(e, s, Forever)
    BY DEF ReplaceRows
<1>3. CASE t \in {x \in T : x.src = s => EntryOf(x) \in file}
    BY <1>3
<1>4. CASE \E e \in file : t = MkTuple(e, s, Forever)
    BY <1>1, <1>4
<1> QED BY <1>2, <1>3, <1>4

\* Entries of all others survive a sync.
LEMMA ReplaceRowsKeeps ==
    ASSUME NEW T, NEW s, NEW file, NEW t \in T, t.src # s
    PROVE  t \in ReplaceRows(T, s, file)
BY DEF ReplaceRows

\* After a sync the source has exactly the entries of its file, unless an
\* entry of the file is somebody else's already.
LEMMA ReplaceRowsExact ==
    ASSUME NEW T, NEW s \in Owners, NEW file \in SUBSET Entry,
           \A t \in T : EntryOf(t) \in file => t.src = s
    PROVE  {EntryOf(t) : t \in OwnRows(ReplaceRows(T, s, file), s)} = file
<1> DEFINE R == ReplaceRows(T, s, file)
<1>1. ASSUME NEW t \in OwnRows(R, s)
      PROVE  EntryOf(t) \in file
    BY <1>1, ReplaceRowsOrigin DEF OwnRows
<1>2. ASSUME NEW e \in file
      PROVE  \E t \in OwnRows(R, s) : EntryOf(t) = e
    <2> DEFINE kept == {t \in T : t.src = s => EntryOf(t) \in file}
    <2>1. CASE RowsOf(kept, e) = {}
        <3>1. MkTuple(e, s, Forever) \in R
            BY <2>1 DEF ReplaceRows
        <3>2. Forever \in Expiries
            BY DEF Expiries
        <3>3. /\ MkTuple(e, s, Forever).src = s
              /\ EntryOf(MkTuple(e, s, Forever)) = e
            BY <3>2, MkTupleTyped
        <3> QED BY <3>1, <3>3 DEF OwnRows
    <2>2. CASE RowsOf(kept, e) # {}
        <3>1. PICK t \in kept : EntryOf(t) = e
            BY <2>2 DEF RowsOf
        <3>2. t \in R /\ t.src = s
            BY <3>1 DEF ReplaceRows
        <3> QED BY <3>1, <3>2 DEF OwnRows
    <2> QED BY <2>1, <2>2
<1> QED BY <1>1, <1>2

\* Adopt (postgres.go:972-993) changes whose a row is and nothing else.
LEMMA MoveRowsTable ==
    ASSUME NEW T, Table(T), NEW from \in Owners, NEW to \in Owners
    PROVE  Table(MoveRows(T, from, to))
<1> DEFINE Moved(t) == IF t.src = from THEN [t EXCEPT !.src = to] ELSE t
<1>1. \A t \in T : Moved(t) \in Tuple /\ EntryOf(Moved(t)) = EntryOf(t)
    BY DEF Table, Tuple, EntryOf
<1>2. \A x \in MoveRows(T, from, to) : \E t \in T : x = Moved(t)
    BY DEF MoveRows
<1>3. \A t1, t2 \in T : EntryOf(t1) = EntryOf(t2) => Moved(t1) = Moved(t2)
    BY DEF Table, OneRowPerEntry
<1> HIDE DEF Moved
<1> QED BY <1>1, <1>2, <1>3 DEF Table, OneRowPerEntry

\* The pruning of a sync only makes rows of the source, and only for groups
\* the file fills, and only takes rows of the source away.
LEMMA ReplaceOwnersCases ==
    ASSUME NEW held \in [Groups -> Owners \cup {Absent}], NEW T, NEW M,
           NEW s \in Owners, NEW file, NEW g \in Groups
    PROVE  \/ ReplaceOwners(held, T, M, s, file)[g] = held[g]
           \/ /\ ReplaceOwners(held, T, M, s, file)[g] = s
              /\ held[g] = Absent /\ g \in GroupsOf(file)
           \/ /\ ReplaceOwners(held, T, M, s, file)[g] = Absent
              /\ held[g] = s
BY DEF ReplaceOwners

LEMMA ReplaceOwnersTyped ==
    ASSUME NEW held \in [Groups -> Owners \cup {Absent}], NEW T, NEW M,
           NEW s \in Owners, NEW file
    PROVE  ReplaceOwners(held, T, M, s, file) \in
               [Groups -> Owners \cup {Absent}]
BY DEF ReplaceOwners

LEMMA ReownedTyped ==
    ASSUME NEW held \in [Groups -> Owners \cup {Absent}],
           NEW from, NEW to \in Owners
    PROVE  Reowned(held, from, to) \in [Groups -> Owners \cup {Absent}]
BY DEF Reowned

-----------------------------------------------------------------------------
(* The calls.                                                              *)

PersonOps ==
    {"AddMember", "RemoveMember", "ChangeRelation", "CreateGroup",
     "DeleteGroup", "AddManager", "RemoveManager"}

\* The calls r that can be at a label, with S left of the loop there.
Fits(label, r, S) ==
    /\ label \in {"getGroup", "listManagers"} =>
           r.op \in PersonOps \ {"CreateGroup"}
    /\ label = "groupEdges" => r.op = "AddMember"
    /\ label = "listSources" => r.op = "CreateGroup"
    /\ label = "checkToken" =>
           /\ r.op \in {"CreateGroup", "AddManager"}
           /\ S \subseteq Tokens /\ S # {}
    /\ label \in {"write", "record"} => r.op \in PersonOps
    /\ label \in {"addManager", "recordManager"} =>
           r.op = "CreateGroup" /\ S \subseteq Tokens /\ S # {}
    /\ label = "getSource" =>
           r.op \in {"RunSync", "UpdateSource", "DeleteSource"}
    /\ label \in {"groupOwners", "syncReserved", "replace"} =>
           r.op = "RunSync"
    /\ label \in {"listGroups", "storeSource"} =>
           r.op \in {"CreateSource", "UpdateSource"}
    /\ label \in {"deleteSource", "adopt"} => r.op = "DeleteSource"
    /\ label = "recordAdopted" =>
           r.op = "DeleteSource" /\ S \subseteq Groups /\ S # {}

StoreOK ==
    /\ owner \in [Groups -> Owners \cup {Absent}]
    /\ Table(tuples)
    /\ managers \in SUBSET Manager
    /\ source \in [Sources -> {"new", "present", "deleted"}]
    /\ reserved \in [Sources -> SUBSET Groups]
    /\ changes \in SUBSET Change
    /\ now \in Nat

LocalOK ==
    /\ pc \in [Procs -> Label]
    /\ req \in [Procs -> Requests \cup {NoRequest}]
    /\ toks \in [Procs -> SUBSET Tokens]
    /\ todo \in [Procs -> SUBSET (Tokens \cup Groups)]
    /\ \A p \in Procs : Fits(pc[p], req[p], todo[p])

Inv == StoreOK /\ LocalOK

LEMMA InvImpliesTypeOK == Inv => TypeOK
BY RoleProviderAssumption DEF Inv, StoreOK, LocalOK, TypeOK, Table

-----------------------------------------------------------------------------
(* What a call brings along.                                               *)

LEMMA RequestShape ==
    ASSUME NEW r \in Requests \cup {NoRequest}
    PROVE  /\ r.op \in PersonOps => r.grp \in Groups
           /\ r.op = "AddMember" => r.exp \in Expiries
           /\ r.op \in {"AddMember", "RemoveMember", "ChangeRelation"} =>
                  r.rel \in Relations /\ r.sub \in Subjects
           /\ r.op = "ChangeRelation" => r.to \in Relations
           /\ r.op = "CreateGroup" => r.toks \in SUBSET Tokens
           /\ r.op \in {"AddManager", "RemoveManager"} => r.tok \in Tokens
           /\ r.op \in {"RunSync", "CreateSource", "UpdateSource",
                        "DeleteSource"} => r.src \in Sources
           /\ r.op = "RunSync" => r.file \in SUBSET Entry
           /\ r.op \in {"CreateSource", "UpdateSource"} =>
                  r.names \in SUBSET Groups
           /\ r # NoRequest => r.op \in PersonOps \cup
                  {"RunSync", "CreateSource", "UpdateSource", "DeleteSource"}
           /\ r \in PersonRequest => r.op \in PersonOps
<1>1. r = NoRequest => r.op = "none" /\ r \notin PersonRequest
    BY DEF NoRequest, PersonRequest, MemberRequest, GroupRequest,
           ManagerRequest
<1>2. CASE r = NoRequest
    BY <1>1, <1>2 DEF PersonOps
<1>3. CASE r \in MemberRequest
    BY <1>3 DEF MemberRequest, PersonOps
<1>4. CASE r \in GroupRequest
    BY <1>4 DEF GroupRequest, PersonOps
<1>5. CASE r \in ManagerRequest
    BY <1>5 DEF ManagerRequest, PersonOps
<1>6. CASE r \in SyncRequest \cup SourceRequest
    BY <1>6 DEF SyncRequest, SourceRequest, PersonOps, PersonRequest,
                MemberRequest, GroupRequest, ManagerRequest
<1> QED
    BY <1>2, <1>3, <1>4, <1>5, <1>6, RoleProviderAssumption
       DEF Request, PersonRequest

LEMMA NamedTyped ==
    ASSUME NEW r \in Requests \cup {NoRequest},
           r.op \in {"AddMember", "RemoveMember", "ChangeRelation"}
    PROVE  /\ Named(r) \in Entry
           /\ Named(r).obj = r.grp /\ Named(r).sub = r.sub
BY RequestShape DEF Named, MkEntry, Entry, PersonOps

LEMMA CallerTokensTyped ==
    ASSUME NEW r
    PROVE  CallerTokens(r) \in SUBSET Tokens
<1>1. ASSUME NEW T, NEW x \in Users
      PROVE  TokensOf(x, Held(T, x)) \in SUBSET Tokens
    <2>1. Held(T, x) \subseteq Groups \X Relations
        BY DEF Held, Entered, Pairs
    <2>2. \A p \in Held(T, x) : /\ GroupSubject(p[1], Member) \in Tokens
                                /\ GroupSubject(p[1], p[2]) \in Tokens
        BY <2>1, EntriesAssumption DEF Tokens, GroupSubjects
    <2>3. UserSubject(x) \in Tokens
        BY DEF Tokens, UserSubjects
    <2> QED BY <2>2, <2>3 DEF TokensOf
<1> QED BY <1>1 DEF CallerTokens

\* Every change a call is recorded with is one the history has a place for.
LEMMA ChangeTyped ==
    ASSUME NEW g \in Groups, NEW a \in Actions,
           NEW m \in Subjects \cup {Nobody},
           NEW r \in Relations \cup {NoRelation}
    PROVE  MkChange(g, a, m, r) \in Change
BY DEF MkChange, Change

LEMMA TokensAreSubjects == Tokens \subseteq Subjects
BY DEF Tokens, Subjects

LEMMA ChangeOfTyped ==
    ASSUME NEW r \in Requests \cup {NoRequest}, r.op \in PersonOps
    PROVE  ChangeOf(r) \in Change
<1>1. /\ r.grp \in Groups
      /\ r.op \in {"AddMember", "RemoveMember", "ChangeRelation"} =>
             r.rel \in Relations /\ r.sub \in Subjects
      /\ r.op = "ChangeRelation" => r.to \in Relations
      /\ r.op \in {"AddManager", "RemoveManager"} => r.tok \in Subjects
    BY RequestShape, TokensAreSubjects
<1>2. CASE r.op \in {"AddMember", "RemoveMember", "ChangeRelation"}
    BY <1>1, <1>2, ChangeTyped DEF ChangeOf, Actions
<1>3. CASE r.op \in {"CreateGroup", "DeleteGroup"}
    BY <1>1, <1>3, ChangeTyped DEF ChangeOf, Actions
<1>4. CASE r.op \in {"AddManager", "RemoveManager"}
    BY <1>1, <1>4, ChangeTyped DEF ChangeOf, Actions
<1> QED BY <1>2, <1>3, <1>4 DEF PersonOps

LEMMA KeepTyped ==
    ASSUME changes \in SUBSET Change, NEW c \in Change, Keep(c)
    PROVE  changes' \in SUBSET Change
BY DEF Keep

LEMMA RenewedTyped ==
    ASSUME changes \in SUBSET Change, Renewed
    PROVE  changes' \in SUBSET Change
BY DEF Renewed

-----------------------------------------------------------------------------
(* How a call moves on.                                                    *)

LEMMA GotoKeeps ==
    ASSUME LocalOK, NEW p \in Procs, NEW label \in Label, Goto(p, label),
           Fits(label, req[p], todo[p])
    PROVE  LocalOK'
<1>1. /\ pc' \in [Procs -> Label]
      /\ pc' = [pc EXCEPT ![p] = label]
      /\ req' = req /\ toks' = toks /\ todo' = todo
    BY DEF LocalOK, Goto
<1>2. \A q \in Procs : Fits(pc'[q], req'[q], todo'[q])
    BY <1>1 DEF LocalOK
<1> QED BY <1>1, <1>2 DEF LocalOK

LEMMA LoopKeeps ==
    ASSUME LocalOK, NEW p \in Procs, NEW label \in Label,
           NEW S \in SUBSET (Tokens \cup Groups), Loop(p, label, S),
           Fits(label, req[p], S)
    PROVE  LocalOK'
<1>1. /\ pc' \in [Procs -> Label]
      /\ todo' \in [Procs -> SUBSET (Tokens \cup Groups)]
      /\ pc' = [pc EXCEPT ![p] = label]
      /\ todo' = [todo EXCEPT ![p] = S]
      /\ req' = req /\ toks' = toks
    BY DEF LocalOK, Loop
<1>2. \A q \in Procs : Fits(pc'[q], req'[q], todo'[q])
    BY <1>1 DEF LocalOK
<1> QED BY <1>1, <1>2 DEF LocalOK

LEMMA ReturnKeeps ==
    ASSUME LocalOK, NEW p \in Procs, Return(p)
    PROVE  LocalOK'
<1>1. /\ pc' = [pc EXCEPT ![p] = "idle"]
      /\ req' = [req EXCEPT ![p] = NoRequest]
      /\ toks' = [toks EXCEPT ![p] = {}]
      /\ todo' = [todo EXCEPT ![p] = {}]
    BY DEF Return
<1>2. /\ pc' \in [Procs -> Label]
      /\ req' \in [Procs -> Requests \cup {NoRequest}]
      /\ toks' \in [Procs -> SUBSET Tokens]
      /\ todo' \in [Procs -> SUBSET (Tokens \cup Groups)]
    BY <1>1 DEF LocalOK, Label
<1>3. \A q \in Procs : Fits(pc'[q], req'[q], todo'[q])
    <2>1. Fits("idle", NoRequest, {})
        BY DEF Fits
    <2> QED BY <1>1, <2>1 DEF LocalOK
<1> QED BY <1>2, <1>3 DEF LocalOK

\* A read leaves the store as it is.
LEMMA ReadsKeep ==
    ASSUME StoreOK, Reads
    PROVE  StoreOK'
BY DEF StoreOK, Reads, store

LEMMA CheckedKeeps ==
    ASSUME LocalOK, NEW p \in Procs, pc[p] \in {"getGroup", "listManagers"},
           Checked(p)
    PROVE  LocalOK'
<1> DEFINE r == req[p]
<1>1. /\ r \in Requests \cup {NoRequest}
      /\ r.op \in PersonOps \ {"CreateGroup"}
    BY DEF LocalOK, Fits
<1>2. CASE r.op = "AddMember" /\ r.sub.type = "group"
    <2>1. Goto(p, "groupEdges")
        BY <1>2 DEF Checked
    <2>2. Fits("groupEdges", r, todo[p]) /\ "groupEdges" \in Label
        BY <1>2 DEF Fits, Label
    <2> QED BY <2>1, <2>2, GotoKeeps
<1>3. CASE r.op = "AddManager" /\ r.tok.type = "group"
    <2>1. Loop(p, "checkToken", {r.tok})
        BY <1>3 DEF Checked
    <2>2. r.tok \in Tokens
        BY <1>1, <1>3, RequestShape
    <2>3. Fits("checkToken", r, {r.tok}) /\ "checkToken" \in Label
        BY <1>3, <2>2 DEF Fits, Label
    <2> QED BY <2>1, <2>2, <2>3, LoopKeeps
<1>4. CASE r.op = "DeleteGroup" /\ ~Admin(r, toks[p])
    BY <1>4, ReturnKeeps DEF Checked
<1>5. CASE /\ ~(r.op = "AddMember" /\ r.sub.type = "group")
           /\ ~(r.op = "AddManager" /\ r.tok.type = "group")
           /\ ~(r.op = "DeleteGroup" /\ ~Admin(r, toks[p]))
    <2>1. Goto(p, "write")
        BY <1>5 DEF Checked
    <2>2. Fits("write", r, todo[p]) /\ "write" \in Label
        BY <1>1 DEF Fits, Label
    <2> QED BY <2>1, <2>2, GotoKeeps
<1> QED BY <1>2, <1>3, <1>4, <1>5

-----------------------------------------------------------------------------
(* The checks before a change: the store stays, the call moves on.         *)

LEMMA BeginKeeps ==
    ASSUME Inv, NEW p \in Procs, NEW r \in Requests, Begin(p, r)
    PROVE  Inv'
<1>1. r \in Requests \cup {NoRequest} /\ r # NoRequest
    BY RoleProviderAssumption
       DEF NoRequest, Request, PersonRequest, MemberRequest, GroupRequest,
           ManagerRequest, SyncRequest, SourceRequest
<1>2. /\ r.op \in PersonOps \cup
             {"RunSync", "CreateSource", "UpdateSource", "DeleteSource"}
    BY <1>1, RequestShape
<1>3. FirstStep(r) \in Label
    BY DEF FirstStep, Label
<1>4. Fits(FirstStep(r), r, todo[p])
    <2>1. CASE r.op = "CreateGroup"
        BY <2>1 DEF FirstStep, Fits
    <2>2. CASE r.op = "CreateSource"
        BY <2>2 DEF FirstStep, Fits
    <2>3. CASE r.op \in {"RunSync", "UpdateSource", "DeleteSource"}
        BY <2>3 DEF FirstStep, Fits
    <2>4. CASE r.op \in PersonOps \ {"CreateGroup"}
        <3>1. FirstStep(r) = "getGroup"
            BY <2>4 DEF FirstStep, PersonOps
        <3> QED BY <2>4, <3>1 DEF Fits
    <2> QED BY <1>2, <2>1, <2>2, <2>3, <2>4
<1>5. /\ pc' = [pc EXCEPT ![p] = FirstStep(r)]
      /\ req' = [req EXCEPT ![p] = r]
      /\ toks' = [toks EXCEPT ![p] = CallerTokens(r)]
      /\ todo' = todo
      /\ Reads
    BY DEF Begin
<1>6. LocalOK'
    <2>1. /\ pc' \in [Procs -> Label]
          /\ req' \in [Procs -> Requests \cup {NoRequest}]
          /\ toks' \in [Procs -> SUBSET Tokens]
          /\ todo' \in [Procs -> SUBSET (Tokens \cup Groups)]
        BY <1>3, <1>5, CallerTokensTyped DEF Inv, LocalOK
    <2>2. \A q \in Procs : Fits(pc'[q], req'[q], todo'[q])
        BY <1>4, <1>5 DEF Inv, LocalOK
    <2> QED BY <2>1, <2>2 DEF LocalOK
<1> QED BY <1>5, <1>6, ReadsKeep DEF Inv

LEMMA CheckKeeps ==
    ASSUME Inv, NEW p \in Procs, Check(p)
    PROVE  Inv'
<1>1. req[p] \in Requests \cup {NoRequest} /\ Fits(pc[p], req[p], todo[p])
    BY DEF Inv, LocalOK
<1>2. {"listManagers", "write", "checkToken"} \subseteq Label
    BY DEF Label
<1>3. CASE GetGroup(p)
    <2>1. Fits("listManagers", req[p], todo[p])
        BY <1>1, <1>3 DEF GetGroup, Fits
    <2> QED BY <1>2, <1>3, <2>1, ReadsKeep, ReturnKeeps, CheckedKeeps, GotoKeeps
            DEF GetGroup, Inv
<1>4. CASE ListManagers(p)
    BY <1>4, ReadsKeep, ReturnKeeps, CheckedKeeps DEF ListManagers, Inv
<1>5. CASE CheckNoCycle(p)
    <2>1. Fits("write", req[p], todo[p])
        BY <1>1, <1>5 DEF CheckNoCycle, Fits, PersonOps
    <2> QED BY <1>2, <1>5, <2>1, ReadsKeep, ReturnKeeps, GotoKeeps
            DEF CheckNoCycle, Inv
<1>6. CASE CheckNotReserved(p)
    <2>1. req[p].op = "CreateGroup"
        BY <1>1, <1>6 DEF CheckNotReserved, Fits
    <2>2. Fits("write", req[p], todo[p])
        BY <2>1 DEF Fits, PersonOps
    <2>3. CASE req[p].toks = {}
        BY <1>2, <1>6, <2>2, <2>3, ReadsKeep, ReturnKeeps, GotoKeeps
           DEF CheckNotReserved, Inv
    <2>4. CASE req[p].toks # {}
        <3>1. /\ req[p].toks \in SUBSET (Tokens \cup Groups)
              /\ Fits("checkToken", req[p], req[p].toks)
            BY <1>1, <2>1, <2>4, RequestShape DEF Fits, PersonOps
        <3> QED BY <1>2, <1>6, <2>4, <3>1, ReadsKeep, ReturnKeeps, LoopKeeps
                DEF CheckNotReserved, Inv
    <2> QED BY <2>3, <2>4
<1>7. CASE CheckManagerToken(p)
    <2> DEFINE x == NextOf(p)
    <2>1. /\ req[p].op \in {"CreateGroup", "AddManager"}
          /\ todo[p] \subseteq Tokens /\ x \in todo[p]
        BY <1>1, <1>7 DEF CheckManagerToken, Fits, NextOf
    <2>2. Fits("write", req[p], {})
        BY <2>1 DEF Fits, PersonOps
    <2>3. todo[p] # {x} => Fits("checkToken", req[p], todo[p] \ {x})
        BY <2>1 DEF Fits
    <2>4. /\ {} \in SUBSET (Tokens \cup Groups)
          /\ todo[p] \ {x} \in SUBSET (Tokens \cup Groups)
        BY <2>1
    <2>5. \/ Return(p)
          \/ Loop(p, "write", {})
          \/ todo[p] # {x} /\ Loop(p, "checkToken", todo[p] \ {x})
        BY <1>7 DEF CheckManagerToken
    <2>6. LocalOK'
        BY <1>2, <2>2, <2>3, <2>4, <2>5, ReturnKeeps, LoopKeeps DEF Inv
    <2> QED BY <1>7, <2>6, ReadsKeep DEF CheckManagerToken, Inv
<1> QED BY <1>3, <1>4, <1>5, <1>6, <1>7 DEF Check

-----------------------------------------------------------------------------
(* The changes of groups, members and managers.                            *)

\* From the write a call goes on to the history.
LEMMA WrittenKeeps ==
    ASSUME Inv, NEW p \in Procs, pc[p] = "write", Goto(p, "record")
    PROVE  LocalOK'
<1>1. Fits("record", req[p], todo[p]) /\ "record" \in Label
    BY DEF Inv, LocalOK, Fits, Label
<1> QED BY <1>1, GotoKeeps DEF Inv

LEMMA MaintainKeeps ==
    ASSUME Inv, NEW p \in Procs, Maintain(p)
    PROVE  Inv'
<1>1. req[p] \in Requests \cup {NoRequest} /\ Fits(pc[p], req[p], todo[p])
    BY DEF Inv, LocalOK
<1>2. Table(tuples)
    BY DEF Inv, StoreOK
<1>3. CASE AddMember(p)
    <2>1. Named(req[p]) \in Entry /\ req[p].exp \in Expiries /\ Local \in Owners
        BY <1>1, <1>3, NamedTyped, RequestShape
           DEF AddMember, Doing, Owners
    <2>2. Table(tuples')
        BY <1>2, <1>3, <2>1, PutMemberTable DEF AddMember
    <2> QED BY <1>3, <2>2, WrittenKeeps, RenewedTyped
            DEF AddMember, Doing, Inv, StoreOK
<1>4. CASE RemoveMember(p)
    <2>1. Table(tuples')
        BY <1>2, <1>4, SubTable DEF RemoveMember, DropMember
    <2> QED BY <1>4, <2>1, WrittenKeeps DEF RemoveMember, Doing, Inv, StoreOK
<1>5. CASE ChangeRelation(p)
    <2> DEFINE from == Named(req[p])
               to   == MkEntry(req[p].grp, req[p].to, req[p].sub)
    <2>1. from \in Entry /\ to \in Entry
        BY <1>1, <1>5, NamedTyped, RequestShape
           DEF ChangeRelation, Doing, MkEntry, Entry, PersonOps
    <2>2. Table(MoveRelation(tuples, from, to))
        BY <1>2, <2>1, MoveRelationTable
    <2>3. /\ \/ tuples' = tuples /\ Return(p)
             \/ /\ tuples' = MoveRelation(tuples, from, to)
                /\ Goto(p, "record")
          /\ UNCHANGED <<owner, managers, source, reserved, now>> /\ Renewed
        BY <1>5 DEF ChangeRelation
    <2>4. Table(tuples')
        BY <1>2, <2>2, <2>3
    <2>5. LocalOK'
        BY <1>5, <2>3, ReturnKeeps, WrittenKeeps DEF ChangeRelation, Doing, Inv
    <2> QED BY <2>3, <2>4, <2>5, RenewedTyped DEF Inv, StoreOK
<1>6. CASE CreateGroup(p)
    <2>1. /\ owner' \in [Groups -> Owners \cup {Absent}]
          /\ Return(p) \/ Goto(p, "record")
        BY <1>6 DEF CreateGroup, Inv, StoreOK, Owners
    <2>2. LocalOK'
        BY <1>6, <2>1, ReturnKeeps, WrittenKeeps DEF CreateGroup, Doing, Inv
    <2> QED BY <1>6, <2>1, <2>2, RenewedTyped DEF CreateGroup, Inv, StoreOK
<1>7. CASE DeleteGroup(p)
    <2>1. Table(tuples')
        BY <1>2, <1>7, SubTable DEF DeleteGroup, DropGroupTuples
    <2>2. owner' \in [Groups -> Owners \cup {Absent}]
        BY <1>7 DEF DeleteGroup, Inv, StoreOK
    <2>3. managers' \in SUBSET Manager
        BY <1>7 DEF DeleteGroup, DropGroupManagers, Inv, StoreOK
    <2> QED BY <1>7, <2>1, <2>2, <2>3, WrittenKeeps
            DEF DeleteGroup, Doing, Inv, StoreOK
<1>8. CASE AddManager(p)
    <2>1. req[p].grp \in Groups /\ req[p].tok \in Tokens
        BY <1>1, <1>8, RequestShape DEF AddManager, Doing, PersonOps
    <2>2. managers' \in SUBSET Manager
        BY <1>8, <2>1 DEF AddManager, Manager, Inv, StoreOK
    <2> QED BY <1>8, <2>2, WrittenKeeps, RenewedTyped
            DEF AddManager, Doing, Inv, StoreOK
<1>9. CASE RemoveManager(p)
    BY <1>9, WrittenKeeps DEF RemoveManager, Doing, Inv, StoreOK
<1>10. CASE Record(p)
    <2>1. req[p].op \in PersonOps
        BY <1>1, <1>10 DEF Record, Fits
    <2>2. changes' \in SUBSET Change
        BY <1>1, <1>10, <2>1, ChangeOfTyped, KeepTyped DEF Record, Inv, StoreOK
    <2>3. CASE req[p].op = "CreateGroup" /\ req[p].toks # {}
        <3>1. /\ req[p].toks \in SUBSET (Tokens \cup Groups)
              /\ Fits("addManager", req[p], req[p].toks)
              /\ "addManager" \in Label
            BY <1>1, <2>3, RequestShape DEF Fits, Label
        <3> QED BY <1>10, <2>2, <2>3, <3>1, LoopKeeps
                DEF Record, Inv, StoreOK, store
    <2>4. CASE ~(req[p].op = "CreateGroup" /\ req[p].toks # {})
        BY <1>10, <2>2, <2>4, ReturnKeeps DEF Record, Inv, StoreOK, store
    <2> QED BY <2>3, <2>4
<1>11. CASE AddNextManager(p)
    <2>1. /\ req[p].op = "CreateGroup" /\ req[p].grp \in Groups
          /\ NextOf(p) \in Tokens
        BY <1>1, <1>11, RequestShape
           DEF AddNextManager, Fits, NextOf, PersonOps
    <2>2. managers' \in SUBSET Manager
        BY <1>11, <2>1 DEF AddNextManager, Manager, Inv, StoreOK
    <2>3. Fits("recordManager", req[p], todo[p]) /\ "recordManager" \in Label
        BY <1>1, <1>11 DEF AddNextManager, Fits, Label
    <2> QED BY <1>11, <2>2, <2>3, GotoKeeps, RenewedTyped
            DEF AddNextManager, Inv, StoreOK
<1>12. CASE RecordNextManager(p)
    <2>1. /\ req[p].op = "CreateGroup" /\ req[p].grp \in Groups
          /\ todo[p] \subseteq Tokens /\ NextOf(p) \in todo[p]
        BY <1>1, <1>12, RequestShape
           DEF RecordNextManager, Fits, NextOf, PersonOps
    <2>2. MkChange(req[p].grp, "manager_added", NextOf(p), NoRelation) \in Change
        BY <2>1, TokensAreSubjects, ChangeTyped DEF Actions
    <2>3. changes' \in SUBSET Change
        BY <1>12, <2>2, KeepTyped DEF RecordNextManager, Inv, StoreOK
    <2>4. /\ "addManager" \in Label
          /\ todo[p] \ {NextOf(p)} \in SUBSET (Tokens \cup Groups)
          /\ todo[p] # {NextOf(p)} =>
                 Fits("addManager", req[p], todo[p] \ {NextOf(p)})
        BY <2>1 DEF Fits, Label
    <2>5. LocalOK'
        BY <1>12, <2>4, ReturnKeeps, LoopKeeps DEF RecordNextManager, Inv
    <2> QED BY <1>12, <2>3, <2>5 DEF RecordNextManager, Inv, StoreOK, store
<1> QED
    BY <1>3, <1>4, <1>5, <1>6, <1>7, <1>8, <1>9, <1>10, <1>11, <1>12
       DEF Maintain

-----------------------------------------------------------------------------
(* Sources.                                                                *)

LEMMA SyncKeeps ==
    ASSUME Inv, NEW p \in Procs, Sync(p)
    PROVE  Inv'
<1>1. req[p] \in Requests \cup {NoRequest} /\ Fits(pc[p], req[p], todo[p])
    BY DEF Inv, LocalOK
<1>2. {"groupOwners", "syncReserved", "replace", "listGroups",
       "deleteSource"} \subseteq Label
    BY DEF Label
<1>3. CASE GetSource(p)
    <2>1. req[p].op \in {"RunSync", "UpdateSource", "DeleteSource"}
        BY <1>1, <1>3 DEF GetSource, Fits
    <2>2. \/ Return(p)
          \/ req[p].op = "RunSync" /\ Goto(p, "groupOwners")
          \/ req[p].op = "UpdateSource" /\ Goto(p, "listGroups")
          \/ req[p].op = "DeleteSource" /\ Goto(p, "deleteSource")
        BY <1>3, <2>1 DEF GetSource
    <2>3. /\ req[p].op = "RunSync" => Fits("groupOwners", req[p], todo[p])
          /\ req[p].op = "UpdateSource" => Fits("listGroups", req[p], todo[p])
          /\ req[p].op = "DeleteSource" => Fits("deleteSource", req[p], todo[p])
        BY DEF Fits
    <2>4. LocalOK'
        BY <1>2, <2>2, <2>3, ReturnKeeps, GotoKeeps DEF Inv
    <2> QED BY <1>3, <2>4, ReadsKeep DEF GetSource, Inv
<1>4. CASE CheckOwners(p)
    <2>1. Fits("syncReserved", req[p], todo[p])
        BY <1>1, <1>4 DEF CheckOwners, Fits
    <2> QED BY <1>2, <1>4, <2>1, ReadsKeep, ReturnKeeps, GotoKeeps
            DEF CheckOwners, Inv
<1>5. CASE CheckSyncReserved(p)
    <2>1. Fits("replace", req[p], todo[p])
        BY <1>1, <1>5 DEF CheckSyncReserved, Fits
    <2> QED BY <1>2, <1>5, <2>1, ReadsKeep, ReturnKeeps, GotoKeeps
            DEF CheckSyncReserved, Inv
<1>6. CASE Replace(p)
    <2>1. req[p].src \in Owners /\ req[p].file \in SUBSET Entry
        BY <1>1, <1>6, RequestShape DEF Replace, Fits, Owners
    <2>2. Table(tuples')
        BY <1>6, <2>1, ReplaceRowsTable DEF Replace, Inv, StoreOK
    <2>3. owner' \in [Groups -> Owners \cup {Absent}]
        BY <1>6, <2>1, ReplaceOwnersTyped DEF Replace, Inv, StoreOK
    <2> QED BY <1>6, <2>2, <2>3, ReturnKeeps DEF Replace, Inv, StoreOK
<1> QED BY <1>3, <1>4, <1>5, <1>6 DEF Sync

LEMMA AdministerKeeps ==
    ASSUME Inv, NEW p \in Procs, Administer(p)
    PROVE  Inv'
<1>1. req[p] \in Requests \cup {NoRequest} /\ Fits(pc[p], req[p], todo[p])
    BY DEF Inv, LocalOK
<1>2. {"storeSource", "adopt", "recordAdopted"} \subseteq Label
    BY DEF Label
<1>3. CASE CheckReservation(p)
    <2>1. Fits("storeSource", req[p], todo[p])
        BY <1>1, <1>3 DEF CheckReservation, Fits
    <2> QED BY <1>2, <1>3, <2>1, ReadsKeep, ReturnKeeps, GotoKeeps
            DEF CheckReservation, Inv
<1>4. CASE CreateSource(p) \/ UpdateSource(p)
    <2>1. req[p].src \in Sources /\ req[p].names \in SUBSET Groups
        BY <1>1, <1>4, RequestShape DEF CreateSource, UpdateSource, Doing
    <2>2. /\ source' \in [Sources -> {"new", "present", "deleted"}]
          /\ reserved' \in [Sources -> SUBSET Groups]
        BY <1>4, <2>1 DEF CreateSource, UpdateSource, Inv, StoreOK
    <2> QED BY <1>4, <2>2, ReturnKeeps
            DEF CreateSource, UpdateSource, Inv, StoreOK
<1>5. CASE DeleteSource(p)
    <2>1. req[p].src \in Sources
        BY <1>1, <1>5, RequestShape DEF DeleteSource, Fits
    <2>2. /\ source' \in [Sources -> {"new", "present", "deleted"}]
          /\ reserved' \in [Sources -> SUBSET Groups]
        BY <1>5, <2>1 DEF DeleteSource, Inv, StoreOK
    <2>3. owner' \in [Groups -> Owners \cup {Absent}]
        BY <1>5, ReownedTyped DEF DeleteSource, Owners, Inv, StoreOK
    <2>4. Table(tuples')
        BY <1>5, SubTable DEF DeleteSource, Inv, StoreOK
    <2>5. Fits("adopt", req[p], todo[p])
        BY <1>1, <1>5 DEF DeleteSource, Fits
    <2> QED BY <1>2, <1>5, <2>2, <2>3, <2>4, <2>5, GotoKeeps
            DEF DeleteSource, Inv, StoreOK
<1>6. CASE Adopt(p)
    <2> DEFINE moved == {g \in Groups : owner[g] = NoSource}
    <2>1. {NoSource, Local} \subseteq Owners
        BY DEF Owners
    <2>2. owner' \in [Groups -> Owners \cup {Absent}]
        BY <1>6, <2>1, ReownedTyped DEF Adopt, Inv, StoreOK
    <2>3. Table(tuples')
        BY <1>6, <2>1, MoveRowsTable DEF Adopt, Inv, StoreOK
    <2>4. \/ Return(p)
          \/ moved # {} /\ Loop(p, "recordAdopted", moved)
        BY <1>6 DEF Adopt
    <2>5. moved # {} => Fits("recordAdopted", req[p], moved)
        BY <1>1, <1>6 DEF Adopt, Fits
    <2>6. LocalOK'
        BY <1>2, <2>4, <2>5, ReturnKeeps, LoopKeeps DEF Inv
    <2> QED BY <1>6, <2>2, <2>3, <2>6, RenewedTyped DEF Adopt, Inv, StoreOK
<1>7. CASE RecordAdopted(p)
    <2>1. /\ req[p].op = "DeleteSource"
          /\ todo[p] \subseteq Groups /\ NextOf(p) \in todo[p]
        BY <1>1, <1>7 DEF RecordAdopted, Fits, NextOf
    <2>2. MkChange(NextOf(p), "group_adopted", Nobody, NoRelation) \in Change
        BY <2>1, ChangeTyped DEF Actions
    <2>3. changes' \in SUBSET Change
        BY <1>7, <2>2, KeepTyped DEF RecordAdopted, Inv, StoreOK
    <2>4. /\ todo[p] \ {NextOf(p)} \in SUBSET (Tokens \cup Groups)
          /\ todo[p] # {NextOf(p)} =>
                 Fits("recordAdopted", req[p], todo[p] \ {NextOf(p)})
        BY <2>1 DEF Fits
    <2>5. LocalOK'
        BY <1>2, <1>7, <2>4, ReturnKeeps, LoopKeeps DEF RecordAdopted, Inv
    <2> QED BY <1>7, <2>3, <2>5 DEF RecordAdopted, Inv, StoreOK, store
<1> QED BY <1>3, <1>4, <1>5, <1>6, <1>7 DEF Administer

-----------------------------------------------------------------------------

LEMMA InitInv == Init => Inv
<1> SUFFICES ASSUME Init PROVE Inv
    OBVIOUS
<1>1. StoreOK
    BY RoleProviderAssumption
       DEF Init, StoreOK, Table, OneRowPerEntry
<1>2. LocalOK
    <2>1. Fits("idle", NoRequest, {})
        BY DEF Fits
    <2> QED BY <2>1 DEF Init, LocalOK, Label
<1> QED BY <1>1, <1>2 DEF Inv

LEMMA NextInv == Inv /\ [Next]_vars => Inv'
<1> SUFFICES ASSUME Inv, [Next]_vars PROVE Inv'
    OBVIOUS
<1>1. CASE \E p \in Procs, r \in Requests : Begin(p, r)
    BY <1>1, BeginKeeps
<1>2. CASE \E p \in Procs : Step(p)
    BY <1>2, CheckKeeps, MaintainKeeps, SyncKeeps, AdministerKeeps DEF Step
<1>3. CASE \E p \in Procs : Fail(p)
    BY <1>3, ReadsKeep, ReturnKeeps DEF Fail, Inv
<1>4. CASE Tick
    <2>1. StoreOK'
        BY <1>4 DEF Tick, Inv, StoreOK, store
    <2>2. LocalOK'
        BY <1>4 DEF Tick, Inv, LocalOK, local
    <2> QED BY <2>1, <2>2 DEF Inv
<1>5. CASE UNCHANGED vars
    BY <1>5 DEF vars, store, local, Inv, StoreOK, LocalOK
<1> QED BY <1>1, <1>2, <1>3, <1>4, <1>5 DEF Next

LEMMA InvAlways == Spec => []Inv
BY InitInv, NextInv, PTL DEF Spec

\* The tables stay well formed, one row per entry included: no write of the
\* service ever runs into the unique index idx_tuple_uniq
\* (postgres.go:72-83), and every step finds in its call what it reads there.
THEOREM TypeCorrect == Spec => []TypeOK
BY InvAlways, InvImpliesTypeOK, PTL
=============================================================================
