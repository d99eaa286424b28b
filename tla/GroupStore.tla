---------------------------- MODULE GroupStore ----------------------------
(***************************************************************************)
(* The operations of the store, each a transaction of its own, as          *)
(* operators on the three tables the service keeps about groups:           *)
(*                                                                         *)
(*   owner     the groups table: who owns a group, Absent without a row    *)
(*   T         the tuples table, a set of Tuple                            *)
(*   M         the group_managers table, a set of Manager                  *)
(*                                                                         *)
(* Names, descriptions and timestamps are abstracted.                      *)
(***************************************************************************)
EXTENDS Entries

CONSTANTS
    Absent,   \* the owner of a group without a row
    LikeIds   \* LikeIds[g]: the ids LIKE takes for g, "_" being a wildcard

ASSUME GroupStoreAssumption ==
    /\ Absent \notin Owners
    /\ LikeIds \in [Groups -> SUBSET Groups]
    /\ \A g \in Groups : g \in LikeIds[g]

Manager == [grp : Groups, tok : Tokens]

MkEntry(g, r, sub) == [obj |-> g, rel |-> r, sub |-> sub]

MkTuple(e, s, x) ==
    [obj |-> e.obj, rel |-> e.rel, sub |-> e.sub, src |-> s, exp |-> x]

RowsOf(T, e) == {t \in T : EntryOf(t) = e}

\* The longer of two validities.
LaterExpiry(x, y) ==
    IF Forever \in {x, y} THEN Forever ELSE IF x > y THEN x ELSE y

-----------------------------------------------------------------------------
(* Members.                                                                *)

\* Adding an entry that exists sets its expiry and nothing else.
PutMember(T, e, s, x) ==
    IF RowsOf(T, e) = {}
    THEN T \cup {MkTuple(e, s, x)}
    ELSE (T \ RowsOf(T, e)) \cup {[t EXCEPT !.exp = x] : t \in RowsOf(T, e)}

DropMember(T, e) == T \ RowsOf(T, e)

\* Faulty on purpose, like every definition named for what it gets wrong:
\* a property must notice when it stands in for the definition after it.
MoveRelationUnmerged(T, from, to) ==
    (T \ RowsOf(T, from)) \cup
        {MkTuple(to, t.src, t.exp) : t \in RowsOf(T, from)}

MoveRelationShortened(T, from, to) ==
    (T \ RowsOf(T, from)) \cup
        (IF RowsOf(T, to) # {} THEN {}
         ELSE {MkTuple(to, t.src, t.exp) : t \in RowsOf(T, from)})

\* The row moves to the other relation; where that relation is held already
\* the two rows become one, with the longer validity.
MoveRelation(T, from, to) ==
    IF RowsOf(T, to) = {}
    THEN (T \ RowsOf(T, from)) \cup
             {MkTuple(to, t.src, t.exp) : t \in RowsOf(T, from)}
    ELSE (T \ (RowsOf(T, from) \cup RowsOf(T, to))) \cup
             {MkTuple(to, t[1].src, LaterExpiry(t[1].exp, t[2].exp)) :
                 t \in RowsOf(T, to) \X RowsOf(T, from)}

-----------------------------------------------------------------------------
(* Groups.                                                                 *)

IsGroup(sub, g) == sub.type = "group" /\ sub.id = g

DropGroupMemberships(T, g) == {t \in T : ~IsGroup(t.sub, g)}

\* Its members and its memberships in other groups.
DropGroupTuples(T, g) == {t \in T : t.obj # g /\ ~IsGroup(t.sub, g)}

\* token = 'group:g' or token like 'group:g#%'
TokenNames(tok, g) ==
    /\ tok.type = "group"
    /\ \/ tok.id = g /\ tok.rel = Member
       \/ tok.id \in LikeIds[g] /\ tok.rel # Member

DropGroupManagers(M, g) == {m \in M : m.grp # g /\ ~TokenNames(m.tok, g)}

-----------------------------------------------------------------------------
(* Sources.                                                                *)

OwnRows(T, s) == {t \in T : t.src = s}

ReplaceRowsUnpruned(T, s, file) ==
    T \cup {MkTuple(e, s, Forever) : e \in {x \in file : RowsOf(T, x) = {}}}

\* The rows of the source become exactly the file; an entry that exists
\* stays the row it is, whoever's it is.
ReplaceRows(T, s, file) ==
    LET kept == {t \in T : t.src = s => EntryOf(t) \in file}
        new  == {e \in file : RowsOf(kept, e) = {}}
    IN  kept \cup {MkTuple(e, s, Forever) : e \in new}

GroupsOf(file) == {e.obj : e \in file}

InUseByMembers(T, M, g) ==
    (\E t \in T : t.obj = g) \/ (\E m \in M : m.grp = g)

InUse(T, M, g) ==
    \/ \E t \in T : t.obj = g \/ IsGroup(t.sub, g)
    \/ \E m \in M : m.grp = g \/ TokenNames(m.tok, g)

\* Groups the file names get a row; a group of the source with nothing in it
\* and nothing pointing at it loses its row.
ReplaceOwners(owner, T, M, s, file) ==
    LET made == [g \in Groups |->
                    IF owner[g] = Absent /\ g \in GroupsOf(file)
                    THEN s ELSE owner[g]]
    IN  [g \in Groups |->
            IF made[g] = s /\ ~InUse(ReplaceRows(T, s, file), M, g)
            THEN Absent ELSE made[g]]

Reowned(owner, from, to) ==
    [g \in Groups |-> IF owner[g] = from THEN to ELSE owner[g]]

MoveRows(T, from, to) ==
    {IF t.src = from THEN [t EXCEPT !.src = to] ELSE t : t \in T}
=============================================================================
