---------------------------- MODULE MemoryStore ----------------------------
(***************************************************************************)
(* The writing operations of the store of local development (MemoryStore), *)
(* which promises what the Postgres store promises and does it in its own  *)
(* way: maps and a slice, each operation under one lock.                   *)
(*                                                                         *)
(* The slice is a set here: of equal rows no operation makes a second one. *)
(* Two rows of one entry are possible, of different sources; whichever the *)
(* slice has first is the one an operation finds.                          *)
(***************************************************************************)
EXTENDS GroupStore

VARIABLES
    memGroups,    \* groups: whose each is, Absent if it is not there
    memTuples,    \* the entries
    memManagers,  \* by group, the tokens that manage it
    memSources,   \* the sources there are
    memReserved   \* and the names each of them reserves

memVars == <<memGroups, memTuples, memManagers, memSources, memReserved>>

MemInit(known, names) ==
    /\ memGroups = [g \in Groups |-> Absent]
    /\ memTuples = {}
    /\ memManagers = [g \in Groups |-> {}]
    /\ memSources = known
    /\ memReserved = names

-----------------------------------------------------------------------------
(* Members.                                                                *)

OnlyTuples == UNCHANGED <<memGroups, memManagers, memSources, memReserved>>

MemAddMember(e, s, x) ==
    /\ IF RowsOf(memTuples, e) = {}
       THEN memTuples' = memTuples \cup {MkTuple(e, s, x)}
       ELSE \E t \in RowsOf(memTuples, e) :
                memTuples' = (memTuples \ {t}) \cup {[t EXCEPT !.exp = x]}
    /\ OnlyTuples

MemRemoveMember(e) ==
    /\ memTuples' = {t \in memTuples : EntryOf(t) # e}
    /\ OnlyTuples

\* Faulty on purpose, like every definition named for what it gets wrong:
\* a property must notice when it stands in for the definition after it.
MemChangeRelationUnmerged(g, sub, from, to) ==
    /\ memTuples' =
           {IF EntryOf(t) = MkEntry(g, from, sub) THEN [t EXCEPT !.rel = to]
            ELSE t : t \in memTuples}
    /\ OnlyTuples

\* The row gets the other relation; a row that has it already takes over the
\* longer validity, and the first one goes.
MemChangeRelation(g, sub, from, to) ==
    LET Old    == RowsOf(memTuples, MkEntry(g, from, sub))
        Target == RowsOf(memTuples, MkEntry(g, to, sub))
    IN  /\ \/ (Old = {} \/ from = to) /\ UNCHANGED memTuples
           \/ /\ from # to /\ Target = {}
              /\ \E t \in Old :
                    memTuples' = (memTuples \ {t}) \cup {[t EXCEPT !.rel = to]}
           \/ /\ from # to
              /\ \E t \in Old, m \in Target :
                    memTuples' = (memTuples \ {t, m}) \cup
                                 {[m EXCEPT !.exp = LaterExpiry(t.exp, m.exp)]}
        /\ OnlyTuples

-----------------------------------------------------------------------------
(* Groups and managers.                                                    *)

MemCreateGroup(g, s) ==
    /\ memGroups' = IF memGroups[g] = Absent THEN [memGroups EXCEPT ![g] = s]
                    ELSE memGroups
    /\ UNCHANGED <<memTuples, memManagers, memSources, memReserved>>

\* With its members, its memberships, its managers and what it manages; the
\* id is split off a token, not matched by LIKE.
MemDeleteGroup(g) ==
    /\ memGroups' = [memGroups EXCEPT ![g] = Absent]
    /\ memManagers' = [h \in Groups |->
                          IF h = g THEN {}
                          ELSE {x \in memManagers[h] : ~IsGroup(x, g)}]
    /\ memTuples' = {t \in memTuples : t.obj # g /\ ~IsGroup(t.sub, g)}
    /\ UNCHANGED <<memSources, memReserved>>

MemSetManagers(g, T) ==
    /\ memManagers' = [memManagers EXCEPT ![g] = T]
    /\ UNCHANGED <<memGroups, memTuples, memSources, memReserved>>

MemAddManager(g, x) == MemSetManagers(g, memManagers[g] \cup {x})

MemRemoveManager(g, x) == MemSetManagers(g, memManagers[g] \ {x})

-----------------------------------------------------------------------------
(* Sources.                                                                *)

MemUsed(T, g) ==
    \/ \E t \in T : t.obj = g \/ IsGroup(t.sub, g)
    \/ memManagers[g] # {}
    \/ \E h \in Groups : \E x \in memManagers[h] : IsGroup(x, g)

MemReplaceRows(s, file) ==
    LET old == OwnRows(memTuples, s) IN
    (memTuples \ {t \in old : EntryOf(t) \notin file}) \cup
        {MkTuple(e, s, Forever) : e \in {x \in file : RowsOf(old, x) = {}}}

\* What comes is put in before what goes is taken out, and an entry is new
\* unless this source has it, whoever else does.
MemReplaceTuples(s, file) ==
    /\ memTuples' = MemReplaceRows(s, file)
    /\ memGroups' = [g \in Groups |->
           LET whose == IF memGroups[g] = Absent /\ g \in GroupsOf(file)
                        THEN s ELSE memGroups[g]
           IN  IF whose = s /\ ~MemUsed(memTuples', g) THEN Absent ELSE whose]
    /\ UNCHANGED <<memManagers, memSources, memReserved>>

MemSetSource(s, names) ==
    /\ memSources' = memSources \cup {s}
    /\ memReserved' = [memReserved EXCEPT ![s] = names]
    /\ UNCHANGED <<memGroups, memTuples, memManagers>>

MemCreateSource(s, names) == MemSetSource(s, names)

MemUpdateSource(s, names) ==
    IF s \in memSources THEN MemSetSource(s, names) ELSE UNCHANGED memVars

MemDeleteSource(s) ==
    /\ memTuples' = {t \in memTuples : t.src # s}
    /\ memGroups' = [g \in Groups |->
                        IF memGroups[g] = s THEN NoSource ELSE memGroups[g]]
    /\ memSources' = memSources \ {s}
    /\ memReserved' = [memReserved EXCEPT ![s] = {}]
    /\ UNCHANGED memManagers

MemMoveToSource(from, to) ==
    /\ memGroups' = [g \in Groups |->
                        IF memGroups[g] = from THEN to ELSE memGroups[g]]
    /\ memTuples' = {IF t.src = from THEN [t EXCEPT !.src = to] ELSE t :
                        t \in memTuples}
    /\ UNCHANGED <<memManagers, memSources, memReserved>>
=============================================================================
