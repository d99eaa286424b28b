------------------------------ MODULE Entries ------------------------------
(***************************************************************************)
(* The data the service keeps about who is in which group, and what it     *)
(* means.  An entry (a row of the table "tuples") says that its subject    *)
(* holds a relation in a group: a person, everybody a pattern matches, or  *)
(* another group with the relation whose holders are meant.                *)
(*                                                                         *)
(* Group ids, addresses and patterns are constants: their spelling is      *)
(* abstracted, and Matches says which pattern matches which address.       *)
(***************************************************************************)
EXTENDS Integers, FiniteSets

CONSTANTS
    Groups,      \* group ids
    Users,       \* e-mail addresses, normalized
    Patterns,    \* pattern members ("*@<domain>")
    Relations,   \* the configured relations, "member" included
    Member,      \* the relation every other relation implies
    NoRelation,  \* the subject relation of a person and of a pattern
    Matches,     \* Matches \subseteq Patterns \X Users: what the globs match
    Sources,     \* ids of the sync sources
    Local,       \* the id of the local source
    NoSource,    \* the nil source id
    Forever      \* the nil expiry

ASSUME EntriesAssumption ==
    /\ Member \in Relations
    /\ NoRelation \notin Relations
    /\ Matches \subseteq Patterns \X Users
    /\ Local \notin Sources
    /\ NoSource \notin Sources \cup {Local}
    /\ Forever \notin Nat

Owners == Sources \cup {Local, NoSource}

Expiries == Nat \cup {Forever}

-----------------------------------------------------------------------------
(* Subjects, which are also the tokens a person carries and the tokens a   *)
(* manager entry names: user:<email>, group:<id>, group:<id>#<relation>.   *)

UserSubject(u) == [type |-> "user", id |-> u, rel |-> NoRelation]

PatternSubject(q) == [type |-> "pattern", id |-> q, rel |-> NoRelation]

GroupSubject(g, r) == [type |-> "group", id |-> g, rel |-> r]

UserSubjects    == {UserSubject(u) : u \in Users}
PatternSubjects == {PatternSubject(q) : q \in Patterns}
GroupSubjects   == {GroupSubject(g, r) : g \in Groups, r \in Relations}

Subjects == UserSubjects \cup PatternSubjects \cup GroupSubjects

Tokens == UserSubjects \cup GroupSubjects

\* What a file or a request names, before it has a source and an expiry.
Entry == [obj : Groups, rel : Relations, sub : Subjects]

Tuple == [obj : Groups, rel : Relations, sub : Subjects,
          src : Owners, exp : Expiries]

EntryOf(t) == [obj |-> t.obj, rel |-> t.rel, sub |-> t.sub]

\* The unique index idx_tuple_uniq: an entry has at most one row.
OneRowPerEntry(T) ==
    \A t1, t2 \in T : EntryOf(t1) = EntryOf(t2) => t1 = t2

-----------------------------------------------------------------------------
(* What the entries mean.                                                  *)

Live(t, now) == t.exp = Forever \/ t.exp > now

LiveOf(T, now) == {t \in T : Live(t, now)}

\* The subject is in the group at that time, in whatever relation.
Counts(T, g, sub, time) ==
    \E t \in LiveOf(T, time) : t.obj = g /\ t.sub = sub

Pairs == Groups \X Relations

PairOf(t) == <<t.obj, t.rel>>

\* The subject is the person, by name or through a pattern.
Names(sub, u) ==
    \/ sub = UserSubject(u)
    \/ sub.type = "pattern" /\ <<sub.id, u>> \in Matches

\* Holding relation r in group g is being among those the subject means.
Means(sub, g, r) ==
    sub.type = "group" /\ sub.id = g /\ sub.rel \in {Member, r}

Seeds(T, u) == {PairOf(t) : t \in {x \in T : Names(x.sub, u)}}

Onward(T, P) ==
    {PairOf(t) : t \in {x \in T : \E p \in P : Means(x.sub, p[1], p[2])}}

Closed(T, u, H) == Seeds(T, u) \subseteq H /\ Onward(T, H) \subseteq H

\* The least set of pairs closed under the live entries T.  It lies among the
\* pairs that are entered at all.
Entered(T) == {p \in Pairs : \E t \in T : PairOf(t) = p}

Held(T, u) ==
    LET closed == {H \in SUBSET Entered(T) : Closed(T, u, H)}
    IN  {p \in Entered(T) : \A H \in closed : p \in H}

\* The tokens that stand for a set of held pairs.
TokensOf(u, H) ==
    {UserSubject(u)} \cup {GroupSubject(p[1], Member) : p \in H}
                     \cup {GroupSubject(p[1], p[2]) : p \in H}

-----------------------------------------------------------------------------
(* The tree of groups: an edge for every live group entry, whatever its    *)
(* relation.                                                               *)

GroupEdges(T) == {<<t.obj, t.sub.id>> : t \in {x \in T : x.sub.type = "group"}}

Children(E, S) == {e[2] : e \in {x \in E : x[1] \in S}}

\* The groups found below g, the least set holding the children of g and the
\* children of its own members.
Below(E, g) ==
    {h \in Groups :
        \A S \in SUBSET Groups :
            Children(E, S \cup {g}) \subseteq S => h \in S}

Acyclic(E) == \A g \in Groups : g \notin Below(E, g)
=============================================================================
