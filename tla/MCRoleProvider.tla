--------------------------- MODULE MCRoleProvider ---------------------------
(***************************************************************************)
(* Instances of RoleProvider: groups a and c are maintained here, b comes  *)
(* from the source s, and t is a second source.                            *)
(***************************************************************************)
EXTENDS RoleProvider, TLC

CONSTANTS a, b, c, u, s, t, p1, p2

\* The ids are spelled without "_", so LIKE takes each for itself.
PlainIds == [g \in Groups |-> {g}]

Person == UserSubject(u)

\* The set S.  Counting it makes TLC sort it here, once, and not later in
\* several workers that share it.
Sorted(S) == CHOOSE X \in {S} : Cardinality(X) \in Nat

Add(who, g, r, m, x) ==
    [op |-> "AddMember", who |-> who, grp |-> g, rel |-> r, sub |-> m,
     exp |-> x]
Remove(who, g, r, m) ==
    [op |-> "RemoveMember", who |-> who, grp |-> g, rel |-> r, sub |-> m]
ChangeTo(who, g, m, r1, r2) ==
    [op |-> "ChangeRelation", who |-> who, grp |-> g, rel |-> r1, to |-> r2,
     sub |-> m]
Create(who, g, T) ==
    [op |-> "CreateGroup", who |-> who, grp |-> g, toks |-> Sorted(T)]
Delete(who, g) == [op |-> "DeleteGroup", who |-> who, grp |-> g]
Maintainer(op, who, g, x) == [op |-> op, who |-> who, grp |-> g, tok |-> x]
Run(x, f) ==
    [op |-> "RunSync", src |-> x, file |-> Sorted(f),
     wellFormed |-> TRUE]
Broken(x) == [op |-> "RunSync", src |-> x, file |-> {}, wellFormed |-> FALSE]
Reserve(op, x, N) == [op |-> op, src |-> x, names |-> Sorted(N)]
Drop(x) == [op |-> "DeleteSource", src |-> x]

\* Whoever is a lecturer of a is an admin.
MCAdminTokens == {GroupSubject(a, "dozent")}

NoReservations == [x \in Sources |-> {}]

\* One call at a time: nesting both ways between a and c, a person with two
\* relations and two validities, a managed by the people of b, b synced from s
\* and naming a, and both sources reserving names.
SequentialRequests ==
    Sorted({ Create(APIToken, a, {GroupSubject(b, "member")}),
             Create(APIToken, c, {}),
             Add(u, a, "member", GroupSubject(c, "dozent"), Forever),
             Add(APIToken, c, "dozent", GroupSubject(a, "member"), 1),
             Add(APIToken, a, "dozent", Person, 1),
             Add(APIToken, a, "member", Person, Forever),
             Add(APIToken, b, "member", Person, 1),
             ChangeTo(APIToken, a, Person, "member", "dozent"),
             ChangeTo(u, a, GroupSubject(c, "dozent"), "member", "dozent"),
             Remove(APIToken, a, "dozent", Person),
             Delete(APIToken, a),
             Delete(u, c),
             Maintainer("AddManager", APIToken, c, GroupSubject(a, "dozent")),
             Maintainer("AddManager", u, c, Person),
             Maintainer("RemoveManager", APIToken, c, GroupSubject(a, "dozent")),
             Run(s, {MkEntry(b, "member", Person)}),
             Run(s, {MkEntry(b, "dozent", GroupSubject(a, "member")),
                     MkEntry(a, "member", Person)}),
             Run(s, {MkEntry(b, "dozent", GroupSubject(c, "member"))}),
             Run(s, {}),
             Broken(s),
             Reserve("UpdateSource", s, {a, b}),
             Reserve("CreateSource", t, {b}),
             Drop(s) })

\* Two calls at a time: s and t keep to b and c, which they reserve; the API
\* fills a, and tries b.
OwnNames == (s :> {b}) @@ (t :> {c})

Explaining ==
    {"group_created", "member_added", "relation_changed", "manager_added"}

SeparatedRequests ==
    Sorted({ Create(APIToken, a, {Person, GroupSubject(b, "member")}),
             Create(APIToken, b, {}),
             Delete(APIToken, a),
             Add(u, a, "member", Person, 1),
             Add(APIToken, b, "member", Person, 1),
             Remove(u, a, "member", Person),
             ChangeTo(APIToken, a, Person, "member", "dozent"),
             Run(s, {MkEntry(b, "member", Person)}),
             Run(s, {}),
             Run(t, {MkEntry(c, "member", GroupSubject(b, "member"))}) })

\* A group b of a source goes into the group a, then the source puts a into b.
CycleRequests ==
    Sorted({ Create(APIToken, a, {}),
             Add(APIToken, a, "member", GroupSubject(b, "member"), Forever),
             Run(s, {MkEntry(b, "member", Person)}),
             Run(s, {MkEntry(b, "member", GroupSubject(a, "member"))}) })

\* A group is filled while it is deleted, and created again.
RebirthRequests ==
    Sorted({ Create(APIToken, a, {}),
             Add(APIToken, a, "member", Person, Forever),
             Delete(APIToken, a) })

\* Two sources whose files name the same new group.
SharedNameRequests ==
    Sorted({ Run(s, {MkEntry(b, "member", Person)}),
             Run(t, {MkEntry(b, "member", GroupSubject(c, "member"))}) })
=============================================================================
