------------------------- MODULE MCTokenResolution -------------------------
(***************************************************************************)
(* What is read: the tokens of a person and the members of a group, the    *)
(* way to a group in the tree, the search box, and the files of sources.   *)
(* The four do not meet; part says which of them a behaviour is about.     *)
(*                                                                         *)
(* Every store that can be made of eight entries: two groups in each       *)
(* other, through a relation and through plain membership, a third above   *)
(* them, a person, a pattern, and entries that expire.  The tree: every    *)
(* one of the three groups, each of either source.  The box: four words.   *)
(* The files: headers in several orders, with a note, without a member,    *)
(* with a misspelt column; rows that fit them, are short, empty in part,   *)
(* malformed or name a relation nobody configured.                         *)
(***************************************************************************)
EXTENDS MemberResolution, GroupTree, MCGroupQuery, Import

CONSTANTS a, b, c, u, q, s

MCMatches == {<<q, u>>}

Row(g, r, sub, exp) ==
    [obj |-> g, rel |-> r, sub |-> sub, src |-> Local, exp |-> exp]

Candidates ==
    { Row(a, "member", UserSubject(u), Forever),
      Row(a, "dozent", UserSubject(u), 1),
      Row(b, "dozent", PatternSubject(q), 2),
      Row(b, "member", GroupSubject(a, "dozent"), Forever),
      Row(a, "dozent", GroupSubject(b, "member"), Forever),
      Row(c, "dozent", GroupSubject(b, "member"), 1),
      Row(c, "member", GroupSubject(a, "member"), Forever),
      Row(a, "member", GroupSubject(c, "dozent"), 2) }

MCStores == SUBSET Candidates

MCQuestions == {<<a, "member">>, <<a, "dozent">>, <<c, "member">>}

Edge(g, h) == Row(g, "member", GroupSubject(h, "member"), Forever)

MCTrees == SUBSET {Edge(g[1], g[2]) : g \in {x \in Groups \X Groups : x[1] # x[2]}}

MCBelongings == [Groups -> {s, Local}]

\* "wi" and "ma" name a and b; every other plain word is the group c.
Spelled ==
    {"", "wi", "ma", "dozent", "tutor", "ann@", "wi#tutor", "a b", "group",
     "member", "relation", "relaton", "note"}

MCAsGroup ==
    [w \in Spelled |->
        CASE w = "wi" -> a
          [] w = "ma" -> b
          [] w \in {"", "ann@", "wi#tutor", "a b"} -> Malformed
          [] OTHER -> c]

MCAsMember ==
    [w \in Spelled |->
        CASE w = "ann@" -> UserSubject(u)
          [] w = "wi#tutor" -> GroupSubject(a, Unknown)
          [] OTHER -> IF MCAsGroup[w] = Malformed THEN Malformed
                      ELSE GroupSubject(MCAsGroup[w], "member")]

MCAsRelation ==
    [w \in Spelled |->
        CASE w \in {"", "member"} -> "member"
          [] w = "dozent" -> "dozent"
          [] OTHER -> Unknown]

MCHeads ==
    [w \in Spelled |->
        CASE w \in {"group", "member", "relation"} -> w
          [] w \in {"", "note"} -> "ignored"
          [] OTHER -> "unknown"]

MCRows ==
    { <<"group", "member", "relation">>, <<"group", "relation", "member">>,
      <<"group", "note", "member">>, <<"group", "member", "relaton">>,
      <<"group", "relation">>,
      <<"wi", "ann@", "dozent">>, <<"wi", "dozent", "ann@">>, <<"ma", "ann@">>,
      <<"ma", "wi", "tutor">>, <<"ma", "wi#tutor">>, <<"", "ann@", "dozent">>,
      <<"a b", "ann@">>, <<"ma">> }

\* "dozent" as a CN stands for the role dozent of a, "tutor" for one of b.
MCRoleOf ==
    [w \in Spelled |->
        CASE w = "dozent" -> [cn |-> "wi", rel |-> "dozent"]
          [] w = "tutor" -> [cn |-> "ma", rel |-> Unknown]
          [] OTHER -> [cn |-> w, rel |-> "member"]]

MCObjects ==
    [isGroup : BOOLEAN, cn : {"wi", "dozent"}, addresses : {{"ann@"}, {"", "ann@"}}]
    \cup [isGroup : {TRUE}, cn : {"", "tutor", "a b"}, addresses : {{}, {"ann@"}}]
    \cup [isGroup : {TRUE}, cn : {"ma"}, addresses : {{"ann@", "a b"}, {"wi"}}]

-----------------------------------------------------------------------------

VARIABLE part

\* Where the parts a behaviour is not about stand still.
Still ==
    /\ part # "resolve" => UNCHANGED allVars
    /\ part # "browse" => UNCHANGED treeVars
    /\ part # "search" => UNCHANGED queryVars
    /\ part # "import" => UNCHANGED importVars

MCInit ==
    /\ part \in {"resolve", "browse", "search", "import"}
    /\ MemberInit /\ TreeInit /\ QueryInit /\ ImportInit
    /\ part # "resolve" =>
          backend = "memory" /\ tuples = {} /\ now = 0
    /\ part # "browse" =>
          tree = {} /\ target = c /\ belongs = [g \in Groups |-> s]
    /\ part # "import" => format = "csv"

Browsed == Arrived /\ UNCHANGED treeVars

Searched == Len(typed) = MaxWords /\ UNCHANGED queryVars

Imported == step \in {"imported", "refused", "unreadable"} /\ UNCHANGED importVars

MCNext ==
    /\ \/ part = "resolve" /\ MemberNext
       \/ part = "browse" /\ (TreeNext \/ Browsed)
       \/ part = "search" /\ (QueryNext \/ Searched)
       \/ part = "import" /\ (ImportNext \/ Imported)
    /\ Still /\ UNCHANGED part

MCSpec ==
    /\ MCInit /\ [][MCNext]_<<part, allVars, treeVars, queryVars, importVars>>
    /\ WF_allVars(part = "resolve" /\ Resolve /\ UNCHANGED memberVars)
    /\ WF_allVars(part = "resolve" /\ (Ask \/ ListMembers))
    /\ WF_treeVars(part = "browse" /\ TreeNext)

\* CallsAnswered: tokens and members are resolved and the way to a group is
\* found on every graph of groups, cyclic ones included (AllAnswered, and the
\* map next of browse.go:136-154).
CallsAnswered ==
    /\ part = "resolve" => AllAnswered
    /\ part = "browse" => <>Arrived
=============================================================================
