----------------------------- MODULE GroupTree -----------------------------
(***************************************************************************)
(* Browsing the tree of groups (Service.Browse).  A source's tree shows at *)
(* its top the groups no other group of that source contains; opening one  *)
(* lists the groups in it; and pathDown finds the way from the top to a    *)
(* group somebody links to, climbing breadth-first from the group.         *)
(*                                                                         *)
(* Groups are nested by entries of any relation, across sources too, and   *)
(* in circles.  The order of ids is abstracted: parents found at once are  *)
(* queued in any order.                                                    *)
(***************************************************************************)
EXTENDS Entries, SequencesExt

CONSTANTS
    Trees,      \* the entries that may be there, all of them live
    Belongings  \* which source each group may belong to

ASSUME GroupTreeAssumption ==
    /\ IsFiniteSet(Groups)
    /\ Trees \subseteq SUBSET Tuple
    /\ Belongings \subseteq [Groups -> Owners]

VARIABLES
    tree,     \* the entries
    belongs,  \* the source of each group
    target,   \* the group the path leads to
    line,     \* the groups queued
    below,    \* for each group found, the one it was found from
    path      \* the way down as far as it is listed, <<>> while climbing

treeVars == <<tree, belongs, target, line, below, path>>

TreeInit ==
    /\ tree \in Trees
    /\ belongs \in Belongings
    /\ target \in Groups
    /\ line = <<target>>
    /\ below = [g \in {target} |-> target]
    /\ path = <<>>

-----------------------------------------------------------------------------

\* The groups of source s no other group of s contains.
Top(E, s) ==
    {g \in Groups :
        belongs[g] = s /\ \A e \in E : e[2] = g => belongs[e[1]] # s}

\* Faulty on purpose: a property must notice when it stands in for SameSource.
AnyParent(g) == {e[1] : e \in {x \in GroupEdges(tree) : x[2] = g}}

\* The groups of the target's source that contain g.
SameSource(g) ==
    {e[1] : e \in {x \in GroupEdges(tree) :
                      x[2] = g /\ belongs[x[1]] = belongs[target]}}

\* The first group found without a parent of its source is the top.
Climb ==
    /\ path = <<>> /\ line # <<>>
    /\ LET g   == Head(line)
           new == SameSource(g) \ DOMAIN below
       IN  IF SameSource(g) = {}
           THEN path' = <<g>> /\ UNCHANGED <<line, below>>
           ELSE /\ \E q \in SetToSeqs(new) : line' = Tail(line) \o q
                /\ below' = [p \in DOMAIN below \cup new |->
                               IF p \in new THEN g ELSE below[p]]
                /\ UNCHANGED path
    /\ UNCHANGED <<tree, belongs, target>>

Arrived == path # <<>> /\ path[Len(path)] = target

\* From the top back down, the way it was found.
Descend ==
    /\ path # <<>> /\ ~Arrived
    /\ path' = Append(path, below[path[Len(path)]])
    /\ UNCHANGED <<tree, belongs, target, line, below>>

\* Every way up runs in a circle: the group is shown by itself.
NoTop ==
    /\ path = <<>> /\ line = <<>>
    /\ path' = <<target>>
    /\ UNCHANGED <<tree, belongs, target, line, below>>

TreeNext == Climb \/ Descend \/ NoTop

TreeSpec == TreeInit /\ [][TreeNext]_treeVars

-----------------------------------------------------------------------------
(* Properties.                                                             *)

\* A way down to the target through groups of its source.
IsWay(q) ==
    /\ q # <<>> /\ q[Len(q)] = target
    /\ \A i \in 1 .. Len(q) - 1 :
          /\ <<q[i], q[i + 1]>> \in GroupEdges(tree)
          /\ belongs[q[i]] = belongs[target]

\* The ways that pass at most n groups, the target included, from the top.
WaysFromTop(n) ==
    {q \in BoundedSeq(Groups, n) :
        IsWay(q) /\ q[1] \in Top(GroupEdges(tree), belongs[target])}

\* PathOpens: a person who opens the groups of the path one after the other
\* from the top of the source's tree arrives at the group, on a shortest way;
\* only a group all of whose ways up run in circles is shown alone, and is
\* then not to be found in the tree at all (browse.go:102-112, 123-157).
PathOpens ==
    Arrived =>
        LET n == Len(path)
        IN  \/ path \in WaysFromTop(n) /\ WaysFromTop(n - 1) = {}
            \/ path = <<target>> /\ WaysFromTop(Cardinality(Groups)) = {}
=============================================================================
