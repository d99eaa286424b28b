-------------------------- MODULE MemberResolution --------------------------
(***************************************************************************)
(* GetAllMembers: who is in a group and holds a relation there, resolved   *)
(* downwards by the two stores, after the tokens of a person were resolved *)
(* upwards from the same entries.                                          *)
(*                                                                         *)
(* The memory store walks a queue of (group, relation) steps under a read  *)
(* lock and asks the clock as it goes, once for each entry; here a visited *)
(* step is judged at one instant.  The Postgres store runs one recursive   *)
(* query, all of it at the instant the query began; its working table      *)
(* holds the subjects of a whole generation.                               *)
(***************************************************************************)
EXTENDS TokenResolution

CONSTANT Questions  \* the groups and relations whose holders are asked for

ASSUME QuestionsAssumption == Questions \subseteq Pairs

VARIABLES
    asked,     \* the question
    listing,   \* "before", "walk", "done"
    askedAt,   \* when this call began
    steps,     \* the steps visited so far
    queue,     \* found and not yet visited
    members    \* the subjects listed

memberVars == <<asked, listing, askedAt, steps, queue, members>>

allVars == <<vars, memberVars>>

\* Before the call asks for a pair.
Nothing == <<>>

MemberTypeOK ==
    /\ asked \in Questions \cup {Nothing}
    /\ listing \in {"before", "walk", "done"}
    /\ askedAt \in Nat
    /\ steps \in SUBSET Pairs
    /\ queue \in SUBSET Pairs
    /\ members \in SUBSET Tokens

MemberInit ==
    /\ Init
    /\ asked = Nothing
    /\ listing = "before"
    /\ askedAt = now
    /\ steps = {}
    /\ queue = {}
    /\ members = {}

-----------------------------------------------------------------------------

\* Membership filters nothing: every relation implies it.
Filtered(t, p) == t.obj = p[1] /\ p[2] \in {Member, t.rel}

\* Faulty on purpose, like every definition named for what it gets wrong:
\* a property must notice when it stands in for the definition after it.
SubjectsExact(T, P) ==
    {t.sub : t \in {x \in T : \E p \in P : x.obj = p[1] /\ x.rel = p[2]}}
        \cap Tokens

SubjectsAnyRelation(T, P) ==
    {t.sub : t \in {x \in T : \E p \in P : x.obj = p[1]}} \cap Tokens

\* Patterns are rules for membership, not members.
SubjectsOf(T, P) ==
    {t.sub : t \in {x \in T : \E p \in P : Filtered(x, p)}} \cap Tokens

\* Whom a group among the members means is asked for next.
StepsOf(S) == {<<sub.id, sub.rel>> : sub \in {x \in S : x.type = "group"}}

Ask ==
    /\ phase = "done" /\ listing = "before"
    /\ asked' \in Questions
    /\ askedAt' = now
    /\ listing' = "walk"
    /\ queue' = {asked'}
    /\ UNCHANGED <<vars, steps, members>>

StepsAgain(S) == StepsOf(S)

\* The visited steps; UNION drops the subjects that are there already.
NewSteps(S) == StepsOf(S) \ steps

\* The memory store visits one step, at the instant it comes to it.
VisitStep ==
    /\ backend = "memory" /\ listing = "walk"
    /\ \E p \in queue :
          LET found == SubjectsOf(LiveOf(tuples, now), {p}) IN
          /\ members' = members \cup found
          /\ steps' = steps \cup {p}
          /\ queue' = (queue \cup NewSteps(found)) \ {p}
    /\ UNCHANGED <<vars, asked, listing, askedAt>>

\* One iteration of the query, which judges every entry at its own now().
Expand ==
    /\ backend = "postgres" /\ listing = "walk" /\ queue # {}
    /\ LET found == SubjectsOf(LiveOf(tuples, askedAt), queue) IN
          /\ members' = members \cup found
          /\ steps' = steps \cup queue
          /\ queue' = NewSteps(found) \ queue
    /\ UNCHANGED <<vars, asked, listing, askedAt>>

List ==
    /\ listing = "walk" /\ queue = {}
    /\ listing' = "done"
    /\ UNCHANGED <<vars, asked, askedAt, steps, queue, members>>

ListMembers == VisitStep \/ Expand \/ List

MemberNext ==
    \/ (Resolve \/ Tick) /\ UNCHANGED memberVars
    \/ Ask
    \/ ListMembers
    \/ listing = "done" /\ UNCHANGED allVars

MemberSpec == MemberInit /\ [][MemberNext]_allVars

\* As for the tokens: a call that runs is scheduled.
MemberFairSpec ==
    MemberSpec /\ WF_allVars(Resolve /\ UNCHANGED memberVars)
               /\ WF_allVars(Ask \/ ListMembers)

-----------------------------------------------------------------------------
(* Properties.                                                             *)

\* The entries that say who is meant by S.
About(T, S) ==
    {t \in T : \E p \in S : p[1] = t.obj /\ (p[2] = Member \/ p[2] = t.rel)}

Enclosed(T, p, S) ==
    /\ p \in S
    /\ \A t \in About(T, S) :
          t.sub.type = "group" => <<t.sub.id, t.sub.rel>> \in S

\* The least set of steps with p that the entries T do not lead out of.
Reached(T, p) ==
    LET meant    == {p} \cup StepsOf({t.sub : t \in T})
        enclosed == {S \in SUBSET meant : Enclosed(T, p, S)}
    IN  {x \in meant : \A S \in enclosed : x \in S}

Listed(T, p) == {t.sub : t \in About(T, Reached(T, p))} \ PatternSubjects

\* MembersExact: nobody is listed who was not in the group when the call began,
\* and whoever still is when it answers is listed, through any nesting and in
\* circles, with a sub-group handing on only those its entry means
\* (memory.go:319-323, postgres.go:527-531).
MembersExact ==
    listing = "done" =>
        /\ members \subseteq Listed(LiveOf(tuples, askedAt), asked)
        /\ Listed(LiveOf(tuples, now), asked) \subseteq members

\* AnswersAgree: the two directions tell one story.  A person listed in a group
\* carried its token before; and a person who still holds the relation by
\* entries alone, without a pattern, is listed.  Nothing in the code ties
\* GetUserTokens to GetAllMembers (postgres.go:532 and 573).
AnswersAgree ==
    listing = "done" =>
        /\ UserSubject(email) \in members =>
               GroupSubject(asked[1], asked[2]) \in tokens
        /\ LET named == {t \in LiveOf(tuples, now) : t.sub.type # "pattern"} IN
           GroupSubject(asked[1], asked[2]) \in TokensOf(email, Held(named, email))
               => UserSubject(email) \in members

\* AllAnswered: both calls end on every graph of groups, cyclic ones included;
\* the pairs held, the steps visited and the UNION of the two queries keep
\* anything from being followed twice (memory.go:337-340, 375).
AllAnswered == Answers /\ <>(listing = "done")
=============================================================================
