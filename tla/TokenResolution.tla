-------------------------- MODULE TokenResolution --------------------------
(***************************************************************************)
(* GetUserTokens: the tokens of one person, resolved by the two stores.    *)
(*                                                                         *)
(* The memory store walks a queue of (group, relation) pairs under a read  *)
(* lock and asks the clock as it goes, once for each entry; here the scan  *)
(* for the seeds, and each pair visited, are judged at one instant.  The   *)
(* Postgres store first fetches the matching pattern entries and then runs *)
(* a recursive query whose working table is a whole generation of pairs,   *)
(* all of it judged at the instant the query began.  Entries expire while  *)
(* either of them works, and the tree of groups may well have cycles.      *)
(*                                                                         *)
(* The queue is a set: the order in which tokens are listed is abstracted. *)
(***************************************************************************)
EXTENDS Entries

CONSTANTS
    Stores,   \* the contents the store may have when the call begins
    MaxTime   \* bound on the clock

ASSUME TokenResolutionAssumption ==
    /\ Stores \subseteq SUBSET Tuple
    /\ MaxTime \in Nat

VARIABLES
    backend,   \* which store answers
    tuples,    \* the entries, fixed while the call runs
    email,     \* whose tokens are asked for
    now,       \* the clock
    started,   \* when the call began
    asOf,      \* now() of the recursive query (Postgres)
    phase,     \* "begin", "query", "expand", "done"
    held,      \* the pairs found so far
    frontier,  \* found and not yet followed
    tokens     \* the answer

vars == <<backend, tuples, email, now, started, asOf, phase, held, frontier,
          tokens>>

call == <<backend, tuples, email, started>>

TypeOK ==
    /\ backend \in {"memory", "postgres"}
    /\ tuples \in SUBSET Tuple
    /\ email \in Users
    /\ now \in Nat /\ started \in Nat /\ asOf \in Nat
    /\ phase \in {"begin", "query", "expand", "done"}
    /\ held \in SUBSET Pairs
    /\ frontier \in SUBSET Pairs
    /\ tokens \in SUBSET Tokens

Init ==
    /\ backend \in {"memory", "postgres"}
    /\ tuples \in Stores
    /\ email \in Users
    /\ now \in 0 .. MaxTime
    /\ started = now
    /\ asOf = now
    /\ phase = "begin"
    /\ held = {}
    /\ frontier = {}
    /\ tokens = {}

-----------------------------------------------------------------------------
(* The memory store.                                                       *)

\* Faulty on purpose, like every definition named for what it gets wrong:
\* a property must notice when it stands in for the definition after it.
SubjectSeeds ==
    {<<t.obj, t.sub.rel>> : t \in {x \in LiveOf(tuples, now) : Names(x.sub, email)}}

MemorySeeds == Seeds(LiveOf(tuples, now), email)

SeedMemory ==
    /\ backend = "memory" /\ phase = "begin"
    /\ held' = MemorySeeds
    /\ frontier' = MemorySeeds
    /\ phase' = "expand"
    /\ UNCHANGED <<call, now, asOf, tokens>>

\* Entries that no longer count are followed, a plain group subject means the
\* relation member alone, and held pairs are followed again.
FoundExpired(P, time) == Onward(tuples, P) \ held

FoundExact(P, time) ==
    {PairOf(t) : t \in {x \in LiveOf(tuples, time) :
        \E p \in P : x.sub = GroupSubject(p[1], p[2])}} \ held

FoundAgain(P, time) == Onward(LiveOf(tuples, time), P)

\* What following the pairs P adds, judged at the instant time.
Found(P, time) == Onward(LiveOf(tuples, time), P) \ held

VisitMemory ==
    /\ backend = "memory" /\ phase = "expand"
    /\ \E p \in frontier :
          /\ held' = held \cup Found({p}, now)
          /\ frontier' = (frontier \ {p}) \cup Found({p}, now)
    /\ UNCHANGED <<call, now, asOf, phase, tokens>>

-----------------------------------------------------------------------------
(* The Postgres store.                                                     *)

PatternSeeds ==
    {PairOf(t) : t \in {x \in LiveOf(tuples, now) :
                           x.sub.type = "pattern" /\ Names(x.sub, email)}}

\* A statement of its own, before the recursive query.
PatternMatches ==
    /\ backend = "postgres" /\ phase = "begin"
    /\ held' = PatternSeeds
    /\ phase' = "query"
    /\ UNCHANGED <<call, now, asOf, frontier, tokens>>

\* The non-recursive terms of the query.
UserSeeds ==
    {PairOf(t) : t \in {x \in LiveOf(tuples, now) :
                           x.sub = UserSubject(email)}}

SeedQuery ==
    /\ phase = "query"
    /\ asOf' = now
    /\ held' = held \cup UserSeeds
    /\ frontier' = held \cup UserSeeds
    /\ phase' = "expand"
    /\ UNCHANGED <<call, now, tokens>>

\* One iteration of the recursive term; UNION drops the rows already there.
Iterate ==
    /\ backend = "postgres" /\ phase = "expand" /\ frontier # {}
    /\ held' = held \cup Found(frontier, asOf)
    /\ frontier' = Found(frontier, asOf)
    /\ UNCHANGED <<call, now, asOf, phase, tokens>>

-----------------------------------------------------------------------------

\* One token per group, and one per relation beyond membership.
Answer ==
    /\ phase = "expand" /\ frontier = {}
    /\ tokens' = TokensOf(email, held)
    /\ phase' = "done"
    /\ UNCHANGED <<call, now, asOf, held, frontier>>

Tick ==
    /\ now < MaxTime
    /\ now' = now + 1
    /\ UNCHANGED <<call, asOf, phase, held, frontier, tokens>>

\* The call is over; nothing happens any more.
Over == phase = "done" /\ UNCHANGED vars

Resolve ==
    SeedMemory \/ VisitMemory \/ PatternMatches \/ SeedQuery \/ Iterate \/ Answer

Next == Resolve \/ Tick \/ Over

Spec == Init /\ [][Next]_vars

\* A call that runs is scheduled: the handler is a goroutine, the query a
\* backend process.
FairSpec == Spec /\ WF_vars(Resolve)

-----------------------------------------------------------------------------
(* Properties.                                                             *)

\* NothingUnearned: every token answered is one the person was entitled to
\* when the call began.  The worklist of memory.go:387-396 and the recursive
\* term of postgres.go:597-601 follow only live entries, and from a pair only
\* the entries that mean its relation.
NothingUnearned ==
    phase = "done" =>
        tokens \subseteq TokensOf(email, Held(LiveOf(tuples, started), email))

\* NothingMissed: every token the person is still entitled to when the answer
\* is given is in it, however deep the nesting and in whatever order the
\* worklist was followed, for either store.
NothingMissed ==
    phase = "done" =>
        TokensOf(email, Held(LiveOf(tuples, now), email)) \subseteq tokens

\* Answers: the resolution ends on every graph of groups, cyclic ones
\* included; memory.go:375 and the UNION of postgres.go:596 keep a pair from
\* being followed twice.
Answers == <>(phase = "done")
=============================================================================
