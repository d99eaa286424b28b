-------------------------- MODULE ResolutionProofs --------------------------
(***************************************************************************)
(* What the resolutions of both stores guarantee for any entries, any      *)
(* nesting of groups and any course of time.                               *)
(*                                                                         *)
(* GetUserTokens: an answer is typed, hands out nothing that was not held  *)
(* when the call began, and misses nothing that is held when it ends.  The *)
(* pairs found so far lie in every set closed under the entries that       *)
(* counted at the beginning (Sound), and the pairs already followed lead   *)
(* nowhere new under the entries that count now (Complete).  Both survive  *)
(* the clock because entries only ever stop counting.                      *)
(*                                                                         *)
(* GetAllMembers: it lists nobody who was not in the group when it began,  *)
(* and everybody who still is when it answers.  What is visited and listed *)
(* was reached by the entries of the beginning (NothingStrange), and       *)
(* whatever the entries of now say of a step that was visited is listed or *)
(* waits to be visited (NothingLost).                                      *)
(*                                                                         *)
(* The two agree because a token carried below a group is carried above it *)
(* (ListedCarries) and, patterns apart, the pairs from which a person is   *)
(* listed are closed under the entries (CarriesListed).                    *)
(*                                                                         *)
(* The way to a group in the tree: what has been climbed spans a tree with *)
(* the queue as its rim, nearest first (Spans), so that a way from the top *)
(* no longer than the head of the queue is far away would have been found  *)
(* already (NoShorterWay).                                                 *)
(***************************************************************************)
EXTENDS MemberResolution, GroupTree, FiniteSetTheorems, WellFoundedInduction,
        TLAPS

-----------------------------------------------------------------------------
(* The operators of Entries.                                               *)

\* An entry that counts at a time counted at every time before.
LEMMA LiveShrinks ==
    ASSUME NEW T \in SUBSET Tuple, NEW x \in Nat, NEW y \in Nat, x <= y
    PROVE  LiveOf(T, y) \subseteq LiveOf(T, x)
<1> SUFFICES ASSUME NEW t \in T, Live(t, y)
             PROVE  Live(t, x)
    BY DEF LiveOf
<1>1. CASE t.exp = Forever
    BY <1>1 DEF Live
<1>2. CASE t.exp # Forever
    <2>1. t.exp \in Nat /\ t.exp > y
        BY <1>2 DEF Live, Tuple, Expiries
    <2> QED BY <2>1 DEF Live
<1> QED BY <1>1, <1>2

LEMMA LiveIsTuples ==
    ASSUME NEW T \in SUBSET Tuple, NEW x
    PROVE  LiveOf(T, x) \in SUBSET Tuple
BY DEF LiveOf

\* What the seeds and the entries that mean a pair lead to are pairs, and
\* more entries and more pairs lead to more.
LEMMA PairsFromTuples ==
    ASSUME NEW T \in SUBSET Tuple, NEW u, NEW P
    PROVE  Seeds(T, u) \in SUBSET Pairs /\ Onward(T, P) \in SUBSET Pairs
BY DEF Seeds, Onward, PairOf, Pairs, Tuple

\* They are pairs somebody is entered for, which makes these a closed set.
LEMMA LeadsToEntered ==
    ASSUME NEW T \in SUBSET Tuple, NEW u, NEW P
    PROVE  Seeds(T, u) \subseteq Entered(T) /\ Onward(T, P) \subseteq Entered(T)
<1>1. \A t \in T : PairOf(t) \in Entered(T)
    BY DEF Entered, PairOf, Pairs, Tuple
<1> QED BY <1>1 DEF Seeds, Onward

LEMMA EnteredClosed ==
    ASSUME NEW T \in SUBSET Tuple, NEW u
    PROVE  Entered(T) \in SUBSET Pairs /\ Closed(T, u, Entered(T))
BY LeadsToEntered DEF Entered, Closed

LEMMA SeedsGrow ==
    ASSUME NEW T1, NEW T2, T1 \subseteq T2, NEW u
    PROVE  Seeds(T1, u) \subseteq Seeds(T2, u)
BY DEF Seeds

LEMMA OnwardGrows ==
    ASSUME NEW T1, NEW T2, T1 \subseteq T2, NEW P1, NEW P2, P1 \subseteq P2
    PROVE  Onward(T1, P1) \subseteq Onward(T2, P2)
BY DEF Onward

LEMMA OnwardOfUnion ==
    ASSUME NEW T, NEW P1, NEW P2
    PROVE  Onward(T, P1 \cup P2) = Onward(T, P1) \cup Onward(T, P2)
BY DEF Onward

\* What is held is closed, and lies in every closed set.
LEMMA HeldLeast ==
    ASSUME NEW T \in SUBSET Tuple, NEW u, NEW H, Closed(T, u, H)
    PROVE  Held(T, u) \subseteq H
<1> DEFINE E == H \cap Entered(T)
<1>1. Onward(T, E) \subseteq Onward(T, H)
    BY OnwardGrows
<1>2. Seeds(T, u) \subseteq Entered(T) /\ Onward(T, E) \subseteq Entered(T)
    BY LeadsToEntered
<1>3. E \in SUBSET Entered(T) /\ Closed(T, u, E)
    BY <1>1, <1>2 DEF Closed
<1> QED BY <1>3 DEF Held

LEMMA HeldClosed ==
    ASSUME NEW T \in SUBSET Tuple, NEW u
    PROVE  Held(T, u) \in SUBSET Pairs /\ Closed(T, u, Held(T, u))
<1> DEFINE H == Held(T, u)
<1>1. H \subseteq Entered(T)
    BY DEF Held
<1>2. ASSUME NEW C \in SUBSET Entered(T), Closed(T, u, C)
      PROVE  Seeds(T, u) \subseteq C /\ Onward(T, H) \subseteq C
    <2>1. Onward(T, H) \subseteq Onward(T, C)
        BY <1>2, HeldLeast, OnwardGrows
    <2> QED BY <1>2, <2>1 DEF Closed
<1>3. Seeds(T, u) \subseteq Entered(T) /\ Onward(T, H) \subseteq Entered(T)
    BY LeadsToEntered
<1> QED BY <1>1, <1>2, <1>3, EnteredClosed DEF Held, Closed

LEMMA TokensGrow ==
    ASSUME NEW u, NEW H1, NEW H2, H1 \subseteq H2
    PROVE  TokensOf(u, H1) \subseteq TokensOf(u, H2)
BY DEF TokensOf

LEMMA TokensTyped ==
    ASSUME NEW u \in Users, NEW H \in SUBSET Pairs
    PROVE  TokensOf(u, H) \in SUBSET Tokens
BY EntriesAssumption
   DEF TokensOf, Pairs, Tokens, UserSubjects, GroupSubjects

-----------------------------------------------------------------------------
(* Types.                                                                  *)

\* Whatever is found is a pair.
LEMMA FoundTyped ==
    ASSUME tuples \in SUBSET Tuple, NEW P, NEW x
    PROVE  Found(P, x) \in SUBSET Pairs
BY LiveIsTuples, PairsFromTuples DEF Found

LEMMA SeedsTyped ==
    ASSUME tuples \in SUBSET Tuple
    PROVE  /\ MemorySeeds \in SUBSET Pairs
           /\ PatternSeeds \in SUBSET Pairs
           /\ UserSeeds \in SUBSET Pairs
<1>1. LiveOf(tuples, now) \in SUBSET Tuple
    BY LiveIsTuples
<1>2. MemorySeeds \in SUBSET Pairs
    BY <1>1, PairsFromTuples DEF MemorySeeds
<1>3. PatternSeeds \in SUBSET Pairs /\ UserSeeds \in SUBSET Pairs
    BY <1>1 DEF PatternSeeds, UserSeeds, PairOf, Pairs, Tuple
<1> QED BY <1>2, <1>3

\* TypeCorrect: every state of every call is typed; an answer consists of
\* tokens (GetUserTokens of both stores).
THEOREM TypeCorrect == Spec => []TypeOK
<1>1. Init => TypeOK
    BY TokenResolutionAssumption DEF Init, TypeOK
<1>2. TypeOK /\ [Next]_vars => TypeOK'
    <2> SUFFICES ASSUME TypeOK, [Next]_vars
                 PROVE  TypeOK'
        OBVIOUS
    <2> USE DEF TypeOK, call
    <2>1. CASE SeedMemory
        BY <2>1, SeedsTyped DEF SeedMemory
    <2>2. CASE VisitMemory
        <3>1. PICK p \in frontier :
                  /\ held' = held \cup Found({p}, now)
                  /\ frontier' = (frontier \ {p}) \cup Found({p}, now)
            BY <2>2 DEF VisitMemory
        <3>2. Found({p}, now) \in SUBSET Pairs
            BY FoundTyped
        <3> QED BY <2>2, <3>1, <3>2 DEF VisitMemory
    <2>3. CASE PatternMatches
        BY <2>3, SeedsTyped DEF PatternMatches
    <2>4. CASE SeedQuery
        BY <2>4, SeedsTyped DEF SeedQuery
    <2>5. CASE Iterate
        BY <2>5, FoundTyped DEF Iterate
    <2>6. CASE Answer
        BY <2>6, TokensTyped DEF Answer
    <2>7. CASE Tick
        BY <2>7 DEF Tick
    <2>8. CASE UNCHANGED vars
        BY <2>8 DEF vars
    <2> QED
        BY <2>1, <2>2, <2>3, <2>4, <2>5, <2>6, <2>7, <2>8
           DEF Next, Resolve, Over
<1> QED BY <1>1, <1>2, PTL DEF Spec

-----------------------------------------------------------------------------
(* The clock moves forward, and what is followed has been found.           *)

Ordered ==
    /\ started <= now
    /\ started <= asOf /\ asOf <= now
    /\ frontier \subseteq held
    /\ phase = "begin" => frontier = {}

LEMMA OrderedInductive ==
    /\ Init => Ordered
    /\ TypeOK /\ Ordered /\ [Next]_vars => Ordered'
<1>1. Init => Ordered
    BY TokenResolutionAssumption DEF Init, Ordered
<1>2. ASSUME TypeOK, Ordered, [Next]_vars
      PROVE  Ordered'
    <2> USE <1>2 DEF TypeOK, Ordered, call
    <2>1. CASE SeedMemory
        BY <2>1 DEF SeedMemory
    <2>2. CASE VisitMemory
        BY <2>2 DEF VisitMemory
    <2>3. CASE PatternMatches
        BY <2>3 DEF PatternMatches
    <2>4. CASE SeedQuery
        BY <2>4 DEF SeedQuery
    <2>5. CASE Iterate
        BY <2>5 DEF Iterate
    <2>6. CASE Answer
        BY <2>6 DEF Answer
    <2>7. CASE Tick
        BY <2>7 DEF Tick
    <2>8. CASE UNCHANGED vars
        BY <2>8 DEF vars
    <2> QED
        BY <2>1, <2>2, <2>3, <2>4, <2>5, <2>6, <2>7, <2>8
           DEF Next, Resolve, Over
<1> QED BY <1>1, <1>2

-----------------------------------------------------------------------------
(* Nothing unearned.                                                       *)

\* The pairs found lie in every set closed under the entries that counted when
\* the call began, and the answer is the tokens of the pairs found.
Sound ==
    /\ \A H \in SUBSET Pairs :
          Closed(LiveOf(tuples, started), email, H) => held \subseteq H
    /\ phase = "done" => tokens = TokensOf(email, held)

\* What is found at a later time from pairs of a closed set stays in it.
LEMMA FoundInClosed ==
    ASSUME TypeOK, NEW H, Closed(LiveOf(tuples, started), email, H),
           NEW P, P \subseteq H, NEW x \in Nat, started <= x
    PROVE  Found(P, x) \subseteq H
<1>1. LiveOf(tuples, x) \subseteq LiveOf(tuples, started)
    BY LiveShrinks DEF TypeOK
<1>2. Onward(LiveOf(tuples, x), P) \subseteq Onward(LiveOf(tuples, started), H)
    BY <1>1, OnwardGrows
<1> QED BY <1>2 DEF Found, Closed

\* So do the seeds.
LEMMA SeedsInClosed ==
    ASSUME TypeOK, Ordered,
           NEW H, Closed(LiveOf(tuples, started), email, H)
    PROVE  /\ MemorySeeds \subseteq H
           /\ PatternSeeds \subseteq H
           /\ UserSeeds \subseteq H
<1>1. Seeds(LiveOf(tuples, now), email) \subseteq H
    <2>1. LiveOf(tuples, now) \subseteq LiveOf(tuples, started)
        BY LiveShrinks DEF TypeOK, Ordered
    <2> QED BY <2>1, SeedsGrow DEF Closed
<1>2. /\ PatternSeeds \subseteq Seeds(LiveOf(tuples, now), email)
      /\ UserSeeds \subseteq Seeds(LiveOf(tuples, now), email)
    BY DEF PatternSeeds, UserSeeds, Seeds, Names
<1> QED BY <1>1, <1>2 DEF MemorySeeds

LEMMA SoundInductive ==
    /\ Init => Sound
    /\ TypeOK /\ Ordered /\ Sound /\ [Next]_vars => Sound'
<1>1. Init => Sound
    BY DEF Init, Sound
<1>2. ASSUME TypeOK, Ordered, Sound, [Next]_vars
      PROVE  Sound'
    <2>1. UNCHANGED call
        BY <1>2 DEF Next, Resolve, SeedMemory, VisitMemory, PatternMatches,
                    SeedQuery, Iterate, Answer, Tick, Over, vars, call
    <2>2. ASSUME NEW H \in SUBSET Pairs,
                 Closed(LiveOf(tuples, started), email, H)
          PROVE  held' \subseteq H
        <3>1. held \subseteq H /\ frontier \subseteq H
            BY <1>2, <2>2 DEF Sound, Ordered
        <3>2. now \in Nat /\ asOf \in Nat /\ started <= now /\ started <= asOf
            BY <1>2 DEF TypeOK, Ordered
        <3>3. CASE SeedMemory
            BY <3>3, <1>2, <2>2, SeedsInClosed DEF SeedMemory
        <3>4. CASE VisitMemory
            <4>1. PICK p \in frontier : held' = held \cup Found({p}, now)
                BY <3>4 DEF VisitMemory
            <4>2. Found({p}, now) \subseteq H
                BY <3>1, <3>2, <1>2, <2>2, FoundInClosed
            <4> QED BY <4>1, <4>2, <3>1
        <3>5. CASE PatternMatches
            BY <3>5, <1>2, <2>2, SeedsInClosed DEF PatternMatches
        <3>6. CASE SeedQuery
            BY <3>6, <3>1, <1>2, <2>2, SeedsInClosed DEF SeedQuery
        <3>7. CASE Iterate
            <4>1. Found(frontier, asOf) \subseteq H
                BY <3>1, <3>2, <1>2, <2>2, FoundInClosed
            <4> QED BY <4>1, <3>1, <3>7 DEF Iterate
        <3>8. CASE Answer \/ Tick \/ UNCHANGED vars
            BY <3>8, <3>1 DEF Answer, Tick, vars
        <3> QED
            BY <3>3, <3>4, <3>5, <3>6, <3>7, <3>8, <1>2
               DEF Next, Resolve, Over
    <2>3. phase' = "done" => tokens' = TokensOf(email', held')
        BY <1>2, <2>1
           DEF Sound, Next, Resolve, SeedMemory, VisitMemory, PatternMatches,
               SeedQuery, Iterate, Answer, Tick, Over, vars, call
    <2>4. \A H \in SUBSET Pairs :
              Closed(LiveOf(tuples', started'), email', H) => held' \subseteq H
        BY <2>1, <2>2 DEF call
    <2> QED BY <2>3, <2>4 DEF Sound
<1> QED BY <1>1, <1>2

\* NothingUnearnedAlways: whatever the entries and however long the call takes,
\* an answer holds no token the person was not entitled to when the call began
\* (GetUserTokens of both stores).
THEOREM NothingUnearnedAlways == Spec => []NothingUnearned
<1>1. TypeOK /\ Sound => NothingUnearned
    <2> SUFFICES ASSUME TypeOK, Sound, phase = "done"
                 PROVE  tokens \subseteq
                        TokensOf(email, Held(LiveOf(tuples, started), email))
        BY DEF NothingUnearned
    <2> DEFINE T == LiveOf(tuples, started)
    <2>1. T \in SUBSET Tuple
        BY LiveIsTuples DEF TypeOK
    <2>2. Entered(T) \in SUBSET Pairs /\ Closed(T, email, Entered(T))
        BY <2>1, EnteredClosed DEF TypeOK
    <2>3. held \subseteq Held(T, email)
        BY <2>2 DEF Sound, Held, TypeOK
    <2> QED BY <2>3, TokensGrow DEF Sound
<1> QED
    BY <1>1, TypeCorrect, OrderedInductive, SoundInductive, PTL DEF Spec

-----------------------------------------------------------------------------
(* Nothing missed.                                                         *)

\* Every pair the person is named in has been found, and what the followed
\* pairs lead to has been found, under the entries that count now; before the
\* recursive query begins only the patterns have been looked at.
Complete ==
    /\ phase = "query" => PatternSeeds \subseteq held
    /\ phase \in {"expand", "done"} =>
          /\ Seeds(LiveOf(tuples, now), email) \subseteq held
          /\ Onward(LiveOf(tuples, now), held \ frontier) \subseteq held
    /\ phase = "done" => frontier = {} /\ tokens = TokensOf(email, held)

\* Following pairs at an earlier time finds all they lead to now.
LEMMA FoundSuffices ==
    ASSUME TypeOK, NEW P, NEW x \in Nat, x <= now
    PROVE  Onward(LiveOf(tuples, now), P) \subseteq held \cup Found(P, x)
<1>1. LiveOf(tuples, now) \subseteq LiveOf(tuples, x)
    BY LiveShrinks DEF TypeOK
<1>2. Onward(LiveOf(tuples, now), P) \subseteq Onward(LiveOf(tuples, x), P)
    BY <1>1, OnwardGrows
<1> QED BY <1>2 DEF Found

\* Following a part P of the frontier keeps the followed pairs closed.
LEMMA FollowedStaysClosed ==
    ASSUME TypeOK, Ordered,
           Onward(LiveOf(tuples, now), held \ frontier) \subseteq held,
           NEW P, P \subseteq frontier, NEW x \in Nat, x <= now,
           NEW kept, kept = frontier \ P
    PROVE  Onward(LiveOf(tuples, now),
                  (held \cup Found(P, x)) \ (kept \cup Found(P, x)))
               \subseteq held \cup Found(P, x)
<1> DEFINE L == LiveOf(tuples, now)
           followed == (held \cup Found(P, x)) \ (kept \cup Found(P, x))
<1>1. followed \subseteq (held \ frontier) \cup P
    OBVIOUS
<1>2. Onward(L, followed) \subseteq Onward(L, (held \ frontier) \cup P)
    BY <1>1, OnwardGrows
<1>3. Onward(L, (held \ frontier) \cup P) =
          Onward(L, held \ frontier) \cup Onward(L, P)
    BY OnwardOfUnion
<1>4. Onward(L, P) \subseteq held \cup Found(P, x)
    BY FoundSuffices
<1> QED BY <1>2, <1>3, <1>4

LEMMA CompleteInductive ==
    /\ Init => Complete
    /\ TypeOK /\ Ordered /\ Complete /\ [Next]_vars => Complete'
<1>1. Init => Complete
    BY DEF Init, Complete
<1>2. ASSUME TypeOK, Ordered, Complete, [Next]_vars
      PROVE  Complete'
    <2> DEFINE L == LiveOf(tuples, now)
    <2>1. CASE SeedMemory
        <3>1. /\ held' = Seeds(L, email) /\ frontier' = held'
              /\ phase' = "expand"
              /\ UNCHANGED <<tuples, email, now, tokens>>
            BY <2>1 DEF SeedMemory, MemorySeeds, call
        <3>2. Onward(L, held' \ frontier') = {}
            BY <3>1 DEF Onward
        <3> QED BY <3>1, <3>2 DEF Complete
    <2>2. CASE VisitMemory
        <3>1. PICK p \in frontier :
                  /\ held' = held \cup Found({p}, now)
                  /\ frontier' = (frontier \ {p}) \cup Found({p}, now)
            BY <2>2 DEF VisitMemory
        <3>2. phase = "expand" /\ UNCHANGED <<tuples, email, now, phase, tokens>>
            BY <2>2 DEF VisitMemory, call
        <3>3. Onward(L, held \ frontier) \subseteq held /\ now \in Nat
            BY <1>2, <3>2 DEF Complete, TypeOK
        <3>4. {p} \subseteq frontier /\ now <= now
            BY <3>3
        <3>5. \A kept : kept = frontier \ {p} =>
                  Onward(L, (held \cup Found({p}, now)) \ (kept \cup Found({p}, now)))
                      \subseteq held \cup Found({p}, now)
            BY <1>2, <3>3, <3>4, FollowedStaysClosed
        <3>6. Onward(L, held' \ frontier') \subseteq held'
            BY <3>1, <3>5
        <3> QED BY <1>2, <3>1, <3>2, <3>6 DEF Complete
    <2>3. CASE PatternMatches
        BY <2>3 DEF PatternMatches, PatternSeeds, Complete, call
    <2>4. CASE SeedQuery
        <3>1. /\ held' = held \cup UserSeeds /\ frontier' = held'
              /\ phase = "query" /\ phase' = "expand"
              /\ UNCHANGED <<tuples, email, now, tokens>>
            BY <2>4 DEF SeedQuery, call
        <3>2. Seeds(L, email) \subseteq PatternSeeds \cup UserSeeds
            BY DEF Seeds, Names, PatternSeeds, UserSeeds
        <3>3. PatternSeeds \subseteq held
            BY <1>2, <3>1 DEF Complete
        <3>4. Onward(L, held' \ frontier') = {}
            BY <3>1 DEF Onward
        <3> QED BY <3>1, <3>2, <3>3, <3>4 DEF Complete
    <2>5. CASE Iterate
        <3>1. /\ held' = held \cup Found(frontier, asOf)
              /\ frontier' = {} \cup Found(frontier, asOf)
              /\ phase = "expand"
              /\ UNCHANGED <<tuples, email, now, phase, tokens>>
            BY <2>5 DEF Iterate, call
        <3>2. Onward(L, held \ frontier) \subseteq held
            BY <1>2, <3>1 DEF Complete
        <3>3. asOf \in Nat /\ asOf <= now /\ {} = frontier \ frontier
            BY <1>2 DEF TypeOK, Ordered
        <3>4. Onward(L, held' \ frontier') \subseteq held'
            BY <1>2, <3>1, <3>2, <3>3, FollowedStaysClosed
        <3> QED BY <1>2, <3>1, <3>4 DEF Complete
    <2>6. CASE Answer
        BY <1>2, <2>6 DEF Answer, Complete, call
    <2>7. CASE Tick
        <3>1. /\ now' = now + 1 /\ now \in Nat
              /\ UNCHANGED <<tuples, email, phase, held, frontier, tokens>>
            BY <1>2, <2>7 DEF Tick, call, TypeOK
        <3>2. LiveOf(tuples, now') \subseteq L
            BY <1>2, <3>1, LiveShrinks DEF TypeOK
        <3>3. /\ Seeds(LiveOf(tuples, now'), email) \subseteq Seeds(L, email)
              /\ Onward(LiveOf(tuples, now'), held \ frontier)
                     \subseteq Onward(L, held \ frontier)
            BY <3>2, SeedsGrow, OnwardGrows
        <3>4. PatternSeeds' \subseteq PatternSeeds
            BY <3>1, <3>2 DEF PatternSeeds
        <3> QED BY <1>2, <3>1, <3>3, <3>4 DEF Complete
    <2>8. CASE UNCHANGED vars
        BY <1>2, <2>8 DEF vars, Complete, PatternSeeds
    <2> QED
        BY <1>2, <2>1, <2>2, <2>3, <2>4, <2>5, <2>6, <2>7, <2>8
           DEF Next, Resolve, Over
<1> QED BY <1>1, <1>2

\* NothingMissedAlways: whatever the entries, an answer holds every token the
\* person is entitled to at the moment it is given: the two stores find all
\* that the entries entail, through cycles and to any depth.
THEOREM NothingMissedAlways == Spec => []NothingMissed
<1>1. TypeOK /\ Complete => NothingMissed
    <2> SUFFICES ASSUME TypeOK, Complete, phase = "done"
                 PROVE  TokensOf(email, Held(LiveOf(tuples, now), email))
                            \subseteq tokens
        BY DEF NothingMissed
    <2>1. held \ frontier = held
        BY DEF Complete
    <2>2. Closed(LiveOf(tuples, now), email, held)
        BY <2>1 DEF Complete, Closed
    <2>3. LiveOf(tuples, now) \in SUBSET Tuple
        BY LiveIsTuples DEF TypeOK
    <2>4. Held(LiveOf(tuples, now), email) \subseteq held
        BY <2>2, <2>3, HeldLeast
    <2> QED BY <2>4, TokensGrow DEF Complete
<1> QED
    BY <1>1, TypeCorrect, OrderedInductive, CompleteInductive, PTL DEF Spec

-----------------------------------------------------------------------------
(* The steps that are reached.                                             *)

LEMMA ReachedEnclosed ==
    ASSUME NEW T, NEW p
    PROVE  Enclosed(T, p, Reached(T, p))
<1> DEFINE meant == {p} \cup StepsOf({t.sub : t \in T})
<1>1. p \in Reached(T, p)
    BY DEF Reached, Enclosed
<1>2. ASSUME NEW t \in About(T, Reached(T, p)), t.sub.type = "group"
      PROVE  <<t.sub.id, t.sub.rel>> \in Reached(T, p)
    <2>1. t \in T /\ <<t.sub.id, t.sub.rel>> \in meant
        BY <1>2 DEF About, StepsOf
    <2>2. ASSUME NEW S \in SUBSET meant, Enclosed(T, p, S)
          PROVE  <<t.sub.id, t.sub.rel>> \in S
        <3>1. Reached(T, p) \subseteq S
            BY <2>2 DEF Reached
        <3>2. t \in About(T, S)
            BY <3>1 DEF About
        <3> QED BY <1>2, <2>2, <3>2 DEF Enclosed
    <2> QED BY <2>1, <2>2 DEF Reached
<1> QED BY <1>1, <1>2 DEF Enclosed

LEMMA ReachedLeast ==
    ASSUME NEW T, NEW p, NEW S, Enclosed(T, p, S)
    PROVE  Reached(T, p) \subseteq S
<1> DEFINE meant == {p} \cup StepsOf({t.sub : t \in T})
           U     == S \cap meant
<1>1. About(T, U) \subseteq About(T, S) \cap T
    BY DEF About
<1>2. \A t \in About(T, U) :
          t.sub.type = "group" => <<t.sub.id, t.sub.rel>> \in meant
    BY <1>1 DEF StepsOf
<1>3. Enclosed(T, p, U)
    BY <1>1, <1>2 DEF Enclosed
<1> QED BY <1>3 DEF Reached

\* Subjects are tokens or patterns, and never both.
LEMMA TokenOrPattern ==
    /\ Tokens \cap PatternSubjects = {}
    /\ Subjects = Tokens \cup PatternSubjects
BY DEF Tokens, Subjects, UserSubjects, GroupSubjects, PatternSubjects,
    UserSubject, GroupSubject, PatternSubject

\* One visit finds nothing that is not reached, ...
LEMMA VisitReaches ==
    ASSUME NEW T, NEW L, L \subseteq T, NEW p,
           NEW P, P \subseteq Reached(T, p)
    PROVE  /\ SubjectsOf(L, P) \subseteq Listed(T, p)
           /\ StepsOf(SubjectsOf(L, P)) \subseteq Reached(T, p)
<1>1. ASSUME NEW sub \in SubjectsOf(L, P)
      PROVE  /\ sub \in Tokens
             /\ \E t \in About(T, Reached(T, p)) : t.sub = sub
    BY DEF SubjectsOf, Filtered, About
<1>2. SubjectsOf(L, P) \subseteq Listed(T, p)
    BY <1>1, TokenOrPattern DEF Listed
<1>3. ASSUME NEW sub \in SubjectsOf(L, P), sub.type = "group"
      PROVE  <<sub.id, sub.rel>> \in Reached(T, p)
    BY <1>1, <1>3, ReachedEnclosed DEF Enclosed
<1> QED BY <1>2, <1>3 DEF StepsOf

\* ... and all that is entered for the steps visited.
LEMMA VisitFinds ==
    ASSUME NEW L \in SUBSET Tuple, NEW T, T \subseteq L, NEW P,
           NEW t \in About(T, P)
    PROVE  /\ t.sub \notin PatternSubjects => t.sub \in SubjectsOf(L, P)
           /\ t.sub.type = "group" =>
                 <<t.sub.id, t.sub.rel>> \in StepsOf(SubjectsOf(L, P))
<1>1. t \in L /\ t.sub \in Subjects
    BY DEF About, Tuple
<1>2. t.sub \in Tokens => t.sub \in SubjectsOf(L, P)
    BY <1>1 DEF About, SubjectsOf, Filtered
<1>3. t.sub.type = "group" => t.sub \notin PatternSubjects
    BY DEF PatternSubjects, PatternSubject
<1> QED BY <1>1, <1>2, <1>3, TokenOrPattern DEF StepsOf

-----------------------------------------------------------------------------
(* The invariant.                                                          *)

Begun == listing # "before"

MemberOrdered == askedAt \in Nat /\ askedAt <= now

\* Nothing is visited before the call, and nothing is left when it answers.
QueueEnds ==
    /\ Begun => asked \in Pairs
    /\ ~Begun => steps = {} /\ queue = {} /\ members = {}
    /\ listing = "done" => queue = {}

NothingStrange ==
    Begun => /\ steps \cup queue \subseteq
                    Reached(LiveOf(tuples, askedAt), asked)
             /\ members \subseteq Listed(LiveOf(tuples, askedAt), asked)

NothingLost ==
    Begun => /\ asked \in steps \cup queue
             /\ \A t \in About(LiveOf(tuples, now), steps) :
                   /\ t.sub \notin PatternSubjects => t.sub \in members
                   /\ t.sub.type = "group" =>
                         <<t.sub.id, t.sub.rel>> \in steps \cup queue

MemberInvariant ==
    TypeOK /\ MemberOrdered /\ QueueEnds /\ NothingStrange /\ NothingLost

\* Visiting the steps P at the instant x, as either store does.
Visit(P, x) ==
    LET found == SubjectsOf(LiveOf(tuples, x), P) IN
    /\ P \subseteq queue
    /\ members' = members \cup found
    /\ steps' = steps \cup P
    /\ queue' \subseteq queue \cup StepsOf(found)
    /\ steps \cup queue \cup StepsOf(found) \subseteq steps' \cup queue'

LEMMA MemoryVisits ==
    ASSUME VisitStep
    PROVE  \E P : Visit(P, now)
<1> PICK p \in queue :
        LET found == SubjectsOf(LiveOf(tuples, now), {p}) IN
        /\ members' = members \cup found
        /\ steps' = steps \cup {p}
        /\ queue' = (queue \cup NewSteps(found)) \ {p}
    BY DEF VisitStep
<1>1. Visit({p}, now)
    BY DEF Visit, NewSteps
<1> QED BY <1>1

LEMMA PostgresVisits ==
    ASSUME Expand
    PROVE  Visit(queue, askedAt)
BY DEF Expand, Visit, NewSteps

LEMMA VisitKeeps ==
    ASSUME MemberInvariant, Begun, NEW P, NEW x \in Nat,
           askedAt <= x, x <= now, Visit(P, x),
           UNCHANGED <<tuples, now, askedAt, asked, listing>>
    PROVE  NothingStrange' /\ NothingLost'
<1> DEFINE L     == LiveOf(tuples, x)
           found == SubjectsOf(L, P)
<1>1. /\ L \in SUBSET Tuple
      /\ L \subseteq LiveOf(tuples, askedAt)
      /\ LiveOf(tuples, now) \subseteq L
    <2>1. tuples \in SUBSET Tuple /\ now \in Nat /\ askedAt \in Nat
        BY DEF MemberInvariant, TypeOK, MemberOrdered
    <2>2. L \in SUBSET Tuple
        BY <2>1, LiveIsTuples
    <2>3. L \subseteq LiveOf(tuples, askedAt)
        BY <2>1, LiveShrinks
    <2>4. LiveOf(tuples, now) \subseteq L
        BY <2>1, LiveShrinks
    <2> QED BY <2>2, <2>3, <2>4
<1>2. P \subseteq Reached(LiveOf(tuples, askedAt), asked)
    BY DEF Visit, MemberInvariant, NothingStrange
<1>3. /\ found \subseteq Listed(LiveOf(tuples, askedAt), asked)
      /\ StepsOf(found) \subseteq Reached(LiveOf(tuples, askedAt), asked)
    BY <1>1, <1>2, VisitReaches
<1>4. NothingStrange'
    BY <1>2, <1>3 DEF Visit, MemberInvariant, NothingStrange, Begun
<1>5. ASSUME NEW t \in About(LiveOf(tuples, now), steps \cup P)
      PROVE  /\ t.sub \notin PatternSubjects => t.sub \in members'
             /\ t.sub.type = "group" =>
                   <<t.sub.id, t.sub.rel>> \in steps' \cup queue'
    <2>1. CASE t \in About(LiveOf(tuples, now), steps)
        BY <2>1 DEF Visit, MemberInvariant, NothingLost
    <2>2. CASE t \in About(LiveOf(tuples, now), P)
        <3>1. /\ t.sub \notin PatternSubjects => t.sub \in found
              /\ t.sub.type = "group" => <<t.sub.id, t.sub.rel>> \in StepsOf(found)
            BY <1>1, <2>2, VisitFinds
        <3> QED BY <3>1 DEF Visit
    <2> QED BY <2>1, <2>2 DEF About
<1>6. asked' \in steps' \cup queue'
    BY DEF Visit, MemberInvariant, NothingLost
<1>7. steps' = steps \cup P
    BY DEF Visit
<1>8. NothingLost'
    BY <1>5, <1>6, <1>7 DEF NothingLost
<1> QED BY <1>4, <1>8

\* The tokens are resolved as if nobody asked for members.
LEMMA TokensUndisturbed ==
    /\ MemberInit => Init
    /\ [MemberNext]_allVars => [Next]_vars
BY DEF MemberInit, MemberNext, Ask, ListMembers, VisitStep, Expand, List, Next,
       allVars

LEMMA MemberStarts ==
    MemberInit /\ TypeOK => MemberInvariant
BY DEF MemberInit, MemberInvariant, TypeOK, MemberOrdered, QueueEnds,
       NothingStrange, NothingLost, Begun

LEMMA MemberKept ==
    MemberInvariant /\ TypeOK' /\ [MemberNext]_allVars => MemberInvariant'
<1> SUFFICES ASSUME MemberInvariant, TypeOK', [MemberNext]_allVars
             PROVE  MemberInvariant'
    OBVIOUS
<1>1. CASE Tick /\ UNCHANGED memberVars
    <2>1. /\ now' = now + 1 /\ now \in Nat
          /\ tuples \in SUBSET Tuple
          /\ UNCHANGED <<tuples, asked, listing, askedAt, steps, queue, members>>
        BY <1>1 DEF Tick, call, memberVars, MemberInvariant, TypeOK
    <2>2. LiveOf(tuples, now') \subseteq LiveOf(tuples, now)
        BY <2>1, LiveShrinks
    <2>3. About(LiveOf(tuples, now'), steps) \subseteq
              About(LiveOf(tuples, now), steps)
        BY <2>2 DEF About
    <2>4. NothingLost'
        BY <2>1, <2>3 DEF MemberInvariant, NothingLost, Begun
    <2>5. MemberOrdered' /\ QueueEnds' /\ NothingStrange'
        BY <2>1 DEF MemberInvariant, MemberOrdered, QueueEnds, NothingStrange,
                    Begun
    <2> QED BY <2>4, <2>5 DEF MemberInvariant
<1>2. CASE UNCHANGED <<tuples, now, memberVars>>
    BY <1>2 DEF memberVars, MemberInvariant, MemberOrdered, QueueEnds,
                NothingStrange, NothingLost, Begun
<1>3. CASE Ask
    <2>1. /\ listing = "before" /\ listing' = "walk"
          /\ asked' \in Pairs /\ queue' = {asked'} /\ askedAt' = now
          /\ steps' = {} /\ members' = {} /\ now \in Nat
          /\ UNCHANGED <<tuples, now>>
        BY <1>3, QuestionsAssumption
           DEF Ask, vars, MemberInvariant, QueueEnds, Begun, TypeOK
    <2>2. asked' \in Reached(LiveOf(tuples, now), asked')
        BY ReachedEnclosed DEF Enclosed
    <2>3. About(LiveOf(tuples, now), {}) = {}
        BY DEF About
    <2>4. NothingStrange' /\ NothingLost'
        BY <2>1, <2>2, <2>3 DEF NothingStrange, NothingLost
    <2>5. MemberOrdered' /\ QueueEnds'
        BY <2>1 DEF MemberOrdered, QueueEnds, Begun
    <2> QED BY <2>4, <2>5 DEF MemberInvariant
<1>4. ASSUME NEW P, NEW x \in Nat, askedAt <= x, x <= now, Visit(P, x),
             listing = "walk", UNCHANGED <<vars, asked, listing, askedAt>>
      PROVE  MemberInvariant'
    <2>1. Begun /\ UNCHANGED <<tuples, now, askedAt, asked, listing>>
        BY <1>4 DEF Begun, vars
    <2>2. NothingStrange' /\ NothingLost'
        BY <1>4, <2>1, VisitKeeps
    <2>3. MemberOrdered' /\ QueueEnds'
        BY <1>4, <2>1 DEF MemberInvariant, MemberOrdered, QueueEnds, Begun
    <2> QED BY <2>2, <2>3 DEF MemberInvariant
<1>5. askedAt \in Nat /\ now \in Nat /\ askedAt <= now /\ now <= now
    BY DEF MemberInvariant, MemberOrdered, TypeOK
<1>6. CASE VisitStep
    <2>1. PICK P : Visit(P, now)
        BY <1>6, MemoryVisits
    <2>2. listing = "walk" /\ UNCHANGED <<vars, asked, listing, askedAt>>
        BY <1>6 DEF VisitStep
    <2> QED BY <2>1, <2>2, <1>4, <1>5
<1>7. CASE Expand
    <2>1. Visit(queue, askedAt)
        BY <1>7, PostgresVisits
    <2>2. listing = "walk" /\ UNCHANGED <<vars, asked, listing, askedAt>>
        BY <1>7 DEF Expand
    <2> QED BY <2>1, <2>2, <1>4, <1>5
<1>8. CASE List
    BY <1>8 DEF List, vars, MemberInvariant, MemberOrdered, QueueEnds,
                NothingStrange, NothingLost, Begun
<1>9. Resolve => UNCHANGED <<tuples, now>>
    BY DEF Resolve, SeedMemory, VisitMemory, PatternMatches, SeedQuery, Iterate,
           Answer, call
<1>10. UNCHANGED allVars => UNCHANGED <<tuples, now, memberVars>>
    BY DEF allVars, vars
<1> QED
    BY <1>1, <1>2, <1>3, <1>6, <1>7, <1>8, <1>9, <1>10
       DEF MemberNext, ListMembers

\* When the call answers, the steps visited are all that lead out of the group
\* now, and what was listed lies between the two instants.
LEMMA ListIsExact ==
    MemberInvariant => MembersExact
<1> SUFFICES ASSUME MemberInvariant, listing = "done"
             PROVE  MembersExact
    BY DEF MembersExact
<1> DEFINE L == LiveOf(tuples, now)
<1>1. queue = {} /\ Begun
    BY DEF MemberInvariant, QueueEnds, Begun
<1>2. Enclosed(L, asked, steps)
    BY <1>1 DEF MemberInvariant, NothingLost, Enclosed
<1>3. About(L, Reached(L, asked)) \subseteq About(L, steps)
    BY <1>2, ReachedLeast DEF About
<1>4. Listed(L, asked) \subseteq members
    BY <1>1, <1>3 DEF MemberInvariant, NothingLost, Listed
<1>5. members \subseteq Listed(LiveOf(tuples, askedAt), asked)
    BY <1>1 DEF MemberInvariant, NothingStrange
<1> QED BY <1>4, <1>5 DEF MembersExact

\* MembersExactAlways: on every store, however deep or circular the nesting and
\* whatever expires meanwhile, GetAllMembers lists nobody who was not in the
\* group when it began and everybody who is when it answers.
THEOREM MembersExactAlways == MemberSpec => []MembersExact
<1>1. MemberSpec => []TypeOK
    BY TokensUndisturbed, TypeCorrect, PTL DEF MemberSpec, Spec
<1>2. MemberSpec => []MemberInvariant
    BY <1>1, MemberStarts, MemberKept, PTL DEF MemberSpec
<1> QED BY <1>2, ListIsExact, PTL

-----------------------------------------------------------------------------
(* Two directions, one story.                                              *)

\* The token of a step is carried by whoever holds one of its relations.
Carries(H, p) == \E h \in H : h[1] = p[1] /\ p[2] \in {Member, h[2]}

LEMMA CarriesToken ==
    ASSUME NEW u, NEW H, NEW p
    PROVE  GroupSubject(p[1], p[2]) \in TokensOf(u, H) <=> Carries(H, p)
BY DEF Carries, TokensOf, GroupSubject, UserSubject

\* Whoever carries what an entry means carries what the entry gives.
LEMMA CarriesUp ==
    ASSUME NEW T \in SUBSET Tuple, NEW u, NEW H, Closed(T, u, H),
           NEW p, NEW t \in About(T, {p}),
           \/ Names(t.sub, u)
           \/ t.sub.type = "group" /\ Carries(H, <<t.sub.id, t.sub.rel>>)
    PROVE  Carries(H, p)
<1>1. t \in T /\ p[1] = t.obj /\ (p[2] = Member \/ p[2] = t.rel)
    BY DEF About
<1>2. PairOf(t) \in H
    BY <1>1 DEF Closed, Seeds, Onward, Carries, Means
<1> QED BY <1>1, <1>2 DEF Carries, PairOf

\* Downwards finds only whom upwards reaches: along the steps from the group
\* a token that is carried below is carried above.
LEMMA ListedCarries ==
    ASSUME NEW T \in SUBSET Tuple, NEW u, NEW H, Closed(T, u, H), NEW p,
           UserSubject(u) \in Listed(T, p)
    PROVE  Carries(H, p)
<1> DEFINE S == {x \in Reached(T, p) : Carries(H, x) => Carries(H, p)}
<1>1. Reached(T, p) \subseteq S
    <2>1. p \in S
        BY ReachedEnclosed DEF Enclosed
    <2>2. ASSUME NEW t \in About(T, S), t.sub.type = "group"
          PROVE  <<t.sub.id, t.sub.rel>> \in S
        <3>1. PICK x \in S : t \in About(T, {x})
            BY <2>2 DEF About
        <3>2. <<t.sub.id, t.sub.rel>> \in Reached(T, p)
            BY <2>2, <3>1, ReachedEnclosed DEF Enclosed, About
        <3>3. Carries(H, <<t.sub.id, t.sub.rel>>) => Carries(H, x)
            BY <2>2, <3>1, CarriesUp
        <3> QED BY <3>1, <3>2, <3>3
    <2> QED BY <2>1, <2>2, ReachedLeast DEF Enclosed
<1>2. PICK x \in Reached(T, p) :
          \E t \in About(T, {x}) : t.sub = UserSubject(u)
    BY DEF Listed, About
<1>3. Carries(H, x)
    BY <1>2, CarriesUp DEF Names
<1> QED BY <1>1, <1>2, <1>3

\* Upwards finds only whom downwards lists: the pairs that lead to being listed
\* are closed under the entries that name nobody by a pattern.
LEMMA CarriesListed ==
    ASSUME NEW L \in SUBSET Tuple, NEW u, NEW p,
           Carries(Held({t \in L : t.sub.type # "pattern"}, u), p)
    PROVE  UserSubject(u) \in Listed(L, p)
<1> DEFINE named == {t \in L : t.sub.type # "pattern"}
           S     == {h \in Pairs : (\E x \in Reached(L, p) : Carries({h}, x))
                                       => UserSubject(u) \in Listed(L, p)}
<1>1. ASSUME NEW t \in named, NEW x \in Reached(L, p), Carries({PairOf(t)}, x)
      PROVE  t \in About(L, Reached(L, p))
    BY <1>1 DEF Carries, PairOf, About
<1>2. \A t \in named : PairOf(t) \in Pairs
    BY DEF PairOf, Pairs, Tuple
<1>3. Seeds(named, u) \subseteq S
    <2> SUFFICES ASSUME NEW t \in named, Names(t.sub, u),
                        NEW x \in Reached(L, p), Carries({PairOf(t)}, x)
                 PROVE  UserSubject(u) \in Listed(L, p)
        BY <1>2 DEF Seeds
    <2>1. t.sub = UserSubject(u)
        BY DEF Names
    <2>2. UserSubject(u) \notin PatternSubjects
        BY DEF UserSubject, PatternSubjects, PatternSubject
    <2> QED BY <1>1, <2>1, <2>2 DEF Listed
<1>4. Onward(named, S) \subseteq S
    <2> SUFFICES ASSUME NEW t \in named, NEW h \in S, Means(t.sub, h[1], h[2]),
                        NEW x \in Reached(L, p), Carries({PairOf(t)}, x)
                 PROVE  UserSubject(u) \in Listed(L, p)
        BY <1>2 DEF Onward
    <2>1. <<t.sub.id, t.sub.rel>> \in Reached(L, p)
        BY <1>1, ReachedEnclosed DEF Means, Enclosed
    <2>2. Carries({h}, <<t.sub.id, t.sub.rel>>)
        BY DEF Means, Carries
    <2> QED BY <2>1, <2>2
<1>5. Held(named, u) \subseteq S
    <2>1. named \in SUBSET Tuple /\ Closed(named, u, S)
        BY <1>3, <1>4 DEF Closed
    <2> QED BY <2>1, HeldLeast
<1>6. p \in Reached(L, p)
    BY ReachedEnclosed DEF Enclosed
<1> QED BY <1>5, <1>6 DEF Carries

\* The tokens were complete when the members were asked for, and nothing is
\* added to them since.
AskedAfter ==
    Begun => /\ phase = "done"
             /\ TokensOf(email, Held(LiveOf(tuples, askedAt), email))
                    \subseteq tokens

LEMMA AskedAfterKept ==
    /\ MemberInit => AskedAfter
    /\ NothingMissed /\ AskedAfter /\ [MemberNext]_allVars => AskedAfter'
<1>1. MemberInit => AskedAfter
    BY DEF MemberInit, AskedAfter, Begun
<1>2. ASSUME NothingMissed, AskedAfter, [MemberNext]_allVars
      PROVE  AskedAfter'
    <2>1. CASE Ask
        BY <1>2, <2>1 DEF Ask, vars, NothingMissed, AskedAfter, Begun
    <2>2. CASE Resolve /\ UNCHANGED memberVars
        <3>1. phase # "done"
            BY <2>2 DEF Resolve, SeedMemory, VisitMemory, PatternMatches,
                        SeedQuery, Iterate, Answer
        <3> QED BY <1>2, <2>2, <3>1 DEF AskedAfter, Begun, memberVars
    <2>3. CASE Tick /\ UNCHANGED memberVars
        BY <1>2, <2>3 DEF Tick, call, memberVars, AskedAfter, Begun
    <2>4. CASE ListMembers
        BY <1>2, <2>4 DEF ListMembers, VisitStep, Expand, List, vars,
                          AskedAfter, Begun
    <2>5. CASE UNCHANGED allVars
        BY <1>2, <2>5 DEF allVars, vars, memberVars, AskedAfter, Begun
    <2> QED BY <1>2, <2>1, <2>2, <2>3, <2>4, <2>5 DEF MemberNext
<1> QED BY <1>1, <1>2

LEMMA AnswersMeet ==
    MemberInvariant /\ MembersExact /\ AskedAfter => AnswersAgree
<1> SUFFICES ASSUME MemberInvariant, MembersExact, AskedAfter, listing = "done"
             PROVE  AnswersAgree
    BY DEF AnswersAgree
<1> DEFINE T == LiveOf(tuples, askedAt)
           L == LiveOf(tuples, now)
<1>1. T \in SUBSET Tuple /\ L \in SUBSET Tuple
    BY LiveIsTuples DEF MemberInvariant, TypeOK
<1>2. ASSUME UserSubject(email) \in members
      PROVE  GroupSubject(asked[1], asked[2]) \in tokens
    <2>1. Carries(Held(T, email), asked)
        BY <1>1, <1>2, HeldClosed, ListedCarries DEF MembersExact
    <2> QED BY <2>1, CarriesToken DEF AskedAfter, Begun
<1>3. ASSUME GroupSubject(asked[1], asked[2]) \in
                 TokensOf(email, Held({t \in L : t.sub.type # "pattern"}, email))
      PROVE  UserSubject(email) \in members
    BY <1>1, <1>3, CarriesToken, CarriesListed DEF MembersExact
<1> QED BY <1>2, <1>3 DEF AnswersAgree

\* AnswersAgreeAlways: GetUserTokens and GetAllMembers tell one story, for any
\* entries and on either store: whoever is listed in a group carried its token
\* when the list was asked for, and whoever holds it by entries alone, without
\* a pattern, is listed.
THEOREM AnswersAgreeAlways == MemberSpec => []AnswersAgree
<1>1. MemberSpec => []TypeOK /\ []NothingMissed
    BY TokensUndisturbed, TypeCorrect, NothingMissedAlways, PTL
       DEF MemberSpec, Spec
<1>2. MemberSpec => []MemberInvariant
    BY <1>1, MemberStarts, MemberKept, PTL DEF MemberSpec
<1>3. MemberSpec => []AskedAfter
    BY <1>1, AskedAfterKept, PTL DEF MemberSpec
<1> QED BY <1>2, <1>3, ListIsExact, AnswersMeet, PTL

-----------------------------------------------------------------------------
(* The way to a group in the tree.                                         *)

TreeTyped ==
    /\ tree \in SUBSET Tuple /\ belongs \in [Groups -> Owners]
    /\ target \in Groups
    /\ line \in Seq(Groups)
    /\ target \in DOMAIN below /\ DOMAIN below \subseteq Groups

\* All parents of g are found, at most one step further away than g.
Expanded(depth, g) ==
    /\ SameSource(g) # {}
    /\ \A p \in SameSource(g) : p \in DOMAIN below /\ depth[p] <= depth[g] + 1

\* What is found spans a tree in which depth is the distance to the target,
\* and the line holds its rim, nearest first.
Spans(depth) ==
    /\ depth \in [DOMAIN below -> Nat] /\ depth[target] = 0
    /\ \A g \in DOMAIN below \ {target} :
          /\ below[g] \in DOMAIN below /\ g \in SameSource(below[g])
          /\ depth[g] = depth[below[g]] + 1
    /\ \A i \in DOMAIN line : line[i] \in DOMAIN below
    /\ \A i, j \in DOMAIN line : i < j =>
          depth[line[i]] <= depth[line[j]] /\ depth[line[j]] <= depth[line[i]] + 1
    /\ \A g \in DOMAIN below :
          \/ \E i \in DOMAIN line : line[i] = g
          \/ Expanded(depth, g) /\ \A i \in DOMAIN line : depth[g] <= depth[line[i]]

\* The path goes down from the head of the line, a step nearer each time.
GoesDown(depth) ==
    /\ path \in Seq(Groups) /\ line # <<>>
    /\ path[1] = Head(line) /\ SameSource(Head(line)) = {}
    /\ \A i \in DOMAIN path :
          path[i] \in DOMAIN below /\ depth[path[i]] + i = depth[path[1]] + 1
    /\ \A i \in 1 .. Len(path) - 1 : path[i] \in SameSource(path[i + 1])

TreeInv ==
    /\ TreeTyped
    /\ \E depth :
          /\ Spans(depth)
          /\ \/ path = <<>>
             \/ GoesDown(depth)
             \/ path = <<target>> /\ line = <<>>

LEMMA SameSourceTyped ==
    ASSUME TreeTyped, NEW g
    PROVE  /\ SameSource(g) \subseteq Groups
           /\ \A p : p \in SameSource(g) <=>
                  <<p, g>> \in GroupEdges(tree) /\ belongs[p] = belongs[target]
<1>1. \A e \in GroupEdges(tree) : e[1] \in Groups /\ e = <<e[1], e[2]>>
    BY DEF TreeTyped, GroupEdges, Tuple
<1> QED BY <1>1 DEF SameSource

\* A set of numbers has a least.
LEMMA Least ==
    ASSUME NEW S \in SUBSET Nat, S # {}
    PROVE  \E n \in S : \A k \in S : n <= k
<1>1. PICK n \in S : \A k \in S : ~(<<k, n>> \in OpToRel(<, Nat))
    BY NatLessThanWellFounded, WFMin
<1>2. ASSUME NEW k \in S
      PROVE  n <= k
    <2>1. k \in Nat /\ n \in Nat
        OBVIOUS
    <2>2. ~(k < n)
        BY <1>1, <2>1 DEF OpToRel
    <2> QED BY <2>1, <2>2
<1> QED BY <1>2

\* What is in front of the line has been reached from everywhere: a way that
\* is no longer than the head of the line is far does not begin at the top.
LEMMA NoShorterWay ==
    ASSUME TreeTyped, NEW depth, Spans(depth), NEW q, NEW m \in Nat \ {0},
           q \in [1 .. m -> Groups], IsWay(q),
           line # <<>> => m <= depth[Head(line)]
    PROVE  q[1] \notin Top(GroupEdges(tree), belongs[target])
<1> DEFINE Near(k) == q[m - k] \in DOMAIN below /\ depth[q[m - k]] <= k
           Far == {k \in 0 .. m - 1 : ~Near(k)}
<1>1. q[m] = target
    <2>1. q \in Seq(Groups) /\ Len(q) = m
        OBVIOUS
    <2> QED BY <2>1 DEF IsWay
<1>2. \A i \in 1 .. m - 1 : q[i] \in SameSource(q[i + 1])
    <2>1. Len(q) = m
        OBVIOUS
    <2> QED BY <2>1, SameSourceTyped DEF IsWay
<1>3. ASSUME NEW k \in 0 .. m - 1, Near(k)
      PROVE  Expanded(depth, q[m - k])
    <2>1. k < m /\ q[m - k] \in DOMAIN below /\ depth[q[m - k]] \in Nat
        BY <1>3 DEF Spans
    <2>2. ASSUME NEW i \in DOMAIN line, line[i] = q[m - k]
          PROVE  FALSE
        <3>1. line # <<>> /\ 1 \in DOMAIN line /\ i \in Nat /\ i >= 1 /\ Head(line) = line[1]
            BY <2>2 DEF TreeTyped
        <3>2. depth[line[1]] <= depth[line[i]] /\ depth[line[1]] \in Nat
            BY <3>1 DEF Spans
        <3> QED BY <1>3, <2>1, <2>2, <3>1, <3>2
    <2> QED BY <2>1, <2>2 DEF Spans
<1>4. Far = {}
    <2>1. SUFFICES ASSUME Far # {}
                   PROVE  FALSE
        OBVIOUS
    <2>2. PICK k \in Far : \A j \in Far : k <= j
        <3>1. Far \in SUBSET Nat
            OBVIOUS
        <3> HIDE DEF Far
        <3> QED BY <2>1, <3>1, Least
    <2>3. k # 0
        BY <1>1, <2>2 DEF Spans, TreeTyped
    <2>4. k - 1 \in 0 .. m - 1 /\ Near(k - 1)
        BY <2>2, <2>3
    <2>5. Expanded(depth, q[m - (k - 1)])
        BY <1>3, <2>4
    <2>6. m - k \in 1 .. m - 1 /\ m - (k - 1) = (m - k) + 1
        BY <2>2, <2>3
    <2>7. q[m - k] \in SameSource(q[m - (k - 1)])
        BY <1>2, <2>6
    <2>8. q[m - k] \in DOMAIN below /\ depth[q[m - k]] <= depth[q[m - (k - 1)]] + 1
        BY <2>5, <2>7 DEF Expanded
    <2>9. depth[q[m - k]] \in Nat /\ depth[q[m - (k - 1)]] \in Nat
        BY <2>4, <2>8 DEF Spans
    <2>10. depth[q[m - k]] <= k
        BY <2>4, <2>8, <2>9
    <2> QED BY <2>2, <2>8, <2>10
<1>5. Expanded(depth, q[1])
    <2>1. m - 1 \in 0 .. m - 1 /\ m - (m - 1) = 1
        OBVIOUS
    <2>2. Near(m - 1)
        BY <1>4, <2>1
    <2> QED BY <1>3, <2>1, <2>2
<1>6. PICK p : <<p, q[1]>> \in GroupEdges(tree) /\ belongs[p] = belongs[target]
    BY <1>5, SameSourceTyped DEF Expanded
<1> QED BY <1>6 DEF Top

LEMMA TreeInvOpens == TreeInv => PathOpens
<1> SUFFICES ASSUME TreeInv, Arrived
             PROVE  LET n == Len(path)
                    IN  \/ path \in WaysFromTop(n) /\ WaysFromTop(n - 1) = {}
                        \/ path = <<target>> /\ WaysFromTop(Cardinality(Groups)) = {}
    BY DEF PathOpens
<1> DEFINE top == Top(GroupEdges(tree), belongs[target])
<1>1. PICK depth : /\ Spans(depth)
                   /\ \/ GoesDown(depth)
                      \/ path = <<target>> /\ line = <<>>
    BY DEF TreeInv, Arrived
<1>2. TreeTyped
    BY DEF TreeInv
<1>3. ASSUME NEW n \in Nat, line # <<>> => n <= depth[Head(line)]
      PROVE  WaysFromTop(n) = {}
    <2>1. SUFFICES ASSUME NEW q \in BoundedSeq(Groups, n), IsWay(q), q[1] \in top
                   PROVE  FALSE
        BY DEF WaysFromTop
    <2>2. PICK m \in 0 .. n : q \in [1 .. m -> Groups]
        BY DEF BoundedSeq, SeqOf
    <2>3. m # 0
        <3>1. q \in Seq(Groups) /\ Len(q) = m
            BY <2>2
        <3>2. q # <<>>
            BY <2>1 DEF IsWay
        <3> QED BY <3>1, <3>2
    <2>4. line # <<>> => Head(line) \in DOMAIN below
        BY <1>1, <1>2 DEF Spans, TreeTyped
    <2>5. line # <<>> => depth[Head(line)] \in Nat
        BY <1>1, <2>4 DEF Spans
    <2>6. line # <<>> => m <= depth[Head(line)]
        BY <1>3, <2>2, <2>5
    <2> QED BY <1>1, <1>2, <2>1, <2>2, <2>3, <2>6, NoShorterWay
<1>4. CASE path = <<target>> /\ line = <<>>
    <2>1. Cardinality(Groups) \in Nat
        BY GroupTreeAssumption, FS_CardinalityType
    <2> QED BY <1>3, <1>4, <2>1
<1>5. CASE GoesDown(depth)
    <2> DEFINE n == Len(path)
               g == Head(line)
    <2>1. /\ path \in Seq(Groups) /\ path # <<>> /\ n \in Nat \ {0}
          /\ DOMAIN path = 1 .. n /\ path[n] = target
        BY <1>5 DEF GoesDown, Arrived
    <2>2. /\ g \in DOMAIN below /\ g \in Groups /\ depth[g] = n - 1
          /\ path[1] = g /\ SameSource(g) = {}
        <3>1. path[1] = g /\ g \in DOMAIN below /\ SameSource(g) = {}
            BY <1>5, <2>1 DEF GoesDown
        <3>2. depth[target] + n = depth[g] + 1
            BY <1>5, <2>1, <3>1 DEF GoesDown
        <3>3. depth[target] = 0 /\ depth[g] \in Nat
            BY <1>1, <3>1 DEF Spans
        <3> QED BY <1>2, <2>1, <3>1, <3>2, <3>3 DEF TreeTyped
    <2>3. belongs[g] = belongs[target]
        <3>1. CASE g # target
            <4>1. g \in SameSource(below[g])
                BY <1>1, <2>2, <3>1 DEF Spans
            <4> QED BY <1>2, <4>1, SameSourceTyped
        <3> QED BY <3>1
    <2>4. g \in top
        <3>1. ASSUME NEW e \in GroupEdges(tree), e[2] = g
              PROVE  belongs[e[1]] # belongs[target]
            <4>1. e = <<e[1], g>>
                BY <3>1 DEF GroupEdges
            <4> QED BY <1>2, <2>2, <4>1, SameSourceTyped
        <3> QED BY <2>2, <2>3, <3>1 DEF Top
    <2>5. IsWay(path)
        <3>1. \A i \in 1 .. n - 1 : path[i] \in SameSource(path[i + 1])
            BY <1>5 DEF GoesDown
        <3> QED BY <1>2, <2>1, <3>1, SameSourceTyped DEF IsWay
    <2>6. path \in BoundedSeq(Groups, n)
        BY <2>1 DEF BoundedSeq, SeqOf
    <2>7. path \in WaysFromTop(n)
        BY <2>2, <2>4, <2>5, <2>6 DEF WaysFromTop
    <2>8. WaysFromTop(n - 1) = {}
        BY <1>3, <2>1, <2>2
    <2> QED BY <2>7, <2>8
<1> QED BY <1>1, <1>4, <1>5

LEMMA InitTree == TreeInit => TreeInv
<1> SUFFICES ASSUME TreeInit
             PROVE  TreeInv
    OBVIOUS
<1>1. /\ target \in Groups /\ line = <<target>> /\ DOMAIN below = {target}
      /\ path = <<>>
    BY DEF TreeInit
<1>2. TreeTyped
    BY <1>1, GroupTreeAssumption DEF TreeInit, TreeTyped
<1>3. PICK depth : depth = [g \in {target} |-> 0]
    OBVIOUS
<1>4. Spans(depth)
    BY <1>1, <1>3 DEF Spans
<1> QED BY <1>1, <1>2, <1>4 DEF TreeInv

\* M is the queue L after its head has left it and new has joined it.
Queued(L, new, M) ==
    /\ M \in Seq(Groups)
    /\ \A i \in DOMAIN M :
          \/ i + 1 \in DOMAIN L /\ M[i] = L[i + 1]
          \/ i + 1 \notin DOMAIN L /\ M[i] \in new
    /\ \A k \in DOMAIN L : k # 1 => \E i \in DOMAIN M : M[i] = L[k]
    /\ \A p \in new : \E i \in DOMAIN M : M[i] = p

LEMMA QueueMoves ==
    ASSUME NEW L \in Seq(Groups), L # <<>>, NEW new \in SUBSET Groups,
           NEW q \in SetToSeqs(new), NEW M, M = Tail(L) \o q
    PROVE  Queued(L, new, M)
<1> DEFINE N == Cardinality(new)
<1>1. IsFiniteSet(new) /\ N \in Nat
    BY GroupTreeAssumption, FS_Subset, FS_CardinalityType
<1>2. q \in [1 .. N -> new] /\ q \in Injection(1 .. N, new)
    BY DEF SetToSeqs, Injection, IsInjective
<1>3. IsFiniteSet(1 .. N) /\ Cardinality(1 .. N) = N
    BY <1>1, FS_Interval
<1>4. q \in Surjection(1 .. N, new)
    BY <1>1, <1>2, <1>3, FS_Injection
<1>5. \A p \in new : \E i \in 1 .. N : q[i] = p
    BY <1>4 DEF Surjection
<1> HIDE DEF N
<1>6. q \in Seq(Groups) /\ Len(q) = N /\ DOMAIN q = 1 .. N
    BY <1>1, <1>2
<1>7. /\ Tail(L) \in Seq(Groups) /\ Len(L) \in Nat \ {0}
      /\ Len(Tail(L)) = Len(L) - 1 /\ DOMAIN L = 1 .. Len(L)
      /\ \A i \in 1 .. Len(L) - 1 : Tail(L)[i] = L[i + 1]
    OBVIOUS
<1> DEFINE l == Len(L) - 1
<1>8. /\ M \in Seq(Groups) /\ DOMAIN M = 1 .. l + N
      /\ \A i \in 1 .. l : M[i] = L[i + 1]
      /\ \A i \in 1 .. N : M[l + i] = q[i]
    <2>1. PICK T \in Seq(Groups) : T = Tail(L)
        BY <1>7
    <2>2. Len(T) = l /\ l \in Nat /\ \A i \in 1 .. l : T[i] = L[i + 1]
        BY <1>7, <2>1
    <2>3. M = T \o q
        BY <2>1
    <2> HIDE DEF l
    <2>4. M \in Seq(Groups) /\ Len(M) = l + N
        BY <1>6, <2>2, <2>3
    <2>5. \A i \in 1 .. l : M[i] = T[i]
        BY <1>1, <1>6, <2>2, <2>3
    <2>6. ASSUME NEW i \in 1 .. N
          PROVE  M[l + i] = q[i]
        <3>1. i \in 1 .. Len(q) /\ Len(T) \in Nat /\ Len(T) + i > Len(T)
              /\ Len(T) + i <= Len(T) + Len(q)
            BY <1>1, <1>6, <2>2
        <3>2. (T \o q)[Len(T) + i] = q[i]
            BY <1>6, <3>1
        <3> QED BY <2>2, <2>3, <3>2
    <2>7. DOMAIN M = 1 .. l + N
        BY <2>4
    <2> QED BY <2>2, <2>4, <2>5, <2>6, <2>7
<1>9. ASSUME NEW i \in DOMAIN M
      PROVE  \/ i + 1 \in DOMAIN L /\ M[i] = L[i + 1]
             \/ i + 1 \notin DOMAIN L /\ M[i] \in new
    <2>1. CASE i <= l
        BY <1>1, <1>7, <1>8, <2>1
    <2>2. CASE i > l
        <3>1. i - l \in 1 .. N /\ l + (i - l) = i /\ i + 1 \notin DOMAIN L
            BY <1>1, <1>7, <1>8, <2>2
        <3> QED BY <1>2, <1>8, <3>1
    <2> QED BY <1>1, <1>7, <1>8, <2>1, <2>2
<1>10. ASSUME NEW k \in DOMAIN L, k # 1
       PROVE  \E i \in DOMAIN M : M[i] = L[k]
    <2>1. k - 1 \in 1 .. l /\ k - 1 \in DOMAIN M /\ (k - 1) + 1 = k
        BY <1>1, <1>7, <1>8, <1>10
    <2> QED BY <1>8, <2>1
<1>11. ASSUME NEW p \in new
       PROVE  \E i \in DOMAIN M : M[i] = p
    <2>1. PICK i \in 1 .. N : q[i] = p
        BY <1>5
    <2>2. l + i \in DOMAIN M
        BY <1>1, <1>7, <1>8, <2>1
    <2> QED BY <1>8, <2>1, <2>2
<1> QED BY <1>8, <1>9, <1>10, <1>11 DEF Queued

\* The head of the line, g, gives way to the parents that are new.
GivesWay(g, new) ==
    /\ line # <<>> /\ g = Head(line) /\ SameSource(g) # {}
    /\ new = SameSource(g) \ DOMAIN below
    /\ \E q \in SetToSeqs(new) : line' = Tail(line) \o q
    /\ below' = [p \in DOMAIN below \cup new |->
                    IF p \in new THEN g ELSE below[p]]
    /\ UNCHANGED <<tree, belongs, target>>

\* Expanding the head of the line moves the rim one step out.
LEMMA RimMoves ==
    ASSUME TreeTyped, NEW depth, Spans(depth), NEW g, NEW new, GivesWay(g, new)
    PROVE  TreeTyped' /\ \E d : Spans(d)'
<1>0. PICK d : d = [p \in DOMAIN below \cup new |->
                       IF p \in new THEN depth[g] + 1 ELSE depth[p]]
    OBVIOUS
<1>1. /\ line \in Seq(Groups) /\ 1 \in DOMAIN line /\ g = line[1]
      /\ \A i \in DOMAIN line : i \in Nat /\ i >= 1
    BY DEF TreeTyped, GivesWay
<1>2. new \in SUBSET Groups /\ new \cap DOMAIN below = {}
    BY SameSourceTyped DEF GivesWay
<1>3. Queued(line, new, line')
    <2>1. PICK q \in SetToSeqs(new) : line' = Tail(line) \o q
        BY DEF GivesWay
    <2>2. line # <<>>
        BY DEF GivesWay
    <2> QED BY <1>1, <1>2, <2>1, <2>2, QueueMoves
<1>4. TreeTyped'
    BY <1>2, <1>3 DEF TreeTyped, GivesWay, Queued
<1>5. \A x : SameSource(x)' = SameSource(x)
    BY DEF SameSource, GivesWay
<1>6. DOMAIN below' = DOMAIN below \cup new /\ g \in DOMAIN below /\ depth[g] \in Nat
    BY <1>1 DEF Spans, GivesWay
<1>7. /\ d \in [DOMAIN below' -> Nat]
      /\ \A p \in new : d[p] = depth[g] + 1
      /\ \A p \in DOMAIN below : d[p] = depth[p] /\ depth[p] \in Nat
    BY <1>0, <1>2, <1>6 DEF Spans
<1>8. d[target] = 0
    BY <1>7 DEF TreeTyped, Spans, GivesWay
<1>9. ASSUME NEW p \in DOMAIN below' \ {target}
      PROVE  /\ below'[p] \in DOMAIN below' /\ p \in SameSource(below'[p])
             /\ d[p] = d[below'[p]] + 1
    <2>1. CASE p \in new
        BY <1>2, <1>5, <1>6, <1>7, <2>1 DEF GivesWay
    <2>2. CASE p \in DOMAIN below
        <3>1. below'[p] = below[p]
            BY <1>2, <2>2 DEF GivesWay
        <3>2. target' = target
            BY DEF GivesWay
        <3> QED BY <1>5, <1>6, <1>7, <2>2, <3>1, <3>2 DEF Spans
    <2> QED BY <1>6, <2>1, <2>2
\* The rim stays between g and one step further.
<1>10. ASSUME NEW i \in DOMAIN line'
       PROVE  /\ line'[i] \in DOMAIN below' /\ d[line'[i]] \in Nat
              /\ depth[g] <= d[line'[i]] /\ d[line'[i]] <= depth[g] + 1
    <2>1. CASE line'[i] \in new
        BY <1>6, <1>7, <2>1
    <2>2. CASE i + 1 \in DOMAIN line /\ line'[i] = line[i + 1]
        <3>1. i \in Nat /\ i >= 1 /\ 1 < i + 1
            BY <1>3 DEF Queued
        <3>2. depth[line[1]] <= depth[line[i + 1]]
              /\ depth[line[i + 1]] <= depth[line[1]] + 1
              /\ line[i + 1] \in DOMAIN below
            BY <1>1, <2>2, <3>1 DEF Spans
        <3> QED BY <1>1, <1>6, <1>7, <2>2, <3>2
    <2> QED BY <1>3, <2>1, <2>2 DEF Queued
<1>11. ASSUME NEW i \in DOMAIN line', NEW j \in DOMAIN line', i < j
       PROVE  d[line'[i]] <= d[line'[j]] /\ d[line'[j]] <= d[line'[i]] + 1
    <2>1. i \in Nat /\ j \in Nat
        BY <1>3 DEF Queued
    <2>2. d[line'[j]] <= d[line'[i]] + 1
        <3>1. /\ d[line'[i]] \in Nat /\ d[line'[j]] \in Nat
              /\ depth[g] <= d[line'[i]] /\ d[line'[j]] <= depth[g] + 1
            BY <1>10
        <3>2. depth[g] \in Nat
            BY <1>6
        <3> QED BY <3>1, <3>2
    <2>3. CASE line'[j] \in new
        BY <1>6, <1>7, <1>10, <2>2, <2>3
    <2>4. CASE j + 1 \in DOMAIN line /\ line'[j] = line[j + 1]
        <3>1. i + 1 \in DOMAIN line /\ i + 1 < j + 1
            BY <1>1, <1>3, <1>11, <2>1, <2>4 DEF Queued
        <3>2. line'[i] = line[i + 1]
            BY <1>3, <3>1 DEF Queued
        <3>3. depth[line[i + 1]] <= depth[line[j + 1]]
            BY <2>4, <3>1 DEF Spans
        <3>4. d[line[i + 1]] = depth[line[i + 1]] /\ d[line[j + 1]] = depth[line[j + 1]]
            BY <1>7, <2>4, <3>1 DEF Spans
        <3> QED BY <2>2, <2>4, <3>2, <3>3, <3>4
    <2> QED BY <1>3, <2>3, <2>4 DEF Queued
<1>12. ASSUME NEW p \in DOMAIN below'
       PROVE  \/ \E i \in DOMAIN line' : line'[i] = p
              \/ Expanded(d, p)' /\ \A i \in DOMAIN line' : d[p] <= d[line'[i]]
    <2>1. CASE p \in new
        BY <1>3, <2>1 DEF Queued
    <2>2. CASE p = g
        <3>1. ASSUME NEW u \in SameSource(g)
              PROVE  u \in DOMAIN below' /\ d[u] <= d[g] + 1
            <4>0. u \in new \/ u \in DOMAIN below
                BY DEF GivesWay
            <4>1. CASE u \in new
                BY <1>6, <1>7, <4>1
            <4>2. CASE u \in DOMAIN below
                <5>1. CASE \E i \in DOMAIN line : line[i] = u
                    <6>1. PICK i \in DOMAIN line : line[i] = u
                        BY <5>1
                    <6>2. CASE i = 1
                        BY <1>1, <1>6, <1>7, <6>1, <6>2
                    <6>3. CASE i # 1
                        <7>1. 1 < i
                            BY <1>1, <6>1, <6>3
                        <7>2. depth[line[i]] <= depth[line[1]] + 1
                            BY <1>1, <6>1, <7>1 DEF Spans
                        <7> QED BY <1>1, <1>6, <1>7, <4>2, <6>1, <7>2
                    <6> QED BY <6>2, <6>3
                <5>2. CASE \A i \in DOMAIN line : depth[u] <= depth[line[i]]
                    BY <1>1, <1>6, <1>7, <4>2, <5>2
                <5> QED BY <4>2, <5>1, <5>2 DEF Spans
            <4> QED BY <4>0, <4>1, <4>2
        <3>2. Expanded(d, g)'
            BY <1>5, <3>1 DEF Expanded, GivesWay
        <3>3. \A i \in DOMAIN line' : d[g] <= d[line'[i]]
            BY <1>6, <1>7, <1>10
        <3> QED BY <2>2, <3>2, <3>3
    <2>3. CASE p \in DOMAIN below /\ p # g
        <3>1. CASE \E k \in DOMAIN line : line[k] = p
            BY <1>1, <1>3, <2>3, <3>1 DEF Queued
        <3>2. CASE /\ Expanded(depth, p)
                   /\ \A i \in DOMAIN line : depth[p] <= depth[line[i]]
            <4>1. Expanded(d, p)'
                BY <1>5, <1>6, <1>7, <2>3, <3>2 DEF Expanded
            <4>2. depth[p] <= depth[g]
                BY <1>1, <3>2
            <4>3. \A i \in DOMAIN line' : d[p] <= d[line'[i]]
                BY <1>6, <1>7, <1>10, <2>3, <4>2
            <4> QED BY <4>1, <4>3
        <3> QED BY <2>3, <3>1, <3>2 DEF Spans
    <2> QED BY <1>6, <2>1, <2>2, <2>3
<1>13. Spans(d)'
    <2>1. (d \in [DOMAIN below -> Nat] /\ d[target] = 0)'
        BY <1>7, <1>8 DEF GivesWay
    <2>2. (\A p \in DOMAIN below \ {target} :
              /\ below[p] \in DOMAIN below /\ p \in SameSource(below[p])
              /\ d[p] = d[below[p]] + 1)'
        BY <1>5, <1>9 DEF GivesWay
    <2>3. (\A i \in DOMAIN line : line[i] \in DOMAIN below)'
        BY <1>10
    <2>4. (\A i, j \in DOMAIN line : i < j =>
              d[line[i]] <= d[line[j]] /\ d[line[j]] <= d[line[i]] + 1)'
        BY <1>11
    <2>5. (\A p \in DOMAIN below :
              \/ \E i \in DOMAIN line : line[i] = p
              \/ Expanded(d, p) /\ \A i \in DOMAIN line : d[p] <= d[line[i]])'
        BY <1>12
    <2> QED BY <2>1, <2>2, <2>3, <2>4, <2>5 DEF Spans
<1> QED BY <1>4, <1>13

LEMMA ClimbStep ==
    ASSUME TreeInv, Climb
    PROVE  TreeInv'
<1>1. TreeTyped /\ path = <<>> /\ line # <<>> /\ UNCHANGED <<tree, belongs, target>>
    BY DEF TreeInv, Climb
<1>2. PICK depth : Spans(depth)
    BY DEF TreeInv
<1>3. PICK g : g = Head(line)
    OBVIOUS
<1>4. CASE SameSource(g) = {}
    <2>1. path' = <<g>> /\ line' = line /\ below' = below
        BY <1>3, <1>4 DEF Climb
    <2>2. \A x : SameSource(x)' = SameSource(x)
        BY <1>1 DEF SameSource
    <2>3. TreeTyped' /\ Spans(depth)'
        BY <1>1, <1>2, <2>1, <2>2 DEF TreeTyped, Spans, Expanded
    <2>4. g \in DOMAIN below /\ g \in Groups /\ depth[g] \in Nat
        BY <1>1, <1>2, <1>3 DEF TreeTyped, Spans
    <2>5. /\ path' \in Seq(Groups) /\ DOMAIN path' = {1} /\ Len(path') = 1
          /\ path'[1] = g
        BY <2>1, <2>4
    <2>6. GoesDown(depth)'
        BY <1>1, <1>3, <1>4, <2>1, <2>2, <2>4, <2>5 DEF GoesDown
    <2> QED BY <2>3, <2>6 DEF TreeInv
<1>5. CASE SameSource(g) # {}
    <2>1. PICK new : new = SameSource(g) \ DOMAIN below
        OBVIOUS
    <2>2. /\ \E q \in SetToSeqs(new) : line' = Tail(line) \o q
          /\ below' = [p \in DOMAIN below \cup new |->
                          IF p \in new THEN g ELSE below[p]]
          /\ path' = path
        BY <1>3, <1>5, <2>1 DEF Climb
    <2>3. TreeTyped' /\ \E d : Spans(d)'
        <3>1. GivesWay(g, new)
            BY <1>1, <1>3, <1>5, <2>1, <2>2 DEF GivesWay
        <3> QED BY <1>1, <1>2, <3>1, RimMoves
    <2> QED BY <1>1, <2>2, <2>3 DEF TreeInv
<1> QED BY <1>4, <1>5

LEMMA DescendStep ==
    ASSUME TreeInv, Descend
    PROVE  TreeInv'
<1> DEFINE n == Len(path)
           b == path[n]
<1>1. /\ TreeTyped /\ path # <<>> /\ b # target
      /\ path' = Append(path, below[b])
      /\ UNCHANGED <<tree, belongs, target, line, below>>
    BY DEF TreeInv, Descend, Arrived
<1>2. PICK depth : Spans(depth) /\ (GoesDown(depth) \/ path = <<target>>)
    BY <1>1 DEF TreeInv
<1>3. path # <<target>>
    BY <1>1
<1>4. GoesDown(depth)
    BY <1>2, <1>3
<1>5. /\ path \in Seq(Groups) /\ n \in Nat \ {0} /\ DOMAIN path = 1 .. n
    BY <1>1, <1>4 DEF GoesDown
<1>6. /\ b \in DOMAIN below /\ depth[b] + n = depth[path[1]] + 1
      /\ path[1] \in DOMAIN below
    BY <1>4, <1>5 DEF GoesDown
<1>7. PICK c : c = below[b]
    OBVIOUS
<1>8. /\ c \in DOMAIN below /\ c \in Groups /\ b \in SameSource(c)
      /\ depth[b] = depth[c] + 1
      /\ depth[b] \in Nat /\ depth[c] \in Nat /\ depth[path[1]] \in Nat
    BY <1>1, <1>2, <1>6, <1>7 DEF Spans, TreeTyped
<1>9. /\ path' \in Seq(Groups) /\ Len(path') = n + 1 /\ DOMAIN path' = 1 .. n + 1
      /\ path'[n + 1] = c /\ \A i \in 1 .. n : path'[i] = path[i]
    BY <1>1, <1>5, <1>7, <1>8
<1>10. \A x : SameSource(x)' = SameSource(x)
    BY <1>1 DEF SameSource
<1> HIDE DEF n
<1>11. ASSUME NEW i \in DOMAIN path'
       PROVE  path'[i] \in DOMAIN below /\ depth[path'[i]] + i = depth[path[1]] + 1
    <2>1. CASE i \in 1 .. n
        BY <1>4, <1>5, <1>9, <2>1 DEF GoesDown
    <2>2. CASE i = n + 1
        BY <1>5, <1>6, <1>8, <1>9, <2>2
    <2> QED BY <1>5, <1>9, <2>1, <2>2
<1>12. ASSUME NEW i \in 1 .. Len(path') - 1
       PROVE  path'[i] \in SameSource(path'[i + 1])
    <2>1. CASE i = n
        BY <1>5, <1>8, <1>9, <2>1
    <2>2. CASE i # n
        <3>1. i \in 1 .. n - 1 /\ i + 1 \in 1 .. n /\ i \in 1 .. n
            BY <1>5, <1>9, <2>2
        <3> QED BY <1>4, <1>9, <3>1 DEF GoesDown, n
    <2> QED BY <2>1, <2>2
<1>13. path'[1] = path[1] /\ 1 \in 1 .. n
    BY <1>5, <1>9
<1>14. GoesDown(depth)'
    BY <1>1, <1>4, <1>9, <1>10, <1>11, <1>12, <1>13 DEF GoesDown
<1>15. TreeTyped' /\ Spans(depth)'
    BY <1>1, <1>2, <1>10 DEF TreeTyped, Spans, Expanded
<1> QED BY <1>14, <1>15 DEF TreeInv

LEMMA NextTree == TreeInv /\ [TreeNext]_treeVars => TreeInv'
<1> SUFFICES ASSUME TreeInv, [TreeNext]_treeVars
             PROVE  TreeInv'
    OBVIOUS
<1>1. CASE Climb
    BY <1>1, ClimbStep
<1>2. CASE Descend
    BY <1>2, DescendStep
<1>3. CASE NoTop \/ UNCHANGED treeVars
    <2>1. UNCHANGED <<tree, belongs, target, line, below>>
        BY <1>3 DEF NoTop, treeVars
    <2>2. \A x : SameSource(x)' = SameSource(x)
        BY <2>1 DEF SameSource
    <2>3. PICK depth : /\ Spans(depth)
                       /\ \/ path = <<>>
                          \/ GoesDown(depth)
                          \/ path = <<target>> /\ line = <<>>
        BY DEF TreeInv
    <2>4. TreeTyped' /\ Spans(depth)'
        BY <2>1, <2>2, <2>3 DEF TreeInv, TreeTyped, Spans, Expanded
    <2>5. CASE NoTop
        BY <2>1, <2>4, <2>5 DEF NoTop, TreeInv
    <2>6. CASE UNCHANGED treeVars
        <3>1. path' = path
            BY <2>6 DEF treeVars
        <3>2. GoesDown(depth) => GoesDown(depth)'
            BY <2>1, <2>2, <3>1 DEF GoesDown
        <3> QED BY <2>1, <2>3, <2>4, <3>1, <3>2 DEF TreeInv
    <2> QED BY <1>3, <2>5, <2>6
<1> QED BY <1>1, <1>2, <1>3 DEF TreeNext

\* PathOpensAlways: for any groups, nested in any way, and however the parents
\* of a group are ordered, the path is a shortest way down from the top of the
\* source's tree, and a group is shown alone only if there is none
\* (browse.go:123-157).
THEOREM PathOpensAlways == TreeSpec => []PathOpens
BY InitTree, NextTree, TreeInvOpens, PTL DEF TreeSpec

=============================================================================
