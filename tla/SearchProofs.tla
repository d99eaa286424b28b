---------------------------- MODULE SearchProofs ----------------------------
(***************************************************************************)
(* What a search asks for, however many words are typed, and what it is    *)
(* answered from.                                                          *)
(*                                                                         *)
(* The query: the clauses read so far are the words typed so far, cut      *)
(* where a required term begins.  Begins says which clause has which terms *)
(* and Joins what is left pending when the person stops after an "or".     *)
(*                                                                         *)
(* The snapshot: what a refresh has read is of the right kind, whichever   *)
(* steps of others came between its reads.                                 *)
(***************************************************************************)
EXTENDS GroupCache, GroupQuery, FiniteSetTheorems, TLAPS

-----------------------------------------------------------------------------
(* The query.                                                              *)

QueryTyped ==
    /\ typed \in Seq(Words)
    /\ clauses \in Seq(Seq(Terms))
    /\ or \in BOOLEAN

\* A term typed next would be an alternative.
Joins ==
    \E j \in TermsAt, k \in DOMAIN typed :
        /\ j < k /\ typed[k] \in OrWords
        /\ \A x \in TermsAt : x <= j

TermsOf(clause) == {clause[k] : k \in DOMAIN clause}

ClauseFrom(i) == {typed[j] : j \in {x \in TermsAt : SameClause(i, x)}}

\* Each clause has the terms from one required term to the next; begins says
\* at which word each begins.
Begins(begins) ==
    /\ begins \in [DOMAIN clauses -> TermsAt]
    /\ \A c, d \in DOMAIN clauses : c < d => begins[c] < begins[d]
    /\ \A i \in TermsAt : ~IsAlternative(i) <=> \E c \in DOMAIN clauses : begins[c] = i
    /\ \A c \in DOMAIN clauses : TermsOf(clauses[c]) = ClauseFrom(begins[c])

QueryInv ==
    /\ QueryTyped
    /\ or <=> Joins
    /\ clauses = <<>> => TermsAt = {}
    /\ TermsAt # {} => \E j \in TermsAt : \A x \in TermsAt : x <= j
    /\ \E begins : Begins(begins)

\* A clause counts for an entry when one of its terms matches.
LEMMA MatchedSome ==
    ASSUME NEW clause \in Seq(Terms), NEW e
    PROVE  Matched(clause, e) > 0 <=> \E t \in TermsOf(clause) : e \in Finds[t]
<1> DEFINE S == {i \in DOMAIN clause : e \in Finds[clause[i]]}
<1>1. IsFiniteSet(1 .. Len(clause))
    BY FS_Interval
<1>2. IsFiniteSet(S)
    BY <1>1, FS_Subset
<1>3. Cardinality(S) \in Nat /\ (Cardinality(S) = 0 <=> S = {})
    BY <1>2, FS_CardinalityType, FS_EmptySet
<1>4. S # {} <=> \E t \in TermsOf(clause) : e \in Finds[t]
    BY DEF TermsOf
<1> QED BY <1>3, <1>4 DEF Matched

LEMMA QueryInvMeans == QueryInv => QueryMeans
<1> SUFFICES ASSUME QueryInv
             PROVE  QueryMeans
    OBVIOUS
<1>1. PICK begins : Begins(begins)
    BY DEF QueryInv
<1>2. CASE clauses = <<>>
    <2>1. TermsAt = {}
        BY <1>2 DEF QueryInv
    <2> QED BY <1>2, <2>1 DEF QueryMeans, Hits
<1>3. CASE clauses # <<>>
    <2>1. DOMAIN clauses # {} /\ \A c \in DOMAIN clauses : clauses[c] \in Seq(Terms)
        BY <1>3 DEF QueryInv, QueryTyped
    <2>2. TermsAt # {}
        BY <1>1, <2>1 DEF Begins
    <2>3. ASSUME NEW c \in DOMAIN clauses, NEW e
          PROVE  Matched(clauses[c], e) > 0 <=>
                     \E j \in TermsAt : SameClause(begins[c], j) /\ e \in Finds[typed[j]]
        <3>1. Matched(clauses[c], e) > 0 <=>
                  \E t \in TermsOf(clauses[c]) : e \in Finds[t]
            BY <2>1, MatchedSome
        <3>2. TermsOf(clauses[c]) = ClauseFrom(begins[c])
            BY <1>1 DEF Begins
        <3> QED BY <3>1, <3>2 DEF ClauseFrom
    <2>4. ASSUME NEW e
          PROVE  (\A c \in DOMAIN clauses : Matched(clauses[c], e) > 0) <=>
                 \A i \in TermsAt : ~IsAlternative(i) =>
                     \E j \in TermsAt : SameClause(i, j) /\ e \in Finds[typed[j]]
        BY <1>1, <2>3 DEF Begins
    <2> QED BY <1>3, <2>2, <2>4 DEF QueryMeans, Hits
<1> QED BY <1>2, <1>3

LEMMA InitQuery == QueryInit => QueryInv
<1> SUFFICES ASSUME QueryInit
             PROVE  QueryInv
    OBVIOUS
<1>1. TermsAt = {} /\ DOMAIN clauses = {}
    BY DEF QueryInit, TermsAt
<1>2. QueryTyped
    <2>1. <<>> \in Seq(Words) /\ <<>> \in Seq(Seq(Terms))
        OBVIOUS
    <2>2. typed = <<>> /\ clauses = <<>> /\ or = FALSE
        BY DEF QueryInit
    <2> QED BY <2>1, <2>2 DEF QueryTyped
<1>3. Begins(<<>>)
    BY <1>1 DEF Begins
<1>4. or <=> Joins
    BY <1>1 DEF QueryInit, Joins
<1> QED BY <1>1, <1>2, <1>3, <1>4 DEF QueryInv

\* One more word changes nothing about those before it.
LEMMA OneWordMore ==
    ASSUME QueryTyped, NEW w \in Words, TypeWord(w), NEW n, n = Len(typed) + 1
    PROVE  /\ n \in Nat /\ n \notin TermsAt /\ \A i \in TermsAt : i \in Nat /\ i < n
           /\ TermsAt' = IF w \in Terms THEN TermsAt \cup {n} ELSE TermsAt
           /\ typed'[n] = w /\ \A i \in TermsAt : typed'[i] = typed[i]
           /\ \A i \in TermsAt : IsAlternative(i)' <=> IsAlternative(i)
           /\ \A i, j \in TermsAt : SameClause(i, j)' <=> SameClause(i, j)
           /\ w \in Terms => (IsAlternative(n)' <=> Joins)
<1>1. /\ n \in Nat /\ DOMAIN typed = 1 .. n - 1
      /\ DOMAIN typed' = DOMAIN typed \cup {n}
      /\ typed'[n] = w /\ \A i \in DOMAIN typed : typed'[i] = typed[i]
      /\ \A i \in DOMAIN typed : i \in Nat /\ i < n
    BY DEF TypeWord, QueryTyped
<1>2. TermsAt' = IF w \in Terms THEN TermsAt \cup {n} ELSE TermsAt
    BY <1>1 DEF TermsAt
<1>3. n \notin TermsAt /\ \A i \in TermsAt : i \in DOMAIN typed /\ i \in Nat /\ i < n
    BY <1>1 DEF TermsAt
<1>4. ASSUME NEW i \in TermsAt
      PROVE  IsAlternative(i)' <=> IsAlternative(i)
    <2>1. ASSUME NEW j \in TermsAt, NEW k \in DOMAIN typed
          PROVE  (\A x \in TermsAt' : x <= j \/ i <= x) <=>
                 (\A x \in TermsAt : x <= j \/ i <= x)
        BY <1>1, <1>2, <1>3
    <2>2. ASSUME NEW j \in TermsAt', NEW k \in DOMAIN typed', j < k, k < i
          PROVE  j \in TermsAt /\ k \in DOMAIN typed
        BY <1>1, <1>2, <1>3, <2>2
    <2>3. TermsAt \subseteq TermsAt' /\ DOMAIN typed \subseteq DOMAIN typed'
        BY <1>1, <1>2
    <2> QED BY <1>1, <2>1, <2>2, <2>3 DEF IsAlternative
<1>5. ASSUME NEW i \in TermsAt, NEW j \in TermsAt
      PROVE  SameClause(i, j)' <=> SameClause(i, j)
    <2>1. \A x \in TermsAt' : x <= j => x \in TermsAt
        BY <1>2, <1>3
    <2>2. TermsAt \subseteq TermsAt'
        BY <1>2
    <2> QED BY <1>4, <2>1, <2>2 DEF SameClause
<1>6. ASSUME w \in Terms
      PROVE  IsAlternative(n)' <=> Joins
    <2>1. TermsAt' = TermsAt \cup {n}
        BY <1>2, <1>6
    <2>2. ASSUME NEW j \in TermsAt
          PROVE  (\A x \in TermsAt' : x <= j \/ n <= x) <=>
                 (\A x \in TermsAt : x <= j)
        BY <1>1, <1>3, <2>1
    <2>3. ASSUME NEW j \in TermsAt', NEW k \in DOMAIN typed', j < k, k < n
          PROVE  j \in TermsAt /\ k \in DOMAIN typed
        BY <1>1, <1>3, <2>1, <2>3
    <2> QED BY <1>1, <1>3, <2>1, <2>2, <2>3 DEF IsAlternative, Joins
<1> QED BY <1>1, <1>2, <1>3, <1>4, <1>5, <1>6

\* A clause that begins before the last one ends there; the last one goes on.
LEMMA LastClauseGoesOn ==
    ASSUME QueryTyped, NEW w \in Terms, TypeWord(w), NEW n, n = Len(typed) + 1,
           NEW begins, Begins(begins), NEW c \in DOMAIN clauses
    PROVE  SameClause(begins[c], n)' <=> Joins /\ c = Len(clauses)
<1>0. w \in Words
    BY DEF Words
<1> USE <1>0
<1>1. /\ n \in Nat /\ n \notin TermsAt /\ \A i \in TermsAt : i \in Nat /\ i < n
      /\ TermsAt' = TermsAt \cup {n}
      /\ \A i \in TermsAt : IsAlternative(i)' <=> IsAlternative(i)
      /\ IsAlternative(n)' <=> Joins
    BY OneWordMore
<1>2. begins[c] \in TermsAt
    BY DEF Begins
<1>3. SameClause(begins[c], n)' <=>
          Joins /\ \A x \in TermsAt : begins[c] < x => IsAlternative(x)
    <2>1. SameClause(begins[c], n)' <=>
              \A x \in TermsAt' : begins[c] < x /\ x <= n => IsAlternative(x)'
        BY <1>1, <1>2 DEF SameClause
    <2> QED BY <1>1, <1>2, <2>1
<1>4. Len(clauses) \in DOMAIN clauses /\ c <= Len(clauses) /\ Len(clauses) \in Nat
      /\ DOMAIN clauses = 1 .. Len(clauses)
    BY DEF QueryTyped
<1>5. CASE c = Len(clauses)
    <2>1. ASSUME NEW x \in TermsAt, begins[c] < x
          PROVE  IsAlternative(x)
        <3>1. SUFFICES ASSUME ~IsAlternative(x)
                       PROVE  FALSE
            OBVIOUS
        <3>2. PICK d \in DOMAIN clauses : begins[d] = x
            BY <3>1 DEF Begins
        <3>3. d < c \/ d = c
            BY <1>4, <1>5
        <3>4. begins[d] \in TermsAt /\ (d < c => begins[d] < begins[c])
            BY DEF Begins
        <3> QED BY <1>1, <1>2, <2>1, <3>2, <3>3, <3>4
    <2> QED BY <1>3, <1>5, <2>1
<1>6. CASE c # Len(clauses)
    <2> DEFINE last == begins[Len(clauses)]
    <2>1. last \in TermsAt /\ begins[c] < last
        BY <1>4, <1>6 DEF Begins
    <2>2. ~IsAlternative(last)
        BY <1>4, <2>1 DEF Begins
    <2> QED BY <1>3, <1>6, <2>1, <2>2
<1> QED BY <1>5, <1>6

LEMMA TermRead ==
    ASSUME QueryInv, NEW w \in Terms, TypeWord(w)
    PROVE  QueryInv'
<1>0. w \in Words /\ QueryTyped
    BY DEF Words, QueryInv
<1>1. PICK n : n = Len(typed) + 1
    OBVIOUS
<1>2. PICK begins : Begins(begins)
    BY DEF QueryInv
<1>3. /\ n \in Nat /\ n \notin TermsAt /\ \A i \in TermsAt : i \in Nat /\ i < n
      /\ TermsAt' = TermsAt \cup {n}
      /\ typed'[n] = w /\ \A i \in TermsAt : typed'[i] = typed[i]
      /\ \A i \in TermsAt : IsAlternative(i)' <=> IsAlternative(i)
      /\ \A i, j \in TermsAt : SameClause(i, j)' <=> SameClause(i, j)
      /\ IsAlternative(n)' <=> Joins
    BY <1>0, <1>1, OneWordMore
<1>4. /\ clauses' = IF or THEN Alternative(clauses, w) ELSE Append(clauses, <<w>>)
      /\ or' = FALSE /\ typed' = Append(typed, w)
    <2>1. w \notin OrWords /\ w \notin AndWords \cup EmptyTerms
        BY GroupQueryAssumption
    <2>2. ReadWord(w) /\ typed' = Append(typed, w)
        BY DEF TypeWord
    <2>3. /\ clauses' = IF or THEN Alternative(clauses, w) ELSE Append(clauses, <<w>>)
          /\ or' = FALSE
        BY <2>1, <2>2 DEF ReadWord
    <2> QED BY <2>2, <2>3
<1>5. ASSUME NEW i \in TermsAt
      PROVE  ClauseFrom(i)' = ClauseFrom(i) \cup
                                  (IF SameClause(i, n)' THEN {w} ELSE {})
    BY <1>3 DEF ClauseFrom
<1>6. Joins' <=> FALSE
    <2>1. \A k \in DOMAIN typed' : k \in Nat /\ k <= n
        <3>1. typed' = Append(typed, w) /\ typed \in Seq(Words)
            BY <1>0, <1>4 DEF QueryTyped
        <3> QED BY <1>0, <1>1, <3>1
    <2>2. SUFFICES ASSUME Joins'
                   PROVE  FALSE
        OBVIOUS
    <2>3. PICK j \in TermsAt', k \in DOMAIN typed' :
              j < k /\ \A x \in TermsAt' : x <= j
        BY <2>2 DEF Joins
    <2>4. n \in TermsAt' /\ j \in Nat
        BY <1>3
    <2> QED BY <1>3, <2>1, <2>3, <2>4
<1>7. \E j \in TermsAt' : \A x \in TermsAt' : x <= j
    BY <1>3
<1>8. typed' \in Seq(Words)
    <2>1. typed \in Seq(Words) /\ typed' = Append(typed, w)
        BY <1>0, <1>4 DEF QueryTyped
    <2> QED BY <1>0, <2>1
<1>10. or' \in BOOLEAN
    BY <1>4
<1>9. clauses' \in Seq(Seq(Terms)) /\ clauses' # <<>> /\ \E b : Begins(b)'
    <2>1. CASE or
        <3>1. Joins
            BY <2>1 DEF QueryInv
        <3>2. clauses # <<>>
            BY <3>1 DEF Joins, QueryInv
        <3>3. PICK last \in DOMAIN clauses : last = Len(clauses)
            BY <1>0, <3>2 DEF QueryTyped
        <3>4. clauses[last] \in Seq(Terms)
            BY <1>0 DEF QueryTyped
        <3>5. /\ clauses' = [clauses EXCEPT ![last] = Append(clauses[last], w)]
              /\ DOMAIN clauses' = DOMAIN clauses
              /\ clauses'[last] = Append(clauses[last], w)
              /\ \A c \in DOMAIN clauses \ {last} : clauses'[c] = clauses[c]
            BY <1>0, <1>4, <2>1, <3>3 DEF Alternative, QueryTyped
        <3>6. clauses' \in Seq(Seq(Terms)) /\ clauses' # <<>>
            <4>1. Append(clauses[last], w) \in Seq(Terms)
                BY <3>4
            <4> QED BY <1>0, <3>2, <3>5, <4>1 DEF QueryTyped
        <3>7. TermsOf(clauses'[last]) = TermsOf(clauses[last]) \cup {w}
            BY <3>4, <3>5 DEF TermsOf
        <3>8. ASSUME NEW c \in DOMAIN clauses'
              PROVE  TermsOf(clauses'[c]) = ClauseFrom(begins[c])'
            <4>1. c \in DOMAIN clauses /\ begins[c] \in TermsAt
                BY <1>2, <3>5 DEF Begins
            <4>2. SameClause(begins[c], n)' <=> c = last
                BY <1>0, <1>1, <1>2, <3>1, <3>3, <4>1, LastClauseGoesOn
            <4>3. ClauseFrom(begins[c])' =
                      ClauseFrom(begins[c]) \cup (IF c = last THEN {w} ELSE {})
                BY <1>5, <4>1, <4>2
            <4>4. TermsOf(clauses[c]) = ClauseFrom(begins[c])
                BY <1>2, <4>1 DEF Begins
            <4> QED BY <3>5, <3>7, <4>1, <4>3, <4>4
        <3>9. Begins(begins)'
            <4>1. begins \in [DOMAIN clauses' -> TermsAt']
                BY <1>2, <1>3, <3>5 DEF Begins
            <4>2. \A c, d \in DOMAIN clauses' : c < d => begins[c] < begins[d]
                BY <1>2, <3>5 DEF Begins
            <4>3. \A i \in TermsAt' :
                      ~IsAlternative(i)' <=> \E c \in DOMAIN clauses' : begins[c] = i
                BY <1>2, <1>3, <3>1, <3>5 DEF Begins
            <4> QED BY <3>8, <4>1, <4>2, <4>3 DEF Begins
        <3> QED BY <3>6, <3>9
    <2>2. CASE ~or
        <3>1. ~Joins
            BY <2>2 DEF QueryInv
        <3>2. PICK new : new = Len(clauses) + 1
            OBVIOUS
        <3>3. /\ clauses' = Append(clauses, <<w>>)
              /\ DOMAIN clauses' = DOMAIN clauses \cup {new}
              /\ new \in Nat /\ \A c \in DOMAIN clauses : c \in Nat /\ c < new
              /\ clauses'[new] = <<w>>
              /\ \A c \in DOMAIN clauses : clauses'[c] = clauses[c]
            BY <1>0, <1>4, <2>2, <3>2 DEF QueryTyped
        <3>4. clauses' \in Seq(Seq(Terms)) /\ clauses' # <<>>
            <4>1. <<w>> \in Seq(Terms)
                OBVIOUS
            <4> QED BY <1>0, <3>3, <4>1 DEF QueryTyped
        <3>5. PICK b : b = [c \in DOMAIN clauses' |->
                                IF c = new THEN n ELSE begins[c]]
            OBVIOUS
        <3>6. /\ b[new] = n
              /\ \A c \in DOMAIN clauses : b[c] = begins[c] /\ begins[c] \in TermsAt
            BY <1>2, <3>3, <3>5 DEF Begins
        <3>7. ASSUME NEW c \in DOMAIN clauses
              PROVE  TermsOf(clauses'[c]) = ClauseFrom(b[c])'
            <4>1. ~SameClause(begins[c], n)'
                BY <1>0, <1>1, <1>2, <3>1, LastClauseGoesOn
            <4>2. ClauseFrom(begins[c])' = ClauseFrom(begins[c])
                BY <1>5, <3>6, <4>1
            <4>3. TermsOf(clauses[c]) = ClauseFrom(begins[c])
                BY <1>2 DEF Begins
            <4> QED BY <3>3, <3>6, <4>2, <4>3
        <3>8. TermsOf(clauses'[new]) = ClauseFrom(b[new])'
            <4>1. TermsOf(<<w>>) = {w}
                BY DEF TermsOf
            <4>2. \A j \in TermsAt' : SameClause(n, j)' <=> j = n
                BY <1>3 DEF SameClause
            <4>3. ClauseFrom(n)' = {w}
                BY <1>3, <4>2 DEF ClauseFrom
            <4> QED BY <3>3, <3>6, <4>1, <4>3
        <3>9. Begins(b)'
            <4>1. b \in [DOMAIN clauses' -> TermsAt']
                BY <1>3, <3>3, <3>5, <3>6
            <4>2. \A c, d \in DOMAIN clauses' : c < d => b[c] < b[d]
                BY <1>2, <1>3, <3>3, <3>6 DEF Begins
            <4>3. \A i \in TermsAt' :
                      ~IsAlternative(i)' <=> \E c \in DOMAIN clauses' : b[c] = i
                <5>1. ASSUME NEW i \in TermsAt
                      PROVE  (\E c \in DOMAIN clauses' : b[c] = i) <=>
                             \E c \in DOMAIN clauses : begins[c] = i
                    <6>1. b[new] # i
                        BY <1>3, <3>6
                    <6> QED BY <3>3, <3>6, <6>1
                <5>2. \A i \in TermsAt :
                          ~IsAlternative(i)' <=> \E c \in DOMAIN clauses' : b[c] = i
                    BY <1>2, <1>3, <5>1 DEF Begins
                <5>3. ~IsAlternative(n)'
                    BY <1>3, <3>1
                <5>4. \E c \in DOMAIN clauses' : b[c] = n
                    BY <3>3, <3>6
                <5> QED BY <1>3, <5>2, <5>3, <5>4
            <4> QED BY <3>3, <3>7, <3>8, <4>1, <4>2, <4>3 DEF Begins
        <3> QED BY <3>4, <3>9
    <2> QED BY <2>1, <2>2
<1>11. ~or'
    BY <1>4
<1> QED BY <1>6, <1>7, <1>8, <1>9, <1>10, <1>11 DEF QueryInv, QueryTyped

LEMMA OtherWordRead ==
    ASSUME QueryInv, NEW w \in Words \ Terms, TypeWord(w)
    PROVE  QueryInv'
<1>0. QueryTyped
    BY DEF QueryInv
<1>1. PICK n : n = Len(typed) + 1
    OBVIOUS
<1>2. PICK begins : Begins(begins)
    BY DEF QueryInv
<1>3. /\ TermsAt' = TermsAt /\ typed'[n] = w
      /\ \A i \in TermsAt : typed'[i] = typed[i] /\ i \in Nat /\ i < n
      /\ \A i \in TermsAt : IsAlternative(i)' <=> IsAlternative(i)
      /\ \A i, j \in TermsAt : SameClause(i, j)' <=> SameClause(i, j)
    BY <1>0, <1>1, OneWordMore
<1>4. /\ typed' = Append(typed, w) /\ clauses' = clauses
      /\ or' = IF w \in OrWords THEN clauses # <<>> ELSE or
    <2>1. w \in OrWords \/ w \in AndWords \cup EmptyTerms
        BY DEF Words
    <2>2. w \in OrWords => w \notin AndWords \cup EmptyTerms
        BY GroupQueryAssumption
    <2>3. ReadWord(w) /\ typed' = Append(typed, w)
        BY DEF TypeWord
    <2>4. CASE w \in OrWords
        <3>1. clauses' = clauses /\ or' = (clauses # <<>>)
            BY <2>2, <2>3, <2>4 DEF ReadWord
        <3> QED BY <2>3, <2>4, <3>1
    <2>5. CASE w \notin OrWords
        <3>1. clauses' = clauses /\ or' = or
            BY <2>1, <2>3, <2>5 DEF ReadWord
        <3> QED BY <2>3, <2>5, <3>1
    <2> QED BY <2>4, <2>5
<1>5. clauses = <<>> <=> TermsAt = {}
    <2>1. clauses \in Seq(Seq(Terms))
        BY <1>0 DEF QueryTyped
    <2>2. clauses # <<>> => DOMAIN clauses # {}
        <3>1. clauses # <<>> => Len(clauses) \in Nat /\ Len(clauses) > 0
            BY <2>1
        <3>2. clauses # <<>> => 1 \in DOMAIN clauses
            BY <2>1, <3>1
        <3> QED BY <3>2
    <2> QED BY <1>2, <2>2 DEF Begins, QueryInv
<1>6. /\ DOMAIN typed' = DOMAIN typed \cup {n} /\ n \in Nat
      /\ \A k \in DOMAIN typed : typed'[k] = typed[k]
    BY <1>0, <1>1, <1>4 DEF QueryTyped
<1>7. or' <=> Joins'
    <2>1. CASE w \in OrWords
        <3>1. TermsAt # {} => Joins'
            BY <1>3, <1>6, <2>1 DEF Joins, QueryInv
        <3>2. Joins' => TermsAt # {}
            BY <1>3 DEF Joins
        <3> QED BY <1>4, <1>5, <2>1, <3>1, <3>2
    <2>2. CASE w \notin OrWords
        <3>1. Joins' <=> Joins
            BY <1>3, <1>6, <2>2 DEF Joins
        <3>2. or <=> Joins
            BY DEF QueryInv
        <3> QED BY <1>4, <2>2, <3>1, <3>2
    <2> QED BY <2>1, <2>2
<1>8. Begins(begins)'
    <2>1. \A i \in TermsAt : ClauseFrom(i)' = ClauseFrom(i)
        BY <1>3 DEF ClauseFrom
    <2> QED BY <1>2, <1>3, <1>4, <2>1 DEF Begins
<1>9. typed' \in Seq(Words) /\ clauses' \in Seq(Seq(Terms))
    BY <1>0, <1>4 DEF QueryTyped
<1>10. or' \in BOOLEAN
    BY <1>0, <1>4 DEF QueryTyped
<1>11. TermsAt' # {} => \E j \in TermsAt' : \A x \in TermsAt' : x <= j
    BY <1>3 DEF QueryInv
<1>12. clauses' = <<>> => TermsAt' = {}
    BY <1>3, <1>4, <1>5
<1>13. QueryTyped'
    BY <1>9, <1>10 DEF QueryTyped
<1>14. (\E b : Begins(b))'
    BY <1>8
<1>15. (or <=> Joins)'
    BY <1>7
<1>16. (TermsAt # {} => \E j \in TermsAt : \A x \in TermsAt : x <= j)'
    BY <1>11
<1>17. (clauses = <<>> => TermsAt = {})'
    BY <1>12
<1> QED BY <1>13, <1>14, <1>15, <1>16, <1>17 DEF QueryInv

LEMMA NextQuery == QueryInv /\ [QueryNext]_queryVars => QueryInv'
<1> SUFFICES ASSUME QueryInv, [QueryNext]_queryVars
             PROVE  QueryInv'
    OBVIOUS
<1>1. CASE UNCHANGED queryVars
    <2>1. typed' = typed /\ clauses' = clauses
        BY <1>1 DEF queryVars
    <2>2. or' = or
        BY <1>1 DEF queryVars
    <2>3. TermsAt' = TermsAt /\ (Joins' <=> Joins)
        BY <2>1 DEF TermsAt, Joins
    <2>4. \A i : IsAlternative(i)' <=> IsAlternative(i)
        BY <2>1, <2>3 DEF IsAlternative
    <2>5. \A i, j : SameClause(i, j)' <=> SameClause(i, j)
        BY <2>3, <2>4 DEF SameClause
    <2>6. \A i : ClauseFrom(i)' = ClauseFrom(i)
        BY <2>1, <2>3, <2>5 DEF ClauseFrom
    <2>7. \A b : Begins(b)' <=> Begins(b)
        BY <2>1, <2>3, <2>4, <2>6 DEF Begins
    <2>8. QueryTyped'
        BY <2>1, <2>2 DEF QueryInv, QueryTyped
    <2> QED BY <2>1, <2>2, <2>3, <2>7, <2>8, Zenon DEF QueryInv
<1>2. CASE QueryNext
    BY <1>2, TermRead, OtherWordRead DEF QueryNext
<1> QED BY <1>1, <1>2

\* QueryMeansAlways: whatever a person types, of any length and with any
\* terms, what is found after each word is what the words so far say
\* (query.go:56-83).
THEOREM QueryMeansAlways == QuerySpec => []QueryMeans
BY InitQuery, NextQuery, QueryInvMeans, PTL DEF QuerySpec

-----------------------------------------------------------------------------
(* The snapshot.                                                           *)

Reading == [owner : [Groups -> Owners], held : SUBSET (Groups \X Relations),
            sources : SUBSET Sources]

Labels == {"idle", "adopt", "groups", "relations", "sources", "store"}

StoreTyped ==
    /\ owner \in [Groups -> Owners]
    /\ held \in SUBSET (Groups \X Relations)
    /\ sources \in SUBSET Sources

Counted == changes \in 0 .. MaxChanges /\ failures \in 0 .. MaxFailures

LEMMA TypeOKSplit ==
    TypeOK <=> /\ StoreTyped /\ Counted
               /\ snapshot \in SUBSET Found
               /\ pc \in [Refreshers -> Labels]
               /\ read \in [Refreshers -> Reading]
BY DEF TypeOK, StoreTyped, Counted, Labels, Reading

LEMMA TypeOKNext ==
    ASSUME StoreTyped', Counted', snapshot' \in SUBSET Found,
           pc' \in [Refreshers -> Labels], read' \in [Refreshers -> Reading]
    PROVE  TypeOK'
BY DEF TypeOK, StoreTyped, Counted, Labels, Reading

\* What is searched is made of what was read.
LEMMA ViewFound ==
    ASSUME NEW own \in [Groups -> Owners], NEW hold, NEW known \in SUBSET Sources
    PROVE  View(own, hold, known) \in SUBSET Found
<1>1. ASSUME NEW g \in Groups
      PROVE  [id |-> g, relations |-> {r \in Relations : <<g, r>> \in hold},
              source |-> IF own[g] \in known \cup {Local} THEN own[g] ELSE NoName]
             \in Found
    BY DEF Found
<1> QED BY <1>1 DEF View

LEMMA GotoTyped ==
    ASSUME TypeOK, NEW p \in Refreshers, NEW label \in Labels, Goto(p, label)
    PROVE  pc' \in [Refreshers -> Labels]
BY TypeOKSplit DEF Goto

LEMMA NothingReadTyped == NothingRead \in Reading
BY DEF NothingRead, Reading, Owners

LEMMA EditTyped ==
    ASSUME TypeOK, NEW p \in Callers, Edit(p)
    PROVE  TypeOK'
<1>1. Change(p) /\ p \in Refreshers
    BY DEF Edit, CreateGroup, DeleteGroup, EditMembers, RunSync, DeleteSource, Refreshers
<1>2. Counted' /\ UNCHANGED <<snapshot, read>>
    BY <1>1, TypeOKSplit, GroupCacheAssumption DEF Change, Counted
<1>3. StoreTyped /\ Sources \cup {Local, NoSource, Absent} = Owners
    BY TypeOKSplit DEF Owners
<1>4. CASE \E g \in Groups : CreateGroup(p, g)
    <2>1. StoreTyped' /\ Goto(p, "groups")
        BY <1>3, <1>4 DEF CreateGroup, StoreTyped
    <2> QED BY <1>1, <1>2, <2>1, GotoTyped, TypeOKSplit, TypeOKNext DEF Labels
<1>5. CASE \E g \in Groups : DeleteGroup(p, g)
    <2>1. StoreTyped' /\ Goto(p, "groups")
        BY <1>3, <1>5 DEF DeleteGroup, StoreTyped
    <2> QED BY <1>1, <1>2, <2>1, GotoTyped, TypeOKSplit, TypeOKNext DEF Labels
<1>6. CASE \E g \in Groups, R \in SUBSET Relations : EditMembers(p, g, R)
    <2>1. PICK g \in Groups, R \in SUBSET Relations : EditMembers(p, g, R)
        BY <1>6
    <2>2. {g} \X R \subseteq Groups \X Relations
        OBVIOUS
    <2>3. StoreTyped' /\ pc' = pc
        BY <1>3, <2>1, <2>2 DEF EditMembers, StoreTyped
    <2> QED BY <1>2, <2>3, TypeOKSplit, TypeOKNext
<1>7. CASE \E s \in Sources, g \in Groups, R \in SUBSET Relations : RunSync(p, s, g, R)
    <2>1. PICK s \in Sources, g \in Groups, R \in SUBSET Relations : RunSync(p, s, g, R)
        BY <1>7
    <2>2. {g} \X R \subseteq Groups \X Relations
        OBVIOUS
    <2>3. owner' \in [Groups -> Owners]
        BY <1>3, <2>1 DEF RunSync, StoreTyped
    <2>4. StoreTyped' /\ Goto(p, "groups")
        BY <1>3, <2>1, <2>2, <2>3 DEF RunSync, StoreTyped
    <2> QED BY <1>1, <1>2, <2>4, GotoTyped, TypeOKSplit, TypeOKNext DEF Labels
<1>8. CASE \E s \in Sources : DeleteSource(p, s)
    <2>1. StoreTyped' /\ Goto(p, "adopt")
        BY <1>3, <1>8 DEF DeleteSource, StoreTyped
    <2> QED BY <1>1, <1>2, <2>1, GotoTyped, TypeOKSplit, TypeOKNext DEF Labels
<1> QED BY <1>4, <1>5, <1>6, <1>7, <1>8 DEF Edit

LEMMA RefreshTyped ==
    ASSUME TypeOK, NEW p \in Refreshers, Step(p) \/ LoadFails(p)
    PROVE  TypeOK'
<1>1. StoreTyped /\ Counted /\ read[p] \in Reading
    BY TypeOKSplit
<1>2. CASE Adopt(p)
    <2>1. StoreTyped'
        BY <1>1, <1>2 DEF Adopt, StoreTyped, Owners
    <2>2. Goto(p, "idle") \/ Goto(p, "groups")
        BY <1>2 DEF Adopt
    <2>3. UNCHANGED <<snapshot, read>> /\ Counted'
        BY <1>1, <1>2 DEF Adopt, Counted
    <2> QED BY <2>1, <2>2, <2>3, GotoTyped, TypeOKSplit, TypeOKNext DEF Labels
<1>3. ASSUME Loading, NEW new \in Reading, read' = [read EXCEPT ![p] = new],
             NEW label \in Labels, Goto(p, label)
      PROVE  TypeOK'
    <2>1. StoreTyped' /\ Counted' /\ snapshot' = snapshot
        BY <1>1, <1>3 DEF Loading, StoreTyped, Counted
    <2> QED BY <1>3, <2>1, GotoTyped, TypeOKSplit, TypeOKNext
<1>4. CASE LoadGroups(p)
    <2>1. read' = [read EXCEPT ![p] = [read[p] EXCEPT !.owner = owner]]
        BY <1>4 DEF LoadGroups
    <2>2. [read[p] EXCEPT !.owner = owner] \in Reading
        BY <1>1 DEF StoreTyped, Reading
    <2> QED BY <1>3, <1>4, <2>1, <2>2 DEF LoadGroups, Labels
<1>5. CASE LoadRelations(p)
    <2>1. read' = [read EXCEPT ![p] = [read[p] EXCEPT !.held = held]]
        BY <1>5 DEF LoadRelations
    <2>2. [read[p] EXCEPT !.held = held] \in Reading
        BY <1>1 DEF StoreTyped, Reading
    <2> QED BY <1>3, <1>5, <2>1, <2>2 DEF LoadRelations, Labels
<1>6. CASE LoadSources(p)
    <2>1. read' = [read EXCEPT ![p] = [read[p] EXCEPT !.sources = sources]]
        BY <1>6 DEF LoadSources
    <2>2. [read[p] EXCEPT !.sources = sources] \in Reading
        BY <1>1 DEF StoreTyped, Reading
    <2> QED BY <1>3, <1>6, <2>1, <2>2 DEF LoadSources, Labels
<1>7. CASE Store(p)
    <2>1. StoreTyped' /\ Counted'
        BY <1>1, <1>7 DEF Store, StoreTyped, Counted
    <2>2. snapshot' \in SUBSET Found
        BY <1>1, <1>7, ViewFound DEF Store, Reading
    <2>3. read' \in [Refreshers -> Reading]
        BY <1>7, NothingReadTyped, TypeOKSplit DEF Store
    <2>4. pc' \in [Refreshers -> Labels]
        BY <1>7, GotoTyped DEF Store, Labels
    <2> QED BY <2>1, <2>2, <2>3, <2>4, TypeOKSplit, TypeOKNext
<1>8. CASE LoadFails(p)
    <2>1. StoreTyped' /\ snapshot' = snapshot
        BY <1>1, <1>8 DEF LoadFails, StoreTyped
    <2>2. Counted'
        BY <1>1, <1>8, GroupCacheAssumption DEF LoadFails, Counted
    <2>3. read' \in [Refreshers -> Reading]
        BY <1>8, NothingReadTyped, TypeOKSplit DEF LoadFails
    <2>4. pc' \in [Refreshers -> Labels]
        BY <1>8, GotoTyped DEF LoadFails, Labels
    <2> QED BY <2>1, <2>2, <2>3, <2>4, TypeOKSplit, TypeOKNext
<1> QED BY <1>2, <1>4, <1>5, <1>6, <1>7, <1>8 DEF Step

\* SnapshotTyped: a search is answered with groups, relations and sources that
\* can be, however refreshes overtake each other and fail (cache.go:77-148).
THEOREM SnapshotTyped == Spec => []TypeOK
<1>1. Init => TypeOK
    BY GroupCacheAssumption, NothingReadTyped, TypeOKSplit
       DEF Init, StoreTyped, Counted, Labels, Owners
<1>2. TypeOK /\ [Next]_vars => TypeOK'
    <2> SUFFICES ASSUME TypeOK, [Next]_vars
                 PROVE  TypeOK'
        OBVIOUS
    <2>1. CASE \E p \in Callers : Edit(p)
        BY <2>1, EditTyped
    <2>2. CASE \E p \in Refreshers : Step(p) \/ LoadFails(p)
        BY <2>2, RefreshTyped
    <2>3. CASE Tick
        <3>1. StoreTyped' /\ Counted' /\ UNCHANGED <<snapshot, read>>
            BY <2>3, TypeOKSplit DEF Tick, Loading, StoreTyped, Counted
        <3>2. Ticker \in Refreshers /\ Goto(Ticker, "groups")
            BY <2>3 DEF Tick, Refreshers
        <3> QED BY <3>1, <3>2, GotoTyped, TypeOKSplit, TypeOKNext DEF Labels
    <2>4. CASE UNCHANGED vars
        BY <2>4 DEF vars, TypeOK
    <2> QED BY <2>1, <2>2, <2>3, <2>4 DEF Next
<1> QED BY <1>1, <1>2, PTL DEF Spec
=============================================================================
