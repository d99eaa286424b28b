----------------------------- MODULE GroupQuery -----------------------------
(***************************************************************************)
(* The group search box: a person types words, and after every word        *)
(* Search answers from the snapshot.  parseQuery reads the words from left *)
(* to right into clauses that must all match, each a list of alternatives. *)
(*                                                                         *)
(* A word is one of those that stand for "and" and "or", a term that is    *)
(* dropped because nothing is left of it ("*", "group:"), or a term;       *)
(* Finds says which entries of the catalog it matches: spelling, folding,  *)
(* phrases and wildcards are abstracted.                                   *)
(***************************************************************************)
EXTENDS Integers, FiniteSets, SequencesExt

CONSTANTS
    Listing,    \* what can be found: groups, and a relation in a group
    Plain,      \* the groups among them
    AndWords,
    OrWords,
    EmptyTerms, \* words of which no term is left
    Terms,      \* all other words
    Finds,      \* the entries each term matches
    MaxWords    \* bound on the length of a query

ASSUME GroupQueryAssumption ==
    /\ OrWords \cap (AndWords \cup EmptyTerms) = {}
    /\ Terms \cap (AndWords \cup OrWords \cup EmptyTerms) = {}
    /\ Plain \subseteq Listing
    /\ Finds \in [Terms -> SUBSET Listing]
    /\ MaxWords \in Nat

Words == AndWords \cup OrWords \cup EmptyTerms \cup Terms

VARIABLES
    typed,    \* the words in the box
    clauses,  \* what parseQuery has made of them
    or        \* the next term is an alternative to the last

queryVars == <<typed, clauses, or>>

QueryInit == typed = <<>> /\ clauses = <<>> /\ or = FALSE

-----------------------------------------------------------------------------

Alternative(q, w) == [q EXCEPT ![Len(q)] = Append(@, w)]

\* Faulty on purpose, like every definition named for what it gets wrong: a
\* property must notice when it stands in for the definition after it.
ReadForgetful(w) ==
    /\ or' = (w \in OrWords /\ clauses # <<>>)
    /\ clauses' = IF w \notin Terms THEN clauses
                  ELSE IF or THEN Alternative(clauses, w)
                  ELSE Append(clauses, <<w>>)

\* One more word for the parser.
ReadWord(w) ==
    CASE w \in OrWords -> or' = (clauses # <<>>) /\ UNCHANGED clauses
      [] w \in AndWords \cup EmptyTerms -> UNCHANGED <<clauses, or>>
      [] w \in Terms ->
             /\ clauses' = IF or THEN Alternative(clauses, w)
                           ELSE Append(clauses, <<w>>)
             /\ or' = FALSE

TypeWord(w) ==
    /\ Len(typed) < MaxWords
    /\ typed' = Append(typed, w)
    /\ ReadWord(w)

QueryNext == \E w \in Words : TypeWord(w)

QuerySpec == QueryInit /\ [][QueryNext]_queryVars

\* What a clause counts for an entry: the terms of it that match.
Matched(clause, e) == Cardinality({i \in DOMAIN clause : e \in Finds[clause[i]]})

\* The groups alone for an empty query, else what answers every clause.
Hits(q) ==
    IF q = <<>> THEN Plain
    ELSE {e \in Listing : \A i \in DOMAIN q : Matched(q[i], e) > 0}

-----------------------------------------------------------------------------
(* Properties.                                                             *)

TermsAt == {i \in DOMAIN typed : typed[i] \in Terms}

\* The term at i is an alternative: an "or" stands between it and the term
\* before it.
IsAlternative(i) ==
    \E j \in TermsAt, k \in DOMAIN typed :
        /\ j < k /\ k < i /\ typed[k] \in OrWords
        /\ \A x \in TermsAt : x <= j \/ i <= x

\* The term at j belongs to the alternatives that begin with the term at i.
SameClause(i, j) ==
    i <= j /\ \A x \in TermsAt : i < x /\ x <= j => IsAlternative(x)

\* QueryMeans: what is found is what the typed words say, wherever the person
\* stopped typing: every word is required except the alternatives an "or"
\* joins, and a dropped word between "or" and its term, an "or" at either end
\* and a doubled one change nothing (query.go:7-19, 56-83).  README.md:42 says
\* otherwise of words with nothing between them: see WordsAreAlternatives.
QueryMeans ==
    Hits(clauses) =
        IF TermsAt = {} THEN Plain
        ELSE {e \in Listing :
                 \A i \in TermsAt : ~IsAlternative(i) =>
                     \E j \in TermsAt : SameClause(i, j) /\ e \in Finds[typed[j]]}

-----------------------------------------------------------------------------
(* What the documentation promises and the code does not keep.             *)

\* WordsAreAlternatives: terms with nothing between them are alternatives:
\* what one of them finds is found ("words are alternatives ... UND, AND, & or
\* + make terms required", README.md:42).  parseQuery begins a clause of its
\* own with each of them (query.go:74-80).
WordsAreAlternatives ==
    (\A i \in DOMAIN typed : typed[i] \in Terms) =>
        \A i \in DOMAIN typed : Finds[typed[i]] \subseteq Hits(clauses)
=============================================================================
