------------------------------ MODULE Keycloak ------------------------------
(***************************************************************************)
(* The Keycloak source (internal/keycloak): what the attribute of an       *)
(* account grants, the full read that replaces the source's entries, and   *)
(* the lookup of a single person at a token request, which adds that       *)
(* person's.  Keycloak itself is a list of accounts that changes while it  *)
(* is read page by page.                                                   *)
(*                                                                         *)
(* Abstracted: how ids are spelled and checked (an account without a plain *)
(* address is one that is not enabled), notes on what no rule places,      *)
(* descriptions of groups, the access token, entries of other sources.     *)
(* The source's id is set before anything can look somebody up             *)
(* (app.go:235-238).                                                       *)
(***************************************************************************)
EXTENDS Integers, FiniteSets, Sequences

CONSTANTS
    Emails,
    Nobody,       \* whom a lookup that is not under way is about
    Values,       \* the value part of attribute values
    Scopes,       \* the scope part
    Groups,
    Relations,    \* the configured relations and "member"
    Locations,    \* scope |-> the location's group, for the mapped scopes
    Roles,        \* value |-> relation, for the mapped values
    AllGroup,     \* the set of the group of all locations, {} for none
    Attributes,   \* sets of attribute values that accounts may have
    Reads,        \* full reads that may be under way: scheduled, triggered
    Lookups,      \* token requests that may be under way
    PageSize,
    RetryAfter,
    MaxTime,      \* bound on the clock
    MaxEdits,     \* bound on the changes made in Keycloak
    MaxFailures   \* bound on calls that fail, of Keycloak or the store

AttributeValue == [value : Values, scope : Scopes]

ASSUME KeycloakAssumption ==
    /\ Nobody \notin Emails
    /\ "member" \in Relations
    /\ DOMAIN Locations \subseteq Scopes /\ DOMAIN Roles \subseteq Values
    /\ \A s \in DOMAIN Locations : Locations[s] \in Groups
    /\ \A v \in DOMAIN Roles : Roles[v] \in Relations
    /\ AllGroup \subseteq Groups
    /\ Attributes \subseteq SUBSET AttributeValue
    /\ PageSize \in Nat \ {0} /\ RetryAfter \in Nat \ {0}
    /\ MaxTime \in Nat /\ MaxEdits \in Nat /\ MaxFailures \in Nat

Row == [group : Groups, relation : Relations, member : Emails]

Account == [email : Emails, enabled : BOOLEAN, values : Attributes]

-----------------------------------------------------------------------------
(* What the mapping derives.                                               *)

\* A value whose scope no location names places nobody anywhere.
Placed(values) == {v \in values : v.scope \in DOMAIN Locations}

Joins(v) == {Locations[v.scope]} \cup AllGroup

RolesIn(g, values) ==
    {Roles[v.value] : v \in {w \in Placed(values) :
                                g \in Joins(w) /\ w.value \in DOMAIN Roles}}

\* In each group the roles held there, or plain membership if there are none.
Derive(email, values) ==
    {row \in [group : UNION {Joins(v) : v \in Placed(values)},
              relation : Relations, member : {email}] :
        LET roles == RolesIn(row.group, values)
        IN  IF roles = {} THEN row.relation = "member" ELSE row.relation \in roles}

Granted(account) ==
    IF account.enabled THEN Derive(account.email, account.values) ELSE {}

EnabledIn(accounts) == {acc.email : acc \in {x \in accounts : x.enabled}}

-----------------------------------------------------------------------------

VARIABLES
    realm,     \* the accounts, in the order Keycloak lists them
    rows,      \* the entries of the source
    known,     \* whom the last full read or a lookup found
    tried,     \* when each address was looked up last
    reading,   \* where each full read is
    first,     \* how many accounts it has asked for
    got,       \* the accounts it has read
    existing,  \* the entries of the source it has found in the store
    looking,   \* where each lookup is
    who,       \* whom it is about
    todo,      \* the entries it has yet to add
    clock,
    edits,
    failures,
    edited     \* the full reads Keycloak has changed under

readVars == <<reading, first, got, existing>>
lookupVars == <<looking, who, todo>>
vars == <<realm, rows, known, tried, readVars, lookupVars, clock, edits,
          failures, edited>>

\* The zero time: long ago.
Never == 0 - RetryAfter

TypeOK ==
    /\ realm \in Seq(Account)
    /\ rows \in SUBSET Row
    /\ known \in SUBSET Emails
    /\ tried \in [Emails -> {Never} \cup 0 .. MaxTime]
    /\ reading \in [Reads -> {"idle", "page", "known", "load", "write"}]
    /\ first \in [Reads -> Nat]
    /\ got \in [Reads -> SUBSET Account]
    /\ existing \in [Reads -> SUBSET Row]
    /\ looking \in [Lookups -> {"idle", "find", "add"}]
    /\ who \in [Lookups -> Emails \cup {Nobody}]
    /\ todo \in [Lookups -> SUBSET Row]
    /\ clock \in 0 .. MaxTime
    /\ edits \in 0 .. MaxEdits
    /\ failures \in 0 .. MaxFailures
    /\ edited \in SUBSET Reads

Accounts == {realm[i] : i \in DOMAIN realm}

Due == UNION {Granted(acc) : acc \in Accounts}

Init ==
    /\ realm = <<>>
    /\ rows = {}
    /\ known = {}
    /\ tried = [e \in Emails |-> Never]
    /\ reading = [r \in Reads |-> "idle"]
    /\ first = [r \in Reads |-> 0]
    /\ got = [r \in Reads |-> {}]
    /\ existing = [r \in Reads |-> {}]
    /\ looking = [l \in Lookups |-> "idle"]
    /\ who = [l \in Lookups |-> Nobody]
    /\ todo = [l \in Lookups |-> {}]
    /\ clock = 0
    /\ edits = 0
    /\ failures = 0
    /\ edited = {}

-----------------------------------------------------------------------------
(* Keycloak: accounts come, change and go.                                 *)

Edit ==
    /\ edits < MaxEdits
    /\ edits' = edits + 1
    /\ edited' = {r \in Reads : reading[r] # "idle"}
    /\ UNCHANGED <<rows, known, tried, readVars, lookupVars, clock, failures>>

Create(i, acc) ==
    /\ Edit
    /\ \A j \in DOMAIN realm : realm[j].email # acc.email
    /\ realm' = SubSeq(realm, 1, i) \o <<acc>> \o SubSeq(realm, i + 1, Len(realm))

Change(i, acc) ==
    /\ Edit
    /\ realm[i].email = acc.email
    /\ realm' = [realm EXCEPT ![i] = acc]

Remove(i) ==
    /\ Edit
    /\ realm' = SubSeq(realm, 1, i - 1) \o SubSeq(realm, i + 1, Len(realm))

-----------------------------------------------------------------------------
(* A full read: RunSync of the Keycloak source.                            *)

Begin(r) ==
    /\ reading[r] = "idle"
    /\ reading' = [reading EXCEPT ![r] = "page"]
    /\ UNCHANGED <<realm, rows, known, tried, first, got, existing, lookupVars, clock, edits, failures, edited>>

Listed(r) == {i \in DOMAIN realm : first[r] < i /\ i <= first[r] + PageSize}

\* Faulty on purpose, like every definition named for what it gets wrong:
\* a property must notice when it stands in for the definition after it.
LastUnlessOverfull(r) == Cardinality(Listed(r)) <= PageSize

\* A short page is the last.
Last(r) == Cardinality(Listed(r)) < PageSize

Page(r) ==
    /\ reading[r] = "page"
    /\ got' = [got EXCEPT ![r] = @ \cup {realm[i] : i \in Listed(r)}]
    /\ \/ /\ Last(r)
          /\ reading' = [reading EXCEPT ![r] = "known"]
          /\ UNCHANGED first
       \/ /\ ~Last(r)
          /\ first' = [first EXCEPT ![r] = @ + PageSize]
          /\ UNCHANGED reading
    /\ UNCHANGED <<realm, rows, known, tried, existing, lookupVars, clock, edits, failures, edited>>

\* Fetch is done: everybody listed is known, and nobody has been tried.
Know(r) ==
    /\ reading[r] = "known"
    /\ known' = EnabledIn(got[r])
    /\ tried' = [e \in Emails |-> Never]
    /\ reading' = [reading EXCEPT ![r] = "load"]
    /\ UNCHANGED <<realm, rows, first, got, existing, lookupVars, clock, edits, failures, edited>>

\* A run that is over leaves nothing behind in its goroutine.
End(r) ==
    /\ reading' = [reading EXCEPT ![r] = "idle"]
    /\ first' = [first EXCEPT ![r] = 0]
    /\ got' = [got EXCEPT ![r] = {}]
    /\ existing' = [existing EXCEPT ![r] = {}]
    /\ edited' = edited \ {r}

\* ReplaceTuples, its first statement: what the source has.
Load(r) ==
    /\ reading[r] = "load"
    /\ existing' = [existing EXCEPT ![r] = rows]
    /\ reading' = [reading EXCEPT ![r] = "write"]
    /\ UNCHANGED <<realm, rows, known, tried, first, got, lookupVars, clock, edits, failures, edited>>

\* The rest of it: what it found and does not want goes, what it wants and
\* did not find comes.
Write(r) ==
    /\ reading[r] = "write"
    /\ LET new == UNION {Granted(acc) : acc \in got[r]}
       IN  rows' = (rows \ (existing[r] \ new)) \cup (new \ existing[r])
    /\ End(r)
    /\ UNCHANGED <<realm, known, tried, lookupVars, clock, edits, failures>>

\* A page that cannot be read, a check that refuses, a store that fails: the
\* run ends and leaves what is stored.
ReadFails(r) ==
    /\ reading[r] \in {"page", "load", "write"}
    /\ failures < MaxFailures
    /\ failures' = failures + 1
    /\ End(r)
    /\ UNCHANGED <<realm, rows, known, tried, lookupVars, clock, edits>>

-----------------------------------------------------------------------------
(* A lookup: EnsureUser, before a token request is answered.               *)

\* Who is known or was tried a while ago is not looked up.
Ask(l, e) ==
    /\ looking[l] = "idle"
    /\ e \notin known
    /\ clock - tried[e] >= RetryAfter
    /\ tried' = [tried EXCEPT ![e] = clock]
    /\ looking' = [looking EXCEPT ![l] = "find"]
    /\ who' = [who EXCEPT ![l] = e]
    /\ UNCHANGED <<realm, rows, known, readVars, todo, clock, edits, failures, edited>>

Return(l) ==
    /\ looking' = [looking EXCEPT ![l] = "idle"]
    /\ who' = [who EXCEPT ![l] = Nobody]
    /\ todo' = [todo EXCEPT ![l] = {}]

FindAmong(l, found) ==
    /\ looking[l] = "find"
    /\ \/ /\ found = {}
          /\ Return(l)
       \/ \E acc \in found :
             /\ looking' = [looking EXCEPT ![l] = "add"]
             /\ todo' = [todo EXCEPT ![l] = Derive(acc.email, acc.values)]
             /\ UNCHANGED who
    /\ UNCHANGED <<realm, rows, known, tried, readVars, clock, edits, failures, edited>>

FindDisabledToo(l) == FindAmong(l, {acc \in Accounts : acc.email = who[l]})

\* FindUserByEmail.
Find(l) == FindAmong(l, {acc \in Accounts : acc.email = who[l] /\ acc.enabled})

\* AddMember, one entry after the other.
Add(l) ==
    /\ looking[l] = "add"
    /\ \E row \in todo[l] :
          /\ rows' = rows \cup {row}
          /\ todo' = [todo EXCEPT ![l] = @ \ {row}]
    /\ UNCHANGED <<realm, known, tried, readVars, looking, who, clock, edits, failures, edited>>

LearnWhoIsNext(l) ==
    /\ looking[l] = "add"
    /\ todo[l] = {}
    /\ Return(l)
    /\ known' = known \cup {who'[l]}
    /\ UNCHANGED <<realm, rows, tried, readVars, clock, edits, failures, edited>>

\* All are added: the address is known.
Learn(l) ==
    /\ looking[l] = "add"
    /\ todo[l] = {}
    /\ known' = known \cup {who[l]}
    /\ Return(l)
    /\ UNCHANGED <<realm, rows, tried, readVars, clock, edits, failures, edited>>

\* The request times out (three seconds for all of it), or the store fails.
LookupFails(l) ==
    /\ looking[l] \in {"find", "add"}
    /\ failures < MaxFailures
    /\ failures' = failures + 1
    /\ Return(l)
    /\ UNCHANGED <<realm, rows, known, tried, readVars, clock, edits, edited>>

Tick ==
    /\ clock < MaxTime
    /\ clock' = clock + 1
    /\ UNCHANGED <<realm, rows, known, tried, readVars, lookupVars, edits, failures, edited>>

-----------------------------------------------------------------------------

Administer ==
    \/ \E acc \in Account :
          \/ \E i \in 0 .. Len(realm) : Create(i, acc)
          \/ \E i \in DOMAIN realm : Change(i, acc)
    \/ \E i \in DOMAIN realm : Remove(i)

Read(r) == Begin(r) \/ Page(r) \/ Know(r) \/ Load(r) \/ Write(r)

LookUp(l) == Find(l) \/ Add(l) \/ Learn(l)

Next ==
    \/ Administer
    \/ \E r \in Reads : Read(r) \/ ReadFails(r)
    \/ \E l \in Lookups :
          LookUp(l) \/ LookupFails(l) \/ \E e \in Emails : Ask(l, e)
    \/ Tick

Spec == Init /\ [][Next]_vars

\* The schedule goes on starting full reads, and what has begun goes on.
\* Nobody has to ask for tokens.
FairSpec ==
    /\ Spec
    /\ \A r \in Reads : WF_vars(Read(r))
    /\ \A l \in Lookups : WF_vars(LookUp(l))

-----------------------------------------------------------------------------

\* ReadExact: a full read under which Keycloak has not changed, and that
\* nobody interferes with between its two statements, leaves exactly what the
\* mapping derives, across all pages and whatever lookups, other reads and
\* failures there were ("a source is always exactly its latest file",
\* README.md:38, for a source whose file is Keycloak).
ReadExact ==
    [][\A r \in Reads \ edited :
          Write(r) /\ existing[r] = rows => rows' = Due]_vars

\* EventuallyExact: when Keycloak no longer changes, the entries come to be
\* what it says and stay so: neither a lookup that read an account before it
\* changed, nor a page that shifted while it was read, nor a full read that
\* was overtaken by another leaves anything behind (source.go:66-67,114-115).
EventuallyExact == <>[](rows = Due)

\* KnownHold: between full reads, who is known holds what the account gives
\* ("without it a new person would hold none until the next scheduled run",
\* source.go:30-31).  Asked of instances where accounts are only created.
KnownHold ==
    (\A r \in Reads : reading[r] = "idle") =>
        \A acc \in Accounts : acc.email \in known => Granted(acc) \subseteq rows
=============================================================================
