--------------------------- MODULE KeycloakProofs ---------------------------
(***************************************************************************)
(* What Keycloak guarantees for any number of people, accounts and pages,  *)
(* any page size, and any full reads and lookups at once: everything keeps *)
(* its type, and a full read that Keycloak has not changed under is exact. *)
(*                                                                         *)
(* The argument for the second: such a read has the accounts of the pages  *)
(* it has asked for, and a page that is not full reaches the end of the    *)
(* list (Exact).  What others do between two pages changes neither.        *)
(***************************************************************************)
EXTENDS Keycloak, SequenceTheorems, FiniteSetTheorems, TLAPS

-----------------------------------------------------------------------------
(* The mapping and the list of accounts.                                   *)

LEMMA DeriveTyped ==
    ASSUME NEW e \in Emails, NEW values \in Attributes
    PROVE  Derive(e, values) \in SUBSET Row
<1>1. \A v \in Placed(values) : Joins(v) \subseteq Groups
    BY KeycloakAssumption DEF Placed, Joins
<1> QED BY <1>1 DEF Derive, Row

LEMMA GrantedTyped ==
    ASSUME NEW S \in SUBSET Account
    PROVE  UNION {Granted(acc) : acc \in S} \in SUBSET Row
<1> SUFFICES ASSUME NEW acc \in S
             PROVE  Granted(acc) \in SUBSET Row
    OBVIOUS
<1> QED BY DeriveTyped DEF Granted, Account

LEMMA EnabledTyped ==
    ASSUME NEW S \in SUBSET Account
    PROVE  EnabledIn(S) \in SUBSET Emails
BY DEF EnabledIn, Account

LEMMA AccountsTyped ==
    ASSUME NEW s \in Seq(Account)
    PROVE  /\ DOMAIN s = 1 .. Len(s) /\ Len(s) \in Nat
           /\ \A i \in DOMAIN s : s[i] \in Account
BY LenProperties

LEMMA CreateTyped ==
    ASSUME NEW s \in Seq(Account), NEW i \in 0 .. Len(s), NEW acc \in Account
    PROVE  SubSeq(s, 1, i) \o <<acc>> \o SubSeq(s, i + 1, Len(s)) \in Seq(Account)
<1>1. Len(s) \in Nat /\ \A j \in 1 .. Len(s) : s[j] \in Account
    BY AccountsTyped
<1>2. SubSeq(s, 1, i) \in Seq(Account)
    <2>1. \A j \in 1 .. i : s[j] \in Account
        BY <1>1
    <2> QED BY <2>1, <1>1, SubSeqProperties
<1>3. SubSeq(s, i + 1, Len(s)) \in Seq(Account)
    <2>1. \A j \in (i + 1) .. Len(s) : s[j] \in Account
        BY <1>1
    <2> QED BY <2>1, <1>1, SubSeqProperties
<1>4. <<acc>> \in Seq(Account)
    OBVIOUS
<1>5. SubSeq(s, 1, i) \o <<acc>> \in Seq(Account)
    BY <1>2, <1>4, ConcatProperties
<1> QED BY <1>5, <1>3, ConcatProperties

LEMMA RemoveTyped ==
    ASSUME NEW s \in Seq(Account), NEW i \in DOMAIN s
    PROVE  SubSeq(s, 1, i - 1) \o SubSeq(s, i + 1, Len(s)) \in Seq(Account)
<1>1. /\ Len(s) \in Nat /\ i \in 1 .. Len(s)
      /\ \A j \in 1 .. Len(s) : s[j] \in Account
    BY AccountsTyped
<1>2. SubSeq(s, 1, i - 1) \in Seq(Account)
    <2>1. \A j \in 1 .. (i - 1) : s[j] \in Account
        BY <1>1
    <2> QED BY <2>1, <1>1, SubSeqProperties
<1>3. SubSeq(s, i + 1, Len(s)) \in Seq(Account)
    <2>1. \A j \in (i + 1) .. Len(s) : s[j] \in Account
        BY <1>1
    <2> QED BY <2>1, <1>1, SubSeqProperties
<1> QED BY <1>2, <1>3, ConcatProperties

-----------------------------------------------------------------------------
(* Types.                                                                  *)

\* A lookup that is under way is about somebody.
Busy == \A l \in Lookups : looking[l] # "idle" => who[l] \in Emails

Typed == TypeOK /\ Busy

LEMMA InitTyped == Init => Typed
<1> SUFFICES ASSUME Init
             PROVE  Typed
    OBVIOUS
<1> USE KeycloakAssumption DEF Init
<1>1. realm \in Seq(Account)
    BY EmptySeq
<1>2. TypeOK
    BY <1>1 DEF TypeOK, Never
<1> QED BY <1>2 DEF Typed, Busy

LEMMA AdministerTyped ==
    ASSUME Typed, Administer
    PROVE  Typed'
<1> USE DEF Typed, TypeOK
<1>1. Edit
    BY DEF Administer, Create, Change, Remove
<1>2. realm' \in Seq(Account)
    <2>1. CASE \E acc \in Account, i \in 0 .. Len(realm) : Create(i, acc)
        BY <2>1, CreateTyped DEF Create
    <2>2. CASE \E acc \in Account, i \in DOMAIN realm : Change(i, acc)
        BY <2>2, AccountsTyped, ExceptSeq DEF Change
    <2>3. CASE \E i \in DOMAIN realm : Remove(i)
        BY <2>3, RemoveTyped DEF Remove
    <2> QED BY <2>1, <2>2, <2>3 DEF Administer
<1>3. edits' \in 0 .. MaxEdits
    BY <1>1, KeycloakAssumption DEF Edit
<1>4. edited' \in SUBSET Reads
    BY <1>1 DEF Edit
<1>5. UNCHANGED <<rows, known, tried, readVars, lookupVars, clock, failures>>
    BY <1>1 DEF Edit
<1>6. TypeOK'
    BY <1>2, <1>3, <1>4, <1>5 DEF readVars, lookupVars
<1> QED BY <1>5, <1>6 DEF Busy, readVars, lookupVars

LEMMA ReadTyped ==
    ASSUME Typed, NEW r \in Reads, Read(r) \/ ReadFails(r)
    PROVE  Typed'
<1> USE DEF Typed, TypeOK, readVars, lookupVars
<1>1. CASE Begin(r)
    BY <1>1 DEF Begin, Busy
<1>2. CASE Page(r)
    <2>1. \A i \in Listed(r) : realm[i] \in Account
        BY AccountsTyped DEF Listed
    <2>2. got' \in [Reads -> SUBSET Account]
        BY <1>2, <2>1 DEF Page
    <2>3. first' \in [Reads -> Nat]
        <3>1. first' = first \/ first' = [first EXCEPT ![r] = @ + PageSize]
            BY <1>2 DEF Page
        <3>2. first[r] + PageSize \in Nat
            BY KeycloakAssumption
        <3> QED BY <3>1, <3>2
    <2>4. reading' \in [Reads -> {"idle", "page", "known", "load", "write"}]
        BY <1>2 DEF Page
    <2> QED BY <1>2, <2>2, <2>3, <2>4 DEF Page, Busy
<1>3. CASE Know(r)
    <2>1. known' \in SUBSET Emails
        BY <1>3, EnabledTyped DEF Know
    <2> QED BY <1>3, <2>1 DEF Know, Busy
<1>4. CASE Load(r)
    BY <1>4 DEF Load, Busy
<1>5. CASE Write(r)
    <2>1. rows' \in SUBSET Row
        BY <1>5, GrantedTyped DEF Write
    <2> QED BY <1>5, <2>1 DEF Write, End, Busy
<1>6. CASE ReadFails(r)
    <2>1. failures' \in 0 .. MaxFailures
        BY <1>6, KeycloakAssumption DEF ReadFails
    <2> QED BY <1>6, <2>1 DEF ReadFails, End, Busy
<1> QED BY <1>1, <1>2, <1>3, <1>4, <1>5, <1>6 DEF Read

LEMMA LookupTyped ==
    ASSUME Typed, NEW l \in Lookups,
           LookUp(l) \/ LookupFails(l) \/ \E e \in Emails : Ask(l, e)
    PROVE  Typed'
<1> USE DEF Typed, TypeOK, readVars, lookupVars
<1>1. CASE \E e \in Emails : Ask(l, e)
    BY <1>1 DEF Ask, Busy
<1>2. CASE Find(l)
    <2>1. \A acc \in Accounts : acc \in Account
        BY AccountsTyped DEF Accounts
    <2>2. \A acc \in Accounts : Derive(acc.email, acc.values) \in SUBSET Row
        BY <2>1, DeriveTyped DEF Account
    <2>3. todo' \in [Lookups -> SUBSET Row]
        <3>1. \/ todo' = [todo EXCEPT ![l] = {}]
              \/ \E acc \in Accounts :
                    todo' = [todo EXCEPT ![l] = Derive(acc.email, acc.values)]
            BY <1>2 DEF Find, FindAmong, Return
        <3> QED BY <2>2, <3>1
    <2> QED BY <1>2, <2>3 DEF Find, FindAmong, Return, Busy
<1>3. CASE Add(l)
    BY <1>3 DEF Add, Busy
<1>4. CASE Learn(l)
    BY <1>4 DEF Learn, Return, Busy
<1>5. CASE LookupFails(l)
    <2>1. failures' \in 0 .. MaxFailures
        BY <1>5, KeycloakAssumption DEF LookupFails
    <2> QED BY <1>5, <2>1 DEF LookupFails, Return, Busy
<1> QED BY <1>1, <1>2, <1>3, <1>4, <1>5 DEF LookUp

LEMMA NextTyped ==
    ASSUME Typed, [Next]_vars
    PROVE  Typed'
<1>1. CASE Administer
    BY <1>1, AdministerTyped
<1>2. CASE \E r \in Reads : Read(r) \/ ReadFails(r)
    BY <1>2, ReadTyped
<1>3. CASE \E l \in Lookups :
              LookUp(l) \/ LookupFails(l) \/ \E e \in Emails : Ask(l, e)
    BY <1>3, LookupTyped
<1>4. CASE Tick
    BY <1>4, KeycloakAssumption
       DEF Tick, Typed, TypeOK, Busy, readVars, lookupVars
<1>5. CASE UNCHANGED vars
    BY <1>5 DEF vars, Typed, TypeOK, Busy, readVars, lookupVars
<1> QED BY <1>1, <1>2, <1>3, <1>4, <1>5 DEF Next

\* TypeCorrect: the entries, what is known, and what reads and lookups carry
\* along keep their types, whatever the list of accounts becomes
\* (source.go, client.go).
THEOREM TypeCorrect == Spec => []TypeOK
<1>1. Init => Typed
    BY InitTyped
<1>2. Typed /\ [Next]_vars => Typed'
    BY NextTyped
<1>3. Typed => TypeOK
    BY DEF Typed
<1> QED BY <1>1, <1>2, <1>3, PTL DEF Spec

-----------------------------------------------------------------------------
(* Exactness.                                                              *)

FirstAccounts(n) == {realm[i] : i \in {j \in DOMAIN realm : j <= n}}

\* A read that is over has left nothing behind; one that Keycloak has not
\* changed under has the accounts it has asked for, and in the end all.
Exact(r) ==
    /\ reading[r] = "idle" => got[r] = {} /\ first[r] = 0
    /\ r \notin edited =>
          /\ reading[r] = "page" => got[r] = FirstAccounts(first[r])
          /\ reading[r] \in {"known", "load", "write"} => got[r] = Accounts

Inv == Typed /\ \A r \in Reads : Exact(r)

\* A page that is not full reaches the end of the list.
LEMMA ShortPageIsLast ==
    ASSUME Typed, NEW r \in Reads, Last(r)
    PROVE  Len(realm) <= first[r] + PageSize
<1> DEFINE f == first[r]
           n == Len(realm)
<1>1. f \in Nat /\ n \in Nat /\ PageSize \in Nat \ {0} /\ DOMAIN realm = 1 .. n
    BY AccountsTyped, KeycloakAssumption DEF Typed, TypeOK
<1> SUFFICES ASSUME n > f + PageSize
             PROVE  FALSE
    BY <1>1
<1>2. Listed(r) = (f + 1) .. (f + PageSize)
    BY <1>1 DEF Listed
<1>3. Cardinality((f + 1) .. (f + PageSize)) = PageSize
    <2> DEFINE a == f + 1
               b == f + PageSize
    <2>1. a \in Int /\ b \in Int /\ ~(a > b) /\ b - a + 1 = PageSize
        BY <1>1
    <2> HIDE DEF a, b
    <2>2. Cardinality(a .. b) = b - a + 1
        BY <2>1, FS_Interval
    <2> QED BY <2>1, <2>2 DEF a, b
<1> QED BY <1>1, <1>2, <1>3 DEF Last

LEMMA PageGrows ==
    ASSUME Typed, NEW r \in Reads
    PROVE  FirstAccounts(first[r]) \cup {realm[i] : i \in Listed(r)}
               = FirstAccounts(first[r] + PageSize)
<1>1. first[r] \in Nat /\ PageSize \in Nat /\ DOMAIN realm \subseteq Int
    BY AccountsTyped, KeycloakAssumption DEF Typed, TypeOK
<1> QED BY <1>1 DEF FirstAccounts, Listed

LEMMA AllAreFirst ==
    ASSUME Typed, NEW n \in Nat, Len(realm) <= n
    PROVE  FirstAccounts(n) = Accounts
<1>1. DOMAIN realm = 1 .. Len(realm) /\ Len(realm) \in Nat
    BY AccountsTyped DEF Typed, TypeOK
<1>2. {j \in DOMAIN realm : j <= n} = DOMAIN realm
    BY <1>1
<1> QED BY <1>2 DEF FirstAccounts, Accounts

\* What leaves the reads, the list of accounts and their changes alone keeps
\* every read exact.
LEMMA OthersKeepExact ==
    ASSUME NEW r \in Reads, Exact(r),
           realm' = realm, reading'[r] = reading[r], got'[r] = got[r],
           first'[r] = first[r], r \in edited' <=> r \in edited
    PROVE  Exact(r)'
BY DEF Exact, FirstAccounts, Accounts

LEMMA StepKeepsExact ==
    ASSUME Inv, NEW s \in Reads, Read(s) \/ ReadFails(s), NEW r \in Reads
    PROVE  Exact(r)'
<1> USE DEF Inv
<1>1. Typed /\ Exact(r)
    OBVIOUS
<1>2. realm' = realm
    BY DEF Read, Begin, Page, Know, Load, Write, ReadFails
<1>3. CASE r # s
    <2>1. reading'[r] = reading[r] /\ got'[r] = got[r] /\ first'[r] = first[r]
        BY <1>3 DEF Typed, TypeOK, Read, Begin, Page, Know, Load, Write,
                    ReadFails, End
    <2>2. r \in edited' <=> r \in edited
        BY <1>3 DEF Read, Begin, Page, Know, Load, Write, ReadFails, End
    <2> QED BY <1>1, <1>2, <2>1, <2>2, OthersKeepExact
<1>4. CASE r = s
    <2>1. CASE Begin(r)
        <3>1. reading'[r] = "page" /\ got'[r] = {} /\ first'[r] = 0
            BY <1>1, <2>1 DEF Begin, Exact, Typed, TypeOK
        <3>2. FirstAccounts(0) = {}
            BY <1>1, AccountsTyped DEF FirstAccounts, Typed, TypeOK
        <3> QED BY <1>2, <3>1, <3>2 DEF Exact, FirstAccounts
    <2>2. CASE Page(r)
        <3>1. reading[r] = "page" /\ edited' = edited
            BY <2>2 DEF Page
        <3>2. got'[r] = got[r] \cup {realm[i] : i \in Listed(r)}
            BY <2>2 DEF Page, Typed, TypeOK
        <3>3. r \notin edited => got'[r] = FirstAccounts(first[r] + PageSize)
            BY <1>1, <3>1, <3>2, PageGrows DEF Exact
        <3>4. CASE Last(r)
            <4>1. reading'[r] = "known"
                BY <2>2, <3>4 DEF Page, Typed, TypeOK
            <4>2. first[r] + PageSize \in Nat
                BY <1>1, KeycloakAssumption DEF Typed, TypeOK
            <4>3. FirstAccounts(first[r] + PageSize) = Accounts
                BY <1>1, <3>4, <4>2, ShortPageIsLast, AllAreFirst
            <4> QED BY <1>2, <3>1, <3>3, <4>1, <4>3 DEF Exact, Accounts
        <3>5. CASE ~Last(r)
            <4>1. reading'[r] = "page" /\ first'[r] = first[r] + PageSize
                BY <2>2, <3>1, <3>5 DEF Page, Typed, TypeOK
            <4> QED BY <1>2, <3>1, <3>3, <4>1 DEF Exact, FirstAccounts
        <3> QED BY <3>4, <3>5
    <2>3. CASE Know(r) \/ Load(r)
        <3>1. /\ reading[r] \in {"known", "load"}
              /\ reading'[r] \in {"load", "write"}
              /\ got'[r] = got[r] /\ edited' = edited
            BY <2>3 DEF Know, Load, Typed, TypeOK
        <3> QED BY <1>1, <1>2, <3>1 DEF Exact, Accounts
    <2>4. CASE Write(r) \/ ReadFails(r)
        <3>1. reading'[r] = "idle" /\ got'[r] = {} /\ first'[r] = 0
            BY <2>4 DEF Write, ReadFails, End, Typed, TypeOK
        <3> QED BY <3>1 DEF Exact
    <2> QED BY <1>4, <2>1, <2>2, <2>3, <2>4 DEF Read
<1> QED BY <1>3, <1>4

LEMMA InitInv == Init => Inv
BY InitTyped DEF Init, Inv, Exact

LEMMA NextInv ==
    ASSUME Inv, [Next]_vars
    PROVE  Inv'
<1>1. Typed'
    BY NextTyped DEF Inv
<1>2. ASSUME NEW r \in Reads
      PROVE  Exact(r)'
    <2>1. CASE Administer
        <3>1. Edit
            BY <2>1 DEF Administer, Create, Change, Remove
        <3>2. reading' = reading /\ got' = got /\ first' = first
            BY <3>1 DEF Edit, readVars
        <3>3. r \notin edited' => reading'[r] = "idle"
            BY <3>1, <3>2 DEF Edit
        <3>4. Exact(r)
            BY DEF Inv
        <3> QED BY <3>2, <3>3, <3>4 DEF Exact
    <2>2. CASE \E s \in Reads : Read(s) \/ ReadFails(s)
        BY <2>2, StepKeepsExact
    <2>3. CASE \/ Tick \/ UNCHANGED vars
               \/ \E l \in Lookups :
                     LookUp(l) \/ LookupFails(l) \/ \E e \in Emails : Ask(l, e)
        <3>1. UNCHANGED <<realm, readVars, edited>>
            BY <2>3 DEF Tick, vars, LookUp, Find, FindAmong, Add, Learn,
                        LookupFails, Ask
        <3> QED BY <3>1, OthersKeepExact DEF Inv, readVars
    <2> QED BY <2>1, <2>2, <2>3 DEF Next
<1> QED BY <1>1, <1>2 DEF Inv

\* ReadExactAlways: a full read under which Keycloak has not changed leaves
\* exactly what the mapping derives from the accounts there are, for every
\* number of accounts and every size of a page (client.go:63-77,
\* postgres.go:833-956).
THEOREM ReadExactAlways == Spec => ReadExact
<1> DEFINE A == \A r \in Reads \ edited :
                    Write(r) /\ existing[r] = rows => rows' = Due
<1>1. Inv => A
    <2> SUFFICES ASSUME Inv, NEW r \in Reads \ edited,
                        Write(r), existing[r] = rows
                 PROVE  rows' = Due
        OBVIOUS
    <2> DEFINE new == UNION {Granted(acc) : acc \in got[r]}
    <2>1. got[r] = Accounts
        BY DEF Inv, Exact, Write
    <2>2. new = Due
        BY <2>1 DEF Due
    <2>3. rows' = (rows \ (rows \ new)) \cup (new \ rows)
        BY DEF Write
    <2> QED BY <2>2, <2>3
<1>2. Init => Inv
    BY InitInv
<1>3. Inv /\ [Next]_vars => Inv'
    BY NextInv
<1> QED BY <1>1, <1>2, <1>3, PTL DEF Spec, ReadExact
=============================================================================
