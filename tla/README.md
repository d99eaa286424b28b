# Role provider: verification

TLA+ models of the role provider service, checked with TLC, and theorems about
them, checked with TLAPS. File names and line numbers below are those of the
repository, relative to `src/` (`service.go` is `internal/groupmgmt/service.go`,
`engine.go` is `internal/sync/engine.go`, `postgres.go` and `memory.go` are in
`internal/storage/`, `api_sync.go` and `person_auth.go` in
`internal/webserver/`, `cache.go` in `internal/catalog/`, `app.go` in
`internal/`).

How to run it:

    tlc -workers 2 -config MCServiceSequential.cfg MCServiceSequential.tla
    tlapm RoleProviderProofs.tla

## The system

The service answers one question, "which tokens does this person carry", and
keeps what the answer is computed from: groups, the entries that say who holds
which relation in which group, and who maintains a group. Entries come from
sync sources (a CSV or LDIF file, Keycloak), each of which replaces its own
entries as a whole, and from people and services through the API, all of which
belong to one *local* source. The chart's `replicas` value (default 1) lets
several replicas run on one database.

### Components

| Component | State it keeps | Operations | What makes it correct |
|---|---|---|---|
| Entries (`types.go`, `postgres.go` 72-97) | rows (object, relation, subject, source, expiry), one per entry | - | an entry has one row; an expired one means nothing |
| Token resolution (`memory.go` 366-413, `postgres.go` 573-671) | none | `GetUserTokens` | exactly the least set closed under the live entries, also when entries expire meanwhile; ends on cyclic groups |
| Member resolution (`memory.go` 324-356, `postgres.go` 532-563) | none | `GetAllMembers`, `GetDirectMembers` | lists who is in the group and nobody else; says the same as token resolution |
| Store (`postgres.go`, `memory.go`) | groups, tuples, group_managers, sources, sync log, history | one transaction per operation | no rows of groups that are gone; a change of relation loses nobody; a sync touches its own rows |
| Group management (`service.go`) | none; the store's | create, delete, update a group; add, remove members, change a relation; managers; adopt | groups of sources are read-only here; no cycles; reserved names; complete history |
| Sync engine (`engine.go`) | sync log, status of the source | `RunSync`, `CheckOwnership`, `CheckReservation` | one writer per group; a source is exactly its file; nothing of others is touched |
| Scheduler (`scheduler.go`) | cron's entries, the job of each source | `Start`, `Register`, `Unregister` | one job, on its schedule, for each source that has one |
| Source administration (`api_sync.go`) | source rows, reservations | create, update, delete, upload, trigger | no reserved name is another's; groups of a deleted source pass to the local one |
| Identity (`person_auth.go`, `authentication.go`) | none | resolve the caller and their tokens | rights follow from tokens |
| Group search cache (`cache.go`, `app.go` 59-85) | a snapshot of all groups | `Refresh`, ticker, `Search` | follows the store |
| Keycloak source (`internal/keycloak/`) | whom it knows and has tried; a source's entries | `Fetch`, `EnsureUser` | an undisturbed read is exact; the entries become what Keycloak says; who is known holds what is due |
| Startup (`app.go` 188-308) | none; the store's | `setupLocalSource`, `adoptIntoLocal`, `setupKeycloakSource` | repeatable from any point; one local source; no group emptied |
| Importers (`csv_importer.go`, `ldif_importer.go`, `engine.go` 134-155) | the lines read so far | `ParseCSV`, `ParseLDIF`, `checkRelations` | all a file says or nothing of it |
| Query language (`query.go`, `cache.go` 89-140) | the clauses read so far | `parseQuery`, `Search` | finds what the typed words say |
| Browsing (`browse.go`) | none | `Browse`, `pathDown` | a path opens, step by step, from the top of the tree |
| HTTP, configuration | - | handlers and presentation | not state |

### How they interact

A request resolves its caller's tokens (`person_auth.go` 51-79), then calls the
group service, which asks the store several questions and writes; every
question and every write is a transaction of its own, and afterwards comes a
history entry in another one and a refresh of the cache. A sync runs on the
scheduler's goroutine or a request's: it reads the source, the owners of the
groups in the file and the reservations, replaces the source's rows in one
transaction, writes the log and the status, and refreshes the cache. Source
handlers check a reservation against the groups that exist, store the source
and register its job. No lock spans two store operations; replicas share the
database only.

### What is hard

Checks and writes that are separate transactions (two calls meet between
them); calls cut short by their timeout between two writes; entries that expire
while somebody looks at them; cycles closed by entries nobody added together;
groups that are deleted, pruned, handed over and created again under the same
id; refreshes overtaking each other. The list, line by line, is under `hazards`
in `PROJECT.json`.

## The models

| Module | Models | Kind |
|---|---|---|
| `Entries` | rows, subjects, tokens, validity; what a set of entries means (`Held`, the least closed set) | definitions |
| `TokenResolution` | `GetUserTokens` of both stores, step by step under a running clock | state machine |
| `MemberResolution` | `GetAllMembers` of both stores, after the tokens, on the same entries | state machine |
| `GroupTree` | the top of a source's tree and `pathDown` | state machine |
| `GroupQuery` | the words of a query, one by one, and what answers them | state machine |
| `Import` | both file formats, line by line, up to the checks of the result | state machine |
| `MCTokenResolution` | the instance for TLC of these four and `TokenResolution` | instance |
| `MCGroupQuery` | the instance of `GroupQuery` alone | instance |
| `ResolutionProofs` | tokens of both stores against `Held`, members of both stores, that the two agree, and the way to a group | proofs |
| `GroupStore` | each writing operation of the store as an operator on the tables | definitions |
| `MemoryStore` | the same operations as the memory store does them | operations |
| `TwoStores` | `RoleProvider`'s tables read as the state of `MemoryStore` (`StoresAgree`) | properties |
| `SourceContents` | what replacing the entries of one source promises | abstract specification |
| `SyncRun` | runs of one source and its deletion, statement by statement; implements `SourceContents` | state machine |
| `SyncRunProofs` | what a file says (`Import`); the types of `SyncRun`, the refinement, and groups for all entries | proofs |
| `RoleProvider` | the service, the sync engine and source administration on one store, calls interleaving | state machine |
| `MCRoleProvider` | constants and calls of its instances for TLC | instances |
| `MCServiceSequential` | its instance for calls one after the other, with `TwoStores` | instance |
| `MCServiceSeparated` | its instance for calls that overlap, beside `SyncRun` | instance |
| `RoleProviderProofs` | what the store's operations keep and bound; the inductive invariant of `RoleProvider` | proofs |
| `OwnershipProofs` | who writes what, and a complete history, of calls that overlap | proofs |
| `SequentialProofs` | what calls one after the other keep, and that the two stores do the same | proofs |
| `GroupCache` | the search cache, its refreshers and the store it follows | state machine |
| `SearchProofs` | what a query means, and the types of `GroupCache` | proofs |
| `Keycloak` | the mapping, the paged full read, the lookup of one person, and Keycloak changing | state machine |
| `MCKeycloak` | its instances for TLC | instances |
| `KeycloakProofs` | types, and exact reads | proofs |
| `Deployment` | start, adoption, the scheduler, source administration, crashes | state machine |
| `MCDeployment` | its instances for TLC: one replica alone, and a rollout | instances |
| `DeploymentProofs` | types, one local source, starts that empty nothing, owners, and the scheduler | proofs |

### Entries and TokenResolution

A subject is a person, a pattern, or a group with the relation whose holders are
meant; the spelling of ids and what a glob matches are constants (`Matches`).
`Held(T, u)` is the specification of resolution: the least set of (group,
relation) pairs that contains the entries naming `u` and is closed under
membership. It is defined as the intersection of all closed sets, with no
recursion, so that it can be proved about.

`TokenResolution` has the two algorithms as actions. The memory store
(`SeedMemory`, `VisitMemory`) holds a read lock, so entries do not change, but
asks the clock as it goes: once for each entry it looks at, of which the model
takes the scan for the seeds, and each visited pair, as one instant. The Postgres store (`PatternMatches`,
`SeedQuery`, `Iterate`) fetches pattern rows in one statement and runs the
recursive query in a second one, at the `now()` of that statement; `UNION`
removes pairs found before. `Tick` moves the clock between any two steps. The
order of tokens is abstracted.

### MemberResolution

`Ask` begins a call of `GetAllMembers` when the person's tokens have been
resolved. The memory store visits the queue of (group, relation) steps one by
one (`VisitStep`), each of them at one instant (the code asks the clock for each of
its entries); the Postgres query takes a whole
generation (`Expand`), all of it at the instant it began. `List` answers. What is
right is defined without the algorithm: `Reached` is the least set of steps the
entries do not lead out of, `Listed` who is entered for them.

### GroupTree, GroupQuery, Import

`GroupTree` is `pathDown`: `Climb` takes a group off the queue and stops at the first
that no group of its source contains, `Descend` lists the way back from there, one
group at a time, until it has `Arrived`; `NoTop` is the answer when every way up is a
circle. What the path should be is said without the algorithm: a way from the top
(`WaysFromTop`), and none is shorter. `GroupQuery` keeps the flag and the clauses of `parseQuery` and reads one
more word in each step, so that every query a person has typed half is one.
`Import` reads a line in each step: `ReadRow` and `ReadObject` with everything that is
skipped or refused on the way, `EndOfFile`, and `CheckRelations`. Constants say what
a word names, what a term finds, what an expression takes out of a name. The
properties say what a file or a query means as a whole.

### GroupStore

`owner`, `T`, `M` stand for the tables groups, tuples, group_managers.
`PutMember` is the upsert of `AddMember`, `MoveRelation` the update-or-merge of
`ChangeRelation`, `DropGroupTuples`/`DropGroupManagers` are `DeleteGroup`'s
statements with `LIKE` and its wildcard (`LikeIds`), `ReplaceRows` and
`ReplaceOwners` are `ReplaceTuples` with its `ON CONFLICT DO NOTHING` and its
pruning, `MoveRows` and `Reowned` are `MoveToSource`. `MemoryStore` has the operations of the memory store, with its maps and
loops. `TwoStores` reads the tables as its state (`Memory`, an instance) and
asks of each write of the service that it be the memory store's operation of that
name too (`StoresAgree`).
Where they differ on purpose or by accident, the instance stays clear of it:
`LIKE` and its wildcard (Postgres only, `postgres.go:394`); a sync that names an entry
another source has, which Postgres skips (`ON CONFLICT`) and the memory store enters
a second time, and which ownership keeps from happening.

### SyncRun and SourceContents

`Runs` are runs of one source that may overlap, since cron starts a run although the
last has not ended and an upload comes at any time; `Deletion` deletes the source
meanwhile. `at[c]` names the statement a call does next. What its transaction has
done and not committed is in `gone`, `added`, `made` and `taken`; a statement sees `rows`
and `groupRow`, which are committed, and its own. Each row a statement writes is a
step (`DeleteRow`, `InsertRow`, `InsertGroup`, `WriteGroup`), in any order, since the code takes
them out of Go maps, and waits for the transaction that wrote this row before.
`Deadlocked` gives one of a circle of waiting transactions up. `StatementFails` is an
error, `Cut` the end of the context or the process, after which even the writes of
the log do nothing. `CommitRun` may be taken for a failure when its answer is lost.
What the source has before all of them (`Earlier`) is what earlier runs may have left:
the rows of a file, and groups of it that have lost their own row because two such
runs overlapped. Left out are the statements that give a group that exists a new
description (`postgres.go` 934-948); they lock the rows of groups the file names, one
more thing to wait for, and change nothing a property is about.

`SourceContents` knows only what each call wants, when it takes effect, and what was
wanted by those that took effect since it began (`met`): an entry all of them want
is there, one none of them wants is not; a call that met nobody makes the
contents exactly what it wants. `SyncRun` maps onto it with `contents` as the entries
of the committed rows and a call as active between its first read and its commit
(`Contents`, `ReplacesContents`).

### RoleProvider

Each call runs in a process; `pc[p]` names the store operation it does next,
`req[p]` the call, `toks[p]` what its caller carries, `todo[p]` what a loop has
left. Each action is one store operation together with the code around it that
changes nothing shared:

| Action | Code |
|---|---|
| `Begin` | the handler up to the first store call: the caller's tokens, what is refused without asking |
| `GetGroup`, `ListManagers` | `localGroup`, `mayManage` |
| `CheckNoCycle`, `CheckNotReserved`, `CheckManagerToken` | the functions of these names |
| `AddMember` ... `RemoveManager` | the write of each service operation |
| `Record`, `AddNextManager`, `RecordNextManager` | history, and `CreateGroup`'s loop over managers |
| `GetSource`, `CheckOwners`, `CheckSyncReserved`, `Replace` | `RunSync` |
| `CheckReservation`, `CreateSource`, `UpdateSource`, `DeleteSource` | `api_sync.go` |
| `Adopt`, `RecordAdopted` | `Service.Adopt` |
| `Fail` | a timeout, a store error, the end of the process: what is stored stays, the rest never happens |
| `Tick` | time passes |

Between two actions of one process the others do what they like. The history is
the set of the changes recorded since what they are about last came to be: when an
entry, a manager or a group comes (back) into being, what was recorded about it before
is dropped (`Renewed`), so that an old record explains nothing new. Actor and time
are left out. A record that cannot be written is logged and the call goes on
(`Keep`, `service.go` 112-119).

### GroupCache

Callers change the store and, for the changes for which the code does so,
refresh the snapshot: `LoadGroups`, `LoadRelations`, `LoadSources` are the three
reads of the loader (`app.go` 59-85), outside any lock, `Store` the assignment
under the lock (`cache.go` 45-47). `EditMembers` refreshes nothing, as in the
code. The ticker is one more refresher.

### Keycloak

`realm` is the list of accounts as the admin API pages through it; accounts are
created anywhere in the list, changed and removed (`Administer`) while others
read. `Derive` is the mapping, from attribute values to entries, with plain
membership only where no role is held. A full read is `Begin`, `Page` (by
offset, a short page is the last), `Know` (`Fetch` sets `known` and forgets
`tried`), and the two statements of `ReplaceTuples` that matter here: `Load`
reads what the source has, `Write` removes what was found and is not wanted and
adds what is wanted and was not found. A lookup is `Ask` (not known, not tried
for `RetryAfter`), `Find`, one `Add` per entry, `Learn`. `ReadFails` and
`LookupFails` end either of them where the code can fail. `edited` names the
reads under which Keycloak has changed; nothing the program does depends on it.

### Deployment

A replica goes through `stage`: `Start` with any configuration, `FindLocal`,
`RenameLocal` or `MakeLocal` (`setupLocalSource`); `AdoptOrphans`, `ListAdopted`,
then `MoveAdopted` and `DeleteAdopted` for each source named (`adoptIntoLocal`);
`FindKeycloak`, `RescheduleKeycloak` or `MakeKeycloak`, `CheckKeycloak`
(`setupKeycloakSource`); `StartScheduler`, or `StartUnscheduled` when that fails.
Each is one store call. `Crash` ends it anywhere and loses what is in memory;
`RefuseToStart` is `log.Fatalw`. A call about a source goes through `calls`:
`GetSource` (`changeableSource`), the write, the reading back after an update,
then the job. `Register` adds the new job to cron while it holds the lock,
`ReplaceJob` takes the old one away. Ids are never used again. A group has one
entry or none; syncs and the group API, which `RoleProvider` has in detail, are
one step each here (`Sync`, `Maintain`). `intact` names the replicas where, since
they started, nothing has failed half way, no two calls were about one source at
once and no other replica was running. `late` has, for a replica that takes over a
source, the groups into which another one synced that source after its entries were
moved. Nothing the program does depends on either.

Every module that a mutant is made for holds, before the correct definition, a
variant with a plausible bug (`MoveRelationShortened`, `CyclicUpwards`, ...).
They are used by nothing else; each shows that a property notices that bug.

## The runs

Bounds: `MaxTime` bounds the clock, `History` names the kinds of change whose
history is kept (the others are dropped to keep the history from multiplying
the states), `Requests` is the set of calls clients may make, over and over,
`Procs` how many run at once, `Faults` whether a call may be cut short,
`MaxChanges` and `MaxFailures` bound the cache's model, `MaxEdits`, `MaxFailures` and
`MaxTime` Keycloak's. `Deployment` has no bound but the number of ids.

| Run | Shows |
|---|---|
| `token_resolution` | both stores find what `Held` says, no more than at the beginning, no less than at the end (`NothingUnearned`, `NothingMissed`), on all 256 stores made of eight entries; then list who is in a group (`MembersExact`) in agreement with the tokens (`AnswersAgree`); and end (`CallsAnswered`). In behaviours of their own: every way to a group opens in the tree (`PathOpens`), every query means what its words say (`QueryMeans`), every file comes in as what it says or not at all (`ImportsWhatItSays`) |
| `service_sequential` | calls of every kind one after the other, each possibly cut short at any store operation, keep the promises: `OneWriter`, `ExpiryOnlyLocal`, `NoOrphans`, `LocalAcyclic`, `ReservationRespected`, `SourcesExist`, `SyncExact`, `HandMadeKept`, `StaysMember`; what they do to one store they do to the other (`StoresAgree`) |
| `service_separated` | two calls at once, sources that keep to the names they reserve: `OneWriter`, `ExpiryOnlyLocal`, a complete history (`AuditComplete`). In behaviours of their own: two runs of a source and its deletion, statement by statement, replace its contents as `SourceContents` says (`ReplacesContents`), an undisturbed run leaves no entry without a group, whatever runs before it broke (`UndisturbedHasGroups`), and every log is closed (`RunsLogged`) |
| `group_cache` | refreshes of two callers and the ticker, a failed read: the search ends up at what the store has (`EventuallyCurrent`) |
| `keycloak` | a full read and a lookup while accounts come, change and go and a call fails: an undisturbed read leaves exactly what the mapping derives (`ReadExact`); when Keycloak rests the entries become what it says and stay so (`EventuallyExact`) |
| `deployment` | a replica that stops and starts anywhere while two calls create, change and delete sources and may fail, and, in behaviours of their own, two replicas of which one serves and syncs while the other starts and adopts: one local source (`OneLocal`), a start takes no entry from a group but what the other one put in too late (`NeverEmptied`), each group and entry belongs to a source there is (`EverybodyOwned`), one job on the stored schedule for each source that has one (`JobsFollow`) |
| `cycle_by_sync`, `group_reborn`, `words_alternatives`, `shared_name`, `stale_search`, `first_sign_in` | the six divergences below |

Why the bounds are enough. *Resolution*: the eight entries have two groups in a
cycle through a relation and through plain membership, a third above them and
back, a person twice, a pattern, and expiries 1 and 2 under a clock that goes to
2, so each entry expires before, during and after the call. *Tree*: all 64 ways to
nest three groups, each of either source: circles, two ways of different length, and
a way through the other source. *Search*: four words are what it takes to have a term, an
"or", a dropped word and a term. *Files*: a header and two rows, or three entries
of LDIF; the rows are every kind of wrong the code tells apart. *Sequential*: three
groups and two sources are what it takes for a group of one source to name a
group of another and be named by a third; a call is a history of others, and
the run is over all histories (no bound on their length).
Expiry 1 and a clock to 1 make each entry with an end expire in each state. One
process is enough there because these promises are about calls one after the
other; the calls of `Requests` reach every action and each of its outcomes. *Statements*: two runs and the deletion wait for each other in
every way, in circles of two and three too; the files have nothing, something and
everything in common, and one fills a group through another group; a
call may be cut short or fail anywhere. They begin on what runs before them left, which
may be what two overlapping ones broke: the entries of a group whose row is gone.
*Separated*: two processes
suffice to put one call between any two steps of another, and every shared
object (a group of the API, of either source) is touched by calls of both;
time stands still and no call is cut short, because a call that ends between
its change and its history leaves the change unrecorded (`service.go` 112-119
says so and logs it), so `AuditComplete` is a promise about calls that run to
their end; for `OneWriter` and `ExpiryOnlyLocal` the theorems below cover clocks
and faults. *Cache*: two changes, two callers and a ticker are
what it takes to overtake and be overtaken, one failure what it takes to lose a
refresh. *Keycloak*: two people and pages of one account give lists of zero, one
and two full pages; two edits are what it takes to create an account and change
or remove it under a read or a lookup; the attributes place a person by role,
plainly, and nowhere. One full read at a time: what `ReplaceTuples` leaves when
two overlap is in `SyncRun`. *Deployment*: two ids
are a local source and one of another type, or a local one and its successor in
any order of starts; two calls are what it takes for one to come between the
steps of another; one group is filled by Keycloak alone, the other by hand and
by files, and is older than the local source; two schedules tell an old job from
a new one. Ids and calls are interchangeable (`Alike`). At a rollout (the chart's Deployment
has no `strategy`, so the old replica serves until the new one does) the old one
begins with a local source and a file, the new one with any configuration but
Keycloak's; both start, crash and adopt, again and again, while the one that
serves syncs and maintains groups; calls about sources are left to the other part. `EverybodyOwned` and `JobsFollow` are asked when no call is
under way, and of `intact` replicas only, since a call that fails between a row
and its job leaves them apart; what they show is that without such a failure
they agree, and that a start makes them agree again after any.

Deadlock is checked in all runs, where something can always happen, but for
`words_alternatives`: nobody types more than `MaxWords` words.

Fairness. `MCTokenResolution!MCSpec`: weak fairness of the steps of a resolution, of a
listing and of the climb to a top; each is a loop in one goroutine or one query.
`MCServiceSeparated!MCSpec`: weak fairness of the next statement of each run and of the
deletion (`SyncStep`), giving up a circle included, which Postgres does after `deadlock_timeout`; nobody
has to call, fail or be cut short.
Beginning a call, failing and the clock are not fair. `GroupCache!FairSpec`:
weak fairness of a refresh that has begun and of the tick, since `time.Ticker`
keeps one tick for a receiver that is late. `Keycloak!FairSpec`: weak fairness of a full read,
its beginning included, since cron starts one at every scheduled minute, and of
a lookup that has begun, which is bounded by its timeout; nobody has to ask for
tokens, and Keycloak need not change.

### Where code and documentation part

1. `cycle_by_sync`. README.md:54 promises that no group ever contains itself.
   Only `AddMember` checks; a sync writes its group entries unchecked, so a
   file naming a local group closes a cycle. Resolution ends nevertheless
   (`CallsAnswered`).
2. `group_reborn`. The tests promise that a group created again under an id
   starts empty (`storage/relations_test.go:174`). `AddMember` looks at the
   group and writes the entry in two transactions; with `DeleteGroup` between
   them the entry outlives the group and the next group of that id has it.
3. `words_alternatives`. README.md:42 says the words of a search are alternatives
   and only `UND`, `AND`, `&` and `+` make them required. `query.go` 8-13 and 78-80 do
   the opposite: each word begins a clause of its own, all of which must be met,
   and `OR` joins. Two words suffice. (`QueryMeans` is what the code's own comment
   says, and holds.)
4. `shared_name`. "A group belongs to exactly one writer" (`engine.go:171`), but
   ownership is checked in one transaction and used in another: two sources
   first naming the same new group at the same time both write into it.
5. `stale_search`. `service.go:101-102` promises that edits are searchable at
   once. A ticker's refresh that has read the groups before the edit and stores
   after the edit's own refresh puts the old snapshot back, until the next tick.
6. `first_sign_in`. `source.go:29-31` gives the reason for the lookup: without it a
   new person would hold nothing until the next scheduled run. A full read that
   listed the accounts before this person's first sign-in, and writes after the
   lookup has added their entries, takes them away again; the address counts as
   known, so nobody looks it up until that next run. A run that fails after
   `Fetch` has the same effect for everybody new on its list, because `Fetch`
   declares them known before anything is written (`source.go:100`).

Not shown by a run but visible in the models: two `AddMember` calls that nest
groups into each other both pass the cycle check before either writes; a
reservation and the creation of a group of that name can both succeed when they
overlap; a source deleted while it is synced gets groups and entries again that
belong to no source (`SyncRun` has these behaviours, and `ReplacesContents` allows them);
two overlapping runs can leave entries in a group one of them has pruned, until
the next run (`UndisturbedHasGroups`); a run whose context ends leaves its log open for
good (`RunsLogged`); a group all of whose ways up are circles is in no tree;
`DeleteGroup` promises to leave the managers of other groups alone
(`relations_test.go:194`), but `LIKE 'group:x_y#%'` also takes those of
`group:xzy#...`, where the memory store compares ids (`postgres.go:394`, `memory.go`
188-191; the pruning of a sync has the same condition and errs on the safe side
there); two sources may reserve the same free name and then both
are refused it. Only the last three happen with calls made one after the
other as well; `service_sequential` keeps to names no `LIKE` takes for another. Of
starts and schedules: two replicas that start on an empty store at the same time
make a local source each (`README.md:50` says there is exactly one), and other
replicas hear of a changed schedule when they start; at a rollout a replica
that adopts a source the old one still syncs deletes what such a sync puts in between
`MoveToSource` and `DeleteSource` (`app.go` 298-302, against `README.md:56`), which is the one
case `NeverEmptied` leaves out: TLC finds it in `MCDeployment` as soon as `late` is not
exempted; a deletion that fails after
the job is gone, or two overlapping changes of one source, leave jobs apart from
schedules until the next start; a replica whose scheduler could not list the
sources runs none of them (`app.go:131`); deleting the Keycloak source over the API
gives its groups to the local source, and the next start with Keycloak
configured refuses to serve (`app.go:231`). `README.md:96` allows one lookup per address
in ten minutes; each full read forgets when it was (`source.go:101`).

## The proofs

All are for every set of groups, people, patterns, relations and sources, every
set of calls, any number of them at once, any clock; the only assumptions are
the named ones about constants (the special ids differ from each other and from
ordinary ones, `Matches` relates patterns to people, requests are well formed,
`LIKE` takes an id for itself), which TLC evaluates in each run, and the
conditions below, each of which a theorem names after `ASSUME`.

Every invariant and every action property of the six passing runs is a theorem.
Six conditions stand before some of them:

| Condition | Says | Why it is needed | Instance |
|---|---|---|---|
| `Separated` | the files of a source name groups it reserves, reservations do not overlap, no source is created, changed or deleted meanwhile | the service enforces none of the three between a check and its write; `shared_name` shows `OneWriter` fails without the first | `service_separated` |
| `Accounted` | no call is cut short, and the kinds of history that explain something are kept | a call that ends between its change and its record leaves the change unexplained (`service.go` 112-119) | `service_separated` |
| `OneAtATime` | there is one process | the service checks and writes in transactions of their own; `group_reborn` shows what comes between | `service_sequential` |
| `PlainSpelling` | no group's name is a `LIKE` pattern for another's | `postgres.go:394` matches with `LIKE`, the memory store compares ids | `service_sequential` |
| `OneReplica` | there is one replica (`OneLocal`, `EverybodyOwned`, `JobsFollow`) | two that start on an empty store make a local source each, and one does not hear of the schedules the other changes | `deployment`, alone |
| `OneColumnEach` | no header names a column twice | the code silently takes the later of the two | `token_resolution` |

### Resolution (`ResolutionProofs`)

- `TypeOK`, `NothingUnearned` and `NothingMissed` of both stores. What is found stays
  inside every set closed under the entries live at the beginning (`Sound`); when
  nothing is left to follow, what is found is itself closed under the entries live
  at the end. The invariant that carries the second (`Complete`) says of each found
  pair that it is either still to be followed or that all that follows from it is
  found. `NothingMissed` alone speaks of the end only and is not inductive.
- `MembersExact` of both stores. What is visited was reached by the entries of the
  beginning (`NothingStrange`); whatever the entries of now say of a step that was
  visited is listed or waits (`NothingLost`). At the end nothing waits, so the visited
  steps are a set the entries do not lead out of, and the least one is inside it
  (`ReachedLeast`).
- `AnswersAgree`. The two directions meet in least sets that are defined from
  opposite ends. A token carried at a step that is visited is carried at the step it
  was visited from, so whoever is listed carries the token asked about
  (`ListedCarries`); conversely the pairs from which a person is listed are, patterns
  apart, closed under the entries, so the least closed set is among them
  (`CarriesListed`). No induction over a path is needed: each side is an
  intersection of closed sets, and the other is shown to be one of them.
- `PathOpens`. What has been climbed is a tree (`Spans`): each group found has a
  distance from the target, one more than the group it was found from, and the queue
  holds those not climbed yet, nearest first, of two neighbouring distances
  (`QueueMoves`, `RimMoves`). A way from the top that is no longer than the head of the
  queue is far away would therefore lie in the tree already (`NoShorterWay`: going back
  from the target, take the first group on it that has not been found that near),
  and climbing stops at the first top. On the way down the path is a way whose next
  group is one nearer (`GoesDown`).

### The service (`RoleProviderProofs`, `OwnershipProofs`, `SequentialProofs`)

- `RoleProviderProofs` has the lemmas about the store's operations first. Each write
  turns a table with one row per entry into such a table (`PutMemberTable`,
  `MoveRelationTable`, `ReplaceRowsTable`, `MoveRowsTable`); a change of relation keeps
  whoever counts, at every later time (`MoveRelationKeepsMembers`, on `LaterExpiry`);
  after a replacement the source's rows are its file unless somebody else has one
  of its entries (`ReplaceRowsExact`). Then `TypeOK`, which is not inductive: `Replace`
  reads a file that a call has only because it is a sync. `Fits(label, r, S)` says
  which calls can be at which label and what their loops have left; `Inv` adds it to
  the types, and each group of actions keeps it.
- `OwnershipProofs`: `StaysMember` and `HandMadeKept` of every behaviour. `OneWriter`,
  `ExpiryOnlyLocal` and `SyncExact` under `Separated`. The invariant `OwnInv` gives each
  group one source that may write it (`Rightful`: the source that reserves it, or the
  local one) and says that groups, rows and the calls past their checks agree with
  it; that is what makes a check still true when the write comes.
- `AuditComplete` under `Accounted`, for any number of calls at once: each group, entry
  and manager that is there was recorded since it last came to be. Whatever brings one
  about drops the older records of it (`Renewed`), so its explanation must be a newer one,
  and whatever only changes it leaves its records alone. `AuditInv` is the property
  with what the loops are in the middle of: a manager or an adopted group is explained
  by the history, by a call about to record it, or by a loop that has it next
  (`ManagerExplained`, `GroupExplained`); and no entry belongs to nobody, so adopting
  groups brings no unexplained entry. A step of one call leaves alone what explains a
  thing it does not bring about (`OnlyMoves`, `HistoryStays`, `WrittenStays`), and its own
  either stands in the history from then on or goes with what it explained.
- `SequentialProofs`, under `OneAtATime`, with calls cut short anywhere and the clock
  going on inside a call: `NoOrphans`, `SourcesExist`, `ReservationRespected`,
  `LocalAcyclic`, and `OneWriter`, `ExpiryOnlyLocal` and `SyncExact` for any names in the
  files. `StoreRight` says how the tables fit together (`RowsOwned`, `ManagersHome`,
  `OwnersPresent`, no circle of local entries, no local group of a reserved name), and
  `CallRight` what the call has found out at the label where it is, which still holds
  since nobody else moves (`GroupChecked`, `CircleChecked`, `TokensChecked`,
  `SourceChecked`); at each write the second gives back the first. For `LocalAcyclic`
  a closed set that the new entry does not lead out of takes the place of a path.
- `StoresAgree` under `OneAtATime` and `PlainSpelling`: each write of the Postgres
  store is the operation of that name of `MemoryStore` on the same tables, an
  `ASSUME`-`PROVE` lemma per operation. A sync agrees because the checks leave no entry of
  another source in the file, which is the one case in which the stores differ
  (`ON CONFLICT DO NOTHING`).

### Overlapping runs and files (`SyncRunProofs`)

- `SyncTypeOK` and the refinement `ReplacesContents`, for any number of runs, any files
  and rows. `Invariant` says of a call inside its transaction: the rows it has not
  loaded were brought by calls it met (`NewFromOthers`); each entry it wants is there,
  is still to come, or was not wanted by somebody it met (`Wanted`); what it takes out
  it does not want (`Deletes`). With this each commit is a `TakeEffect`, giving up is
  a `GiveUp`, loading a `Start`, and every other step a stutter. That no two rows of
  one entry are committed rests on the unique index: no two calls insert one entry
  at the same time (`Apart`), nor one that has a committed row (`Inserts`).
- `UndisturbedHasGroups`, from any store, also one with entries of groups that have lost
  their row. While nobody else has committed since the run began, each
  group its file names has a committed row, or one the run has made, or is still to be
  ensured (`Grounded`); in the groups it prunes there is nothing it can see
  (`PrunesEmpty`), and it takes no group away before that (`TakesLate`). So at the commit
  no group of an entry is among those taken.
- `ImportsWhatItSays` under `OneColumnEach`, for files of any length: what has been
  found is what the lines read so far say, because the cells are looked for where
  the header has them (`FindsColumns`), and nothing that must be refused has been
  passed.

### Searching (`SearchProofs`)

- `QueryMeans`, for queries of any length. `Begins` is a function from the clauses to the
  words they begin with, increasing, onto the required terms; each clause has the terms
  from its first one to the next clause's. `Joins` says in terms of the words when the
  flag `or` is set. One more word changes nothing about those before it
  (`OneWordMore`), and continues the last clause at most (`LastClauseGoesOn`).
- `TypeOK` of `GroupCache`: what a refresh has read is of the right kind whichever
  changes came between its three reads (`ViewFound`). What the search ends up with is a
  liveness property and model-checked.

### Keycloak and starts (`KeycloakProofs`, `DeploymentProofs`)

- `TypeOK` and `ReadExact` of `Keycloak`, for any number of accounts, pages, reads and
  lookups, overlapping reads included. The invariant `Exact` says of a read that
  Keycloak has not changed under that it has the first accounts of the list, as
  many as it has asked for, and all of them once a page was not full
  (`ShortPageIsLast`, from the cardinality of an interval). `ReadExact` alone is not
  inductive: it speaks of the last step only.
- `TypeOK` of `Deployment`, of any number of replicas. `TypeInv` says what a replica has
  at each point of its start (`Equipped`), and that its cron runner has no entry its
  scheduler does not know, but the one of the call that holds the lock (`Kept`).
- `OneLocal` under `OneReplica`, and `NeverEmptied` for any number of replicas that start,
  adopt and sync beside each other, for any sources, groups, calls and configurations.
  `Found` says that what a start has found out is still so (in particular, that a
  source about to be deleted has no entries left but those of late syncs), `Spared`
  that a call about to change or delete a source is not about the local one; both rest
  on ids that are never given away twice and on sources that keep their type, which is
  why what one replica does leaves the findings of the others true (`Grow`, `Rests`).
- `EverybodyOwned` under `OneReplica`: entries go with their groups (`Belongs`), and a
  group of nobody is there only where a deletion stands between its two
  transactions, or failed there and no start has come to the adoption since
  (`Placed`).
- `JobsFollow` under `OneReplica`: while nothing has failed half way and no two calls
  are about one source, what cron and the sources lack of each other is what the one
  call about that source has yet to do (`Pending`, `Following`). This needs `Kept`, and the
  cardinality of the entries a source has in cron, two while a job is replaced.

### What the proofs changed in the models

An attempt that failed for a good reason led to these. The guards of `GetSource`'s
cases overlapped, so that `CASE` left open which applied. `DeploymentAssumption` did not say that
`None` is no call, `GroupQueryAssumption` not that a word is of one kind,
`ImportAssumption` not that the cells of a row are words whose meaning is known. The
way down in `GroupTree` was a recursive operator evaluated in one step; it is now the
code's loop (`Descend`), and `PathOpens` says what a shortest way is instead of counting
steps upwards.

### Only model-checked

Liveness (`CallsAnswered`, `RunsLogged`, `EventuallyCurrent`,
`EventuallyExact`): the prover does not reason about `ENABLED`, on which fairness
rests. The divergences are counterexamples of TLC's, and have no theorem.

## Not modelled

HTTP handlers, configuration, metrics and mock data are input and output around the
service, without state of their own; what `api_manage.go` and `api_sync.go` decide before
they call it is in the requests of `RoleProvider` and `Deployment`. Identity is reduced to the
tokens a request is judged by. `UpdateGroup` changes names only. Of browsing, paging and
the list of sources are left out; of the search, the order of its answers; of the
files, descriptions. The statements inside `ChangeRelation` and `MoveToSource` are taken
as one. Keycloak itself, cron and the database are external: they are modelled from
how the code uses them.

## The plan

In this order; all but the last are done.

1. `Entries`, `TokenResolution`: what the answer means, and that both stores give it.
2. `GroupStore`, `RoleProvider` (composes `GroupStore`): groups, members, managers,
   syncs and sources on one store.
3. Proofs of 1: both stores against the least closed set.
4. Proofs of 2: types, who writes what.
5. `GroupCache`.
6. `Keycloak`: `EnsureUser` against `Fetch` and the replacement that follows.
7. `Deployment`: start, adoption, jobs and source administration under crashes.
8. `SourceContents`, `SyncRun` and the refinement: overlapping runs of one source,
   statement by statement, and the log.
9. `MemberResolution`, `MemoryStore`: the second implementation of what is promised, beside
   the first. `GroupTree`, `GroupQuery`, `Import`: what is shown and what is read.
10. Theorems for what the runs had only model-checked: `AuditComplete`, calls one after
    the other, the agreement of the stores, owners and jobs of `Deployment`,
    `AnswersAgree`, `UndisturbedHasGroups`, the tree, the search and the files.
11. Not done: calls about sources and Keycloak at a rollout (the theorem `NeverEmptied`
    covers them, TLC's instance of two replicas leaves them out); updates of descriptions
    and their locks in `SyncRun`; a theorem that `GroupCache` answers from one state of the store when no
    change comes between the reads of a refresh; `LocalAcyclic` for calls that overlap
    but nest no two groups into each other at once.
