------------------------------ MODULE SyncRun ------------------------------
(***************************************************************************)
(* RunSync on Postgres, statement by statement.                            *)
(*                                                                         *)
(* Several runs of one source may be under way: cron starts a run although *)
(* the last one has not ended, and an upload or a trigger starts one at    *)
(* any time.  The source may be deleted meanwhile.  ReplaceTuples and      *)
(* DeleteSource are transactions under READ COMMITTED: every statement     *)
(* sees what is committed when it begins and what its own transaction did, *)
(* a write waits for the transaction that wrote the same row before it,    *)
(* and of the transactions that wait for each other one is given up.       *)
(*                                                                         *)
(* Abstracted: all rows here are the source's (other owners' are in        *)
(* RoleProvider); a statement for many rows takes them one by one in any   *)
(* order; descriptions do not change; what else points at a group (Pointed)*)
(* stays as it is; last_sync_status is written like the log and left out.  *)
(***************************************************************************)
EXTENDS GroupStore

CONSTANTS
    Runs,      \* the runs of the source, each of them once
    Deletion,  \* the call that deletes the source
    Source,    \* the source
    Files,     \* what its file may contain
    Earlier,   \* what earlier runs may have left: a file, and groups of it
               \* whose row is lost since two of them overlapped
    Before,    \* marks the rows of earlier runs
    Pointed,   \* the groups a manager or an entry of somebody else names
    RunFaults  \* whether calls may be cut short and statements may fail

Calls == Runs \cup {Deletion}

ASSUME SyncRunAssumption ==
    /\ Deletion \notin Runs
    /\ Source \in Sources
    /\ Files \subseteq SUBSET Entry
    /\ Earlier \subseteq [file : SUBSET Entry, lost : SUBSET Groups]
    /\ Before \notin Calls
    /\ Pointed \subseteq Groups
    /\ RunFaults \in BOOLEAN

\* A row is told by its id, not by its entry: here by the call it comes from.
Row == [ent : Entry, by : Calls \cup {Before}]

VARIABLES
    rows,        \* the committed rows of the source
    groupRow,    \* the committed rows of groups: whose they are
    sourceRow,   \* the row of the source: "present", "deleted"
    syncLog,     \* the log entry of each run: "none", "open", "ok", "error"
    at,          \* where each call is
    file,        \* what a run has read
    seen,        \* the rows of the source it has loaded
    gone,        \* the rows it has deleted, uncommitted
    added,       \* the rows it has inserted, uncommitted
    made,        \* the group rows it has inserted, uncommitted
    taken,       \* those it has deleted or handed over, uncommitted
    groupsLeft,  \* the group rows its statement still has to write
    toInsert,    \* the entries it still has to insert
    metFiles     \* the files of those that committed since it began

database == <<rows, groupRow, sourceRow, syncLog>>

transaction == <<seen, gone, added, made, taken, groupsLeft, toInsert, metFiles>>

syncVars == <<database, at, file, transaction>>

TransactionSteps == {"delete", "insert", "prune", "handOver"}

Steps ==
    {"uncalled", "createLog", "read", "groupOwners", "load", "logOk",
     "logError", "adopt", "done", "cut"} \cup TransactionSteps

Open(c) == at[c] \in TransactionSteps

EntriesOf(R) == {x.ent : x \in R}

SyncTypeOK ==
    /\ rows \in SUBSET Row
    /\ \A x, y \in rows : x.ent = y.ent => x = y
    /\ groupRow \in [Groups -> {Absent, Source, NoSource, Local}]
    /\ sourceRow \in {"present", "deleted"}
    /\ syncLog \in [Runs -> {"none", "open", "ok", "error"}]
    /\ at \in [Calls -> Steps]
    /\ file \in [Calls -> SUBSET Entry]
    /\ seen \in [Calls -> SUBSET Row]
    /\ gone \in [Calls -> SUBSET Row]
    /\ added \in [Calls -> SUBSET Row]
    /\ made \in [Calls -> SUBSET Groups]
    /\ taken \in [Calls -> SUBSET Groups]
    /\ groupsLeft \in [Calls -> SUBSET Groups]
    /\ toInsert \in [Calls -> SUBSET Entry]
    /\ metFiles \in [Calls -> SUBSET SUBSET Entry]

None == [c \in Calls |-> {}]

SyncInit ==
    /\ \E f \in Earlier :
          /\ rows = {[ent |-> e, by |-> Before] : e \in f.file}
          /\ groupRow = [g \in Groups |->
                            IF g \in (GroupsOf(f.file) \ f.lost) \cup Pointed
                            THEN Source ELSE Absent]
    /\ sourceRow = "present"
    /\ syncLog = [r \in Runs |-> "none"]
    /\ at = [c \in Calls |-> "uncalled"]
    /\ file = None /\ seen = None /\ gone = None /\ added = None
    /\ made = None /\ taken = None /\ groupsLeft = None /\ toInsert = None
    /\ metFiles = None

-----------------------------------------------------------------------------
(* How a call moves on.                                                    *)

To(c, step) == at' = [at EXCEPT ![c] = step]

\* The transaction is over, and nothing of its own is left.
Forget(c) ==
    /\ file' = [file EXCEPT ![c] = {}]
    /\ seen' = [seen EXCEPT ![c] = {}]
    /\ gone' = [gone EXCEPT ![c] = {}]
    /\ added' = [added EXCEPT ![c] = {}]
    /\ made' = [made EXCEPT ![c] = {}]
    /\ taken' = [taken EXCEPT ![c] = {}]
    /\ groupsLeft' = [groupsLeft EXCEPT ![c] = {}]
    /\ toInsert' = [toInsert EXCEPT ![c] = {}]

Rollback(c) == Forget(c) /\ metFiles' = [metFiles EXCEPT ![c] = {}]

\* Another transaction has inserted or deleted a row of this entry and has not
\* ended: the unique index makes the writer wait for it.
EntryLocked(c, e) ==
    \E d \in Calls \ {c} :
        e \in EntriesOf(added[d]) \/ e \in EntriesOf(gone[d] \cap rows)

RowLocked(c, x) == \E d \in Calls \ {c} : x \in gone[d]

GroupLocked(c, g) == \E d \in Calls \ {c} : g \in made[d] \cup taken[d]

VisibleRows(c) == (rows \ gone[c]) \cup added[c]

-----------------------------------------------------------------------------
(* Before the transaction (engine.go).                                     *)

\* Somebody calls; without a source there is nothing to do.
Call(c) ==
    /\ at[c] = "uncalled"
    /\ To(c, IF sourceRow # "present" THEN "done"
             ELSE IF c = Deletion THEN "load" ELSE "createLog")
    /\ UNCHANGED <<database, file, transaction>>

CreateSyncLog(r) ==
    /\ at[r] = "createLog"
    /\ syncLog' = [syncLog EXCEPT ![r] = "open"]
    /\ To(r, "read")
    /\ UNCHANGED <<rows, groupRow, sourceRow, file, transaction>>

\* The upload or the file at its path, parsed; or refused as a whole.
Read(r) ==
    /\ at[r] = "read"
    /\ \/ /\ \E f \in Files : file' = [file EXCEPT ![r] = f]
          /\ To(r, "groupOwners")
       \/ UNCHANGED file /\ To(r, "logError")
    /\ UNCHANGED <<database, transaction>>

\* Faulty on purpose, like every definition named for what it gets wrong:
\* a property must notice when it stands in for the definition after it.
CheckOwnershipUnlogged(r) ==
    /\ at[r] = "groupOwners"
    /\ IF \E g \in GroupsOf(file[r]) : groupRow[g] \notin {Absent, Source}
       THEN To(r, "done") /\ file' = [file EXCEPT ![r] = {}]
       ELSE To(r, "load") /\ UNCHANGED file
    /\ UNCHANGED <<database, transaction>>

CheckOwnership(r) ==
    /\ at[r] = "groupOwners"
    /\ IF \E g \in GroupsOf(file[r]) : groupRow[g] \notin {Absent, Source}
       THEN To(r, "logError") /\ file' = [file EXCEPT ![r] = {}]
       ELSE To(r, "load") /\ UNCHANGED file
    /\ UNCHANGED <<database, transaction>>

-----------------------------------------------------------------------------
(* The statements of ReplaceTuples and DeleteSource on the source's rows.  *)

\* READ UNCOMMITTED: what others have only begun is taken for done.
LoadDirty(c) ==
    /\ at[c] = "load"
    /\ seen' = [seen EXCEPT ![c] = rows]
    /\ toInsert' = [toInsert EXCEPT ![c] =
                       file[c] \ UNION {EntriesOf(rows \cup added[d]) : d \in Calls}]
    /\ To(c, "delete")
    /\ UNCHANGED <<database, file, gone, added, made, taken, groupsLeft,
                   metFiles>>

\* What the source has; DeleteSource looks as it deletes.
Load(c) ==
    /\ at[c] = "load"
    /\ seen' = [seen EXCEPT ![c] = rows]
    /\ toInsert' = [toInsert EXCEPT ![c] = file[c] \ EntriesOf(rows)]
    /\ To(c, "delete")
    /\ UNCHANGED <<database, file, gone, added, made, taken, groupsLeft,
                   metFiles>>

ToDelete(c) == {x \in seen[c] \cap rows : x.ent \notin file[c]} \ gone[c]

DeleteRow(c) ==
    /\ at[c] = "delete"
    /\ \E x \in ToDelete(c) :
          ~RowLocked(c, x) /\ gone' = [gone EXCEPT ![c] = @ \cup {x}]
    /\ UNCHANGED <<database, at, file, seen, added, made, taken, groupsLeft,
                   toInsert, metFiles>>

InsertRowTwice(r) ==
    /\ at[r] = "insert" /\ groupsLeft[r] = {}
    /\ \E e \in toInsert[r] :
          /\ added' = [added EXCEPT ![r] = @ \cup {[ent |-> e, by |-> r]}]
          /\ toInsert' = [toInsert EXCEPT ![r] = @ \ {e}]
    /\ UNCHANGED <<database, at, file, seen, gone, made, taken, groupsLeft,
                   metFiles>>

\* ON CONFLICT DO NOTHING: an entry that has a committed row stays that row.
InsertRow(r) ==
    /\ at[r] = "insert" /\ groupsLeft[r] = {}
    /\ \E e \in toInsert[r] :
          /\ ~EntryLocked(r, e)
          /\ added' = IF e \in EntriesOf(rows) THEN added
                      ELSE [added EXCEPT ![r] = @ \cup {[ent |-> e, by |-> r]}]
          /\ toInsert' = [toInsert EXCEPT ![r] = @ \ {e}]
    /\ UNCHANGED <<database, at, file, seen, gone, made, taken, groupsLeft,
                   metFiles>>

-----------------------------------------------------------------------------
(* And on the rows of groups.                                              *)

ReadGroupsOfNew(r) ==
    /\ at[r] = "delete" /\ ToDelete(r) = {}
    /\ groupsLeft' = [groupsLeft EXCEPT ![r] =
                         {g \in GroupsOf(toInsert[r]) : groupRow[g] = Absent}]
    /\ To(r, "insert")
    /\ UNCHANGED <<database, file, seen, gone, added, made, taken, toInsert,
                   metFiles>>

\* The groups of the file that have no row yet; they get one before the
\* entries are inserted.
ReadGroups(r) ==
    /\ at[r] = "delete" /\ ToDelete(r) = {}
    /\ groupsLeft' = [groupsLeft EXCEPT ![r] =
                         {g \in GroupsOf(file[r]) : groupRow[g] = Absent}]
    /\ To(r, "insert")
    /\ UNCHANGED <<database, file, seen, gone, added, made, taken, toInsert,
                   metFiles>>

InsertGroup(r) ==
    /\ at[r] = "insert"
    /\ \E g \in groupsLeft[r] :
          /\ ~GroupLocked(r, g)
          /\ made' = IF groupRow[g] # Absent THEN made
                     ELSE [made EXCEPT ![r] = @ \cup {g}]
          /\ groupsLeft' = [groupsLeft EXCEPT ![r] = @ \ {g}]
    /\ UNCHANGED <<database, at, file, seen, gone, added, taken, toInsert,
                   metFiles>>

Own(c, g) == groupRow[g] = Source \/ g \in made[c]

\* The groups of the source nothing is in and nothing points at.
Empty(r) ==
    {g \in Groups \ Pointed :
        /\ Own(r, g)
        /\ \A x \in VisibleRows(r) : x.ent.obj # g /\ ~IsGroup(x.ent.sub, g)}

SelectEmpty(r) ==
    /\ at[r] = "insert" /\ groupsLeft[r] = {} /\ toInsert[r] = {}
    /\ groupsLeft' = [groupsLeft EXCEPT ![r] = Empty(r)]
    /\ To(r, "prune")
    /\ UNCHANGED <<database, file, seen, gone, added, made, taken, toInsert,
                   metFiles>>

\* DeleteSource: the groups of the source pass to nobody.
SelectOwn(c) ==
    /\ at[c] = "delete" /\ ToDelete(c) = {}
    /\ groupsLeft' = [groupsLeft EXCEPT ![c] =
                         {g \in Groups : groupRow[g] = Source}]
    /\ To(c, "handOver")
    /\ UNCHANGED <<database, file, seen, gone, added, made, taken, toInsert,
                   metFiles>>

\* A group that meanwhile went or changed hands is left alone.
WriteGroup(c) ==
    /\ at[c] \in {"prune", "handOver"}
    /\ \E g \in groupsLeft[c] :
          /\ ~GroupLocked(c, g)
          /\ taken' = IF Own(c, g) THEN [taken EXCEPT ![c] = @ \cup {g}]
                      ELSE taken
          /\ groupsLeft' = [groupsLeft EXCEPT ![c] = @ \ {g}]
    /\ UNCHANGED <<database, at, file, seen, gone, added, made, toInsert,
                   metFiles>>

-----------------------------------------------------------------------------
(* The end of the transaction and what follows it.                         *)

Publish(c, heir) ==
    /\ rows' = (rows \ gone[c]) \cup added[c]
    /\ groupRow' = [g \in Groups |->
                       IF g \in taken[c] THEN heir
                       ELSE IF g \in made[c] THEN Source ELSE groupRow[g]]
    /\ Forget(c)
    /\ metFiles' = [d \in Calls |->
                       IF d # c /\ Open(d) THEN metFiles[d] \cup {file[c]} ELSE {}]

\* The answer may be lost on its way back: then the run takes it for a failure.
CommitRun(r) ==
    /\ at[r] = "prune" /\ groupsLeft[r] = {}
    /\ Publish(r, Absent)
    /\ To(r, "logOk") \/ (RunFaults /\ To(r, "logError"))
    /\ UNCHANGED <<sourceRow, syncLog>>

CommitDeletion(c) ==
    /\ at[c] = "handOver" /\ groupsLeft[c] = {}
    /\ Publish(c, NoSource)
    /\ sourceRow' = "deleted"
    /\ To(c, "adopt")
    /\ UNCHANGED syncLog

CloseLog(r) ==
    /\ at[r] \in {"logOk", "logError"}
    /\ syncLog' = [syncLog EXCEPT ![r] = IF at[r] = "logOk" THEN "ok" ELSE "error"]
    /\ To(r, "done")
    /\ UNCHANGED <<rows, groupRow, sourceRow, file, transaction>>

AdoptOrphans(c) ==
    /\ at[c] = "adopt"
    /\ groupRow' = Reowned(groupRow, NoSource, Local)
    /\ To(c, "done")
    /\ UNCHANGED <<rows, sourceRow, syncLog, file, transaction>>

-----------------------------------------------------------------------------
(* What goes wrong.                                                        *)

\* The transactions that hold something a statement of c has to write.
WaitsFor(c) ==
    CASE at[c] = "delete" ->
             {d \in Calls \ {c} : ToDelete(c) \cap gone[d] # {}}
      [] at[c] = "insert" /\ groupsLeft[c] = {} ->
             {d \in Calls \ {c} :
                 toInsert[c] \cap EntriesOf(added[d] \cup (gone[d] \cap rows)) # {}}
      [] OTHER ->
             {d \in Calls \ {c} : groupsLeft[c] \cap (made[d] \cup taken[d]) # {}}

\* Everybody in S waits for somebody in S.
Circle(S) == S # {} /\ \A c \in S : WaitsFor(c) \cap S # {}

Failing(c) ==
    /\ Rollback(c)
    /\ To(c, IF c = Deletion THEN "done" ELSE "logError")
    /\ UNCHANGED database

\* Postgres ends a circle of transactions that wait for each other by giving
\* one of them up.
Deadlocked(c) ==
    /\ \E S \in SUBSET Calls :
          c \in S /\ Circle(S) /\ \A U \in SUBSET S : Circle(U) => U = S
    /\ Failing(c)

StatementFails(c) == RunFaults /\ Open(c) /\ Failing(c)

\* The context of the call has ended, or its process: no statement after this
\* one does anything, the one that closes the log included.
Cut(c) ==
    /\ RunFaults
    /\ at[c] \notin {"uncalled", "done", "cut"}
    /\ Rollback(c)
    /\ To(c, "cut")
    /\ UNCHANGED database

RunSync(r) ==
    \/ CreateSyncLog(r) \/ Read(r) \/ CheckOwnership(r) \/ Load(r)
    \/ DeleteRow(r) \/ ReadGroups(r) \/ InsertGroup(r) \/ InsertRow(r)
    \/ SelectEmpty(r) \/ WriteGroup(r) \/ CommitRun(r) \/ CloseLog(r)

DeleteSourceCall(c) ==
    \/ Load(c) \/ DeleteRow(c) \/ SelectOwn(c) \/ WriteGroup(c)
    \/ CommitDeletion(c) \/ AdoptOrphans(c)

SyncStep(c) ==
    \/ c \in Runs /\ RunSync(c)
    \/ c = Deletion /\ DeleteSourceCall(c)
    \/ Deadlocked(c)

\* Every call has returned.
SyncOver == (\A c \in Calls : at[c] \in {"done", "cut"}) /\ UNCHANGED syncVars

SyncNext ==
    \E c \in Calls : Call(c) \/ SyncStep(c) \/ StatementFails(c) \/ Cut(c)

SyncSpec == SyncInit /\ [][SyncNext]_syncVars

\* A call goes on: cron's goroutine, the handler's, and the database that
\* answers it, waiting ones included.  Nobody has to call or to fail.
SyncFairness == \A c \in Calls : WF_syncVars(SyncStep(c))

FairSyncSpec == SyncSpec /\ SyncFairness

-----------------------------------------------------------------------------
(* Properties.                                                             *)

Contents ==
    INSTANCE SourceContents WITH
        Items <- Entry,
        contents <- EntriesOf(rows),
        active <- {c \in Calls : Open(c)},
        wants <- [c \in Calls |-> IF Open(c) THEN file[c] ELSE {}],
        met <- metFiles

\* ReplacesContents: however many runs of a source and its deletion overlap,
\* each makes the source exactly its file if nobody else committed meanwhile
\* ("a source is always exactly its latest file", README.md:38), and otherwise
\* leaves a mix of the files that met: an entry all of them name is never
\* lost, one none of them names is never left.
ReplacesContents == Contents!Spec

GroupsForAll ==
    \A r \in Runs : CommitRun(r) /\ metFiles[r] = {} =>
        \A x \in rows' : groupRow'[x.ent.obj] # Absent

\* UndisturbedHasGroups: a run that no other commit comes into leaves every
\* entry of the source with a group row, also where two earlier runs have left
\* entries in a group without one: of two that overlap, one prunes the group
\* that the other has just read as existing (postgres.go:902-920, 960-965).
\* What those two leave themselves is not asked.
UndisturbedHasGroups == [][GroupsForAll]_syncVars

\* RunsLogged: in the end the log entry of every run is closed, although runs
\* wait for each other's rows and Postgres gives some of them up, unless the
\* run was cut short; then it stays open for good (engine.go:96-103, 114-124
\* ignore that the writes of the log fail).  Every run is made once.
RunsLogged ==
    <>[](\A r \in Runs : syncLog[r] = "open" => at[r] = "cut")
=============================================================================
