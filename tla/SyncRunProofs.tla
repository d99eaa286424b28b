---------------------------- MODULE SyncRunProofs ----------------------------
(***************************************************************************)
(* What a run of a source reads and what it writes.                        *)
(*                                                                         *)
(* The file: what has been found is what the lines read so far say,        *)
(* because the cells are looked for where the header has them              *)
(* (FindsColumns).  That needs OneColumnEach.                              *)
(*                                                                         *)
(* The statements: however many runs of a source overlap, with each other  *)
(* and with its deletion, and whatever statements, commits and answers     *)
(* fail, SyncRun implements SourceContents, and there is one row for an    *)
(* entry.  What a call has not seen of the rows came from calls that       *)
(* committed since it began, which it has met (NewFromOthers); what it     *)
(* wants is there, is still to come, or somebody it met did not want it    *)
(* (Wanted); what it takes out it does not want (Deletes).                 *)
(*                                                                         *)
(* The rows of groups: while nobody else commits, a run that is past       *)
(* ensuring a group has its row or has made it (Grounded), and takes only  *)
(* those away that no entry of its file names (PrunesEmpty).               *)
(***************************************************************************)
EXTENDS SyncRun, Import, TLAPS

-----------------------------------------------------------------------------
(* The statements.                                                         *)

\* Where a call can no longer commit.
Past == {"logOk", "logError", "adopt", "done", "cut"}

AfterDelete == {"insert", "prune", "handOver"}

IdleEmpty ==
    \A c \in Calls : ~Open(c) =>
        /\ seen[c] = {} /\ gone[c] = {} /\ added[c] = {}
        /\ toInsert[c] = {} /\ metFiles[c] = {}

DeletionWantsNothing == file[Deletion] = {}

\* Whoever wrote a row that others can see has committed.
Authors ==
    \A c \in Calls : \A x \in rows \cup seen[c] :
        x.by \in Calls => at[x.by] \in Past

Inserts ==
    \A c \in Calls :
        /\ toInsert[c] \subseteq file[c]
        /\ \A x \in added[c] :
              x.by = c /\ x.ent \in file[c] /\ x.ent \notin EntriesOf(rows)

\* No two calls insert one entry at the same time.
Apart ==
    \A c, d \in Calls : \A x \in added[c], y \in added[d] :
        x.ent = y.ent => c = d

Deletes == \A c \in Calls : \A x \in gone[c] : x.ent \notin file[c]

Deleted == \A c \in Calls : at[c] \in AfterDelete => ToDelete(c) = {}

NewFromOthers ==
    \A c \in Calls : Open(c) =>
        \A x \in rows \ seen[c] : \E f \in metFiles[c] : x.ent \in f

Wanted ==
    \A c \in Calls : Open(c) =>
        \A e \in file[c] :
            \/ e \in toInsert[c] \cup EntriesOf(added[c]) \cup EntriesOf(rows)
            \/ \E f \in metFiles[c] : e \notin f

Inserted == \A c \in Calls : at[c] = "prune" => toInsert[c] = {}

Invariant ==
    /\ SyncTypeOK /\ IdleEmpty /\ DeletionWantsNothing /\ Authors /\ Inserts
    /\ Apart /\ Deletes /\ Deleted /\ NewFromOthers /\ Wanted /\ Inserted

-----------------------------------------------------------------------------
(* What a step of a call c can do to what the invariant is about.          *)

Moves(c, S) == \E l \in S : at' = [at EXCEPT ![c] = l]

Untouched == UNCHANGED <<rows, seen, gone, added, toInsert, metFiles>>

OutsideStep(c) ==
    /\ Untouched /\ ~Open(c)
    /\ Moves(c, IF at[c] \in Past THEN Past ELSE Steps \ TransactionSteps)
    /\ \E f \in SUBSET Entry :
          file' = [file EXCEPT ![c] = f] /\ (c = Deletion => f = file[c])

LoadStep(c) ==
    /\ ~Open(c) /\ at[c] \notin Past
    /\ Moves(c, {"delete"})
    /\ seen' = [seen EXCEPT ![c] = rows]
    /\ toInsert' = [toInsert EXCEPT ![c] = file[c] \ EntriesOf(rows)]
    /\ UNCHANGED <<rows, file, gone, added, metFiles>>

DeleteStep(c) ==
    /\ at[c] = "delete"
    /\ \E x \in ToDelete(c) : gone' = [gone EXCEPT ![c] = @ \cup {x}]
    /\ UNCHANGED <<rows, at, file, seen, added, toInsert, metFiles>>

InsertStep(c) ==
    /\ at[c] = "insert"
    /\ \E e \in toInsert[c] :
          /\ ~EntryLocked(c, e)
          /\ added' = IF e \in EntriesOf(rows) THEN added
                      ELSE [added EXCEPT ![c] = @ \cup {[ent |-> e, by |-> c]}]
          /\ toInsert' = [toInsert EXCEPT ![c] = @ \ {e}]
    /\ UNCHANGED <<rows, at, file, seen, gone, metFiles>>

\* On to the next statement.
AdvanceStep(c) ==
    /\ Untouched /\ UNCHANGED file
    /\ \/ Open(c) /\ UNCHANGED at
       \/ at[c] = "delete" /\ ToDelete(c) = {} /\ Moves(c, {"insert", "handOver"})
       \/ at[c] = "insert" /\ toInsert[c] = {} /\ Moves(c, {"prune"})

CommitStep(c) ==
    /\ at[c] = "prune" \/ (at[c] = "handOver" /\ c = Deletion)
    /\ rows' = (rows \ gone[c]) \cup added[c]
    /\ Forget(c)
    /\ metFiles' = [d \in Calls |->
                       IF d # c /\ Open(d) THEN metFiles[d] \cup {file[c]} ELSE {}]
    /\ Moves(c, Past)

GiveUpStep(c) == UNCHANGED rows /\ Rollback(c) /\ Moves(c, Past)

\* Every step of the specification is one of these.
LEMMA StepKinds ==
    ASSUME SyncTypeOK, NEW c \in Calls,
           Call(c) \/ SyncStep(c) \/ StatementFails(c) \/ Cut(c)
    PROVE  \/ OutsideStep(c) \/ LoadStep(c) \/ DeleteStep(c) \/ InsertStep(c)
           \/ AdvanceStep(c) \/ CommitStep(c) \/ GiveUpStep(c)
<1> USE DEF SyncTypeOK, Moves, To, Open, TransactionSteps, Past, database
<1>a. file = [file EXCEPT ![c] = file[c]] /\ file[c] \in SUBSET Entry
    OBVIOUS
<1>1. CASE Call(c)
    BY <1>1, <1>a DEF Call, OutsideStep, Untouched, Steps, transaction
<1>2. CASE c \in Runs /\ CreateSyncLog(c)
    BY <1>2, <1>a DEF CreateSyncLog, OutsideStep, Untouched, Steps, transaction
<1>3. CASE c \in Runs /\ Read(c)
    <2>1. c # Deletion
        BY <1>3, SyncRunAssumption
    <2>2. CASE \E f \in Files : file' = [file EXCEPT ![c] = f]
        BY <1>3, <2>1, <2>2, SyncRunAssumption
        DEF Read, OutsideStep, Untouched, Steps, transaction
    <2>3. CASE UNCHANGED file
        BY <1>3, <2>3, <1>a DEF Read, OutsideStep, Untouched, Steps, transaction
    <2> QED BY <1>3, <2>2, <2>3 DEF Read
<1>4. CASE c \in Runs /\ CheckOwnership(c)
    <2>1. c # Deletion
        BY <1>4, SyncRunAssumption
    <2> QED
        BY <1>4, <2>1, <1>a DEF CheckOwnership, OutsideStep, Untouched, Steps, transaction
<1>5. CASE Load(c)
    BY <1>5 DEF Load, LoadStep
<1>6. CASE DeleteRow(c)
    BY <1>6 DEF DeleteRow, DeleteStep
<1>7. CASE ReadGroups(c)
    BY <1>7 DEF ReadGroups, AdvanceStep, Untouched
<1>8. CASE InsertGroup(c)
    BY <1>8 DEF InsertGroup, AdvanceStep, Untouched
<1>9. CASE InsertRow(c)
    BY <1>9 DEF InsertRow, InsertStep
<1>10. CASE SelectEmpty(c)
    BY <1>10 DEF SelectEmpty, AdvanceStep, Untouched
<1>11. CASE SelectOwn(c)
    BY <1>11 DEF SelectOwn, AdvanceStep, Untouched
<1>12. CASE WriteGroup(c)
    BY <1>12 DEF WriteGroup, AdvanceStep, Untouched
<1>13. CASE CommitRun(c)
    BY <1>13 DEF CommitRun, CommitStep, Publish
<1>14. CASE c = Deletion /\ CommitDeletion(c)
    BY <1>14 DEF CommitDeletion, CommitStep, Publish
<1>15. CASE CloseLog(c)
    BY <1>15, <1>a DEF CloseLog, OutsideStep, Untouched, transaction
<1>16. CASE AdoptOrphans(c)
    BY <1>16, <1>a DEF AdoptOrphans, OutsideStep, Untouched, transaction
<1>17. CASE Deadlocked(c) \/ StatementFails(c) \/ Cut(c)
    BY <1>17 DEF Deadlocked, StatementFails, Cut, Failing, GiveUpStep
<1> QED
    BY <1>1, <1>2, <1>3, <1>4, <1>5, <1>6, <1>7, <1>8, <1>9, <1>10, <1>11,
       <1>12, <1>13, <1>14, <1>15, <1>16, <1>17
    DEF SyncStep, RunSync, DeleteSourceCall

-----------------------------------------------------------------------------
(* Types.                                                                  *)

Typed ==
    /\ rows \in SUBSET Row
    /\ groupRow \in [Groups -> {Absent, Source, NoSource, Local}]
    /\ sourceRow \in {"present", "deleted"}
    /\ syncLog \in [Runs -> {"none", "open", "ok", "error"}]
    /\ at \in [Calls -> Steps]
    /\ file \in [Calls -> SUBSET Entry]
    /\ seen \in [Calls -> SUBSET Row]
    /\ gone \in [Calls -> SUBSET Row]
    /\ added \in [Calls -> SUBSET Row]
    /\ made \in [Calls -> SUBSET Groups]
    /\ taken \in [Calls -> SUBSET Groups]
    /\ groupsLeft \in [Calls -> SUBSET Groups]
    /\ toInsert \in [Calls -> SUBSET Entry]
    /\ metFiles \in [Calls -> SUBSET SUBSET Entry]

OneRowPerItem == \A x, y \in rows : x.ent = y.ent => x = y

LEMMA TypeOKSplit == SyncTypeOK <=> Typed /\ OneRowPerItem
BY DEF SyncTypeOK, Typed, OneRowPerItem

LEMMA TypedStep ==
    ASSUME Typed, NEW c \in Calls,
           Call(c) \/ SyncStep(c) \/ StatementFails(c) \/ Cut(c)
    PROVE  Typed'
<1> USE DEF Typed, To, Open, TransactionSteps, Steps, database, transaction
<1>1. CASE Call(c)
    BY <1>1 DEF Call
<1>2. CASE c \in Runs /\ CreateSyncLog(c)
    BY <1>2 DEF CreateSyncLog
<1>3. CASE c \in Runs /\ Read(c)
    BY <1>3, SyncRunAssumption DEF Read
<1>4. CASE c \in Runs /\ CheckOwnership(c)
    BY <1>4 DEF CheckOwnership
<1>5. CASE Load(c)
    BY <1>5 DEF Load
<1>6. CASE DeleteRow(c)
    BY <1>6 DEF DeleteRow, ToDelete
<1>7. CASE ReadGroups(c)
    <2>1. {g \in GroupsOf(file[c]) : groupRow[g] = Absent} \in SUBSET Groups
        BY DEF GroupsOf, Entry
    <2> QED BY <1>7, <2>1 DEF ReadGroups
<1>8. CASE InsertGroup(c)
    BY <1>8 DEF InsertGroup
<1>9. CASE InsertRow(c)
    <2>1. \A e \in toInsert[c] : [ent |-> e, by |-> c] \in Row
        BY DEF Row
    <2> QED BY <1>9, <2>1 DEF InsertRow
<1>10. CASE SelectEmpty(c)
    BY <1>10 DEF SelectEmpty, Empty
<1>11. CASE SelectOwn(c)
    BY <1>11 DEF SelectOwn
<1>12. CASE WriteGroup(c)
    BY <1>12 DEF WriteGroup
<1>13. ASSUME NEW heir \in {Absent, NoSource}, Publish(c, heir)
       PROVE  /\ rows' \in SUBSET Row
              /\ groupRow' \in [Groups -> {Absent, Source, NoSource, Local}]
              /\ file' \in [Calls -> SUBSET Entry]
              /\ seen' \in [Calls -> SUBSET Row]
              /\ gone' \in [Calls -> SUBSET Row]
              /\ added' \in [Calls -> SUBSET Row]
              /\ made' \in [Calls -> SUBSET Groups]
              /\ taken' \in [Calls -> SUBSET Groups]
              /\ groupsLeft' \in [Calls -> SUBSET Groups]
              /\ toInsert' \in [Calls -> SUBSET Entry]
              /\ metFiles' \in [Calls -> SUBSET SUBSET Entry]
    BY <1>13 DEF Publish, Forget
<1>14. CASE c \in Runs /\ CommitRun(c)
    BY <1>14, <1>13 DEF CommitRun
<1>15. CASE CommitDeletion(c)
    BY <1>15, <1>13 DEF CommitDeletion
<1>16. CASE c \in Runs /\ CloseLog(c)
    BY <1>16 DEF CloseLog
<1>17. CASE AdoptOrphans(c)
    BY <1>17 DEF AdoptOrphans, Reowned
<1>18. CASE Failing(c)
    BY <1>18 DEF Failing, Rollback, Forget
<1>19. CASE Cut(c)
    BY <1>19 DEF Cut, Rollback, Forget
<1> HIDE DEF Typed, To, Open, database, transaction
<1> QED
    BY <1>1, <1>2, <1>3, <1>4, <1>5, <1>6, <1>7, <1>8, <1>9, <1>10, <1>11,
       <1>12, <1>14, <1>15, <1>16, <1>17, <1>18, <1>19
    DEF SyncStep, RunSync, DeleteSourceCall, Deadlocked, StatementFails

-----------------------------------------------------------------------------
(* Each part of the invariant, through each kind of step.                  *)

Kind(c) ==
    \/ OutsideStep(c) \/ LoadStep(c) \/ DeleteStep(c) \/ InsertStep(c)
    \/ AdvanceStep(c) \/ CommitStep(c) \/ GiveUpStep(c)

LEMMA IdleEmptyStep ==
    ASSUME Typed, IdleEmpty, NEW c \in Calls, Kind(c)
    PROVE  IdleEmpty'
<1> USE DEF Typed, Open, Moves, TransactionSteps, Past, IdleEmpty
<1>1. CASE OutsideStep(c)
    BY <1>1 DEF OutsideStep, Untouched
<1>2. CASE LoadStep(c)
    BY <1>2 DEF LoadStep
<1>3. CASE DeleteStep(c)
    BY <1>3 DEF DeleteStep
<1>4. CASE InsertStep(c)
    BY <1>4 DEF InsertStep
<1>5. CASE AdvanceStep(c)
    BY <1>5 DEF AdvanceStep, Untouched
<1>6. CASE CommitStep(c)
    BY <1>6 DEF CommitStep, Forget
<1>7. CASE GiveUpStep(c)
    BY <1>7 DEF GiveUpStep, Rollback, Forget
<1> QED BY <1>1, <1>2, <1>3, <1>4, <1>5, <1>6, <1>7 DEF Kind

LEMMA AuthorsStep ==
    ASSUME Typed, IdleEmpty, Authors, Inserts, NEW c \in Calls, Kind(c)
    PROVE  Authors'
<1> USE DEF Typed, Open, Moves, TransactionSteps, Past, Authors, IdleEmpty, Inserts
<1>1. CASE OutsideStep(c)
    BY <1>1 DEF OutsideStep, Untouched
<1>2. CASE LoadStep(c)
    BY <1>2 DEF LoadStep
<1>3. CASE DeleteStep(c)
    BY <1>3 DEF DeleteStep
<1>4. CASE InsertStep(c)
    BY <1>4 DEF InsertStep
<1>5. CASE AdvanceStep(c)
    BY <1>5 DEF AdvanceStep, Untouched
<1>6. CASE CommitStep(c)
    BY <1>6 DEF CommitStep, Forget
<1>7. CASE GiveUpStep(c)
    BY <1>7 DEF GiveUpStep, Rollback, Forget
<1> QED BY <1>1, <1>2, <1>3, <1>4, <1>5, <1>6, <1>7 DEF Kind

LEMMA InsertsStep ==
    ASSUME Typed, Apart, IdleEmpty, Inserts, NEW c \in Calls, Kind(c)
    PROVE  Inserts'
<1> USE DEF Typed, Open, Moves, TransactionSteps, Past, Inserts, Apart, IdleEmpty, EntriesOf
<1>1. CASE OutsideStep(c)
    BY <1>1 DEF OutsideStep, Untouched
<1>2. CASE LoadStep(c)
    BY <1>2 DEF LoadStep
<1>3. CASE DeleteStep(c)
    BY <1>3 DEF DeleteStep
<1>4. CASE InsertStep(c)
    <2> PICK e \in toInsert[c] :
            /\ added' = IF e \in EntriesOf(rows) THEN added
                        ELSE [added EXCEPT ![c] = @ \cup {[ent |-> e, by |-> c]}]
            /\ toInsert' = [toInsert EXCEPT ![c] = @ \ {e}]
        BY <1>4 DEF InsertStep
    <2>1. UNCHANGED <<rows, file>>
        BY <1>4 DEF InsertStep
    <2>2. CASE e \in EntriesOf(rows)
        BY <2>1, <2>2
    <2>3. CASE e \notin EntriesOf(rows)
        BY <2>1, <2>3
    <2> QED BY <2>2, <2>3
<1>5. CASE AdvanceStep(c)
    BY <1>5 DEF AdvanceStep, Untouched
<1>6. CASE CommitStep(c)
    BY <1>6 DEF CommitStep, Forget
<1>7. CASE GiveUpStep(c)
    BY <1>7 DEF GiveUpStep, Rollback, Forget
<1> QED BY <1>1, <1>2, <1>3, <1>4, <1>5, <1>6, <1>7 DEF Kind

LEMMA ApartStep ==
    ASSUME Typed, Inserts, Apart, NEW c \in Calls, Kind(c)
    PROVE  Apart'
<1> USE DEF Typed, Open, Moves, TransactionSteps, Past, Apart, Inserts, EntryLocked, EntriesOf
<1>1. CASE OutsideStep(c)
    BY <1>1 DEF OutsideStep, Untouched
<1>2. CASE LoadStep(c)
    BY <1>2 DEF LoadStep
<1>3. CASE DeleteStep(c)
    BY <1>3 DEF DeleteStep
<1>4. CASE InsertStep(c)
    BY <1>4 DEF InsertStep
<1>5. CASE AdvanceStep(c)
    BY <1>5 DEF AdvanceStep, Untouched
<1>6. CASE CommitStep(c)
    BY <1>6 DEF CommitStep, Forget
<1>7. CASE GiveUpStep(c)
    BY <1>7 DEF GiveUpStep, Rollback, Forget
<1> QED BY <1>1, <1>2, <1>3, <1>4, <1>5, <1>6, <1>7 DEF Kind

LEMMA DeletesStep ==
    ASSUME Typed, IdleEmpty, Deletes, NEW c \in Calls, Kind(c)
    PROVE  Deletes'
<1> USE DEF Typed, Open, Moves, TransactionSteps, Past, Deletes, IdleEmpty, ToDelete
<1>1. CASE OutsideStep(c)
    BY <1>1 DEF OutsideStep, Untouched
<1>2. CASE LoadStep(c)
    BY <1>2 DEF LoadStep
<1>3. CASE DeleteStep(c)
    BY <1>3 DEF DeleteStep
<1>4. CASE InsertStep(c)
    BY <1>4 DEF InsertStep
<1>5. CASE AdvanceStep(c)
    BY <1>5 DEF AdvanceStep, Untouched
<1>6. CASE CommitStep(c)
    BY <1>6 DEF CommitStep, Forget
<1>7. CASE GiveUpStep(c)
    BY <1>7 DEF GiveUpStep, Rollback, Forget
<1> QED BY <1>1, <1>2, <1>3, <1>4, <1>5, <1>6, <1>7 DEF Kind

LEMMA DeletedStep ==
    ASSUME Typed, IdleEmpty, Authors, Inserts, Deleted, NEW c \in Calls, Kind(c)
    PROVE  Deleted'
<1> USE DEF Typed, Open, Moves, TransactionSteps, Past, Deleted, IdleEmpty, Authors, Inserts, ToDelete, AfterDelete
<1>1. CASE OutsideStep(c)
    BY <1>1 DEF OutsideStep, Untouched
<1>2. CASE LoadStep(c)
    BY <1>2 DEF LoadStep
<1>3. CASE DeleteStep(c)
    BY <1>3 DEF DeleteStep
<1>4. CASE InsertStep(c)
    BY <1>4 DEF InsertStep
<1>5. CASE AdvanceStep(c)
    BY <1>5 DEF AdvanceStep, Untouched
<1>6. CASE CommitStep(c)
    BY <1>6 DEF CommitStep, Forget
<1>7. CASE GiveUpStep(c)
    BY <1>7 DEF GiveUpStep, Rollback, Forget
<1> QED BY <1>1, <1>2, <1>3, <1>4, <1>5, <1>6, <1>7 DEF Kind

LEMMA NewFromOthersStep ==
    ASSUME Typed, Inserts, NewFromOthers, NEW c \in Calls, Kind(c)
    PROVE  NewFromOthers'
<1> USE DEF Typed, Open, Moves, TransactionSteps, Past, NewFromOthers, Inserts
<1>1. CASE OutsideStep(c)
    BY <1>1 DEF OutsideStep, Untouched
<1>2. CASE LoadStep(c)
    BY <1>2 DEF LoadStep
<1>3. CASE DeleteStep(c)
    BY <1>3 DEF DeleteStep
<1>4. CASE InsertStep(c)
    BY <1>4 DEF InsertStep
<1>5. CASE AdvanceStep(c)
    BY <1>5 DEF AdvanceStep, Untouched
<1>6. CASE CommitStep(c)
    BY <1>6 DEF CommitStep, Forget
<1>7. CASE GiveUpStep(c)
    BY <1>7 DEF GiveUpStep, Rollback, Forget
<1> QED BY <1>1, <1>2, <1>3, <1>4, <1>5, <1>6, <1>7 DEF Kind

LEMMA WantedStep ==
    ASSUME Typed, Deletes, Wanted, NEW c \in Calls, Kind(c)
    PROVE  Wanted'
<1> USE DEF Typed, Open, Moves, TransactionSteps, Past, Wanted, Deletes, EntriesOf
<1>1. CASE OutsideStep(c)
    BY <1>1 DEF OutsideStep, Untouched
<1>2. CASE LoadStep(c)
    BY <1>2 DEF LoadStep
<1>3. CASE DeleteStep(c)
    BY <1>3 DEF DeleteStep
<1>4. CASE InsertStep(c)
    <2> PICK e \in toInsert[c] :
            /\ added' = IF e \in EntriesOf(rows) THEN added
                        ELSE [added EXCEPT ![c] = @ \cup {[ent |-> e, by |-> c]}]
            /\ toInsert' = [toInsert EXCEPT ![c] = @ \ {e}]
        BY <1>4 DEF InsertStep
    <2>1. UNCHANGED <<rows, at, file, metFiles>>
        BY <1>4 DEF InsertStep
    <2>2. CASE e \in EntriesOf(rows)
        BY <2>1, <2>2
    <2>3. CASE e \notin EntriesOf(rows)
        <3>a. [ent |-> e, by |-> c] \in added'[c]
            BY <2>3
        <3>b. [ent |-> e, by |-> c].ent = e
            OBVIOUS
        <3>1. e \in EntriesOf(added'[c])
            BY <3>a, <3>b
        <3>2. \A d \in Calls : EntriesOf(added[d]) \subseteq EntriesOf(added'[d])
            BY <2>3
        <3> QED BY <2>1, <3>1, <3>2
    <2> QED BY <2>2, <2>3
<1>5. CASE AdvanceStep(c)
    BY <1>5 DEF AdvanceStep, Untouched
<1>6. CASE CommitStep(c)
    BY <1>6 DEF CommitStep, Forget
<1>7. CASE GiveUpStep(c)
    BY <1>7 DEF GiveUpStep, Rollback, Forget
<1> QED BY <1>1, <1>2, <1>3, <1>4, <1>5, <1>6, <1>7 DEF Kind

LEMMA InsertedStep ==
    ASSUME Typed, Inserted, NEW c \in Calls, Kind(c)
    PROVE  Inserted'
<1> USE DEF Typed, Open, Moves, TransactionSteps, Past, Inserted
<1>1. CASE OutsideStep(c)
    BY <1>1 DEF OutsideStep, Untouched
<1>2. CASE LoadStep(c)
    BY <1>2 DEF LoadStep
<1>3. CASE DeleteStep(c)
    BY <1>3 DEF DeleteStep
<1>4. CASE InsertStep(c)
    BY <1>4 DEF InsertStep
<1>5. CASE AdvanceStep(c)
    BY <1>5 DEF AdvanceStep, Untouched
<1>6. CASE CommitStep(c)
    BY <1>6 DEF CommitStep, Forget
<1>7. CASE GiveUpStep(c)
    BY <1>7 DEF GiveUpStep, Rollback, Forget
<1> QED BY <1>1, <1>2, <1>3, <1>4, <1>5, <1>6, <1>7 DEF Kind

LEMMA DeletionWantsNothingStep ==
    ASSUME Typed, DeletionWantsNothing, NEW c \in Calls, Kind(c)
    PROVE  DeletionWantsNothing'
<1>1. Deletion \in Calls
    BY DEF Calls
<1> QED
    BY <1>1 DEF Typed, DeletionWantsNothing, Kind, OutsideStep, LoadStep,
        DeleteStep, InsertStep, AdvanceStep, Untouched, CommitStep, GiveUpStep,
        Rollback, Forget

LEMMA OneRowStep ==
    ASSUME Typed, OneRowPerItem, Inserts, NEW c \in Calls, Kind(c)
    PROVE  OneRowPerItem'
<1>1. CASE UNCHANGED rows
    BY <1>1 DEF OneRowPerItem
<1>2. CASE CommitStep(c)
    <2>1. \A x, y \in added[c] : x.ent = y.ent => x = y
        BY DEF Typed, Row, Inserts
    <2>2. \A x \in added[c], y \in rows : x.ent # y.ent
        BY DEF Inserts, EntriesOf
    <2> QED BY <1>2, <2>1, <2>2 DEF CommitStep, OneRowPerItem
<1> QED
    BY <1>1, <1>2 DEF Kind, OutsideStep, LoadStep, DeleteStep, InsertStep,
        AdvanceStep, Untouched, GiveUpStep

LEMMA InvariantInit == SyncInit => Invariant
<1> SUFFICES ASSUME SyncInit PROVE Invariant
    OBVIOUS
<1> USE DEF SyncInit, None, Open, TransactionSteps
<1>1. SyncTypeOK
    <2> PICK f \in Earlier :
            /\ rows = {[ent |-> e, by |-> Before] : e \in f.file}
            /\ groupRow = [g \in Groups |->
                  IF g \in (GroupsOf(f.file) \ f.lost) \cup Pointed
                  THEN Source ELSE Absent]
        OBVIOUS
    <2>1. f.file \subseteq Entry
        BY SyncRunAssumption
    <2>2. rows \in SUBSET Row /\ OneRowPerItem
        BY <2>1 DEF Row, OneRowPerItem
    <2> QED BY <2>2 DEF SyncTypeOK, OneRowPerItem, Steps
<1>2. \A c \in Calls : ~Open(c) /\ at[c] = "uncalled"
    OBVIOUS
<1>3. IdleEmpty /\ Deletes /\ Inserted
    BY <1>2 DEF IdleEmpty, Deletes, Inserted
<1>4. DeletionWantsNothing
    BY DEF DeletionWantsNothing, Calls
<1>5. Authors
    BY SyncRunAssumption DEF Authors
<1>6. Inserts /\ Apart
    BY DEF Inserts, Apart
<1>7. Deleted
    BY <1>2 DEF Deleted, AfterDelete
<1>8. NewFromOthers /\ Wanted
    BY <1>2 DEF NewFromOthers, Wanted
<1> QED
    BY <1>1, <1>3, <1>4, <1>5, <1>6, <1>7, <1>8 DEF Invariant

LEMMA InvariantStep ==
    ASSUME Invariant, NEW c \in Calls,
           Call(c) \/ SyncStep(c) \/ StatementFails(c) \/ Cut(c)
    PROVE  Invariant' /\ Kind(c)
<1>1. Typed /\ OneRowPerItem
    BY TypeOKSplit DEF Invariant
<1>2. Kind(c)
    BY StepKinds DEF Invariant, Kind
<1>3. Typed' /\ OneRowPerItem'
    BY <1>1, <1>2, TypedStep, OneRowStep DEF Invariant
<1>4. SyncTypeOK'
    BY <1>3 DEF SyncTypeOK, Typed, OneRowPerItem
<1>5. IdleEmpty' /\ DeletionWantsNothing' /\ Inserted'
    BY <1>1, <1>2, IdleEmptyStep, DeletionWantsNothingStep, InsertedStep
    DEF Invariant
<1>6. Authors' /\ Inserts' /\ Apart'
    BY <1>1, <1>2, AuthorsStep, InsertsStep, ApartStep DEF Invariant
<1>7. Deletes' /\ Deleted'
    BY <1>1, <1>2, DeletesStep, DeletedStep DEF Invariant
<1>8. NewFromOthers' /\ Wanted'
    BY <1>1, <1>2, NewFromOthersStep, WantedStep DEF Invariant
<1> QED
    BY <1>2, <1>4, <1>5, <1>6, <1>7, <1>8 DEF Invariant

LEMMA InvariantStutters ==
    ASSUME Invariant, UNCHANGED syncVars
    PROVE  Invariant'
BY DEF Invariant, syncVars, database, transaction, SyncTypeOK, IdleEmpty,
    DeletionWantsNothing, Authors, Inserts, Apart, Deletes, Deleted,
    NewFromOthers, Wanted, Inserted, Open, ToDelete

THEOREM SyncInvariant == SyncSpec => []Invariant
<1>1. ASSUME Invariant, [SyncNext]_syncVars
      PROVE  Invariant'
    <2>1. CASE UNCHANGED syncVars
        BY <1>1, <2>1, InvariantStutters
    <2>2. CASE SyncNext
        BY <1>1, <2>2, InvariantStep DEF SyncNext
    <2> QED BY <1>1, <2>1, <2>2
<1> QED BY <1>1, InvariantInit, PTL DEF SyncSpec

\* Every variable of SyncRun has its type, and the source has one row for an
\* entry, however the statements of runs that insert it interleave.
THEOREM SyncTyped == SyncSpec => []SyncTypeOK
BY SyncInvariant, PTL DEF Invariant

-----------------------------------------------------------------------------
(* The refinement.                                                         *)

ActiveCalls == {c \in Calls : Open(c)}

Wants == [c \in Calls |-> IF Open(c) THEN file[c] ELSE {}]

LEMMA ContentsInit == SyncInit => Contents!Init
<1> SUFFICES ASSUME SyncInit PROVE Contents!Init
    OBVIOUS
<1>1. EntriesOf(rows) \subseteq Entry
    BY InvariantInit DEF Invariant, SyncTypeOK, Row, EntriesOf
<1> QED
    BY <1>1 DEF SyncInit, None, Open, TransactionSteps, Contents!Init

\* Outside its transaction and between two commits nothing shows.
LEMMA QuietStep ==
    ASSUME Typed, NEW c \in Calls,
           OutsideStep(c) \/ DeleteStep(c) \/ InsertStep(c) \/ AdvanceStep(c)
    PROVE  UNCHANGED Contents!vars
<1>1. UNCHANGED <<rows, metFiles>>
    BY DEF OutsideStep, DeleteStep, InsertStep, AdvanceStep, Untouched
<1>2. \A d \in Calls : Open(d)' <=> Open(d)
    BY DEF Typed, OutsideStep, DeleteStep, InsertStep, AdvanceStep, Moves, Open,
        TransactionSteps, Past
<1>3. \A d \in Calls : Open(d) => file'[d] = file[d]
    BY DEF Typed, OutsideStep, DeleteStep, InsertStep, AdvanceStep
<1>4. Wants' = Wants
    BY <1>2, <1>3 DEF Wants
<1>5. ActiveCalls' = ActiveCalls
    BY <1>2 DEF ActiveCalls
<1> QED
    BY <1>1, <1>4, <1>5 DEF Contents!vars, EntriesOf, Wants, ActiveCalls

LEMMA LoadStarts ==
    ASSUME Typed, NEW c \in Calls, LoadStep(c)
    PROVE  Contents!Start(c)
<1>1. /\ ~Open(c) /\ Open(c)'
      /\ \A d \in Calls \ {c} : Open(d)' <=> Open(d)
    BY DEF Typed, LoadStep, Moves, Open, TransactionSteps
<1>2. UNCHANGED <<rows, metFiles, file>>
    BY DEF LoadStep
<1>3. ActiveCalls' = ActiveCalls \cup {c} /\ c \notin ActiveCalls
    BY <1>1 DEF ActiveCalls
<1>4. Wants'[c] = file[c] /\ Wants' = [Wants EXCEPT ![c] = Wants'[c]]
    BY <1>1, <1>2 DEF Wants
<1>5. Wants'[c] \subseteq Entry
    BY <1>4 DEF Typed
<1> QED
    BY <1>2, <1>3, <1>4, <1>5
    DEF Contents!Start, EntriesOf, Wants, ActiveCalls

\* An open call that commits or gives up is no longer under way.
LEMMA Leaves ==
    ASSUME Typed, NEW c \in Calls, Open(c), Forget(c), Moves(c, Past)
    PROVE  c \in ActiveCalls /\ Contents!Leave(c)
<1>1. ~Open(c)' /\ \A d \in Calls \ {c} : Open(d)' <=> Open(d)
    BY DEF Typed, Moves, Open, TransactionSteps, Past
<1>2. \A d \in Calls \ {c} : file'[d] = file[d]
    BY DEF Typed, Forget
<1>3. ActiveCalls' = ActiveCalls \ {c} /\ c \in ActiveCalls
    BY <1>1 DEF ActiveCalls
<1>4. Wants' = [Wants EXCEPT ![c] = {}]
    BY <1>1, <1>2 DEF Wants
<1> QED
    BY <1>3, <1>4 DEF Contents!Leave, Wants, ActiveCalls

LEMMA CommitTakesEffect ==
    ASSUME Invariant, NEW c \in Calls, CommitStep(c)
    PROVE  Contents!TakeEffect(c)
<1> DEFINE R == rows
           W == file[c]
           Q == metFiles[c]
<1>1. Open(c) /\ Wants[c] = W /\ ToDelete(c) = {}
    BY DEF CommitStep, Open, TransactionSteps, Wants, Invariant, Deleted,
        AfterDelete
<1>2. rows' = (rows \ gone[c]) \cup added[c]
    BY DEF CommitStep
<1>3. EntriesOf(rows') \subseteq EntriesOf(rows) \cup W
    BY <1>2 DEF EntriesOf, Invariant, Inserts
<1>4. \A e \in W : e \in EntriesOf(rows) => e \in EntriesOf(rows')
    BY <1>2 DEF EntriesOf, Invariant, Deletes
<1>5. EntriesOf(rows') \subseteq UNION (Q \cup {W})
    <2> SUFFICES ASSUME NEW x \in rows'
                 PROVE  x.ent \in W \/ \E f \in Q : x.ent \in f
        BY DEF EntriesOf
    <2>1. CASE x \in added[c]
        BY <2>1 DEF Invariant, Inserts
    <2>2. CASE x \in rows \ gone[c] /\ x \in seen[c]
        BY <1>1, <2>2 DEF ToDelete
    <2>3. CASE x \in rows /\ x \notin seen[c]
        BY <1>1, <2>3 DEF Invariant, NewFromOthers
    <2> QED BY <1>2, <2>1, <2>2, <2>3
<1>6. ASSUME NEW e \in W, \A f \in Q : e \in f
      PROVE  e \in EntriesOf(rows')
    <2>1. CASE at[c] = "prune"
        <3>1. e \in EntriesOf(added[c]) \cup EntriesOf(rows)
            BY <1>1, <1>6, <2>1 DEF Invariant, Wanted, Inserted
        <3>2. EntriesOf(added[c]) \subseteq EntriesOf(rows')
            BY <1>2 DEF EntriesOf
        <3> QED BY <1>4, <3>1, <3>2
    <2>2. CASE c = Deletion
        BY <2>2 DEF Invariant, DeletionWantsNothing
    <2> QED BY <2>1, <2>2 DEF CommitStep
<1> QED
    BY <1>1, <1>3, <1>4, <1>5, <1>6
    DEF Contents!TakeEffect, Contents!AllOf, Wants

LEMMA CommitCommits ==
    ASSUME Invariant, NEW c \in Calls, CommitStep(c)
    PROVE  Contents!Commit(c)
<1>1. Typed /\ Open(c)
    BY TypeOKSplit DEF Invariant, CommitStep, Open, TransactionSteps
<1>2. c \in ActiveCalls /\ Contents!Leave(c)
    BY <1>1, Leaves DEF CommitStep
<1>3. metFiles' = [d \in Calls |->
                     IF d \in ActiveCalls \ {c} THEN metFiles[d] \cup {Wants[c]}
                     ELSE {}]
    BY <1>1 DEF CommitStep, ActiveCalls, Wants
<1> QED
    BY <1>2, <1>3, CommitTakesEffect DEF Contents!Commit, ActiveCalls, Wants

LEMMA GiveUpGivesUp ==
    ASSUME Invariant, NEW c \in Calls, GiveUpStep(c)
    PROVE  Contents!GiveUp(c) \/ UNCHANGED Contents!vars
<1>1. Typed
    BY TypeOKSplit DEF Invariant
<1>2. UNCHANGED rows /\ metFiles' = [metFiles EXCEPT ![c] = {}]
    BY DEF GiveUpStep, Rollback
<1>3. CASE Open(c)
    <2>1. c \in ActiveCalls /\ Contents!Leave(c)
        BY <1>1, <1>3, Leaves DEF GiveUpStep, Rollback
    <2> QED
        BY <1>2, <2>1 DEF Contents!GiveUp, EntriesOf, ActiveCalls
<1>4. CASE ~Open(c)
    <2>1. \A d \in Calls : Open(d)' <=> Open(d)
        BY <1>1, <1>4 DEF Typed, GiveUpStep, Moves, Open, TransactionSteps, Past
    <2>2. \A d \in Calls : Open(d) => file'[d] = file[d]
        BY <1>1, <1>4 DEF Typed, GiveUpStep, Rollback, Forget
    <2>3. metFiles' = metFiles
        BY <1>1, <1>2, <1>4 DEF Typed, Invariant, IdleEmpty
    <2>4. Wants' = Wants /\ ActiveCalls' = ActiveCalls
        BY <2>1, <2>2 DEF Wants, ActiveCalls
    <2> QED
        BY <1>2, <2>3, <2>4 DEF Contents!vars, EntriesOf, Wants, ActiveCalls
<1> QED BY <1>3, <1>4

\* However many runs of a source overlap, with each other and with its
\* deletion, whatever fails: each makes the source exactly its file if nobody
\* else committed meanwhile, and otherwise a mix of the files that met.
THEOREM RunsReplaceContents == SyncSpec => ReplacesContents
<1>1. ASSUME Invariant, [SyncNext]_syncVars
      PROVE  [Contents!Next]_Contents!vars
    <2>1. CASE UNCHANGED syncVars
        BY <2>1 DEF syncVars, database, Contents!vars, EntriesOf, Open, transaction
    <2>2. CASE SyncNext
        <3> PICK c \in Calls :
                Call(c) \/ SyncStep(c) \/ StatementFails(c) \/ Cut(c)
            BY <2>2 DEF SyncNext
        <3>1. Typed /\ Kind(c)
            BY <1>1, InvariantStep, TypeOKSplit DEF Invariant
        <3>2. CASE LoadStep(c)
            BY <3>1, <3>2, LoadStarts DEF Contents!Next
        <3>3. CASE CommitStep(c)
            BY <1>1, <3>3, CommitCommits DEF Contents!Next
        <3>4. CASE GiveUpStep(c)
            BY <1>1, <3>4, GiveUpGivesUp DEF Contents!Next
        <3> QED
            BY <3>1, <3>2, <3>3, <3>4, QuietStep DEF Kind
    <2> QED BY <1>1, <2>1, <2>2
<1> QED
    BY <1>1, ContentsInit, SyncInvariant, PTL
    DEF SyncSpec, ReplacesContents, Contents!Spec

-----------------------------------------------------------------------------
(* Group rows.                                                             *)

\* The groups of the file exist, are made by this run, or are still to come.
Grounded(c) ==
    at[c] \in {"insert", "prune"} /\ metFiles[c] = {} =>
        \A g \in GroupsOf(file[c]) :
            \/ groupRow[g] # Absent \/ g \in made[c]
            \/ at[c] = "insert" /\ g \in groupsLeft[c]

\* Nothing is in the groups a run prunes.
PrunesEmpty(c) ==
    at[c] = "prune" /\ metFiles[c] = {} =>
        \A g \in groupsLeft[c] \cup taken[c] :
            \A x \in VisibleRows(c) : x.ent.obj # g

TakesLate(c) == at[c] \notin {"prune", "handOver"} => taken[c] = {}

GroupInvariant == \A c \in Calls : Grounded(c) /\ PrunesEmpty(c) /\ TakesLate(c)

\* What a call is about stays as it is while others move, unless one commits.
LEMMA OthersLeaveIt ==
    ASSUME Typed, NEW c \in Calls, NEW d \in Calls \ {c},
           Call(c) \/ SyncStep(c) \/ StatementFails(c) \/ Cut(c)
    PROVE  /\ at'[d] = at[d] /\ file'[d] = file[d] /\ taken'[d] = taken[d]
           /\ made'[d] = made[d] /\ groupsLeft'[d] = groupsLeft[d]
           /\ gone'[d] = gone[d] /\ added'[d] = added[d]
           /\ Open(d) /\ metFiles'[d] = {} =>
                 /\ metFiles[d] = {} /\ rows' = rows
                 /\ \A g \in Groups : groupRow[g] # Absent => groupRow'[g] # Absent
<1> USE DEF Typed, To, Open, TransactionSteps, database, transaction
<1>1. CASE Call(c)
    BY <1>1 DEF Call
<1>2. CASE c \in Runs /\ CreateSyncLog(c)
    BY <1>2 DEF CreateSyncLog
<1>3. CASE c \in Runs /\ Read(c)
    BY <1>3 DEF Read
<1>4. CASE c \in Runs /\ CheckOwnership(c)
    BY <1>4 DEF CheckOwnership
<1>5. CASE Load(c)
    BY <1>5 DEF Load
<1>6. CASE DeleteRow(c)
    BY <1>6 DEF DeleteRow
<1>7. CASE ReadGroups(c)
    BY <1>7 DEF ReadGroups
<1>8. CASE InsertGroup(c)
    BY <1>8 DEF InsertGroup
<1>9. CASE InsertRow(c)
    BY <1>9 DEF InsertRow
<1>10. CASE SelectEmpty(c)
    BY <1>10 DEF SelectEmpty
<1>11. CASE SelectOwn(c)
    BY <1>11 DEF SelectOwn
<1>12. CASE WriteGroup(c)
    BY <1>12 DEF WriteGroup
<1>13. CASE (c \in Runs /\ CommitRun(c)) \/ CommitDeletion(c)
    <2>1. Forget(c)
        BY <1>13 DEF CommitRun, CommitDeletion, Publish
    <2>2. metFiles' = [x \in Calls |->
              IF x # c /\ Open(x) THEN metFiles[x] \cup {file[c]} ELSE {}]
        BY <1>13 DEF CommitRun, CommitDeletion, Publish
    <2>3. at'[d] = at[d]
        BY <1>13 DEF CommitRun, CommitDeletion
    <2>4. ~(Open(d) /\ metFiles'[d] = {})
        BY <2>2
    <2> QED BY <2>1, <2>3, <2>4 DEF Forget
<1>14. CASE c \in Runs /\ CloseLog(c)
    BY <1>14 DEF CloseLog
<1>15. CASE AdoptOrphans(c)
    <2>1. Local # Absent
        BY GroupStoreAssumption DEF Owners
    <2>2. \A g \in Groups : groupRow[g] # Absent => groupRow'[g] # Absent
        BY <1>15, <2>1 DEF AdoptOrphans, Reowned
    <2> QED BY <1>15, <2>2 DEF AdoptOrphans
<1>16. CASE Failing(c)
    BY <1>16 DEF Failing, Rollback, Forget
<1>17. CASE Cut(c)
    BY <1>17 DEF Cut, Rollback, Forget
<1> HIDE DEF Typed, To, Open, database, transaction
<1> QED
    BY <1>1, <1>2, <1>3, <1>4, <1>5, <1>6, <1>7, <1>8, <1>9, <1>10, <1>11,
       <1>12, <1>13, <1>14, <1>15, <1>16, <1>17
    DEF SyncStep, RunSync, DeleteSourceCall, Deadlocked, StatementFails

LEMMA OthersKeepGroups ==
    ASSUME Typed, NEW c \in Calls, NEW d \in Calls \ {c},
           Call(c) \/ SyncStep(c) \/ StatementFails(c) \/ Cut(c),
           Grounded(d), PrunesEmpty(d), TakesLate(d)
    PROVE  Grounded(d)' /\ PrunesEmpty(d)' /\ TakesLate(d)'
<1>1. /\ at'[d] = at[d] /\ file'[d] = file[d] /\ taken'[d] = taken[d]
      /\ made'[d] = made[d] /\ groupsLeft'[d] = groupsLeft[d]
      /\ gone'[d] = gone[d] /\ added'[d] = added[d]
      /\ Open(d) /\ metFiles'[d] = {} =>
            /\ metFiles[d] = {} /\ rows' = rows
            /\ \A g \in Groups : groupRow[g] # Absent => groupRow'[g] # Absent
    BY OthersLeaveIt
<1>2. TakesLate(d)'
    BY <1>1 DEF TakesLate
<1>3. PrunesEmpty(d)'
    BY <1>1 DEF PrunesEmpty, VisibleRows, Open, TransactionSteps
<1>4. Grounded(d)'
    <2>1. GroupsOf(file[d]) \subseteq Groups
        BY DEF Typed, GroupsOf, Entry
    <2> QED BY <1>1, <2>1 DEF Grounded, Open, TransactionSteps
<1> QED BY <1>2, <1>3, <1>4

\* What a call itself does.
LEMMA KeepsItsGroups ==
    ASSUME Typed, NEW c \in Calls,
           Call(c) \/ SyncStep(c) \/ StatementFails(c) \/ Cut(c),
           Grounded(c), PrunesEmpty(c), TakesLate(c)
    PROVE  Grounded(c)' /\ PrunesEmpty(c)' /\ TakesLate(c)'
<1> USE DEF Typed, To
<1>1. ASSUME at'[c] \notin {"insert", "prune", "handOver"}, taken'[c] = {}
      PROVE  Grounded(c)' /\ PrunesEmpty(c)' /\ TakesLate(c)'
    BY <1>1 DEF Grounded, PrunesEmpty, TakesLate
<1>2. CASE \/ Call(c) \/ (c \in Runs /\ CreateSyncLog(c)) \/ (c \in Runs /\ Read(c))
           \/ (c \in Runs /\ CheckOwnership(c)) \/ Load(c) \/ DeleteRow(c)
           \/ (c \in Runs /\ CloseLog(c)) \/ AdoptOrphans(c)
    <2>1. at[c] \notin {"insert", "prune", "handOver"} /\ taken' = taken
        BY <1>2 DEF Call, CreateSyncLog, Read, CheckOwnership, Load, DeleteRow,
            CloseLog, AdoptOrphans, transaction
    <2>2. at'[c] \notin {"insert", "prune", "handOver"}
        BY <1>2 DEF Call, CreateSyncLog, Read, CheckOwnership, Load, DeleteRow,
            CloseLog, AdoptOrphans
    <2> QED BY <1>1, <2>1, <2>2 DEF TakesLate
<1>3. CASE (c \in Runs /\ CommitRun(c)) \/ CommitDeletion(c) \/ Failing(c) \/ Cut(c)
    <2>1. taken'[c] = {}
        BY <1>3 DEF CommitRun, CommitDeletion, Publish, Failing, Cut, Rollback, Forget
    <2>2. at'[c] \notin {"insert", "prune", "handOver"}
        BY <1>3 DEF CommitRun, CommitDeletion, Failing, Cut
    <2> QED BY <1>1, <2>1, <2>2
<1>4. CASE ReadGroups(c)
    <2>1. /\ at'[c] = "insert" /\ taken'[c] = {} /\ file' = file /\ groupRow' = groupRow
          /\ groupsLeft'[c] = {g \in GroupsOf(file[c]) : groupRow[g] = Absent}
        BY <1>4 DEF ReadGroups, TakesLate, database
    <2> QED BY <2>1 DEF Grounded, PrunesEmpty, TakesLate
<1>5. CASE InsertGroup(c)
    <2>1. PICK g \in groupsLeft[c] :
              /\ made' = IF groupRow[g] # Absent THEN made
                         ELSE [made EXCEPT ![c] = @ \cup {g}]
              /\ groupsLeft' = [groupsLeft EXCEPT ![c] = @ \ {g}]
        BY <1>5 DEF InsertGroup
    <2>2. /\ at[c] = "insert" /\ at' = at /\ taken' = taken /\ file' = file
          /\ groupRow' = groupRow /\ metFiles' = metFiles
        BY <1>5 DEF InsertGroup, database
    <2> QED BY <2>1, <2>2 DEF Grounded, PrunesEmpty, TakesLate
<1>6. CASE InsertRow(c)
    <2>1. /\ at[c] = "insert" /\ at' = at /\ taken' = taken /\ file' = file
          /\ groupRow' = groupRow /\ metFiles' = metFiles
          /\ made' = made /\ groupsLeft' = groupsLeft
        BY <1>6 DEF InsertRow, database
    <2> QED BY <2>1 DEF Grounded, PrunesEmpty, TakesLate
<1>7. CASE SelectEmpty(c)
    <2>1. /\ at[c] = "insert" /\ groupsLeft[c] = {}
          /\ at'[c] = "prune" /\ taken' = taken /\ file' = file
          /\ groupRow' = groupRow /\ metFiles' = metFiles /\ made' = made
          /\ rows' = rows /\ gone' = gone /\ added' = added
          /\ groupsLeft'[c] = Empty(c)
        BY <1>7 DEF SelectEmpty, database
    <2>2. taken[c] = {}
        BY <2>1 DEF TakesLate
    <2>3. \A g \in Empty(c) : \A x \in VisibleRows(c) : x.ent.obj # g
        BY DEF Empty
    <2> QED BY <2>1, <2>2, <2>3 DEF Grounded, PrunesEmpty, TakesLate, VisibleRows
<1>8. CASE SelectOwn(c)
    <2>1. at'[c] = "handOver"
        BY <1>8 DEF SelectOwn
    <2> QED BY <2>1 DEF Grounded, PrunesEmpty, TakesLate
<1>9. CASE WriteGroup(c)
    <2>1. PICK g \in groupsLeft[c] :
              /\ taken' = IF Own(c, g) THEN [taken EXCEPT ![c] = @ \cup {g}]
                          ELSE taken
              /\ groupsLeft' = [groupsLeft EXCEPT ![c] = @ \ {g}]
        BY <1>9 DEF WriteGroup
    <2>2. /\ at[c] \in {"prune", "handOver"} /\ at' = at /\ file' = file
          /\ groupRow' = groupRow /\ metFiles' = metFiles /\ made' = made
          /\ rows' = rows /\ gone' = gone /\ added' = added
        BY <1>9 DEF WriteGroup, database
    <2>3. groupsLeft'[c] \cup taken'[c] \subseteq groupsLeft[c] \cup taken[c]
        BY <2>1
    <2> QED BY <2>2, <2>3 DEF Grounded, PrunesEmpty, TakesLate, VisibleRows
<1> HIDE DEF Typed, To
<1> QED
    BY <1>2, <1>3, <1>4, <1>5, <1>6, <1>7, <1>8, <1>9
    DEF SyncStep, RunSync, DeleteSourceCall, Deadlocked, StatementFails

\* What an undisturbed run leaves is in its file, and its groups are there.
LEMMA CommitHasGroups ==
    ASSUME Invariant, GroupInvariant, NEW r \in Runs,
           CommitRun(r), metFiles[r] = {}
    PROVE  \A x \in rows' : groupRow'[x.ent.obj] # Absent
<1> SUFFICES ASSUME NEW x \in rows'
             PROVE  groupRow'[x.ent.obj] # Absent
    OBVIOUS
<1> DEFINE g == x.ent.obj
<1>1. /\ r \in Calls /\ at[r] = "prune" /\ groupsLeft[r] = {} /\ Open(r)
      /\ rows' = VisibleRows(r)
      /\ groupRow' = [h \in Groups |->
             IF h \in taken[r] THEN Absent
             ELSE IF h \in made[r] THEN Source ELSE groupRow[h]]
    BY DEF CommitRun, Publish, VisibleRows, Calls, Open, TransactionSteps
<1>2. rows \subseteq seen[r]
    BY <1>1 DEF Invariant, NewFromOthers
<1>3. x.ent \in file[r]
    <2>1. CASE x \in added[r]
        BY <1>1, <2>1 DEF Invariant, Inserts
    <2>2. CASE x \in rows \ gone[r]
        <3>1. ToDelete(r) = {}
            BY <1>1 DEF Invariant, Deleted, AfterDelete
        <3> QED BY <1>2, <2>2, <3>1 DEF ToDelete
    <2> QED BY <1>1, <2>1, <2>2 DEF VisibleRows
<1>4. g \in GroupsOf(file[r]) /\ g \in Groups
    <2>1. file[r] \subseteq Entry
        BY <1>1 DEF Invariant, SyncTypeOK
    <2> QED BY <1>3, <2>1 DEF GroupsOf, Entry
<1>5. groupRow[g] # Absent \/ g \in made[r]
    BY <1>1, <1>4 DEF GroupInvariant, Grounded
<1>6. g \notin taken[r]
    BY <1>1 DEF GroupInvariant, PrunesEmpty
<1>7. Source # Absent
    BY SyncRunAssumption, GroupStoreAssumption DEF Owners
<1> QED BY <1>1, <1>4, <1>5, <1>6, <1>7

LEMMA GroupInvariantStep ==
    ASSUME Invariant, GroupInvariant, [SyncNext]_syncVars
    PROVE  GroupInvariant'
<1>1. Typed
    BY TypeOKSplit DEF Invariant
<1>2. CASE UNCHANGED syncVars
    BY <1>2 DEF syncVars, database, transaction, GroupInvariant, Grounded,
        PrunesEmpty, TakesLate, VisibleRows
<1>3. CASE SyncNext
    <2>1. PICK c \in Calls : Call(c) \/ SyncStep(c) \/ StatementFails(c) \/ Cut(c)
        BY <1>3 DEF SyncNext
    <2>2. ASSUME NEW d \in Calls
          PROVE  Grounded(d)' /\ PrunesEmpty(d)' /\ TakesLate(d)'
        <3>1. Grounded(d) /\ PrunesEmpty(d) /\ TakesLate(d)
            BY DEF GroupInvariant
        <3>2. CASE d = c
            BY <1>1, <2>1, <3>1, <3>2, KeepsItsGroups
        <3>3. CASE d # c
            BY <1>1, <2>1, <3>1, <3>3, OthersKeepGroups
        <3> QED BY <3>2, <3>3
    <2> QED BY <2>2 DEF GroupInvariant
<1> QED BY <1>2, <1>3

\* UndisturbedHasGroupsAlways: a run that overlaps with no other commit leaves
\* every entry of the source with a group row, for any number of runs and any
\* files (postgres.go:902-920, 960-965).
THEOREM UndisturbedHasGroupsAlways == SyncSpec => UndisturbedHasGroups
<1>1. SyncInit => GroupInvariant
    BY DEF SyncInit, None, GroupInvariant, Grounded, PrunesEmpty, TakesLate
<1>2. Invariant /\ GroupInvariant /\ [SyncNext]_syncVars => GroupInvariant'
    BY GroupInvariantStep
<1>3. Invariant /\ GroupInvariant => GroupsForAll
    BY CommitHasGroups DEF GroupsForAll
<1> QED
    BY <1>1, <1>2, <1>3, SyncInvariant, PTL DEF SyncSpec, UndisturbedHasGroups

-----------------------------------------------------------------------------
(* The import.                                                             *)

\* No header names a column twice: the code takes the later of the two and
\* says nothing of the other (csv_importer.go:110-132).
OneColumnEach ==
    \A row \in Rows : IsHeader(row) =>
        \A n \in Columns, i, j \in DOMAIN row :
            Heads[row[i]] = n /\ Heads[row[j]] = n => i = j

RowSays(row) ==
    {[obj |-> AsGroup[g], rel |-> AsRelation[r], sub |-> AsMember[m]] :
        g \in Under(row, "group") \ {Blank},
        m \in Under(row, "member") \ {Blank},
        r \in IF Under(row, "relation") = {} THEN {Blank}
              ELSE Under(row, "relation")}

ObjectSays(o) ==
    {[obj |-> AsGroup[RoleOf[o.cn].cn], rel |-> RoleOf[o.cn].rel,
      sub |-> AsMember[w]] : w \in o.addresses \ {Blank}}

Says == IF format = "csv" THEN CSVSays ELSE LDIFSays

\* What the reader looks for at an entry, before the relations are checked.
Sound(e) ==
    /\ Malformed \notin {e.obj, e.sub}
    /\ format = "ldif" => e.sub.type = "user"

\* The reader looks for a cell where the header puts it.
FindsColumns ==
    \A row \in Rows, n \in Columns :
        Under(row, n) = IF columns[n] \in DOMAIN row THEN {row[columns[n]]} ELSE {}

ImportInv ==
    /\ format \in {"csv", "ldif"}
    /\ lines \in Seq(IF format = "csv" THEN Rows ELSE Objects)
    /\ step \in {"reading", "checking"} =>
           ~Unclear /\ found = Says /\ \A e \in found : Sound(e)
    /\ step = "reading" /\ format = "csv" => FindsColumns
    /\ ImportsWhatItSays

\* Where the header has a column.
LEMMA ColumnOfHeader ==
    ASSUME OneColumnEach, NEW row \in Rows, IsHeader(row), NEW n \in Columns
    PROVE  /\ HeaderColumns(row)[n] = 0 <=> \A i \in DOMAIN row : Heads[row[i]] # n
           /\ \A j \in DOMAIN row : Heads[row[j]] = n <=> j = HeaderColumns(row)[n]
           /\ HeaderColumns(row)[n] # 0 => HeaderColumns(row)[n] \in DOMAIN row
<1> DEFINE I == {i \in 1 .. Len(row) : Heads[row[i]] = n}
<1>1. row \in Seq(DOMAIN AsGroup)
    BY ImportAssumption
<1>2. DOMAIN row = 1 .. Len(row) /\ 0 \notin DOMAIN row
    BY <1>1
<1>3. HeaderColumns(row)[n] = IF I # {} THEN Max(I) ELSE 0
    BY DEF HeaderColumns, SelectLastInSeq
<1>4. CASE I = {}
    BY <1>2, <1>3, <1>4
<1>5. CASE I # {}
    <2>1. PICK i \in DOMAIN row : Heads[row[i]] = n
        BY <1>2, <1>5
    <2>2. \A j \in DOMAIN row : Heads[row[j]] = n <=> j = i
        BY <2>1 DEF OneColumnEach
    <2>3. I = {i} /\ i \in Nat
        BY <1>1, <1>2, <2>1, <2>2
    <2>4. Max(I) = i
        BY <2>3 DEF Max
    <2> QED BY <1>2, <1>3, <1>5, <2>1, <2>2, <2>4
<1> QED BY <1>4, <1>5

\* What a row adds to what is found, once it is known where its cells are.
LEMMA RowFound ==
    ASSUME NEW row \in Rows, FindsColumns
    PROVE  LET g == Cell(row, "group")
               m == Cell(row, "member")
           IN  RowSays(row) =
                   IF Blank \in {g, m} THEN {}
                   ELSE {[obj |-> AsGroup[g],
                          rel |-> AsRelation[Cell(row, "relation")],
                          sub |-> AsMember[m]]}
<1> DEFINE g == Cell(row, "group")
           m == Cell(row, "member")
           r == Cell(row, "relation")
<1>1. ASSUME NEW n \in Columns
      PROVE  Under(row, n) \ {Blank} = {Cell(row, n)} \ {Blank}
    BY DEF FindsColumns, Cell
<1>2. /\ Under(row, "group") \ {Blank} = {g} \ {Blank}
      /\ Under(row, "member") \ {Blank} = {m} \ {Blank}
    BY <1>1 DEF Columns
<1>3. (IF Under(row, "relation") = {} THEN {Blank} ELSE Under(row, "relation")) = {r}
    BY DEF FindsColumns, Cell, Columns
<1>4. RowSays(row) = {[obj |-> AsGroup[x], rel |-> AsRelation[z], sub |-> AsMember[y]] :
                         x \in {g} \ {Blank}, y \in {m} \ {Blank}, z \in {r}}
    BY <1>2, <1>3 DEF RowSays
<1> HIDE DEF g, m, r
<1>5. CASE Blank \in {g, m}
    <2>1. {g} \ {Blank} = {} \/ {m} \ {Blank} = {}
        BY <1>5
    <2>2. RowSays(row) = {}
        BY <1>4, <2>1
    <2> QED BY <1>5, <2>2 DEF g, m, r
<1>6. CASE Blank \notin {g, m}
    <2>1. {g} \ {Blank} = {g} /\ {m} \ {Blank} = {m}
        BY <1>6
    <2>2. RowSays(row) = {[obj |-> AsGroup[g], rel |-> AsRelation[r], sub |-> AsMember[m]]}
        BY <1>4, <2>1
    <2> QED BY <1>6, <2>2 DEF g, m, r
<1> QED BY <1>5, <1>6

LEMMA SaysByLine ==
    /\ CSVSays = UNION {RowSays(row) : row \in DataRows}
    /\ CSVSays' = UNION {RowSays(row)' : row \in DataRows'}
    /\ LDIFSays = UNION {ObjectSays(o) : o \in {x \in Range(lines) : x.isGroup /\ x.cn # Blank}}
    /\ LDIFSays' = UNION {ObjectSays(o) : o \in {x \in Range(lines') : x.isGroup /\ x.cn # Blank}}
BY DEF CSVSays, LDIFSays, RowSays, ObjectSays

LEMMA InitImport == ImportInit => ImportInv
<1> SUFFICES ASSUME ImportInit
             PROVE  ImportInv
    OBVIOUS
<1>1. ~HasHeader /\ DOMAIN lines = {}
    BY DEF ImportInit, HasHeader
<1>2. Range(lines) = {} /\ DataRows = {}
    BY <1>1 DEF Range, DataRows
<1>3. Says = {} /\ ~Unclear
    BY <1>1, <1>2, SaysByLine DEF Says, Unclear, CSVUnclear, EmptyObjectWrong
<1>4. FindsColumns
    <2> SUFFICES ASSUME NEW row \in Rows, NEW n \in Columns
                 PROVE  Under(row, n) = IF columns[n] \in DOMAIN row
                                        THEN {row[columns[n]]} ELSE {}
        BY DEF FindsColumns
    <2>1. row \in Seq(DOMAIN AsGroup)
        BY ImportAssumption
    <2>2. 0 \notin DOMAIN row
        BY <2>1
    <2>3. columns["group"] = 1 /\ columns["member"] = 2 /\ columns["relation"] = 0
        BY DEF ImportInit
    <2>4. Under(row, n) = {row[i] : i \in {j \in DOMAIN row :
                               (j = 1 /\ n = "group") \/ (j = 2 /\ n = "member")}}
        BY <1>1 DEF Under
    <2>5. CASE n = "group"
        BY <2>3, <2>4, <2>5
    <2>6. CASE n = "member"
        BY <2>3, <2>4, <2>6
    <2>7. CASE n = "relation"
        BY <2>2, <2>3, <2>4, <2>7
    <2> QED BY <2>5, <2>6, <2>7 DEF Columns
<1>5. step = "reading" /\ found = {} /\ format \in {"csv", "ldif"}
    BY DEF ImportInit
<1>6. lines \in Seq(IF format = "csv" THEN Rows ELSE Objects)
    BY DEF ImportInit
<1>7. ImportsWhatItSays
    BY <1>5 DEF ImportsWhatItSays
<1> QED BY <1>3, <1>4, <1>5, <1>6, <1>7 DEF ImportInv

LEMMA LineMore ==
    ASSUME NEW T, lines \in Seq(T), NEW x, TakeLine(x)
    PROVE  /\ Range(lines') = Range(lines) \cup {x}
           /\ lines' # <<>> /\ lines'[1] = IF lines = <<>> THEN x ELSE lines[1]
           /\ lines = <<>> => lines' = <<x>>
           /\ format' = format
<1> DEFINE n == Len(lines) + 1
<1>1. /\ lines' = Append(lines, x) /\ format' = format
    BY DEF TakeLine
<1>2. /\ DOMAIN lines' = DOMAIN lines \cup {n} /\ lines'[n] = x
      /\ \A i \in DOMAIN lines : lines'[i] = lines[i]
    BY <1>1
<1>3. Range(lines') = Range(lines) \cup {x}
    BY <1>2 DEF Range
<1>4. lines # <<>> => 1 \in DOMAIN lines
    <2>1. lines # <<>> => Len(lines) \in Nat /\ Len(lines) > 0
        OBVIOUS
    <2> QED BY <2>1
<1>5. lines = <<>> => lines' = <<x>>
    BY <1>1
<1> QED BY <1>1, <1>2, <1>3, <1>4, <1>5

LEMMA HeaderRead ==
    ASSUME OneColumnEach, ImportInv, NEW row \in Rows, ReadRow(row),
           lines = <<>>, IsHeader(row)
    PROVE  ImportInv'
<1>1. /\ format = "csv" /\ format' = "csv" /\ step = "reading"
      /\ lines' = <<row>> /\ lines' \in Seq(Rows)
      /\ ReadHeader(row)
    <2>1. lines \in Seq(Rows)
        BY DEF ImportInv, ReadRow
    <2>2. TakeLine(row)
        BY DEF ReadRow
    <2>3. lines' = <<row>> /\ format' = format
        BY <2>1, <2>2, LineMore
    <2>4. ReadHeader(row)
        BY DEF ReadRow
    <2> QED BY <2>3, <2>4 DEF ReadRow, MoreLines
<1>2. lines'[1] = row /\ DOMAIN lines' = {1} /\ HasHeader'
    BY <1>1 DEF HasHeader, IsHeader
<1>3. DataRows' = {} /\ DataRows = {}
    <2>1. DataRows' = {}
        BY <1>2 DEF DataRows
    <2>2. DataRows = {}
        BY DEF DataRows
    <2> QED BY <2>1, <2>2
<1>4. Says' = {} /\ Says = {}
    BY <1>1, <1>3, SaysByLine DEF Says
<1>5. Unclear' <=> \/ \E i \in DOMAIN row : Heads[row[i]] = "unknown"
                   \/ HeaderColumns(row)["member"] = 0
    <2>1. HeaderColumns(row)["member"] = 0 <=>
              \A i \in DOMAIN row : Heads[row[i]] # "member"
        BY ColumnOfHeader DEF Columns
    <2> QED BY <1>1, <1>2, <2>1 DEF Unclear, CSVUnclear
<1>6. CASE Unclear'
    <2>1. step' = "refused"
        BY <1>1, <1>5, <1>6 DEF ReadHeader, Refuse
    <2> QED BY <1>1, <1>6, <2>1 DEF ImportInv, ImportsWhatItSays
<1>7. CASE ~Unclear'
    <2>1. columns' = HeaderColumns(row) /\ found' = found /\ step' = "reading"
        BY <1>1, <1>5, <1>7 DEF ReadHeader
    <2>2. found' = {}
        BY <1>1, <1>4, <2>1 DEF ImportInv
    <2>3. FindsColumns'
        <3> SUFFICES ASSUME NEW r \in Rows, NEW n \in Columns
                     PROVE  Under(r, n)' = IF columns'[n] \in DOMAIN r
                                           THEN {r[columns'[n]]} ELSE {}
            BY DEF FindsColumns
        <3>1. 0 \notin DOMAIN r
            BY ImportAssumption
        <3>2. Under(r, n)' = {r[i] : i \in {j \in DOMAIN r :
                                  j \in DOMAIN row /\ Heads[row[j]] = n}}
            BY <1>2 DEF Under
        <3>3. ASSUME NEW j \in DOMAIN r
              PROVE  (j \in DOMAIN row /\ Heads[row[j]] = n) <=> j = columns'[n]
            BY <2>1, <3>1, ColumnOfHeader
        <3> QED BY <3>2, <3>3
    <2> QED BY <1>1, <1>4, <1>7, <2>1, <2>2, <2>3 DEF ImportInv, ImportsWhatItSays
<1> QED BY <1>6, <1>7

LEMMA MembershipRead ==
    ASSUME ImportInv, NEW row \in Rows, ReadRow(row),
           ~(lines = <<>> /\ IsHeader(row))
    PROVE  ImportInv'
<1>0. PICK g, m, r : g = Cell(row, "group") /\ m = Cell(row, "member")
                     /\ r = Cell(row, "relation")
    OBVIOUS
<1> DEFINE e == [obj |-> AsGroup[g], rel |-> AsRelation[r], sub |-> AsMember[m]]
<1>1. /\ format = "csv" /\ format' = "csv" /\ step = "reading"
      /\ TakeLine(row) /\ ReadMembership(row) /\ lines \in Seq(Rows)
    BY DEF ReadRow, MoreLines, TakeLine, ImportInv
<1>2. lines' \in Seq(Rows)
    BY <1>1 DEF TakeLine
<1>3. /\ Range(lines') = Range(lines) \cup {row}
      /\ lines' # <<>> /\ lines'[1] = IF lines = <<>> THEN row ELSE lines[1]
    BY <1>1, LineMore
<1>4. /\ HasHeader' <=> HasHeader
      /\ HasHeader => lines'[1] = lines[1]
    BY <1>3 DEF HasHeader, IsHeader
<1>5. DataRows' = DataRows \cup {row}
    <2> DEFINE n == Len(lines) + 1
    <2>1. /\ DOMAIN lines' = DOMAIN lines \cup {n} /\ lines'[n] = row
          /\ n \in Nat /\ \A i \in DOMAIN lines : lines'[i] = lines[i]
        BY <1>1 DEF TakeLine
    <2>2. HasHeader => n > 1
        <3>1. lines # <<>> => Len(lines) \in Nat /\ Len(lines) > 0
            BY <1>1
        <3> QED BY <3>1 DEF HasHeader
    <2> HIDE DEF n
    <2>3. {i \in DOMAIN lines' : HasHeader' => i > 1} =
              {i \in DOMAIN lines : HasHeader => i > 1} \cup {n}
        BY <1>4, <2>1, <2>2
    <2> QED BY <2>1, <2>3 DEF DataRows
<1>6. \A x, n : Under(x, n)' = Under(x, n)
    BY <1>4 DEF Under
<1>7. Says' = Says \cup RowSays(row)
    <2>1. \A x : RowSays(x)' = RowSays(x)
        BY <1>6 DEF RowSays
    <2>2. CSVSays' = UNION {RowSays(x) : x \in DataRows'}
        BY <2>1, SaysByLine
    <2>3. CSVSays' = CSVSays \cup RowSays(row)
        BY <1>5, <2>2, SaysByLine
    <2> QED BY <1>1, <2>3 DEF Says
<1>8. Unclear' <=> Unclear
    BY <1>1, <1>4 DEF Unclear, CSVUnclear
<1>9. ~Unclear /\ found = Says /\ (\A x \in found : Sound(x)) /\ FindsColumns
    BY <1>1 DEF ImportInv
<1>10. RowSays(row) = IF Blank \in {g, m} THEN {} ELSE {e}
    BY <1>0, <1>9, RowFound
<1> HIDE DEF e
<1>11. columns' = columns => FindsColumns'
    BY <1>6, <1>9 DEF FindsColumns
<1>12. \A x : Sound(x) => Sound(x)'
    BY <1>1 DEF Sound
<1>13. CASE Blank \in {g, m}
    <2>1. columns' = columns /\ found' = found /\ step' = step
        BY <1>0, <1>1, <1>13 DEF ReadMembership, Skip
    <2>2. Says' = Says
        BY <1>7, <1>10, <1>13
    <2> QED BY <1>1, <1>2, <1>8, <1>9, <1>11, <1>12, <2>1, <2>2
            DEF ImportInv, ImportsWhatItSays
<1>14. CASE Blank \notin {g, m} /\ Malformed \in {AsGroup[g], AsMember[m]}
    <2>1. step' = "refused"
        BY <1>0, <1>1, <1>14 DEF ReadMembership, Refuse
    <2>2. e \in Says' /\ Wrong(e)'
        BY <1>7, <1>10, <1>14 DEF Wrong, e
    <2>3. ImportsWhatItSays'
        BY <2>1, <2>2 DEF ImportsWhatItSays, Says
    <2> QED BY <1>1, <1>2, <2>1, <2>3 DEF ImportInv
<1>15. CASE Blank \notin {g, m} /\ Malformed \notin {AsGroup[g], AsMember[m]}
    <2>1. columns' = columns /\ found' = found \cup {e} /\ step' = step
        BY <1>0, <1>1, <1>15 DEF ReadMembership, Find, e
    <2>2. found' = Says'
        BY <1>7, <1>9, <1>10, <1>15, <2>1
    <2>3. Sound(e)'
        BY <1>1, <1>15 DEF Sound, e
    <2>4. \A x \in found' : Sound(x)'
        BY <1>9, <1>12, <2>1, <2>3
    <2> QED BY <1>1, <1>2, <1>8, <1>9, <1>11, <2>1, <2>2, <2>4
            DEF ImportInv, ImportsWhatItSays
<1> QED BY <1>13, <1>14, <1>15

LEMMA ObjectRead ==
    ASSUME ImportInv, NEW o \in Objects, ReadObject(o)
    PROVE  ImportInv'
<1> DEFINE group == AsGroup[RoleOf[o.cn].cn]
           named == {AsMember[w] : w \in o.addresses \ {Blank}}
           news == {[obj |-> group, rel |-> RoleOf[o.cn].rel, sub |-> m] : m \in named}
<1>1. /\ format = "ldif" /\ format' = "ldif" /\ step = "reading"
      /\ TakeLine(o) /\ lines \in Seq(Objects)
      /\ IF ~o.isGroup \/ o.cn = Blank THEN Skip
         ELSE IF group = Malformed \/ \E m \in named : m = Malformed \/ m.type # "user"
         THEN Refuse
         ELSE Find(news)
    BY DEF ReadObject, MoreLines, TakeLine, ImportInv
<1>2. lines' \in Seq(Objects) /\ Range(lines') = Range(lines) \cup {o}
    <2>1. Range(lines') = Range(lines) \cup {o}
        BY <1>1, LineMore
    <2> QED BY <1>1, <2>1 DEF TakeLine
<1>3. ~Unclear /\ found = Says /\ \A e \in found : Sound(e)
    BY <1>1 DEF ImportInv
<1>4. Unclear' <=> Unclear \/ (o.isGroup /\ o.cn # Blank /\ group = Malformed)
    BY <1>1, <1>2 DEF Unclear, EmptyObjectWrong
<1>5. ObjectSays(o) = news
    BY DEF ObjectSays
<1>6. \A e : Sound(e) => Sound(e)'
    BY <1>1 DEF Sound
<1>7. CASE ~o.isGroup \/ o.cn = Blank
    <2>1. found' = found /\ step' = step
        BY <1>1, <1>7 DEF Skip
    <2>2. {x \in Range(lines') : x.isGroup /\ x.cn # Blank} =
              {x \in Range(lines) : x.isGroup /\ x.cn # Blank}
        BY <1>2, <1>7
    <2>3. Says' = Says
        BY <1>1, <2>2, SaysByLine DEF Says
    <2> QED BY <1>1, <1>2, <1>3, <1>4, <1>6, <1>7, <2>1, <2>3
            DEF ImportInv, ImportsWhatItSays
<1>8. CASE o.isGroup /\ o.cn # Blank
    <2>1. {x \in Range(lines') : x.isGroup /\ x.cn # Blank} =
              {x \in Range(lines) : x.isGroup /\ x.cn # Blank} \cup {o}
        BY <1>2, <1>8
    <2>2. Says' = Says \cup news
        BY <1>1, <1>5, <2>1, SaysByLine DEF Says
    <2>3. CASE group = Malformed
        <3>1. step' = "refused" /\ Unclear'
            BY <1>1, <1>4, <1>8, <2>3 DEF Refuse
        <3> QED BY <1>1, <1>2, <3>1 DEF ImportInv, ImportsWhatItSays
    <2>4. CASE \E m \in named : m = Malformed \/ m.type # "user"
        <3>1. PICK m \in named : m = Malformed \/ m.type # "user"
            BY <2>4
        <3> DEFINE e == [obj |-> group, rel |-> RoleOf[o.cn].rel, sub |-> m]
        <3>2. step' = "refused"
            BY <1>1, <1>8, <2>4 DEF Refuse
        <3>3. e \in Says'
            BY <2>2
        <3>4. Wrong(e)'
            BY <1>1, <3>1 DEF Wrong
        <3>5. ImportsWhatItSays'
            BY <3>2, <3>3, <3>4 DEF ImportsWhatItSays, Says
        <3> QED BY <1>1, <1>2, <3>2, <3>5 DEF ImportInv
    <2>5. CASE /\ group # Malformed
               /\ \A m \in named : m # Malformed /\ m.type = "user"
        <3>1. found' = found \cup news /\ step' = step
            <4>1. Find(news)
                BY <1>1, <1>8, <2>5
            <4> QED BY <4>1 DEF Find
        <3>2. found' = Says' /\ ~Unclear'
            BY <1>3, <1>4, <2>2, <2>5, <3>1
        <3>3. \A e \in news : Sound(e)'
            BY <2>5 DEF Sound
        <3>4. \A e \in found' : Sound(e)'
            BY <1>3, <1>6, <3>1, <3>3
        <3> QED BY <1>1, <1>2, <3>1, <3>2, <3>4 DEF ImportInv, ImportsWhatItSays
    <2> QED BY <2>3, <2>4, <2>5
<1> QED BY <1>7, <1>8

\* The steps that read no line.
LEMMA EndRead ==
    ASSUME ImportInv,
           Unreadable \/ EndOfFile \/ CheckRelations \/ UNCHANGED importVars
    PROVE  ImportInv'
<1>1. format' = format /\ lines' = lines /\ found' = found
    BY DEF Unreadable, EndOfFile, CheckRelations, importVars
<1>2. /\ HasHeader' <=> HasHeader
      /\ DataRows' = DataRows
    BY <1>1 DEF HasHeader, DataRows
<1>3. \A x, n : Under(x, n)' = Under(x, n)
    BY <1>1, <1>2 DEF Under
<1>4. Says' = Says
    <2>1. \A x : RowSays(x)' = RowSays(x)
        BY <1>3 DEF RowSays
    <2> QED BY <1>1, <1>2, <2>1, SaysByLine DEF Says
<1>5. Unclear' <=> Unclear
    BY <1>1, <1>2 DEF Unclear, CSVUnclear, EmptyObjectWrong
<1>6. \A e : (Sound(e)' <=> Sound(e)) /\ (Wrong(e)' <=> Wrong(e))
    BY <1>1 DEF Sound, Wrong
<1>7. lines' \in Seq(IF format' = "csv" THEN Rows ELSE Objects) /\ format' \in {"csv", "ldif"}
    BY <1>1 DEF ImportInv
<1>8. CASE Unreadable
    <2>1. step' = "unreadable"
        BY <1>8 DEF Unreadable
    <2> QED BY <1>7, <2>1 DEF ImportInv, ImportsWhatItSays
<1>9. CASE EndOfFile
    <2>1. step = "reading" /\ step' = "checking"
        BY <1>9 DEF EndOfFile
    <2>2. ~Unclear /\ found = Says /\ \A e \in found : Sound(e)
        BY <2>1 DEF ImportInv
    <2> QED BY <1>1, <1>4, <1>5, <1>6, <1>7, <2>1, <2>2 DEF ImportInv, ImportsWhatItSays
<1>10. CASE CheckRelations
    <2>1. /\ step = "checking"
          /\ step' = IF \E e \in found : Unknown \in RelationsOf(e)
                     THEN "refused" ELSE "imported"
        BY <1>10 DEF CheckRelations
    <2>2. ~Unclear /\ found = Says /\ \A e \in found : Sound(e)
        BY <2>1 DEF ImportInv
    <2>3. \A e \in Says : Wrong(e) <=> Unknown \in RelationsOf(e)
        BY <2>2 DEF Sound, Wrong
    <2>4. step' = "imported" => ~Unclear' /\ found' = Says' /\ \A e \in Says' : ~Wrong(e)'
        BY <1>1, <1>4, <1>5, <1>6, <2>1, <2>2, <2>3
    <2>5. step' = "refused" => \E e \in Says' : Wrong(e)'
        BY <1>4, <1>6, <2>1, <2>2, <2>3
    <2>6. ImportsWhatItSays'
        BY <2>4, <2>5 DEF ImportsWhatItSays, Says
    <2> QED BY <1>7, <2>1, <2>6 DEF ImportInv
<1>11. CASE UNCHANGED importVars
    <2>1. step' = step /\ columns' = columns
        BY <1>11 DEF importVars
    <2>2. FindsColumns' <=> FindsColumns
        BY <1>3, <2>1 DEF FindsColumns
    <2>3. ImportsWhatItSays' <=> ImportsWhatItSays
        <3>1. ImportsWhatItSays <=>
                  /\ step = "imported" =>
                         ~Unclear /\ found = Says /\ \A e \in Says : ~Wrong(e)
                  /\ step = "refused" => Unclear \/ \E e \in Says : Wrong(e)
            BY DEF ImportsWhatItSays, Says
        <3>2. ImportsWhatItSays' <=>
                  /\ step' = "imported" =>
                         ~Unclear' /\ found' = Says' /\ \A e \in Says' : ~Wrong(e)'
                  /\ step' = "refused" => Unclear' \/ \E e \in Says' : Wrong(e)'
            BY DEF ImportsWhatItSays, Says
        <3> QED BY <1>1, <1>4, <1>5, <1>6, <2>1, <3>1, <3>2
    <2> QED BY <1>1, <1>4, <1>5, <1>6, <1>7, <2>1, <2>2, <2>3 DEF ImportInv
<1> QED BY <1>8, <1>9, <1>10, <1>11

\* ImportsWhatItSaysAlways: whatever files there are, of any length, what
\* RunSync makes of one is all it says or nothing, as long as no header names
\* a column twice (csv_importer.go:24-91, ldif_importer.go).
THEOREM ImportsWhatItSaysAlways ==
    ASSUME OneColumnEach
    PROVE  ImportSpec => []ImportsWhatItSays
<1>1. ImportInv /\ [ImportNext]_importVars => ImportInv'
    <2> SUFFICES ASSUME ImportInv, [ImportNext]_importVars
                 PROVE  ImportInv'
        OBVIOUS
    <2>1. CASE \E row \in Rows : ReadRow(row)
        BY <2>1, HeaderRead, MembershipRead
    <2>2. CASE \E o \in Objects : ReadObject(o)
        BY <2>2, ObjectRead
    <2>3. CASE Unreadable \/ EndOfFile \/ CheckRelations \/ UNCHANGED importVars
        BY <2>3, EndRead
    <2> QED BY <2>1, <2>2, <2>3 DEF ImportNext
<1>2. ImportInv => ImportsWhatItSays
    BY DEF ImportInv
<1> QED BY <1>1, <1>2, InitImport, PTL DEF ImportSpec
=============================================================================
