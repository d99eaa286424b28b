------------------------------- MODULE Import -------------------------------
(***************************************************************************)
(* How a file becomes the entries a source is to have: ParseCSV and        *)
(* ParseLDIF, line by line, and the checks RunSync makes of their result   *)
(* before it looks at the store.                                           *)
(*                                                                         *)
(* A cell, a name or an address is a word, in one spelling (NormalizeID);  *)
(* the constants say what a word is where a group, a member or a relation  *)
(* is expected.  Abstracted: descriptions, quoting and comments of CSV,    *)
(* how the configured expressions take an address or a role out of a name. *)
(***************************************************************************)
EXTENDS Entries, SequencesExt

CONSTANTS
    AsGroup,     \* of a word: the group it names, or Malformed
    AsMember,    \* the member it names, or Malformed
    AsRelation,  \* the relation it names, or Unknown
    Unknown,     \* a relation that is not configured
    Malformed,   \* what is refused as an id
    Blank,       \* the word of an empty cell
    Heads,       \* of a word: the column it heads, "ignored" or "unknown"
    RoleOf,      \* of a CN: the CN of the group and the relation it stands for
    Rows,        \* the rows a CSV file may have
    Objects,     \* the entries an LDIF file may have
    MaxLines     \* bound on the length of a file

Columns == {"group", "member", "relation"}

ASSUME ImportAssumption ==
    /\ DOMAIN AsMember = DOMAIN AsGroup /\ DOMAIN AsRelation = DOMAIN AsGroup
    /\ Blank \in DOMAIN AsGroup
    /\ \A w \in DOMAIN Heads : Heads[w] \in Columns \cup {"ignored", "unknown"}
    /\ Rows \subseteq Seq(DOMAIN AsGroup)
    /\ MaxLines \in Nat

VARIABLES
    format,   \* "csv", "ldif"
    lines,    \* what has been read
    columns,  \* by column, where its cells are; 0 if nowhere
    found,    \* the entries found
    step      \* "reading", "checking", "imported", "refused", "unreadable"

importVars == <<format, lines, columns, found, step>>

ImportInit ==
    /\ format \in {"csv", "ldif"}
    /\ lines = <<>>
    /\ columns = [group |-> 1, member |-> 2, relation |-> 0]
    /\ found = {}
    /\ step = "reading"

MoreLines == step = "reading" /\ Len(lines) < MaxLines

TakeLine(x) == lines' = Append(lines, x) /\ UNCHANGED format

Refuse == step' = "refused" /\ UNCHANGED <<columns, found>>

Skip == UNCHANGED <<columns, found, step>>

Find(E) == found' = found \cup E /\ UNCHANGED <<columns, step>>

-----------------------------------------------------------------------------
(* CSV.                                                                    *)

IsHeader(row) == Heads[row[1]] = "group"

\* Of two columns with one name the later one counts.
HeaderColumns(row) ==
    [n \in Columns |-> SelectLastInSeq(row, LAMBDA w : Heads[w] = n)]

\* Faulty on purpose, like every definition named for what it gets wrong:
\* a property must notice when it stands in for the definition after it.
ReadHeaderLeniently(row) ==
    IF HeaderColumns(row)["member"] = 0 THEN Refuse
    ELSE columns' = HeaderColumns(row) /\ UNCHANGED <<found, step>>

ReadHeader(row) ==
    IF \/ \E i \in DOMAIN row : Heads[row[i]] = "unknown"
       \/ HeaderColumns(row)["member"] = 0
    THEN Refuse
    ELSE columns' = HeaderColumns(row) /\ UNCHANGED <<found, step>>

Cell(row, n) == IF columns[n] \in DOMAIN row THEN row[columns[n]] ELSE Blank

\* A row that names no group or no member says nothing.
ReadMembership(row) ==
    LET g == Cell(row, "group")
        m == Cell(row, "member")
    IN  IF Blank \in {g, m} THEN Skip
        ELSE IF Malformed \in {AsGroup[g], AsMember[m]} THEN Refuse
        ELSE Find({[obj |-> AsGroup[g], rel |-> AsRelation[Cell(row, "relation")],
                    sub |-> AsMember[m]]})

\* Only the first row can be a header.
ReadRow(row) ==
    /\ format = "csv" /\ MoreLines
    /\ TakeLine(row)
    /\ IF lines = <<>> /\ IsHeader(row) THEN ReadHeader(row)
       ELSE ReadMembership(row)

-----------------------------------------------------------------------------
(* LDIF.                                                                   *)

\* A CN that stands for a role fills another group; without an address there
\* is no member, and an address is a person's.
ReadObject(o) ==
    /\ format = "ldif" /\ MoreLines
    /\ TakeLine(o)
    /\ LET group == AsGroup[RoleOf[o.cn].cn]
           named == {AsMember[w] : w \in o.addresses \ {Blank}}
       IN  IF ~o.isGroup \/ o.cn = Blank THEN Skip
           ELSE IF \/ group = Malformed
                   \/ \E m \in named : m = Malformed \/ m.type # "user"
           THEN Refuse
           ELSE Find({[obj |-> group, rel |-> RoleOf[o.cn].rel, sub |-> m] :
                         m \in named})

-----------------------------------------------------------------------------
(* The end of the file.                                                    *)

\* A row the CSV reader cannot read; an LDIF file is unmarshalled first.
Unreadable ==
    /\ step = "reading" /\ (format = "csv" \/ lines = <<>>)
    /\ step' = "unreadable"
    /\ UNCHANGED <<format, lines, columns, found>>

EndOfFile ==
    /\ step = "reading"
    /\ step' = "checking"
    /\ UNCHANGED <<format, lines, columns, found>>

RelationsOf(e) ==
    {e.rel} \cup (IF e.sub.type = "group" THEN {e.sub.rel} ELSE {})

CheckRelations ==
    /\ step = "checking"
    /\ step' = IF \E e \in found : Unknown \in RelationsOf(e)
               THEN "refused" ELSE "imported"
    /\ UNCHANGED <<format, lines, columns, found>>

ImportNext ==
    \/ \E row \in Rows : ReadRow(row)
    \/ \E o \in Objects : ReadObject(o)
    \/ Unreadable \/ EndOfFile \/ CheckRelations

ImportSpec == ImportInit /\ [][ImportNext]_importVars

-----------------------------------------------------------------------------
(* What a file says, read column by column and as a whole.                 *)

HasHeader == lines # <<>> /\ Heads[lines[1][1]] = "group"

\* The words of a row that stand in a column of this name.
Under(row, n) ==
    {row[i] : i \in {j \in DOMAIN row :
        IF HasHeader THEN j \in DOMAIN lines[1] /\ Heads[lines[1][j]] = n
        ELSE (j = 1 /\ n = "group") \/ (j = 2 /\ n = "member")}}

DataRows == {lines[i] : i \in {j \in DOMAIN lines : HasHeader => j > 1}}

CSVSays ==
    UNION {{[obj |-> AsGroup[g], rel |-> AsRelation[r], sub |-> AsMember[m]] :
               g \in Under(row, "group") \ {Blank},
               m \in Under(row, "member") \ {Blank},
               r \in IF Under(row, "relation") = {} THEN {Blank}
                     ELSE Under(row, "relation")} :
           row \in DataRows}

CSVUnclear ==
    HasHeader /\ \/ \E i \in DOMAIN lines[1] : Heads[lines[1][i]] = "unknown"
                 \/ \A i \in DOMAIN lines[1] : Heads[lines[1][i]] # "member"

LDIFSays ==
    UNION {{[obj |-> AsGroup[RoleOf[o.cn].cn], rel |-> RoleOf[o.cn].rel,
             sub |-> AsMember[w]] : w \in o.addresses \ {Blank}} :
           o \in {x \in Range(lines) : x.isGroup /\ x.cn # Blank}}

Wrong(e) ==
    \/ Malformed \in {e.obj, e.sub}
    \/ Unknown \in RelationsOf(e)
    \/ format = "ldif" /\ e.sub.type # "user"

EmptyObjectWrong ==
    \E o \in Range(lines) :
        o.isGroup /\ o.cn # Blank /\ AsGroup[RoleOf[o.cn].cn] = Malformed

Unclear == IF format = "csv" THEN CSVUnclear ELSE EmptyObjectWrong

\* ImportsWhatItSays: what RunSync makes of a file is all of what its lines
\* say and nothing else, or nothing of it at all: a role never turns into
\* plain membership and nobody is left out because a line, a column or a
\* relation is not understood ("One malformed id refuses the whole file:
\* importing the rest would leave out members without anyone noticing",
\* csv_importer.go:77), and only what is wrong is refused.
ImportsWhatItSays ==
    LET says == IF format = "csv" THEN CSVSays ELSE LDIFSays
    IN  /\ step = "imported" =>
              ~Unclear /\ found = says /\ \A e \in says : ~Wrong(e)
        /\ step = "refused" => Unclear \/ \E e \in says : Wrong(e)
=============================================================================
