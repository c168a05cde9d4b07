--------------------------- MODULE MakeMigrations ---------------------------
(***************************************************************************)
(* makemigrations: core/cli/makemigrations.go, with the migrations it      *)
(* writes applied to a database and the newest one taken back.             *)
(*                                                                         *)
(* The developer edits the structs; the command rebuilds the schema from   *)
(* the .sql files it has written so far, compares, and writes the next     *)
(* one.  A file is applied as a whole or not at all, which is for Migrate  *)
(* to tell.  For what it finds there, a statement is refused by the        *)
(* strictest of the three databases: a reference to no table, an index     *)
(* over equal values, a column that an index still uses, a table that      *)
(* another one refers to.  For its text, by the driver's.                  *)
(* Types and names of columns are left out; every table has its key "id".  *)
(***************************************************************************)
EXTENDS Integers, SequencesExt

CONSTANTS
    ModelOrder,   \* the tables, in the order in which their structs are found
    ColumnOrder,  \* the columns besides the key, in the order of the struct
    References,   \* the columns tagged fk, and for each table what they refer to
    Uniques, Searched, Nullable,  \* the columns tagged unique or fts, and pointers
    Gone,         \* no struct
    MaxEdits, MaxFiles, MaxRows   \* bounds

ASSUME MakeAssumption ==
    /\ ModelOrder \in Seq(Range(ModelOrder)) /\ IsInjective(ModelOrder)
    /\ ColumnOrder \in Seq(Range(ColumnOrder)) /\ IsInjective(ColumnOrder)
    /\ Gone \notin {"table", "column", "index", "fts"} \X Range(ModelOrder)
                      \X (Range(ColumnOrder) \cup {"id"})

VARIABLES
    driver,    \* of the database the files are written for and applied to
    declared,  \* the columns that the struct of each table has
    files,     \* the files of database/migrations, each with its up and its down
    applied,   \* how many of them are
    stored,    \* what there is: tables with their key, columns, indexes
    rowsOf,    \* how many rows, as far as a constraint can tell
    before,    \* what there was before each file that is applied (history)
    lost,      \* columns that a file dropped which has been taken back (history)
    edits

makeVars == <<driver, declared, files, applied, stored, rowsOf, before, lost, edits>>

ModelTables == Range(ModelOrder)
ModelColumns == Range(ColumnOrder)

MakeInit ==
    /\ driver \in {"postgres", "sqlite", "mysql"}
    /\ declared = [t \in ModelTables |-> Gone]
    /\ files = <<>> /\ applied = 0 /\ before = <<>>
    /\ stored = {} /\ lost = {}
    /\ rowsOf = [t \in ModelTables |-> 0]
    /\ edits = 0

-----------------------------------------------------------------------------
(* Statements, and what a database does with them.                         *)

Statement(op, t, cols) == [op |-> op, on |-> t, cols |-> cols]
Key(t) == <<"table", t, "id">>
Items(kind, t, cols) == {<<kind, t, c>> : c \in cols}

TargetIn(d, t, cols) ==
    \A c \in cols \cap DOMAIN References[t] : References[t][c] = t \/ Key(References[t][c]) \in d

(* execSQL cuts a file at every ";", those inside of the triggers that     *)
(* SQLite needs for a searched column included; and MySQL has no IF EXISTS *)
(* or IF NOT EXISTS for an index.                                          *)
Understood(s) ==
    /\ driver = "sqlite" => s.op # "fts"
    /\ driver = "mysql" => s.op \notin {"unique index", "index", "drop index"}

AcceptsStatement(s, d) ==
    /\ Understood(s)
    /\ CASE s.op = "create table" -> Key(s.on) \in d \/ TargetIn(d, s.on, s.cols)
         [] s.op = "add column" ->
              /\ Key(s.on) \in d /\ TargetIn(d, s.on, s.cols)
              /\ Items("column", s.on, s.cols) \cap d = {}
              /\ s.cols \cap DOMAIN References[s.on] \subseteq Nullable \/ rowsOf[s.on] = 0
         [] s.op = "unique index" ->
              /\ Items("column", s.on, s.cols) \subseteq d
              /\ s.cols \subseteq Nullable \/ rowsOf[s.on] < 2
         [] s.op \in {"index", "fts"} -> Items("column", s.on, s.cols) \subseteq d
         [] s.op = "drop column" ->
              /\ Items("column", s.on, s.cols) \subseteq d
              /\ (Items("index", s.on, s.cols) \cup Items("fts", s.on, s.cols)) \cap d = {}
         [] s.op = "drop table" ->
              \A t \in ModelTables \ {s.on} : \A c \in DOMAIN References[t] :
                  References[t][c] = s.on => <<"column", t, c>> \notin d
         [] OTHER -> TRUE

EffectOf(s, d) ==
    CASE s.op = "create table" ->
           IF Key(s.on) \in d THEN d ELSE d \cup {Key(s.on)} \cup Items("column", s.on, s.cols)
      [] s.op = "add column" -> d \cup Items("column", s.on, s.cols)
      [] s.op \in {"unique index", "index"} -> d \cup Items("index", s.on, s.cols)
      [] s.op = "fts" -> d \cup Items("fts", s.on, s.cols)
      [] s.op = "drop index" -> d \ Items("index", s.on, s.cols)
      [] s.op = "drop fts" -> d \ Items("fts", s.on, s.cols)
      [] s.op = "drop column" -> d \ Items("column", s.on, s.cols)
      [] s.op = "drop table" -> {i \in d : i[2] # s.on \/ i[1] = "fts"}

Refused == {Gone}

Outcome(s, d) == IF d = Refused \/ ~AcceptsStatement(s, d) THEN Refused ELSE EffectOf(s, d)

Executed(statements, d) ==
    LET after[i \in 0..Len(statements)] ==
          IF i = 0 THEN d ELSE Outcome(statements[i], after[i - 1])
    IN  after[Len(statements)]

-----------------------------------------------------------------------------
(* What migSchemaInDir makes of the files: it reads CREATE TABLE and ALTER *)
(* TABLE ADD or DROP, up to the line "-- down".                            *)

SeenIn(known, s) ==
    CASE s.op \in {"create table", "add column"} ->
           known \cup {Key(s.on)} \cup Items("column", s.on, s.cols)
      [] s.op = "drop column" -> known \ Items("column", s.on, s.cols)
      [] OTHER -> known

ReadToTheEnd(file) == file.up \o file.down  \* variant: the section down is read too
ReadUp(file) == file.up

Read(statements, schema) ==
    LET read[i \in 0..Len(statements)] ==
          IF i = 0 THEN schema ELSE SeenIn(read[i - 1], statements[i])
    IN  read[Len(statements)]

SchemaIn(fs) ==
    LET known[n \in 0..Len(fs)] == IF n = 0 THEN {} ELSE Read(ReadUp(fs[n]), known[n - 1])
    IN  known[Len(fs)]

KnownSchema == SchemaIn(files)

Known(t) == {c \in ModelColumns : <<"column", t, c>> \in KnownSchema}

Each(Op(_), seq) == FlattenSeq([i \in DOMAIN seq |-> Op(seq[i])])
If(condition, e) == IF condition THEN <<e>> ELSE <<>>
InOrder(seq, set) == Each(LAMBDA e : If(e \in set, e), seq)

(* The models without a table, and migDiffModel for those that have one.   *)
PendingModels ==
    InOrder(ModelOrder, {t \in ModelTables : declared[t] # Gone /\ Key(t) \notin KnownSchema})
Alters == InOrder(ModelOrder, {t \in ModelTables : declared[t] # Gone /\ Key(t) \in KnownSchema})
Added(t) == InOrder(ColumnOrder, declared[t] \ Known(t))
RemovedColumns(t) == InOrder(ColumnOrder, Known(t) \ declared[t])

(* migGenerateSQL.                                                         *)
IndexesOf(t, c) ==
    If(c \in Uniques, Statement("unique index", t, {c}))
      \o If(c \in DOMAIN References[t] \ Uniques, Statement("index", t, {c}))
      \o If(c \in Searched, Statement("fts", t, {c}))

DropIndexesOf(t, c) ==
    If(c \in Searched, Statement("drop fts", t, {c}))
      \o If(c \in Uniques \cup DOMAIN References[t], Statement("drop index", t, {c}))

Fields(t) == InOrder(ColumnOrder, declared[t])

CreateModel(t) ==
    <<Statement("create table", t, declared[t])>> \o Each(LAMBDA c : IndexesOf(t, c), Fields(t))
AddColumns(t) ==
    Each(LAMBDA c : <<Statement("add column", t, {c})>> \o IndexesOf(t, c), Added(t))

DropModel(t) ==
    Each(LAMBDA c : DropIndexesOf(t, c), Fields(t)) \o <<Statement("drop table", t, {})>>
DropColumns(t) ==
    Each(LAMBDA c : DropIndexesOf(t, c) \o <<Statement("drop column", t, {c})>>, Reverse(Added(t)))

FirstFirst(seq) == seq  \* variant: the tables are dropped in the order of their creation
LastFirst(seq) == Reverse(seq)

Generated ==
    [up |-> Each(CreateModel, PendingModels) \o Each(AddColumns, Alters),
     down |-> Each(DropColumns, Reverse(Alters)) \o Each(DropModel, LastFirst(PendingModels)),
     comments |-> Each(LAMBDA t : Each(LAMBDA c : <<Statement("drop column", t, {c})>>,
                                       RemovedColumns(t)), Alters),
     byHand |-> FALSE]

-----------------------------------------------------------------------------
(* The developer edits a struct, and the program inserts rows.             *)
Edit ==
    /\ edits < MaxEdits /\ edits' = edits + 1
    /\ \E t \in ModelTables, new \in (SUBSET ModelColumns) \cup {Gone} :
         /\ new # declared[t]
         /\ declared' = [declared EXCEPT ![t] = new]
    /\ UNCHANGED <<files, applied, stored, rowsOf, before, lost>>

InsertRow(t) ==
    /\ Key(t) \in stored /\ rowsOf[t] < MaxRows
    /\ rowsOf' = [rowsOf EXCEPT ![t] = @ + 1]
    /\ UNCHANGED <<declared, files, applied, stored, before, lost, edits>>

(* runMakeMigrations: nothing is written unless something is new.          *)
RunMakeMigrations ==
    /\ Len(files) < MaxFiles
    /\ PendingModels # <<>> \/ \E i \in DOMAIN Alters : Added(Alters[i]) # <<>>
    /\ files' = Append(files, Generated)
    /\ UNCHANGED <<declared, applied, stored, rowsOf, before, lost, edits>>

(* "Descomente para aplicar": the DROP of the columns that are gone.       *)
Uncommented(file) ==
    [file EXCEPT !.up = @ \o file.comments, !.comments = <<>>, !.byHand = TRUE]

Uncomment ==
    /\ applied < Len(files) /\ files[Len(files)].comments # <<>>
    /\ files' = [files EXCEPT ![Len(files)] = Uncommented(files[Len(files)])]
    /\ UNCHANGED <<declared, applied, stored, rowsOf, before, lost, edits>>

RowsLeft(d) == [t \in ModelTables |-> IF Key(t) \in d THEN rowsOf[t] ELSE 0]

(* Run begins with ensureTable, whose AUTOINCREMENT MySQL does not know.   *)
Migrates == driver # "mysql"

ApplyFile ==
    /\ Migrates
    /\ applied < Len(files)
    /\ stored' = Executed(files[applied + 1].up, stored)
    /\ stored' # Refused
    /\ applied' = applied + 1
    /\ before' = Append(before, stored)
    /\ rowsOf' = RowsLeft(stored')
    /\ UNCHANGED <<declared, files, lost, edits>>

(* removemigration of the newest file: with "all" if it is applied.        *)
DroppedIn(statements) ==
    UNION {Items("column", s.on, s.cols) : s \in {x \in Range(statements) : x.op = "drop column"}}

RemoveNewest ==
    /\ files # <<>>
    /\ files' = Front(files)
    /\ IF applied < Len(files) THEN UNCHANGED <<applied, stored, rowsOf, before, lost>>
       ELSE /\ stored' = Executed(Last(files).down, stored)
            /\ stored' # Refused
            /\ applied' = applied - 1
            /\ before' = Front(before)
            /\ lost' = lost \cup DroppedIn(Last(files).up)
            /\ rowsOf' = RowsLeft(stored')
    /\ UNCHANGED <<declared, edits>>

MakeNext ==
    /\ UNCHANGED driver
    /\ \/ Edit \/ RunMakeMigrations \/ Uncomment \/ ApplyFile \/ RemoveNewest
       \/ \E t \in ModelTables : InsertRow(t)

MakeSpec == MakeInit /\ [][MakeNext]_makeVars

-----------------------------------------------------------------------------
(* However structs are edited, files generated, edited by hand as their    *)
(* comments invite, applied and taken back: once all the files are         *)
(* applied, the schema that the next makemigrations reads from their text  *)
(* is the one the database has.  But for columns that a file dropped and   *)
(* that taking it back has not restored: its section down has no word of   *)
(* what was uncommented in its up.                                         *)
SchemaIsKnown ==
    applied = Len(files) =>
        KnownSchema \ lost = {i \in stored : i[1] \in {"table", "column"}} \ lost

(* A file as it was generated is accepted by the database, whatever order  *)
(* the edits came in, but for what its developer is told to see to: a      *)
(* reference to a model found later ("a tabela referenciada precisa        *)
(* existir antes", USE.md:1051), and a column added to a table whose rows  *)
(* its default does not suit.  And but for what USE.md:1047-1049 promises  *)
(* and the drivers do not give: on SQLite a file with a searched column    *)
(* fails at its first trigger, and on MySQL migrate itself does.           *)
ReferredLater(file) ==
    \E i \in DOMAIN file.up : file.up[i].op \in {"create table", "add column"}
        /\ LET created == {k \in 1..i : file.up[k].op = "create table"} IN
           ~TargetIn(stored \cup {Key(file.up[k].on) : k \in created},
                     file.up[i].on, file.up[i].cols)

RowsUnsuited(file) ==
    \E i \in DOMAIN file.up : LET s == file.up[i] IN
        /\ s.op = "add column" /\ ~(s.cols \subseteq Nullable)
        /\ \/ s.cols \cap DOMAIN References[s.on] # {} /\ rowsOf[s.on] > 0
           \/ s.cols \cap Uniques # {} /\ rowsOf[s.on] > 1

NotUnderstood(file) ==
    \/ ~Migrates
    \/ driver = "sqlite" /\ \E s \in Range(file.up) : s.op = "fts"

GeneratedFilesApply ==
    applied < Len(files) =>
        LET file == files[applied + 1] IN
        \/ file.byHand \/ ReferredLater(file) \/ RowsUnsuited(file) \/ NotUnderstood(file)
        \/ Executed(file.up, stored) # Refused

(* The section down of a file that nobody has edited takes back the whole  *)
(* of its up, tables, columns and indexes, and the database accepts it,    *)
(* unless a column it drops is lost already.                               *)
DownUndoesUp ==
    LET file == Last(files) IN
    applied > 0 /\ applied = Len(files) /\ ~file.byHand /\ DroppedIn(file.down) \cap lost = {} =>
        Executed(file.down, stored) \ lost = Last(before) \ lost

GeneratedFilesWork == GeneratedFilesApply /\ DownUndoesUp
=============================================================================
