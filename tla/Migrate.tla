------------------------------- MODULE Migrate -------------------------------
(***************************************************************************)
(* Migrations: migrate.Run of core/database/migrate/migrate.go and the     *)
(* removemigration command of core/cli/removemigration.go, on one database *)
(* and one directory of files.                                             *)
(*                                                                         *)
(* Nothing here runs in a transaction: every query and every statement of  *)
(* a file is a step of its own, a process may be killed or lose its        *)
(* connection between any two of them, and two processes may migrate at    *)
(* once (two replicas deployed together).  A file whose tables all exist   *)
(* is recorded without being executed.                                     *)
(*                                                                         *)
(* A file is its sequence of statements; a statement creates one object: a *)
(* table or an index (generated with IF NOT EXISTS) or a column (ALTER     *)
(* TABLE ADD COLUMN, generated without).                                   *)
(*                                                                         *)
(* Commands are run by people and by deployments: a behaviour either has   *)
(* them one at a time, removals included, or lets processes migrate at     *)
(* once while nothing is undone.                                           *)
(***************************************************************************)
EXTENDS Integers, Sequences, FiniteSets

CONSTANTS
    Migrators,    \* processes that run the migrate command
    Files,        \* the .sql files, 1..n in alphabetical order
    Objects,      \* what the statements create
    Up,           \* the statements of each file, in order
    Kind,         \* of each object: "table", "index" or "column"
    Parent,       \* the table an object belongs to
    Deletable,    \* files somebody removes from the directory only
    Undoable,     \* files somebody undoes: they have a "-- down"
    MaxFaults     \* bound on killed processes and failed queries

ASSUME MigrateAssumption ==
    /\ Files \subseteq Nat
    /\ Up \in [Files -> Seq(Objects)]
    /\ Kind \in [Objects -> {"table", "index", "column"}]
    /\ Parent \in [Objects -> Objects]
    /\ Deletable \subseteq Files
    /\ Undoable \subseteq {f \in Files \ Deletable : Up[f] # <<>>}
    /\ MaxFaults \in Nat

VARIABLES
    alone,      \* TRUE: nobody runs two of the commands at once
    schema,     \* the objects that exist
    recorded,   \* the names in kyrux_migrations
    disk,       \* the files in the directory
    pc,         \* where each migrator is
    todo,       \* the files its loop has still to visit
    seen,       \* appliedMigrations: the names it read
    pos,        \* the table it tests, or the statement it executes, next
    rpc,        \* where removemigration is
    rfile,      \* the file it removes
    rpos,       \* the statement its down section undoes next
    faults

database == <<schema, recorded>>
migrator == <<pc, todo, seen, pos>>
remover == <<rpc, rfile, rpos>>
vars == <<alone, database, disk, migrator, remover, faults>>

Idle == {"idle", "done", "failed"}

Init ==
    /\ alone \in BOOLEAN
    /\ schema = {}
    /\ recorded = {}
    /\ disk = Files
    /\ pc = [m \in Migrators |-> "idle"]
    /\ todo = [m \in Migrators |-> {}]
    /\ seen = [m \in Migrators |-> {}]
    /\ pos = [m \in Migrators |-> 1]
    /\ rpc = "idle"
    /\ rfile = 0
    /\ rpos = 0
    /\ faults = 0

-----------------------------------------------------------------------------
(* The database.                                                           *)

Tables(f) == {i \in DOMAIN Up[f] : Kind[Up[f][i]] = "table"}  \* by their statements
ObjectsOf(f) == {Up[f][i] : i \in DOMAIN Up[f]}
Children(o) == {x \in Objects : Kind[o] = "table" /\ Parent[x] = o}
Least(S) == CHOOSE i \in S : \A j \in S : i <= j

(* Nobody undoes a file whose objects, or what hangs on them, another file *)
(* creates that stays; and an object is created by one of the undone files *)
(* or by others, not by both.                                              *)
ASSUME UndoableAssumption ==
    \A f \in Undoable : \A o \in ObjectsOf(f) : \A g \in Files \ {f} :
        /\ o \notin ObjectsOf(g)
        /\ g \notin Undoable => Children(o) \cap ObjectsOf(g) = {}

(* Variant of the next operator: CREATE without IF NOT EXISTS.             *)
PlainCreate(o) ==
    /\ Kind[o] = "table" \/ Parent[o] \in schema
    /\ o \notin schema

(* Does the database accept the statement that creates o?                  *)
Accepts(o) ==
    /\ Kind[o] = "table" \/ Parent[o] \in schema
    /\ Kind[o] = "column" => o \notin schema

-----------------------------------------------------------------------------
(* migrate.Run                                                             *)

(* Run returns, or the process is gone, and its variables with it.         *)
Ends(m, how) ==
    /\ pc' = [pc EXCEPT ![m] = how]
    /\ todo' = [todo EXCEPT ![m] = {}] /\ seen' = [seen EXCEPT ![m] = {}]
    /\ pos' = [pos EXCEPT ![m] = 1]

(* ensureTable, and the directory is listed.                               *)
Run(m) ==
    /\ pc[m] \in Idle
    /\ alone => rpc = "idle" /\ \A n \in Migrators : pc[n] \in Idle
    /\ pc' = [pc EXCEPT ![m] = "listed"]
    /\ todo' = [todo EXCEPT ![m] = disk]
    /\ UNCHANGED <<alone, database, disk, seen, pos, remover, faults>>

ReadApplied(m) ==
    /\ pc[m] = "listed"
    /\ pc' = [pc EXCEPT ![m] = "next"]
    /\ seen' = [seen EXCEPT ![m] = recorded]
    /\ UNCHANGED <<alone, database, disk, todo, pos, remover, faults>>

(* Variant of the next operator: the files are not sorted.                 *)
LastFile(m) == CHOOSE f \in todo[m] : \A g \in todo[m] : g <= f

File(m) == Least(todo[m])

(* Variant of the next operator: the names read are not looked at.         *)
NeverApplied(m) == FALSE

AlreadyApplied(m) == File(m) \in seen[m]

Skip(m) ==
    /\ pc[m] = "next" /\ todo[m] # {}
    /\ AlreadyApplied(m)
    /\ todo' = [todo EXCEPT ![m] = @ \ {File(m)}]
    /\ UNCHANGED <<alone, database, disk, pc, seen, pos, remover, faults>>

(* The file is read; a file that is gone ends the run with an error.       *)
ReadFile(m) ==
    /\ pc[m] = "next" /\ todo[m] # {}
    /\ ~AlreadyApplied(m)
    /\ IF File(m) \notin disk THEN Ends(m, "failed")
       ELSE /\ pc' = [pc EXCEPT ![m] =
                  IF Tables(File(m)) # {} THEN "check"
                  ELSE IF Up[File(m)] # <<>> THEN "execute" ELSE "record"]
            /\ pos' = [pos EXCEPT ![m] =
                  IF Tables(File(m)) # {} THEN Least(Tables(File(m))) ELSE 1]
            /\ UNCHANGED <<todo, seen>>
    /\ UNCHANGED <<alone, database, disk, remover, faults>>

(* tableExists is asked for the table at pos; these come after it.         *)
Asked(m) == Up[File(m)][pos[m]]
TablesLeft(m) == {i \in Tables(File(m)) : i > pos[m]}

(* Variant of the next action: one table that exists is enough.            *)
CheckAnyTable(m) ==
    /\ pc[m] = "check"
    /\ IF Asked(m) \in schema
       THEN pc' = [pc EXCEPT ![m] = "record"] /\ UNCHANGED pos
       ELSE IF TablesLeft(m) = {}
       THEN pc' = [pc EXCEPT ![m] = "execute"] /\ pos' = [pos EXCEPT ![m] = 1]
       ELSE pos' = [pos EXCEPT ![m] = Least(TablesLeft(m))] /\ UNCHANGED pc
    /\ UNCHANGED <<alone, database, disk, todo, seen, remover, faults>>

(* tableExists, for one table of the file: a query that fails counts as a  *)
(* table that is missing.                                                  *)
CheckTable(m) ==
    /\ pc[m] = "check"
    /\ \/ /\ Asked(m) \in schema
          /\ IF TablesLeft(m) = {}
             THEN pc' = [pc EXCEPT ![m] = "record"] /\ UNCHANGED pos
             ELSE pos' = [pos EXCEPT ![m] = Least(TablesLeft(m))] /\ UNCHANGED pc
          /\ UNCHANGED faults
       \/ /\ IF Asked(m) \in schema
             THEN faults < MaxFaults /\ faults' = faults + 1
             ELSE UNCHANGED faults
          /\ pc' = [pc EXCEPT ![m] = "execute"]
          /\ pos' = [pos EXCEPT ![m] = 1]
    /\ UNCHANGED <<alone, database, disk, todo, seen, remover>>

(* execSQL, one statement: an error ends the run.                          *)
Execute(m) ==
    LET o == Up[File(m)][pos[m]] IN
    /\ pc[m] = "execute"
    /\ IF Accepts(o)
       THEN /\ schema' = schema \cup {o}
            /\ pos' = [pos EXCEPT ![m] = @ + 1]
            /\ pc' = [pc EXCEPT ![m] =
                        IF pos[m] = Len(Up[File(m)]) THEN "record" ELSE @]
            /\ UNCHANGED <<todo, seen>>
       ELSE Ends(m, "failed") /\ UNCHANGED schema
    /\ UNCHANGED <<alone, recorded, disk, remover, faults>>

(* record: the name is UNIQUE.                                             *)
Record(m) ==
    /\ pc[m] = "record"
    /\ IF File(m) \in recorded
       THEN Ends(m, "failed")
       ELSE /\ pc' = [pc EXCEPT ![m] = "next"]
            /\ todo' = [todo EXCEPT ![m] = @ \ {File(m)}]
            /\ UNCHANGED <<seen, pos>>
    /\ recorded' = recorded \cup {File(m)}
    /\ UNCHANGED <<alone, schema, disk, remover, faults>>

Return(m) ==
    /\ pc[m] = "next" /\ todo[m] = {}
    /\ Ends(m, "done")
    /\ UNCHANGED <<alone, database, disk, remover, faults>>

(* The process is killed, or a query fails and Run returns its error.      *)
Fail(m) ==
    /\ pc[m] \notin Idle
    /\ faults < MaxFaults
    /\ faults' = faults + 1
    /\ Ends(m, "failed")
    /\ UNCHANGED <<alone, database, disk, remover>>

-----------------------------------------------------------------------------
(* removemigration                                                         *)

MayRemove == rpc = "idle" /\ (alone => \A m \in Migrators : pc[m] \in Idle)

(* Without "all": the file goes, database and record stay.                 *)
RemoveFromDisk(f) ==
    /\ MayRemove
    /\ f \in disk \cap Deletable
    /\ disk' = disk \ {f}
    /\ UNCHANGED <<alone, database, migrator, remover, faults>>

(* With "all": the file is read and its down section will run.             *)
RemoveAll(f) ==
    /\ alone /\ MayRemove
    /\ f \in disk \cap Undoable
    /\ rpc' = "down"
    /\ rfile' = f
    /\ rpos' = Len(Up[f])
    /\ UNCHANGED <<alone, database, disk, migrator, faults>>

RemoverEnds == rpc' = "idle" /\ rfile' = 0 /\ rpos' = 0

(* Variant of the next action: only the first statement is executed.       *)
UndoFirstOnly ==
    LET o == Up[rfile][rpos] IN
    /\ rpc = "down"
    /\ Kind[o] = "column" => o \in schema
    /\ schema' = (schema \ {o}) \ Children(o)
    /\ rpc' = "unrecord"
    /\ UNCHANGED <<alone, recorded, disk, migrator, rfile, rpos, faults>>

(* ExecDown, one statement: DROP ... IF EXISTS, and a DROP COLUMN that     *)
(* fails on a column that is not there.                                    *)
Undo ==
    LET o == Up[rfile][rpos] IN
    /\ rpc = "down"
    /\ IF Kind[o] = "column" /\ o \notin schema
       THEN RemoverEnds /\ UNCHANGED schema
       ELSE /\ schema' = (schema \ {o}) \ Children(o)
            /\ rpos' = rpos - 1
            /\ rpc' = IF rpos = 1 THEN "unrecord" ELSE "down"
            /\ UNCHANGED rfile
    /\ UNCHANGED <<alone, recorded, disk, migrator, faults>>

Unrecord ==
    /\ rpc = "unrecord"
    /\ recorded' = recorded \ {rfile}
    /\ rpc' = "remove"
    /\ UNCHANGED <<alone, schema, disk, migrator, rfile, rpos, faults>>

RemoveLast ==
    /\ rpc = "remove"
    /\ disk' = disk \ {rfile}
    /\ RemoverEnds
    /\ UNCHANGED <<alone, database, migrator, faults>>

FailRemoval ==
    /\ rpc # "idle"
    /\ faults < MaxFaults
    /\ faults' = faults + 1
    /\ RemoverEnds
    /\ UNCHANGED <<alone, database, disk, migrator>>

-----------------------------------------------------------------------------
Step(m) ==
    \/ ReadApplied(m) \/ Skip(m) \/ ReadFile(m) \/ CheckTable(m)
    \/ Execute(m) \/ Record(m) \/ Return(m)

Removal == Undo \/ Unrecord \/ RemoveLast

Next ==
    \/ \E m \in Migrators : Run(m) \/ Step(m) \/ Fail(m)
    \/ \E f \in Files : RemoveFromDisk(f) \/ RemoveAll(f)
    \/ Removal \/ FailRemoval

(* A process that runs goes on, and a migrate that failed is run again.    *)
Fairness ==
    \A m \in Migrators :
        WF_vars(Step(m)) /\ WF_vars(pc[m] # "done" /\ Run(m))

Spec == Init /\ [][Next]_vars

FairSpec == Spec /\ Fairness

-----------------------------------------------------------------------------
(* The values of the variables; a migrator works on a file it has listed   *)
(* and has not seen recorded.                                              *)
TypeOK ==
    /\ alone \in BOOLEAN
    /\ schema \subseteq Objects
    /\ recorded \subseteq Files
    /\ disk \subseteq Files
    /\ pc \in [Migrators -> Idle \cup {"listed", "next", "check", "execute", "record"}]
    /\ todo \in [Migrators -> SUBSET Files]
    /\ seen \in [Migrators -> SUBSET Files]
    /\ \A m \in Migrators :
          pc[m] \in {"check", "execute", "record"} =>
              /\ todo[m] # {} /\ File(m) \notin seen[m]
              /\ pc[m] = "check" => pos[m] \in Tables(File(m))
              /\ pc[m] = "execute" => pos[m] \in DOMAIN Up[File(m)]
    /\ rpc \in {"idle", "down", "unrecord", "remove"}
    /\ rpc # "idle" => rfile \in Files
    /\ rpc = "down" => rpos \in DOMAIN Up[rfile]
    /\ faults \in 0..MaxFaults

(* The files whose record nobody takes back.                               *)
Kept == IF alone THEN Files \ Undoable ELSE Files

(* "os pendentes sao executados em ordem alfabetica" (migrate.go:15): no   *)
(* file is recorded before an earlier one that is still in the directory,  *)
(* whatever two processes do and wherever one is killed.                   *)
RecordedInOrder ==
    \A f \in recorded : \A g \in disk \cap Kept : g < f => g \in recorded

(* A recorded file has at least its tables; a file without tables, which   *)
(* Run never takes for applied, has all of its objects.                    *)
RecordedHasTables ==
    \A f \in recorded \cap Kept : \A o \in ObjectsOf(f) :
        Kind[o] = "table" \/ Tables(f) = {} => o \in schema

(* Whoever migrates, dies, resumes or removes: the record runs ahead       *)
(* neither of an earlier file nor of the tables.                           *)
RecordSound == TypeOK /\ RecordedInOrder /\ RecordedHasTables

(* With one command at a time, a file that removemigration all has taken   *)
(* off the disk leaves neither a record nor an object of the schema, even  *)
(* if earlier attempts to migrate it or to undo it died half way.          *)
UndoLeavesNothing ==
    alone => \A f \in Undoable \ disk :
                f \notin recorded /\ ObjectsOf(f) \cap schema = {}

(* Unless an ALTER TABLE finds its column there already (a run died after  *)
(* it and before the record), running migrate again completes a migration  *)
(* that was killed or failed, two processes at once or not.                *)
MigrationsSettled ==
    \/ alone \/ disk \subseteq recorded
    \/ \E f \in disk \ recorded :
          \E o \in ObjectsOf(f) \cap schema : Kind[o] = "column"

(* "Registra cada migration ... idempotente" (USE.md:256): what is         *)
(* recorded as applied has been applied.                                   *)
RecordedMeansApplied ==
    \A f \in recorded \cap Kept : ObjectsOf(f) \subseteq schema
=============================================================================
