------------------------------- MODULE Records -------------------------------
(***************************************************************************)
(* The calls that look before they write: Query.GetOrCreate and            *)
(* UpdateOrCreate, orm.CreateAll, auth.EnsureSuperuser and the command     *)
(* createuser, by several processes at once, some within                   *)
(* DB.Transaction.                                                         *)
(*                                                                         *)
(* The table has a UNIQUE column, without which the comment of GetOrCreate *)
(* promises nothing; a row is its key in that column and a value.  The     *)
(* database is external: READ COMMITTED, an INSERT of a key that an open   *)
(* transaction has inserted waits for its end, a cycle of waits ends with  *)
(* an error for one, and after an error a transaction accepts nothing but  *)
(* its rollback.                                                           *)
(***************************************************************************)
EXTENDS Integers, FiniteSetsExt, Functions, SequencesExt

CONSTANTS
    Processes,  \* goroutines, or replicas
    UniqueKeys, \* the values of the unique column
    Absent,     \* no row
    Calls,      \* what a caller may ask for: [op, keys, tx]
    ChunkSize,  \* bulkChunkSize
    MaxDeletes  \* bound on rows deleted by somebody else

(* The rows of one CreateAll have keys of their own.                       *)
ASSUME RecordsAssumption ==
    /\ ChunkSize \in Nat \ {0} /\ MaxDeletes \in Nat
    /\ Absent \notin Processes
    /\ Calls \subseteq
         [op : {"getOrCreate", "updateOrCreate", "ensureSuperuser", "createUser", "createAll"},
          keys : Seq(UniqueKeys), tx : BOOLEAN]
    /\ \A asks \in Calls : asks.keys # <<>> /\ IsInjective(asks.keys)

VARIABLES
    call,     \* the call of each caller
    stage,    \* "look", "insert", "again", "update", "end" (of the transaction) or "over"
    next,     \* for CreateAll, the first row of the chunk to insert
    result,   \* [ok, created] of the call
    stored,   \* the committed rows: the value of each key
    pending,  \* what the open transaction of each caller has written
    aborted,  \* the transaction of the caller has seen an error
    inserts,  \* for each key, who has inserted it for good (history)
    deletes   \* for each key, how many rows were deleted (history)

recordVars == <<call, stage, next, result, stored, pending, aborted, inserts, deletes>>

NoRows == [k \in {} |-> Absent]
NoResult == [ok |-> FALSE, created |-> FALSE]

RecordsInit ==
    /\ call \in [Processes -> Calls]
    /\ stage = [c \in Processes |-> IF call[c].op = "createAll" THEN "insert" ELSE "look"]
    /\ next = [c \in Processes |-> 1]
    /\ result = [c \in Processes |-> NoResult]
    /\ stored = [k \in UniqueKeys |-> Absent]
    /\ pending = [c \in Processes |-> NoRows]
    /\ aborted = [c \in Processes |-> FALSE]
    /\ inserts = [k \in UniqueKeys |-> <<>>]
    /\ deletes = [k \in UniqueKeys |-> 0]

-----------------------------------------------------------------------------
(* The database.                                                           *)

Op(c) == call[c].op
InTx(c) == call[c].tx
KeyOf(c) == call[c].keys[1]

Sees(c, k) == k \in DOMAIN pending[c] \/ stored[k] # Absent
HeldBy(k, d) == k \in DOMAIN pending[d]
Free(c, keys) == \A k \in keys, d \in Processes \ {c} : ~HeldBy(k, d)
Violates(c, keys) == \E k \in keys : Sees(c, k)

(* Rows written over others.                                               *)
Written(rows, base) ==
    [k \in DOMAIN rows \cup DOMAIN base |-> IF k \in DOMAIN rows THEN rows[k] ELSE base[k]]

(* A statement writes for good, or for the transaction it is part of.      *)
Write(c, rows, new) ==
    IF InTx(c)
    THEN pending' = [pending EXCEPT ![c] = Written(rows, @)] /\ UNCHANGED <<stored, inserts>>
    ELSE /\ stored' = Written(rows, stored)
         /\ inserts' = [k \in UniqueKeys |->
                         IF k \in new THEN Append(inserts[k], c) ELSE inserts[k]]
         /\ UNCHANGED pending

OnlyCall == UNCHANGED <<stored, pending, inserts, deletes, call>>

Ends(c, ok, created) ==
    /\ result' = [result EXCEPT ![c] = [ok |-> ok, created |-> created]]
    /\ stage' = [stage EXCEPT ![c] = IF InTx(c) THEN "end" ELSE "over"]

Continue(c, at) == stage' = [stage EXCEPT ![c] = at] /\ UNCHANGED result

-----------------------------------------------------------------------------
(* The first SELECT: First, Exists, or the Count of EnsureSuperuser and    *)
(* cuCheckUnique.                                                          *)
Look(c) ==
    /\ stage[c] = "look"
    /\ IF ~Sees(c, KeyOf(c)) THEN Continue(c, "insert")
       ELSE CASE Op(c) = "getOrCreate" -> Ends(c, TRUE, FALSE)
              [] Op(c) = "updateOrCreate" -> Continue(c, "update")
              [] Op(c) = "ensureSuperuser" -> Ends(c, TRUE, FALSE)
              [] Op(c) = "createUser" -> Ends(c, FALSE, FALSE)
    /\ OnlyCall /\ UNCHANGED <<next, aborted>>

(* createAllInto: the rows go in chunks.                                   *)
PastChunk(c) == next[c] + ChunkSize + 1  \* variant: one row too far
NextChunk(c) == next[c] + ChunkSize
Chunk(c) ==
    IF Op(c) = "createAll"
    THEN Range(SubSeq(call[c].keys, next[c], Min({next[c] + ChunkSize - 1, Len(call[c].keys)})))
    ELSE {KeyOf(c)}

Inserted(c) ==
    /\ stage[c] = "insert" /\ Free(c, Chunk(c)) /\ ~Violates(c, Chunk(c))
    /\ Write(c, [k \in Chunk(c) |-> c], Chunk(c))
    /\ IF Op(c) # "createAll" THEN Ends(c, TRUE, TRUE) /\ UNCHANGED next
       ELSE /\ next' = [next EXCEPT ![c] = NextChunk(c)]
            /\ IF next'[c] <= Len(call[c].keys) THEN Continue(c, "insert") ELSE Ends(c, TRUE, TRUE)
    /\ UNCHANGED <<call, deletes, aborted>>

(* isUniqueViolation: GetOrCreate looks again, UpdateOrCreate updates; the *)
(* others return the error.                                                *)
Recovered == [getOrCreate |-> "again", updateOrCreate |-> "update"]
NotRecovered == [op \in {} |-> "again"]  \* variant: the error is returned
Recovery == Recovered

InsertViolates(c) ==
    /\ stage[c] = "insert" /\ Free(c, Chunk(c)) /\ Violates(c, Chunk(c))
    /\ aborted' = [aborted EXCEPT ![c] = InTx(c)]
    /\ IF Op(c) \in DOMAIN Recovery THEN Continue(c, Recovery[Op(c)]) ELSE Ends(c, FALSE, FALSE)
    /\ OnlyCall /\ UNCHANGED next

(* First again; the error of the INSERT is returned if it fails too.       *)
LookAgain(c) ==
    /\ stage[c] = "again"
    /\ Ends(c, ~aborted[c] /\ Sees(c, KeyOf(c)), FALSE)
    /\ OnlyCall /\ UNCHANGED <<next, aborted>>

(* Query.Update: it is no error that no row matches.                       *)
UpdateRow(c) ==
    /\ stage[c] = "update" /\ Free(c, {KeyOf(c)})
    /\ IF aborted[c] THEN Ends(c, FALSE, FALSE) /\ UNCHANGED <<stored, pending, inserts>>
       ELSE /\ Ends(c, TRUE, FALSE)
            /\ Write(c, IF Sees(c, KeyOf(c)) THEN [k \in {KeyOf(c)} |-> c] ELSE NoRows, {})
    /\ UNCHANGED <<call, deletes, next, aborted>>

(* Transaction: commit if the call has succeeded, else rollback.           *)
Commit(c) ==
    /\ stage[c] = "end" /\ result[c].ok
    /\ stage' = [stage EXCEPT ![c] = "over"]
    /\ stored' = Written(pending[c], stored)
    /\ inserts' = [k \in UniqueKeys |-> IF HeldBy(k, c) /\ result[c].created
                                  THEN Append(inserts[k], c) ELSE inserts[k]]
    /\ pending' = [pending EXCEPT ![c] = NoRows]
    /\ UNCHANGED <<call, next, result, aborted, deletes>>

Rollback(c) ==
    /\ stage[c] = "end" /\ ~result[c].ok
    /\ stage' = [stage EXCEPT ![c] = "over"]
    /\ pending' = [pending EXCEPT ![c] = NoRows]
    /\ UNCHANGED <<call, next, result, aborted, stored, inserts, deletes>>

WaitsFor(c, d) ==
    stage[c] \in {"insert", "update"} /\ \E k \in Chunk(c) : HeldBy(k, d)

DeadlockDetected(c) ==
    /\ \E d \in Processes \ {c} : WaitsFor(c, d) /\ WaitsFor(d, c)
    /\ aborted' = [aborted EXCEPT ![c] = InTx(c)]
    /\ Ends(c, FALSE, FALSE)
    /\ OnlyCall /\ UNCHANGED next

DeleteRow(k) ==
    /\ deletes[k] < MaxDeletes
    /\ stored[k] # Absent /\ \A d \in Processes : ~HeldBy(k, d)
    /\ stored' = [stored EXCEPT ![k] = Absent]
    /\ deletes' = [deletes EXCEPT ![k] = @ + 1]
    /\ UNCHANGED <<call, stage, next, result, pending, aborted, inserts>>

Proceed(c) ==
    \/ Look(c) \/ Inserted(c) \/ InsertViolates(c) \/ LookAgain(c) \/ UpdateRow(c)
    \/ Commit(c) \/ Rollback(c) \/ DeadlockDetected(c)

RecordsNext == (\E c \in Processes : Proceed(c)) \/ (\E k \in UniqueKeys : DeleteRow(k))

RecordsSpec == RecordsInit /\ [][RecordsNext]_recordVars

-----------------------------------------------------------------------------
Over(c) == stage[c] = "over"

(* "Refaz a busca automaticamente em vez de propagar o erro" (USE.md:1258): *)
(* whatever the order in which the callers look and insert, outside of a   *)
(* transaction GetOrCreate and UpdateOrCreate never fail while nobody      *)
(* deletes, and the row is there when they return; each inserted row has   *)
(* one caller that was told it created it, and no other was.  Of the       *)
(* replicas that ensure a superuser, one makes the account.                *)
CallsRecover ==
    /\ \A c \in Processes : Over(c) /\ deletes[KeyOf(c)] = 0 /\ Op(c) # "createAll" =>
         /\ Op(c) \in DOMAIN Recovered /\ ~InTx(c) => result[c].ok
         /\ result[c].ok => stored[KeyOf(c)] # Absent
         /\ ~InTx(c) => stored[KeyOf(c)] # Absent
    /\ \A k \in UniqueKeys :
         /\ Len(inserts[k]) <= deletes[k] + 1
         /\ \A c \in Processes : Over(c) /\ Op(c) # "createAll" /\ KeyOf(c) = k =>
              (result[c].ok /\ result[c].created) = (\E i \in DOMAIN inserts[k] : inserts[k][i] = c)

(* CreateAll that succeeds has inserted every row it was given; one that   *)
(* fails has left the chunks before the one refused, and none if it was in *)
(* a transaction.                                                          *)
CreateAllKeepsChunks ==
    \A c \in Processes : Over(c) /\ Op(c) = "createAll" =>
        LET mine == {i \in DOMAIN call[c].keys : \E j \in DOMAIN inserts[call[c].keys[i]] :
                                                   inserts[call[c].keys[i]][j] = c}
        IN  /\ result[c].ok => mine = DOMAIN call[c].keys
            /\ ~result[c].ok /\ InTx(c) => mine = {}
            /\ ~result[c].ok /\ ~InTx(c) =>
                 /\ mine # DOMAIN call[c].keys
                 /\ \E n \in 0..Len(call[c].keys) : mine = 1..(n * ChunkSize)
=============================================================================
