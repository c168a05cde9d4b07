----------------------------- MODULE MCDatabase -----------------------------
(* What the handlers of an application ask of the database: the queries    *)
(* they build, and the records they look for before they write.  These     *)
(* share no variable, and a behaviour is about one of them.                *)
EXTENDS MCOrmQuery, MCRecords

VARIABLE part  \* "queries" or "records"

(* A part that waits is in one of its initial states.                      *)
QueriesWait == QueryInit /\ driver = "other"
RecordsWait ==
    /\ RecordsInit
    /\ \A p \in Processes : /\ call[p].op = "ensureSuperuser"
                           /\ call[p].keys[1] = CHOOSE k \in UniqueKeys : TRUE

MCInit ==
    \/ part = "queries" /\ QueryInit /\ RecordsWait
    \/ part = "records" /\ QueriesWait /\ RecordsInit

MCNext ==
    /\ UNCHANGED part
    /\ \/ part = "queries" /\ QueryNext /\ UNCHANGED recordVars
       \/ part = "records" /\ RecordsNext /\ UNCHANGED queryVars

MCSpec == MCInit /\ [][MCNext]_<<queryVars, recordVars, part>>
=============================================================================
