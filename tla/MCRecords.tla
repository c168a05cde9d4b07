----------------------------- MODULE MCRecords -----------------------------
(* Three processes and two keys; CreateAll is given both, in either order. *)
EXTENDS Records

RecordCalls ==
    [op : {"getOrCreate", "updateOrCreate"}, keys : {<<k>> : k \in UniqueKeys}, tx : BOOLEAN]
    \cup [op : {"ensureSuperuser", "createUser"}, keys : {<<k>> : k \in UniqueKeys}, tx : {FALSE}]
    \cup [op : {"createAll"}, keys : SetToSeqs(UniqueKeys), tx : BOOLEAN]
=============================================================================
