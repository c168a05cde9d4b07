---------------------------- MODULE SharedLedger ----------------------------
(***************************************************************************)
(* What the queue promises when several processes share it in Redis        *)
(* (core/queue/queue.go): the ledger of one process, of which the end of   *)
(* another takes some tasks, those it was offering, trying or retrying.    *)
(* They fall in one step; a task is still run MaxRuns times at most, one   *)
(* run at a time, and never again once it has ended or was refused.        *)
(***************************************************************************)
EXTENDS TaskLedger

Fall(S) ==
    /\ \A t \in S : phase[t] \in {"offered", "pending", "running"}
    /\ phase' = [t \in Tasks |-> IF t \notin S THEN phase[t]
                                 ELSE IF phase[t] = "offered" THEN "refused" ELSE "ended"]
    /\ UNCHANGED <<starts, open, over>>

SharedNext == LedgerNext \/ \E S \in SUBSET Tasks : Fall(S)

SharedSpec == LedgerInit /\ [][SharedNext]_ledger
=============================================================================
