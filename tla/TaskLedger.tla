----------------------------- MODULE TaskLedger -----------------------------
(***************************************************************************)
(* What a task queue promises (core/queue/queue.go), without channel,      *)
(* workers or timers: an offered task is refused or accepted; an accepted  *)
(* one is run at most MaxRuns times, one run at a time, and ends exactly   *)
(* once; after the queue is over no task is accepted and nothing is run.   *)
(***************************************************************************)
EXTENDS Naturals

CONSTANTS Tasks, MaxRuns

VARIABLES
    phase,   \* where each task is
    starts,  \* how often it has been run
    open,    \* FALSE once Close has begun: nothing more is accepted
    over     \* TRUE once Close has returned: nothing more is run

ledger == <<phase, starts, open, over>>

Phases == {"offered", "refused", "pending", "running", "ended"}

LedgerInit ==
    /\ phase = [t \in Tasks |-> "offered"]
    /\ starts = [t \in Tasks |-> 0]
    /\ open = TRUE
    /\ over = FALSE

Move(t, from, to) ==
    /\ phase[t] = from
    /\ phase' = [phase EXCEPT ![t] = to]

Refuse(t) == Move(t, "offered", "refused") /\ UNCHANGED <<starts, open, over>>

Accept(t) ==
    /\ open
    /\ Move(t, "offered", "pending")
    /\ UNCHANGED <<starts, open, over>>

Run(t) ==
    /\ ~over
    /\ starts[t] < MaxRuns
    /\ Move(t, "pending", "running")
    /\ starts' = [starts EXCEPT ![t] = @ + 1]
    /\ UNCHANGED <<open, over>>

Again(t) == Move(t, "running", "pending") /\ UNCHANGED <<starts, open, over>>

(* A task ends from a run, or unrun: too old, or its retry finds no place. *)
End(t) ==
    /\ Move(t, "running", "ended") \/ Move(t, "pending", "ended")
    /\ UNCHANGED <<starts, open, over>>

Stop == open /\ open' = FALSE /\ UNCHANGED <<phase, starts, over>>

BeOver ==
    /\ ~open
    /\ ~over
    /\ \A t \in Tasks : phase[t] # "running"
    /\ over' = TRUE
    /\ UNCHANGED <<phase, starts, open>>

LedgerNext ==
    \/ Stop
    \/ BeOver
    \/ \E t \in Tasks : Refuse(t) \/ Accept(t) \/ Run(t) \/ Again(t) \/ End(t)

LedgerSpec == LedgerInit /\ [][LedgerNext]_ledger
=============================================================================
