----------------------------- MODULE MCRealtime -----------------------------
(* What runs in the background of a process, the task queue and the        *)
(* realtime hub: they share no variable, and a behaviour is about one.     *)
EXTENDS MCQueue, MCHub

VARIABLE part  \* "queue" or "hub"

(* While a behaviour is about the queue, the publishers have finished.     *)
HubOver == [p \in Publishers |-> Len(Script[p]) + 1]

MCInit ==
    /\ Init
    /\ \/ part = "hub" /\ HubInit
       \/ /\ part = "queue"
          /\ clients = {} /\ publishing = {} /\ holder = NoOne /\ panicked = FALSE
          /\ socket = [c \in Clients |-> "none"]
          /\ chan = [c \in Clients |-> <<>>]
          /\ chanClosed = [c \in Clients |-> FALSE]
          /\ pump = [c \in Clients |-> [p \in Pumps |-> "none"]]
          /\ writing = [c \in Clients |-> NoOne]
          /\ received = [c \in Clients |-> <<>>]
          /\ todo = [p \in Publishers |-> {}]
          /\ next = HubOver

MCNext ==
    /\ UNCHANGED part
    /\ \/ part = "queue" /\ Next /\ UNCHANGED hubVars
       \/ part = "hub" /\ HubNext /\ UNCHANGED vars

(* No action with a fairness condition is enabled in a part that waits.    *)
MCSpec == MCInit /\ [][MCNext]_<<vars, hubVars, part>> /\ Fairness /\ HubFairness

(* Nobody waits for ever, for a channel, a lock, a socket or a timer: the  *)
(* queue and the hub come to rest, time and again.                         *)
BackgroundSettles == []<>(QueueSettled /\ HubSettled)
=============================================================================
