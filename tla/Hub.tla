-------------------------------- MODULE Hub --------------------------------
(***************************************************************************)
(* The realtime hub: core/realtime/realtime.go and client.go.              *)
(*                                                                         *)
(* A connection has a buffered channel, a goroutine that reads the socket  *)
(* and one that writes what the channel delivers.  Either may find the     *)
(* socket dead and unregister the connection, which under the hub's write  *)
(* lock closes the channel and the socket.  A publisher walks over the     *)
(* registered connections under the read lock, sends without blocking to   *)
(* those the update is for, and skips a connection whose buffer is full.   *)
(*                                                                         *)
(* conn.Close performs WebSocket's closing handshake, which waits for the  *)
(* peer, while Unregister holds the write lock: locking and releasing are  *)
(* separate steps here, so everyone else waits in between.                 *)
(***************************************************************************)
EXTENDS Naturals, Sequences

CONSTANTS
    Clients,      \* connections; each has its own random id
    KeyOf,        \* the session cookie a connection came with
    NoKey,        \* "": no cookie; as the scope of a *For update: no-op
    Everyone,     \* scope of the updates without a session
    Publishers,   \* goroutines that call the hub
    Script,       \* the scopes of each publisher's successive updates
    Capacity      \* of a connection's channel, 256 in ServeHTTP

ASSUME HubAssumption ==
    /\ Capacity \in Nat \ {0}
    /\ Everyone # NoKey
    /\ \A c \in Clients : KeyOf[c] # Everyone

Pumps == {"reader", "writer"}

VARIABLES
    clients,     \* h.clients: the registered connections
    socket,      \* each connection's socket
    chan,        \* the messages in each connection's channel
    chanClosed,
    pump,        \* where the two goroutines of each connection are
    writing,     \* the message the writer has in hand
    received,    \* what the peer has received (history)
    next,        \* index of each publisher's next update
    todo,        \* connections a publisher still has to visit
    publishing,  \* publishers inside sendDOM's loop: they hold the read lock
    holder,      \* pump in Unregister: it holds the write lock
    panicked     \* a send on, or a second close of, a closed channel

conn == <<clients, socket, chan, chanClosed>>
hubVars == <<conn, pump, writing, received, next, todo, publishing, holder,
          panicked>>

(* An update is <<publisher, index>>.                                      *)
Scope(m) == Script[m[1]][m[2]]

NoOne == <<>>   \* as holder: the write lock is free

HubInit ==
    /\ clients = {}
    /\ socket = [c \in Clients |-> "none"]
    /\ chan = [c \in Clients |-> <<>>]
    /\ chanClosed = [c \in Clients |-> FALSE]
    /\ pump = [c \in Clients |-> [p \in Pumps |-> "none"]]
    /\ writing = [c \in Clients |-> NoOne]
    /\ received = [c \in Clients |-> <<>>]
    /\ next = [p \in Publishers |-> 1]
    /\ todo = [p \in Publishers |-> {}]
    /\ publishing = {}
    /\ holder = NoOne
    /\ panicked = FALSE

NoWriter == holder = NoOne  \* variant: RLock in place of Lock

WriteLockFree == holder = NoOne /\ publishing = {}

Goto(c, p, to) == pump' = [pump EXCEPT ![c][p] = to]

-----------------------------------------------------------------------------
(* The peer and the network.                                               *)

(* websocket.Accept, up to the call of Register.                           *)
Accept(c) ==
    /\ socket[c] = "none"
    /\ socket' = [socket EXCEPT ![c] = "open"]
    /\ UNCHANGED <<clients, chan, chanClosed, pump, writing, received, next,
                   todo, publishing, holder, panicked>>

Drop(c) ==
    /\ socket[c] = "open"
    /\ socket' = [socket EXCEPT ![c] = "dropped"]
    /\ UNCHANGED <<clients, chan, chanClosed, pump, writing, received, next,
                   todo, publishing, holder, panicked>>

-----------------------------------------------------------------------------
(* ServeHTTP: Register, go writePump, readPump.                            *)

Connect(c) ==
    /\ socket[c] \in {"open", "dropped"}
    /\ pump[c]["reader"] = "none"
    /\ WriteLockFree
    /\ clients' = clients \cup {c}
    /\ pump' = [pump EXCEPT ![c] = [reader |-> "run", writer |-> "run"]]
    /\ UNCHANGED <<socket, chan, chanClosed, writing, received, next, todo,
                   publishing, holder, panicked>>

ReadFails(c) ==
    /\ pump[c]["reader"] = "run"
    /\ socket[c] # "open"
    /\ Goto(c, "reader", "unregister")
    /\ UNCHANGED <<conn, writing, received, next, todo, publishing, holder,
                   panicked>>

(* Variant of the next action: the buffer is consumed from its end.        *)
TakeNewest(c) ==
    /\ pump[c]["writer"] = "run"
    /\ chan[c] # <<>>
    /\ writing' = [writing EXCEPT ![c] = chan[c][Len(chan[c])]]
    /\ chan' = [chan EXCEPT ![c] = SubSeq(@, 1, Len(@) - 1)]
    /\ Goto(c, "writer", "write")
    /\ UNCHANGED <<clients, socket, chanClosed, received, next, todo,
                   publishing, holder, panicked>>

Take(c) ==
    /\ pump[c]["writer"] = "run"
    /\ chan[c] # <<>>
    /\ writing' = [writing EXCEPT ![c] = Head(chan[c])]
    /\ chan' = [chan EXCEPT ![c] = Tail(@)]
    /\ Goto(c, "writer", "write")
    /\ UNCHANGED <<clients, socket, chanClosed, received, next, todo,
                   publishing, holder, panicked>>

WriteSucceeds(c) ==
    /\ pump[c]["writer"] = "write"
    /\ socket[c] = "open"
    /\ received' = [received EXCEPT ![c] = Append(@, writing[c])]
    /\ writing' = [writing EXCEPT ![c] = NoOne]
    /\ Goto(c, "writer", "run")
    /\ UNCHANGED <<conn, next, todo, publishing, holder, panicked>>

(* The socket is dead, or the peer too slow for wsWriteTimeout.            *)
WriteFails(c) ==
    /\ pump[c]["writer"] = "write"
    /\ writing' = [writing EXCEPT ![c] = NoOne]
    /\ Goto(c, "writer", "unregister")
    /\ UNCHANGED <<conn, received, next, todo, publishing, holder, panicked>>

(* No pong within wsWriteTimeout.  A ping that succeeds changes nothing.   *)
PingFails(c) ==
    /\ pump[c]["writer"] = "run"
    /\ Goto(c, "writer", "unregister")
    /\ UNCHANGED <<conn, writing, received, next, todo, publishing, holder,
                   panicked>>

(* Variant of the next action: the pump only ends on a failed write.       *)
ChannelEndIgnored(c) == FALSE

(* The channel is closed and drained.                                      *)
ChannelEnds(c) ==
    /\ pump[c]["writer"] = "run"
    /\ chan[c] = <<>> /\ chanClosed[c]
    /\ Goto(c, "writer", "done")
    /\ UNCHANGED <<conn, writing, received, next, todo, publishing, holder,
                   panicked>>

-----------------------------------------------------------------------------
(* Unregister.                                                             *)

(* Variants of the next action: it does not look the connection up; it     *)
(* returns without unlocking when the connection is not there.             *)
UnregisterAgain(c, p) ==
    /\ pump[c][p] = "unregister"
    /\ WriteLockFree
    /\ chanClosed' = [chanClosed EXCEPT ![c] = TRUE]
    /\ panicked' = (panicked \/ chanClosed[c])
    /\ holder' = <<c, p>>
    /\ UNCHANGED <<clients, socket, chan, pump, writing, received, next, todo,
                   publishing>>

UnregisterNoUnlock(c, p) ==
    /\ pump[c][p] = "unregister"
    /\ WriteLockFree
    /\ holder' = <<c, p>>
    /\ IF c \in clients
       THEN /\ chanClosed' = [chanClosed EXCEPT ![c] = TRUE]
            /\ UNCHANGED pump
       ELSE /\ Goto(c, p, "done")
            /\ UNCHANGED chanClosed
    /\ UNCHANGED <<clients, socket, chan, writing, received, next, todo,
                   publishing, panicked>>

(* It takes the lock and closes the channel of a connection still there.   *)
UnregisterBegin(c, p) ==
    /\ pump[c][p] = "unregister"
    /\ WriteLockFree
    /\ IF c \in clients
       THEN /\ chanClosed' = [chanClosed EXCEPT ![c] = TRUE]
            /\ panicked' = (panicked \/ chanClosed[c])
            /\ holder' = <<c, p>>
            /\ UNCHANGED pump
       ELSE /\ Goto(c, p, "done")
            /\ UNCHANGED <<chanClosed, holder, panicked>>
    /\ UNCHANGED <<clients, socket, chan, writing, received, next, todo,
                   publishing>>

(* conn.Close has ended; the entry is deleted and the lock released.       *)
UnregisterEnd(c, p) ==
    /\ pump[c][p] = "unregister"
    /\ holder = <<c, p>>
    /\ socket' = [socket EXCEPT ![c] = "closed"]
    /\ clients' = clients \ {c}
    /\ holder' = NoOne
    /\ Goto(c, p, "done")
    /\ UNCHANGED <<chan, chanClosed, writing, received, next, todo, publishing,
                   panicked>>

-----------------------------------------------------------------------------
(* sendDOM and sendDOMFor.                                                 *)

Update(p) == <<p, next[p]>>

(* Variant of the next operator: no test for the empty session id.         *)
NeverNoOp(m) == FALSE

NoOp(m) == Scope(m) = NoKey

PublishNothing(p) ==
    /\ next[p] \in DOMAIN Script[p]
    /\ p \notin publishing
    /\ NoOp(Update(p))
    /\ next' = [next EXCEPT ![p] = @ + 1]
    /\ UNCHANGED <<conn, pump, writing, received, todo, publishing, holder,
                   panicked>>

(* The read lock is taken, together with the publishers that hold it.      *)
PublishBegin(p) ==
    /\ next[p] \in DOMAIN Script[p]
    /\ p \notin publishing
    /\ ~NoOp(Update(p))
    /\ holder = NoOne
    /\ publishing' = publishing \cup {p}
    /\ todo' = [todo EXCEPT ![p] = clients]
    /\ UNCHANGED <<conn, pump, writing, received, next, holder, panicked>>

(* key == "" reaches everyone.                                             *)
Reaches(m, c) == Scope(m) \in {Everyone, NoKey} \/ Scope(m) = KeyOf[c]

Visit(p, c) ==
    /\ c \in todo[p]
    /\ todo' = [todo EXCEPT ![p] = @ \ {c}]
    /\ IF Reaches(Update(p), c)
       THEN /\ panicked' = (panicked \/ chanClosed[c])
            /\ chan' = [chan EXCEPT ![c] =
                          IF Len(@) < Capacity /\ ~chanClosed[c]
                          THEN Append(@, Update(p)) ELSE @]
       ELSE UNCHANGED <<panicked, chan>>
    /\ UNCHANGED <<clients, socket, chanClosed, pump, writing, received, next,
                   publishing, holder>>

PublishEnd(p) ==
    /\ p \in publishing
    /\ todo[p] = {}
    /\ publishing' = publishing \ {p}
    /\ next' = [next EXCEPT ![p] = @ + 1]
    /\ UNCHANGED <<conn, pump, writing, received, todo, holder, panicked>>

-----------------------------------------------------------------------------
Peer(c) == Accept(c) \/ Drop(c)

Writer(c) ==
    Take(c) \/ WriteSucceeds(c) \/ WriteFails(c) \/ PingFails(c) \/ ChannelEnds(c)

Unregister(c, p) == UnregisterBegin(c, p) \/ UnregisterEnd(c, p)

Publish(p) ==
    \/ PublishNothing(p) \/ PublishBegin(p) \/ PublishEnd(p)
    \/ \E c \in Clients : Visit(p, c)

HubNext ==
    \/ \E c \in Clients : Peer(c) \/ Connect(c) \/ ReadFails(c) \/ Writer(c)
    \/ \E c \in Clients, p \in Pumps : Unregister(c, p)
    \/ \E p \in Publishers : Publish(p)

(* Goroutines run; a read of a dead socket fails; every write, ping and    *)
(* closing handshake ends within its timeout.  Go's RWMutex lets a waiting *)
(* writer in before later readers, so Unregister is not starved.  A peer   *)
(* need not connect, drop or stay, and a ping need not fail.               *)
HubFairness ==
    /\ \A c \in Clients :
          /\ WF_hubVars(Connect(c))
          /\ WF_hubVars(ReadFails(c))
          /\ WF_hubVars(Take(c) \/ WriteSucceeds(c) \/ WriteFails(c) \/ ChannelEnds(c))
          /\ \A p \in Pumps : SF_hubVars(UnregisterBegin(c, p))
                              /\ WF_hubVars(UnregisterEnd(c, p))
    /\ \A p \in Publishers : WF_hubVars(Publish(p))

HubSpec == HubInit /\ [][HubNext]_hubVars

HubFairSpec == HubSpec /\ HubFairness

-----------------------------------------------------------------------------
(* The values of the variables; a channel holds at most its capacity, and  *)
(* readers and a writer never hold the lock together.                      *)
HubTypeOK ==
    /\ clients \subseteq Clients
    /\ socket \in [Clients -> {"none", "open", "dropped", "closed"}]
    /\ \A c \in Clients :
          /\ Len(chan[c]) <= Capacity
          /\ \A i \in DOMAIN chan[c] : chan[c][i][1] \in Publishers
    /\ chanClosed \in [Clients -> BOOLEAN]
    /\ pump \in [Clients -> [Pumps -> {"none", "run", "write", "unregister", "done"}]]
    /\ todo \in [Publishers -> SUBSET Clients]
    /\ publishing \subseteq Publishers
    /\ holder \in {NoOne} \cup (Clients \X Pumps)
    /\ holder = NoOne \/ publishing = {}
    /\ panicked \in BOOLEAN

(* No goroutine sends on a closed channel or closes one twice, whichever   *)
(* pumps and publishers meet (either would panic and end the process: the  *)
(* publisher is any goroutine of the application).                         *)
NeverPanics == ~panicked

(* With the lock's discipline: a writer excludes readers, a buffer its rest. *)
HubSound == HubTypeOK /\ NeverPanics

(* "apenas conexoes cuja sessao corresponde" (realtime.go:23), "sessionID  *)
(* vazio e no-op" (realtime.go:67): an update for a session is only ever   *)
(* received by connections that came with that session's cookie.           *)
OnlyAddressees ==
    \A c \in Clients : \A i \in DOMAIN received[c] :
        Scope(received[c][i]) = Everyone
        \/ (Scope(received[c][i]) = KeyOf[c] /\ KeyOf[c] # NoKey)

(* A peer receives the updates of one publisher in the order they were     *)
(* published and none of them twice; a full buffer leaves gaps only.       *)
InOrder ==
    \A c \in Clients : \A i, j \in DOMAIN received[c] :
        i < j /\ received[c][i][1] = received[c][j][1] =>
            received[c][i][2] < received[c][j][2]

(* What a peer receives is for it, each message once and in order.         *)
DeliveredAsPublished == OnlyAddressees /\ InOrder

(* A connection whose socket has gone is unregistered and both its         *)
(* goroutines have ended; every publisher is through its updates, slow and *)
(* dead connections having delayed it for the handshakes Unregister waits  *)
(* for.                                                                    *)
HubSettled ==
    /\ \A c \in Clients : socket[c] \in {"dropped", "closed"} =>
          c \notin clients /\ \A p \in Pumps : pump[c][p] = "done"
    /\ \A p \in Publishers : next[p] = Len(Script[p]) + 1
=============================================================================
