------------------------------- MODULE Login -------------------------------
(***************************************************************************)
(* Login and Logout of core/security/auth/login.go with the throttle of    *)
(* throttle.go, on the session store.                                      *)
(*                                                                         *)
(* The throttle and the store have a lock each, the user is read from the  *)
(* database in between, and the requests are served at once: every call of *)
(* the throttle, the database and the store is a step of its own.  A       *)
(* browser sends its cookie with a request and changes it when the         *)
(* response arrives; a response may be lost.  The application also keeps   *)
(* sessions of its own under user keys in the store.                       *)
(***************************************************************************)
EXTENDS SessionStore

CONSTANTS
    Requests,     \* the requests served at the same time
    Browsers,
    Accounts,     \* what is typed as the login
    AddressOf,    \* the address each browser's requests come from
    NoId,         \* no cookie
    MaxAttempts,  \* throttle.maxAttempts
    Window        \* throttle.window

ASSUME LoginAssumption ==
    /\ NoId \notin Ids
    /\ IsFiniteSet(Requests)
    /\ MaxAttempts \in Nat \ {0}
    /\ Window \in Nat \ {0}

VARIABLES
    cookie,      \* the session cookie of each browser
    count,       \* record.count of each throttle key, 0 without a record
    resetAt,     \* record.resetAt, 0 without a record
    lastSweep,
    request      \* the request each goroutine serves, or Idle

throttle == <<count, resetAt, lastSweep>>
vars == <<store, cookie, throttle, request>>

ThrottleKeys == Accounts \X {AddressOf[b] : b \in Browsers}
KeyOfRequest(r) == <<request[r].account, AddressOf[request[r].browser]>>

Idle == [at |-> "idle"]

Init ==
    /\ StoreInit
    /\ cookie = [b \in Browsers |-> NoId]
    /\ count = [k \in ThrottleKeys |-> 0]
    /\ resetAt = [k \in ThrottleKeys |-> 0]
    /\ lastSweep = 0
    /\ request = [r \in Requests |-> Idle]

At(r, step) == request[r].at = step
Goto(r, step) == request' = [request EXCEPT ![r].at = step]
End(r) == request' = [request EXCEPT ![r] = Idle]

-----------------------------------------------------------------------------
(* The browsers.                                                           *)

Send(r, b, a, what) ==
    /\ At(r, "idle")
    /\ request' = [request EXCEPT ![r] =
                     [at |-> what, browser |-> b, account |-> a,
                      sent |-> cookie[b], mine |-> NoId]]
    /\ UNCHANGED <<store, cookie, throttle>>

(* The response arrives, or is lost: the cookie it sets, NoId to clear it. *)
Respond(r) ==
    /\ At(r, "respond") \/ At(r, "cleared")
    /\ cookie' \in {cookie, [cookie EXCEPT ![request[r].browser] = request[r].mine]}
    /\ End(r)
    /\ UNCHANGED <<store, throttle>>

-----------------------------------------------------------------------------
(* The throttle.                                                           *)

Recorded(k) == count[k] > 0 /\ now <= resetAt[k]

NeverBlocked(k) == FALSE  \* variant: the throttle lets everyone through

Blocked(k) == Recorded(k) /\ count[k] >= MaxAttempts

(* Variant of the next operator: it drops the records still counting.      *)
SweptTooMuch(k) == now - lastSweep >= Window /\ count[k] > 0

(* sweepLocked removes the record.                                         *)
Swept(k) == now - lastSweep >= Window /\ count[k] > 0 /\ ~Recorded(k)

(* blocked, which sweeps first.                                            *)
Check(r) ==
    /\ At(r, "login")
    /\ IF Blocked(KeyOfRequest(r)) THEN End(r) ELSE Goto(r, "query")
    /\ count' = [k \in ThrottleKeys |-> IF Swept(k) THEN 0 ELSE count[k]]
    /\ resetAt' = [k \in ThrottleKeys |-> IF Swept(k) THEN 0 ELSE resetAt[k]]
    /\ lastSweep' = IF now - lastSweep >= Window THEN now ELSE lastSweep
    /\ UNCHANGED <<store, cookie>>

(* No such user, an inactive one, or a wrong password; or the right one.   *)
Query(r, verdict) ==
    /\ At(r, "query")
    /\ Goto(r, verdict)
    /\ UNCHANGED <<store, cookie, throttle>>

Fail(r) ==
    LET k == KeyOfRequest(r) IN
    /\ At(r, "fail")
    /\ End(r)
    /\ count' = [count EXCEPT ![k] = IF Recorded(k) THEN @ + 1 ELSE 1]
    /\ resetAt' = [resetAt EXCEPT ![k] = IF Recorded(k) THEN @ ELSE now + Window]
    /\ UNCHANGED <<store, cookie, lastSweep>>

Reset(r) ==
    /\ At(r, "reset")
    /\ Goto(r, "replace")
    /\ count' = [count EXCEPT ![KeyOfRequest(r)] = 0]
    /\ resetAt' = [resetAt EXCEPT ![KeyOfRequest(r)] = 0]
    /\ UNCHANGED <<store, cookie, lastSweep>>

-----------------------------------------------------------------------------
(* The session.                                                            *)

(* Variants of the next operator: no session is looked for; a request      *)
(* without a cookie is taken to have one.                                  *)
NeverFound(r) == FALSE
AlwaysFound(r) == request[r].sent = NoId \/ Usable(request[r].sent)

(* FromRequest: the cookie names a usable session.                         *)
Found(r) == request[r].sent # NoId /\ Usable(request[r].sent)

(* Login replaces, or Logout ends, the session the request came with.      *)
Find(r, from, found, none) ==
    /\ At(r, from)
    /\ Goto(r, IF Found(r) THEN found ELSE none)
    /\ UNCHANGED <<store, cookie, throttle>>

DeleteSent(r, from, to) ==
    /\ At(r, from)
    /\ Goto(r, to)
    /\ Delete(request[r].sent)
    /\ UNCHANGED <<cookie, throttle>>

(* store.New and the two values it is given; nobody else knows it yet.     *)
NewSession(r) ==
    /\ At(r, "new")
    /\ \E id \in Ids :
          /\ Create(id, NoKey)
          /\ request' = [request EXCEPT ![r].at = "respond", ![r].mine = id]
    /\ UNCHANGED <<cookie, throttle>>

(* ErrStoreFull: Login fails, its user's old session already deleted.      *)
NoSession(r) ==
    /\ At(r, "new")
    /\ StoreFull
    /\ End(r)
    /\ UNCHANGED <<store, cookie, throttle>>

(* The application: sessions of its own under a key, limits, gc, time.     *)
Application ==
    /\ \/ \E id \in Ids, k \in Keys : Create(id, k)
       \/ \E id \in sessions : keyOf[id] # NoKey /\ Delete(id)
       \/ \E k \in Keys : RefuseKey(k)
       \/ \E l \in Limits : SetLimits(l)
       \/ Gc
       \/ Tick
    /\ UNCHANGED <<cookie, throttle, request>>

-----------------------------------------------------------------------------
Serve(r) ==
    \/ Check(r) \/ Query(r, "fail") \/ Query(r, "reset") \/ Fail(r) \/ Reset(r)
    \/ Find(r, "replace", "delete", "new") \/ DeleteSent(r, "delete", "new")
    \/ NewSession(r) \/ NoSession(r)
    \/ Find(r, "logout", "end", "cleared") \/ DeleteSent(r, "end", "cleared")
    \/ Respond(r)

Next ==
    \/ \E r \in Requests, b \in Browsers, a \in Accounts :
          Send(r, b, a, "login") \/ Send(r, b, a, "logout")
    \/ \E r \in Requests : Serve(r)
    \/ Application

Spec == Init /\ [][Next]_vars

-----------------------------------------------------------------------------
States == {"login", "query", "fail", "reset", "replace", "delete", "new",
           "respond", "logout", "end", "cleared"}

(* The values of the variables; a request about to hand out a session has  *)
(* one, and one about to delete a session came with one.                   *)
TypeOK ==
    /\ StoreTypeOK
    /\ cookie \in [Browsers -> issued \cup {NoId}]
    /\ count \in [ThrottleKeys -> Nat]
    /\ resetAt \in [ThrottleKeys -> Nat]
    /\ lastSweep \in 0..now
    /\ request \in [Requests -> {Idle} \cup
           [at : States, browser : Browsers, account : Accounts,
            sent : issued \cup {NoId}, mine : issued \cup {NoId}]]
    /\ \A r \in Requests :
          /\ At(r, "respond") => request[r].mine # NoId
          /\ At(r, "delete") \/ At(r, "end") => request[r].sent # NoId

(* The store serves Login, Logout and the application at once: its index   *)
(* by key agrees with its map and neither exceeds its limit.               *)
SessionsSound == TypeOK /\ IndexConsistent /\ LimitsHold

(* "bloqueia apos N falhas na janela" (login.go:140): blocked and fail are *)
(* two steps, so requests already past the test still fail; a window never *)
(* counts more than the limit and one failure less than those served at    *)
(* the same time on top.                                                   *)
ThrottleBound ==
    \A k \in ThrottleKeys :
        Recorded(k) => count[k] <= MaxAttempts - 1 + Cardinality(Requests)

(* Within a window failures are neither forgotten nor do they extend it,   *)
(* unless a login for that key succeeds: sweeping drops no live record.    *)
FailuresRemembered ==
    [][\A k \in ThrottleKeys :
          Recorded(k) /\ now' = now =>
             \/ count'[k] >= count[k] /\ resetAt'[k] = resetAt[k]
             \/ \E r \in Requests : At(r, "reset") /\ KeyOfRequest(r) = k
      ]_vars

(* From the moment Login creates a session, or Logout answers, the session *)
(* the request came with no longer works ("Apagar sessao anonima existente *)
(* antes de criar a autenticada", login.go:166), whoever else uses it.     *)
SentSessionEnds ==
    \A r \in Requests :
        At(r, "new") \/ At(r, "respond") \/ At(r, "cleared") =>
            request[r].sent = NoId \/ ~Usable(request[r].sent)
=============================================================================
