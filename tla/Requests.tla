------------------------------ MODULE Requests ------------------------------
(***************************************************************************)
(* A request from the router to the answer: core/router, the middleware of *)
(* core/security and core/compress, the error pages of core/errors and     *)
(* core/render.  Every connection has a goroutine that serves its requests *)
(* one after the other.  Contexts, data maps and gzip writers come from    *)
(* pools that all goroutines share; the current context of a template is   *)
(* found by the number of the goroutine.                                   *)
(*                                                                         *)
(* The signature of a csrf token is modelled by the raw token it signs,    *)
(* and a raw token by the number of the request that generated it.         *)
(***************************************************************************)
EXTENDS Naturals, FiniteSetsExt

CONSTANTS
    Conns,       \* connections, each with its goroutine
    Clients,     \* browsers: a cookie jar and an address of their own
    Contexts,    \* Context objects
    DataMaps,    \* maps for Context.data
    GzWriters,   \* gzip writers
    Nothing,     \* nil
    RateMax,     \* RateLimit's max
    RateWindow,  \* RateLimit's window
    MaxServed,   \* bound on the requests
    MaxCopies,   \* bound on the contexts copied, and
    MaxPanics,   \* on the panics: those of the first so many requests
    MaxClock     \* bound on the clock

ASSUME RequestsAssumption ==
    /\ Nothing \notin Conns \cup Contexts \cup DataMaps \cup GzWriters
    /\ RateMax \in Nat /\ RateWindow \in Nat
    /\ MaxServed \in Nat /\ MaxClock \in Nat

VARIABLES
    conn,        \* what each goroutine is doing
    ctxPool, dataPool, gzPool,
    ctxData,     \* Context.data
    content,     \* what a data map holds: whose values, and the csrf token
    gzTo,        \* the connection a gzip writer writes to
    current,     \* goroutineCtxStore
    copies,      \* what goroutines started by handlers hold
    served,      \* requests begun: their numbers
    jar,         \* the csrf cookie of each client, 0: none
    pages,       \* forms a client has received: the token inside
    rate,        \* RateLimit's entry of each address
    lastSwept,
    clock,
    answers,     \* history: the answer to each request that has ended
    passes       \* history: how often an address passed RateLimit, at each time

pools == <<ctxPool, dataPool, gzPool, ctxData, content, gzTo>>
rates == <<rate, lastSwept, passes>>
browser == <<jar, pages>>
requestVars == <<conn, pools, current, copies, served, browser, rates, clock, answers>>

Free == [at |-> "free"]
NoEntry == [count |-> 0, reset |-> 0]
NoValues == [of |-> 0, raw |-> 0]

RequestsInit ==
    /\ conn = [c \in Conns |-> Free]
    /\ ctxPool = Contexts /\ dataPool = DataMaps /\ gzPool = GzWriters
    /\ ctxData = [x \in Contexts |-> Nothing]
    /\ content = [m \in DataMaps |-> NoValues]
    /\ gzTo = [g \in GzWriters |-> Nothing]
    /\ current = [c \in Conns |-> Nothing]
    /\ copies = {}
    /\ served = 0
    /\ jar = [b \in Clients |-> 0]
    /\ pages = {}
    /\ rate = [b \in Clients |-> NoEntry]
    /\ lastSwept = 0
    /\ clock = 0
    /\ answers = {}
    /\ passes = [b \in Clients |-> [t \in 0..MaxClock |-> 0]]

-----------------------------------------------------------------------------
(* What has been written to a response: nothing ("none"), a body in full   *)
(* ("whole"), one whose compression is still to be ended ("open"), one     *)
(* that a panic cut short before its length was known ("part"), or that    *)
(* with an error page behind it ("mixed").                                 *)
BlankPage == [code |-> "none", body |-> "none", token |-> 0, from |-> 0]

Answer(code, body, token, n) == [code |-> code, body |-> body, token |-> token, from |-> n]

IsAt(c, place) == conn[c].at = place
Move(c, place) == conn' = [conn EXCEPT ![c].at = place]

(* An answer is served by the handler, or refused by a middleware (204,    *)
(* 302, 400, 401, 403, 429), or failed (500).                              *)
(* The error pages: errors.Render, RenderPanic and http.Error.  The first  *)
(* status written to a response is the one it keeps, and net/http refuses  *)
(* what goes beyond a declared length.                                     *)
Page(c, code) ==
    LET out == conn[c].out IN
    CASE out = BlankPage -> Answer(code, "whole", 0, conn[c].n)
      [] out.body = "part" -> [out EXCEPT !.body = "mixed"]
      [] OTHER -> out

(* Whether the handler panicked: behind Compress, or with nothing between  *)
(* it and Recovery, before it had begun an answer or later.                *)
PanicOf(r) ==
    IF ~r.panicked THEN "none"
    ELSE IF r.gz # Nothing THEN "zipped"
    ELSE IF r.out = BlankPage THEN "early" ELSE "late"

(* The answer leaves: the client takes the new cookie and the form in it.  *)
Deliver(c, out) ==
    LET r == conn[c] IN
    /\ answers' = answers \cup {[of |-> r.client, sent |-> r.sent, raw |-> r.raw,
                                 own |-> out.from = r.n, panic |-> PanicOf(r),
                                 code |-> out.code, body |-> out.body, token |-> out.token]}
    /\ jar' = IF r.raw # r.sent THEN [jar EXCEPT ![r.client] = r.raw] ELSE jar
    /\ pages' = IF out.token = 0 THEN pages
                ELSE pages \cup {[client |-> r.client, token |-> out.token]}

(* The end of Router.Handle: map and context are cleared and given back.   *)
LeftFull(m) == content  \* variant: the map goes back with the last request's values
Emptied(m) == [content EXCEPT ![m] = NoValues]

Leave(c, out) ==
    LET x == conn[c].ctx
        m == ctxData[x]
    IN  /\ content' = Emptied(m)
        /\ dataPool' = dataPool \cup {m}
        /\ ctxData' = [ctxData EXCEPT ![x] = Nothing]
        /\ ctxPool' = ctxPool \cup {x}
        /\ Deliver(c, out)
        /\ conn' = [conn EXCEPT ![c] = Free]

Begin(c) ==
    /\ IsAt(c, "free")
    /\ served < MaxServed
    /\ served' = served + 1

(* csrf.getOrCreate: the cookie of the request, or a new one.              *)
RawToken(b) == IF jar[b] # 0 THEN jar[b] ELSE served + 1

Request(b, method, submitted) ==
    [at |-> "entered", n |-> served + 1, client |-> b, method |-> method, sent |-> jar[b],
     raw |-> RawToken(b), submitted |-> submitted, ctx |-> Nothing, gz |-> Nothing,
     active |-> FALSE, panicked |-> FALSE, out |-> BlankPage]

(* An error page before csrf.Middleware: no cookie, and nothing is kept.   *)
TurnAway(c) ==
    Begin(c) /\ UNCHANGED <<conn, pools, current, copies, browser, rates, clock, answers>>

(* ServeMux finds no route, or one for another method: its own 404 or 405  *)
(* is intercepted by the codeWriter and the error page takes its place.    *)
NotRouted(c) == TurnAway(c)

(* AllowedHosts.                                                           *)
UnknownHost(c) == TurnAway(c)

(* A context and, for csrf.Middleware's Set, a data map out of the pools.  *)
(* A client without a cookie gets a new one in the answer's header.        *)
Enter(c, b, method, submitted) ==
    /\ Begin(c)
    /\ \E x \in ctxPool, m \in dataPool :
         /\ conn' = [conn EXCEPT ![c] =
              [Request(b, method, submitted) EXCEPT !.ctx = x]]
         /\ ctxPool' = ctxPool \ {x}
         /\ dataPool' = dataPool \ {m}
         /\ ctxData' = [ctxData EXCEPT ![x] = m]
         /\ content' = [content EXCEPT ![m] = [of |-> served + 1, raw |-> RawToken(b)]]
    /\ UNCHANGED <<gzPool, gzTo, current, copies, browser, rates, clock, answers>>

Get(c, b) == Enter(c, b, "GET", 0)

Post(c, b) == \E p \in pages : p.client = b /\ Enter(c, b, "POST", p.token)

(* csrf.Middleware refuses a POST whose token is not that of its cookie,   *)
(* and one whose body it cannot read.                                      *)
Valid(r) == r.method = "GET" \/ (r.submitted # 0 /\ r.submitted = r.raw)

Refuse(c) ==
    /\ IsAt(c, "entered")
    /\ \/ ~Valid(conn[c]) /\ Leave(c, Page(c, "refused"))
       \/ conn[c].method = "POST" /\ Leave(c, Page(c, "refused"))
    /\ UNCHANGED <<gzPool, gzTo, current, copies, served, rates, clock>>

(* RateLimit: one critical section sweeps the entries whose window is over *)
(* once a window has passed since the last time, then counts the request.  *)
EveryWindowOver(e) == TRUE  \* variant: whoever is found is forgotten
WindowOver(e) == clock > e.reset

RatesKept ==
    IF clock - lastSwept > RateWindow
    THEN [b \in Clients |-> IF WindowOver(rate[b]) THEN NoEntry ELSE rate[b]]
    ELSE rate

Counted(b) ==
    LET e == RatesKept[b]
    IN  IF e = NoEntry \/ WindowOver(e)
        THEN [count |-> 1, reset |-> clock + RateWindow]
        ELSE [e EXCEPT !.count = @ + 1]

CountRequest(c) ==
    /\ IsAt(c, "entered")
    /\ Valid(conn[c])
    /\ rate' = [RatesKept EXCEPT ![conn[c].client] = Counted(conn[c].client)]
    /\ lastSwept' = IF clock - lastSwept > RateWindow THEN clock ELSE lastSwept
    /\ UNCHANGED <<gzTo, current, copies, served, clock>>

(* RequireLogin and RequireAuth answer a request without a session or a    *)
(* token, LocalhostOnly one from elsewhere, CORS a preflight.              *)
Protect(c) ==
    /\ IsAt(c, "entered")
    /\ Valid(conn[c])
    /\ Leave(c, Page(c, "refused"))
    /\ UNCHANGED <<gzPool, gzTo, current, copies, served, rates, clock>>

Block(c) ==
    /\ CountRequest(c)
    /\ Counted(conn[c].client).count > RateMax
    /\ Leave(c, Page(c, "refused"))
    /\ UNCHANGED <<gzPool, passes>>

(* Compress comes next: for a client that accepts gzip the context's       *)
(* writer becomes a gzipWriter, and stays so.                              *)
Pass(c, g) ==
    /\ CountRequest(c)
    /\ Counted(conn[c].client).count <= RateMax
    /\ passes' = [passes EXCEPT ![conn[c].client][clock] = @ + 1]
    /\ gzPool' = gzPool \ {g}
    /\ conn' = [conn EXCEPT ![c].at = "handler", ![c].gz = g]
    /\ UNCHANGED <<ctxPool, dataPool, ctxData, content, browser, answers>>

-----------------------------------------------------------------------------
(* The handler.                                                            *)

(* Context.Copy, for a goroutine that outlives the handler.                *)
CopyShares(x) == [value |-> 0, shared |-> ctxData[x]]  \* variant: the map is not cloned
Copy(x) == [value |-> content[ctxData[x]].of, shared |-> Nothing]

Spawn(c) ==
    /\ IsAt(c, "handler")
    /\ conn[c].n <= MaxCopies
    /\ copies' = copies \cup {[of |-> conn[c].n, copy |-> Copy(conn[c].ctx)]}
    /\ UNCHANGED <<conn, pools, current, served, browser, rates, clock, answers>>

ReadCopy(j) == IF j.copy.shared = Nothing THEN j.copy.value ELSE content[j.copy.shared].of

(* A write through the context's writer.  The first one decides whether    *)
(* the body is compressed, by its type; only then the gzip writer is       *)
(* pointed at it.                                                          *)
Write(c, place, out, compressible) ==
    IF conn[c].gz = Nothing \/ ~compressible
    THEN conn' = [conn EXCEPT ![c].at = place, ![c].out = out] /\ UNCHANGED gzTo
    ELSE /\ conn' = [conn EXCEPT ![c].at = place, ![c].active = TRUE,
                                 ![c].out = [out EXCEPT !.body = "open"]]
         /\ gzTo' = [gzTo EXCEPT ![conn[c].gz] = c]

(* Context.JSON, HTML, Redirect, Error, writes of the handler's own, or    *)
(* nothing at all.                                                         *)
Reply(c) ==
    /\ IsAt(c, "handler")
    /\ \E compressible \in BOOLEAN :
         Write(c, "returned", Answer("served", "whole", 0, conn[c].n), compressible)
    /\ UNCHANGED <<ctxPool, dataPool, gzPool, ctxData, content, current, copies, served, browser,
                   rates, clock, answers>>

(* The token TokenFor finds in the context of the template's goroutine.    *)
TokenOf(x) == IF x = Nothing \/ ctxData[x] = Nothing THEN 0 ELSE content[ctxData[x]].raw

(* Renderer.Render: the context is found by goroutine while the template   *)
(* runs into a buffer; an error in it becomes a panic page.                *)
RenderBegin(c) ==
    /\ IsAt(c, "handler")
    /\ current' = [current EXCEPT ![c] = conn[c].ctx]
    /\ Move(c, "rendering")
    /\ UNCHANGED <<pools, copies, served, browser, rates, clock, answers>>

(* clearCurrentCtx is deferred, so that an error clears it as well.        *)
StaysCurrent(c) == current  \* variant: the entry is left for the goroutine's next request
Cleared(c) == [current EXCEPT ![c] = Nothing]

RenderEnd(c) ==
    /\ IsAt(c, "rendering")
    /\ \/ Write(c, "returned", Answer("served", "whole", TokenOf(current[c]), conn[c].n), TRUE)
       \/ Write(c, "returned", Answer("failed", "whole", 0, conn[c].n), TRUE)
    /\ current' = Cleared(c)
    /\ UNCHANGED <<ctxPool, dataPool, gzPool, ctxData, content, copies, served, browser, rates,
                   clock, answers>>

(* Partial inside a handler, sent with HTML: its template asks for the     *)
(* goroutine's context too, and no Render has set one.                     *)
PartialForm(c) ==
    /\ IsAt(c, "handler")
    /\ Write(c, "returned", Answer("served", "whole", TokenOf(current[c]), conn[c].n), TRUE)
    /\ UNCHANGED <<ctxPool, dataPool, gzPool, ctxData, content, current, copies, served, browser,
                   rates, clock, answers>>

MayPanic(c) == ~conn[c].panicked /\ conn[c].n <= MaxPanics

(* A handler panics before it has written anything.                        *)
Panic(c) ==
    /\ IsAt(c, "handler") \/ IsAt(c, "rendering")
    /\ MayPanic(c)
    /\ conn' = [conn EXCEPT ![c].at = "returned", ![c].panicked = TRUE]
    /\ current' = IF IsAt(c, "rendering") THEN Cleared(c) ELSE current
    /\ UNCHANGED <<pools, copies, served, browser, rates, clock, answers>>

(* It panics after its answer, or in the middle of one whose length it has *)
(* not declared: not a page, but Redirect and writes of its own.           *)
PanicLate(c) ==
    /\ IsAt(c, "returned")
    /\ MayPanic(c)
    /\ \/ conn' = [conn EXCEPT ![c].panicked = TRUE]
       \/ /\ conn[c].out.token = 0
          /\ conn' = [conn EXCEPT ![c].panicked = TRUE, ![c].out.body = "part"]
    /\ UNCHANGED <<pools, current, copies, served, browser, rates, clock, answers>>

-----------------------------------------------------------------------------
(* The way back.                                                           *)

(* Compress's deferred function ends the body, if one was begun, and gives *)
(* the gzip writer back.  What it closes is what the writer points at.     *)
LeftOpen(c) == conn[c].out  \* variant: the gzip writer is given back without Close

Ended(c) ==
    IF conn[c].out.body = "open" /\ gzTo[conn[c].gz] = c
    THEN [conn[c].out EXCEPT !.body = "whole"] ELSE conn[c].out

CompressReturns(c) ==
    LET g == conn[c].gz IN
    /\ IsAt(c, "returned")
    /\ g # Nothing
    /\ gzPool' = gzPool \cup {g}
    /\ conn' = [conn EXCEPT ![c].at = "unzipped", ![c].out = Ended(c)]
    /\ UNCHANGED <<ctxPool, dataPool, ctxData, content, gzTo, current, copies, served, browser,
                   rates, clock, answers>>

(* Recovery, outermost of the middleware: RenderPanic writes to the writer *)
(* the context has by now, the gzipWriter where Compress came between.     *)
(* One that has written nothing yet takes the gzip writer back; one that   *)
(* has used it writes to a closed one, or into the body of who has it now, *)
(* which is whole no more.                                                 *)
Recovery(c) ==
    LET r == conn[c] IN
    /\ IsAt(c, "unzipped") \/ (IsAt(c, "returned") /\ r.gz = Nothing)
    /\ \/ ~r.panicked /\ Leave(c, r.out) /\ UNCHANGED gzTo
       \/ /\ r.panicked /\ ~r.active /\ (r.gz = Nothing \/ r.out # BlankPage)
          /\ Leave(c, Page(c, "failed")) /\ UNCHANGED gzTo
       \/ /\ r.panicked /\ r.gz # Nothing /\ r.out = BlankPage
          /\ gzTo' = [gzTo EXCEPT ![r.gz] = c]
          /\ Leave(c, [Page(c, "failed") EXCEPT !.body = "open"])
       \/ /\ r.panicked /\ r.active
          /\ gzTo' = [gzTo EXCEPT ![r.gz] = IF @ = c THEN c ELSE Nothing]
          /\ Leave(c, r.out)
    /\ UNCHANGED <<gzPool, current, copies, served, rates, clock>>

ClockTick ==
    /\ clock < MaxClock
    /\ clock' = clock + 1
    /\ UNCHANGED <<conn, pools, current, copies, served, browser, rates, answers>>

ServeHTTP(c) ==
    \/ Refuse(c) \/ Protect(c) \/ Block(c) \/ \E g \in gzPool \cup {Nothing} : Pass(c, g)
    \/ Spawn(c) \/ Reply(c) \/ PartialForm(c)
    \/ RenderBegin(c) \/ RenderEnd(c) \/ Panic(c) \/ PanicLate(c)
    \/ CompressReturns(c) \/ Recovery(c)

RequestsNext ==
    \/ \E c \in Conns, b \in Clients : Get(c, b) \/ Post(c, b)
    \/ \E c \in Conns : NotRouted(c) \/ UnknownHost(c) \/ ServeHTTP(c)
    \/ ClockTick

RequestsSpec == RequestsInit /\ [][RequestsNext]_requestVars

-----------------------------------------------------------------------------
Numbers == 0..MaxServed
Places == {"entered", "handler", "rendering", "returned", "unzipped"}

RequestsTypeOK ==
    /\ \A c \in Conns : conn[c] = Free \/
         (conn[c].at \in Places /\ conn[c].ctx \in Contexts \ ctxPool
            /\ conn[c].out.body \in {"none", "part", "open", "whole"})
    /\ ctxPool \subseteq Contexts /\ dataPool \subseteq DataMaps /\ gzPool \subseteq GzWriters
    /\ \A x \in Contexts : x \in ctxPool <=> ctxData[x] = Nothing
    /\ \A m \in dataPool : content[m] = NoValues
    /\ served \in Numbers /\ clock \in 0..MaxClock /\ lastSwept \in 0..clock
    /\ jar \in [Clients -> Numbers]
    /\ rate \in [Clients -> [count : 0..MaxServed, reset : 0..MaxClock + RateWindow]]

(* A form carries the token of the client it is sent to, or none, whoever  *)
(* else renders or reuses the context; and it goes stale only if the       *)
(* client had begun two requests before it had a cookie: the last answer   *)
(* decides which of the two cookies it keeps.                              *)
FormsCarryOwnToken ==
    /\ \A a \in answers : a.token \in {0, a.raw}
    /\ \A p \in pages : p.token # jar[p.client] =>
         \E a, b \in answers : a # b /\ {a.of, b.of} = {p.client} /\ a.sent = 0 /\ b.sent = 0

(* What a goroutine reads from its copy of a context is what the handler   *)
(* had put there, also after the context and its map serve other requests. *)
CopiesKeepTheirValues == \A j \in copies : ReadCopy(j) = j.of

(* The passes of an address at these times, numbered at each time.        *)
Passed(b, times) == UNION {{u} \X (1..passes[b][u]) : u \in times}

(* Between two times a window apart, an address passes RateLimit at most   *)
(* twice max times: an interval of that length meets two of its windows.   *)
RateLimited ==
    \A b \in Clients, t \in 0..MaxClock :
        Cardinality(Passed(b, (t..t + RateWindow) \cap (0..MaxClock))) <= 2 * RateMax

(* Every request is answered in full, by its own handler or by one error   *)
(* page, a panic by a 500.  Two panics are excepted: one that comes when   *)
(* the answer was begun keeps the status of what was begun, and the error  *)
(* page follows it in the body; and after one behind Compress nothing is   *)
(* said of any answer, for its page is not ended, or takes the gzip writer *)
(* out of the hands of whoever has got it from the pool since.             *)
AnsweredInFull ==
    (\A a \in answers : a.panic # "zipped")
      /\ (\A c \in Conns : conn[c] # Free => PanicOf(conn[c]) # "zipped")
    => \A a \in answers :
          /\ a.own
          /\ a.body = "whole" \/ a.panic = "late"
          /\ a.panic = "early" => a.code = "failed"
=============================================================================
