------------------------------- MODULE Admin -------------------------------
(***************************************************************************)
(* The administration panel: core/admin.                                   *)
(*                                                                         *)
(* One user works in several tabs of a browser while another administrator *)
(* may change the role the user has in the database.  A request passes the *)
(* guard requireStaff, executes its statement, and records it in           *)
(* history_logs with a second statement; between these steps the requests  *)
(* of other tabs run.                                                      *)
(*                                                                         *)
(* A model's columns are Fields of some kinds, as formData and registerCRUD *)
(* tell them apart.  A datetime is a number of seconds, of which a minute  *)
(* has Minute and a day Day.  What is shown of a page (labels, order of    *)
(* the columns, the flash message) is left out.                            *)
(***************************************************************************)
EXTENDS Integers, FiniteSetsExt, SequencesExt

CONSTANTS
    Tabs, Pks,
    Restricted,   \* the rows of a model that is SuperuserOnly
    InitRows,     \* the row that each key begins with, or Absent
    NewRows,      \* what a form for a new row is filled with
    Fields, Tags, \* the columns but the key, and what the struct says of each
    Defaults,     \* what the database gives to a column that has a default
    Touches,      \* the fields a user may change in a form, each with its inputs
    Targets,      \* the rows of the table that fk fields refer to, by their label
    OptionsLimit, \* fkOptionsLimit
    DefaultPageSize, MaxPageSize,
    Sizes,        \* the sizes of page that a browser asks for
    Minute, Day,
    Days,         \* the days that a filter asks for, counted from the first, or Bad
    Zone,         \* the offset of APP_TIMEZONE from UTC, in seconds
    StaffCheckTTL,
    GuardTime,    \* bound on the time between the SELECT of the role and its stamp
    MaxSessions,
    MaxSteps,     \* bound on ticks, changes of role, logins and statements together
    Absent,       \* no row, no form
    Blank,        \* an input left empty
    Bad,          \* an input that cannot be parsed, a file that is no image
    Stars,        \* what the history shows of a secret
    Address       \* and of a pointer

VARIABLES
    adminClock,
    role,      \* in the database: "none", "staff" or "admin"
    had,       \* when the user last had each right (history)
    panelCookie,    \* the session of the browser, 0 if there is none
    made,      \* how many sessions there have been
    stamp,     \* the staffCheck in each session
    at,        \* where the request of each tab is
    pass,      \* the role it has been let in with, and when
    job,       \* what it does
    form,      \* the edit form that the tab shows
    rows, history,
    lost,      \* rows that a failed statement left without a record (history)
    steps      \* how many of those there have been (MaxSteps)

adminVars == <<adminClock, role, had, panelCookie, made, stamp, at, pass, job, form,
               rows, history, lost, steps>>
session == <<panelCookie, made, stamp>>
data == <<rows, history, lost>>
tabState == <<at, pass, job, form>>

(* How the panel treats a column: the first of these that its struct says. *)
Kind ==
    LET orders == <<"autonow", "autonow_add", "nanoid", "hash", "image", "fk", "encrypt",
                    "datetime">>
        Said(f) == {i \in DOMAIN orders : orders[i] \in Tags[f]}
    IN  [f \in Fields |-> IF Said(f) = {} THEN "plain" ELSE orders[Min(Said(f))]]

ReadOnly(f) == Kind[f] \in {"autonow", "autonow_add", "nanoid"}

(* What a column of a row may hold; of a datetime, a number of seconds.    *)
Times == {"datetime", "autonow", "autonow_add"}
Values ==
    LET first == {InitRows[pk] : pk \in Pks} \ {Absent}
    IN  Int \cup {Blank} \cup Range(Targets) \cup {touch.input : touch \in Touches}
          \cup UNION {Range(row) : row \in first \cup NewRows \cup {Defaults}}
TableRows ==
    {row \in [Fields -> Values] : \A f \in Fields : Kind[f] \in Times => row[f] \in Int}

ASSUME AdminAssumption ==
    /\ Absent \notin Fields /\ Absent \notin Pks \cup TableRows
    /\ InitRows \in [Pks -> TableRows \cup {Absent}]
    /\ NewRows \subseteq TableRows /\ Defaults \in TableRows
    /\ \A touch \in Touches :
         /\ touch.field \in Fields /\ ~ReadOnly(touch.field)
         /\ Kind[touch.field] = "datetime" => touch.input \in Int \cup {Bad}
    /\ Pks \subseteq Int /\ IsFiniteSet(Pks)
    /\ Targets \in Seq(Range(Targets)) /\ OptionsLimit \in Nat
    /\ DefaultPageSize \in Nat \ {0} /\ MaxPageSize \in Nat /\ DefaultPageSize <= MaxPageSize
    /\ Sizes \subseteq Int
    /\ Minute \in Nat \ {0} /\ Zone \in Int
    /\ Day \in Nat \ {0} /\ Days \subseteq Int \cup {Bad}
    /\ StaffCheckTTL \in Nat \ {0} /\ GuardTime \in Nat
    /\ MaxSessions \in Nat \ {0} /\ MaxSteps \in Nat

Rights(r) == CASE r = "admin" -> {"staff", "admin"} [] r = "staff" -> {"staff"} [] OTHER -> {}
NoStamp == [role |-> "none", at |-> 0]
NoJob == [action |-> "none"]
NoForm == [pk |-> Absent]
NoPass == [role |-> "none", at |-> 0]

(* The user is logged in, and was an administrator until now or still is.  *)
AdminInit ==
    /\ adminClock = 0
    /\ role \in {"none", "staff", "admin"}
    /\ had = [r \in {"staff", "admin"} |-> 0]
    /\ panelCookie = 1 /\ made = 1
    /\ \E first \in {NoStamp, [role |-> "admin", at |-> 0]} :
         stamp = [s \in 1..MaxSessions |-> IF s = 1 THEN first ELSE NoStamp]
    /\ at = [t \in Tabs |-> "idle"]
    /\ pass = [t \in Tabs |-> NoPass]
    /\ job = [t \in Tabs |-> NoJob]
    /\ form = [t \in Tabs |-> NoForm]
    /\ rows = InitRows
    /\ history = {} /\ lost = {} /\ steps = 0

-----------------------------------------------------------------------------
(* Outside: time, and the other administrator.                             *)

Step == steps < MaxSteps /\ steps' = steps + 1

Held(now) == [r \in DOMAIN had |-> IF r \in Rights(role) THEN now ELSE had[r]]

ClockTicks ==
    /\ Step
    /\ \A t \in Tabs : at[t] = "read" => adminClock - pass[t].at < GuardTime
    /\ adminClock' = adminClock + 1
    /\ had' = Held(adminClock + 1)
    /\ UNCHANGED <<role, session, tabState, data>>

SetRole(r) ==
    /\ role # r /\ Step
    /\ role' = r
    /\ had' = [x \in DOMAIN had |-> IF x \in Rights(r) THEN adminClock ELSE had[x]]
    /\ UNCHANGED <<adminClock, session, tabState, data>>

-----------------------------------------------------------------------------
(* requireStaff.                                                           *)

(* A request that finds a stamp leaves it as it is.                        *)
Renew(s) == stamp' = [stamp EXCEPT ![s].at = adminClock]  \* variant: each use renews the stamp
Stay(s) == UNCHANGED stamp

(* A stamp of the session younger than staffCheckTTL.                      *)
Trusted ==
    /\ panelCookie # 0 /\ stamp[panelCookie].role # "none"
    /\ adminClock - stamp[panelCookie].at < StaffCheckTTL

GuardCached(t) ==
    /\ at[t] = "idle"
    /\ Trusted
    /\ pass' = [pass EXCEPT ![t] = [role |-> stamp[panelCookie].role, at |-> adminClock]]
    /\ at' = [at EXCEPT ![t] = "passed"]
    /\ Stay(panelCookie)
    /\ UNCHANGED <<adminClock, role, had, panelCookie, made, job, form, data, steps>>

(* auth.GetUser, and then the stamp: in the session the request came with, *)
(* which may have been deleted since.                                      *)
GuardRead(t) ==
    /\ at[t] = "idle"
    /\ ~Trusted /\ panelCookie # 0
    /\ pass' = [pass EXCEPT ![t] = [role |-> role, at |-> adminClock]]
    /\ job' = [job EXCEPT ![t] = [action |-> "guard", session |-> panelCookie]]
    /\ at' = [at EXCEPT ![t] = "read"]
    /\ UNCHANGED <<adminClock, role, had, session, form, data, steps>>

GuardStamp(t) ==
    /\ at[t] = "read" /\ pass[t].role # "none"
    /\ stamp' = [stamp EXCEPT ![job[t].session] = [role |-> pass[t].role, at |-> adminClock]]
    /\ pass' = [pass EXCEPT ![t].at = adminClock]
    /\ job' = [job EXCEPT ![t] = NoJob]
    /\ at' = [at EXCEPT ![t] = "passed"]
    /\ UNCHANGED <<adminClock, role, had, panelCookie, made, form, data, steps>>

Finish(t) == at' = [at EXCEPT ![t] = "idle"] /\ pass' = [pass EXCEPT ![t] = NoPass]

(* A redirect to the login page.                                           *)
GuardRefuses(t) ==
    /\ at[t] = "read" /\ pass[t].role = "none"
    /\ Finish(t)
    /\ job' = [job EXCEPT ![t] = NoJob]
    /\ UNCHANGED <<adminClock, role, had, session, form, data, steps>>

(* auth.Login makes a session, which handleLoginSubmit takes back from     *)
(* those who are not staff.                                                *)
LoginSubmit ==
    /\ made < MaxSessions /\ Step
    /\ made' = made + 1
    /\ panelCookie' = IF role = "none" THEN 0 ELSE made'
    /\ UNCHANGED <<adminClock, role, had, stamp, tabState, data>>

Logout(t) ==
    /\ at[t] = "passed"
    /\ panelCookie' = 0
    /\ Finish(t)
    /\ UNCHANGED <<adminClock, role, had, made, stamp, job, form, data, steps>>

-----------------------------------------------------------------------------
(* The handlers.                                                           *)

OnlyRequest == UNCHANGED <<adminClock, role, had, session>>

(* modelBySlugFor.                                                         *)
Visible(t, pk) == pk \in Restricted => "admin" \in Rights(pass[t].role)

(* NotFound, BadRequest, a form shown again with its error, and the pages  *)
(* that only read: the dashboard, the list, the history.                   *)
Show(t) ==
    /\ at[t] = "passed"
    /\ Finish(t)
    /\ OnlyRequest /\ UNCHANGED <<job, form, data, steps>>

(* What a form shows of a row, and what the browser posts if the user      *)
(* leaves the field alone.  Hashes are never shown, a file is not sent     *)
(* again; a datetime is shown in Zone, without its seconds.                *)
Floor(d) == d - (d % Minute)

FetchFKOptions == {Targets[i] : i \in 1..Min({OptionsLimit, Len(Targets)})}

(* A current value that is not empty is put first if it is not among the   *)
(* options.  None of them is empty: the browser posts the first of them    *)
(* for a row that has none, and nothing if there is no option.             *)
OptionsOf(v) == FetchFKOptions \cup ({v} \ {Blank})
Selected(v) ==
    IF v \in OptionsOf(v) THEN v ELSE IF FetchFKOptions = {} THEN Blank ELSE Targets[1]

FormatInput(f, v) ==
    CASE Kind[f] \in {"hash", "image"} -> Blank
      [] Kind[f] = "datetime" -> Floor(v + Zone)
      [] Kind[f] = "fk" -> Selected(v)
      [] OTHER -> v

EditForm(t) ==
    /\ at[t] = "passed"
    /\ \E pk \in Pks :
         /\ Visible(t, pk) /\ rows[pk] # Absent
         /\ form' = [form EXCEPT ![t] = [pk |-> pk, base |-> rows[pk],
                       posted |-> [f \in Fields |-> FormatInput(f, rows[pk][f])]]]
    /\ Finish(t)
    /\ OnlyRequest /\ UNCHANGED <<job, data, steps>>

(* A statement has been executed and is still to be recorded.              *)
Execute(t, action, pks, changes, touched) ==
    /\ at' = [at EXCEPT ![t] = "log"]
    /\ job' = [job EXCEPT ![t] =
         [action |-> action, pks |-> pks, changes |-> changes, touched |-> touched]]
    /\ Step /\ UNCHANGED <<pass, history, lost>> /\ OnlyRequest

NoChanges == [f \in {} |-> Blank]

(* The keys that the database has not given yet, and the next it gives.    *)
FreshKeys ==
    {pk \in Pks : /\ rows[pk] = Absent /\ InitRows[pk] = Absent /\ pk \notin lost
                  /\ \A e \in history : e.pk # pk
                  /\ \A t \in Tabs : at[t] = "log" => pk \notin job[t].pks}
NextKey(pk) == \A other \in FreshKeys : pk <= other

(* The INSERT: the database fills what the form cannot or has left empty,  *)
(* and none of it is read back.                                            *)
Inserted(new) ==
    [f \in Fields |->
        CASE Kind[f] \in {"autonow", "autonow_add"} -> adminClock
          [] Kind[f] \notin {"autonow", "autonow_add"} /\ "default" \in Tags[f]
               /\ new[f] = Blank -> Defaults[f]
          [] OTHER -> new[f]]

(* The UPDATE: each column of values, and each that is autonow.            *)
Updated(row, values) ==
    [f \in Fields |-> IF Kind[f] = "autonow" THEN adminClock
                      ELSE IF f \in DOMAIN values THEN values[f] ELSE row[f]]

(* rm.create.                                                              *)
CreateRow(t) ==
    /\ at[t] = "passed"
    /\ \E pk \in FreshKeys, new \in NewRows :
         /\ NextKey(pk) /\ Visible(t, pk)
         /\ \A f \in Fields : Kind[f] = "hash" => new[f] # Blank
         /\ rows' = [rows EXCEPT ![pk] = Inserted(new)]
         /\ Execute(t, "create", {pk}, new, {})
    /\ UNCHANGED form

(* rm.update: every field of the form but those it shows only, and a hash  *)
(* or an image left blank.  The datetime is parsed as UTC.                 *)
NeverSkipped(f, posted) == ReadOnly(f)  \* variant: what is left blank is written too
Skipped(f, posted) == ReadOnly(f) \/ (Kind[f] \in {"hash", "image"} /\ posted[f] = Blank)
Written(posted) == [f \in {x \in Fields : ~Skipped(x, posted)} |-> posted[f]]

(* An input that is parsed, and a file whose content is an image.          *)
Accepted(touch) == touch.input # Bad

UpdateRow(t) ==
    /\ at[t] = "passed" /\ form[t] # NoForm
    /\ LET pk == form[t].pk IN
       /\ Visible(t, pk)
       /\ \E touch \in Touches \cup {[field |-> Absent, input |-> Blank]} :
            LET posted == [f \in Fields |->
                             IF f = touch.field THEN touch.input ELSE form[t].posted[f]]
                values == Written(posted)
            IN  /\ Accepted(touch)
                /\ DOMAIN values # {}
                /\ rows' = [rows EXCEPT ![pk] = IF @ = Absent THEN Absent ELSE Updated(@, values)]
                /\ Execute(t, "update", {pk}, values, {touch.field})
    /\ form' = [form EXCEPT ![t] = NoForm]

(* rm.delete, and the bulk action of that name: one DELETE.                *)
DeleteRow(t) ==
    /\ at[t] = "passed"
    /\ \E pks \in (SUBSET (Pks \ FreshKeys)) \ {{}} :
         /\ \A pk \in pks : Visible(t, pk)
         /\ \A pk, other \in pks : pk \in Restricted <=> other \in Restricted
         /\ rows' = [pk \in Pks |-> IF pk \in pks THEN Absent ELSE rows[pk]]
         /\ Execute(t, "delete", pks, NoChanges, {})
    /\ UNCHANGED form

(* A BulkAction of the application, a function that sets a field of each   *)
(* row with an Update of its own; if one fails there is no record.         *)
Marked(pks, touch) ==
    [pk \in Pks |-> IF pk \in pks /\ rows[pk] # Absent
                    THEN Updated(rows[pk], [f \in {touch.field} |-> touch.input]) ELSE rows[pk]]
Markings == {touch \in Touches : Kind[touch.field] = "plain"}

BulkAction(t) ==
    /\ at[t] = "passed"
    /\ \E pks \in (SUBSET (Pks \ (Restricted \cup FreshKeys))) \ {{}}, touch \in Markings :
         /\ rows' = Marked(pks, touch)
         /\ Execute(t, "bulk", pks, NoChanges, {})
    /\ UNCHANGED form

BulkActionFails(t) ==
    /\ at[t] = "passed"
    /\ \E pks \in (SUBSET (Pks \ (Restricted \cup FreshKeys))) \ {{}}, touch \in Markings :
         rows' = Marked(pks, touch) /\ lost' = lost \cup pks
    /\ Finish(t)
    /\ Step /\ OnlyRequest /\ UNCHANGED <<job, form, history>>

(* redactedChangesJSON, logHistory and logBulkHistory.  An optional column *)
(* is a pointer: if it is not nil, what is written of it is its address.   *)
Secret(f) == Tags[f] \cap {"hash", "encrypt"} # {}
Redacted(changes) ==
    [f \in DOMAIN changes |-> IF Secret(f) THEN Stars
                              ELSE IF "optional" \in Tags[f] /\ changes[f] # Blank THEN Address
                              ELSE changes[f]]

OneLogged(pks) == {CHOOSE pk \in pks : TRUE}  \* variant: one entry for an action in bulk
Logged(pks) == pks

LogHistory(t) ==
    /\ at[t] = "log"
    /\ history' = history \cup
         {[pk |-> pk, action |-> job[t].action, changes |-> Redacted(job[t].changes)] :
            pk \in Logged(job[t].pks)}
    /\ Finish(t)
    /\ job' = [job EXCEPT ![t] = NoJob]
    /\ OnlyRequest /\ UNCHANGED <<form, rows, lost, steps>>

(* An error of that INSERT is only logged.                                 *)
LogFails(t) ==
    /\ at[t] = "log"
    /\ lost' = lost \cup job[t].pks
    /\ Finish(t)
    /\ job' = [job EXCEPT ![t] = NoJob]
    /\ OnlyRequest /\ UNCHANGED <<form, rows, history, steps>>

AdminNext ==
    \/ ClockTicks \/ LoginSubmit
    \/ \E r \in {"none", "staff", "admin"} : SetRole(r)
    \/ \E t \in Tabs :
         \/ GuardCached(t) \/ GuardRead(t) \/ GuardStamp(t) \/ GuardRefuses(t) \/ Logout(t)
         \/ Show(t) \/ EditForm(t) \/ CreateRow(t) \/ UpdateRow(t) \/ DeleteRow(t)
         \/ BulkAction(t) \/ BulkActionFails(t) \/ LogHistory(t) \/ LogFails(t)

(* What has been executed is recorded, or its error is logged.             *)
AdminFairness == \A t \in Tabs : WF_adminVars(LogHistory(t) \/ LogFails(t))

AdminSpec == AdminInit /\ [][AdminNext]_adminVars /\ AdminFairness

-----------------------------------------------------------------------------
(* The filters of a list: f_<column>_min and f_<column>_max.               *)

(* filterConds: a value that cannot be parsed is no condition.             *)
FromDay(low) == IF low = Bad THEN {} ELSE {[op |-> ">=", val |-> low * Day]}
SameDay(high) == high * Day  \* variant: the bound is the beginning of the day
NextDay(high) == high * Day + Day
UntilDay(high) == IF high = Bad THEN {} ELSE {[op |-> "<", val |-> NextDay(high)]}

Meets(v, c) == IF c.op = "<" THEN v < c.val ELSE v >= c.val

(* ORDER BY the primary key, DESC: the order of a list nobody has sorted.  *)
Newest(pks) ==
    CHOOSE s \in [1..Cardinality(pks) -> pks] : \A i, j \in DOMAIN s : i < j => s[i] > s[j]

(* rm.list: a page of the rows, the newest first.                          *)
List(page, size, f, low, high) ==
    LET Found(pk) == /\ rows[pk] # Absent
                     /\ \A c \in FromDay(low) \cup UntilDay(high) : Meets(rows[pk][f], c)
        keys == Newest({pk \in Pks : Found(pk)})
    IN  [items |-> SubSeq(keys, (page - 1) * size + 1, Min({page * size, Len(keys)})),
         hasNext |-> Len(keys) > page * size]

(* handleList makes up for a page or a size that the browser should not    *)
(* have asked for, 0 if it asks for none.                                  *)
PageSize(size) == Min({IF size < 1 THEN DefaultPageSize ELSE size, MaxPageSize})

HandleList(page, size, f, low, high) ==
    List(IF page < 1 THEN 1 ELSE page, PageSize(size), f, low, high)

(* The links to the next page keep the filters, but not the size.          *)
Followed(size, f, low, high) ==
    LET From[page \in 1..Cardinality(Pks) + 1] ==
          LET p == HandleList(page, IF page = 1 THEN size ELSE 0, f, low, high)
          IN  p.items \o IF p.hasNext THEN From[page + 1] ELSE <<>>
    IN  From[1]

-----------------------------------------------------------------------------
AdminTypeOK ==
    /\ adminClock \in 0..steps /\ panelCookie \in 0..made /\ made \in 1..MaxSessions
    /\ \A t \in Tabs :
         /\ at[t] \in {"idle", "read", "passed", "log"}
         /\ at[t] = "passed" => pass[t].role # "none"
         /\ at[t] = "log" => job[t].pks # {}
    /\ \A pk \in Pks : rows[pk] = Absent \/ DOMAIN rows[pk] = Fields

(* "revogar IsStaff de um usuario encerra o acesso em ate 5s" (USE.md:2273): *)
(* however the requests of the tabs interleave with it, nobody passes the  *)
(* guard with a right lost for longer than staffCheckTTL and the time of   *)
(* one guard's own query.                                                  *)
RightsExpire ==
    \A t \in Tabs : at[t] = "passed" =>
        \A r \in Rights(pass[t].role) : pass[t].at - had[r] < StaffCheckTTL + GuardTime

(* "Toda acao feita atraves do admin gera automaticamente uma entrada"     *)
(* (USE.md:2409): each value in the table is one it began with or one that *)
(* an entry of the history accounts for, whatever the order of the tabs;   *)
(* except while the entry is still to be written, or when its INSERT or a  *)
(* bulk action has failed.  And no entry tells a secret.  What an optional *)
(* column was set to is not told either, only that it was: its entry holds *)
(* an address; and of columns the database fills (autonow, autonow_add, or *)
(* a default) nothing is said: no entry has what it put there.             *)
FilledByDatabase(f) == Kind[f] \in {"autonow", "autonow_add"} \/ "default" \in Tags[f]

HistoryAccounts ==
    /\ \A pk \in Pks \ lost :
         (\A t \in Tabs : at[t] = "log" => pk \notin job[t].pks) =>
           LET entries == {e \in history : e.pk = pk} IN
           IF rows[pk] = Absent
           THEN \/ InitRows[pk] = Absent /\ \A e \in entries : e.action # "create"
                \/ \E e \in entries : e.action = "delete"
           ELSE \A f \in {x \in Fields : ~FilledByDatabase(x)} :
                  \/ InitRows[pk] # Absent /\ rows[pk][f] = InitRows[pk][f]
                  \/ \E e \in entries : \/ e.action = "bulk" /\ Kind[f] = "plain"
                                        \/ f \in DOMAIN e.changes
                                             /\ e.changes[f] \in {rows[pk][f], Stars, Address}
    /\ \A e \in history : \A f \in DOMAIN e.changes : Secret(f) => e.changes[f] = Stars

Saving(t) == at[t] = "passed" /\ at'[t] = "log" /\ job'[t].action = "update"
Untouched(t) == Fields \ job'[t].touched

(* A form that is saved leaves alone the fields the user has not touched,  *)
(* the hidden hash, the image and a choice beyond the options included,    *)
(* unless the row has changed since the form was shown.  A datetime loses  *)
(* its seconds and is moved by the zone, an autonow column is set, and a   *)
(* foreign key that was empty becomes the first option: the form has none  *)
(* that is empty, so the browser posts that one.                           *)
UntouchedFieldsStay ==
    [][\A t \in Tabs : Saving(t) /\ form[t].base = rows[form[t].pk] =>
         \A f \in Untouched(t) :
            LET before == form[t].base[f]
                after == rows'[form[t].pk][f]
            IN  CASE Kind[f] = "autonow" -> after = adminClock
                  [] Kind[f] = "datetime" -> after = Floor(before + Zone)
                  [] Kind[f] = "fk" /\ before = Blank -> after = Selected(Blank)
                  [] OTHER -> after = before]_adminVars

DaysShown ==
    \A f \in {x \in Fields : Kind[x] = "datetime"}, low, high \in Days, size \in Sizes :
        LET Wanted(pk) == /\ rows[pk] # Absent
                          /\ low = Bad \/ low <= rows[pk][f] \div Day
                          /\ high = Bad \/ rows[pk][f] \div Day <= high
            shown == Newest({pk \in Pks : Wanted(pk)})
            first == PageSize(size)
        IN  Followed(size, f, low, high) =
              IF Len(shown) <= first THEN shown
              ELSE SubSeq(shown, 1, first) \o SubSeq(shown, DefaultPageSize + 1, Len(shown))

(* A list filtered by days and followed to its last page shows each row of *)
(* those days once, the newest first, first and last day included, and an  *)
(* input that is no date filters nothing: after each change of the rows.   *)
(* That is so if the browser asks for no size of page or for the default.  *)
(* For another size whose first page does not hold them all it is not,     *)
(* since the links drop it: what lies between a smaller one and the        *)
(* default is never shown, and what lies between the default and a larger  *)
(* one is shown twice.                                                     *)
FiltersMatchDays == [][rows' # rows => DaysShown']_adminVars

(* "Nunca afeta o que e gravado no banco" (bootstrap.go:64-65): the zone   *)
(* changes what the panel shows, and a form that is saved without touching *)
(* a datetime keeps its minute.                                            *)
ZoneOnlyShows ==
    [][\A t \in Tabs : Saving(t) /\ form[t].base = rows[form[t].pk] =>
         \A f \in {x \in Untouched(t) : Kind[x] = "datetime"} :
            rows'[form[t].pk][f] = Floor(form[t].base[f])]_adminVars
=============================================================================
