------------------------------ MODULE OrmQuery ------------------------------
(***************************************************************************)
(* The query builder of core/orm/query.go: a chain of calls collects the   *)
(* clauses of a query and their arguments, apart from each other; another  *)
(* call puts them together in a statement with placeholders and executes   *)
(* it.  Rows come and go between the statements of a call, and between the *)
(* pages a reader walks through.                                           *)
(*                                                                         *)
(* A condition is the set of rows that meet it; an argument is named after *)
(* the clause it belongs to, so that a statement is in order when its      *)
(* placeholders and its arguments are the same sequence.                   *)
(***************************************************************************)
EXTENDS Integers, Sequences, FiniteSets, SequencesExt

CONSTANTS
    Rows,             \* primary keys
    Conds,            \* conditions of Where and its relatives
    Meets,            \* the rows that meet each
    Holes,            \* the arguments each has placeholders for
    Searched,         \* the condition Search adds, one of Conds
    RankOf,           \* how well each row matches the term searched
    Drivers,          \* "postgres" (and mysql), "sqlite" or "other"
    PageNumbers,      \* what Paginate is called with
    PageSizes,        \* what the three ways of paging are called with
    MaxInt,           \* math.MaxInt
    MaxPageSize,      \* maxPageSize
    DefaultPageSize,  \* 10
    MaxCalls,         \* bound on the calls of a chain
    MaxRead,          \* bound on the rows a walk reads before it is given up
    MaxChanges        \* bound on rows that come and go

After == "after"   \* the condition PaginateAfter adds

(* No table comes within a page of math.MaxInt rows, a ranking leaves none *)
(* equal, and an argument is named after the condition it belongs to.      *)
ASSUME QueryAssumption ==
    /\ After \notin Conds
    /\ MaxInt \in Nat /\ MaxCalls \in Nat /\ MaxChanges \in Nat
    /\ PageNumbers \cup PageSizes \subseteq Int
    /\ Rows \subseteq 1..MaxInt
    /\ Meets \in [Conds -> SUBSET Rows]
    /\ Holes \in [Conds -> Seq(Conds \X (0..MaxInt))]
    /\ Searched \in Conds
    /\ RankOf \in [Rows -> Int] /\ IsInjective(RankOf)
    /\ MaxPageSize \in 1..MaxInt - 1 /\ DefaultPageSize \in 1..MaxPageSize
    /\ Cardinality(Rows) + MaxPageSize <= MaxInt

VARIABLES
    driver,
    rows,      \* the rows of the table
    changes,   \* how often others have inserted or deleted one
    q,         \* the Query
    asked,     \* the conditions it was given, refused ones included (history)
    calls,     \* how many calls the chain has
    statement,      \* the last statement executed since the chain grew, or None
    paging,    \* the Paginate between its two statements, or None
    page,      \* the page the last statement filled, or None
    walk       \* the pages read with PaginateAfter so far, or None

queryVars == <<driver, rows, changes, q, asked, calls, statement, paging, page, walk>>

None == [op |-> "none"]

QueryInit ==
    /\ driver \in Drivers
    /\ rows = Rows
    /\ changes = 0
    /\ q = [where |-> <<>>, args |-> <<>>, orderBy |-> <<>>, rankArgs |-> <<>>,
            joined |-> FALSE, limit |-> 0, offset |-> 0, err |-> FALSE]
    /\ asked = <<>>
    /\ calls = 0
    /\ statement = None /\ paging = None /\ page = None /\ walk = None

-----------------------------------------------------------------------------
(* What the database makes of a statement.                                 *)

Clause(c, or) == [cond |-> c, or |-> or]

(* What each condition selects, with the rows beyond the cursor.           *)
MeetsBeyond(beyond) == [c \in Conds \cup {After} |-> IF c = After THEN beyond ELSE Meets[c]]

HolesOf(c) == IF c = After THEN << <<"after", 1>> >> ELSE Holes[c]

(* The rows that meet a WHERE; AND binds tighter than OR, so that a row    *)
(* must meet some condition and those joined to it by AND.                 *)
MeetsFrom(r, i, where, meets) ==
    \A j \in i..Len(where) :
        (\A k \in i+1..j : ~where[k].or) => r \in meets[where[j].cond]

Selected(where, meets) ==
    IF where = <<>> THEN Rows
    ELSE {r \in Rows : \E i \in 1..Len(where) :
             (i = 1 \/ where[i].or) /\ MeetsFrom(r, i, where, meets)}

Term(by, desc) == [by |-> by, desc |-> desc]
IdTerm(desc) == Term("id", desc)

(* Rows in the order of the first term, or in that of the primary key      *)
(* without one.                                                            *)
OrderKey(r, orderBy) ==
    LET term == IF orderBy = <<>> THEN IdTerm(FALSE) ELSE orderBy[1]
        key == IF term.by = "rank" THEN RankOf[r] ELSE r
    IN  IF term.desc THEN -key ELSE key

Sorted(S, orderBy) ==
    CHOOSE s \in [1..Cardinality(S) -> S] :
        \A i, j \in DOMAIN s : i < j => OrderKey(s[i], orderBy) < OrderKey(s[j], orderBy)

(* LIMIT and OFFSET; 0 for none, and a negative offset skips nothing.      *)
Slice(s, limit, offset) ==
    LET from == IF offset > 0 THEN offset ELSE 0
    IN  SubSeq(s, from + 1,
               IF limit > 0 /\ from + limit < Len(s) THEN from + limit ELSE Len(s))

WhereHoles(where) == FlattenSeq([i \in 1..Len(where) |-> HolesOf(where[i].cond)])

(* A ranking repeats the term searched, but for sqlite's rank column.      *)
OrderHoles(orderBy) ==
    IF driver = "postgres" /\ \E i \in 1..Len(orderBy) : orderBy[i].by = "rank"
    THEN Holes[Searched] ELSE <<>>

-----------------------------------------------------------------------------
(* The chain.                                                              *)

Chain(n, more) ==
    /\ walk = None /\ paging = None
    /\ calls < MaxCalls
    /\ calls' = calls + 1
    /\ q' = n
    /\ asked' = asked \o more
    /\ statement' = None /\ page' = None
    /\ UNCHANGED <<driver, rows, changes, paging, walk>>

WithCond(c, or) ==
    [q EXCEPT !.where = Append(@, Clause(c, or)), !.args = @ \o Holes[c]]

(* Where, WhereEq, WhereIn, WhereNull ... and their Or forms.              *)
Where(c, or) ==
    c # Searched /\ Chain(WithCond(c, or), <<Clause(c, or)>>)

RefusedQuietly(query) == query  \* variant: the error is not kept
Refused(query) == [query EXCEPT !.err = TRUE]

(* An invalid identifier, a list too long for WhereIn, a search in a       *)
(* column without an index.                                                *)
WhereRefused(c, or) ==
    (c = Searched => ~or) /\ Chain(Refused(q), <<Clause(c, or)>>)

Search ==
    LET found == WithCond(Searched, FALSE)
        ranked == CASE driver = "postgres" ->
                         [found EXCEPT !.orderBy = <<Term("rank", TRUE)>>,
                                       !.rankArgs = Holes[Searched]]
                    [] driver = "sqlite" ->
                         IF q.err THEN [q EXCEPT !.joined = TRUE]
                         ELSE [found EXCEPT !.orderBy = <<Term("rank", FALSE)>>,
                                            !.joined = TRUE]
                    [] OTHER -> Refused(q)
    IN  Chain(ranked, <<Clause(Searched, FALSE)>>)

OrderBy(terms) == Chain([q EXCEPT !.orderBy = @ \o terms], <<>>)
Limit(n) == Chain([q EXCEPT !.limit = n], <<>>)
Offset(n) == Chain([q EXCEPT !.offset = n], <<>>)
Join == Chain([q EXCEPT !.joined = TRUE], <<>>)

(* Select, OrderBy or Join with something that is no identifier.           *)
ClauseRefused == Chain(Refused(q), <<>>)

-----------------------------------------------------------------------------
(* Statements.                                                             *)

(* buildSelect; forced is First's 1 or a page's limit, 0 for q's own.      *)
LimitHole(n) == IF n > 0 THEN << <<"limit", n>> >> ELSE <<>>
OffsetHole(n) == IF n > 0 THEN << <<"offset", n>> >> ELSE <<>>

RankArgsLast(query, tail) == query.args \o tail \o query.rankArgs  \* variant: at the end
SelectArgs(query, tail) == query.args \o query.rankArgs \o tail

BuildSelect(op, query, forced, beyond) ==
    LET limit == IF forced > 0 THEN forced ELSE query.limit
        tail == LimitHole(limit) \o OffsetHole(query.offset)
    IN  [op |-> op, selects |-> Selected(query.where, MeetsBeyond(beyond)),
         holes |-> WhereHoles(query.where) \o OrderHoles(query.orderBy) \o tail,
         args |-> SelectArgs(query, tail)]

BuildSelectPage(op, size, offset) ==
    LET tail == << <<"limit", size>>, <<"offset", offset>> >>
    IN  [op |-> op, selects |-> Selected(q.where, Meets),
         holes |-> WhereHoles(q.where) \o OrderHoles(q.orderBy) \o tail,
         args |-> SelectArgs(q, tail)]

(* Count, Exists, the aggregates, Update and Delete have no order; Update  *)
(* sets values first.                                                      *)
BuildPlain(op) ==
    LET set == IF op = "Update" THEN << <<"set", 0>> >> ELSE <<>>
    IN  [op |-> op, selects |-> Selected(q.where, Meets),
         holes |-> set \o WhereHoles(q.where), args |-> set \o q.args]

ReverseOrder(orderBy) ==
    IF orderBy = <<>> THEN <<IdTerm(TRUE)>>
    ELSE [i \in 1..Len(orderBy) |-> [orderBy[i] EXCEPT !.desc = ~@]]

Ready == ~q.err /\ walk = None /\ paging = None

All == Ready /\ statement' = BuildSelect("All", q, 0, {})
FirstRow == Ready /\ statement' = BuildSelect("First", q, 1, {})
LastRow == Ready /\ statement' = BuildSelect("Last", [q EXCEPT !.orderBy = ReverseOrder(@)], 1, {})
Count == Ready /\ statement' = BuildPlain("Count")
Exists == Ready /\ statement' = BuildPlain("Exists")

Read ==
    /\ All \/ FirstRow \/ LastRow \/ Count \/ Exists
    /\ page' = None
    /\ UNCHANGED <<driver, rows, changes, q, asked, calls, paging, walk>>

MayWrite == Ready /\ q.where # <<>> /\ ~q.joined

UpdateRows ==
    /\ MayWrite
    /\ statement' = BuildPlain("Update")
    /\ page' = None
    /\ UNCHANGED <<driver, rows, changes, q, asked, calls, paging, walk>>

DeleteRows ==
    /\ MayWrite
    /\ statement' = BuildPlain("Delete")
    /\ rows' = rows \ Selected(q.where, Meets)
    /\ page' = None
    /\ UNCHANGED <<driver, changes, q, asked, calls, paging, walk>>

-----------------------------------------------------------------------------
(* Pages by number.                                                        *)

(* int arithmetic.                                                         *)
Wrapped(n) == ((n + MaxInt + 1) % (2 * (MaxInt + 1))) - (MaxInt + 1)

ClampSize(size) ==
    CASE size < 1 -> DefaultPageSize
      [] size > MaxPageSize -> MaxPageSize
      [] OTHER -> size

NoMaxPage(number, size) == IF number < 1 THEN 1 ELSE number  \* variant

ClampPage(number, size) ==
    LET last == MaxInt \div size + 1
    IN  CASE number < 1 -> 1
          [] number > last -> last
          [] OTHER -> number

PageOffset(number, size) == Wrapped((number - 1) * size)

Result == Sorted(rows \cap Selected(q.where, Meets), q.orderBy)

(* What a call returns, with the rows it could have returned and whether   *)
(* they changed since it began (history).                                  *)
Returned(op, number, asksFor, items, hasNext, total, changed) ==
    [op |-> op, number |-> number, size |-> asksFor, items |-> items,
     hasNext |-> hasNext, total |-> total, of |-> Result, changed |-> changed]

PaginateCount(number, size) ==
    LET s == ClampSize(size) IN
    /\ Ready
    /\ statement' = BuildPlain("Count")
    /\ paging' = [op |-> "Paginate", number |-> ClampPage(number, s), asked |-> number,
                  size |-> s, total |-> Len(Result), changed |-> FALSE]
    /\ page' = None
    /\ UNCHANGED <<driver, rows, changes, q, asked, calls, walk>>

PaginateSelect ==
    /\ paging # None
    /\ LET size == paging.size
           offset == PageOffset(paging.number, size)
           pages == (paging.total + size - 1) \div size
       IN  /\ statement' = BuildSelectPage("Paginate", size, offset)
           /\ page' = Returned("Paginate", paging.asked, size,
                               Slice(Result, size, offset),
                               paging.number < (IF pages = 0 THEN 1 ELSE pages),
                               paging.total, paging.changed)
    /\ paging' = None
    /\ UNCHANGED <<driver, rows, changes, q, asked, calls, walk>>

ExactlyThePage(size) == size  \* variant: no row more than the page
OneMore(size) == size + 1

PaginateNoCount(number, size) ==
    LET s == ClampSize(size)
        offset == PageOffset(ClampPage(number, s), s)
        found == Slice(Result, OneMore(s), offset)
    IN  /\ Ready
        /\ statement' = BuildSelectPage("PaginateNoCount", OneMore(s), offset)
        /\ page' = Returned("PaginateNoCount", number, s, Slice(found, s, 0),
                            Len(found) > s, -1, FALSE)
        /\ UNCHANGED <<driver, rows, changes, q, asked, calls, paging, walk>>

-----------------------------------------------------------------------------
(* Pages by key: a walk through PaginateAfter("id", cursor, desc, limit).  *)

(* The cursor is whatever the caller passes: nil, a zero of some type, or  *)
(* the key of the last row of the page before, an int64.                   *)
FirstCursors == {"nil", "int", "int64"}
CursorAt(type, value) == [type |-> type, value |-> value]

(* A case of several types leaves the value an interface, which is equal   *)
(* to the constant 0 only when it holds an int.                            *)
IsZeroValue(after) == after.type = "nil" \/ (after.type = "int" /\ after.value = 0)

Walk(type, desc, size) ==
    /\ Ready
    /\ walk' = [op |-> "walk", zero |-> type, desc |-> desc, limit |-> ClampSize(size),
                cursor |-> CursorAt(type, 0), got |-> <<>>, stays |-> rows, at |-> "page"]
    /\ statement' = None /\ page' = None
    /\ UNCHANGED <<driver, rows, changes, q, asked, calls, paging>>

RowLeftOut(items, limit) == items[limit + 1]  \* variant: of the row left out
LastOf(items, limit) == items[limit]

Beyond == {r \in Rows : IF walk.desc THEN r < walk.cursor.value ELSE r > walk.cursor.value}

(* The query of one page: the condition on the key joins the others, and   *)
(* the order is replaced.                                                  *)
AfterQuery ==
    LET base == [q EXCEPT !.orderBy = <<IdTerm(walk.desc)>>]
    IN  IF IsZeroValue(walk.cursor) THEN base
        ELSE [base EXCEPT !.where = Append(@, Clause(After, FALSE)),
                          !.args = @ \o HolesOf(After)]

PaginateAfter ==
    /\ walk # None /\ walk.at = "page"
    /\ Len(walk.got) < MaxRead
    /\ statement' = BuildSelect("PaginateAfter", AfterQuery, walk.limit + 1, Beyond)
    /\ LET found == Slice(Sorted(rows \cap statement'.selects, AfterQuery.orderBy),
                          walk.limit + 1, q.offset)
           more == Len(found) > walk.limit
       IN  walk' = IF statement'.holes # statement'.args THEN [walk EXCEPT !.at = "error"]
                   ELSE [walk EXCEPT
                      !.at = IF more THEN "page" ELSE "end",
                      !.got = @ \o Slice(found, walk.limit, 0),
                      !.cursor = IF more THEN CursorAt("int64", LastOf(found, walk.limit))
                                 ELSE CursorAt("nil", 0)]
    /\ UNCHANGED <<driver, rows, changes, q, asked, calls, paging, page>>

-----------------------------------------------------------------------------
(* Other requests.                                                         *)

Change(r) ==
    /\ changes < MaxChanges
    /\ changes' = changes + 1
    /\ rows' = IF r \in rows THEN rows \ {r} ELSE rows \cup {r}
    /\ paging' = IF paging = None THEN None ELSE [paging EXCEPT !.changed = TRUE]
    /\ walk' = IF walk = None THEN None ELSE [walk EXCEPT !.stays = @ \ {r}]
    /\ UNCHANGED <<driver, q, asked, calls, statement, page>>

-----------------------------------------------------------------------------
Build ==
    \/ \E c \in Conds, or \in BOOLEAN : Where(c, or) \/ WhereRefused(c, or)
    \/ Search
    \/ \E desc \in BOOLEAN : OrderBy(<<IdTerm(desc)>>)
    \/ Limit(1) \/ Offset(1) \/ Join \/ ClauseRefused

Terminal ==
    \/ Read \/ UpdateRows \/ DeleteRows
    \/ \E n \in PageNumbers, s \in PageSizes : PaginateCount(n, s) \/ PaginateNoCount(n, s)
    \/ PaginateSelect
    \/ \E type \in FirstCursors, desc \in BOOLEAN, s \in PageSizes : Walk(type, desc, s)
    \/ PaginateAfter

QueryNext == Build \/ Terminal \/ \E r \in Rows : Change(r)

QuerySpec == QueryInit /\ [][QueryNext]_queryVars

-----------------------------------------------------------------------------
(* Properties.                                                             *)

(* The clauses are what the constants allow, and no statement asks for a   *)
(* negative number of rows or skips one: the multiplication of clampPaging's *)
(* page by its size never wraps around.                                    *)
QueryTypeOK ==
    /\ driver \in Drivers /\ rows \subseteq Rows
    /\ calls \in 0..MaxCalls /\ changes \in 0..MaxChanges
    /\ \A i \in 1..Len(q.where) : q.where[i].cond \in Conds /\ q.where[i].or \in BOOLEAN
    /\ \A i \in 1..Len(q.orderBy) : q.orderBy[i].by \in {"id", "rank"}
    /\ q.limit \in 0..MaxInt /\ q.offset \in 0..MaxInt /\ q.err \in BOOLEAN
    /\ statement # None => \A i \in 1..Len(statement.args) : statement.args[i][2] \in 0..MaxInt
    /\ walk # None => walk.at \in {"page", "end", "error"} /\ walk.stays \subseteq Rows

(* A statement is executed with an argument for each of its placeholders,  *)
(* in their order: Search's term in the ORDER BY comes after those of the  *)
(* WHERE and before LIMIT and OFFSET, whatever the calls before and after. *)
(* PaginateAfter of a search is left out: it replaces the order and keeps  *)
(* the argument of the one it replaces.                                    *)
ArgsFitHoles ==
    statement = None \/ statement.holes = statement.args
    \/ (statement.op = "PaginateAfter" /\ q.rankArgs # <<>>)

(* And the chain stays within its bounds, a clamped page number included.  *)
StatementsFit == QueryTypeOK /\ ArgsFitHoles

(* A condition the builder refuses (an invalid identifier, a list too long, *)
(* a search the driver has not) is never dropped in silence: each statement *)
(* that is executed selects the rows that all the conditions asked for do, *)
(* a page by key some of them, and nothing is written without a condition. *)
SelectsWhatWasAsked ==
    statement # None =>
      /\ statement.selects \subseteq Selected(asked, Meets)
      /\ statement.op # "PaginateAfter" => statement.selects = Selected(asked, Meets)
      /\ statement.op \in {"Update", "Delete"} => asked # <<>>

(* A page is the slice of the result its number and size ask for, however  *)
(* large the number; while no row comes or goes between the two statements *)
(* of Paginate, its total is that of the result and another page follows   *)
(* exactly when rows are left for it.                                      *)
PagesMatchReference ==
    page # None =>
      LET from == (IF page.number < 1 THEN 0 ELSE page.number - 1) * page.size
          total == Len(page.of)
      IN  /\ Len(page.items) = Cardinality({i \in 1..total : from < i /\ i <= from + page.size})
          /\ \A i \in 1..Len(page.items) : page.items[i] = page.of[from + i]
          /\ ~page.changed => (page.hasNext <=> total > from + page.size)
          /\ ~page.changed => page.total \in {total, -1}

Wanted == walk.stays \cap Selected(q.where, Meets)

(* A reader who follows the cursors to the last page gets every row that   *)
(* meets the conditions and is there all along, in the order of the key and *)
(* none twice, though others come and go between the pages.  Left out are  *)
(* conditions joined by OR, to which the one on the key is added without   *)
(* brackets, an offset, which each page applies again, and a descending    *)
(* walk from an int64 0.                                                   *)
KeysetOnce ==
    (/\ walk # None /\ walk.at = "end"
     /\ \A i \in 2..Len(q.where) : ~q.where[i].or
     /\ q.offset = 0
     /\ ~(walk.desc /\ walk.zero = "int64"))
    => /\ Wanted \subseteq ToSet(walk.got)
       /\ ToSet(walk.got) \subseteq Selected(q.where, Meets)
       /\ \A i, j \in 1..Len(walk.got) : i < j =>
             IF walk.desc THEN walk.got[i] > walk.got[j] ELSE walk.got[i] < walk.got[j]

(* Both ways to read a table page by page give each row in its place.      *)
PagesAreComplete == PagesMatchReference /\ KeysetOnce

(* query.go says of the cursor that it is "nil ou zero value na primeira"  *)
(* page: a walk from any zero gives every row that stays.                  *)
ZeroStartsTheWalk ==
    (walk # None /\ walk.at = "end" /\ q.where = <<>> /\ q.offset = 0)
    => Wanted \subseteq ToSet(walk.got)
=============================================================================
