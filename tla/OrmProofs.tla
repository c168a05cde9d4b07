----------------------------- MODULE OrmProofs -----------------------------
(***************************************************************************)
(* Proofs about the query builder, for any conditions, rows, drivers and   *)
(* page sizes, chains of any length and walks of any number of pages, and  *)
(* about the calls that look before they write, for any number of callers, *)
(* keys and rows.                                                          *)
(***************************************************************************)
EXTENDS OrmQuery, Records, SequenceFacts, FiniteSetTheorems, SequenceTheorems, TLAPS

Clauses == [cond : Conds, or : BOOLEAN]

(* A query without an error has the conditions it was asked for; an error  *)
(* is never taken back, and no statement is under way with one.            *)
QueryInv ==
    /\ "where" \in DOMAIN q /\ "err" \in DOMAIN q
    /\ q.err \in BOOLEAN
    /\ q.where \in Seq(Clauses)
    /\ asked \in Seq(Clauses)
    /\ ~q.err => q.where = asked
    /\ walk # None => ~q.err
    /\ paging # None => ~q.err

-----------------------------------------------------------------------------
(* What a WHERE selects.                                                   *)

(* The condition on the key selects nothing where it does not occur.       *)
LEMMA BeyondUnused ==
    ASSUME NEW where \in Seq(Clauses), NEW beyond
    PROVE  Selected(where, MeetsBeyond(beyond)) = Selected(where, Meets)
  <1>1. ASSUME NEW j \in 1..Len(where)
        PROVE  MeetsBeyond(beyond)[where[j].cond] = Meets[where[j].cond]
    <2>1. where[j] \in Clauses
      OBVIOUS
    <2>2. where[j].cond \in Conds
      BY <2>1 DEF Clauses
    <2> QED
      BY <2>2, QueryAssumption DEF MeetsBeyond
  <1>2. ASSUME NEW r, NEW i \in 1..Len(where)
        PROVE  MeetsFrom(r, i, where, MeetsBeyond(beyond)) <=> MeetsFrom(r, i, where, Meets)
    <2>1. \A j \in i..Len(where) : j \in 1..Len(where)
      OBVIOUS
    <2> QED
      BY <1>1, <2>1 DEF MeetsFrom
  <1> QED
    BY <1>2 DEF Selected

(* With AND before it, it only narrows what the others select.             *)
LEMMA AfterNarrows ==
    ASSUME NEW where \in Seq(Clauses), NEW beyond
    PROVE  Selected(Append(where, Clause(After, FALSE)), MeetsBeyond(beyond))
             \subseteq Selected(where, Meets)
  <1> DEFINE after == Clause(After, FALSE)
             more == Append(where, after)
             meets == MeetsBeyond(beyond)
  <1>1. /\ Len(where) \in Nat /\ Len(more) = Len(where) + 1
        /\ \A i \in 1..Len(where) : more[i] = where[i]
        /\ more[Len(where) + 1] = after
        /\ more # <<>>
    <2> DEFINE S == Clauses \cup {after}
    <2> HIDE DEF after
    <2>1. where \in Seq(S) /\ after \in S
      <3>1. \A i \in 1..Len(where) : where[i] \in S
        OBVIOUS
      <3>2. after \in S
        OBVIOUS
      <3> HIDE DEF S
      <3>3. where \in Seq(S)
        BY <3>1, LenProperties
      <3> QED
        BY <3>2, <3>3
    <2> HIDE DEF S
    <2>2. Len(where) \in Nat
      OBVIOUS
    <2> QED
      BY <2>1, <2>2, AppendProperties
  <1>2. ~more[Len(where) + 1].or
    <2>1. after.or = FALSE
      BY DEF Clause
    <2> QED
      BY <1>1, <2>1
  <1>3. Selected(where, meets) = Selected(where, Meets)
    BY BeyondUnused
  <1>4. ASSUME NEW r \in Selected(more, meets)
        PROVE  r \in Selected(where, meets)
    <2> HIDE DEF after, more, meets
    <2>1. CASE where = <<>>
      BY <1>1, <1>4, <2>1 DEF Selected
    <2>2. CASE where # <<>>
      <3>1. PICK i \in 1..Len(more) :
               (i = 1 \/ more[i].or) /\ MeetsFrom(r, i, more, meets)
        BY <1>1, <1>4 DEF Selected
      <3>2. Len(where) >= 1
        BY <2>2, <1>1, EmptySeq
      <3>3. i # Len(where) + 1
        BY <3>1, <3>2, <1>1, <1>2
      <3>4. i \in 1..Len(where)
        BY <3>3, <1>1
      <3>5. r \in Rows
        BY <1>1, <1>4 DEF Selected
      <3>6. i = 1 \/ where[i].or
        BY <3>1, <3>4, <1>1
      <3>7. ASSUME NEW j \in i..Len(where), \A k \in i+1..j : ~where[k].or
            PROVE  r \in meets[where[j].cond]
        <4>1. j \in 1..Len(where) /\ j \in i..Len(more)
          BY <3>4, <1>1
        <4>2. ASSUME NEW k \in i+1..j
              PROVE  more[k] = where[k]
          <5>1. k \in 1..Len(where)
            BY <3>4, <4>1, <1>1
          <5> QED
            BY <5>1, <1>1
        <4>3. \A k \in i+1..j : ~more[k].or
          BY <4>2, <3>7
        <4>4. r \in meets[more[j].cond]
          BY <3>1, <4>1, <4>3 DEF MeetsFrom
        <4> QED
          BY <4>1, <4>4, <1>1
      <3>8. MeetsFrom(r, i, where, meets)
        BY <3>7 DEF MeetsFrom
      <3> QED
        BY <2>2, <3>4, <3>5, <3>6, <3>8 DEF Selected
    <2> QED
      BY <2>1, <2>2
  <1> QED
    BY <1>3, <1>4

-----------------------------------------------------------------------------
(* The chain.                                                              *)

(* A call that keeps an error, and adds to the query what it was asked for *)
(* or leaves an error.                                                     *)
LEMMA ChainKeeps ==
    ASSUME QueryInv, NEW n, NEW more \in Seq(Clauses), Chain(n, more),
           "where" \in DOMAIN n, "err" \in DOMAIN n, n.err \in BOOLEAN,
           n.where \in Seq(Clauses),
           ~n.err => ~q.err /\ n.where = q.where \o more
    PROVE  QueryInv' /\ statement' = None
  <1>1. q' = n /\ asked' = asked \o more /\ walk = None /\ paging = None
        /\ walk' = walk /\ paging' = paging /\ statement' = None
    BY DEF Chain
  <1>2. asked \o more \in Seq(Clauses)
    BY DEF QueryInv
  <1>3. ~n.err => n.where = asked \o more
    BY DEF QueryInv
  <1> QED
    BY <1>1, <1>2, <1>3 DEF QueryInv

LEMMA RefusedKeeps ==
    ASSUME QueryInv, NEW more \in Seq(Clauses), Chain(Refused(q), more)
    PROVE  QueryInv' /\ statement' = None
  <1>1. "where" \in DOMAIN Refused(q) /\ "err" \in DOMAIN Refused(q)
        /\ Refused(q).err = TRUE /\ Refused(q).where = q.where
    BY DEF Refused, QueryInv
  <1>2. q.where \in Seq(Clauses)
    BY DEF QueryInv
  <1> QED
    BY <1>1, <1>2, ChainKeeps

(* Calls that touch neither the conditions nor the error.                  *)
LEMMA SideKeeps ==
    ASSUME QueryInv, NEW n, Chain(n, <<>>),
           "where" \in DOMAIN n, "err" \in DOMAIN n, n.err = q.err, n.where = q.where
    PROVE  QueryInv' /\ statement' = None
  <1>1. q.where \in Seq(Clauses) /\ q.err \in BOOLEAN
    BY DEF QueryInv
  <1>2. q.where \o <<>> = q.where /\ <<>> \in Seq(Clauses)
    BY <1>1
  <1> QED
    BY <1>1, <1>2, ChainKeeps

LEMMA WithCondFacts ==
    ASSUME QueryInv, NEW c \in Conds, NEW or \in BOOLEAN
    PROVE  /\ "where" \in DOMAIN WithCond(c, or) /\ "err" \in DOMAIN WithCond(c, or)
           /\ WithCond(c, or).err = q.err
           /\ WithCond(c, or).where = q.where \o <<Clause(c, or)>>
           /\ Clause(c, or) \in Clauses
           /\ <<Clause(c, or)>> \in Seq(Clauses)
           /\ q.where \o <<Clause(c, or)>> \in Seq(Clauses)
  <1>1. Clause(c, or) \in Clauses
    BY DEF Clause, Clauses
  <1>2. q.where \in Seq(Clauses)
    BY DEF QueryInv
  <1>3. /\ "where" \in DOMAIN WithCond(c, or) /\ "err" \in DOMAIN WithCond(c, or)
        /\ WithCond(c, or).err = q.err
        /\ WithCond(c, or).where = Append(q.where, Clause(c, or))
    BY DEF WithCond, QueryInv
  <1> QED
    BY <1>1, <1>2, <1>3, AppendIsConcat

LEMMA SearchKeeps ==
    ASSUME QueryInv, Search
    PROVE  QueryInv' /\ statement' = None
  <1> DEFINE found == WithCond(Searched, FALSE)
             more == <<Clause(Searched, FALSE)>>
  <1>1. Searched \in Conds
    BY QueryAssumption
  <1>2. /\ "where" \in DOMAIN found /\ "err" \in DOMAIN found
        /\ found.err = q.err /\ found.where = q.where \o more
        /\ more \in Seq(Clauses) /\ found.where \in Seq(Clauses)
    BY <1>1, WithCondFacts
  <1>3. q.err \in BOOLEAN /\ q.where \in Seq(Clauses)
        /\ "where" \in DOMAIN q /\ "err" \in DOMAIN q
    BY DEF QueryInv
  <1> HIDE DEF found, more
  <1>4. CASE driver = "postgres"
    <2> DEFINE n == [found EXCEPT !.orderBy = <<Term("rank", TRUE)>>,
                                  !.rankArgs = Holes[Searched]]
    <2>1. Chain(n, more)
      BY <1>4 DEF Search, found, more
    <2>2. "where" \in DOMAIN n /\ "err" \in DOMAIN n /\ n.err = found.err /\ n.where = found.where
      BY <1>2
    <2> HIDE DEF n
    <2> QED
      BY <2>1, <2>2, <1>2, <1>3, ChainKeeps
  <1>5. CASE driver = "sqlite" /\ q.err
    <2> DEFINE n == [q EXCEPT !.joined = TRUE]
    <2>1. Chain(n, more)
      BY <1>5 DEF Search, found, more
    <2>2. "where" \in DOMAIN n /\ "err" \in DOMAIN n /\ n.err = q.err /\ n.where = q.where
      BY <1>3
    <2> HIDE DEF n
    <2> QED
      BY <2>1, <2>2, <1>2, <1>3, <1>5, ChainKeeps
  <1>6. CASE driver = "sqlite" /\ ~q.err
    <2> DEFINE n == [found EXCEPT !.orderBy = <<Term("rank", FALSE)>>, !.joined = TRUE]
    <2>1. Chain(n, more)
      BY <1>6 DEF Search, found, more
    <2>2. "where" \in DOMAIN n /\ "err" \in DOMAIN n /\ n.err = found.err /\ n.where = found.where
      BY <1>2
    <2> HIDE DEF n
    <2> QED
      BY <2>1, <2>2, <1>2, <1>3, ChainKeeps
  <1>7. CASE driver # "postgres" /\ driver # "sqlite"
    <2>1. Chain(Refused(q), more)
      BY <1>7 DEF Search, found, more
    <2> QED
      BY <2>1, <1>2, RefusedKeeps
  <1> QED
    BY <1>4, <1>5, <1>6, <1>7

LEMMA BuildKeeps ==
    ASSUME QueryInv, Build
    PROVE  QueryInv' /\ statement' = None
  <1>0. "where" \in DOMAIN q /\ "err" \in DOMAIN q
    BY DEF QueryInv
  <1>1. ASSUME NEW c \in Conds, NEW or \in BOOLEAN, Where(c, or)
        PROVE  QueryInv' /\ statement' = None
    <2>1. Chain(WithCond(c, or), <<Clause(c, or)>>)
      BY <1>1 DEF Where
    <2>2. q.err \in BOOLEAN
      BY DEF QueryInv
    <2> QED
      BY <2>1, <2>2, WithCondFacts, ChainKeeps
  <1>2. ASSUME NEW c \in Conds, NEW or \in BOOLEAN, WhereRefused(c, or)
        PROVE  QueryInv' /\ statement' = None
    <2>1. Chain(Refused(q), <<Clause(c, or)>>)
      BY <1>2 DEF WhereRefused
    <2> QED
      BY <2>1, WithCondFacts, RefusedKeeps
  <1>3. ASSUME NEW terms, OrderBy(terms)
        PROVE  QueryInv' /\ statement' = None
    <2> DEFINE n == [q EXCEPT !.orderBy = @ \o terms]
    <2>1. "where" \in DOMAIN n /\ "err" \in DOMAIN n /\ n.err = q.err /\ n.where = q.where
      BY <1>0
    <2>2. Chain(n, <<>>)
      BY <1>3 DEF OrderBy
    <2> HIDE DEF n
    <2> QED
      BY <2>1, <2>2, SideKeeps
  <1>4. CASE Limit(1)
    <2> DEFINE n == [q EXCEPT !.limit = 1]
    <2>1. "where" \in DOMAIN n /\ "err" \in DOMAIN n /\ n.err = q.err /\ n.where = q.where
      BY <1>0
    <2>2. Chain(n, <<>>)
      BY <1>4 DEF Limit
    <2> HIDE DEF n
    <2> QED
      BY <2>1, <2>2, SideKeeps
  <1>5. CASE Offset(1)
    <2> DEFINE n == [q EXCEPT !.offset = 1]
    <2>1. "where" \in DOMAIN n /\ "err" \in DOMAIN n /\ n.err = q.err /\ n.where = q.where
      BY <1>0
    <2>2. Chain(n, <<>>)
      BY <1>5 DEF Offset
    <2> HIDE DEF n
    <2> QED
      BY <2>1, <2>2, SideKeeps
  <1>6. CASE Join
    <2> DEFINE n == [q EXCEPT !.joined = TRUE]
    <2>1. "where" \in DOMAIN n /\ "err" \in DOMAIN n /\ n.err = q.err /\ n.where = q.where
      BY <1>0
    <2>2. Chain(n, <<>>)
      BY <1>6 DEF Join
    <2> HIDE DEF n
    <2> QED
      BY <2>1, <2>2, SideKeeps
  <1>7. CASE ClauseRefused
    <2>1. <<>> \in Seq(Clauses)
      OBVIOUS
    <2> QED
      BY <1>7, <2>1, RefusedKeeps DEF ClauseRefused
  <1> QED
    BY <1>1, <1>2, <1>3, <1>4, <1>5, <1>6, <1>7, SearchKeeps DEF Build

-----------------------------------------------------------------------------
(* Statements.                                                             *)

(* A statement of a query without an error selects what was asked for.     *)
LEMMA PlainSelects ==
    ASSUME QueryInv, ~q.err, NEW op
    PROVE  /\ BuildPlain(op).op = op
           /\ BuildPlain(op).selects = Selected(asked, Meets)
  BY DEF BuildPlain, QueryInv

LEMMA PageSelects ==
    ASSUME QueryInv, ~q.err, NEW op, NEW size, NEW offset
    PROVE  /\ BuildSelectPage(op, size, offset).op = op
           /\ BuildSelectPage(op, size, offset).selects = Selected(asked, Meets)
  BY DEF BuildSelectPage, QueryInv

LEMMA SelectSelects ==
    ASSUME QueryInv, ~q.err, NEW op, NEW query, NEW forced, query.where = q.where
    PROVE  /\ BuildSelect(op, query, forced, {}).op = op
           /\ BuildSelect(op, query, forced, {}).selects = Selected(asked, Meets)
  <1>1. q.where \in Seq(Clauses) /\ q.where = asked
    BY DEF QueryInv
  <1>2. Selected(asked, MeetsBeyond({})) = Selected(asked, Meets)
    BY <1>1, BeyondUnused
  <1> QED
    BY <1>1, <1>2 DEF BuildSelect

(* The statement of a page by key selects no more.                         *)
LEMMA AfterSelects ==
    ASSUME QueryInv, ~q.err, NEW forced, NEW beyond
    PROVE  LET built == BuildSelect("PaginateAfter", AfterQuery, forced, beyond)
           IN  /\ built.op = "PaginateAfter"
               /\ built.selects \subseteq Selected(asked, Meets)
  <1> DEFINE base == [q EXCEPT !.orderBy = <<IdTerm(walk.desc)>>]
             built == BuildSelect("PaginateAfter", AfterQuery, forced, beyond)
  <1>1. q.where \in Seq(Clauses) /\ q.where = asked /\ "where" \in DOMAIN q
    BY DEF QueryInv
  <1>2. base.where = q.where /\ "where" \in DOMAIN base
    BY <1>1
  <1>3. AfterQuery.where = q.where \/ AfterQuery.where = Append(q.where, Clause(After, FALSE))
    <2>1. CASE IsZeroValue(walk.cursor)
      BY <2>1, <1>2 DEF AfterQuery
    <2>2. CASE ~IsZeroValue(walk.cursor)
      <3>1. AfterQuery = [base EXCEPT !.where = Append(@, Clause(After, FALSE)),
                                      !.args = @ \o HolesOf(After)]
        BY <2>2 DEF AfterQuery
      <3> HIDE DEF base
      <3>2. AfterQuery.where = Append(base.where, Clause(After, FALSE))
        BY <3>1, <1>2
      <3> QED
        BY <3>2, <1>2
    <2> QED
      BY <2>1, <2>2
  <1>4. /\ built.op = "PaginateAfter"
        /\ built.selects = Selected(AfterQuery.where, MeetsBeyond(beyond))
    BY DEF BuildSelect
  <1>5. Selected(q.where, MeetsBeyond(beyond)) = Selected(asked, Meets)
    BY <1>1, BeyondUnused
  <1>6. Selected(Append(q.where, Clause(After, FALSE)), MeetsBeyond(beyond))
          \subseteq Selected(asked, Meets)
    BY <1>1, AfterNarrows
  <1> QED
    BY <1>3, <1>4, <1>5, <1>6

TerminalKept == QueryInv' /\ SelectsWhatWasAsked'

(* A step of a query without an error that leaves the query alone.         *)
LEMMA StatementKeeps ==
    ASSUME QueryInv, ~q.err, q' = q, asked' = asked,
           statement' = None \/
             (/\ statement'.selects = Selected(asked, Meets)
              /\ statement'.op \in {"Update", "Delete"} => asked # <<>>)
    PROVE  TerminalKept
  <1>1. QueryInv'
    BY DEF QueryInv
  <1> QED
    BY <1>1 DEF TerminalKept, SelectsWhatWasAsked

LEMMA TerminalKeeps ==
    ASSUME QueryInv, SelectsWhatWasAsked, Terminal
    PROVE  TerminalKept
  <1>0. "where" \in DOMAIN q
    BY DEF QueryInv
  <1>1. CASE Read
    <2>1. ~q.err /\ q' = q /\ asked' = asked
      BY <1>1 DEF Read, All, FirstRow, LastRow, Count, Exists, Ready
    <2>2. CASE All
      BY <2>1, <2>2, SelectSelects, StatementKeeps DEF All
    <2>3. CASE FirstRow
      BY <2>1, <2>3, SelectSelects, StatementKeeps DEF FirstRow
    <2>4. CASE LastRow
      <3> DEFINE query == [q EXCEPT !.orderBy = ReverseOrder(@)]
      <3>1. query.where = q.where
        BY <1>0
      <3>2. statement' = BuildSelect("Last", query, 1, {})
        BY <2>4 DEF LastRow
      <3> HIDE DEF query
      <3> QED
        BY <2>1, <3>1, <3>2, SelectSelects, StatementKeeps
    <2>5. CASE Count
      BY <2>1, <2>5, PlainSelects, StatementKeeps DEF Count
    <2>6. CASE Exists
      BY <2>1, <2>6, PlainSelects, StatementKeeps DEF Exists
    <2> QED
      BY <1>1, <2>2, <2>3, <2>4, <2>5, <2>6 DEF Read
  <1>2. CASE UpdateRows
    <2>1. ~q.err /\ q' = q /\ asked' = asked /\ q.where # <<>> /\ statement' = BuildPlain("Update")
      BY <1>2 DEF UpdateRows, MayWrite, Ready
    <2>2. asked # <<>>
      BY <2>1 DEF QueryInv
    <2> QED
      BY <2>1, <2>2, PlainSelects, StatementKeeps
  <1>3. CASE DeleteRows
    <2>1. ~q.err /\ q' = q /\ asked' = asked /\ q.where # <<>> /\ statement' = BuildPlain("Delete")
      BY <1>3 DEF DeleteRows, MayWrite, Ready
    <2>2. asked # <<>>
      BY <2>1 DEF QueryInv
    <2> QED
      BY <2>1, <2>2, PlainSelects, StatementKeeps
  <1>4. ASSUME NEW n, NEW size, PaginateCount(n, size)
        PROVE  TerminalKept
    <2>1. ~q.err /\ q' = q /\ asked' = asked /\ statement' = BuildPlain("Count")
      BY <1>4 DEF PaginateCount, Ready
    <2> QED
      BY <2>1, PlainSelects, StatementKeeps
  <1>5. ASSUME NEW n, NEW size, PaginateNoCount(n, size)
        PROVE  TerminalKept
    <2>1. ~q.err /\ q' = q /\ asked' = asked
      BY <1>5 DEF PaginateNoCount, Ready
    <2>2. PICK more, offset : statement' = BuildSelectPage("PaginateNoCount", more, offset)
      BY <1>5 DEF PaginateNoCount
    <2> QED
      BY <2>1, <2>2, PageSelects, StatementKeeps
  <1>6. CASE PaginateSelect
    <2>1. ~q.err /\ q' = q /\ asked' = asked
      BY <1>6 DEF PaginateSelect, QueryInv
    <2>2. PICK size, offset : statement' = BuildSelectPage("Paginate", size, offset)
      BY <1>6 DEF PaginateSelect
    <2> QED
      BY <2>1, <2>2, PageSelects, StatementKeeps
  <1>7. ASSUME NEW type, NEW desc, NEW size, Walk(type, desc, size)
        PROVE  TerminalKept
    <2>1. ~q.err /\ q' = q /\ asked' = asked /\ statement' = None
      BY <1>7 DEF Walk, Ready
    <2> QED
      BY <2>1, StatementKeeps
  <1>8. CASE PaginateAfter
    <2>1. ~q.err /\ q' = q /\ asked' = asked
      BY <1>8 DEF PaginateAfter, QueryInv
    <2>2. statement' = BuildSelect("PaginateAfter", AfterQuery, walk.limit + 1, Beyond)
      BY <1>8 DEF PaginateAfter
    <2>3. statement'.op = "PaginateAfter" /\ statement'.selects \subseteq Selected(asked, Meets)
      BY <2>1, <2>2, AfterSelects
    <2>4. QueryInv'
      BY <2>1 DEF QueryInv
    <2> QED
      BY <2>1, <2>3, <2>4 DEF TerminalKept, SelectsWhatWasAsked
  <1> QED
    BY <1>1, <1>2, <1>3, <1>4, <1>5, <1>6, <1>7, <1>8 DEF Terminal

(* Every step keeps both.                                                 *)
LEMMA QueryKept ==
    ASSUME QueryInv, SelectsWhatWasAsked, [QueryNext]_queryVars
    PROVE  QueryInv' /\ SelectsWhatWasAsked'
  <1> DEFINE Inv == QueryInv /\ SelectsWhatWasAsked
  <1>1. CASE UNCHANGED queryVars
    BY <1>1 DEF queryVars, QueryInv, SelectsWhatWasAsked
  <1>2. CASE Build
    BY <1>2, BuildKeeps DEF SelectsWhatWasAsked
  <1>3. CASE Terminal
    BY <1>3, TerminalKeeps DEF TerminalKept
  <1>4. ASSUME NEW r \in Rows, Change(r)
        PROVE  Inv'
    <2>1. q' = q /\ asked' = asked /\ statement' = statement
      BY <1>4 DEF Change
    <2>2. (walk' # None => walk # None) /\ (paging' # None => paging # None)
      BY <1>4 DEF Change
    <2> QED
      BY <2>1, <2>2 DEF QueryInv, SelectsWhatWasAsked
  <1> QED
    BY <1>1, <1>2, <1>3, <1>4 DEF QueryNext

-----------------------------------------------------------------------------
(* Every statement the builder executes, of whichever chain of calls,      *)
(* selects the rows all its conditions ask for: a condition it refuses     *)
(* stops every later statement, and nothing is written without one.        *)
THEOREM NothingIsWidened == QuerySpec => []SelectsWhatWasAsked
  <1> DEFINE Inv == QueryInv /\ SelectsWhatWasAsked
  <1>1. QueryInit => Inv
    <2> SUFFICES ASSUME QueryInit PROVE Inv
      OBVIOUS
    <2>1. "where" \in DOMAIN q /\ "err" \in DOMAIN q /\ q.where = <<>> /\ asked = <<>>
      BY DEF QueryInit
    <2>2. q.err = FALSE
      BY DEF QueryInit
    <2>3. statement = None /\ <<>> \in Seq(Clauses)
      BY DEF QueryInit
    <2> QED
      BY <2>1, <2>2, <2>3 DEF QueryInv, SelectsWhatWasAsked
  <1>2. Inv /\ [QueryNext]_queryVars => Inv'
    BY QueryKept
  <1>3. Inv => SelectsWhatWasAsked
    OBVIOUS
  <1> QED
    BY <1>1, <1>2, <1>3, PTL DEF QuerySpec

-----------------------------------------------------------------------------
(* Pages.  While a reader walks, what he has got comes before the cursor,  *)
(* and what stays and he has not got comes after it.                       *)

Terms == [by : {"id", "rank"}, desc : BOOLEAN]
Pagings == [op : {"Paginate"}, number : Int, asked : Int, size : 1..MaxPageSize, total : Nat,
            changed : BOOLEAN]
Cursors == [type : {"nil", "int", "int64"}, value : Int]
Walks == [op : {"walk"}, zero : FirstCursors, desc : BOOLEAN, limit : 1..MaxPageSize,
          cursor : Cursors, got : Seq(Rows), stays : SUBSET Rows, at : {"page", "end", "error"}]

OrderInv ==
    /\ "orderBy" \in DOMAIN q /\ "offset" \in DOMAIN q
    /\ q.orderBy \in Seq(Terms) /\ q.offset \in {0, 1}

PagingInv ==
    paging # None =>
      /\ paging \in Pagings
      /\ paging.number = ClampPage(paging.asked, paging.size)
      /\ paging.total <= Cardinality(Rows)
      /\ ~paging.changed => paging.total = Len(Result)

(* The conditions are joined by AND, and the walk starts at its start.     *)
PlainWalk ==
    /\ \A i \in 2..Len(q.where) : ~q.where[i].or
    /\ q.offset = 0
    /\ ~(walk.desc /\ walk.zero = "int64")

WalkKey(r) == IF walk.desc THEN -r ELSE r

GotInv ==
    /\ ToSet(walk.got) \subseteq Selected(q.where, Meets)
    /\ \A i, j \in 1..Len(walk.got) : i < j => WalkKey(walk.got[i]) < WalkKey(walk.got[j])

CursorInv ==
    /\ walk.got = <<>> => walk.cursor = CursorAt(walk.zero, 0)
    /\ walk.got # <<>> => walk.cursor = CursorAt("int64", walk.got[Len(walk.got)])
    /\ \A r \in Wanted \ ToSet(walk.got) :
         walk.got # <<>> => WalkKey(walk.got[Len(walk.got)]) < WalkKey(r)

WalkInv ==
    walk # None =>
      /\ walk \in Walks /\ walk.stays \subseteq rows
      /\ PlainWalk => /\ GotInv
                      /\ walk.at = "page" => CursorInv
                      /\ walk.at = "end" => Wanted \subseteq ToSet(walk.got)

PagesInv ==
    /\ QueryInv /\ SelectsWhatWasAsked
    /\ rows \subseteq Rows /\ OrderInv
    /\ PagingInv /\ PagesMatchReference /\ WalkInv

LEMMA RowsFinite ==
    /\ IsFiniteSet(Rows) /\ Cardinality(Rows) \in Nat /\ Rows \subseteq Nat \ {0}
    /\ \A S \in SUBSET Rows : /\ IsFiniteSet(S) /\ Cardinality(S) \in Nat
                              /\ Cardinality(S) <= Cardinality(Rows)
  <1>1. IsFiniteSet(1..MaxInt)
    BY QueryAssumption, FS_Interval
  <1>2. IsFiniteSet(Rows)
    BY <1>1, QueryAssumption, FS_Subset
  <1>3. \A S \in SUBSET Rows : /\ IsFiniteSet(S) /\ Cardinality(S) \in Nat
                               /\ Cardinality(S) <= Cardinality(Rows)
    BY <1>2, FS_Subset, FS_CardinalityType
  <1>4. Rows \subseteq Nat \ {0}
    BY QueryAssumption
  <1> QED
    BY <1>2, <1>3, <1>4, FS_CardinalityType

LEMMA OrderKeys ==
    ASSUME NEW orderBy \in Seq(Terms)
    PROVE  /\ \A r \in Rows : OrderKey(r, orderBy) \in Int
           /\ \A r, s \in Rows : OrderKey(r, orderBy) = OrderKey(s, orderBy) => r = s
  <1> DEFINE term == IF orderBy = <<>> THEN IdTerm(FALSE) ELSE orderBy[1]
             Plain(r) == IF term.by = "rank" THEN RankOf[r] ELSE r
  <1>1. term \in Terms
    <2>1. CASE orderBy = <<>>
      BY <2>1 DEF IdTerm, Term, Terms
    <2>2. CASE orderBy # <<>>
      BY <2>2
    <2> QED
      BY <2>1, <2>2
  <1>2. \A r \in Rows : OrderKey(r, orderBy) = IF term.desc THEN -Plain(r) ELSE Plain(r)
    BY DEF OrderKey
  <1>3. /\ \A r \in Rows : Plain(r) \in Int
        /\ \A r, s \in Rows : Plain(r) = Plain(s) => r = s
    <2>1. /\ \A r \in Rows : RankOf[r] \in Int
          /\ \A r, s \in Rows : RankOf[r] = RankOf[s] => r = s
      BY QueryAssumption DEF IsInjective
    <2>2. \A r \in Rows : r \in Int
      BY RowsFinite
    <2> HIDE DEF term
    <2> QED
      BY <2>1, <2>2
  <1>4. term.desc \in BOOLEAN
    BY <1>1 DEF Terms
  <1> HIDE DEF term, Plain
  <1>5. \A r \in Rows : OrderKey(r, orderBy) \in Int
    BY <1>2, <1>3, <1>4
  <1>6. ASSUME NEW r \in Rows, NEW s \in Rows, OrderKey(r, orderBy) = OrderKey(s, orderBy)
        PROVE  r = s
    <2>1. Plain(r) \in Int /\ Plain(s) \in Int
      BY <1>3
    <2>2. Plain(r) = Plain(s)
      BY <1>2, <1>4, <1>6, <2>1
    <2> QED
      BY <1>3, <2>2
  <1> QED
    BY <1>5, <1>6

(* The rows of a result: each once, in the order of its keys.              *)
LEMMA SortedIs ==
    ASSUME NEW S \in SUBSET Rows, NEW orderBy \in Seq(Terms)
    PROVE  LET s == Sorted(S, orderBy) IN
           /\ s \in Seq(S) /\ Len(s) = Cardinality(S) /\ Len(s) \in Nat
           /\ DOMAIN s = 1..Len(s) /\ Len(s) <= Cardinality(Rows)
           /\ \A i, j \in 1..Len(s) :
                i < j => OrderKey(s[i], orderBy) < OrderKey(s[j], orderBy)
           /\ \A r \in S : \E i \in 1..Len(s) : s[i] = r
  <1> DEFINE s == Sorted(S, orderBy)
             size == Cardinality(S)
             key == [r \in S |-> OrderKey(r, orderBy)]
  <1>1. /\ IsFiniteSet(S) /\ size \in Nat /\ size <= Cardinality(Rows)
        /\ key \in [S -> Int] /\ \A r, t \in S : key[r] = key[t] => r = t
    BY RowsFinite, OrderKeys
  <1>2. \E t \in [1..size -> S] : \A i, j \in DOMAIN t : i < j => key[t[i]] < key[t[j]]
    <2> HIDE DEF key
    <2> QED
      BY <1>1, Sortable
  <1>3. \E t \in [1..size -> S] :
           \A i, j \in DOMAIN t : i < j => OrderKey(t[i], orderBy) < OrderKey(t[j], orderBy)
    <2>1. PICK t \in [1..size -> S] : \A i, j \in DOMAIN t : i < j => key[t[i]] < key[t[j]]
      BY <1>2
    <2>2. \A i \in DOMAIN t : t[i] \in S /\ key[t[i]] = OrderKey(t[i], orderBy)
      OBVIOUS
    <2> QED
      BY <2>1, <2>2
  <1>4. /\ s \in [1..size -> S]
        /\ \A i, j \in DOMAIN s : i < j => OrderKey(s[i], orderBy) < OrderKey(s[j], orderBy)
    BY <1>3 DEF Sorted
  <1> HIDE DEF s
  <1>5. s \in Seq(S) /\ Len(s) = size /\ DOMAIN s = 1..size
    BY <1>1, <1>4
  <1>6. s \in Surjection(1..size, S)
    <2>1. \A i, j \in 1..size : s[i] = s[j] => i = j
      <3> SUFFICES ASSUME NEW i \in 1..size, NEW j \in 1..size, s[i] = s[j], i < j PROVE FALSE
        OBVIOUS
      <3>1. OrderKey(s[i], orderBy) < OrderKey(s[j], orderBy) /\ s[i] \in Rows
        BY <1>4
      <3> QED
        BY <3>1, OrderKeys
    <2>2. s \in Injection(1..size, S)
      BY <1>4, <2>1 DEF Injection, IsInjective
    <2>3. Cardinality(1..size) = size
      BY <1>1, FS_Interval
    <2> QED
      BY <1>1, <2>2, <2>3, FS_Injection
  <1>7. \A r \in S : \E i \in 1..size : s[i] = r
    BY <1>6 DEF Surjection
  <1> HIDE DEF key, size
  <1>8. /\ s \in Seq(S) /\ Len(s) = Cardinality(S) /\ Len(s) \in Nat
        /\ DOMAIN s = 1..Len(s) /\ Len(s) <= Cardinality(Rows)
        /\ \A i, j \in 1..Len(s) :
             i < j => OrderKey(s[i], orderBy) < OrderKey(s[j], orderBy)
        /\ \A r \in S : \E i \in 1..Len(s) : s[i] = r
    BY <1>1, <1>4, <1>5, <1>7 DEF size
  <1> QED
    BY <1>8 DEF s

Least(a, b) == IF a < b THEN a ELSE b
Rest(s, offset) == IF offset < Len(s) THEN Len(s) - offset ELSE 0

(* LIMIT and OFFSET take the rows that follow the offset.                  *)
LEMMA SliceIs ==
    ASSUME NEW S, NEW s \in Seq(S), NEW limit \in Nat \ {0}, NEW offset \in Nat
    PROVE  /\ Slice(s, limit, offset) \in Seq(S)
           /\ Len(Slice(s, limit, offset)) = Least(limit, Rest(s, offset))
           /\ \A i \in 1..Len(Slice(s, limit, offset)) :
                Slice(s, limit, offset)[i] = s[offset + i] /\ offset + i \in 1..Len(s)
  <1> DEFINE size == Len(s)
             last == IF offset + limit < size THEN offset + limit ELSE size
             part == SubSeq(s, offset + 1, last)
  <1>1. size \in Nat /\ last \in Nat /\ last <= size /\ \A i \in 1..size : s[i] \in S
    OBVIOUS
  <1>2. Slice(s, limit, offset) = part
    <2> DEFINE from == IF offset > 0 THEN offset ELSE 0
    <2>1. from = offset /\ limit > 0
      OBVIOUS
    <2>2. Slice(s, limit, offset) =
            SubSeq(s, from + 1, IF limit > 0 /\ from + limit < Len(s) THEN from + limit
                                ELSE Len(s))
      BY DEF Slice
    <2> HIDE DEF from
    <2> QED
      BY <2>1, <2>2
  <1>3. \A i \in (offset + 1)..last : s[i] \in S
    BY <1>1
  <1>4. /\ part \in Seq(S)
        /\ Len(part) = IF offset + 1 <= last THEN last - (offset + 1) + 1 ELSE 0
        /\ \A i \in 1..(last - (offset + 1) + 1) : part[i] = s[offset + 1 + i - 1]
    <2> HIDE DEF last
    <2> QED
      BY <1>1, <1>3, SubSeqProperties
  <1> HIDE DEF part
  <1>5. Len(part) = Least(limit, Rest(s, offset))
    BY <1>1, <1>4 DEF Least, Rest
  <1>6. ASSUME NEW i \in 1..Len(part) PROVE part[i] = s[offset + i] /\ offset + i \in 1..size
    <2>1. offset + 1 <= last /\ i \in 1..(last - (offset + 1) + 1)
      BY <1>1, <1>4
    <2>2. offset + 1 + i - 1 = offset + i /\ offset + i \in 1..size
      BY <1>1, <2>1
    <2> QED
      BY <1>4, <2>1, <2>2
  <1> QED
    BY <1>2, <1>4, <1>5, <1>6

LEMMA Sizes ==
    ASSUME NEW size \in Int
    PROVE  ClampSize(size) \in 1..MaxPageSize /\ ClampSize(size) \in Nat \ {0}
           /\ MaxPageSize <= MaxInt /\ MaxInt \in Nat
  BY QueryAssumption DEF ClampSize

(* How many rows come before a page.                                       *)
Skipped(asks, size) == (IF asks < 1 THEN 0 ELSE asks - 1) * size
ClampedOffset(asks, size) == PageOffset(ClampPage(asks, size), size)

(* The clamped page begins where the page asked for does, unless both do   *)
(* after the last row, and the product of its number and its size does not *)
(* wrap around.                                                            *)
LEMMA OffsetIs ==
    ASSUME NEW asks \in Int, NEW size \in 1..MaxPageSize
    PROVE  /\ ClampPage(asks, size) \in Nat \ {0} /\ Skipped(asks, size) \in Nat
           /\ ClampedOffset(asks, size) = (ClampPage(asks, size) - 1) * size
           /\ ClampedOffset(asks, size) \in Nat /\ ClampedOffset(asks, size) <= MaxInt
           /\ \/ ClampedOffset(asks, size) = Skipped(asks, size)
              \/ /\ ClampedOffset(asks, size) >= Cardinality(Rows)
                 /\ Skipped(asks, size) >= Cardinality(Rows)
  <1> DEFINE last == MaxInt \div size + 1
             number == ClampPage(asks, size)
             skipped == IF asks < 1 THEN 0 ELSE asks - 1
             from == skipped * size
  <1>1. /\ MaxInt \in Nat /\ size \in Nat \ {0} /\ size <= MaxPageSize /\ MaxPageSize \in Nat
        /\ Cardinality(Rows) \in Nat /\ Cardinality(Rows) + MaxPageSize <= MaxInt
    BY QueryAssumption, RowsFinite
  <1>2. /\ last \in Nat \ {0} /\ (last - 1) * size <= MaxInt /\ MaxInt < (last - 1) * size + size
        /\ last - 1 \in Nat
    BY <1>1
  <1>3. number = IF asks < 1 THEN 1 ELSE IF asks > last THEN last ELSE asks
    BY <1>2 DEF ClampPage
  <1> HIDE DEF number, last
  <1>4. number \in Nat \ {0} /\ number - 1 \in Nat /\ number - 1 <= last - 1 /\ skipped \in Nat
    BY <1>2, <1>3
  <1>5. (number - 1) * size <= (last - 1) * size /\ (number - 1) * size \in Nat /\ from \in Nat
    BY <1>1, <1>2, <1>4
  <1>6. (number - 1) * size <= MaxInt
    <2> DEFINE a == (number - 1) * size
               b == (last - 1) * size
    <2>1. a \in Nat /\ b <= MaxInt /\ a <= b /\ b \in Int
      BY <1>1, <1>2, <1>5
    <2> HIDE DEF a, b
    <2>2. a <= MaxInt
      BY <1>1, <2>1
    <2> QED
      BY <2>2 DEF a
  <1>7. PageOffset(number, size) = (number - 1) * size
    <2> DEFINE a == (number - 1) * size
    <2>1. a \in Nat /\ a <= MaxInt
      BY <1>5, <1>6
    <2> HIDE DEF a
    <2>2. Wrapped(a) = a
      BY <1>1, <2>1 DEF Wrapped
    <2> QED
      BY <2>2 DEF PageOffset, a
  <1>8. CASE asks > last
    <2>1. number = last /\ skipped >= last - 1
      BY <1>2, <1>3, <1>8
    <2>2. from >= (last - 1) * size
      BY <1>1, <1>2, <1>4, <2>1
    <2> DEFINE b == (last - 1) * size
    <2>3. b \in Int /\ b + size > MaxInt /\ from >= b
      BY <1>1, <1>2, <2>2
    <2> HIDE DEF b, from
    <2>4. b >= Cardinality(Rows) /\ from >= Cardinality(Rows)
      BY <1>1, <1>5, <2>3
    <2>5. PageOffset(number, size) = b
      BY <1>7, <2>1 DEF b
    <2> QED
      BY <1>1, <1>4, <1>5, <1>6, <1>7, <2>4, <2>5 DEF number, from, Skipped, ClampedOffset
  <1>9. CASE ~(asks > last)
    <2>1. number - 1 = skipped
      BY <1>2, <1>3, <1>9
    <2>2. PageOffset(number, size) = from
      BY <1>7, <2>1
    <2> QED
      BY <1>1, <1>4, <1>5, <1>6, <1>7, <2>2 DEF number, Skipped, ClampedOffset
  <1> QED
    BY <1>8, <1>9

(* Where the rows of a page are in the result.                             *)
Places(s, from, size) == {i \in 1..Len(s) : from < i /\ i <= from + size}

(* The rows of a slice are those of the page it was asked for.             *)
LEMMA SliceIsPage ==
    ASSUME NEW s \in Seq(Rows), Len(s) <= Cardinality(Rows), NEW size \in Nat \ {0},
           NEW offset \in Nat, NEW from \in Nat, NEW room, room \in {size, size + 1},
           offset = from \/ (offset >= Cardinality(Rows) /\ from >= Cardinality(Rows))
    PROVE  /\ Slice(s, room, offset) \in Seq(Rows)
           /\ Len(Slice(s, room, offset)) = Least(room, Rest(s, from))
           /\ \A i \in 1..Len(Slice(s, room, offset)) :
                Slice(s, room, offset)[i] = s[from + i]
           /\ Cardinality(Places(s, from, size))
                = Least(size, Rest(s, from))
  <1> DEFINE part == Slice(s, room, offset)
             last == IF from + size < Len(s) THEN from + size ELSE Len(s)
  <1>1. Len(s) \in Nat /\ room \in Nat \ {0} /\ Cardinality(Rows) \in Nat
    BY RowsFinite
  <1>2. /\ part \in Seq(Rows) /\ Len(part) = Least(room, Rest(s, offset))
        /\ \A i \in 1..Len(part) : part[i] = s[offset + i] /\ offset + i \in 1..Len(s)
    BY <1>1, SliceIs
  <1> HIDE DEF part
  <1>3. Len(part) = Least(room, Rest(s, from))
    BY <1>1, <1>2 DEF Least, Rest
  <1>4. \A i \in 1..Len(part) : part[i] = s[from + i]
    <2>1. CASE offset = from
      BY <1>2, <2>1
    <2>2. CASE offset # from
      BY <1>1, <1>3, <2>2 DEF Least, Rest
    <2> QED
      BY <2>1, <2>2
  <1>5. Places(s, from, size) = (from + 1)..last
    BY <1>1 DEF Places
  <1>6. last \in Int /\ from + 1 \in Int
    BY <1>1
  <1> DEFINE first == from + 1
  <1>7. Cardinality(first..last) = IF first > last THEN 0 ELSE last - first + 1
    <2> HIDE DEF last, first
    <2>1. last \in Int /\ first \in Int
      BY <1>6 DEF first
    <2> QED
      BY <2>1, FS_Interval
  <1>8. Cardinality(Places(s, from, size)) = Least(size, Rest(s, from))
    <2> DEFINE count == Cardinality(Places(s, from, size))
    <2>1. count = IF first > last THEN 0 ELSE last - first + 1
      BY <1>5, <1>7
    <2> HIDE DEF count
    <2>2. count = Least(size, Rest(s, from))
      BY <1>1, <2>1 DEF Least, Rest
    <2> QED
      BY <2>2 DEF count
  <1> QED
    BY <1>2, <1>3, <1>4, <1>8 DEF part

LEMMA OrderKept ==
    ASSUME OrderInv, Build
    PROVE  OrderInv'
  <1> DEFINE Fine(n) == /\ "orderBy" \in DOMAIN n /\ "offset" \in DOMAIN n
                        /\ n.orderBy \in Seq(Terms) /\ n.offset \in {0, 1}
  <1>1. ASSUME NEW n, NEW more, Chain(n, more), Fine(n) PROVE OrderInv'
    BY <1>1 DEF Chain, OrderInv
  <1>2. Fine(q)
    BY DEF OrderInv
  <1>3. Fine(Refused(q)) /\ Fine([q EXCEPT !.joined = TRUE]) /\ Fine([q EXCEPT !.limit = 1])
    BY <1>2 DEF Refused
  <1>4. Fine([q EXCEPT !.offset = 1])
    BY <1>2
  <1>5. ASSUME NEW c, NEW or PROVE Fine(WithCond(c, or))
    BY <1>2 DEF WithCond
  <1>6. ASSUME NEW desc \in BOOLEAN PROVE Fine([q EXCEPT !.orderBy = @ \o <<IdTerm(desc)>>])
    <2>1. <<IdTerm(desc)>> \in Seq(Terms)
      BY DEF IdTerm, Term, Terms
    <2>2. q.orderBy \o <<IdTerm(desc)>> \in Seq(Terms)
      BY <1>2, <2>1
    <2> QED
      BY <1>2, <2>2
  <1>7. ASSUME Search PROVE OrderInv'
    <2> DEFINE found == WithCond(Searched, FALSE)
               more == <<Clause(Searched, FALSE)>>
    <2>1. Fine(found)
      BY <1>5
    <2>2. <<Term("rank", TRUE)>> \in Seq(Terms) /\ <<Term("rank", FALSE)>> \in Seq(Terms)
      BY DEF Term, Terms
    <2> HIDE DEF found, more
    <2>3. Fine([found EXCEPT !.orderBy = <<Term("rank", TRUE)>>, !.rankArgs = Holes[Searched]])
      BY <2>1, <2>2
    <2>4. Fine([found EXCEPT !.orderBy = <<Term("rank", FALSE)>>, !.joined = TRUE])
      BY <2>1, <2>2
    <2>5. \/ Chain([found EXCEPT !.orderBy = <<Term("rank", TRUE)>>,
                                 !.rankArgs = Holes[Searched]], more)
          \/ Chain([q EXCEPT !.joined = TRUE], more)
          \/ Chain([found EXCEPT !.orderBy = <<Term("rank", FALSE)>>, !.joined = TRUE], more)
          \/ Chain(Refused(q), more)
      BY <1>7 DEF Search, found, more
    <2> HIDE DEF Fine
    <2> QED
      BY <1>1, <1>3, <2>3, <2>4, <2>5
  <1> HIDE DEF Fine
  <1> QED
    BY <1>1, <1>2, <1>3, <1>4, <1>5, <1>6, <1>7
    DEF Build, Where, WhereRefused, OrderBy, Limit, Offset, Join, ClauseRefused

(* A page that was filled with the rows it was asked for.                  *)
PageMatches(p) ==
    LET from == Skipped(p.number, p.size)
        total == Len(p.of)
    IN  /\ Len(p.items) = Cardinality(Places(p.of, from, p.size))
        /\ \A i \in 1..Len(p.items) : p.items[i] = p.of[from + i]
        /\ ~p.changed => (p.hasNext <=> total > from + p.size)
        /\ ~p.changed => p.total \in {total, -1}

LEMMA FilledPage ==
    ASSUME NEW p, p = page', PageMatches(p)
    PROVE  PagesMatchReference'
  BY DEF PagesMatchReference, PageMatches, Places, Skipped

LEMMA ResultIs ==
    ASSUME rows \subseteq Rows, OrderInv
    PROVE  Result \in Seq(Rows) /\ Len(Result) \in Nat /\ Len(Result) <= Cardinality(Rows)
  <1> DEFINE S == rows \cap Selected(q.where, Meets)
  <1>1. S \in SUBSET Rows /\ q.orderBy \in Seq(Terms)
    BY DEF OrderInv
  <1>2. Result = Sorted(S, q.orderBy)
    BY DEF Result
  <1> HIDE DEF S
  <1>3. Result \in Seq(S) /\ Len(Result) \in Nat /\ Len(Result) <= Cardinality(Rows)
    BY <1>1, <1>2, SortedIs
  <1> QED
    BY <1>1, <1>3

Pages(total, size) == (total + size - 1) \div size

(* Another page follows when the rows go beyond this one.                  *)
LEMMA NextIs ==
    ASSUME NEW asks \in Int, NEW size \in 1..MaxPageSize, NEW total \in Nat,
           total <= Cardinality(Rows)
    PROVE  ClampPage(asks, size) < (IF Pages(total, size) = 0 THEN 1 ELSE Pages(total, size))
             <=> total > Skipped(asks, size) + size
  <1> DEFINE number == ClampPage(asks, size)
             pages == (total + size - 1) \div size
             from == Skipped(asks, size)
             offset == ClampedOffset(asks, size)
  <1>1. /\ number \in Nat \ {0} /\ from \in Nat /\ offset = (number - 1) * size
        /\ offset \in Nat
        /\ \/ offset = from
           \/ offset >= Cardinality(Rows) /\ from >= Cardinality(Rows)
    BY OffsetIs
  <1>2. size \in Nat \ {0} /\ Cardinality(Rows) \in Nat
    BY QueryAssumption, RowsFinite
  <1> HIDE DEF number, from, offset
  <1>3. pages \in Nat /\ pages * size <= total + size - 1 /\ total + size - 1 < pages * size + size
    BY <1>2
  <1> HIDE DEF pages
  <1>4. number * size = offset + size
    BY <1>1, <1>2
  <1>5. number < pages <=> total > offset + size
    <2>1. ASSUME number < pages PROVE total > offset + size
      <3>1. (number + 1) * size <= pages * size
        BY <1>1, <1>2, <1>3, <2>1
      <3>2. (number + 1) * size = offset + size + size
        BY <1>1, <1>2, <1>4
      <3> DEFINE whole == pages * size
      <3>3. whole \in Int /\ whole <= total + size - 1 /\ offset + size + size <= whole
        BY <1>2, <1>3, <3>1, <3>2
      <3> HIDE DEF whole
      <3> QED
        BY <1>1, <1>2, <3>3
    <2>2. ASSUME ~(number < pages) PROVE ~(total > offset + size)
      <3>1. pages * size <= number * size
        BY <1>1, <1>2, <1>3, <2>2
      <3> DEFINE whole == pages * size
      <3>2. whole \in Int /\ total + size - 1 < whole + size /\ whole <= offset + size
        BY <1>2, <1>3, <1>4, <3>1
      <3> HIDE DEF whole
      <3> QED
        BY <1>1, <1>2, <3>2
    <2> QED
      BY <2>1, <2>2
  <1>6. number < (IF pages = 0 THEN 1 ELSE pages) <=> number < pages
    BY <1>1, <1>3
  <1>7. total > offset + size <=> total > from + size
    BY <1>1, <1>2
  <1> QED
    BY <1>5, <1>6, <1>7 DEF number, pages, from, Pages

LEMMA CountKeeps ==
    ASSUME PagesInv, NEW n \in PageNumbers, NEW s \in PageSizes, PaginateCount(n, s)
    PROVE  PagingInv' /\ PagesMatchReference'
  <1> DEFINE size == ClampSize(s)
  <1>1. n \in Int /\ s \in Int
    BY QueryAssumption
  <1>2. size \in 1..MaxPageSize
    BY <1>1, Sizes
  <1> HIDE DEF size
  <1>3. /\ paging' = [op |-> "Paginate", number |-> ClampPage(n, size), asked |-> n,
                     size |-> size, total |-> Len(Result), changed |-> FALSE]
        /\ page' = None /\ rows' = rows /\ q' = q
    BY DEF PaginateCount, size
  <1>4. Result' = Result
    BY <1>3 DEF Result
  <1>5. Len(Result) \in Nat /\ Len(Result) <= Cardinality(Rows)
    BY ResultIs DEF PagesInv
  <1>6. ClampPage(n, size) \in Int
    BY <1>1, <1>2, OffsetIs
  <1>7. PagingInv'
    BY <1>1, <1>2, <1>3, <1>4, <1>5, <1>6 DEF PagingInv, Pagings
  <1> QED
    BY <1>3, <1>7 DEF PagesMatchReference

LEMMA SelectPageKeeps ==
    ASSUME PagesInv, PaginateSelect
    PROVE  PagingInv' /\ PagesMatchReference'
  <1> DEFINE size == paging.size
             asks == paging.asked
             offset == ClampedOffset(asks, size)
             pages == Pages(paging.total, size)
             from == Skipped(asks, size)
             items == Slice(Result, size, offset)
             hasNext == paging.number < (IF pages = 0 THEN 1 ELSE pages)
  <1>1. /\ paging \in Pagings /\ paging.number = ClampPage(asks, size)
        /\ paging.total <= Cardinality(Rows) /\ (~paging.changed => paging.total = Len(Result))
    BY DEF PagesInv, PagingInv, PaginateSelect
  <1>2. /\ asks \in Int /\ size \in 1..MaxPageSize /\ size \in Nat \ {0} /\ paging.total \in Nat
        /\ paging.changed \in BOOLEAN
    BY <1>1, QueryAssumption DEF Pagings
  <1>3. page' = Returned("Paginate", asks, size, items, hasNext, paging.total, paging.changed)
        /\ paging' = None
    BY <1>1 DEF PaginateSelect, ClampedOffset, Pages
  <1>4. hasNext <=> paging.total > from + size
    BY <1>1, <1>2, NextIs
  <1>5. /\ offset \in Nat /\ from \in Nat
        /\ \/ offset = from
           \/ offset >= Cardinality(Rows) /\ from >= Cardinality(Rows)
    BY <1>2, OffsetIs
  <1>6. Result \in Seq(Rows) /\ Len(Result) \in Nat /\ Len(Result) <= Cardinality(Rows)
    BY ResultIs DEF PagesInv
  <1>7. /\ Len(items) = Cardinality(Places(Result, from, size))
        /\ \A i \in 1..Len(items) : items[i] = Result[from + i]
    <2> DEFINE rest == Rest(Result, from)
    <2>1. size \in {size, size + 1}
      OBVIOUS
    <2> HIDE DEF size, offset, from
    <2>2. /\ Len(items) = Least(size, rest)
          /\ \A i \in 1..Len(items) : items[i] = Result[from + i]
          /\ Cardinality(Places(Result, from, size)) = Least(size, rest)
      BY <1>2, <1>5, <1>6, <2>1, SliceIsPage
    <2> HIDE DEF rest
    <2> QED
      BY <2>2
  <1> HIDE DEF items, hasNext, pages, offset
  <1>8. PICK p : p = page'
    OBVIOUS
  <1>9. /\ p.number = asks /\ p.size = size /\ p.items = items /\ p.of = Result
        /\ p.hasNext = hasNext /\ p.total = paging.total /\ p.changed = paging.changed
    BY <1>3, <1>8 DEF Returned
  <1>10. PageMatches(p)
    BY <1>1, <1>4, <1>7, <1>9 DEF PageMatches
  <1> QED
    BY <1>3, <1>8, <1>10, FilledPage DEF PagingInv

LEMMA NoCountKeeps ==
    ASSUME PagesInv, NEW n \in PageNumbers, NEW s \in PageSizes, PaginateNoCount(n, s)
    PROVE  PagingInv' /\ PagesMatchReference'
  <1> DEFINE size == ClampSize(s)
             offset == ClampedOffset(n, size)
             found == Slice(Result, OneMore(size), offset)
             items == Slice(found, size, 0)
             from == Skipped(n, size)
  <1>1. n \in Int /\ size \in 1..MaxPageSize /\ size \in Nat \ {0}
    BY QueryAssumption, Sizes
  <1>2. /\ page' = Returned("PaginateNoCount", n, size, items, Len(found) > size, -1, FALSE)
        /\ paging' = paging /\ paging = None
    BY DEF PaginateNoCount, Ready, ClampedOffset
  <1> HIDE DEF size
  <1>3. /\ offset \in Nat /\ from \in Nat
        /\ \/ offset = from
           \/ offset >= Cardinality(Rows) /\ from >= Cardinality(Rows)
    BY <1>1, OffsetIs
  <1>4. Result \in Seq(Rows) /\ Len(Result) \in Nat /\ Len(Result) <= Cardinality(Rows)
    BY ResultIs DEF PagesInv
  <1> DEFINE rest == Rest(Result, from)
  <1>5. /\ found \in Seq(Rows)
        /\ Len(found) = Least(size + 1, rest)
        /\ \A i \in 1..Len(found) : found[i] = Result[from + i]
        /\ Cardinality(Places(Result, from, size)) =
             Least(size, rest)
    <2> DEFINE room == OneMore(size)
    <2>1. room \in {size, size + 1} /\ room = size + 1
      BY DEF OneMore
    <2> HIDE DEF offset, from, room
    <2>2. /\ Slice(Result, room, offset) \in Seq(Rows)
          /\ Len(Slice(Result, room, offset)) = Least(room, rest)
          /\ \A i \in 1..Len(Slice(Result, room, offset)) :
               Slice(Result, room, offset)[i] = Result[from + i]
          /\ Cardinality(Places(Result, from, size)) =
               Least(size, rest)
      BY <1>1, <1>3, <1>4, <2>1, SliceIsPage
    <2>3. found = Slice(Result, room, offset)
      BY DEF room
    <2> HIDE DEF found
    <2> QED
      BY <2>1, <2>2, <2>3
  <1>6. rest \in Nat
    BY <1>3, <1>4 DEF Rest
  <1> HIDE DEF found, offset
  <1>7. /\ Len(items) = Least(size, Len(found))
        /\ \A i \in 1..Len(items) : items[i] = found[i] /\ i \in 1..Len(found)
    <2>1. /\ Len(items) = Least(size, Rest(found, 0))
          /\ \A i \in 1..Len(items) : items[i] = found[0 + i] /\ 0 + i \in 1..Len(found)
      BY <1>1, <1>5, SliceIs
    <2>2. Rest(found, 0) = Len(found)
      BY <1>5 DEF Rest
    <2>3. \A i \in 1..Len(items) : 0 + i = i
      OBVIOUS
    <2> QED
      BY <2>1, <2>2, <2>3
  <1> HIDE DEF items, from
  <1>8. PICK p : p = page'
    OBVIOUS
  <1>9. /\ p.number = n /\ p.size = size /\ p.items = items /\ p.of = Result
        /\ p.hasNext = (Len(found) > size) /\ p.total = -1 /\ p.changed = FALSE
    BY <1>2, <1>8 DEF Returned
  <1>10. /\ Len(items) = Cardinality(Places(Result, from, size))
         /\ \A i \in 1..Len(items) : items[i] = Result[from + i]
         /\ Len(found) > size <=> Len(Result) > from + size
    <2>1. Len(items) = Least(size, rest)
      BY <1>1, <1>5, <1>6, <1>7 DEF Least
    <2>2. Len(found) > size <=> Len(Result) > from + size
      BY <1>1, <1>3, <1>4, <1>5 DEF Least, Rest
    <2> HIDE DEF rest
    <2>3. \A i \in 1..Len(items) : items[i] = Result[from + i]
      BY <1>5, <1>7
    <2> QED
      BY <1>5, <2>1, <2>2, <2>3
  <1>11. PageMatches(p)
    BY <1>9, <1>10 DEF PageMatches, from
  <1> QED
    BY <1>2, <1>8, <1>11, FilledPage DEF PagingInv

-----------------------------------------------------------------------------
(* A walk.                                                                 *)

(* Conditions joined by AND select the rows that meet each.                *)
LEMMA AllMeet ==
    ASSUME NEW S, NEW where \in Seq(S), NEW meets,
           \A i \in 2..Len(where) : ~where[i].or
    PROVE  Selected(where, meets) =
             {r \in Rows : \A i \in 1..Len(where) : r \in meets[where[i].cond]}
  <1> DEFINE all == {r \in Rows : \A i \in 1..Len(where) : r \in meets[where[i].cond]}
  <1>1. CASE where = <<>>
    <2>1. Selected(where, meets) = Rows
      BY <1>1 DEF Selected
    <2> QED
      BY <1>1, <2>1
  <1>2. CASE where # <<>>
    <2>1. 1 \in 1..Len(where) /\ Len(where) \in Nat
      BY <1>2, EmptySeq
    <2>2. ASSUME NEW r
          PROVE  MeetsFrom(r, 1, where, meets) <=>
                   \A i \in 1..Len(where) : r \in meets[where[i].cond]
      <3>1. ASSUME NEW j \in 1..Len(where)
            PROVE  \A k \in 2..j : ~where[k].or
        BY <2>1
      <3>2. 1 + 1 = 2
        OBVIOUS
      <3> QED
        BY <3>1, <3>2 DEF MeetsFrom
    <2>3. ASSUME NEW r
          PROVE  (\E i \in 1..Len(where) : (i = 1 \/ where[i].or) /\ MeetsFrom(r, i, where, meets))
                   <=> MeetsFrom(r, 1, where, meets)
      <3>1. \A i \in 1..Len(where) : i = 1 \/ i \in 2..Len(where)
        BY <2>1
      <3> QED
        BY <2>1, <3>1
    <2>4. Selected(where, meets) = {r \in Rows : \E i \in 1..Len(where) :
             (i = 1 \/ where[i].or) /\ MeetsFrom(r, i, where, meets)}
      BY <1>2 DEF Selected
    <2> QED
      BY <2>2, <2>3, <2>4
  <1> QED
    BY <1>1, <1>2

(* The condition on the key cuts them at the cursor.                       *)
LEMMA AfterPlain ==
    ASSUME NEW where \in Seq(Clauses), NEW beyond \in SUBSET Rows,
           \A i \in 2..Len(where) : ~where[i].or
    PROVE  Selected(Append(where, Clause(After, FALSE)), MeetsBeyond(beyond))
             = Selected(where, Meets) \cap beyond
  <1> DEFINE after == Clause(After, FALSE)
             more == Append(where, after)
             meets == MeetsBeyond(beyond)
             S == Clauses \cup {after}
  <1>1. /\ Len(where) \in Nat /\ Len(more) = Len(where) + 1 /\ more \in Seq(S)
        /\ \A i \in 1..Len(where) : more[i] = where[i]
        /\ more[Len(where) + 1] = after
    <2> HIDE DEF after
    <2>1. where \in Seq(S) /\ after \in S
      <3>1. \A i \in 1..Len(where) : where[i] \in S
        OBVIOUS
      <3>2. after \in S
        OBVIOUS
      <3> HIDE DEF S
      <3>3. where \in Seq(S)
        BY <3>1, LenProperties
      <3> QED
        BY <3>2, <3>3
    <2> HIDE DEF S
    <2>2. Len(where) \in Nat
      OBVIOUS
    <2> QED
      BY <2>1, <2>2, AppendProperties
  <1>2. after.or = FALSE /\ after.cond = After /\ meets[After] = beyond
    BY DEF Clause, MeetsBeyond
  <1> HIDE DEF after, more, meets, S
  <1>3. \A i \in 2..Len(more) : ~more[i].or
    <2>1. ASSUME NEW i \in 2..Len(more) PROVE i \in 2..Len(where) \/ i = Len(where) + 1
      BY <1>1
    <2> QED
      BY <1>1, <1>2, <2>1
  <1>4. Selected(more, meets) = {r \in Rows : \A i \in 1..Len(more) : r \in meets[more[i].cond]}
    BY <1>1, <1>3, AllMeet
  <1>5. Selected(where, Meets) = Selected(where, meets)
    BY BeyondUnused DEF meets
  <1>6. Selected(where, meets) = {r \in Rows : \A i \in 1..Len(where) : r \in meets[where[i].cond]}
    BY AllMeet
  <1>7. ASSUME NEW r
        PROVE  (\A i \in 1..Len(more) : r \in meets[more[i].cond]) <=>
                 /\ \A i \in 1..Len(where) : r \in meets[where[i].cond]
                 /\ r \in beyond
    <2>1. \A i : i \in 1..Len(more) <=> (i \in 1..Len(where) \/ i = Len(where) + 1)
      BY <1>1
    <2> QED
      BY <1>1, <1>2, <2>1
  <1>8. Selected(more, meets) = Selected(where, Meets) \cap beyond
    BY <1>4, <1>5, <1>6, <1>7
  <1> QED
    BY <1>8 DEF more, meets, after

(* What a walk has not come to yet.                                        *)
Ahead == {r \in Rows : walk.got # <<>> => WalkKey(walk.got[Len(walk.got)]) < WalkKey(r)}

LEMMA WalkIs ==
    ASSUME PagesInv, walk # None
    PROVE  /\ walk \in Walks /\ walk.limit \in Nat \ {0} /\ walk.desc \in BOOLEAN
           /\ walk.got \in Seq(Rows) /\ walk.cursor \in Cursors
           /\ walk.stays \subseteq rows /\ rows \subseteq Rows
           /\ walk.zero \in FirstCursors
           /\ q.where \in Seq(Clauses) /\ "where" \in DOMAIN q /\ ~q.err
           /\ q.offset \in {0, 1} /\ "offset" \in DOMAIN q /\ "orderBy" \in DOMAIN q
  <1>1. walk \in Walks /\ walk.stays \subseteq rows
    BY DEF PagesInv, WalkInv
  <1>2. MaxPageSize \in Nat
    BY QueryAssumption
  <1>3. walk.limit \in Nat \ {0}
    BY <1>1, <1>2 DEF Walks
  <1> QED
    BY <1>1, <1>3 DEF PagesInv, QueryInv, OrderInv, Walks

(* A page reads the rows ahead of the cursor, in the order of the key.     *)
LEMMA ReadsAhead ==
    ASSUME PagesInv, walk # None, walk.at = "page", PlainWalk
    PROVE  Selected(AfterQuery.where, MeetsBeyond(Beyond)) = Selected(q.where, Meets) \cap Ahead
  <1> DEFINE base == [q EXCEPT !.orderBy = <<IdTerm(walk.desc)>>]
             more == [base EXCEPT !.where = Append(@, Clause(After, FALSE)),
                                  !.args = @ \o HolesOf(After)]
  <1>1. CursorInv
    BY DEF PagesInv, WalkInv
  <1>2. base.where = q.where /\ more.where = Append(q.where, Clause(After, FALSE))
    BY WalkIs
  <1>3. \A i \in 2..Len(q.where) : ~q.where[i].or
    BY DEF PlainWalk
  <1>4. Selected(q.where, Meets) \subseteq Rows
    BY DEF Selected
  <1> HIDE DEF base, more
  <1>5. CASE IsZeroValue(walk.cursor)
    <2>1. walk.got = <<>>
      BY <1>1, <1>5 DEF CursorInv, CursorAt, IsZeroValue
    <2>2. AfterQuery = base
      BY <1>5 DEF AfterQuery, base
    <2>3. Selected(q.where, MeetsBeyond(Beyond)) = Selected(q.where, Meets)
      BY WalkIs, BeyondUnused
    <2>4. Ahead = Rows
      BY <2>1 DEF Ahead
    <2> QED
      BY <1>2, <1>4, <2>2, <2>3, <2>4
  <1>6. CASE ~IsZeroValue(walk.cursor)
    <2>1. AfterQuery = more
      BY <1>6 DEF AfterQuery, base, more
    <2>2. Beyond \in SUBSET Rows
      BY DEF Beyond
    <2>3. Selected(AfterQuery.where, MeetsBeyond(Beyond)) = Selected(q.where, Meets) \cap Beyond
      BY <1>2, <1>3, <2>1, <2>2, WalkIs, AfterPlain
    <2>4. Beyond = Ahead
      <3>1. CASE walk.got = <<>>
        <4>1. walk.cursor = CursorAt(walk.zero, 0)
          BY <1>1, <3>1 DEF CursorInv
        <4>2. walk.cursor.type = walk.zero /\ walk.cursor.value = 0
          BY <4>1 DEF CursorAt
        <4>3. walk.zero = "int64"
          BY <1>6, <4>2, WalkIs DEF FirstCursors, IsZeroValue
        <4>4. ~walk.desc
          BY <4>3 DEF PlainWalk
        <4>5. \A r \in Rows : r > 0
          BY RowsFinite
        <4>6. Beyond = Rows
          BY <4>2, <4>4, <4>5 DEF Beyond
        <4> QED
          BY <3>1, <4>6 DEF Ahead
      <3>2. CASE walk.got # <<>>
        <4> DEFINE last == walk.got[Len(walk.got)]
        <4>1. walk.cursor = CursorAt("int64", last)
          BY <1>1, <3>2 DEF CursorInv
        <4>2. walk.cursor.value = last
          BY <4>1 DEF CursorAt
        <4>3. last \in Rows
          BY <3>2, WalkIs, EmptySeq
        <4>4. Ahead = {r \in Rows : WalkKey(last) < WalkKey(r)}
          BY <3>2 DEF Ahead
        <4> HIDE DEF last
        <4>5. ASSUME NEW r \in Rows
              PROVE  (IF walk.desc THEN r < last ELSE r > last) <=> WalkKey(last) < WalkKey(r)
          BY <4>3, RowsFinite DEF WalkKey
        <4> QED
          BY <4>2, <4>4, <4>5 DEF Beyond
      <3> QED
        BY <3>1, <3>2
    <2> QED
      BY <2>3, <2>4
  <1> QED
    BY <1>5, <1>6

(* The rows read, in order, and the page made of them.                     *)
Fetched == Sorted(rows \cap Selected(AfterQuery.where, MeetsBeyond(Beyond)), AfterQuery.orderBy)

LEMMA FetchedIs ==
    ASSUME PagesInv, walk # None
    PROVE  /\ Fetched \in Seq(Rows) /\ Len(Fetched) \in Nat
           /\ \A i, j \in 1..Len(Fetched) :
                i < j => WalkKey(Fetched[i]) < WalkKey(Fetched[j])
           /\ \A i \in 1..Len(Fetched) :
                Fetched[i] \in rows \cap Selected(AfterQuery.where, MeetsBeyond(Beyond))
           /\ \A r \in rows \cap Selected(AfterQuery.where, MeetsBeyond(Beyond)) :
                \E i \in 1..Len(Fetched) : Fetched[i] = r
  <1> DEFINE S == rows \cap Selected(AfterQuery.where, MeetsBeyond(Beyond))
             orderBy == <<IdTerm(walk.desc)>>
             base == [q EXCEPT !.orderBy = orderBy]
             more == [base EXCEPT !.where = Append(@, Clause(After, FALSE)),
                                  !.args = @ \o HolesOf(After)]
  <1>1. S \in SUBSET Rows /\ walk.desc \in BOOLEAN
    BY WalkIs
  <1>2. orderBy \in Seq(Terms)
    BY <1>1 DEF IdTerm, Term, Terms
  <1>3. AfterQuery.orderBy = orderBy
    <2>1. AfterQuery = base \/ AfterQuery = more
      BY DEF AfterQuery
    <2> HIDE DEF orderBy
    <2>2. base.orderBy = orderBy /\ "orderBy" \in DOMAIN base
      BY WalkIs
    <2> HIDE DEF base
    <2>3. more.orderBy = orderBy
      BY <2>2
    <2> QED
      BY <2>1, <2>2, <2>3
  <1>4. \A r \in Rows : OrderKey(r, orderBy) = WalkKey(r)
    BY <1>1 DEF OrderKey, IdTerm, Term, WalkKey
  <1> HIDE DEF orderBy
  <1>5. Fetched = Sorted(S, orderBy)
    BY <1>3 DEF Fetched
  <1> HIDE DEF S
  <1>6. /\ Fetched \in Seq(S) /\ Len(Fetched) \in Nat
        /\ \A i, j \in 1..Len(Fetched) :
             i < j => OrderKey(Fetched[i], orderBy) < OrderKey(Fetched[j], orderBy)
        /\ \A r \in S : \E i \in 1..Len(Fetched) : Fetched[i] = r
    BY <1>1, <1>2, <1>5, SortedIs
  <1>7. \A i \in 1..Len(Fetched) : Fetched[i] \in S /\ Fetched[i] \in Rows
    BY <1>1, <1>6
  <1>8. Fetched \in Seq(Rows)
    BY <1>1, <1>6
  <1> QED
    BY <1>4, <1>6, <1>7, <1>8 DEF S

Found == Slice(Fetched, walk.limit + 1, 0)
Taken == Slice(Found, walk.limit, 0)

LEMMA TakenIs ==
    ASSUME PagesInv, walk # None
    PROVE  /\ Len(Found) > walk.limit <=> Len(Fetched) > walk.limit
           /\ Len(Found) > walk.limit => Found[walk.limit] = Fetched[walk.limit]
           /\ Len(Fetched) > walk.limit => Fetched[walk.limit] \in Rows
           /\ Taken \in Seq(Rows) /\ Len(Taken) = Least(walk.limit, Len(Fetched))
           /\ \A i \in 1..Len(Taken) : Taken[i] = Fetched[i] /\ i \in 1..Len(Fetched)
  <1> DEFINE limit == walk.limit
             found == Slice(Fetched, limit + 1, 0)
             items == Slice(found, limit, 0)
  <1>1. limit \in Nat \ {0} /\ Fetched \in Seq(Rows) /\ Len(Fetched) \in Nat
    BY WalkIs, FetchedIs
  <1> HIDE DEF limit
  <1>2. \A s \in Seq(Rows) : Rest(s, 0) = Len(s)
    BY DEF Rest
  <1> DEFINE room == limit + 1
  <1>3. room \in Nat \ {0}
    BY <1>1
  <1> HIDE DEF room
  <1>4. /\ Slice(Fetched, room, 0) \in Seq(Rows)
        /\ Len(Slice(Fetched, room, 0)) = Least(room, Rest(Fetched, 0))
        /\ \A i \in 1..Len(Slice(Fetched, room, 0)) :
             Slice(Fetched, room, 0)[i] = Fetched[0 + i] /\ 0 + i \in 1..Len(Fetched)
    BY <1>1, <1>3, SliceIs
  <1>5. /\ found \in Seq(Rows) /\ Len(found) = Least(room, Len(Fetched)) /\ Len(found) \in Nat
        /\ \A i \in 1..Len(found) : found[i] = Fetched[i] /\ i \in 1..Len(Fetched)
    <2>1. found = Slice(Fetched, room, 0)
      BY DEF room
    <2>2. \A i \in 1..Len(found) : 0 + i = i
      OBVIOUS
    <2> HIDE DEF found
    <2> QED
      BY <1>1, <1>2, <1>4, <2>1, <2>2
  <1>6. Len(found) > limit <=> Len(Fetched) > limit
    <2> HIDE DEF found
    <2> QED
      BY <1>1, <1>5 DEF Least, room
  <1> HIDE DEF found
  <1>7. /\ items \in Seq(Rows) /\ Len(items) = Least(limit, Rest(found, 0))
        /\ \A i \in 1..Len(items) : items[i] = found[0 + i] /\ 0 + i \in 1..Len(found)
    BY <1>1, <1>5, SliceIs
  <1>8. Len(items) = Least(limit, Len(Fetched))
    BY <1>1, <1>2, <1>3, <1>5, <1>7 DEF Least, room
  <1>9. \A i \in 1..Len(items) : items[i] = Fetched[i] /\ i \in 1..Len(Fetched)
    <2>1. \A i \in 1..Len(items) : 0 + i = i
      OBVIOUS
    <2> QED
      BY <1>5, <1>7, <2>1
  <1>10. Len(found) > limit => found[limit] = Fetched[limit]
    BY <1>1, <1>5
  <1>11. Len(Fetched) > limit => Fetched[limit] \in Rows
    BY <1>1
  <1>12. items = Taken /\ found = Found
    BY DEF Taken, Found, limit, found
  <1> QED
    BY <1>6, <1>7, <1>8, <1>9, <1>10, <1>11, <1>12 DEF limit

(* What a page of a walk does.                                             *)
LEMMA PageStep ==
    ASSUME PagesInv, PaginateAfter, PlainWalk
    PROVE  /\ walk # None /\ walk.at = "page" /\ walk' # None
           /\ rows' = rows /\ q' = q /\ paging' = paging /\ page' = page
           /\ \/ walk' = [walk EXCEPT !.at = "error"]
              \/ /\ Len(Fetched) > walk.limit
                 /\ walk' = [walk EXCEPT !.at = "page", !.got = @ \o Taken,
                               !.cursor = CursorAt("int64", Fetched[walk.limit])]
              \/ /\ ~(Len(Fetched) > walk.limit)
                 /\ walk' = [walk EXCEPT !.at = "end", !.got = @ \o Taken,
                               !.cursor = CursorAt("nil", 0)]
  <1> DEFINE more == Len(Found) > walk.limit
  <1>1. walk # None /\ walk.at = "page" /\ q.offset = 0
    BY DEF PaginateAfter, PlainWalk
  <1>2. statement'.selects = Selected(AfterQuery.where, MeetsBeyond(Beyond))
    BY DEF PaginateAfter, BuildSelect
  <1>3. Found = Slice(Sorted(rows \cap statement'.selects, AfterQuery.orderBy),
                      walk.limit + 1, q.offset)
    BY <1>1, <1>2 DEF Fetched, Found
  <1>4. walk' = IF statement'.holes # statement'.args THEN [walk EXCEPT !.at = "error"]
                ELSE [walk EXCEPT
                   !.at = IF more THEN "page" ELSE "end",
                   !.got = @ \o Slice(Found, walk.limit, 0),
                   !.cursor = IF more THEN CursorAt("int64", LastOf(Found, walk.limit))
                              ELSE CursorAt("nil", 0)]
    BY <1>3 DEF PaginateAfter
  <1>5. Slice(Found, walk.limit, 0) = Taken
    BY DEF Taken
  <1>6. /\ more <=> Len(Fetched) > walk.limit
        /\ more => LastOf(Found, walk.limit) = Fetched[walk.limit]
    BY <1>1, TakenIs DEF LastOf
  <1>7. rows' = rows /\ q' = q /\ paging' = paging /\ page' = page
    BY DEF PaginateAfter
  <1>8. walk' # None
    <2>1. walk.at = "page" /\ "at" \in DOMAIN walk
      BY <1>1, WalkIs DEF Walks
    <2>2. walk'.at \in {"page", "end", "error"} /\ "got" \in DOMAIN walk'
      BY <1>1, <1>4, <2>1, WalkIs DEF Walks
    <2>3. "got" \notin DOMAIN None
      BY DEF None
    <2> QED
      BY <2>2, <2>3
  <1> QED
    BY <1>1, <1>4, <1>5, <1>6, <1>7, <1>8

(* Whatever it reads, a page leaves a walk.                                *)
LEMMA PageTyped ==
    ASSUME PagesInv, PaginateAfter
    PROVE  walk' \in Walks /\ walk'.stays = walk.stays /\ walk'.desc = walk.desc
           /\ walk'.zero = walk.zero
  <1> DEFINE room == walk.limit + 1
             found == Slice(Fetched, room, q.offset)
             items == Slice(found, walk.limit, 0)
             more == Len(found) > walk.limit
  <1>1. walk # None
    BY DEF PaginateAfter
  <1>2. statement'.selects = Selected(AfterQuery.where, MeetsBeyond(Beyond))
    BY DEF PaginateAfter, BuildSelect
  <1>3. found = Slice(Sorted(rows \cap statement'.selects, AfterQuery.orderBy),
                      walk.limit + 1, q.offset)
    BY <1>2 DEF Fetched
  <1>4. walk' = IF statement'.holes # statement'.args THEN [walk EXCEPT !.at = "error"]
                ELSE [walk EXCEPT
                   !.at = IF more THEN "page" ELSE "end",
                   !.got = @ \o items,
                   !.cursor = IF more THEN CursorAt("int64", LastOf(found, walk.limit))
                              ELSE CursorAt("nil", 0)]
    BY <1>3 DEF PaginateAfter
  <1> HIDE DEF room
  <1>5. room \in Nat \ {0} /\ room = walk.limit + 1 /\ q.offset \in Nat
    BY <1>1, WalkIs DEF room
  <1>6. found \in Seq(Rows)
    BY <1>1, <1>5, FetchedIs, SliceIs
  <1> HIDE DEF found
  <1>7. items \in Seq(Rows)
    BY <1>1, <1>6, WalkIs, SliceIs
  <1> HIDE DEF items
  <1>8. walk.got \o items \in Seq(Rows)
    BY <1>1, <1>7, WalkIs
  <1>9. more => CursorAt("int64", LastOf(found, walk.limit)) \in Cursors
    <2>1. ASSUME more PROVE found[walk.limit] \in Rows
      BY <1>1, <1>6, <2>1, WalkIs
    <2>2. LastOf(found, walk.limit) = found[walk.limit] /\ Rows \subseteq Int
      BY RowsFinite DEF LastOf
    <2>3. \A value \in Int : CursorAt("int64", value) \in Cursors
      BY DEF CursorAt, Cursors
    <2> QED
      BY <2>1, <2>2, <2>3
  <1>10. CursorAt("nil", 0) \in Cursors
    BY DEF CursorAt, Cursors
  <1>11. walk \in Walks
    BY <1>1, WalkIs
  <1> DEFINE got == walk.got \o items
             cursor == IF more THEN CursorAt("int64", LastOf(found, walk.limit))
                       ELSE CursorAt("nil", 0)
             at == IF more THEN "page" ELSE "end"
  <1>12. got \in Seq(Rows) /\ cursor \in Cursors /\ at \in {"page", "end"}
    BY <1>8, <1>9, <1>10
  <1>13. walk' = [walk EXCEPT !.at = "error"]
         \/ walk' = [walk EXCEPT !.at = at, !.got = got, !.cursor = cursor]
    BY <1>4
  <1> HIDE DEF got, cursor, at
  <1>14. CASE walk' = [walk EXCEPT !.at = "error"]
    BY <1>11, <1>14 DEF Walks
  <1>15. CASE walk' = [walk EXCEPT !.at = at, !.got = got, !.cursor = cursor]
    BY <1>11, <1>12, <1>15 DEF Walks
  <1> QED
    BY <1>13, <1>14, <1>15

(* A page adds the rows it read to those the walk has.                     *)
LEMMA GotGrows ==
    ASSUME PagesInv, walk # None, walk.at = "page", PlainWalk,
           NEW w, w.got = walk.got \o Taken, w.desc = walk.desc
    PROVE  /\ ToSet(w.got) = ToSet(walk.got) \cup ToSet(Taken)
           /\ ToSet(w.got) \subseteq Selected(q.where, Meets)
           /\ \A i, j \in 1..Len(w.got) : i < j => WalkKey(w.got[i]) < WalkKey(w.got[j])
           /\ \A r \in (walk.stays \cap Selected(q.where, Meets)) \ ToSet(walk.got) :
                \E i \in 1..Len(Fetched) : Fetched[i] = r
  <1> DEFINE got == walk.got
             more == w.got
             chosen == Selected(q.where, Meets)
  <1>1. GotInv /\ CursorInv
    BY DEF PagesInv, WalkInv
  <1>2. /\ got \in Seq(Rows) /\ Len(got) \in Nat /\ Taken \in Seq(Rows) /\ Len(Taken) \in Nat
        /\ \A i \in 1..Len(Taken) : Taken[i] = Fetched[i] /\ i \in 1..Len(Fetched)
    BY WalkIs, TakenIs
  <1>3. \A i \in 1..Len(Fetched) : Fetched[i] \in rows \cap chosen \cap Ahead
    BY FetchedIs, ReadsAhead
  <1>4. /\ Len(more) = Len(got) + Len(Taken)
        /\ \A i \in 1..Len(got) : more[i] = got[i]
        /\ \A i \in (Len(got) + 1)..(Len(got) + Len(Taken)) : more[i] = Taken[i - Len(got)]
        /\ more \in Seq(Rows)
    BY <1>2
  <1> HIDE DEF got, more
  <1>5. \A s \in Seq(Rows) : ToSet(s) = {s[i] : i \in 1..Len(s)}
    BY DEF ToSet
  <1>6. \A i \in 1..Len(more) : \/ i \in 1..Len(got)
                                \/ /\ i \in (Len(got) + 1)..(Len(got) + Len(Taken))
                                   /\ i - Len(got) \in 1..Len(Taken)
    BY <1>2, <1>4
  <1>7. ToSet(more) = ToSet(got) \cup ToSet(Taken)
    <2>1. ASSUME NEW i \in 1..Len(more) PROVE more[i] \in ToSet(got) \cup ToSet(Taken)
      BY <1>2, <1>4, <1>5, <1>6
    <2>2. ASSUME NEW i \in 1..Len(got) PROVE got[i] \in ToSet(more)
      <3>1. i \in 1..Len(more)
        BY <1>2, <1>4
      <3> QED
        BY <1>4, <1>5, <3>1
    <2>3. ASSUME NEW i \in 1..Len(Taken) PROVE Taken[i] \in ToSet(more)
      <3> DEFINE k == Len(got) + i
      <3>1. /\ k \in (Len(got) + 1)..(Len(got) + Len(Taken))
            /\ k \in 1..Len(more) /\ k - Len(got) = i
        BY <1>2, <1>4
      <3> HIDE DEF k
      <3>2. more[k] = Taken[i]
        BY <1>4, <3>1
      <3> QED
        BY <1>4, <1>5, <3>1, <3>2
    <2>4. ToSet(more) \subseteq ToSet(got) \cup ToSet(Taken)
      BY <1>4, <1>5, <2>1
    <2>5. ToSet(got) \subseteq ToSet(more)
      BY <1>2, <1>5, <2>2
    <2>6. ToSet(Taken) \subseteq ToSet(more)
      BY <1>2, <1>5, <2>3
    <2> QED
      BY <2>4, <2>5, <2>6
  <1>8. ToSet(more) \subseteq chosen
    <2>1. ToSet(got) \subseteq chosen
      BY <1>1 DEF GotInv, got
    <2>2. \A i \in 1..Len(Taken) : Taken[i] \in chosen
      BY <1>2, <1>3
    <2>3. ToSet(Taken) \subseteq chosen
      BY <1>2, <1>5, <2>2
    <2> QED
      BY <1>7, <2>1, <2>3
  <1>9. ASSUME NEW i \in 1..Len(more), NEW j \in 1..Len(more), i < j
        PROVE  WalkKey(more[i]) < WalkKey(more[j])
    <2>1. \A r, s, t \in Rows : WalkKey(r) < WalkKey(s) /\ WalkKey(s) < WalkKey(t)
            => WalkKey(r) < WalkKey(t)
      BY RowsFinite DEF WalkKey
    <2>2. CASE j \in 1..Len(got)
      <3>1. i \in 1..Len(got)
        BY <1>2, <1>4, <1>9, <2>2
      <3>2. WalkKey(got[i]) < WalkKey(got[j])
        BY <1>1, <1>9, <2>2, <3>1 DEF GotInv, got
      <3> QED
        BY <1>4, <2>2, <3>1, <3>2
    <2>3. CASE i \in 1..Len(got) /\ j \notin 1..Len(got)
      <3> DEFINE k == j - Len(got)
      <3>1. k \in 1..Len(Taken) /\ more[j] = Taken[k] /\ more[i] = got[i]
        BY <1>4, <1>6, <2>3
      <3> HIDE DEF k
      <3>2. more[j] \in Ahead /\ more[j] \in Rows
        BY <1>2, <1>3, <3>1 DEF Ahead
      <3>3. got # <<>> /\ Len(got) \in 1..Len(got) /\ got[Len(got)] \in Rows /\ got[i] \in Rows
        BY <1>2, <2>3
      <3>4. WalkKey(got[Len(got)]) < WalkKey(more[j])
        BY <3>2, <3>3 DEF Ahead, got
      <3>5. i = Len(got) \/ WalkKey(got[i]) < WalkKey(got[Len(got)])
        <4>1. i = Len(got) \/ i < Len(got)
          BY <1>2, <2>3
        <4> QED
          BY <1>1, <2>3, <3>3, <4>1 DEF GotInv, got
      <3> QED
        BY <2>1, <3>1, <3>2, <3>3, <3>4, <3>5
    <2>4. CASE i \notin 1..Len(got)
      <3> DEFINE h == i - Len(got)
                 k == j - Len(got)
      <3>1. j \notin 1..Len(got)
        BY <1>2, <1>4, <1>9, <2>4
      <3>2. /\ h \in 1..Len(Taken) /\ more[i] = Taken[h]
            /\ k \in 1..Len(Taken) /\ more[j] = Taken[k] /\ h < k
        BY <1>2, <1>4, <1>6, <1>9, <2>4, <3>1
      <3> HIDE DEF h, k
      <3>3. /\ more[i] = Fetched[h] /\ more[j] = Fetched[k]
            /\ h \in 1..Len(Fetched) /\ k \in 1..Len(Fetched)
        BY <1>2, <3>2
      <3> QED
        BY <3>2, <3>3, FetchedIs
    <2> QED
      BY <2>2, <2>3, <2>4
  <1>10. ASSUME NEW r \in (walk.stays \cap chosen) \ ToSet(got)
         PROVE  \E i \in 1..Len(Fetched) : Fetched[i] = r
    <2>1. r \in rows /\ r \in Rows /\ r \in Wanted \ ToSet(walk.got)
      BY WalkIs DEF Wanted, got
    <2>2. r \in Ahead
      BY <1>1, <2>1 DEF CursorInv, Ahead
    <2>3. r \in rows \cap Selected(AfterQuery.where, MeetsBeyond(Beyond))
      BY <1>10, <2>1, <2>2, ReadsAhead
    <2> QED
      BY <2>3, FetchedIs
  <1> QED
    BY <1>7, <1>8, <1>9, <1>10 DEF got, more

(* What a walk that went on still has of its invariant.                    *)
WalkOk(w) ==
    /\ ToSet(w.got) \subseteq Selected(q.where, Meets)
    /\ \A i, j \in 1..Len(w.got) : i < j => WalkKey(w.got[i]) < WalkKey(w.got[j])
    /\ w.at = "page" =>
         /\ w.got # <<>>
         /\ w.cursor = CursorAt("int64", w.got[Len(w.got)])
         /\ \A r \in Wanted \ ToSet(w.got) : WalkKey(w.got[Len(w.got)]) < WalkKey(r)
    /\ w.at = "end" => Wanted \subseteq ToSet(w.got)

LEMMA WentOn ==
    ASSUME PagesInv, PaginateAfter, PlainWalk
    PROVE  WalkOk(walk')
  <1>1. walk # None /\ walk.at = "page" /\ "at" \in DOMAIN walk /\ "got" \in DOMAIN walk
        /\ "cursor" \in DOMAIN walk
    BY WalkIs DEF PaginateAfter, Walks
  <1>2. PICK w : w = walk'
    OBVIOUS
  <1>3. CASE w = [walk EXCEPT !.at = "error"]
    <2>1. w.at = "error" /\ w.got = walk.got
      BY <1>1, <1>3
    <2>2. GotInv
      BY <1>1 DEF PagesInv, WalkInv
    <2>3. WalkOk(w)
      BY <2>1, <2>2 DEF WalkOk, GotInv
    <2> QED
      BY <1>2, <2>3
  <1> DEFINE limit == walk.limit
             size == Len(Fetched)
             got == walk.got \o Taken
             cursor == IF size > limit THEN CursorAt("int64", Fetched[limit])
                       ELSE CursorAt("nil", 0)
             at == IF size > limit THEN "page" ELSE "end"
  <1>4. CASE w = [walk EXCEPT !.at = at, !.got = got, !.cursor = cursor]
    <2>1. w.at = at /\ w.got = got /\ w.cursor = cursor /\ w.desc = walk.desc
      <3>1. "desc" \in DOMAIN walk
        BY <1>1, WalkIs DEF Walks
      <3> HIDE DEF at, got, cursor
      <3> QED
        BY <1>1, <1>4, <3>1
    <2>2. /\ ToSet(w.got) = ToSet(walk.got) \cup ToSet(Taken)
          /\ ToSet(w.got) \subseteq Selected(q.where, Meets)
          /\ \A i, j \in 1..Len(w.got) : i < j => WalkKey(w.got[i]) < WalkKey(w.got[j])
          /\ \A r \in (walk.stays \cap Selected(q.where, Meets)) \ ToSet(walk.got) :
               \E i \in 1..size : Fetched[i] = r
      BY <1>1, <2>1, GotGrows
    <2>3. /\ limit \in Nat \ {0} /\ size \in Nat
          /\ Taken \in Seq(Rows) /\ Len(Taken) = Least(limit, size)
          /\ \A i \in 1..Len(Taken) : Taken[i] = Fetched[i]
          /\ walk.got \in Seq(Rows)
      BY <1>1, WalkIs, FetchedIs, TakenIs
    <2>4. ASSUME NEW r \in Wanted \ ToSet(w.got)
          PROVE  \E i \in 1..size : Fetched[i] = r /\ i > limit
      <3>1. PICK i \in 1..size : Fetched[i] = r
        BY <2>2 DEF Wanted
      <3>2. i \notin 1..Len(Taken)
        <4>1. \A k \in 1..Len(Taken) : Taken[k] \in ToSet(Taken)
          BY <2>3 DEF ToSet
        <4> QED
          BY <2>2, <2>3, <3>1, <4>1
      <3>3. i > limit
        BY <2>3, <3>1, <3>2 DEF Least
      <3> QED
        BY <3>1, <3>3
    <2>5. CASE size > limit
      <3> DEFINE last == Len(w.got)
      <3>1. /\ Len(Taken) = limit /\ last = Len(walk.got) + limit /\ last \in Nat \ {0}
            /\ w.got[last] = Taken[limit]
        <4>1. Len(Taken) = limit
          BY <2>3, <2>5 DEF Least
        <4>2. Len(walk.got) \in Nat /\ limit \in 1..Len(Taken)
          BY <2>3, <4>1
        <4> HIDE DEF limit
        <4>3. \A s, t \in Seq(Rows) :
                /\ Len(s \o t) = Len(s) + Len(t)
                /\ \A k \in 1..Len(t) : (s \o t)[Len(s) + k] = t[k]
          OBVIOUS
        <4>4. /\ Len(got) = Len(walk.got) + Len(Taken)
              /\ got[Len(walk.got) + limit] = Taken[limit]
          BY <2>3, <4>2, <4>3
        <4> HIDE DEF got
        <4> QED
          BY <2>1, <2>3, <4>1, <4>2, <4>4
      <3>2. w.got[last] = Fetched[limit] /\ w.got # <<>>
        BY <2>3, <3>1
      <3>3. w.at = "page" /\ w.cursor = CursorAt("int64", w.got[last])
        BY <2>1, <2>5, <3>2
      <3>4. ASSUME NEW r \in Wanted \ ToSet(w.got)
            PROVE  WalkKey(w.got[last]) < WalkKey(r)
        <4>1. PICK i \in 1..size : Fetched[i] = r /\ i > limit
          BY <2>4
        <4>2. limit \in 1..size
          BY <2>3, <2>5
        <4>3. WalkKey(Fetched[limit]) < WalkKey(Fetched[i])
          BY <1>1, <2>3, <4>1, <4>2, FetchedIs
        <4> QED
          BY <3>2, <4>1, <4>3
      <3>5. WalkOk(w)
        BY <2>2, <3>2, <3>3, <3>4 DEF WalkOk
      <3> QED
        BY <1>2, <3>5
    <2>6. CASE ~(size > limit)
      <3>1. w.at = "end"
        BY <2>1, <2>6
      <3>2. Wanted \subseteq ToSet(w.got)
        BY <2>3, <2>4, <2>6
      <3>3. WalkOk(w)
        BY <2>2, <3>1, <3>2 DEF WalkOk
      <3> QED
        BY <1>2, <3>3
    <2> QED
      BY <2>5, <2>6
  <1> QED
    BY <1>2, <1>3, <1>4, PageStep

LEMMA WalkKept ==
    ASSUME PagesInv, PaginateAfter
    PROVE  WalkInv'
  <1>1. /\ walk # None /\ walk.at = "page" /\ rows' = rows /\ q' = q
    BY DEF PaginateAfter
  <1>2. PICK w : w = walk'
    OBVIOUS
  <1>3. w \in Walks /\ w.stays = walk.stays /\ w.desc = walk.desc /\ w.zero = walk.zero
    BY <1>2, PageTyped
  <1>4. w.stays \subseteq rows'
    BY <1>1, <1>3, WalkIs
  <1>5. Wanted' = Wanted
    BY <1>1, <1>2, <1>3 DEF Wanted
  <1>6. ASSUME PlainWalk'
        PROVE  /\ GotInv'
               /\ w.at = "page" => CursorInv'
               /\ w.at = "end" => Wanted' \subseteq ToSet(w.got)
    <2>1. PlainWalk
      BY <1>1, <1>2, <1>3, <1>6 DEF PlainWalk
    <2>2. WalkOk(w)
      BY <1>2, <2>1, WentOn
    <2>3. GotInv'
      BY <1>1, <1>2, <1>3, <2>2 DEF GotInv, WalkOk, WalkKey
    <2>4. w.at = "page" => CursorInv'
      BY <1>1, <1>2, <1>3, <1>5, <2>2 DEF CursorInv, WalkOk, WalkKey
    <2> QED
      BY <1>5, <2>2, <2>3, <2>4 DEF WalkOk
  <1> QED
    BY <1>2, <1>3, <1>4, <1>6 DEF WalkInv

LEMMA WalkStarts ==
    ASSUME PagesInv, NEW type \in FirstCursors, NEW desc \in BOOLEAN, NEW s \in PageSizes,
           Walk(type, desc, s)
    PROVE  WalkInv'
  <1>1. PICK w : w = walk'
    OBVIOUS
  <1>2. w = [op |-> "walk", zero |-> type, desc |-> desc, limit |-> ClampSize(s),
             cursor |-> CursorAt(type, 0), got |-> <<>>, stays |-> rows, at |-> "page"]
    BY <1>1 DEF Walk
  <1>3. ClampSize(s) \in 1..MaxPageSize
    BY QueryAssumption, Sizes
  <1>4. CursorAt(type, 0) \in Cursors
    BY DEF CursorAt, Cursors, FirstCursors
  <1>5. rows \subseteq Rows /\ rows' = rows /\ q' = q
    BY DEF PagesInv, Walk
  <1>6. w \in Walks
    BY <1>2, <1>3, <1>4, <1>5 DEF Walks
  <1>7. w.got = <<>> /\ w.cursor = CursorAt(w.zero, 0) /\ w.at = "page" /\ w.stays = rows
    BY <1>2
  <1>8. GotInv' /\ CursorInv'
    <2>1. ToSet(w.got) = {} /\ Len(w.got) = 0
      BY <1>7 DEF ToSet
    <2> QED
      BY <1>1, <1>7, <2>1 DEF GotInv, CursorInv
  <1> QED
    BY <1>1, <1>5, <1>6, <1>7, <1>8 DEF WalkInv

-----------------------------------------------------------------------------
(* Both kinds of pages.                                                    *)

(* Steps that neither start, go on with nor end a page.                    *)
LEMMA PagesStay ==
    ASSUME PagesInv, rows' = rows, q' = q, paging' = paging, walk' = walk,
           page' = page \/ page' = None
    PROVE  PagingInv' /\ PagesMatchReference' /\ WalkInv'
  <1>1. PagingInv'
    BY DEF PagesInv, PagingInv, Result
  <1>2. PagesMatchReference'
    BY DEF PagesInv, PagesMatchReference
  <1>3. WalkInv'
    BY DEF PagesInv, WalkInv, PlainWalk, GotInv, CursorInv, Wanted, WalkKey
  <1> QED
    BY <1>1, <1>2, <1>3

(* Steps of a query that is neither paging nor walking.                    *)
LEMMA PagesIdle ==
    ASSUME paging' = None, walk' = None, page' = None
    PROVE  PagingInv' /\ PagesMatchReference' /\ WalkInv'
  BY DEF PagingInv, PagesMatchReference, WalkInv

LEMMA WalkStays ==
    ASSUME PagesInv, rows' = rows, q' = q, walk' = walk
    PROVE  WalkInv'
  BY DEF PagesInv, WalkInv, PlainWalk, GotInv, CursorInv, Wanted, WalkKey

LEMMA ChangeKeeps ==
    ASSUME PagesInv, NEW r \in Rows, Change(r)
    PROVE  rows' \subseteq Rows /\ PagingInv' /\ PagesMatchReference' /\ WalkInv'
  <1>1. /\ q' = q /\ page' = page
        /\ rows' = IF r \in rows THEN rows \ {r} ELSE rows \cup {r}
        /\ paging' = IF paging = None THEN None ELSE [paging EXCEPT !.changed = TRUE]
        /\ walk' = IF walk = None THEN None ELSE [walk EXCEPT !.stays = @ \ {r}]
    BY DEF Change
  <1>2. rows' \subseteq Rows
    BY <1>1 DEF PagesInv
  <1>3. PagesMatchReference'
    BY <1>1 DEF PagesInv, PagesMatchReference
  <1>4. PagingInv'
    <2>1. CASE paging = None
      BY <1>1, <2>1 DEF PagingInv
    <2>2. CASE paging # None
      <3>1. paging \in Pagings
        BY <2>2 DEF PagesInv, PagingInv
      <3>2. PICK p : p = paging'
        OBVIOUS
      <3>3. /\ p \in Pagings /\ p.number = paging.number /\ p.asked = paging.asked
            /\ p.size = paging.size /\ p.total = paging.total /\ p.changed = TRUE
        BY <1>1, <2>2, <3>1, <3>2 DEF Pagings
      <3>4. /\ paging.number = ClampPage(paging.asked, paging.size)
            /\ paging.total <= Cardinality(Rows)
        BY <2>2 DEF PagesInv, PagingInv
      <3> QED
        BY <3>2, <3>3, <3>4 DEF PagingInv
    <2> QED
      BY <2>1, <2>2
  <1>5. WalkInv'
    <2>1. CASE walk = None
      BY <1>1, <2>1 DEF WalkInv
    <2>2. CASE walk # None
      <3>1. walk \in Walks /\ walk.stays \subseteq rows
        BY <2>2, WalkIs
      <3>2. PICK w : w = walk'
        OBVIOUS
      <3>3. /\ w \in Walks /\ w.stays = walk.stays \ {r} /\ w.got = walk.got
            /\ w.cursor = walk.cursor /\ w.desc = walk.desc /\ w.zero = walk.zero
            /\ w.at = walk.at
        <4>1. w = [walk EXCEPT !.stays = @ \ {r}]
          BY <1>1, <2>2, <3>2
        <4> QED
          BY <3>1, <4>1 DEF Walks
      <3>4. w.stays \subseteq rows'
        BY <1>1, <3>1, <3>3
      <3>5. Wanted' \subseteq Wanted
        BY <1>1, <3>2, <3>3 DEF Wanted
      <3>6. ASSUME PlainWalk'
            PROVE  /\ GotInv'
                   /\ w.at = "page" => CursorInv'
                   /\ w.at = "end" => Wanted' \subseteq ToSet(w.got)
        <4>1. PlainWalk
          BY <1>1, <3>2, <3>3, <3>6 DEF PlainWalk
        <4>2. /\ GotInv
              /\ walk.at = "page" => CursorInv
              /\ walk.at = "end" => Wanted \subseteq ToSet(walk.got)
          BY <2>2, <4>1 DEF PagesInv, WalkInv
        <4>3. GotInv'
          BY <1>1, <3>2, <3>3, <4>2 DEF GotInv, WalkKey
        <4>4. w.at = "page" => CursorInv'
          BY <3>2, <3>3, <3>5, <4>2 DEF CursorInv, WalkKey
        <4> QED
          BY <3>3, <3>5, <4>2, <4>3, <4>4
      <3> QED
        BY <3>2, <3>3, <3>4, <3>6 DEF WalkInv
    <2> QED
      BY <2>1, <2>2
  <1> QED
    BY <1>2, <1>3, <1>4, <1>5

LEMMA TerminalPages ==
    ASSUME PagesInv, Terminal
    PROVE  PagingInv' /\ PagesMatchReference' /\ WalkInv'
  <1>1. CASE Read
    BY <1>1, PagesStay DEF Read
  <1>2. CASE UpdateRows
    BY <1>2, PagesStay DEF UpdateRows
  <1>3. CASE DeleteRows
    BY <1>3, PagesIdle DEF DeleteRows, MayWrite, Ready
  <1>4. ASSUME NEW n \in PageNumbers, NEW s \in PageSizes, PaginateCount(n, s)
        PROVE  PagingInv' /\ PagesMatchReference' /\ WalkInv'
    <2>1. rows' = rows /\ q' = q /\ walk' = walk
      BY <1>4 DEF PaginateCount
    <2> QED
      BY <1>4, <2>1, CountKeeps, WalkStays
  <1>5. ASSUME NEW n \in PageNumbers, NEW s \in PageSizes, PaginateNoCount(n, s)
        PROVE  PagingInv' /\ PagesMatchReference' /\ WalkInv'
    <2>1. rows' = rows /\ q' = q /\ walk' = walk
      BY <1>5 DEF PaginateNoCount
    <2> QED
      BY <1>5, <2>1, NoCountKeeps, WalkStays
  <1>6. CASE PaginateSelect
    <2>1. rows' = rows /\ q' = q /\ walk' = walk
      BY <1>6 DEF PaginateSelect
    <2> QED
      BY <1>6, <2>1, SelectPageKeeps, WalkStays
  <1>7. ASSUME NEW type \in FirstCursors, NEW desc \in BOOLEAN, NEW s \in PageSizes,
               Walk(type, desc, s)
        PROVE  PagingInv' /\ PagesMatchReference' /\ WalkInv'
    <2>1. paging' = paging /\ paging = None /\ page' = None
      BY <1>7 DEF Walk, Ready
    <2>2. PagingInv' /\ PagesMatchReference'
      BY <2>1 DEF PagingInv, PagesMatchReference
    <2> QED
      BY <1>7, <2>2, WalkStarts
  <1>8. CASE PaginateAfter
    <2>1. rows' = rows /\ q' = q /\ paging' = paging /\ page' = page
      BY <1>8 DEF PaginateAfter
    <2>2. PagingInv' /\ PagesMatchReference'
      BY <2>1 DEF PagesInv, PagingInv, PagesMatchReference, Result
    <2> QED
      BY <1>8, <2>2, WalkKept
  <1> QED
    BY <1>1, <1>2, <1>3, <1>4, <1>5, <1>6, <1>7, <1>8 DEF Terminal

LEMMA BuildPages ==
    ASSUME PagesInv, Build
    PROVE  /\ rows' = rows /\ OrderInv'
           /\ PagingInv' /\ PagesMatchReference' /\ WalkInv'
  <1>1. ASSUME NEW n, NEW more, Chain(n, more)
        PROVE  rows' = rows /\ paging' = None /\ walk' = None /\ page' = None
    BY <1>1 DEF Chain
  <1>2. \E n, more : Chain(n, more)
    <2>1. ASSUME NEW c, NEW or, Where(c, or) PROVE \E n, more : Chain(n, more)
      BY <2>1 DEF Where
    <2>2. ASSUME NEW c, NEW or, WhereRefused(c, or) PROVE \E n, more : Chain(n, more)
      BY <2>2 DEF WhereRefused
    <2>3. CASE Search
      BY <2>3 DEF Search
    <2>4. ASSUME NEW terms, OrderBy(terms) PROVE \E n, more : Chain(n, more)
      BY <2>4 DEF OrderBy
    <2>5. CASE Limit(1) \/ Offset(1) \/ Join \/ ClauseRefused
      BY <2>5 DEF Limit, Offset, Join, ClauseRefused
    <2> QED
      BY <2>1, <2>2, <2>3, <2>4, <2>5 DEF Build
  <1>3. rows' = rows /\ paging' = None /\ walk' = None /\ page' = None
    BY <1>1, <1>2
  <1>4. OrderInv'
    BY OrderKept DEF PagesInv
  <1> QED
    BY <1>3, <1>4, PagesIdle

LEMMA TerminalLeaves ==
    ASSUME PagesInv, Terminal
    PROVE  rows' \subseteq Rows /\ OrderInv'
  <1>1. q' = q
    BY DEF Terminal, Read, UpdateRows, DeleteRows, PaginateCount, PaginateNoCount, PaginateSelect,
           Walk, PaginateAfter
  <1>2. rows' \subseteq rows
    BY DEF Terminal, Read, UpdateRows, DeleteRows, PaginateCount, PaginateNoCount, PaginateSelect,
           Walk, PaginateAfter
  <1> QED
    BY <1>1, <1>2 DEF PagesInv, OrderInv

LEMMA PagesAlways == QuerySpec => []PagesInv
  <1>1. QueryInit => PagesInv
    <2> SUFFICES ASSUME QueryInit PROVE PagesInv
      OBVIOUS
    <2>1. /\ "where" \in DOMAIN q /\ "err" \in DOMAIN q /\ q.where = <<>> /\ asked = <<>>
          /\ "orderBy" \in DOMAIN q /\ "offset" \in DOMAIN q /\ q.orderBy = <<>> /\ q.offset = 0
          /\ q.err = FALSE
      BY DEF QueryInit
    <2>2. statement = None /\ paging = None /\ page = None /\ walk = None /\ rows = Rows
      BY DEF QueryInit
    <2>3. <<>> \in Seq(Clauses) /\ <<>> \in Seq(Terms)
      OBVIOUS
    <2> QED
      BY <2>1, <2>2, <2>3
      DEF PagesInv, QueryInv, SelectsWhatWasAsked, OrderInv, PagingInv, PagesMatchReference, WalkInv
  <1>2. PagesInv /\ [QueryNext]_queryVars => PagesInv'
    <2> SUFFICES ASSUME PagesInv, [QueryNext]_queryVars PROVE PagesInv'
      OBVIOUS
    <2>1. QueryInv' /\ SelectsWhatWasAsked'
      BY QueryKept DEF PagesInv
    <2>2. CASE UNCHANGED queryVars
      <3>1. /\ rows' = rows /\ q' = q /\ paging' = paging /\ walk' = walk /\ page' = page
        BY <2>2 DEF queryVars
      <3> QED
        BY <2>1, <3>1, PagesStay DEF PagesInv, OrderInv
    <2>3. CASE Build
      BY <2>1, <2>3, BuildPages DEF PagesInv
    <2>4. CASE Terminal
      BY <2>1, <2>4, TerminalPages, TerminalLeaves DEF PagesInv
    <2>5. ASSUME NEW r \in Rows, Change(r)
          PROVE  PagesInv'
      <3>1. q' = q
        BY <2>5 DEF Change
      <3> QED
        BY <2>1, <2>5, <3>1, ChangeKeeps DEF PagesInv, OrderInv
    <2> QED
      BY <2>2, <2>3, <2>4, <2>5 DEF QueryNext
  <1> QED
    BY <1>1, <1>2, PTL DEF QuerySpec

(* Whatever the pages, their sizes and numbers and the chain they are of:  *)
(* a page holds the rows its number and size ask for, says rightly whether *)
(* another follows, and a reader who follows the cursors of PaginateAfter  *)
(* to the end has every row that stayed once, in the order of the key.     *)
THEOREM PagesHold == QuerySpec => []PagesAreComplete
  <1>1. PagesInv => PagesAreComplete
    <2> SUFFICES ASSUME PagesInv PROVE PagesAreComplete
      OBVIOUS
    <2>1. ASSUME walk # None, walk.at = "end", PlainWalk
          PROVE  /\ Wanted \subseteq ToSet(walk.got)
                 /\ ToSet(walk.got) \subseteq Selected(q.where, Meets)
                 /\ \A i, j \in 1..Len(walk.got) : i < j =>
                      IF walk.desc THEN walk.got[i] > walk.got[j] ELSE walk.got[i] < walk.got[j]
      <3>1. GotInv /\ Wanted \subseteq ToSet(walk.got)
        BY <2>1 DEF PagesInv, WalkInv
      <3>2. \A i \in 1..Len(walk.got) : walk.got[i] \in Rows
        BY <2>1, WalkIs
      <3>3. \A r, s \in Rows : WalkKey(r) < WalkKey(s) =>
              IF walk.desc THEN r > s ELSE r < s
        BY RowsFinite DEF WalkKey
      <3> QED
        BY <3>1, <3>2, <3>3 DEF GotInv
    <2> QED
      BY <2>1 DEF PagesInv, PagesAreComplete, KeysetOnce, PlainWalk
  <1> QED
    BY <1>1, PagesAlways, PTL

-----------------------------------------------------------------------------
(* Statements and their arguments.  The query keeps, beside its clauses,   *)
(* the arguments of those of the WHERE and, apart, those of the ranking.   *)

Names == Conds \cup {"after", "limit", "offset", "set"}
Args == Names \X (0..MaxInt)

Queries == [where : Seq(Clauses), args : Seq(Args), orderBy : Seq(Terms), rankArgs : Seq(Args),
            joined : BOOLEAN, limit : {0, 1}, offset : {0, 1}, err : BOOLEAN]

Fit(query) ==
    /\ query \in Queries
    /\ query.args = WhereHoles(query.where)
    /\ query.rankArgs = OrderHoles(query.orderBy)

Fitting(s) == s.args \in Seq(Args) /\ s.holes = s.args

FitInv ==
    /\ driver \in Drivers /\ calls \in 0..MaxCalls /\ changes \in 0..MaxChanges
    /\ Fit(q)
    /\ statement # None =>
         /\ statement.args \in Seq(Args)
         /\ statement.holes = statement.args
              \/ (statement.op = "PaginateAfter" /\ q.rankArgs # <<>>)

LEMMA Numbers ==
    /\ MaxInt \in Nat /\ MaxPageSize \in Nat /\ MaxPageSize >= 1 /\ MaxPageSize < MaxInt
    /\ 0 \in 0..MaxInt /\ 1 \in 0..MaxInt
  BY QueryAssumption

LEMMA OfAnArg ==
    ASSUME NEW name \in Names, NEW n \in 0..MaxInt
    PROVE  << <<name, n>> >> \in Seq(Args)
  BY DEF Args

LEMMA HolesAreArgs ==
    ASSUME NEW c \in Conds \cup {After}
    PROVE  HolesOf(c) \in Seq(Args)
  <1>1. CASE c = After
    <2>1. HolesOf(c) = << <<"after", 1>> >>
      BY <1>1 DEF HolesOf
    <2> QED
      BY <2>1, OfAnArg, Numbers DEF Names
  <1>2. CASE c # After
    <2>1. Holes[c] \in Seq(Conds \X (0..MaxInt))
      BY <1>2, QueryAssumption
    <2>2. Conds \X (0..MaxInt) \subseteq Args
      BY DEF Args, Names
    <2> QED
      BY <1>2, <2>1, <2>2, SeqMonotonic DEF HolesOf
  <1> QED
    BY <1>1, <1>2

(* A condition more has its placeholders after those of the others.        *)
LEMMA WhereHolesAppend ==
    ASSUME NEW where \in Seq(Clauses), NEW c \in Conds \cup {After}, NEW or \in BOOLEAN
    PROVE  /\ WhereHoles(where) \in Seq(Args)
           /\ WhereHoles(Append(where, Clause(c, or))) = WhereHoles(where) \o HolesOf(c)
  <1> DEFINE n == Len(where)
             more == Append(where, Clause(c, or))
             holes == [i \in 1..n |-> HolesOf(where[i].cond)]
  <1>1. n \in Nat /\ \A i \in 1..n : where[i] \in Clauses
    OBVIOUS
  <1>2. \A i \in 1..n : holes[i] \in Seq(Args)
    <2>1. \A i \in 1..n : where[i].cond \in Conds
      BY <1>1 DEF Clauses
    <2> QED
      BY <2>1, HolesAreArgs
  <1>3. holes \in Seq(Seq(Args)) /\ Len(holes) = n
    BY <1>1, <1>2, IsASeq
  <1>4. HolesOf(c) \in Seq(Args)
    BY HolesAreArgs
  <1>5. Len(more) = n + 1 /\ more[n + 1].cond = c /\ \A i \in 1..n : more[i] = where[i]
    BY <1>1 DEF Clause
  <1> HIDE DEF more
  <1>6. [i \in 1..Len(more) |-> HolesOf(more[i].cond)] = Append(holes, HolesOf(c))
    <2> DEFINE longer == [i \in 1..Len(more) |-> HolesOf(more[i].cond)]
               set == Seq(Args)
               last == HolesOf(c)
    <2>1. DOMAIN longer = 1..n + 1 /\ longer[n + 1] = last
          /\ \A i \in 1..n : longer[i] = holes[i]
      BY <1>1, <1>5
    <2>2. longer = [i \in 1..n + 1 |-> longer[i]]
      BY <1>1, <1>5
    <2>3. holes \in Seq(set) /\ last \in set /\ Len(holes) = n
      BY <1>3, <1>4
    <2> HIDE DEF holes, longer, set, last, n
    <2> DEFINE a == Append(holes, last)
    <2>4. /\ a \in Seq(set) /\ Len(a) = n + 1 /\ a[n + 1] = last
          /\ \A i \in 1..n : a[i] = holes[i]
      BY <1>1, <2>3
    <2> HIDE DEF a
    <2>5. a = [i \in 1..n + 1 |-> a[i]]
      BY <2>4
    <2>6. \A i \in 1..n + 1 : a[i] = longer[i]
      BY <1>1, <2>1, <2>4
    <2> QED
      BY <2>2, <2>5, <2>6 DEF longer, last, a
  <1> HIDE DEF holes
  <1>7. /\ FlattenSeq(holes) \in Seq(Args)
        /\ FlattenSeq(Append(holes, HolesOf(c))) = FlattenSeq(holes) \o HolesOf(c)
    BY <1>3, <1>4, FlattenAppend
  <1> QED
    BY <1>6, <1>7 DEF WhereHoles, holes, more

LEMMA ReversedTerms ==
    ASSUME NEW orderBy \in Seq(Terms)
    PROVE  ReverseOrder(orderBy) \in Seq(Terms)
  <1>1. CASE orderBy = <<>>
    BY <1>1 DEF ReverseOrder, IdTerm, Term, Terms
  <1>2. CASE orderBy # <<>>
    <2> DEFINE back == [i \in 1..Len(orderBy) |-> [orderBy[i] EXCEPT !.desc = ~@]]
    <2>1. \A i \in 1..Len(orderBy) : [orderBy[i] EXCEPT !.desc = ~@] \in Terms
      <3>1. \A i \in 1..Len(orderBy) : orderBy[i] \in Terms
        OBVIOUS
      <3> QED
        BY <3>1 DEF Terms
    <2>2. back \in Seq(Terms)
      BY <2>1, IsASeq
    <2> QED
      BY <1>2, <2>2 DEF ReverseOrder
  <1> QED
    BY <1>1, <1>2

(* A ranking is one whichever way it is ordered.                           *)
LEMMA OrderHolesAre ==
    ASSUME NEW orderBy \in Seq(Terms), NEW desc \in BOOLEAN
    PROVE  /\ OrderHoles(orderBy \o <<IdTerm(desc)>>) = OrderHoles(orderBy)
           /\ OrderHoles(<<IdTerm(desc)>>) = <<>>
           /\ OrderHoles(ReverseOrder(orderBy)) = OrderHoles(orderBy)
           /\ OrderHoles(orderBy) \in Seq(Args)
  <1>1. IdTerm(desc) \in Terms /\ IdTerm(desc).by = "id"
    BY DEF IdTerm, Term, Terms
  <1>2. OrderHoles(orderBy \o <<IdTerm(desc)>>) = OrderHoles(orderBy)
    <2> DEFINE more == orderBy \o <<IdTerm(desc)>>
    <2>1. /\ Len(orderBy) \in Nat /\ Len(more) = Len(orderBy) + 1
          /\ more[Len(orderBy) + 1].by = "id"
          /\ \A i \in 1..Len(orderBy) : more[i] = orderBy[i]
      <3> DEFINE t == IdTerm(desc)
      <3> HIDE DEF t
      <3>1. t \in Terms /\ t.by = "id"
        BY <1>1 DEF t
      <3>2. /\ Len(orderBy) \in Nat /\ Len(orderBy \o <<t>>) = Len(orderBy) + 1
            /\ (orderBy \o <<t>>)[Len(orderBy) + 1] = t
            /\ \A i \in 1..Len(orderBy) : (orderBy \o <<t>>)[i] = orderBy[i]
        BY <3>1
      <3> QED
        BY <3>1, <3>2 DEF t
    <2> HIDE DEF more
    <2>2. (\E i \in 1..Len(more) : more[i].by = "rank")
          <=> \E i \in 1..Len(orderBy) : orderBy[i].by = "rank"
      <3>1. ASSUME NEW i \in 1..Len(more), more[i].by = "rank"
            PROVE  i \in 1..Len(orderBy) /\ orderBy[i].by = "rank"
        <4>1. i # Len(orderBy) + 1
          BY <2>1, <3>1
        <4>2. i \in 1..Len(orderBy)
          BY <2>1, <4>1
        <4> QED
          BY <2>1, <3>1, <4>2
      <3>2. ASSUME NEW i \in 1..Len(orderBy), orderBy[i].by = "rank"
            PROVE  i \in 1..Len(more) /\ more[i].by = "rank"
        BY <2>1, <3>2
      <3> QED
        BY <3>1, <3>2
    <2> QED
      BY <2>2 DEF OrderHoles, more
  <1>3. OrderHoles(<<IdTerm(desc)>>) = <<>>
    BY <1>1 DEF OrderHoles
  <1>4. OrderHoles(ReverseOrder(orderBy)) = OrderHoles(orderBy)
    <2>1. CASE orderBy = <<>>
      BY <2>1 DEF OrderHoles, ReverseOrder, IdTerm, Term
    <2>2. CASE orderBy # <<>>
      <3> DEFINE back == [i \in 1..Len(orderBy) |-> [orderBy[i] EXCEPT !.desc = ~@]]
      <3>1. ReverseOrder(orderBy) = back
        BY <2>2 DEF ReverseOrder
      <3>2. Len(back) = Len(orderBy) /\ \A i \in 1..Len(orderBy) : back[i].by = orderBy[i].by
        <4>1. \A i \in 1..Len(orderBy) : orderBy[i] \in Terms
          OBVIOUS
        <4>2. \A i \in 1..Len(orderBy) : back[i].by = orderBy[i].by
          BY <4>1 DEF Terms
        <4> QED
          BY <4>2
      <3> HIDE DEF back
      <3> QED
        BY <3>1, <3>2 DEF OrderHoles
    <2> QED
      BY <2>1, <2>2
  <1>5. OrderHoles(orderBy) \in Seq(Args)
    <2>1. Holes[Searched] \in Seq(Args)
      <3>1. Searched \in Conds /\ Searched # After
        BY QueryAssumption
      <3> QED
        BY <3>1, HolesAreArgs DEF HolesOf
    <2> QED
      BY <2>1 DEF OrderHoles
  <1> QED
    BY <1>2, <1>3, <1>4, <1>5

-----------------------------------------------------------------------------
(* The chain keeps a query whose arguments fit.                            *)

LEMMA FitIs ==
    ASSUME NEW n, Fit(n)
    PROVE  /\ n.where \in Seq(Clauses) /\ n.args \in Seq(Args) /\ n.orderBy \in Seq(Terms)
           /\ n.rankArgs \in Seq(Args) /\ n.limit \in {0, 1} /\ n.offset \in {0, 1}
           /\ n.joined \in BOOLEAN /\ n.err \in BOOLEAN
  BY DEF Fit, Queries

LEMMA WithCondFits ==
    ASSUME Fit(q), NEW c \in Conds, NEW or \in BOOLEAN
    PROVE  Fit(WithCond(c, or))
  <1> DEFINE n == WithCond(c, or)
             where == Append(q.where, Clause(c, or))
             args == q.args \o Holes[c]
  <1>1. HolesOf(c) = Holes[c] /\ Holes[c] \in Seq(Args)
    BY QueryAssumption, HolesAreArgs DEF HolesOf
  <1>2. where \in Seq(Clauses) /\ args \in Seq(Args)
    <2>1. Clause(c, or) \in Clauses
      BY DEF Clause, Clauses
    <2>2. q.where \in Seq(Clauses) /\ q.args \in Seq(Args)
      BY FitIs
    <2> QED
      BY <1>1, <2>1, <2>2
  <1>3. args = WhereHoles(where)
    BY <1>1, FitIs, WhereHolesAppend DEF Fit
  <1> HIDE DEF where, args
  <1>4. n = [q EXCEPT !.where = where, !.args = args]
    BY DEF WithCond, where, args, Fit, Queries
  <1> HIDE DEF n
  <1>5. n \in Queries /\ n.where = where /\ n.args = args /\ n.rankArgs = q.rankArgs
        /\ n.orderBy = q.orderBy
    BY <1>2, <1>4 DEF Fit, Queries
  <1> QED
    BY <1>3, <1>5 DEF Fit, n

LEMMA BuildFits ==
    ASSUME Fit(q), Build
    PROVE  /\ Fit(q)' /\ statement' = None /\ UNCHANGED <<driver, changes>>
           /\ calls < MaxCalls /\ calls' = calls + 1
  <1>1. ASSUME NEW n, NEW more, Chain(n, more), Fit(n)
        PROVE  /\ Fit(q)' /\ statement' = None /\ UNCHANGED <<driver, changes>>
               /\ calls < MaxCalls /\ calls' = calls + 1
    BY <1>1 DEF Chain, Fit, OrderHoles, WhereHoles, HolesOf
  <1>2. Fit(Refused(q))
    BY DEF Fit, Refused, Queries
  <1>3. ASSUME NEW c \in Conds, NEW or \in BOOLEAN, Where(c, or) \/ WhereRefused(c, or)
        PROVE  \E n, more : Chain(n, more) /\ Fit(n)
    BY <1>2, <1>3, WithCondFits DEF Where, WhereRefused
  <1>4. ASSUME Search
        PROVE  \E n, more : Chain(n, more) /\ Fit(n)
    <2> DEFINE found == WithCond(Searched, FALSE)
               ranks(desc, hs) == [found EXCEPT !.orderBy = <<Term("rank", desc)>>, !.rankArgs = hs]
    <2>1. Searched \in Conds /\ Searched # After
      BY QueryAssumption
    <2>2. Fit(found)
      BY <2>1, WithCondFits
    <2>3. Holes[Searched] \in Seq(Args)
      BY <2>1, HolesAreArgs DEF HolesOf
    <2> HIDE DEF found
    <2>4. \A desc \in BOOLEAN : <<Term("rank", desc)>> \in Seq(Terms)
      BY DEF Term, Terms
    <2>5. \A desc \in BOOLEAN : OrderHoles(<<Term("rank", desc)>>)
                                  = IF driver = "postgres" THEN Holes[Searched] ELSE <<>>
      BY DEF OrderHoles, Term
    <2>6. driver # "postgres" => \A query : Fit(query) => query.rankArgs = <<>>
      BY DEF Fit, OrderHoles
    <2>7. CASE driver = "postgres"
      <3> DEFINE terms == <<Term("rank", TRUE)>>
                 n == [found EXCEPT !.orderBy = terms, !.rankArgs = Holes[Searched]]
      <3>1. Chain(n, <<Clause(Searched, FALSE)>>)
        BY <1>4, <2>7 DEF Search, found
      <3>2. terms \in Seq(Terms) /\ OrderHoles(terms) = Holes[Searched]
        BY <2>4, <2>5, <2>7
      <3> HIDE DEF terms
      <3>3. n \in Queries /\ n.args = found.args /\ n.where = found.where
            /\ n.orderBy = terms /\ n.rankArgs = Holes[Searched]
        BY <2>2, <2>3, <3>2 DEF Fit, Queries
      <3> HIDE DEF n
      <3>4. Fit(n)
        BY <2>2, <3>2, <3>3 DEF Fit
      <3> QED
        BY <3>1, <3>4
    <2>8. CASE driver = "sqlite" /\ q.err
      <3>1. Chain([q EXCEPT !.joined = TRUE], <<Clause(Searched, FALSE)>>)
        BY <1>4, <2>8 DEF Search
      <3>2. Fit([q EXCEPT !.joined = TRUE])
        BY DEF Fit, Queries
      <3> QED
        BY <3>1, <3>2
    <2>9. CASE driver = "sqlite" /\ ~q.err
      <3> DEFINE terms == <<Term("rank", FALSE)>>
                 n == [found EXCEPT !.orderBy = terms, !.joined = TRUE]
      <3>1. Chain(n, <<Clause(Searched, FALSE)>>)
        BY <1>4, <2>9 DEF Search, found
      <3>2. terms \in Seq(Terms) /\ OrderHoles(terms) = <<>>
        BY <2>4, <2>5, <2>9
      <3> HIDE DEF terms
      <3>3. n \in Queries /\ n.args = found.args /\ n.where = found.where
            /\ n.orderBy = terms /\ n.rankArgs = found.rankArgs
        BY <2>2, <3>2 DEF Fit, Queries
      <3> HIDE DEF n
      <3>4. Fit(n)
        BY <2>2, <2>6, <2>9, <3>2, <3>3 DEF Fit
      <3> QED
        BY <3>1, <3>4
    <2>10. CASE driver # "postgres" /\ driver # "sqlite"
      <3>1. Chain(Refused(q), <<Clause(Searched, FALSE)>>)
        BY <1>4, <2>10 DEF Search
      <3> QED
        BY <1>2, <3>1
    <2> QED
      BY <2>7, <2>8, <2>9, <2>10
  <1>5. ASSUME NEW desc \in BOOLEAN, OrderBy(<<IdTerm(desc)>>)
        PROVE  \E n, more : Chain(n, more) /\ Fit(n)
    <2> DEFINE terms == q.orderBy \o <<IdTerm(desc)>>
               n == [q EXCEPT !.orderBy = terms]
    <2>1. Chain(n, <<>>)
      BY <1>5 DEF OrderBy, Fit, Queries
    <2>2. terms \in Seq(Terms)
      BY FitIs DEF IdTerm, Term, Terms
    <2>3. OrderHoles(terms) = OrderHoles(q.orderBy)
      BY FitIs, OrderHolesAre
    <2> HIDE DEF terms
    <2>4. n \in Queries /\ n.args = q.args /\ n.where = q.where
          /\ n.orderBy = terms /\ n.rankArgs = q.rankArgs
      BY <2>2 DEF Fit, Queries
    <2> HIDE DEF n
    <2>5. Fit(n)
      BY <2>3, <2>4 DEF Fit
    <2> QED
      BY <2>1, <2>5
  <1>6. ASSUME Limit(1) \/ Offset(1) \/ Join \/ ClauseRefused
        PROVE  \E n, more : Chain(n, more) /\ Fit(n)
    <2>1. /\ Fit([q EXCEPT !.limit = 1]) /\ Fit([q EXCEPT !.offset = 1])
          /\ Fit([q EXCEPT !.joined = TRUE])
      BY DEF Fit, Queries
    <2> QED
      BY <1>2, <1>6, <2>1 DEF Limit, Offset, Join, ClauseRefused
  <1>7. \E n, more : Chain(n, more) /\ Fit(n)
    BY <1>3, <1>4, <1>5, <1>6 DEF Build
  <1> QED
    BY <1>1, <1>7

-----------------------------------------------------------------------------
(* Statements.                                                             *)

LEMMA LimitsAreArgs ==
    ASSUME NEW limit \in 0..MaxInt, NEW offset \in 0..MaxInt
    PROVE  LimitHole(limit) \o OffsetHole(offset) \in Seq(Args)
  <1>1. << <<"limit", limit>> >> \in Seq(Args) /\ << <<"offset", offset>> >> \in Seq(Args)
    BY OfAnArg DEF Names
  <1>2. LimitHole(limit) \in Seq(Args) /\ OffsetHole(offset) \in Seq(Args)
    BY <1>1 DEF LimitHole, OffsetHole
  <1> QED
    BY <1>2

LEMMA SelectFits ==
    ASSUME NEW op, NEW query, NEW forced \in 0..MaxInt, NEW beyond, Fit(query)
    PROVE  Fitting(BuildSelect(op, query, forced, beyond))
  <1> DEFINE limit == IF forced > 0 THEN forced ELSE query.limit
             tail == LimitHole(limit) \o OffsetHole(query.offset)
             built == BuildSelect(op, query, forced, beyond)
  <1>1. limit \in 0..MaxInt /\ query.offset \in 0..MaxInt
    BY FitIs, Numbers
  <1> HIDE DEF limit
  <1>2. tail \in Seq(Args)
    BY <1>1, LimitsAreArgs
  <1>3. built.args = query.args \o query.rankArgs \o tail
    BY DEF BuildSelect, SelectArgs, limit
  <1>4. built.holes = query.args \o query.rankArgs \o tail
    BY DEF BuildSelect, limit, Fit
  <1> HIDE DEF tail, built
  <1> QED
    BY <1>2, <1>3, <1>4, FitIs DEF Fitting, built

LEMMA SelectPageFits ==
    ASSUME NEW op, NEW size \in 0..MaxInt, NEW offset \in 0..MaxInt, Fit(q)
    PROVE  Fitting(BuildSelectPage(op, size, offset))
  <1> DEFINE tail == << <<"limit", size>>, <<"offset", offset>> >>
             built == BuildSelectPage(op, size, offset)
  <1>1. tail \in Seq(Args)
    BY DEF Args, Names
  <1>2. built.args = q.args \o q.rankArgs \o tail
    BY DEF BuildSelectPage, SelectArgs
  <1>3. built.holes = q.args \o q.rankArgs \o tail
    BY DEF BuildSelectPage, Fit
  <1> HIDE DEF tail, built
  <1> QED
    BY <1>1, <1>2, <1>3, FitIs DEF Fitting, built

LEMMA PlainFits ==
    ASSUME NEW op, Fit(q)
    PROVE  Fitting(BuildPlain(op))
  <1> DEFINE set == IF op = "Update" THEN << <<"set", 0>> >> ELSE <<>>
  <1>1. set \in Seq(Args)
    BY OfAnArg, Numbers DEF Names
  <1>2. BuildPlain(op).args = set \o q.args /\ BuildPlain(op).holes = set \o q.args
    BY DEF BuildPlain, Fit
  <1> HIDE DEF set
  <1> QED
    BY <1>1, <1>2, FitIs DEF Fitting

(* A page by key: the order is replaced, and with it the ranking, but not  *)
(* the argument of one.                                                    *)
LEMMA AfterFits ==
    ASSUME Fit(q), walk \in Walks, NEW beyond,
           NEW built, built = BuildSelect("PaginateAfter", AfterQuery, walk.limit + 1, beyond)
    PROVE  /\ built.op = "PaginateAfter" /\ built.args \in Seq(Args)
           /\ q.rankArgs = <<>> => built.holes = built.args
  <1> DEFINE terms == <<IdTerm(walk.desc)>>
             base == [q EXCEPT !.orderBy = terms]
             tail == LimitHole(walk.limit + 1) \o OffsetHole(q.offset)
  <1>1. walk.limit \in 1..MaxPageSize /\ walk.desc \in BOOLEAN
    BY DEF Walks
  <1>2. OrderHoles(terms) = <<>>
    BY <1>1, FitIs, OrderHolesAre
  <1> HIDE DEF terms
  <1>3. base.where = q.where /\ base.args = q.args /\ base.rankArgs = q.rankArgs
        /\ base.orderBy = terms /\ base.offset = q.offset
        /\ DOMAIN base =
             {"where", "args", "orderBy", "rankArgs", "joined", "limit", "offset", "err"}
    BY DEF Fit, Queries
  <1>4. /\ AfterQuery.args = WhereHoles(AfterQuery.where) /\ AfterQuery.args \in Seq(Args)
        /\ AfterQuery.rankArgs = q.rankArgs /\ AfterQuery.orderBy = terms
        /\ AfterQuery.offset = q.offset
    <2>1. CASE IsZeroValue(walk.cursor)
      <3>1. AfterQuery = base
        BY <2>1 DEF AfterQuery, terms
      <3> QED
        BY <1>3, <3>1, FitIs DEF Fit
    <2>2. CASE ~IsZeroValue(walk.cursor)
      <3> DEFINE where == Append(q.where, Clause(After, FALSE))
                 args == q.args \o HolesOf(After)
      <3>1. args = WhereHoles(where) /\ args \in Seq(Args)
        <4>1. q.where \in Seq(Clauses) /\ q.args \in Seq(Args) /\ q.args = WhereHoles(q.where)
          BY FitIs DEF Fit
        <4>2. HolesOf(After) \in Seq(Args) /\ After \in Conds \cup {After} /\ FALSE \in BOOLEAN
          BY HolesAreArgs
        <4>3. WhereHoles(where) = WhereHoles(q.where) \o HolesOf(After)
          BY <4>1, <4>2, WhereHolesAppend
        <4>4. args \in Seq(Args)
          <5> DEFINE a == q.args
                     b == HolesOf(After)
          <5>1. a \in Seq(Args) /\ b \in Seq(Args)
            BY <4>1, <4>2
          <5> HIDE DEF a, b
          <5>2. a \o b \in Seq(Args)
            BY <5>1
          <5> QED
            BY <5>2 DEF a, b
        <4> HIDE DEF where
        <4> QED
          BY <4>1, <4>3, <4>4
      <3>2. AfterQuery = [base EXCEPT !.where = Append(@, Clause(After, FALSE)),
                                      !.args = @ \o HolesOf(After)]
        BY <2>2 DEF AfterQuery, terms
      <3> HIDE DEF base
      <3>3. AfterQuery.where = where /\ AfterQuery.args = args
            /\ AfterQuery.rankArgs = base.rankArgs /\ AfterQuery.orderBy = base.orderBy
            /\ AfterQuery.offset = base.offset
        BY <1>3, <3>2
      <3> HIDE DEF where, args
      <3> QED
        BY <1>3, <3>1, <3>3
    <2> QED
      BY <2>1, <2>2
  <1>5. walk.limit + 1 \in 0..MaxInt /\ walk.limit + 1 > 0 /\ q.offset \in 0..MaxInt
    BY <1>1, Numbers, FitIs
  <1>6. tail \in Seq(Args)
    BY <1>5, LimitsAreArgs
  <1>7. built.op = "PaginateAfter"
        /\ built.args = AfterQuery.args \o AfterQuery.rankArgs \o tail
        /\ built.holes = WhereHoles(AfterQuery.where) \o OrderHoles(AfterQuery.orderBy) \o tail
    BY <1>4, <1>5 DEF BuildSelect, SelectArgs
  <1> HIDE DEF tail, base
  <1>8. built.args \in Seq(Args)
    <2> DEFINE a == AfterQuery.args
               b == AfterQuery.rankArgs
    <2>1. a \in Seq(Args) /\ b \in Seq(Args)
      BY <1>4, FitIs
    <2> HIDE DEF a, b
    <2>2. a \o b \o tail \in Seq(Args)
      BY <1>6, <2>1
    <2> QED
      BY <1>7, <2>2 DEF a, b
  <1>9. q.rankArgs = <<>> => built.holes = built.args
    BY <1>2, <1>4, <1>7
  <1> QED
    BY <1>7, <1>8, <1>9

(* A call that leaves the query alone, and executes a statement that fits. *)
LEMMA StatementFits ==
    ASSUME FitInv, UNCHANGED <<driver, changes, q, calls>>,
           \/ statement' = None \/ Fitting(statement')
           \/ /\ statement'.op = "PaginateAfter" /\ statement'.args \in Seq(Args)
              /\ q.rankArgs = <<>> => statement'.holes = statement'.args
    PROVE  FitInv'
  <1>1. Fit(q)'
    BY DEF FitInv, Fit, OrderHoles, WhereHoles, HolesOf
  <1> QED
    BY <1>1 DEF FitInv, Fitting

LEMMA TerminalFits ==
    ASSUME PagesInv, FitInv, Terminal
    PROVE  FitInv'
  <1>1. UNCHANGED <<driver, changes, q, calls>>
    BY DEF Terminal, Read, UpdateRows, DeleteRows, PaginateCount, PaginateNoCount, PaginateSelect,
           Walk, PaginateAfter
  <1>2. Fit(q)
    BY DEF FitInv
  <1>3. CASE Read
    <2>1. CASE All
      BY <1>1, <1>2, <2>1, Numbers, SelectFits, StatementFits DEF All
    <2>2. CASE FirstRow
      BY <1>1, <1>2, <2>2, Numbers, SelectFits, StatementFits DEF FirstRow
    <2>3. CASE LastRow
      <3> DEFINE terms == ReverseOrder(q.orderBy)
                 back == [q EXCEPT !.orderBy = terms]
      <3>1. statement' = BuildSelect("Last", back, 1, {})
        BY <1>2, <2>3 DEF LastRow, Fit, Queries
      <3>2. OrderHoles(terms) = OrderHoles(q.orderBy)
        BY <1>2, FitIs, OrderHolesAre
      <3>3. terms \in Seq(Terms)
        BY <1>2, FitIs, ReversedTerms
      <3> HIDE DEF terms
      <3>4. back \in Queries /\ back.where = q.where /\ back.args = q.args
            /\ back.rankArgs = q.rankArgs /\ back.orderBy = terms
        BY <1>2, <3>3 DEF Fit, Queries
      <3> HIDE DEF back
      <3>5. Fit(back)
        BY <1>2, <3>2, <3>4 DEF Fit
      <3> QED
        BY <1>1, <3>1, <3>5, Numbers, SelectFits, StatementFits
    <2>4. CASE Count \/ Exists
      BY <1>1, <1>2, <2>4, PlainFits, StatementFits DEF Count, Exists
    <2> QED
      BY <1>3, <2>1, <2>2, <2>3, <2>4 DEF Read
  <1>4. CASE UpdateRows \/ DeleteRows
    BY <1>1, <1>2, <1>4, PlainFits, StatementFits DEF UpdateRows, DeleteRows
  <1>5. ASSUME NEW n \in PageNumbers, NEW s \in PageSizes, PaginateCount(n, s)
        PROVE  FitInv'
    BY <1>1, <1>2, <1>5, PlainFits, StatementFits DEF PaginateCount
  <1>6. ASSUME NEW n \in PageNumbers, NEW s \in PageSizes, PaginateNoCount(n, s)
        PROVE  FitInv'
    <2> DEFINE size == ClampSize(s)
               offset == PageOffset(ClampPage(n, size), size)
    <2>1. n \in Int /\ s \in Int
      BY QueryAssumption
    <2>2. size \in 1..MaxPageSize
      BY <2>1, Sizes
    <2>3. offset \in 0..MaxInt
      <3>1. ClampedOffset(n, size) \in Nat /\ ClampedOffset(n, size) <= MaxInt
        BY <2>1, <2>2, OffsetIs
      <3> HIDE DEF size
      <3> QED
        BY <3>1, Numbers DEF ClampedOffset
    <2>4. OneMore(size) \in 0..MaxInt
      BY <2>2, Numbers DEF OneMore
    <2>5. statement' = BuildSelectPage("PaginateNoCount", OneMore(size), offset)
      BY <1>6 DEF PaginateNoCount
    <2> HIDE DEF size, offset
    <2> QED
      BY <1>1, <1>2, <2>3, <2>4, <2>5, SelectPageFits, StatementFits
  <1>7. CASE PaginateSelect
    <2> DEFINE size == paging.size
               offset == PageOffset(paging.number, size)
    <2>1. paging \in Pagings /\ paging.number = ClampPage(paging.asked, paging.size)
      BY <1>7 DEF PaginateSelect, PagesInv, PagingInv
    <2>2. size \in 1..MaxPageSize /\ paging.asked \in Int
      BY <2>1 DEF Pagings
    <2>3. offset \in 0..MaxInt
      <3>1. /\ ClampedOffset(paging.asked, size) \in Nat
            /\ ClampedOffset(paging.asked, size) <= MaxInt
        BY <2>2, OffsetIs
      <3>2. offset = ClampedOffset(paging.asked, size)
        BY <2>1 DEF ClampedOffset
      <3> HIDE DEF offset
      <3> QED
        BY <3>1, <3>2, Numbers
    <2>4. size \in 0..MaxInt
      BY <2>2, Numbers
    <2>5. statement' = BuildSelectPage("Paginate", size, offset)
      BY <1>7 DEF PaginateSelect
    <2> HIDE DEF size, offset
    <2> QED
      BY <1>1, <1>2, <2>3, <2>4, <2>5, SelectPageFits, StatementFits
  <1>8. ASSUME NEW type, NEW desc, NEW s, Walk(type, desc, s)
        PROVE  FitInv'
    BY <1>1, <1>8, StatementFits DEF Walk
  <1>9. CASE PaginateAfter
    <2>1. walk \in Walks
      BY <1>9 DEF PaginateAfter, PagesInv, WalkInv
    <2>2. statement' = BuildSelect("PaginateAfter", AfterQuery, walk.limit + 1, Beyond)
      BY <1>9 DEF PaginateAfter
    <2> QED
      BY <1>1, <1>2, <2>1, <2>2, AfterFits, StatementFits
  <1> QED
    BY <1>3, <1>4, <1>5, <1>6, <1>7, <1>8, <1>9 DEF Terminal

LEMMA FitKept ==
    ASSUME PagesInv, FitInv, [QueryNext]_queryVars
    PROVE  FitInv'
  <1>1. CASE UNCHANGED queryVars
    <2>1. UNCHANGED <<driver, changes, q, calls, statement>>
      BY <1>1 DEF queryVars
    <2> QED
      BY <2>1 DEF FitInv, Fit, OrderHoles, WhereHoles, HolesOf
  <1>2. CASE Build
    <2>1. Fit(q)' /\ statement' = None /\ UNCHANGED <<driver, changes>>
          /\ calls < MaxCalls /\ calls' = calls + 1
      BY <1>2, BuildFits DEF FitInv
    <2>2. calls' \in 0..MaxCalls
      BY <2>1, QueryAssumption DEF FitInv
    <2> QED
      BY <2>1, <2>2 DEF FitInv
  <1>3. CASE Terminal
    BY <1>3, TerminalFits
  <1>4. ASSUME NEW r \in Rows, Change(r)
        PROVE  FitInv'
    <2>1. /\ UNCHANGED <<driver, q, calls, statement>>
          /\ changes < MaxChanges /\ changes' = changes + 1
      BY <1>4 DEF Change
    <2>2. changes' \in 0..MaxChanges
      BY <2>1, QueryAssumption DEF FitInv
    <2> QED
      BY <2>1, <2>2 DEF FitInv, Fit, OrderHoles, WhereHoles, HolesOf
  <1> QED
    BY <1>1, <1>2, <1>3, <1>4 DEF QueryNext

(* Every statement, of whichever chain of calls, is executed with an       *)
(* argument for each of its placeholders, in their order, and asks for no  *)
(* negative number of rows: whatever the conditions, the number of their   *)
(* arguments, and the length of the chain.                                 *)
THEOREM ArgumentsFit == QuerySpec => []StatementsFit
  <1>1. QueryInit => FitInv
    <2> SUFFICES ASSUME QueryInit PROVE FitInv
      OBVIOUS
    <2>1. q \in Queries /\ q.args = <<>> /\ q.where = <<>> /\ q.rankArgs = <<>> /\ q.orderBy = <<>>
      BY DEF QueryInit, Queries
    <2>2. WhereHoles(<<>>) = <<>>
      BY DEF WhereHoles, FlattenSeq
    <2>3. OrderHoles(<<>>) = <<>>
      BY DEF OrderHoles
    <2>4. Fit(q)
      BY <2>1, <2>2, <2>3 DEF Fit
    <2> QED
      BY <2>4, QueryAssumption DEF FitInv, QueryInit
  <1>2. PagesInv /\ FitInv /\ [QueryNext]_queryVars => FitInv'
    BY FitKept
  <1>3. PagesInv /\ FitInv => StatementsFit
    <2> SUFFICES ASSUME PagesInv, FitInv PROVE StatementsFit
      OBVIOUS
    <2>1. \A i \in 1..Len(q.where) : q.where[i].cond \in Conds /\ q.where[i].or \in BOOLEAN
      <3>1. \A i \in 1..Len(q.where) : q.where[i] \in Clauses
        BY FitIs DEF FitInv
      <3> QED
        BY <3>1 DEF Clauses
    <2>2. \A i \in 1..Len(q.orderBy) : q.orderBy[i].by \in {"id", "rank"}
      <3>1. \A i \in 1..Len(q.orderBy) : q.orderBy[i] \in Terms
        BY FitIs DEF FitInv
      <3> QED
        BY <3>1 DEF Terms
    <2>3. statement # None => \A i \in 1..Len(statement.args) : statement.args[i][2] \in 0..MaxInt
      <3>1. statement # None => \A i \in 1..Len(statement.args) : statement.args[i] \in Args
        BY DEF FitInv
      <3> QED
        BY <3>1 DEF Args
    <2>4. walk # None => walk.at \in {"page", "end", "error"} /\ walk.stays \subseteq Rows
      BY DEF PagesInv, WalkInv, Walks
    <2>5. q.limit \in 0..MaxInt /\ q.offset \in 0..MaxInt /\ q.err \in BOOLEAN
      BY FitIs, Numbers DEF FitInv
    <2>6. QueryTypeOK
      BY <2>1, <2>2, <2>3, <2>4, <2>5 DEF QueryTypeOK, FitInv, PagesInv
    <2>7. ArgsFitHoles
      BY DEF ArgsFitHoles, FitInv
    <2> QED
      BY <2>6, <2>7 DEF StatementsFit
  <1> QED
    BY <1>1, <1>2, <1>3, PagesAlways, PTL DEF QuerySpec

-----------------------------------------------------------------------------
(* The calls that look before they write.  What a transaction holds nobody *)
(* else writes, a row that has been seen stays until somebody deletes it,  *)
(* and the inserts of a key are its deletes and the row that is there.     *)

Made(c, k) == \E i \in DOMAIN inserts[k] : inserts[k][i] = c
Holds(c) == DOMAIN pending[c]

RecordTypes ==
    /\ call \in [Processes -> Calls]
    /\ stage \in [Processes -> {"look", "insert", "again", "update", "end", "over"}]
    /\ next \in [Processes -> Nat]
    /\ result \in [Processes -> [ok : BOOLEAN, created : BOOLEAN]]
    /\ stored \in [UniqueKeys -> Processes \cup {Absent}]
    /\ DOMAIN pending = Processes
    /\ \A c \in Processes : Holds(c) \subseteq UniqueKeys
                            /\ pending[c] \in [Holds(c) -> Processes]
    /\ aborted \in [Processes -> BOOLEAN]
    /\ inserts \in [UniqueKeys -> Seq(Processes)]
    /\ deletes \in [UniqueKeys -> Nat]

HoldInv(c) ==
    /\ ~InTx(c) => Holds(c) = {} /\ stage[c] # "end" /\ ~aborted[c]
    /\ Over(c) => Holds(c) = {}
    /\ \A d \in Processes \ {c} : Holds(c) \cap Holds(d) = {}

(* A call about one row.                                                   *)
SingleInv(c) ==
    LET k == KeyOf(c)
        r == result[c]
    IN  /\ stage[c] \in {"look", "insert", "again", "update"} => Holds(c) = {}
        /\ Holds(c) \subseteq {k}
        /\ r.created => r.ok
        /\ stage[c] = "end" /\ r.created => Holds(c) = {k} /\ stored[k] = Absent
        /\ stage[c] = "end" /\ ~r.created /\ Holds(c) # {} => stored[k] # Absent
        /\ deletes[k] = 0 =>
             /\ stage[c] \in {"again", "update"} => stored[k] # Absent
             /\ stage[c] = "end" /\ r.ok => stored[k] # Absent \/ k \in Holds(c)
             /\ Over(c) /\ (r.ok \/ ~InTx(c)) => stored[k] # Absent
             /\ Over(c) /\ Op(c) \in DOMAIN Recovered /\ ~InTx(c) => r.ok
        /\ \A key \in UniqueKeys : Made(c, key) <=> (key = k /\ Over(c) /\ r.created)

(* CreateAll: the chunks so far.                                           *)
Behind(c) == {i \in DOMAIN call[c].keys : i < next[c]}
Given(c, places) == {call[c].keys[i] : i \in places}

ChunksInv(c) ==
    LET r == result[c] IN
    /\ stage[c] \in {"insert", "end", "over"}
    /\ \E m \in Nat : next[c] = m * ChunkSize + 1 /\ m < next[c]
    /\ stage[c] = "insert" => next[c] <= Len(call[c].keys)
    /\ stage[c] # "insert" => r.ok = (next[c] > Len(call[c].keys)) /\ r.created = r.ok
    /\ InTx(c) /\ ~Over(c) => Holds(c) = Given(c, Behind(c))
    /\ \A k \in Holds(c) : stored[k] = Absent
    /\ \A k \in UniqueKeys :
         Made(c, k) <=> /\ k \in Given(c, Behind(c))
                        /\ InTx(c) => Over(c) /\ r.ok

CallInv(c) == HoldInv(c) /\ IF Op(c) = "createAll" THEN ChunksInv(c) ELSE SingleInv(c)

CountInv(k) == Len(inserts[k]) = deletes[k] + IF stored[k] = Absent THEN 0 ELSE 1

RecordsInv ==
    /\ RecordTypes
    /\ \A c \in Processes : CallInv(c)
    /\ \A k \in UniqueKeys : CountInv(k)

LEMMA CallTyped ==
    ASSUME RecordTypes, NEW c \in Processes
    PROVE  /\ call[c].keys \in Seq(UniqueKeys) /\ Len(call[c].keys) \in Nat \ {0}
           /\ KeyOf(c) \in UniqueKeys /\ InTx(c) \in BOOLEAN
           /\ DOMAIN call[c].keys = 1..Len(call[c].keys)
           /\ \A i, j \in DOMAIN call[c].keys : call[c].keys[i] = call[c].keys[j] => i = j
           /\ Op(c) \in {"getOrCreate", "updateOrCreate", "ensureSuperuser", "createUser",
                         "createAll"}
  <1>1. call[c] \in Calls
    BY DEF RecordTypes
  <1>2. /\ call[c].keys \in Seq(UniqueKeys) /\ call[c].keys # <<>> /\ IsInjective(call[c].keys)
        /\ call[c].tx \in BOOLEAN
        /\ Op(c) \in {"getOrCreate", "updateOrCreate", "ensureSuperuser", "createUser",
                      "createAll"}
    BY <1>1, RecordsAssumption DEF Op
  <1>3. Len(call[c].keys) \in Nat \ {0} /\ DOMAIN call[c].keys = 1..Len(call[c].keys)
    BY <1>2
  <1> QED
    BY <1>2, <1>3 DEF KeyOf, InTx, IsInjective

LEMMA RecordsInvInit == RecordsInit => RecordsInv
  <1> SUFFICES ASSUME RecordsInit PROVE RecordsInv
    OBVIOUS
  <1>1. \A c \in Processes : Holds(c) = {} /\ next[c] = 1
    BY DEF RecordsInit, Holds, NoRows
  <1>2. \A c \in Processes, k \in UniqueKeys : ~Made(c, k)
    BY DEF RecordsInit, Made
  <1>3. RecordTypes
    <2>1. \A c \in Processes : pending[c] \in [Holds(c) -> Processes]
      BY DEF RecordsInit, Holds, NoRows
    <2>2. inserts \in [UniqueKeys -> Seq(Processes)]
      BY DEF RecordsInit
    <2>3. result \in [Processes -> [ok : BOOLEAN, created : BOOLEAN]]
      BY DEF RecordsInit, NoResult
    <2> QED
      BY <1>1, <2>1, <2>2, <2>3 DEF RecordsInit, RecordTypes
  <1>4. ASSUME NEW c \in Processes PROVE CallInv(c)
    <2>1. stage[c] = IF Op(c) = "createAll" THEN "insert" ELSE "look"
      BY DEF RecordsInit, Op
    <2>2. HoldInv(c)
      BY <1>1, <2>1 DEF HoldInv, RecordsInit, Over
    <2>3. CASE Op(c) = "createAll"
      <3>1. Behind(c) = {}
        BY <1>1, <1>3, CallTyped DEF Behind
      <3>2. Given(c, Behind(c)) = {}
        BY <3>1 DEF Given
      <3>3. next[c] = 0 * ChunkSize + 1 /\ 0 < next[c] /\ next[c] <= Len(call[c].keys)
        BY <1>1, <1>3, CallTyped, RecordsAssumption
      <3>4. ChunksInv(c)
        BY <1>1, <1>2, <2>1, <2>3, <3>2, <3>3 DEF ChunksInv, Over
      <3> QED
        BY <2>2, <2>3, <3>4 DEF CallInv
    <2>4. CASE Op(c) # "createAll"
      <3>1. result[c].created = FALSE
        BY DEF RecordsInit, NoResult
      <3>2. SingleInv(c)
        BY <1>1, <1>2, <2>1, <2>4, <3>1 DEF SingleInv, Over
      <3> QED
        BY <2>2, <2>4, <3>2 DEF CallInv
    <2> QED
      BY <2>3, <2>4
  <1>5. \A k \in UniqueKeys : CountInv(k)
    BY DEF RecordsInit, CountInv
  <1> QED
    BY <1>3, <1>4, <1>5 DEF RecordsInv

(* What a call is asked for does not change.                               *)
LEMMA SameCall ==
    ASSUME UNCHANGED call, NEW c \in Processes
    PROVE  /\ Op(c)' = Op(c) /\ InTx(c)' = InTx(c) /\ KeyOf(c)' = KeyOf(c)
  BY DEF Op, InTx, KeyOf

(* A call that waits keeps its invariant while another moves: its rows     *)
(* stay, and the others are deleted by somebody who is counted.            *)
LEMMA OthersKeep ==
    ASSUME RecordsInv, NEW c \in Processes, UNCHANGED call,
           stage'[c] = stage[c], next'[c] = next[c], result'[c] = result[c],
           aborted'[c] = aborted[c], pending'[c] = pending[c],
           \A d \in Processes \ {c} : Holds(c) \cap Holds(d)' = {},
           \A k \in Holds(c) : stored'[k] = stored[k],
           \A k \in UniqueKeys : deletes'[k] = 0 =>
             deletes[k] = 0 /\ (stored[k] # Absent => stored'[k] # Absent),
           \A k \in UniqueKeys : Made(c, k)' <=> Made(c, k)
    PROVE  CallInv(c)'
  <1>1. RecordTypes /\ CallInv(c) /\ KeyOf(c) \in UniqueKeys
    BY CallTyped DEF RecordsInv
  <1>2. /\ Op(c)' = Op(c) /\ InTx(c)' = InTx(c) /\ KeyOf(c)' = KeyOf(c)
        /\ Holds(c)' = Holds(c) /\ Over(c)' = Over(c)
    BY SameCall DEF Holds, Over
  <1>3. HoldInv(c)'
    BY <1>1, <1>2 DEF CallInv, HoldInv
  <1>4. CASE Op(c) = "createAll"
    <2>1. ChunksInv(c)
      BY <1>1, <1>4 DEF CallInv
    <2>2. Behind(c)' = Behind(c)
      BY DEF Behind
    <2>3. Given(c, Behind(c))' = Given(c, Behind(c))
      BY <2>2 DEF Given
    <2>4. ChunksInv(c)'
      BY <1>1, <1>2, <2>1, <2>3 DEF ChunksInv
    <2> QED
      BY <1>2, <1>3, <1>4, <2>4 DEF CallInv
  <1>5. CASE Op(c) # "createAll"
    <2>1. SingleInv(c)
      BY <1>1, <1>5 DEF CallInv
    <2>2. \A k \in UniqueKeys :
             Made(c, k)' <=> (k = KeyOf(c)' /\ Over(c)' /\ result'[c].created)
      BY <1>2, <2>1 DEF SingleInv
    <2>3. SingleInv(c)'
      BY <1>1, <1>2, <2>1, <2>2 DEF SingleInv
    <2> QED
      BY <1>2, <1>3, <1>5, <2>3 DEF CallInv
  <1> QED
    BY <1>4, <1>5

(* A step that only moves the call itself.                                 *)
LEMMA OnlyCallKeeps ==
    ASSUME RecordsInv, NEW c \in Processes, OnlyCall, UNCHANGED next,
           NEW place \in {"look", "insert", "again", "update", "end", "over"},
           stage' = [stage EXCEPT ![c] = place],
           result' \in [Processes -> [ok : BOOLEAN, created : BOOLEAN]],
           aborted' \in [Processes -> BOOLEAN],
           \A d \in Processes \ {c} : result'[d] = result[d] /\ aborted'[d] = aborted[d],
           CallInv(c)'
    PROVE  RecordsInv'
  <1>1. RecordTypes
    BY DEF RecordsInv
  <1>2. RecordTypes'
    BY <1>1 DEF RecordTypes, OnlyCall, Holds
  <1>3. \A d \in Processes, k \in UniqueKeys : Made(d, k)' <=> Made(d, k)
    BY DEF Made, OnlyCall
  <1>4. ASSUME NEW d \in Processes \ {c} PROVE CallInv(d)'
    <2>1. stage'[d] = stage[d]
      BY <1>1 DEF RecordTypes
    <2>2. \A e \in Processes \ {d} : Holds(d) \cap Holds(e)' = {}
      BY DEF RecordsInv, CallInv, HoldInv, Holds, OnlyCall
    <2> QED
      BY <1>3, <2>1, <2>2, OthersKeep DEF OnlyCall
  <1>5. \A k \in UniqueKeys : CountInv(k)'
    BY DEF RecordsInv, CountInv, OnlyCall
  <1> QED
    BY <1>2, <1>4, <1>5 DEF RecordsInv

LEMMA EndsIs ==
    ASSUME RecordTypes, NEW c \in Processes, NEW ok \in BOOLEAN, NEW created \in BOOLEAN,
           Ends(c, ok, created)
    PROVE  /\ stage' = [stage EXCEPT ![c] = IF InTx(c) THEN "end" ELSE "over"]
           /\ stage'[c] = IF InTx(c) THEN "end" ELSE "over"
           /\ result' \in [Processes -> [ok : BOOLEAN, created : BOOLEAN]]
           /\ result'[c].ok = ok /\ result'[c].created = created
           /\ \A d \in Processes \ {c} : stage'[d] = stage[d] /\ result'[d] = result[d]
  BY DEF Ends, RecordTypes

(* A call about one row ends without having inserted it.                   *)
LEMMA SingleEnds ==
    ASSUME RecordsInv, NEW c \in Processes, Op(c) # "createAll", OnlyCall, UNCHANGED next,
           Holds(c) = {}, ~Over(c), NEW ok \in BOOLEAN, Ends(c, ok, FALSE),
           aborted' \in [Processes -> BOOLEAN], aborted'[c] => InTx(c),
           \A d \in Processes \ {c} : aborted'[d] = aborted[d],
           deletes[KeyOf(c)] = 0 =>
             /\ ok \/ ~InTx(c) => stored[KeyOf(c)] # Absent
             /\ Op(c) \in DOMAIN Recovered /\ ~InTx(c) => ok
    PROVE  RecordsInv'
  <1>1. RecordTypes /\ CallInv(c) /\ KeyOf(c) \in UniqueKeys /\ InTx(c) \in BOOLEAN
    BY CallTyped DEF RecordsInv
  <1>2. /\ stage' = [stage EXCEPT ![c] = IF InTx(c) THEN "end" ELSE "over"]
        /\ stage'[c] = IF InTx(c) THEN "end" ELSE "over"
        /\ result' \in [Processes -> [ok : BOOLEAN, created : BOOLEAN]]
        /\ result'[c].ok = ok /\ result'[c].created = FALSE
        /\ \A d \in Processes \ {c} : stage'[d] = stage[d] /\ result'[d] = result[d]
    BY <1>1, EndsIs
  <1>3. /\ Op(c)' = Op(c) /\ InTx(c)' = InTx(c) /\ KeyOf(c)' = KeyOf(c) /\ UNCHANGED call
        /\ UNCHANGED <<stored, deletes>> /\ \A d : Holds(d)' = Holds(d)
    BY SameCall DEF OnlyCall, Holds
  <1>4. HoldInv(c)'
    BY <1>1, <1>2, <1>3 DEF CallInv, HoldInv, Over
  <1>5. \A k \in UniqueKeys : ~Made(c, k)'
    BY <1>1 DEF CallInv, SingleInv, Made, OnlyCall
  <1>6. SingleInv(c)'
    BY <1>1, <1>2, <1>3, <1>5 DEF SingleInv, Over
  <1>7. CallInv(c)'
    BY <1>3, <1>4, <1>6 DEF CallInv
  <1> QED
    BY <1>1, <1>2, <1>7, OnlyCallKeeps

(* It goes on: to its INSERT, or with a row that it has seen.              *)
LEMMA SingleGoesOn ==
    ASSUME RecordsInv, NEW c \in Processes, Op(c) # "createAll", OnlyCall, UNCHANGED next,
           Holds(c) = {}, stage[c] \in {"look", "insert", "again", "update"},
           NEW place \in {"insert", "again", "update"}, Continue(c, place),
           aborted' \in [Processes -> BOOLEAN], aborted'[c] => InTx(c),
           \A d \in Processes \ {c} : aborted'[d] = aborted[d],
           deletes[KeyOf(c)] = 0 /\ place # "insert" => stored[KeyOf(c)] # Absent
    PROVE  RecordsInv'
  <1>1. RecordTypes /\ CallInv(c) /\ KeyOf(c) \in UniqueKeys /\ InTx(c) \in BOOLEAN
    BY CallTyped DEF RecordsInv
  <1>2. /\ stage' = [stage EXCEPT ![c] = place] /\ stage'[c] = place /\ UNCHANGED result
        /\ \A d \in Processes \ {c} : stage'[d] = stage[d]
    BY <1>1 DEF Continue, RecordTypes
  <1>3. /\ Op(c)' = Op(c) /\ InTx(c)' = InTx(c) /\ KeyOf(c)' = KeyOf(c) /\ UNCHANGED call
        /\ UNCHANGED <<stored, deletes>> /\ \A d : Holds(d)' = Holds(d)
    BY SameCall DEF OnlyCall, Holds
  <1>4. HoldInv(c)'
    BY <1>1, <1>2, <1>3 DEF CallInv, HoldInv, Over
  <1>5. \A k \in UniqueKeys : ~Made(c, k)'
    BY <1>1 DEF CallInv, SingleInv, Made, OnlyCall, Over
  <1>6. SingleInv(c)'
    BY <1>1, <1>2, <1>3, <1>5 DEF CallInv, SingleInv, Over
  <1>7. CallInv(c)'
    BY <1>3, <1>4, <1>6 DEF CallInv
  <1> QED
    BY <1>1, <1>2, <1>7, OnlyCallKeeps DEF RecordTypes

(* CreateAll gives up at a chunk: those before it are in the table, or     *)
(* still in the transaction that is to be rolled back.                     *)
LEMMA ChunksEnd ==
    ASSUME RecordsInv, NEW c \in Processes, Op(c) = "createAll", OnlyCall, UNCHANGED next,
           stage[c] = "insert", Ends(c, FALSE, FALSE),
           aborted' \in [Processes -> BOOLEAN], aborted'[c] => InTx(c),
           \A d \in Processes \ {c} : aborted'[d] = aborted[d]
    PROVE  RecordsInv'
  <1>1. RecordTypes /\ CallInv(c) /\ InTx(c) \in BOOLEAN
    BY CallTyped DEF RecordsInv
  <1>2. /\ stage' = [stage EXCEPT ![c] = IF InTx(c) THEN "end" ELSE "over"]
        /\ stage'[c] = IF InTx(c) THEN "end" ELSE "over"
        /\ result' \in [Processes -> [ok : BOOLEAN, created : BOOLEAN]]
        /\ result'[c].ok = FALSE /\ result'[c].created = FALSE
        /\ \A d \in Processes \ {c} : stage'[d] = stage[d] /\ result'[d] = result[d]
    BY <1>1, EndsIs
  <1>3. /\ Op(c)' = Op(c) /\ InTx(c)' = InTx(c) /\ UNCHANGED call
        /\ UNCHANGED <<stored, deletes>> /\ \A d : Holds(d)' = Holds(d)
        /\ \A k : Made(c, k)' <=> Made(c, k)
    BY SameCall DEF OnlyCall, Holds, Made
  <1>4. Behind(c)' = Behind(c)
    BY <1>3 DEF Behind
  <1>5. Given(c, Behind(c))' = Given(c, Behind(c))
    BY <1>3, <1>4 DEF Given
  <1>6. HoldInv(c)'
    BY <1>1, <1>2, <1>3 DEF CallInv, HoldInv, Over
  <1>7. ChunksInv(c)
    BY <1>1 DEF CallInv
  <1>8. next[c] \in Nat /\ Len(call[c].keys) \in Nat /\ next[c] <= Len(call[c].keys)
    BY <1>1, <1>7, CallTyped DEF RecordTypes, ChunksInv
  <1>9. result'[c].ok = (next[c] > Len(call[c].keys))
    BY <1>2, <1>8
  <1>10. ChunksInv(c)'
    BY <1>2, <1>3, <1>5, <1>7, <1>9 DEF ChunksInv, Over
  <1>11. CallInv(c)'
    BY <1>3, <1>6, <1>10 DEF CallInv
  <1> QED
    BY <1>1, <1>2, <1>11, OnlyCallKeeps

LEMMA SeesIs ==
    ASSUME NEW c, NEW k
    PROVE  /\ Sees(c, k) <=> k \in Holds(c) \/ stored[k] # Absent
           /\ \A d : HeldBy(k, d) <=> k \in Holds(d)
  BY DEF Sees, HeldBy, Holds

LEMMA LookKeeps ==
    ASSUME RecordsInv, NEW c \in Processes, Look(c)
    PROVE  RecordsInv'
  <1>1. RecordTypes /\ CallInv(c) /\ stage[c] = "look" /\ OnlyCall /\ UNCHANGED <<next, aborted>>
    BY DEF RecordsInv, Look
  <1>2. Op(c) # "createAll"
    BY <1>1 DEF CallInv, ChunksInv
  <1>3. Holds(c) = {} /\ (Sees(c, KeyOf(c)) <=> stored[KeyOf(c)] # Absent) /\ ~Over(c)
    BY <1>1, <1>2, SeesIs DEF CallInv, SingleInv, Over
  <1>4. /\ aborted' \in [Processes -> BOOLEAN] /\ (aborted'[c] => InTx(c))
        /\ \A d \in Processes \ {c} : aborted'[d] = aborted[d]
    BY <1>1 DEF RecordTypes, CallInv, HoldInv
  <1>5. CASE ~Sees(c, KeyOf(c))
    <2>1. Continue(c, "insert")
      BY <1>5 DEF Look
    <2> QED
      BY <1>1, <1>2, <1>3, <1>4, <2>1, SingleGoesOn
  <1>6. CASE Sees(c, KeyOf(c))
    <2>1. CASE Op(c) = "updateOrCreate"
      <3>1. Continue(c, "update")
        BY <1>6, <2>1 DEF Look
      <3> QED
        BY <1>1, <1>2, <1>3, <1>4, <1>6, <3>1, SingleGoesOn
    <2>2. CASE Op(c) \in {"getOrCreate", "ensureSuperuser"}
      <3>1. Ends(c, TRUE, FALSE)
        BY <1>6, <2>2 DEF Look
      <3> QED
        BY <1>1, <1>2, <1>3, <1>4, <1>6, <3>1, SingleEnds
    <2>3. CASE Op(c) = "createUser"
      <3>1. Ends(c, FALSE, FALSE)
        BY <1>6, <2>3 DEF Look
      <3>2. Op(c) \notin DOMAIN Recovered
        BY <2>3 DEF Recovered
      <3> QED
        BY <1>1, <1>2, <1>3, <1>4, <1>6, <3>1, <3>2, SingleEnds
    <2> QED
      BY <1>1, <1>2, <2>1, <2>2, <2>3, CallTyped
  <1> QED
    BY <1>5, <1>6

LEMMA LookAgainKeeps ==
    ASSUME RecordsInv, NEW c \in Processes, LookAgain(c)
    PROVE  RecordsInv'
  <1> DEFINE ok == ~aborted[c] /\ Sees(c, KeyOf(c))
  <1>1. /\ RecordTypes /\ CallInv(c) /\ stage[c] = "again" /\ OnlyCall
        /\ UNCHANGED <<next, aborted>> /\ Ends(c, ok, FALSE)
    BY DEF RecordsInv, LookAgain
  <1>2. Op(c) # "createAll"
    BY <1>1 DEF CallInv, ChunksInv
  <1>3. /\ Holds(c) = {} /\ (Sees(c, KeyOf(c)) <=> stored[KeyOf(c)] # Absent) /\ ~Over(c)
        /\ deletes[KeyOf(c)] = 0 => stored[KeyOf(c)] # Absent
        /\ ~InTx(c) => ~aborted[c]
    BY <1>1, <1>2, SeesIs DEF CallInv, SingleInv, HoldInv, Over
  <1>4. /\ aborted' \in [Processes -> BOOLEAN] /\ (aborted'[c] => InTx(c))
        /\ \A d \in Processes \ {c} : aborted'[d] = aborted[d]
    BY <1>1 DEF RecordTypes, CallInv, HoldInv
  <1>5. ok \in BOOLEAN
    OBVIOUS
  <1>6. deletes[KeyOf(c)] = 0 => /\ ok \/ ~InTx(c) => stored[KeyOf(c)] # Absent
                                 /\ Op(c) \in DOMAIN Recovered /\ ~InTx(c) => ok
    BY <1>3
  <1> HIDE DEF ok
  <1> QED
    BY <1>1, <1>2, <1>3, <1>4, <1>5, <1>6, SingleEnds

LEMMA ViolatesKeeps ==
    ASSUME RecordsInv, NEW c \in Processes, InsertViolates(c)
    PROVE  RecordsInv'
  <1>1. /\ RecordTypes /\ CallInv(c) /\ stage[c] = "insert" /\ OnlyCall /\ UNCHANGED next
        /\ aborted' = [aborted EXCEPT ![c] = InTx(c)] /\ Violates(c, Chunk(c))
        /\ InTx(c) \in BOOLEAN
    BY CallTyped DEF RecordsInv, InsertViolates
  <1>2. /\ aborted' \in [Processes -> BOOLEAN] /\ (aborted'[c] => InTx(c))
        /\ \A d \in Processes \ {c} : aborted'[d] = aborted[d]
    BY <1>1 DEF RecordTypes
  <1>3. CASE Op(c) = "createAll"
    <2>1. Ends(c, FALSE, FALSE)
      BY <1>3 DEF InsertViolates, Recovery, Recovered
    <2> QED
      BY <1>1, <1>2, <1>3, <2>1, ChunksEnd
  <1>4. CASE Op(c) # "createAll"
    <2>1. Holds(c) = {} /\ ~Over(c)
      BY <1>1, <1>4 DEF CallInv, SingleInv, Over
    <2>2. stored[KeyOf(c)] # Absent
      BY <1>1, <1>4, <2>1, SeesIs DEF Violates, Chunk
    <2>3. CASE Op(c) \in DOMAIN Recovery
      <3>1. Continue(c, Recovery[Op(c)]) /\ Recovery[Op(c)] \in {"again", "update"}
        BY <2>3 DEF InsertViolates, Recovery, Recovered
      <3> QED
        BY <1>1, <1>2, <1>4, <2>1, <2>2, <3>1, SingleGoesOn
    <2>4. CASE Op(c) \notin DOMAIN Recovery
      <3>1. Ends(c, FALSE, FALSE) /\ Op(c) \notin DOMAIN Recovered
        BY <2>4 DEF InsertViolates, Recovery
      <3> QED
        BY <1>1, <1>2, <1>4, <2>1, <2>2, <3>1, SingleEnds
    <2> QED
      BY <2>3, <2>4
  <1> QED
    BY <1>3, <1>4

(* Only a transaction of CreateAll holds rows while it waits for others.   *)
LEMMA DeadlockKeeps ==
    ASSUME RecordsInv, NEW c \in Processes, DeadlockDetected(c)
    PROVE  RecordsInv'
  <1>1. /\ RecordTypes /\ CallInv(c) /\ OnlyCall /\ UNCHANGED next /\ Ends(c, FALSE, FALSE)
        /\ aborted' = [aborted EXCEPT ![c] = InTx(c)] /\ InTx(c) \in BOOLEAN
    BY CallTyped DEF RecordsInv, DeadlockDetected
  <1>2. /\ aborted' \in [Processes -> BOOLEAN] /\ (aborted'[c] => InTx(c))
        /\ \A d \in Processes \ {c} : aborted'[d] = aborted[d]
    BY <1>1 DEF RecordTypes
  <1>3. stage[c] \in {"insert", "update"} /\ Holds(c) # {}
    BY SeesIs DEF DeadlockDetected, WaitsFor
  <1>4. Op(c) = "createAll"
    BY <1>1, <1>3 DEF CallInv, SingleInv
  <1>5. stage[c] = "insert"
    BY <1>1, <1>3, <1>4 DEF CallInv, ChunksInv
  <1> QED
    BY <1>1, <1>2, <1>4, <1>5, ChunksEnd

-----------------------------------------------------------------------------
(* What is written, for good or for a transaction.                         *)
LEMMA AppendedMade ==
    ASSUME NEW s \in Seq(Processes), NEW c \in Processes
    PROVE  /\ Append(s, c) \in Seq(Processes) /\ Len(Append(s, c)) = Len(s) + 1
           /\ \A d : (\E i \in DOMAIN Append(s, c) : Append(s, c)[i] = d)
                       <=> (\E i \in DOMAIN s : s[i] = d) \/ d = c
  <1>1. /\ Len(s) \in Nat /\ DOMAIN s = 1..Len(s) /\ DOMAIN Append(s, c) = 1..Len(s) + 1
        /\ \A i \in 1..Len(s) : Append(s, c)[i] = s[i]
        /\ Append(s, c)[Len(s) + 1] = c
    OBVIOUS
  <1>2. ASSUME NEW d PROVE (\E i \in DOMAIN Append(s, c) : Append(s, c)[i] = d)
                              <=> (\E i \in DOMAIN s : s[i] = d) \/ d = c
    <2>1. ASSUME NEW i \in DOMAIN Append(s, c), Append(s, c)[i] = d
          PROVE  (\E j \in DOMAIN s : s[j] = d) \/ d = c
      <3>1. CASE i \in 1..Len(s)
        BY <1>1, <2>1, <3>1
      <3>2. CASE i = Len(s) + 1
        BY <1>1, <2>1, <3>2
      <3> QED
        BY <1>1, <3>1, <3>2
    <2>2. ASSUME NEW j \in DOMAIN s, s[j] = d
          PROVE  \E i \in DOMAIN Append(s, c) : Append(s, c)[i] = d
      BY <1>1, <2>2
    <2>3. ASSUME d = c PROVE \E i \in DOMAIN Append(s, c) : Append(s, c)[i] = d
      <3>1. Len(s) + 1 \in DOMAIN Append(s, c)
        BY <1>1
      <3> QED
        BY <1>1, <2>3, <3>1
    <2> QED
      BY <2>1, <2>2, <2>3
  <1> QED
    BY <1>1, <1>2

(* The keys in new get an entry that c has inserted them.                  *)
LEMMA InsertsAre ==
    ASSUME RecordTypes, NEW c \in Processes, NEW new,
           inserts' = [k \in UniqueKeys |-> IF k \in new THEN Append(inserts[k], c)
                                            ELSE inserts[k]]
    PROVE  /\ inserts' \in [UniqueKeys -> Seq(Processes)]
           /\ \A d \in Processes, k \in UniqueKeys :
                Made(d, k)' <=> Made(d, k) \/ (d = c /\ k \in new)
           /\ \A k \in UniqueKeys :
                Len(inserts'[k]) = IF k \in new THEN Len(inserts[k]) + 1 ELSE Len(inserts[k])
  <1>1. \A k \in UniqueKeys : inserts[k] \in Seq(Processes)
    BY DEF RecordTypes
  <1>2. \A k \in UniqueKeys :
           inserts'[k] = IF k \in new THEN Append(inserts[k], c) ELSE inserts[k]
    OBVIOUS
  <1>3. ASSUME NEW k \in UniqueKeys
        PROVE  /\ inserts'[k] \in Seq(Processes)
               /\ \A d \in Processes : Made(d, k)' <=> Made(d, k) \/ (d = c /\ k \in new)
               /\ Len(inserts'[k]) = IF k \in new THEN Len(inserts[k]) + 1 ELSE Len(inserts[k])
    <2>1. CASE k \in new
      <3>1. inserts'[k] = Append(inserts[k], c) /\ inserts[k] \in Seq(Processes)
        BY <1>1, <1>2, <2>1
      <3>2. \A d \in Processes : Made(d, k)' <=> Made(d, k) \/ d = c
        BY <3>1, AppendedMade DEF Made
      <3> QED
        BY <2>1, <3>1, <3>2, AppendedMade
    <2>2. CASE k \notin new
      BY <1>1, <1>2, <2>2 DEF Made
    <2> QED
      BY <2>1, <2>2
  <1> QED
    BY <1>3

LEMMA WriteIs ==
    ASSUME RecordTypes, NEW c \in Processes, NEW S \in SUBSET UniqueKeys, NEW new \in SUBSET S,
           Write(c, [k \in S |-> c], new)
    PROVE  /\ stored' \in [UniqueKeys -> Processes \cup {Absent}]
           /\ inserts' \in [UniqueKeys -> Seq(Processes)]
           /\ DOMAIN pending' = Processes
           /\ \A d \in Processes : Holds(d)' \subseteq UniqueKeys
                                   /\ pending'[d] \in [Holds(d)' -> Processes]
           /\ \A d \in Processes \ {c} : pending'[d] = pending[d]
           /\ InTx(c) => /\ UNCHANGED <<stored, inserts>>
                         /\ Holds(c)' = S \cup Holds(c)
           /\ ~InTx(c) =>
                /\ UNCHANGED pending
                /\ \A k \in UniqueKeys : stored'[k] = IF k \in S THEN c ELSE stored[k]
                /\ \A d \in Processes, k \in UniqueKeys :
                     Made(d, k)' <=> Made(d, k) \/ (d = c /\ k \in new)
                /\ \A k \in UniqueKeys :
                     Len(inserts'[k]) = IF k \in new THEN Len(inserts[k]) + 1
                                        ELSE Len(inserts[k])
  <1> DEFINE written == [k \in S |-> c]
  <1>1. DOMAIN written = S /\ \A k \in S : written[k] = c
    OBVIOUS
  <1>2. CASE InTx(c)
    <2>1. /\ pending' = [pending EXCEPT ![c] = Written(written, pending[c])]
          /\ UNCHANGED <<stored, inserts>>
      BY <1>2 DEF Write
    <2> HIDE DEF written
    <2> DEFINE both == Written(written, pending[c])
    <2>2. /\ DOMAIN both = S \cup Holds(c)
          /\ \A k \in DOMAIN both : both[k] = IF k \in S THEN c ELSE pending[c][k]
          /\ both = [k \in DOMAIN both |-> both[k]]
      BY <1>1 DEF Written, Holds
    <2>3. both \in [S \cup Holds(c) -> Processes]
      BY <2>2 DEF RecordTypes
    <2> HIDE DEF both
    <2>4. pending'[c] = both /\ DOMAIN pending' = Processes
          /\ \A d \in Processes \ {c} : pending'[d] = pending[d]
      BY <2>1 DEF RecordTypes, both
    <2>5. Holds(c)' = S \cup Holds(c) /\ \A d \in Processes \ {c} : Holds(d)' = Holds(d)
      BY <2>2, <2>4 DEF Holds
    <2>6. ASSUME NEW d \in Processes
          PROVE  Holds(d)' \subseteq UniqueKeys /\ pending'[d] \in [Holds(d)' -> Processes]
      <3>1. Holds(d) \subseteq UniqueKeys /\ pending[d] \in [Holds(d) -> Processes]
        BY DEF RecordTypes
      <3>2. CASE d = c
        BY <2>3, <2>4, <2>5, <3>1, <3>2
      <3>3. CASE d # c
        BY <2>4, <2>5, <3>1, <3>3
      <3> QED
        BY <3>2, <3>3
    <2> QED
      BY <1>2, <2>1, <2>4, <2>5, <2>6 DEF RecordTypes
  <1>3. CASE ~InTx(c)
    <2>1. /\ stored' = Written(written, stored) /\ UNCHANGED pending
          /\ inserts' = [k \in UniqueKeys |-> IF k \in new THEN Append(inserts[k], c)
                                              ELSE inserts[k]]
      BY <1>3 DEF Write
    <2> HIDE DEF written
    <2>2. /\ DOMAIN stored' = UniqueKeys
          /\ \A k \in UniqueKeys : stored'[k] = IF k \in S THEN c ELSE stored[k]
          /\ stored' = [k \in UniqueKeys |-> stored'[k]]
      BY <1>1, <2>1 DEF Written, RecordTypes
    <2>3. stored' \in [UniqueKeys -> Processes \cup {Absent}]
      BY <2>2 DEF RecordTypes
    <2>4. /\ inserts' \in [UniqueKeys -> Seq(Processes)]
          /\ \A d \in Processes, k \in UniqueKeys :
               Made(d, k)' <=> Made(d, k) \/ (d = c /\ k \in new)
          /\ \A k \in UniqueKeys :
               Len(inserts'[k]) = IF k \in new THEN Len(inserts[k]) + 1 ELSE Len(inserts[k])
      BY <2>1, InsertsAre
    <2>5. /\ DOMAIN pending' = Processes
          /\ \A d \in Processes : Holds(d)' \subseteq UniqueKeys
                                  /\ pending'[d] \in [Holds(d)' -> Processes]
      BY <2>1 DEF RecordTypes, Holds
    <2> QED
      BY <1>3, <2>1, <2>2, <2>3, <2>4, <2>5
  <1> QED
    BY <1>2, <1>3

(* The calls that wait while rows that are free are written.               *)
LEMMA WriterSpares ==
    ASSUME RecordsInv, NEW c \in Processes, NEW S \in SUBSET UniqueKeys, NEW new \in SUBSET S,
           Free(c, S), Write(c, [k \in S |-> c], new), UNCHANGED <<call, deletes>>,
           NEW d \in Processes \ {c},
           stage'[d] = stage[d], next'[d] = next[d], result'[d] = result[d],
           aborted'[d] = aborted[d]
    PROVE  CallInv(d)'
  <1>1. RecordTypes /\ S \cap Holds(d) = {}
    BY SeesIs DEF RecordsInv, Free
  <1>2. /\ \A e \in Processes \ {c} : pending'[e] = pending[e]
        /\ InTx(c) => UNCHANGED <<stored, inserts>> /\ Holds(c)' = S \cup Holds(c)
        /\ ~InTx(c) =>
             /\ UNCHANGED pending
             /\ \A k \in UniqueKeys : stored'[k] = IF k \in S THEN c ELSE stored[k]
             /\ \A e \in Processes, k \in UniqueKeys :
                  Made(e, k)' <=> Made(e, k) \/ (e = c /\ k \in new)
    BY <1>1, WriteIs
  <1>3. Holds(c)' \subseteq S \cup Holds(c) /\ \A e \in Processes \ {c} : Holds(e)' = Holds(e)
    BY <1>2 DEF Holds
  <1>4. \A e \in Processes \ {d} : Holds(d) \cap Holds(e)' = {}
    <2>1. \A e \in Processes \ {d} : Holds(d) \cap Holds(e) = {}
      BY DEF RecordsInv, CallInv, HoldInv
    <2> QED
      BY <1>1, <1>3, <2>1
  <1>5. Holds(d) \subseteq UniqueKeys /\ \A k \in Holds(d) : stored'[k] = stored[k]
    BY <1>1, <1>2 DEF RecordTypes
  <1>6. \A k \in UniqueKeys : stored[k] # Absent => stored'[k] # Absent
    BY <1>2, RecordsAssumption
  <1>7. \A k \in UniqueKeys : Made(d, k)' <=> Made(d, k)
    <2>1. CASE InTx(c)
      BY <1>2, <2>1 DEF Made
    <2>2. CASE ~InTx(c)
      BY <1>2, <2>2
    <2> QED
      BY <2>1, <2>2
  <1> QED
    BY <1>2, <1>4, <1>5, <1>6, <1>7, OthersKeep

LEMMA RangeOfSubSeq ==
    ASSUME NEW S, NEW s \in Seq(S), NEW m \in Nat \ {0}, NEW n \in Nat, m <= n, n <= Len(s)
    PROVE  Range(SubSeq(s, m, n)) = {s[i] : i \in m..n}
  <1> DEFINE part == SubSeq(s, m, n)
  <1>1. /\ DOMAIN part = 1..(n - m + 1)
        /\ \A i \in 1..(n - m + 1) : part[i] = s[m + i - 1]
    OBVIOUS
  <1>2. ASSUME NEW i \in 1..(n - m + 1) PROVE part[i] \in {s[j] : j \in m..n}
    <2>1. m + i - 1 \in m..n
      OBVIOUS
    <2> QED
      BY <1>1, <2>1
  <1>3. ASSUME NEW j \in m..n PROVE s[j] \in {part[i] : i \in 1..(n - m + 1)}
    <2>1. j - m + 1 \in 1..(n - m + 1) /\ m + (j - m + 1) - 1 = j
      OBVIOUS
    <2>2. part[j - m + 1] = s[j]
      BY <1>1, <2>1
    <2> QED
      BY <2>1, <2>2
  <1> HIDE DEF part
  <1>4. Range(part) = {part[i] : i \in 1..(n - m + 1)}
    BY <1>1 DEF Range
  <1>5. Range(part) = {s[j] : j \in m..n}
    BY <1>2, <1>3, <1>4
  <1> QED
    BY <1>5 DEF part

(* The rows of the next chunk are those that it takes from what is left.   *)
LEMMA ChunkIs ==
    ASSUME RecordTypes, NEW c \in Processes
    PROVE  /\ Op(c) # "createAll" => Chunk(c) = {KeyOf(c)}
           /\ Op(c) = "createAll" /\ next[c] >= 1 /\ next[c] <= Len(call[c].keys) =>
                Chunk(c) = Given(c, {i \in DOMAIN call[c].keys :
                                       next[c] <= i /\ i < next[c] + ChunkSize})
  <1>1. Op(c) # "createAll" => Chunk(c) = {KeyOf(c)}
    BY DEF Chunk
  <1>2. ASSUME Op(c) = "createAll", next[c] >= 1, next[c] <= Len(call[c].keys)
        PROVE  Chunk(c) = Given(c, {i \in DOMAIN call[c].keys :
                                      next[c] <= i /\ i < next[c] + ChunkSize})
    <2> DEFINE keys == call[c].keys
               size == Len(keys)
               last == IF next[c] + ChunkSize - 1 <= size THEN next[c] + ChunkSize - 1 ELSE size
    <2>1. /\ keys \in Seq(UniqueKeys) /\ size \in Nat /\ DOMAIN keys = 1..size
          /\ next[c] \in Nat \ {0} /\ next[c] <= size
          /\ ChunkSize \in Nat \ {0}
      <3>1. keys \in Seq(UniqueKeys)
        BY CallTyped
      <3>2. next[c] \in Nat
        BY DEF RecordTypes
      <3>3. ChunkSize \in Nat \ {0}
        BY RecordsAssumption
      <3>4. size \in Nat /\ DOMAIN keys = 1..size
        BY <3>1
      <3> HIDE DEF keys, size
      <3> QED
        BY <1>2, <3>1, <3>2, <3>3, <3>4 DEF keys, size
    <2>2. Min({next[c] + ChunkSize - 1, size}) = last
      BY <2>1 DEF Min
    <2>3. last \in Nat /\ next[c] <= last /\ last <= size
      BY <2>1
    <2>4. next[c]..last = {i \in 1..size : next[c] <= i /\ i < next[c] + ChunkSize}
      BY <2>1, <2>3
    <2>5. Chunk(c) = Range(SubSeq(keys, next[c], last))
      BY <1>2, <2>2 DEF Chunk
    <2> HIDE DEF keys, size, last
    <2>6. Chunk(c) = {keys[i] : i \in next[c]..last}
      BY <2>1, <2>3, <2>5, RangeOfSubSeq DEF size
    <2> QED
      BY <2>1, <2>4, <2>6 DEF Given, keys
  <1> QED
    BY <1>1, <1>2

(* A call that writes free rows, each with its entry if it is a new one.   *)
LEMMA WriteKeeps ==
    ASSUME RecordsInv, NEW c \in Processes, NEW S \in SUBSET UniqueKeys, NEW new \in SUBSET S,
           Free(c, S), Write(c, [k \in S |-> c], new), UNCHANGED <<call, deletes, aborted>>,
           stage' \in [Processes -> {"look", "insert", "again", "update", "end", "over"}],
           next' \in [Processes -> Nat],
           result' \in [Processes -> [ok : BOOLEAN, created : BOOLEAN]],
           \A d \in Processes \ {c} :
             stage'[d] = stage[d] /\ next'[d] = next[d] /\ result'[d] = result[d],
           \A k \in S : k \in new <=> stored[k] = Absent,
           CallInv(c)'
    PROVE  RecordsInv'
  <1>1. RecordTypes
    BY DEF RecordsInv
  <1>2. /\ stored' \in [UniqueKeys -> Processes \cup {Absent}]
        /\ inserts' \in [UniqueKeys -> Seq(Processes)]
        /\ DOMAIN pending' = Processes
        /\ \A d \in Processes : Holds(d)' \subseteq UniqueKeys
                                /\ pending'[d] \in [Holds(d)' -> Processes]
        /\ InTx(c) => UNCHANGED <<stored, inserts>>
        /\ ~InTx(c) =>
             /\ \A k \in UniqueKeys : stored'[k] = IF k \in S THEN c ELSE stored[k]
             /\ \A k \in UniqueKeys :
                  Len(inserts'[k]) = IF k \in new THEN Len(inserts[k]) + 1 ELSE Len(inserts[k])
    BY <1>1, WriteIs
  <1>3. RecordTypes'
    BY <1>1, <1>2 DEF RecordTypes
  <1>4. ASSUME NEW d \in Processes \ {c} PROVE CallInv(d)'
    BY WriterSpares
  <1>5. ASSUME NEW k \in UniqueKeys PROVE CountInv(k)'
    <2>1. CountInv(k) /\ Len(inserts[k]) \in Nat /\ deletes[k] \in Nat /\ deletes'[k] = deletes[k]
      BY <1>1 DEF RecordsInv, RecordTypes
    <2>2. CASE InTx(c)
      BY <1>2, <2>1, <2>2 DEF CountInv
    <2>3. CASE ~InTx(c)
      <3>1. /\ stored'[k] = IF k \in S THEN c ELSE stored[k]
            /\ Len(inserts'[k]) = IF k \in new THEN Len(inserts[k]) + 1 ELSE Len(inserts[k])
            /\ c # Absent
        BY <1>2, <2>3, RecordsAssumption
      <3> QED
        BY <2>1, <3>1 DEF CountInv
    <2> QED
      BY <2>2, <2>3
  <1> QED
    BY <1>3, <1>4, <1>5 DEF RecordsInv

LEMMA InsertedKeeps ==
    ASSUME RecordsInv, NEW c \in Processes, Inserted(c)
    PROVE  RecordsInv'
  <1> DEFINE S == Chunk(c)
  <1>1. /\ RecordTypes /\ CallInv(c) /\ stage[c] = "insert" /\ Free(c, S) /\ ~Violates(c, S)
        /\ Write(c, [k \in S |-> c], S) /\ UNCHANGED <<call, deletes, aborted>>
        /\ KeyOf(c) \in UniqueKeys /\ InTx(c) \in BOOLEAN
        /\ Len(call[c].keys) \in Nat \ {0} /\ DOMAIN call[c].keys = 1..Len(call[c].keys)
        /\ \A i \in DOMAIN call[c].keys : call[c].keys[i] \in UniqueKeys
        /\ ChunkSize \in Nat \ {0} /\ c # Absent
    BY CallTyped, RecordsAssumption DEF RecordsInv, Inserted
  <1>2. \A k \in S : stored[k] = Absent /\ k \notin Holds(c)
    BY <1>1, SeesIs DEF Violates
  <1>3. CASE Op(c) # "createAll"
    <2>1. S = {KeyOf(c)} /\ Ends(c, TRUE, TRUE) /\ UNCHANGED next /\ S \in SUBSET UniqueKeys
      BY <1>1, <1>3, ChunkIs DEF Inserted
    <2>2. SingleInv(c) /\ HoldInv(c)
      BY <1>1, <1>3 DEF CallInv
    <2> HIDE DEF S
    <2>3. /\ stage' = [stage EXCEPT ![c] = IF InTx(c) THEN "end" ELSE "over"]
          /\ stage'[c] = IF InTx(c) THEN "end" ELSE "over"
          /\ result' \in [Processes -> [ok : BOOLEAN, created : BOOLEAN]]
          /\ result'[c].ok = TRUE /\ result'[c].created = TRUE
          /\ \A d \in Processes \ {c} : stage'[d] = stage[d] /\ result'[d] = result[d]
      BY <1>1, <2>1, EndsIs
    <2>4. /\ \A d \in Processes \ {c} : pending'[d] = pending[d]
          /\ InTx(c) => /\ UNCHANGED <<stored, inserts>>
                        /\ Holds(c)' = S \cup Holds(c)
          /\ ~InTx(c) =>
               /\ UNCHANGED pending
               /\ \A k \in UniqueKeys : stored'[k] = IF k \in S THEN c ELSE stored[k]
               /\ \A d \in Processes, k \in UniqueKeys :
                    Made(d, k)' <=> Made(d, k) \/ (d = c /\ k \in S)
      BY <1>1, <2>1, WriteIs
    <2>5. /\ Op(c)' = Op(c) /\ InTx(c)' = InTx(c) /\ KeyOf(c)' = KeyOf(c)
          /\ Holds(c) = {} /\ \A d \in Processes \ {c} : Holds(d)' = Holds(d)
      BY <1>1, <2>2, <2>4, SameCall DEF SingleInv, Holds
    <2>6. Holds(c)' = IF InTx(c) THEN S ELSE {}
      BY <2>4, <2>5 DEF Holds
    <2>7. \A d \in Processes \ {c} : S \cap Holds(d) = {}
      BY <1>1, SeesIs DEF Free
    <2>8. HoldInv(c)'
      BY <1>1, <2>2, <2>3, <2>5, <2>6, <2>7 DEF HoldInv, Over
    <2>9. \A k \in UniqueKeys : Made(c, k)' <=> (k = KeyOf(c) /\ ~InTx(c))
      <3>1. \A k \in UniqueKeys : ~Made(c, k)
        BY <1>1, <2>2 DEF SingleInv, Over
      <3>2. CASE InTx(c)
        BY <2>4, <3>1, <3>2 DEF Made
      <3>3. CASE ~InTx(c)
        BY <2>1, <2>4, <3>1, <3>3
      <3> QED
        BY <3>2, <3>3
    <2>10. stored'[KeyOf(c)] = IF InTx(c) THEN Absent ELSE c
      BY <1>1, <1>2, <2>1, <2>4
    <2>11. \A k \in UniqueKeys :
              Made(c, k)' <=> (k = KeyOf(c)' /\ Over(c)' /\ result'[c].created)
      BY <2>3, <2>5, <2>9 DEF Over
    <2>12. SingleInv(c)'
      BY <1>1, <2>1, <2>3, <2>5, <2>6, <2>10, <2>11 DEF SingleInv, Over
    <2>13. CallInv(c)'
      BY <1>3, <2>5, <2>8, <2>12 DEF CallInv
    <2>14. /\ stage' \in [Processes -> {"look", "insert", "again", "update", "end", "over"}]
           /\ next' \in [Processes -> Nat]
           /\ \A d \in Processes \ {c} :
                stage'[d] = stage[d] /\ next'[d] = next[d] /\ result'[d] = result[d]
      BY <1>1, <2>1, <2>3 DEF RecordTypes
    <2> QED
      <3>1. /\ Free(c, S) /\ Write(c, [k \in S |-> c], S) /\ S \in SUBSET UniqueKeys
            /\ S \in SUBSET S /\ UNCHANGED <<call, deletes, aborted>>
            /\ \A k \in S : k \in S <=> stored[k] = Absent
        BY <1>1, <1>2, <2>1
      <3>2. \A d \in Processes \ {c} :
               stage'[d] = stage[d] /\ next'[d] = next[d] /\ result'[d] = result[d]
        BY <2>1, <2>3
      <3>3. /\ stage' \in [Processes -> {"look", "insert", "again", "update", "end", "over"}]
            /\ next' \in [Processes -> Nat]
            /\ result' \in [Processes -> [ok : BOOLEAN, created : BOOLEAN]]
        BY <2>3, <2>14
      <3> QED
        BY <2>13, <3>1, <3>2, <3>3, WriteKeeps
  <1>4. CASE Op(c) = "createAll"
    <2>1. ChunksInv(c) /\ HoldInv(c)
      BY <1>1, <1>4 DEF CallInv
    <2>2. next[c] \in Nat /\ next[c] >= 1 /\ next[c] <= Len(call[c].keys)
      BY <1>1, <2>1, RecordsAssumption DEF ChunksInv, RecordTypes
    <2>3. S = Given(c, {i \in DOMAIN call[c].keys : next[c] <= i /\ i < next[c] + ChunkSize})
      BY <1>1, <1>4, <2>2, ChunkIs
    <2>4. S \in SUBSET UniqueKeys
      BY <1>1, <2>3 DEF Given
    <2> HIDE DEF S
    <2>5. /\ next' = [next EXCEPT ![c] = next[c] + ChunkSize]
          /\ IF next'[c] <= Len(call[c].keys) THEN Continue(c, "insert") ELSE Ends(c, TRUE, TRUE)
      BY <1>4 DEF Inserted, NextChunk
    <2>6. /\ next'[c] = next[c] + ChunkSize /\ next' \in [Processes -> Nat]
          /\ \A d \in Processes \ {c} : next'[d] = next[d]
      BY <1>1, <2>2, <2>5 DEF RecordTypes
    <2>7. /\ stage' \in [Processes -> {"look", "insert", "again", "update", "end", "over"}]
          /\ result' \in [Processes -> [ok : BOOLEAN, created : BOOLEAN]]
          /\ stage'[c] = IF next'[c] <= Len(call[c].keys) THEN "insert"
                         ELSE IF InTx(c) THEN "end" ELSE "over"
          /\ next'[c] > Len(call[c].keys) => result'[c].ok /\ result'[c].created
          /\ \A d \in Processes \ {c} : stage'[d] = stage[d] /\ result'[d] = result[d]
      <3>1. CASE next'[c] <= Len(call[c].keys)
        <4>1. stage' = [stage EXCEPT ![c] = "insert"] /\ UNCHANGED result
          BY <2>5, <3>1 DEF Continue
        <4>2. stage'[c] = "insert" /\ \A d \in Processes \ {c} : stage'[d] = stage[d]
          BY <1>1, <4>1 DEF RecordTypes
        <4>3. stage' \in [Processes -> {"look", "insert", "again", "update", "end", "over"}]
          BY <1>1, <4>1 DEF RecordTypes
        <4>4. /\ result' \in [Processes -> [ok : BOOLEAN, created : BOOLEAN]]
              /\ ~(next'[c] > Len(call[c].keys))
          BY <1>1, <2>2, <2>6, <3>1, <4>1 DEF RecordTypes
        <4> QED
          BY <3>1, <4>1, <4>2, <4>3, <4>4
      <3>2. CASE ~(next'[c] <= Len(call[c].keys))
        <4>1. Ends(c, TRUE, TRUE)
          BY <2>5, <3>2
        <4>2. /\ stage' = [stage EXCEPT ![c] = IF InTx(c) THEN "end" ELSE "over"]
              /\ stage'[c] = IF InTx(c) THEN "end" ELSE "over"
              /\ result' \in [Processes -> [ok : BOOLEAN, created : BOOLEAN]]
              /\ result'[c].ok = TRUE /\ result'[c].created = TRUE
              /\ \A d \in Processes \ {c} : stage'[d] = stage[d] /\ result'[d] = result[d]
          BY <1>1, <4>1, EndsIs
        <4>3. stage' \in [Processes -> {"look", "insert", "again", "update", "end", "over"}]
          BY <1>1, <4>2 DEF RecordTypes
        <4> QED
          BY <3>2, <4>2, <4>3
      <3> QED
        BY <3>1, <3>2
    <2>8. /\ \A d \in Processes \ {c} : pending'[d] = pending[d]
          /\ InTx(c) => /\ UNCHANGED <<stored, inserts>>
                        /\ Holds(c)' = S \cup Holds(c)
          /\ ~InTx(c) =>
               /\ UNCHANGED pending
               /\ \A k \in UniqueKeys : stored'[k] = IF k \in S THEN c ELSE stored[k]
               /\ \A d \in Processes, k \in UniqueKeys :
                    Made(d, k)' <=> Made(d, k) \/ (d = c /\ k \in S)
      BY <1>1, <2>4, WriteIs
    <2>9. /\ Op(c)' = Op(c) /\ InTx(c)' = InTx(c)
          /\ \A d \in Processes \ {c} : Holds(d)' = Holds(d)
      BY <1>1, <2>8, SameCall DEF Holds
    <2>10. Holds(c)' = IF InTx(c) THEN S \cup Holds(c) ELSE {}
      BY <2>1, <2>8 DEF HoldInv, Holds
    <2>11. \A d \in Processes \ {c} : S \cap Holds(d) = {}
      BY <1>1, SeesIs DEF Free
    <2>12. HoldInv(c)'
      <3>1. Over(c)' => ~InTx(c)
        BY <2>7 DEF Over
      <3>2. ~InTx(c) => stage'[c] # "end"
        BY <2>7
      <3>3. \A d \in Processes \ {c} : Holds(c)' \cap Holds(d)' = {}
        BY <2>1, <2>9, <2>10, <2>11 DEF HoldInv
      <3>4. aborted'[c] = aborted[c]
        BY <1>1
      <3> QED
        BY <2>1, <2>9, <2>10, <3>1, <3>2, <3>3, <3>4 DEF HoldInv
    <2>13. Given(c, Behind(c))' = Given(c, Behind(c)) \cup S
      <3>1. Behind(c)' = {i \in DOMAIN call[c].keys : i < next[c] + ChunkSize}
        BY <1>1, <2>6 DEF Behind
      <3>2. Behind(c)' = Behind(c) \cup {i \in DOMAIN call[c].keys :
                                           next[c] <= i /\ i < next[c] + ChunkSize}
        BY <1>1, <2>2, <3>1 DEF Behind
      <3> QED
        BY <1>1, <2>3, <3>2 DEF Given
    <2>14. \E m \in Nat : next'[c] = m * ChunkSize + 1 /\ m < next'[c]
      <3>1. PICK m \in Nat : next[c] = m * ChunkSize + 1 /\ m < next[c]
        BY <2>1 DEF ChunksInv
      <3>2. (m + 1) * ChunkSize = m * ChunkSize + ChunkSize
        BY <1>1
      <3>3. m + 1 \in Nat /\ next'[c] = (m + 1) * ChunkSize + 1 /\ m + 1 < next'[c]
        BY <1>1, <2>2, <2>6, <3>1, <3>2
      <3> QED
        BY <3>3
    <2>15. \A k \in Holds(c)' : stored'[k] = Absent
      BY <1>2, <2>1, <2>8, <2>10 DEF ChunksInv
    <2>16. ASSUME NEW k \in UniqueKeys
           PROVE  Made(c, k)' <=> /\ k \in Given(c, Behind(c))'
                                  /\ InTx(c) => Over(c)' /\ result'[c].ok
      <3>1. Made(c, k) <=> k \in Given(c, Behind(c)) /\ ~InTx(c)
        BY <1>1, <2>1 DEF ChunksInv, Over
      <3>2. CASE InTx(c)
        <4>1. ~Over(c)'
          BY <2>7, <3>2 DEF Over
        <4>2. Made(c, k)' <=> Made(c, k)
          BY <2>8, <3>2 DEF Made
        <4> QED
          BY <3>1, <3>2, <4>1, <4>2
      <3>3. CASE ~InTx(c)
        BY <2>8, <2>13, <3>1, <3>3
      <3> QED
        BY <3>2, <3>3
    <2>17. /\ stage'[c] \in {"insert", "end", "over"}
           /\ stage'[c] = "insert" => next'[c] <= Len(call[c].keys)
           /\ stage'[c] # "insert" =>
                result'[c].ok = (next'[c] > Len(call[c].keys)) /\ result'[c].created = result'[c].ok
      <3>1. next'[c] \in Nat /\ result'[c].ok \in BOOLEAN /\ result'[c].created \in BOOLEAN
        BY <2>6, <2>7
      <3> QED
        BY <1>1, <2>7, <3>1
    <2>18. InTx(c) /\ ~Over(c)' => Holds(c)' = Given(c, Behind(c))'
      <3>1. InTx(c) => Holds(c) = Given(c, Behind(c))
        BY <1>1, <2>1 DEF ChunksInv, Over
      <3> QED
        BY <2>10, <2>13, <3>1
    <2>19. ChunksInv(c)'
      BY <1>1, <2>9, <2>14, <2>15, <2>16, <2>17, <2>18 DEF ChunksInv
    <2>20. CallInv(c)'
      BY <1>4, <2>9, <2>12, <2>19 DEF CallInv
    <2>21. /\ Free(c, S) /\ Write(c, [k \in S |-> c], S) /\ S \in SUBSET S
           /\ UNCHANGED <<call, deletes, aborted>>
           /\ \A k \in S : k \in S <=> stored[k] = Absent
      BY <1>1, <1>2
    <2>22. \A d \in Processes \ {c} :
              stage'[d] = stage[d] /\ next'[d] = next[d] /\ result'[d] = result[d]
      BY <2>6, <2>7
    <2> QED
      BY <2>4, <2>6, <2>7, <2>20, <2>21, <2>22, WriteKeeps
  <1> QED
    BY <1>3, <1>4

LEMMA UpdateKeeps ==
    ASSUME RecordsInv, NEW c \in Processes, UpdateRow(c)
    PROVE  RecordsInv'
  <1>1. /\ RecordTypes /\ CallInv(c) /\ stage[c] = "update" /\ Free(c, {KeyOf(c)})
        /\ UNCHANGED <<call, deletes, next, aborted>>
        /\ KeyOf(c) \in UniqueKeys /\ InTx(c) \in BOOLEAN /\ c # Absent
    BY CallTyped, RecordsAssumption DEF RecordsInv, UpdateRow
  <1>2. Op(c) # "createAll"
    BY <1>1 DEF CallInv, ChunksInv
  <1>3. /\ SingleInv(c) /\ HoldInv(c) /\ Holds(c) = {} /\ ~Over(c)
        /\ (Sees(c, KeyOf(c)) <=> stored[KeyOf(c)] # Absent)
    BY <1>1, <1>2, SeesIs DEF CallInv, SingleInv, Over
  <1>4. CASE aborted[c]
    <2>1. Ends(c, FALSE, FALSE) /\ OnlyCall /\ InTx(c)
      BY <1>1, <1>3, <1>4 DEF UpdateRow, OnlyCall, HoldInv
    <2>2. /\ aborted' \in [Processes -> BOOLEAN] /\ (aborted'[c] => InTx(c))
          /\ \A d \in Processes \ {c} : aborted'[d] = aborted[d]
      BY <1>1, <2>1 DEF RecordTypes
    <2> QED
      BY <1>1, <1>2, <1>3, <2>1, <2>2, SingleEnds
  <1>5. CASE ~aborted[c]
    <2> DEFINE S == IF Sees(c, KeyOf(c)) THEN {KeyOf(c)} ELSE {}
    <2>1. /\ Ends(c, TRUE, FALSE)
          /\ Write(c, IF Sees(c, KeyOf(c)) THEN [k \in {KeyOf(c)} |-> c] ELSE NoRows, {})
      BY <1>5 DEF UpdateRow
    <2>2. Write(c, [k \in S |-> c], {})
      <3>1. NoRows = [k \in {} |-> c]
        BY DEF NoRows
      <3> QED
        BY <2>1, <3>1
    <2>3. /\ S \in SUBSET UniqueKeys /\ {} \in SUBSET S /\ Free(c, S)
          /\ \A k \in S : k = KeyOf(c) /\ stored[k] # Absent
          /\ \A k \in S : k \in {} <=> stored[k] = Absent
      BY <1>1, <1>3 DEF Free
    <2>4. stored[KeyOf(c)] # Absent => S = {KeyOf(c)}
      BY <1>3
    <2> HIDE DEF S
    <2>5. /\ stage' = [stage EXCEPT ![c] = IF InTx(c) THEN "end" ELSE "over"]
          /\ stage'[c] = IF InTx(c) THEN "end" ELSE "over"
          /\ result' \in [Processes -> [ok : BOOLEAN, created : BOOLEAN]]
          /\ result'[c].ok = TRUE /\ result'[c].created = FALSE
          /\ \A d \in Processes \ {c} : stage'[d] = stage[d] /\ result'[d] = result[d]
      BY <1>1, <2>1, EndsIs
    <2>6. /\ \A d \in Processes \ {c} : pending'[d] = pending[d]
          /\ InTx(c) => /\ UNCHANGED <<stored, inserts>>
                        /\ Holds(c)' = S \cup Holds(c)
          /\ ~InTx(c) =>
               /\ UNCHANGED pending
               /\ \A k \in UniqueKeys : stored'[k] = IF k \in S THEN c ELSE stored[k]
               /\ \A d \in Processes, k \in UniqueKeys :
                    Made(d, k)' <=> Made(d, k) \/ (d = c /\ k \in {})
      BY <1>1, <2>2, <2>3, WriteIs
    <2>7. /\ Op(c)' = Op(c) /\ InTx(c)' = InTx(c) /\ KeyOf(c)' = KeyOf(c)
          /\ \A d \in Processes \ {c} : Holds(d)' = Holds(d)
          /\ Holds(c)' = IF InTx(c) THEN S ELSE {}
      BY <1>1, <1>3, <2>6, SameCall DEF Holds
    <2>8. \A d \in Processes \ {c} : S \cap Holds(d) = {}
      BY <1>1, <2>3, SeesIs DEF Free
    <2>9. HoldInv(c)'
      BY <1>1, <1>3, <2>5, <2>7, <2>8 DEF HoldInv, Over
    <2>10. \A k \in UniqueKeys :
              Made(c, k)' <=> (k = KeyOf(c)' /\ Over(c)' /\ result'[c].created)
      <3>1. \A k \in UniqueKeys : ~Made(c, k)
        BY <1>3 DEF SingleInv
      <3>2. CASE InTx(c)
        BY <2>5, <2>6, <3>1, <3>2 DEF Made
      <3>3. CASE ~InTx(c)
        BY <2>5, <2>6, <3>1, <3>3
      <3> QED
        BY <3>2, <3>3
    <2>11. stored'[KeyOf(c)] # Absent <=> stored[KeyOf(c)] # Absent
      BY <1>1, <2>3, <2>6
    <2>12. /\ deletes'[KeyOf(c)] = deletes[KeyOf(c)]
           /\ deletes[KeyOf(c)] = 0 => stored[KeyOf(c)] # Absent
           /\ S # {} => S = {KeyOf(c)} /\ stored[KeyOf(c)] # Absent
      BY <1>1, <1>3, <2>3 DEF SingleInv
    <2>13. SingleInv(c)'
      <3>1. /\ stage'[c] \notin {"look", "insert", "again", "update"}
            /\ Holds(c)' \subseteq {KeyOf(c)'}
            /\ Holds(c)' # {} => stored'[KeyOf(c)'] # Absent
            /\ deletes'[KeyOf(c)'] = 0 => stored'[KeyOf(c)'] # Absent
            /\ result'[c].ok = TRUE /\ result'[c].created = FALSE
        BY <1>1, <2>4, <2>5, <2>7, <2>11, <2>12
      <3> QED
        BY <2>10, <3>1 DEF SingleInv, Over
    <2>14. CallInv(c)'
      BY <1>2, <2>7, <2>9, <2>13 DEF CallInv
    <2>15. /\ stage' \in [Processes -> {"look", "insert", "again", "update", "end", "over"}]
           /\ next' \in [Processes -> Nat]
           /\ \A d \in Processes \ {c} :
                stage'[d] = stage[d] /\ next'[d] = next[d] /\ result'[d] = result[d]
      BY <1>1, <2>5 DEF RecordTypes
    <2>16. /\ UNCHANGED <<call, deletes, aborted>>
           /\ result' \in [Processes -> [ok : BOOLEAN, created : BOOLEAN]]
      BY <1>1, <2>5
    <2> QED
      BY <2>2, <2>3, <2>14, <2>15, <2>16, WriteKeeps
  <1> QED
    BY <1>4, <1>5

(* The end of a transaction: its rows are gone, or in the table.           *)
LEMMA TransactionEnds ==
    ASSUME RecordsInv, NEW c \in Processes, stage[c] = "end",
           stage' = [stage EXCEPT ![c] = "over"], pending' = [pending EXCEPT ![c] = NoRows],
           UNCHANGED <<call, next, result, aborted, deletes>>
    PROVE  /\ RecordTypes /\ CallInv(c) /\ InTx(c)
           /\ DOMAIN pending' = Processes
           /\ \A d \in Processes : Holds(d)' \subseteq UniqueKeys
                                   /\ pending'[d] \in [Holds(d)' -> Processes]
           /\ stage' \in [Processes -> {"look", "insert", "again", "update", "end", "over"}]
           /\ Over(c)' /\ Holds(c)' = {} /\ HoldInv(c)'
           /\ \A d \in Processes \ {c} :
                /\ stage'[d] = stage[d] /\ pending'[d] = pending[d] /\ Holds(d)' = Holds(d)
                /\ \A e \in Processes \ {d} : Holds(d) \cap Holds(e)' = {}
           /\ Op(c)' = Op(c) /\ InTx(c)' = InTx(c) /\ KeyOf(c)' = KeyOf(c)
  <1>1. RecordTypes /\ CallInv(c)
    BY DEF RecordsInv
  <1>2. InTx(c)
    BY <1>1 DEF CallInv, HoldInv
  <1>3. /\ DOMAIN pending' = Processes /\ pending'[c] = NoRows
        /\ \A d \in Processes \ {c} : pending'[d] = pending[d]
    BY <1>1 DEF RecordTypes
  <1>4. Holds(c)' = {} /\ \A d \in Processes \ {c} : Holds(d)' = Holds(d)
    BY <1>3 DEF Holds, NoRows
  <1>5. pending'[c] \in [Holds(c)' -> Processes]
    BY <1>3, <1>4 DEF NoRows
  <1>6. \A d \in Processes : Holds(d)' \subseteq UniqueKeys
                             /\ pending'[d] \in [Holds(d)' -> Processes]
    BY <1>1, <1>3, <1>4, <1>5 DEF RecordTypes
  <1>7. /\ stage' \in [Processes -> {"look", "insert", "again", "update", "end", "over"}]
        /\ stage'[c] = "over" /\ \A d \in Processes \ {c} : stage'[d] = stage[d]
    BY <1>1 DEF RecordTypes
  <1>8. Op(c)' = Op(c) /\ InTx(c)' = InTx(c) /\ KeyOf(c)' = KeyOf(c)
    BY SameCall
  <1>9. HoldInv(c)'
    BY <1>2, <1>4, <1>7, <1>8 DEF HoldInv, Over
  <1>10. \A d \in Processes \ {c} : \A e \in Processes \ {d} : Holds(d) \cap Holds(e)' = {}
    BY <1>4 DEF RecordsInv, CallInv, HoldInv
  <1> QED
    BY <1>1, <1>2, <1>3, <1>4, <1>6, <1>7, <1>8, <1>9, <1>10 DEF Over

LEMMA RollbackKeeps ==
    ASSUME RecordsInv, NEW c \in Processes, Rollback(c)
    PROVE  RecordsInv'
  <1>1. /\ stage[c] = "end" /\ ~result[c].ok /\ stage' = [stage EXCEPT ![c] = "over"]
        /\ pending' = [pending EXCEPT ![c] = NoRows]
        /\ UNCHANGED <<call, next, result, aborted, stored, inserts, deletes>>
    BY DEF Rollback
  <1>2. /\ RecordTypes /\ CallInv(c) /\ InTx(c)
        /\ DOMAIN pending' = Processes
        /\ \A d \in Processes : Holds(d)' \subseteq UniqueKeys
                                /\ pending'[d] \in [Holds(d)' -> Processes]
        /\ stage' \in [Processes -> {"look", "insert", "again", "update", "end", "over"}]
        /\ Over(c)' /\ Holds(c)' = {} /\ HoldInv(c)'
        /\ \A d \in Processes \ {c} :
             /\ stage'[d] = stage[d] /\ pending'[d] = pending[d] /\ Holds(d)' = Holds(d)
             /\ \A e \in Processes \ {d} : Holds(d) \cap Holds(e)' = {}
        /\ Op(c)' = Op(c) /\ InTx(c)' = InTx(c) /\ KeyOf(c)' = KeyOf(c)
    BY <1>1, TransactionEnds
  <1>3. RecordTypes'
    BY <1>1, <1>2 DEF RecordTypes
  <1>4. \A d, k : Made(d, k)' <=> Made(d, k)
    BY <1>1 DEF Made
  <1>5. ASSUME NEW d \in Processes \ {c} PROVE CallInv(d)'
    BY <1>1, <1>2, <1>4, OthersKeep
  <1>6. stage'[c] = "over" /\ ~Over(c)
    BY <1>1, <1>2 DEF Over
  <1>7. CASE Op(c) = "createAll"
    <2>1. ChunksInv(c)
      BY <1>2, <1>7 DEF CallInv
    <2>2. Behind(c)' = Behind(c)
      BY <1>1 DEF Behind
    <2>3. Given(c, Behind(c))' = Given(c, Behind(c))
      BY <1>1, <2>2 DEF Given
    <2>4. \A k \in UniqueKeys : ~Made(c, k)'
      BY <1>2, <1>4, <1>6, <2>1 DEF ChunksInv
    <2>5. ChunksInv(c)'
      BY <1>1, <1>2, <1>6, <2>1, <2>3, <2>4 DEF ChunksInv
    <2> QED
      BY <1>2, <1>3, <1>5, <1>7, <2>5 DEF CallInv, RecordsInv, CountInv, Rollback
  <1>8. CASE Op(c) # "createAll"
    <2>1. SingleInv(c) /\ KeyOf(c) \in UniqueKeys
      BY <1>2, <1>8, CallTyped DEF CallInv
    <2>2. ~result[c].created
      BY <1>1, <2>1 DEF SingleInv
    <2>3. \A k \in UniqueKeys : ~Made(c, k)'
      BY <1>4, <1>6, <2>1 DEF SingleInv
    <2>4. SingleInv(c)'
      BY <1>1, <1>2, <1>6, <2>1, <2>2, <2>3 DEF SingleInv
    <2> QED
      BY <1>2, <1>3, <1>5, <1>8, <2>4 DEF CallInv, RecordsInv, CountInv, Rollback
  <1> QED
    BY <1>7, <1>8

LEMMA CommitKeeps ==
    ASSUME RecordsInv, NEW c \in Processes, Commit(c)
    PROVE  RecordsInv'
  <1> DEFINE new == {k \in UniqueKeys : HeldBy(k, c) /\ result[c].created}
  <1>1. /\ stage[c] = "end" /\ result[c].ok /\ stage' = [stage EXCEPT ![c] = "over"]
        /\ pending' = [pending EXCEPT ![c] = NoRows] /\ stored' = Written(pending[c], stored)
        /\ UNCHANGED <<call, next, result, aborted, deletes>>
    BY DEF Commit
  <1>2. inserts' = [k \in UniqueKeys |-> IF k \in new THEN Append(inserts[k], c)
                                         ELSE inserts[k]]
    BY DEF Commit
  <1>3. /\ RecordTypes /\ CallInv(c) /\ InTx(c)
        /\ DOMAIN pending' = Processes
        /\ \A d \in Processes : Holds(d)' \subseteq UniqueKeys
                                /\ pending'[d] \in [Holds(d)' -> Processes]
        /\ stage' \in [Processes -> {"look", "insert", "again", "update", "end", "over"}]
        /\ Over(c)' /\ Holds(c)' = {} /\ HoldInv(c)'
        /\ \A d \in Processes \ {c} :
             /\ stage'[d] = stage[d] /\ pending'[d] = pending[d] /\ Holds(d)' = Holds(d)
             /\ \A e \in Processes \ {d} : Holds(d) \cap Holds(e)' = {}
        /\ Op(c)' = Op(c) /\ InTx(c)' = InTx(c) /\ KeyOf(c)' = KeyOf(c)
    BY <1>1, TransactionEnds
  <1>4. \A k \in UniqueKeys : k \in new <=> k \in Holds(c) /\ result[c].created
    BY SeesIs
  <1> HIDE DEF new
  <1>5. /\ inserts' \in [UniqueKeys -> Seq(Processes)]
        /\ \A d \in Processes, k \in UniqueKeys :
             Made(d, k)' <=> Made(d, k) \/ (d = c /\ k \in new)
        /\ \A k \in UniqueKeys :
             Len(inserts'[k]) = IF k \in new THEN Len(inserts[k]) + 1 ELSE Len(inserts[k])
    BY <1>2, <1>3, InsertsAre
  <1>6. /\ Holds(c) \subseteq UniqueKeys /\ Absent \notin Processes
        /\ \A k \in Holds(c) : pending[c][k] \in Processes
    BY <1>3, RecordsAssumption DEF RecordTypes
  <1>7. stored' = [k \in UniqueKeys |-> IF k \in Holds(c) THEN pending[c][k] ELSE stored[k]]
    <2>1. DOMAIN stored = UniqueKeys
      BY <1>3 DEF RecordTypes
    <2> QED
      BY <1>1, <1>6, <2>1 DEF Written, Holds
  <1>8. /\ stored' \in [UniqueKeys -> Processes \cup {Absent}]
        /\ \A k \in UniqueKeys : k \in Holds(c) => stored'[k] # Absent
        /\ \A k \in UniqueKeys : k \notin Holds(c) => stored'[k] = stored[k]
    <2>1. \A k \in UniqueKeys : stored[k] \in Processes \cup {Absent}
      BY <1>3 DEF RecordTypes
    <2> QED
      BY <1>6, <1>7, <2>1
  <1>9. RecordTypes'
    BY <1>1, <1>3, <1>5, <1>8 DEF RecordTypes
  <1>10. ASSUME NEW d \in Processes \ {c} PROVE CallInv(d)'
    <2>1. Holds(d) \subseteq UniqueKeys /\ Holds(d) \cap Holds(c) = {}
      BY <1>3 DEF RecordTypes, RecordsInv, CallInv, HoldInv
    <2>2. \A k \in Holds(d) : stored'[k] = stored[k]
      BY <1>8, <2>1
    <2>3. \A k \in UniqueKeys : Made(d, k)' <=> Made(d, k)
      BY <1>5
    <2>4. \A k \in UniqueKeys : deletes'[k] = 0 =>
             deletes[k] = 0 /\ (stored[k] # Absent => stored'[k] # Absent)
      BY <1>1, <1>8
    <2> QED
      BY <1>1, <1>3, <2>2, <2>3, <2>4, OthersKeep
  <1>11. stage'[c] = "over" /\ ~Over(c)
    BY <1>1, <1>3 DEF Over
  <1>12. CallInv(c)' /\ \A k \in Holds(c) : stored[k] = Absent <=> result[c].created
    <2>1. CASE Op(c) = "createAll"
      <3>1. ChunksInv(c)
        BY <1>3, <2>1 DEF CallInv
      <3>2. result[c].created /\ Holds(c) = Given(c, Behind(c))
        BY <1>1, <1>3, <1>11, <3>1 DEF ChunksInv
      <3>3. Behind(c)' = Behind(c)
        BY <1>1 DEF Behind
      <3>4. Given(c, Behind(c))' = Given(c, Behind(c))
        BY <1>1, <3>3 DEF Given
      <3>5. \A k \in UniqueKeys : Made(c, k)' <=> k \in Given(c, Behind(c))
        <4>1. \A k \in UniqueKeys : ~Made(c, k)
          BY <1>3, <1>11, <3>1 DEF ChunksInv
        <4> QED
          BY <1>4, <1>5, <3>2, <4>1
      <3>6. ChunksInv(c)'
        <4>1. /\ Holds(c)' = {} /\ Over(c)' /\ InTx(c)' = InTx(c)
              /\ UNCHANGED <<call, next, result>> /\ result[c].ok
          BY <1>1, <1>3
        <4>2. \A k \in UniqueKeys :
                 Made(c, k)' <=> /\ k \in Given(c, Behind(c))'
                                 /\ InTx(c)' => Over(c)' /\ result'[c].ok
          BY <3>4, <3>5, <4>1
        <4>3. /\ stage'[c] = "over" /\ result[c].ok = (next[c] > Len(call[c].keys))
              /\ result[c].created = result[c].ok
              /\ \E m \in Nat : next[c] = m * ChunkSize + 1 /\ m < next[c]
          BY <1>1, <1>11, <3>1 DEF ChunksInv
        <4> QED
          BY <4>1, <4>2, <4>3 DEF ChunksInv
      <3>7. \A k \in Holds(c) : stored[k] = Absent
        BY <3>1 DEF ChunksInv
      <3> QED
        BY <1>3, <2>1, <3>2, <3>6, <3>7 DEF CallInv
    <2>2. CASE Op(c) # "createAll"
      <3>1. SingleInv(c) /\ KeyOf(c) \in UniqueKeys
        BY <1>3, <2>2, CallTyped DEF CallInv
      <3>2. /\ Holds(c) \subseteq {KeyOf(c)}
            /\ \A k \in Holds(c) : stored[k] = Absent <=> result[c].created
        BY <1>1, <3>1 DEF SingleInv
      <3>3. \A k \in UniqueKeys : Made(c, k)' <=> (k = KeyOf(c) /\ result[c].created)
        <4>1. \A k \in UniqueKeys : ~Made(c, k)
          BY <1>11, <3>1 DEF SingleInv
        <4>2. result[c].created => Holds(c) = {KeyOf(c)}
          BY <1>1, <3>1 DEF SingleInv
        <4> QED
          BY <1>4, <1>5, <3>2, <4>1, <4>2
      <3>4. deletes[KeyOf(c)] = 0 => stored'[KeyOf(c)] # Absent
        <4>1. deletes[KeyOf(c)] = 0 => stored[KeyOf(c)] # Absent \/ KeyOf(c) \in Holds(c)
          BY <1>1, <3>1 DEF SingleInv
        <4> QED
          BY <1>8, <3>1, <4>1
      <3>5. SingleInv(c)'
        BY <1>1, <1>3, <1>11, <3>1, <3>3, <3>4 DEF SingleInv
      <3> QED
        BY <1>3, <2>2, <3>2, <3>5 DEF CallInv
    <2> QED
      BY <2>1, <2>2
  <1>13. ASSUME NEW k \in UniqueKeys PROVE CountInv(k)'
    <2>1. CountInv(k) /\ Len(inserts[k]) \in Nat /\ deletes[k] \in Nat /\ deletes'[k] = deletes[k]
      BY <1>1, <1>3 DEF RecordsInv, RecordTypes
    <2>2. CASE k \in Holds(c)
      BY <1>4, <1>5, <1>8, <1>12, <2>1, <2>2 DEF CountInv
    <2>3. CASE k \notin Holds(c)
      BY <1>4, <1>5, <1>8, <2>1, <2>3 DEF CountInv
    <2> QED
      BY <2>2, <2>3
  <1> QED
    BY <1>9, <1>10, <1>12, <1>13 DEF RecordsInv

LEMMA DeleteKeeps ==
    ASSUME RecordsInv, NEW key \in UniqueKeys, DeleteRow(key)
    PROVE  RecordsInv'
  <1>1. /\ stored[key] # Absent /\ \A d \in Processes : ~HeldBy(key, d)
        /\ stored' = [stored EXCEPT ![key] = Absent]
        /\ deletes' = [deletes EXCEPT ![key] = deletes[key] + 1]
        /\ UNCHANGED <<call, stage, next, result, pending, aborted, inserts>>
    BY DEF DeleteRow
  <1>2. RecordTypes
    BY DEF RecordsInv
  <1>3. /\ stored' \in [UniqueKeys -> Processes \cup {Absent}]
        /\ deletes' \in [UniqueKeys -> Nat]
        /\ stored'[key] = Absent /\ deletes'[key] = deletes[key] + 1 /\ deletes[key] \in Nat
        /\ \A k \in UniqueKeys \ {key} : stored'[k] = stored[k] /\ deletes'[k] = deletes[k]
    BY <1>1, <1>2 DEF RecordTypes
  <1>4. \A d : Holds(d)' = Holds(d)
    BY <1>1 DEF Holds
  <1>5. RecordTypes'
    BY <1>1, <1>2, <1>3, <1>4 DEF RecordTypes
  <1>6. ASSUME NEW c \in Processes PROVE CallInv(c)'
    <2>1. Holds(c) \subseteq UniqueKeys /\ key \notin Holds(c)
      BY <1>1, <1>2, SeesIs DEF RecordTypes
    <2>2. \A d \in Processes \ {c} : Holds(c) \cap Holds(d)' = {}
      BY <1>4 DEF RecordsInv, CallInv, HoldInv
    <2>3. \A k \in UniqueKeys : deletes'[k] = 0 =>
             deletes[k] = 0 /\ (stored[k] # Absent => stored'[k] # Absent)
      BY <1>3
    <2>4. \A k \in UniqueKeys : Made(c, k)' <=> Made(c, k)
      BY <1>1 DEF Made
    <2>5. \A k \in Holds(c) : stored'[k] = stored[k]
      BY <1>3, <2>1
    <2> QED
      BY <1>1, <2>2, <2>3, <2>4, <2>5, OthersKeep
  <1>7. \A k \in UniqueKeys : CountInv(k)'
    <2>1. \A k \in UniqueKeys : CountInv(k) /\ Len(inserts'[k]) = Len(inserts[k])
      BY <1>1 DEF RecordsInv
    <2> QED
      BY <1>1, <1>3, <2>1 DEF CountInv
  <1> QED
    BY <1>5, <1>6, <1>7 DEF RecordsInv

LEMMA RecordsInvNext ==
    ASSUME RecordsInv, [RecordsNext]_recordVars
    PROVE  RecordsInv'
  <1>1. ASSUME NEW c \in Processes, Proceed(c) PROVE RecordsInv'
    BY <1>1, LookKeeps, InsertedKeeps, ViolatesKeeps, LookAgainKeeps, UpdateKeeps, CommitKeeps,
       RollbackKeeps, DeadlockKeeps DEF Proceed
  <1>2. ASSUME NEW k \in UniqueKeys, DeleteRow(k) PROVE RecordsInv'
    BY <1>2, DeleteKeeps
  <1>3. CASE UNCHANGED recordVars
    <2>1. UNCHANGED <<call, stage, next, result, stored, pending, aborted, inserts, deletes>>
      BY <1>3 DEF recordVars
    <2>2. RecordTypes'
      BY <2>1 DEF RecordsInv, RecordTypes, Holds
    <2>3. \A d : Holds(d)' = Holds(d) /\ \A k : Made(d, k)' <=> Made(d, k)
      BY <2>1 DEF Holds, Made
    <2>4. ASSUME NEW c \in Processes PROVE CallInv(c)'
      <3>1. \A d \in Processes \ {c} : Holds(c) \cap Holds(d)' = {}
        BY <2>3 DEF RecordsInv, CallInv, HoldInv
      <3> QED
        BY <2>1, <2>3, <3>1, OthersKeep
    <2>5. \A k \in UniqueKeys : CountInv(k)'
      BY <2>1 DEF RecordsInv, CountInv
    <2> QED
      BY <2>2, <2>4, <2>5 DEF RecordsInv
  <1> QED
    BY <1>1, <1>2, <1>3 DEF RecordsNext

(* Whatever the order in which the callers look and insert, outside of a   *)
(* transaction GetOrCreate and UpdateOrCreate never fail while nobody      *)
(* deletes, the row is there when they return, and each inserted row has   *)
(* one caller that was told it created it, and no other was                *)
(* (Query.GetOrCreate, UpdateOrCreate, EnsureSuperuser, createuser).       *)
THEOREM CallersRecover == RecordsSpec => []CallsRecover
  <1>1. RecordsInv => CallsRecover
    <2> SUFFICES ASSUME RecordsInv PROVE CallsRecover
      OBVIOUS
    <2>1. RecordTypes /\ \A k \in UniqueKeys : CountInv(k)
      BY DEF RecordsInv
    <2>2. ASSUME NEW c \in Processes, Over(c), Op(c) # "createAll"
          PROVE  /\ deletes[KeyOf(c)] = 0 =>
                      /\ Op(c) \in DOMAIN Recovered /\ ~InTx(c) => result[c].ok
                      /\ result[c].ok => stored[KeyOf(c)] # Absent
                      /\ ~InTx(c) => stored[KeyOf(c)] # Absent
                 /\ \A k \in UniqueKeys : KeyOf(c) = k =>
                      ((result[c].ok /\ result[c].created) = Made(c, k))
      <3>1. SingleInv(c)
        BY <2>2 DEF RecordsInv, CallInv
      <3>2. \A k \in UniqueKeys : KeyOf(c) = k => (Made(c, k) <=> result[c].created)
        BY <2>2, <3>1 DEF SingleInv
      <3>3. /\ result[c].created => result[c].ok
            /\ result[c].ok \in BOOLEAN /\ result[c].created \in BOOLEAN
        BY <2>1, <3>1 DEF SingleInv, RecordTypes
      <3>4. \A k : Made(c, k) \in BOOLEAN
        BY DEF Made
      <3>5. \A k \in UniqueKeys : KeyOf(c) = k =>
               ((result[c].ok /\ result[c].created) = Made(c, k))
        BY <3>2, <3>3, <3>4
      <3> QED
        BY <2>2, <3>1, <3>5 DEF SingleInv
    <2>3. \A k \in UniqueKeys : Len(inserts[k]) <= deletes[k] + 1
      BY <2>1 DEF CountInv, RecordTypes
    <2> QED
      BY <2>2, <2>3 DEF CallsRecover, Made
  <1> QED
    BY <1>1, RecordsInvInit, RecordsInvNext, PTL DEF RecordsSpec

(* CreateAll that succeeds has inserted every row it was given; one that   *)
(* fails has left the chunks before the one refused, and none if it was in *)
(* a transaction (createAllInto).                                          *)
THEOREM ChunksStand == RecordsSpec => []CreateAllKeepsChunks
  <1>1. RecordsInv => CreateAllKeepsChunks
    <2> SUFFICES ASSUME RecordsInv PROVE CreateAllKeepsChunks
      OBVIOUS
    <2> DEFINE Mine(c) == {i \in DOMAIN call[c].keys : Made(c, call[c].keys[i])}
    <2>1. ASSUME NEW c \in Processes, Over(c), Op(c) = "createAll"
          PROVE  /\ result[c].ok => Mine(c) = DOMAIN call[c].keys
                 /\ ~result[c].ok /\ InTx(c) => Mine(c) = {}
                 /\ ~result[c].ok /\ ~InTx(c) =>
                      /\ Mine(c) # DOMAIN call[c].keys
                      /\ \E n \in 0..Len(call[c].keys) : Mine(c) = 1..(n * ChunkSize)
      <3> DEFINE keys == call[c].keys
      <3>1. /\ ChunksInv(c) /\ RecordTypes
            /\ Len(keys) \in Nat \ {0} /\ DOMAIN keys = 1..Len(keys)
            /\ \A i \in DOMAIN keys : keys[i] \in UniqueKeys
            /\ \A i, j \in DOMAIN keys : keys[i] = keys[j] => i = j
            /\ InTx(c) \in BOOLEAN
        BY <2>1, CallTyped DEF RecordsInv, CallInv
      <3>2. /\ next[c] \in Nat /\ result[c].ok \in BOOLEAN
            /\ result[c].ok = (next[c] > Len(keys))
        BY <2>1, <3>1 DEF ChunksInv, RecordTypes, Over
      <3> DEFINE size == Len(keys)
                 first == next[c]
      <3>3. \A i \in DOMAIN keys : Made(c, keys[i]) <=> i < first /\ (InTx(c) => result[c].ok)
        <4>1. \A i \in DOMAIN keys : keys[i] \in Given(c, Behind(c)) <=> i < next[c]
          BY <3>1 DEF Given, Behind
        <4> QED
          BY <2>1, <3>1, <4>1 DEF ChunksInv
      <3>4. /\ DOMAIN keys = 1..size /\ size \in Nat \ {0} /\ first \in Nat
            /\ result[c].ok <=> first > size
            /\ Mine(c) = {i \in 1..size : i < first /\ (InTx(c) => result[c].ok)}
        BY <3>1, <3>2, <3>3
      <3>5. PICK m \in Nat : first = m * ChunkSize + 1 /\ m < first
        BY <3>1 DEF ChunksInv
      <3>6. m * ChunkSize \in Nat
        BY RecordsAssumption
      <3> DEFINE behind == m * ChunkSize
      <3>7. first = behind + 1 /\ behind \in Nat /\ m <= behind
        BY <3>4, <3>5, <3>6
      <3> HIDE DEF Mine, keys, size, first, behind
      <3>8. ASSUME result[c].ok PROVE Mine(c) = DOMAIN keys
        BY <3>4, <3>8
      <3>9. ASSUME ~result[c].ok, InTx(c) PROVE Mine(c) = {}
        BY <3>4, <3>9
      <3>10. ASSUME ~result[c].ok, ~InTx(c)
             PROVE  Mine(c) # DOMAIN keys /\ \E n \in 0..size : Mine(c) = 1..(n * ChunkSize)
        <4>1. first <= size /\ Mine(c) = {i \in 1..size : i < first}
          BY <3>4, <3>10
        <4>2. Mine(c) = 1..behind /\ m \in 0..size /\ size \in DOMAIN keys /\ size \notin Mine(c)
          BY <3>4, <3>7, <4>1
        <4> QED
          BY <4>2 DEF behind
      <3> QED
        BY <3>1, <3>8, <3>9, <3>10 DEF keys, size
    <2> HIDE DEF Mine
    <2>2. ASSUME NEW c \in Processes
          PROVE  Mine(c) = {i \in DOMAIN call[c].keys :
                              \E j \in DOMAIN inserts[call[c].keys[i]] :
                                inserts[call[c].keys[i]][j] = c}
      BY DEF Mine, Made
    <2> QED
      BY <2>1, <2>2 DEF CreateAllKeepsChunks
  <1> QED
    BY <1>1, RecordsInvInit, RecordsInvNext, PTL DEF RecordsSpec
=============================================================================
