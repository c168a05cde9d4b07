------------------------------ MODULE MakeProofs ------------------------------
(***************************************************************************)
(* What holds of makemigrations for any number of structs, of columns and  *)
(* of files, whatever refers to what: the schema that it reads from its    *)
(* files is the database's, the database accepts what it writes, and the   *)
(* section down of a file restores what there was before its section up.   *)
(***************************************************************************)
EXTENDS MakeMigrations, SequenceFacts

-----------------------------------------------------------------------------
(* The files of migrations.  What a sequence of statements does to the     *)
(* tables and columns of a database and to the schema read from its text.  *)

Ops == {"create table", "add column", "unique index", "index", "fts",
        "drop index", "drop fts", "drop column", "drop table"}
Statements == [op : Ops, on : ModelTables, cols : SUBSET ModelColumns]
MigrationFiles ==
    [up : Seq(Statements), down : Seq(Statements), comments : Seq(Statements), byHand : BOOLEAN]
Things == {"table", "column", "index", "fts"} \X ModelTables \X (ModelColumns \cup {"id"})
Schemas == SUBSET {i \in Things : i[1] \in {"table", "column"}}
Databases == (SUBSET Things) \cup {Refused}

TablesOf(d) == {i \in d : i[1] \in {"table", "column"}}

LEMMA ColumnsOf ==
    ASSUME NEW s \in Statements
    PROVE  \A i \in Items("column", s.on, s.cols) : i[1] = "column" /\ i[2] = s.on
  BY DEF Items

LEMMA StatementFacts ==
    ASSUME NEW s \in Statements
    PROVE  /\ s.op \in Ops /\ s.on \in ModelTables /\ s.cols \subseteq ModelColumns
           /\ Key(s.on) \in Things /\ \A k \in {"table", "column", "index", "fts"} :
                 Items(k, s.on, s.cols) \subseteq Things
  BY DEF Statements, Key, Items, Things

LEMMA EffectIs ==
    ASSUME NEW s \in Statements, NEW d \in SUBSET Things
    PROVE  EffectOf(s, d) \in SUBSET Things
  BY StatementFacts DEF EffectOf, Ops

LEMMA OutcomeIs ==
    ASSUME NEW s \in Statements, NEW d \in Databases
    PROVE  Outcome(s, d) \in Databases
  <1>1. Refused \in Databases
    BY DEF Databases
  <1>2. CASE d = Refused \/ ~AcceptsStatement(s, d)
    BY <1>1, <1>2 DEF Outcome
  <1>3. CASE ~(d = Refused \/ ~AcceptsStatement(s, d))
    <2>1. Outcome(s, d) = EffectOf(s, d) /\ d \in SUBSET Things
      BY <1>3 DEF Outcome, Databases
    <2> QED
      BY <2>1, EffectIs DEF Databases
  <1> QED
    BY <1>2, <1>3

LEMMA SeenIs ==
    ASSUME NEW s \in Statements, NEW known \in Schemas
    PROVE  SeenIn(known, s) \in Schemas
  <1>1. Key(s.on) \in Things /\ Key(s.on)[1] = "table"
    BY StatementFacts DEF Key
  <1>2. Items("column", s.on, s.cols) \subseteq Things
        /\ \A i \in Items("column", s.on, s.cols) : i[1] = "column"
    BY StatementFacts DEF Items
  <1> QED
    BY <1>1, <1>2 DEF SeenIn, Schemas

-----------------------------------------------------------------------------
Runs(g, statements, d) ==
    g[0] = d /\ \A i \in 1..Len(statements) : g[i] = Outcome(statements[i], g[i - 1])

LEMMA ExecutedIs ==
    ASSUME NEW statements \in Seq(Statements), NEW d \in Databases
    PROVE  \E g : Runs(g, statements, d) /\ Executed(statements, d) = g[Len(statements)]
  <1> DEFINE n == Len(statements)
             step == [p \in Nat \X Databases |->
                        IF p[1] + 1 \in 1..n THEN Outcome(statements[p[1] + 1], p[2]) ELSE p[2]]
             Def(g) == [i \in 0..n |-> IF i = 0 THEN d ELSE Outcome(statements[i], g[i - 1])]
             after == CHOOSE g : g = Def(g)
  <1>0. n \in Nat /\ \A i \in 1..n : statements[i] \in Statements
    OBVIOUS
  <1>1. step \in [Nat \X Databases -> Databases]
    BY <1>0, OutcomeIs
  <1>2. PICK h \in [Nat -> Databases] :
          h[0] = d /\ \A k \in Nat : h[k + 1] = step[<<k, h[k]>>]
    <2> HIDE DEF step
    <2>1. Recurs(Databases, d, step)
      BY <1>1, Recursion
    <2> QED
      BY <2>1 DEF Recurs
  <1>3. ASSUME NEW i \in 1..n PROVE h[i] = Outcome(statements[i], h[i - 1])
    <2>1. i - 1 \in Nat /\ i - 1 + 1 = i
      OBVIOUS
    <2>2. h[i] = step[<<i - 1, h[i - 1]>>]
      BY <1>2, <2>1
    <2> QED
      BY <2>1, <2>2
  <1> DEFINE k == [i \in 0..n |-> h[i]]
  <1>4. k = Def(k)
    <2>1. ASSUME NEW i \in 0..n, i # 0 PROVE h[i] = Outcome(statements[i], k[i - 1])
      <3>1. i \in 1..n /\ i - 1 \in 0..n
        BY <2>1
      <3> QED
        BY <1>3, <3>1
    <2> QED
      BY <1>2, <2>1
  <1>5. after = Def(after)
    BY <1>4
  <1>6. Executed(statements, d) = after[n]
    BY DEF Executed
  <1> HIDE DEF after
  <1>7. Runs(after, statements, d)
    <2>1. after[0] = d
      BY <1>0, <1>5
    <2>2. ASSUME NEW i \in 1..n PROVE after[i] = Outcome(statements[i], after[i - 1])
      BY <1>5
    <2> QED
      BY <2>1, <2>2 DEF Runs
  <1> QED
    BY <1>6, <1>7

Reads(h, statements, from) ==
    h[0] = from /\ \A i \in 1..Len(statements) : h[i] = SeenIn(h[i - 1], statements[i])

LEMMA ReadIs ==
    ASSUME NEW statements \in Seq(Statements), NEW from \in Schemas
    PROVE  \E h : Reads(h, statements, from) /\ Read(statements, from) = h[Len(statements)]
  <1> DEFINE n == Len(statements)
             step == [p \in Nat \X Schemas |->
                        IF p[1] + 1 \in 1..n THEN SeenIn(p[2], statements[p[1] + 1]) ELSE p[2]]
             Def(g) == [i \in 0..n |-> IF i = 0 THEN from ELSE SeenIn(g[i - 1], statements[i])]
             read == CHOOSE g : g = Def(g)
  <1>0. n \in Nat /\ \A i \in 1..n : statements[i] \in Statements
    OBVIOUS
  <1>1. step \in [Nat \X Schemas -> Schemas]
    BY <1>0, SeenIs
  <1>2. PICK h \in [Nat -> Schemas] :
          h[0] = from /\ \A k \in Nat : h[k + 1] = step[<<k, h[k]>>]
    <2> HIDE DEF step
    <2>1. Recurs(Schemas, from, step)
      BY <1>1, Recursion
    <2> QED
      BY <2>1 DEF Recurs
  <1>3. ASSUME NEW i \in 1..n PROVE h[i] = SeenIn(h[i - 1], statements[i])
    <2>1. i - 1 \in Nat /\ i - 1 + 1 = i
      OBVIOUS
    <2>2. h[i] = step[<<i - 1, h[i - 1]>>]
      BY <1>2, <2>1
    <2> QED
      BY <2>1, <2>2
  <1> DEFINE k == [i \in 0..n |-> h[i]]
  <1>4. k = Def(k)
    <2>1. ASSUME NEW i \in 0..n, i # 0 PROVE h[i] = SeenIn(k[i - 1], statements[i])
      <3>1. i \in 1..n /\ i - 1 \in 0..n
        BY <2>1
      <3> QED
        BY <1>3, <3>1
    <2> QED
      BY <1>2, <2>1
  <1>5. read = Def(read)
    BY <1>4
  <1>6. Read(statements, from) = read[n]
    BY DEF Read
  <1> HIDE DEF read
  <1>7. Reads(read, statements, from)
    <2>1. read[0] = from
      BY <1>0, <1>5
    <2>2. ASSUME NEW i \in 1..n PROVE read[i] = SeenIn(read[i - 1], statements[i])
      BY <1>5
    <2> QED
      BY <2>1, <2>2 DEF Reads
  <1> QED
    BY <1>6, <1>7

-----------------------------------------------------------------------------
(* A section up: it creates each table once, with all its columns, and     *)
(* only tables that are not known.                                         *)
UpOps == {"create table", "add column", "unique index", "index", "fts", "drop column"}

GoodUp(st, known) ==
    \A s \in Range(st) :
        /\ s.op \in UpOps
        /\ s.op = "create table" =>
             /\ Key(s.on) \notin known
             /\ \A r \in Range(st) :
                  r.on = s.on /\ r.op \in {"create table", "add column", "drop column"} => r = s

Whole(s, known) ==
    s.op = "create table" /\ Key(s.on) \in known => Items("column", s.on, s.cols) \subseteq known

LEMMA StepFollows ==
    ASSUME NEW s \in Statements, NEW d \in SUBSET Things, NEW known \in Schemas, NEW gone,
           \A i \in gone : i[1] = "column",
           TablesOf(d) \ gone = known \ gone,
           s.op \in UpOps, AcceptsStatement(s, d), Whole(s, known)
    PROVE  TablesOf(EffectOf(s, d)) \ gone = SeenIn(known, s) \ gone
  <1> DEFINE key == Key(s.on)
             cols == Items("column", s.on, s.cols)
  <1>1. key \notin gone /\ key[1] = "table" /\ (key \in d <=> key \in known)
    BY DEF Key, TablesOf
  <1>2. \A i \in cols : i[1] = "column"
    BY DEF Items
  <1>3. \A k \in {"index", "fts"} : \A i \in Items(k, s.on, s.cols) : i[1] = k
    BY DEF Items
  <1>4. CASE s.op = "create table"
    <2>1. EffectOf(s, d) = IF key \in d THEN d ELSE d \cup {key} \cup cols
      BY <1>4 DEF EffectOf
    <2>2. SeenIn(known, s) = known \cup {key} \cup cols
      BY <1>4 DEF SeenIn
    <2>3. key \in known => cols \subseteq known
      BY <1>4 DEF Whole
    <2> QED
      BY <1>1, <1>2, <2>1, <2>2, <2>3 DEF TablesOf
  <1>5. CASE s.op = "add column"
    <2>1. EffectOf(s, d) = d \cup cols /\ key \in d
      BY <1>5 DEF EffectOf, AcceptsStatement
    <2>2. SeenIn(known, s) = known \cup {key} \cup cols
      BY <1>5 DEF SeenIn
    <2> QED
      BY <1>1, <1>2, <2>1, <2>2 DEF TablesOf
  <1>6. CASE s.op \in {"unique index", "index"}
    <2>1. EffectOf(s, d) = d \cup Items("index", s.on, s.cols) /\ SeenIn(known, s) = known
      BY <1>6 DEF EffectOf, SeenIn
    <2> QED
      BY <1>3, <2>1 DEF TablesOf
  <1>7. CASE s.op = "fts"
    <2>1. EffectOf(s, d) = d \cup Items("fts", s.on, s.cols) /\ SeenIn(known, s) = known
      BY <1>7 DEF EffectOf, SeenIn
    <2> QED
      BY <1>3, <2>1 DEF TablesOf
  <1>8. CASE s.op = "drop column"
    <2>1. EffectOf(s, d) = d \ cols /\ SeenIn(known, s) = known \ cols
      BY <1>8 DEF EffectOf, SeenIn
    <2> QED
      BY <2>1 DEF TablesOf
  <1> QED
    BY <1>4, <1>5, <1>6, <1>7, <1>8 DEF UpOps

LEMMA StaysWhole ==
    ASSUME NEW s \in Statements, NEW r \in Statements, NEW known \in Schemas,
           r.op = "create table",
           s.on = r.on /\ s.op \in {"create table", "add column", "drop column"} => s = r,
           Whole(r, known)
    PROVE  Whole(r, SeenIn(known, s))
  <1>a. \A i \in Items("column", r.on, r.cols) : i[2] = r.on
    BY ColumnsOf
  <1>b. \A i \in Items("column", s.on, s.cols) : i[2] = s.on /\ i[1] = "column"
    BY ColumnsOf
  <1> SUFFICES ASSUME Key(r.on) \in SeenIn(known, s)
               PROVE  Items("column", r.on, r.cols) \subseteq SeenIn(known, s)
    BY DEF Whole
  <1>1. CASE s = r
    BY <1>1 DEF SeenIn
  <1>2. CASE s # r /\ s.op \in {"create table", "add column", "drop column"}
    <2>1. s.on # r.on
      BY <1>2
    <2>2. /\ Key(r.on) # Key(s.on) /\ Key(r.on)[1] = "table"
          /\ \A i \in Items("column", r.on, r.cols) : i[2] = r.on
          /\ \A i \in Items("column", s.on, s.cols) : i[2] = s.on /\ i[1] = "column"
      <3>1. Key(r.on)[2] = r.on /\ Key(s.on)[2] = s.on /\ Key(r.on)[1] = "table"
        BY DEF Key
      <3>4. Key(r.on) # Key(s.on)
        BY <2>1, <3>1
      <3> QED
        BY <1>a, <1>b, <3>1, <3>4
    <2>3. Key(r.on) \in known
      BY <1>2, <2>1, <2>2 DEF SeenIn
    <2>4. Items("column", r.on, r.cols) \subseteq known
      BY <2>3 DEF Whole
    <2> QED
      BY <1>2, <2>1, <2>2, <2>4 DEF SeenIn
  <1>3. CASE s.op \notin {"create table", "add column", "drop column"}
    BY <1>3 DEF SeenIn, Whole
  <1> QED
    BY <1>1, <1>2, <1>3

LEMMA UpFollows ==
    ASSUME NEW st \in Seq(Statements), NEW known \in Schemas, NEW d \in SUBSET Things, NEW gone,
           \A i \in gone : i[1] = "column",
           TablesOf(d) \ gone = known \ gone,
           GoodUp(st, known), Executed(st, d) # Refused
    PROVE  /\ Executed(st, d) \in SUBSET Things
           /\ TablesOf(Executed(st, d)) \ gone = Read(st, known) \ gone
  <1> DEFINE n == Len(st)
  <1>0. n \in Nat /\ \A i \in 1..n : st[i] \in Statements /\ st[i] \in Range(st)
    BY DEF Range
  <1>1. \A r \in Range(st) : r \in Statements
    BY DEF Range
  <1>2. PICK g : Runs(g, st, d) /\ Executed(st, d) = g[n]
    BY ExecutedIs DEF Databases
  <1>3. PICK h : Reads(h, st, known) /\ Read(st, known) = h[n]
    BY ReadIs
  <1> DEFINE Sound(i) ==
               /\ h[i] \in Schemas
               /\ \A r \in Range(st) : Whole(r, h[i])
               /\ g[i] # Refused =>
                    g[i] \in SUBSET Things /\ TablesOf(g[i]) \ gone = h[i] \ gone
             T == {i \in Nat : i <= n => Sound(i)}
  <1>4. 0 \in T
    <2>1. g[0] = d /\ h[0] = known
      BY <1>2, <1>3 DEF Runs, Reads
    <2>2. \A r \in Range(st) : Whole(r, known)
      BY DEF GoodUp, Whole
    <2> QED
      BY <2>1, <2>2
  <1>5. ASSUME NEW i \in T PROVE i + 1 \in T
    <2> SUFFICES ASSUME i + 1 <= n PROVE Sound(i + 1)
      OBVIOUS
    <2>1. i \in Nat /\ Sound(i) /\ i + 1 \in 1..n /\ i + 1 - 1 = i
      OBVIOUS
    <2> DEFINE s == st[i + 1]
    <2>2. s \in Statements /\ s \in Range(st)
      BY <1>0, <2>1
    <2>3. g[i + 1] = Outcome(s, g[i]) /\ h[i + 1] = SeenIn(h[i], s)
      BY <1>2, <1>3, <2>1 DEF Runs, Reads
    <2> HIDE DEF s, Sound
    <2>4. h[i] \in Schemas /\ \A r \in Range(st) : Whole(r, h[i])
      BY <2>1 DEF Sound
    <2>5. h[i + 1] \in Schemas
      BY <2>2, <2>3, <2>4, SeenIs
    <2>6. ASSUME NEW r \in Range(st) PROVE Whole(r, h[i + 1])
      <3>1. CASE r.op = "create table"
        <4>1. s.on = r.on /\ s.op \in {"create table", "add column", "drop column"} => s = r
          BY <2>2, <3>1 DEF GoodUp
        <4> QED
          BY <1>1, <2>2, <2>3, <2>4, <3>1, <4>1, StaysWhole
      <3>2. CASE r.op # "create table"
        BY <3>2 DEF Whole
      <3> QED
        BY <3>1, <3>2
    <2>7. ASSUME g[i + 1] # Refused
          PROVE  g[i + 1] \in SUBSET Things /\ TablesOf(g[i + 1]) \ gone = h[i + 1] \ gone
      <3>1. g[i] # Refused /\ AcceptsStatement(s, g[i]) /\ g[i + 1] = EffectOf(s, g[i])
        BY <2>3, <2>7 DEF Outcome
      <3>2. g[i] \in SUBSET Things /\ TablesOf(g[i]) \ gone = h[i] \ gone
        BY <2>1, <3>1 DEF Sound
      <3>3. s.op \in UpOps
        BY <2>2 DEF GoodUp
      <3>4. Whole(s, h[i])
        BY <2>2, <2>4
      <3>5. g[i + 1] \in SUBSET Things
        BY <2>2, <3>1, <3>2, EffectIs
      <3>6. TablesOf(EffectOf(s, g[i])) \ gone = SeenIn(h[i], s) \ gone
        BY <2>2, <2>4, <3>1, <3>2, <3>3, <3>4, StepFollows
      <3> QED
        BY <2>3, <3>1, <3>5, <3>6
    <2> QED
      BY <2>5, <2>6, <2>7 DEF Sound
  <1>6. T = Nat
    <2> HIDE DEF T
    <2>1. T \in SUBSET Nat
      BY DEF T
    <2> QED
      BY <1>4, <1>5, <2>1, Induction
  <1>7. Sound(n)
    BY <1>0, <1>6
  <1> QED
    BY <1>2, <1>3, <1>7

-----------------------------------------------------------------------------
(* What a section up adds to the schema and takes from it.                 *)
AddedIn(statements) ==
    UNION {{Key(s.on)} \cup Items("column", s.on, s.cols) :
             s \in {x \in Range(statements) : x.op \in {"create table", "add column"}}}

Closed(known) == \A i \in known : Key(i[2]) \in known

LEMMA StepStaysClosed ==
    ASSUME NEW s \in Statements, NEW known \in Schemas, Closed(known)
    PROVE  Closed(SeenIn(known, s))
  <1>1. /\ Key(s.on)[2] = s.on /\ Key(s.on)[1] = "table"
        /\ \A i \in Items("column", s.on, s.cols) : i[2] = s.on /\ i[1] = "column"
        /\ \A t : Key(t)[1] = "table"
    BY DEF Key, Items
  <1>2. CASE s.op \in {"create table", "add column"}
    BY <1>1, <1>2 DEF SeenIn, Closed
  <1>3. CASE s.op = "drop column"
    BY <1>1, <1>3 DEF SeenIn, Closed
  <1>4. CASE s.op \notin {"create table", "add column", "drop column"}
    BY <1>4 DEF SeenIn
  <1> QED
    BY <1>2, <1>3, <1>4

LEMMA ReadSpans ==
    ASSUME NEW st \in Seq(Statements), NEW known \in Schemas, Closed(known)
    PROVE  /\ Read(st, known) \in Schemas /\ Closed(Read(st, known))
           /\ Read(st, known) \subseteq known \cup AddedIn(st)
           /\ known \subseteq Read(st, known) \cup DroppedIn(st)
  <1> DEFINE n == Len(st)
             Sound(k) == /\ k \in Schemas /\ Closed(k)
                         /\ k \subseteq known \cup AddedIn(st)
                         /\ known \subseteq k \cup DroppedIn(st)
  <1>0. n \in Nat /\ \A i \in 1..n : st[i] \in Statements /\ st[i] \in Range(st)
    BY DEF Range
  <1>1. PICK h : Reads(h, st, known) /\ Read(st, known) = h[n]
    BY ReadIs
  <1> DEFINE T == {i \in Nat : i <= n => Sound(h[i])}
  <1>2. 0 \in T
    BY <1>1 DEF Reads
  <1>3. ASSUME NEW i \in T PROVE i + 1 \in T
    <2> SUFFICES ASSUME i + 1 <= n PROVE Sound(h[i + 1])
      OBVIOUS
    <2>1. i \in Nat /\ Sound(h[i]) /\ i + 1 \in 1..n /\ i + 1 - 1 = i
      OBVIOUS
    <2> DEFINE s == st[i + 1]
    <2>2. s \in Statements /\ s \in Range(st)
      BY <1>0, <2>1
    <2>3. h[i + 1] = SeenIn(h[i], s)
      BY <1>1, <2>1 DEF Reads
    <2> HIDE DEF s
    <2>4. SeenIn(h[i], s) \in Schemas /\ Closed(SeenIn(h[i], s))
      BY <2>1, <2>2, SeenIs, StepStaysClosed
    <2>5. SeenIn(h[i], s) \subseteq h[i] \cup AddedIn(st)
      <3>1. s.op \in {"create table", "add column"} =>
              {Key(s.on)} \cup Items("column", s.on, s.cols) \subseteq AddedIn(st)
        BY <2>2 DEF AddedIn
      <3> QED
        BY <3>1 DEF SeenIn
    <2>6. h[i] \subseteq SeenIn(h[i], s) \cup DroppedIn(st)
      <3>1. s.op = "drop column" => Items("column", s.on, s.cols) \subseteq DroppedIn(st)
        BY <2>2 DEF DroppedIn
      <3> QED
        BY <3>1 DEF SeenIn
    <2> QED
      BY <2>1, <2>3, <2>4, <2>5, <2>6
  <1>4. T = Nat
    <2> HIDE DEF T
    <2>1. T \in SUBSET Nat
      BY DEF T
    <2> QED
      BY <1>2, <1>3, <2>1, Induction
  <1> QED
    BY <1>0, <1>1, <1>4

(* What a section down takes from a database.                              *)
DownOps == {"drop index", "drop fts", "drop column", "drop table"}

Takes(s) ==
    IF s.op = "drop column" THEN Items("column", s.on, s.cols)
    ELSE {i \in Things : s.op = "drop table" /\ i[1] \in {"table", "column"} /\ i[2] = s.on}

TakenBy(down) == UNION {Takes(s) : s \in Range(down)}

LEMMA StepTakes ==
    ASSUME NEW s \in Statements, NEW d \in SUBSET Things, s.op \in DownOps
    PROVE  TablesOf(EffectOf(s, d)) = TablesOf(d) \ Takes(s)
  <1>1. CASE s.op \in {"drop index", "drop fts"}
    <2>1. \A k \in {"index", "fts"} : \A i \in Items(k, s.on, s.cols) : i[1] = k
      BY DEF Items
    <2>2. \E k \in {"index", "fts"} : EffectOf(s, d) = d \ Items(k, s.on, s.cols)
      BY <1>1 DEF EffectOf
    <2>3. Takes(s) = {}
      BY <1>1 DEF Takes
    <2> QED
      BY <2>1, <2>2, <2>3 DEF TablesOf
  <1>2. CASE s.op = "drop column"
    <2>1. EffectOf(s, d) = d \ Items("column", s.on, s.cols)
      BY <1>2 DEF EffectOf
    <2> QED
      BY <1>2, <2>1 DEF TablesOf, Takes
  <1>3. CASE s.op = "drop table"
    <2>1. EffectOf(s, d) = {i \in d : i[2] # s.on \/ i[1] = "fts"}
      BY <1>3 DEF EffectOf
    <2>2. Takes(s) = {i \in Things : i[1] \in {"table", "column"} /\ i[2] = s.on}
      BY <1>3 DEF Takes
    <2> QED
      BY <2>1, <2>2 DEF TablesOf
  <1> QED
    BY <1>1, <1>2, <1>3 DEF DownOps

LEMMA DownTakes ==
    ASSUME NEW down \in Seq(Statements), NEW d \in SUBSET Things,
           \A s \in Range(down) : s.op \in DownOps, Executed(down, d) # Refused
    PROVE  /\ Executed(down, d) \in SUBSET Things
           /\ TablesOf(Executed(down, d)) = TablesOf(d) \ TakenBy(down)
  <1> DEFINE n == Len(down)
             taken(i) == UNION {Takes(down[j]) : j \in 1..i}
  <1>0. n \in Nat /\ \A i \in 1..n : down[i] \in Statements /\ down[i] \in Range(down)
    BY DEF Range
  <1>2. PICK g : Runs(g, down, d) /\ Executed(down, d) = g[n]
    BY ExecutedIs DEF Databases
  <1> DEFINE Sound(i) ==
               g[i] # Refused =>
                 g[i] \in SUBSET Things /\ TablesOf(g[i]) = TablesOf(d) \ taken(i)
             T == {i \in Nat : i <= n => Sound(i)}
  <1>4. 0 \in T
    <2>1. g[0] = d
      BY <1>2 DEF Runs
    <2>2. taken(0) = {}
      OBVIOUS
    <2> QED
      BY <2>1, <2>2
  <1>5. ASSUME NEW i \in T PROVE i + 1 \in T
    <2> SUFFICES ASSUME i + 1 <= n, g[i + 1] # Refused
                 PROVE  /\ g[i + 1] \in SUBSET Things
                        /\ TablesOf(g[i + 1]) = TablesOf(d) \ taken(i + 1)
      OBVIOUS
    <2>1. i \in Nat /\ Sound(i) /\ i + 1 \in 1..n /\ i + 1 - 1 = i
      OBVIOUS
    <2> DEFINE s == down[i + 1]
    <2>2. s \in Statements /\ s \in Range(down)
      BY <1>0, <2>1
    <2>3. g[i + 1] = Outcome(s, g[i])
      BY <1>2, <2>1 DEF Runs
    <2>4. taken(i + 1) = taken(i) \cup Takes(s)
      <3>1. 1..i + 1 = (1..i) \cup {i + 1}
        BY <2>1
      <3> QED
        BY <3>1
    <2> HIDE DEF s, taken
    <2>5. g[i] # Refused /\ g[i + 1] = EffectOf(s, g[i])
      BY <2>3 DEF Outcome
    <2>6. g[i] \in SUBSET Things /\ TablesOf(g[i]) = TablesOf(d) \ taken(i)
      BY <2>1, <2>5
    <2>7. TablesOf(EffectOf(s, g[i])) = TablesOf(g[i]) \ Takes(s)
      BY <2>2, <2>6, StepTakes
    <2>8. EffectOf(s, g[i]) \in SUBSET Things
      BY <2>2, <2>6, EffectIs
    <2> QED
      BY <2>4, <2>5, <2>6, <2>7, <2>8
  <1>6. T = Nat
    <2> HIDE DEF T
    <2>1. T \in SUBSET Nat
      BY DEF T
    <2> QED
      BY <1>4, <1>5, <2>1, Induction
  <1>7. taken(n) = TakenBy(down)
    BY <1>0 DEF TakenBy, Range
  <1> HIDE DEF taken
  <1>8. Sound(n)
    <2>1. n \in T
      BY <1>0, <1>6
    <2> QED
      BY <1>0, <2>1
  <1> QED
    BY <1>2, <1>7, <1>8

-----------------------------------------------------------------------------
(* The schema after the first files.                                       *)
Sane == {known \in Schemas : Closed(known)}

Knows(h, fs) == h[0] = {} /\ \A i \in 1..Len(fs) : h[i] = Read(fs[i].up, h[i - 1])

LEMMA FileReads ==
    ASSUME NEW f \in MigrationFiles, NEW known \in Sane
    PROVE  Read(f.up, known) \in Sane /\ ReadUp(f) = f.up /\ f.up \in Seq(Statements)
  <1>1. f.up \in Seq(Statements)
    BY DEF MigrationFiles
  <1> QED
    BY <1>1, ReadSpans DEF Sane, ReadUp

LEMMA SchemaInIs ==
    ASSUME NEW fs \in Seq(MigrationFiles)
    PROVE  \E h : Knows(h, fs) /\ SchemaIn(fs) = h[Len(fs)]
  <1> DEFINE n == Len(fs)
             empty == {}
             step == [p \in Nat \X Sane |->
                        IF p[1] + 1 \in 1..n THEN Read(fs[p[1] + 1].up, p[2]) ELSE p[2]]
             Def(g) == [i \in 0..n |-> IF i = 0 THEN empty ELSE Read(ReadUp(fs[i]), g[i - 1])]
             known == CHOOSE g : g = Def(g)
  <1>0. n \in Nat /\ \A i \in 1..n : fs[i] \in MigrationFiles
    OBVIOUS
  <1>a. empty \in Sane
    BY DEF Sane, Schemas, Closed
  <1>b. \A i \in 1..n : ReadUp(fs[i]) = fs[i].up
    BY DEF ReadUp
  <1> HIDE DEF empty
  <1>1. step \in [Nat \X Sane -> Sane]
    BY <1>0, FileReads
  <1>2. PICK h \in [Nat -> Sane] :
          h[0] = empty /\ \A k \in Nat : h[k + 1] = step[<<k, h[k]>>]
    <2> HIDE DEF step
    <2>1. Recurs(Sane, empty, step)
      BY <1>a, <1>1, Recursion
    <2> QED
      BY <2>1 DEF Recurs
  <1>3. ASSUME NEW i \in 1..n PROVE h[i] = Read(ReadUp(fs[i]), h[i - 1])
    <2>1. i - 1 \in Nat /\ i - 1 + 1 = i
      OBVIOUS
    <2>2. h[i] = step[<<i - 1, h[i - 1]>>]
      BY <1>2, <2>1
    <2> QED
      BY <1>b, <2>1, <2>2
  <1> DEFINE k == [i \in 0..n |-> h[i]]
  <1>4. k = Def(k)
    <2>1. ASSUME NEW i \in 0..n, i # 0 PROVE h[i] = Read(ReadUp(fs[i]), k[i - 1])
      <3>1. i \in 1..n /\ i - 1 \in 0..n
        BY <2>1
      <3> QED
        BY <1>3, <3>1
    <2> QED
      BY <1>2, <2>1
  <1>5. known = Def(known)
    BY <1>4
  <1>6. SchemaIn(fs) = known[n]
    BY DEF SchemaIn, empty
  <1> HIDE DEF known
  <1>7. Knows(known, fs)
    <2>1. known[0] = empty
      BY <1>0, <1>5
    <2>2. ASSUME NEW i \in 1..n PROVE known[i] = Read(fs[i].up, known[i - 1])
      BY <1>5, <1>b
    <2> QED
      BY <2>1, <2>2 DEF Knows, empty
  <1> QED
    BY <1>6, <1>7

LEMMA KnowsOnce ==
    ASSUME NEW fs \in Seq(MigrationFiles), NEW gs \in Seq(MigrationFiles),
           NEW n \in Nat, n <= Len(fs), n <= Len(gs), Agree(fs, gs, n),
           NEW h, NEW g, Knows(h, fs), Knows(g, gs)
    PROVE  h[n] = g[n]
  <1> DEFINE T == {i \in Nat : i <= n => h[i] = g[i]}
  <1>1. 0 \in T
    BY DEF Knows
  <1>2. ASSUME NEW i \in T PROVE i + 1 \in T
    <2> SUFFICES ASSUME i + 1 <= n PROVE h[i + 1] = g[i + 1]
      OBVIOUS
    <2>1. /\ i + 1 \in 1..n /\ i + 1 - 1 = i /\ h[i] = g[i]
          /\ i + 1 \in 1..Len(fs) /\ i + 1 \in 1..Len(gs)
      OBVIOUS
    <2> QED
      BY <2>1 DEF Knows, Agree
  <1>3. T = Nat
    <2> HIDE DEF T
    <2>1. T \in SUBSET Nat
      BY DEF T
    <2> QED
      BY <1>1, <1>2, <2>1, Induction
  <1> QED
    BY <1>3

SchemaAt(fs, n) == SchemaIn(SubSeq(fs, 1, n))

LEMMA PrefixIs ==
    ASSUME NEW fs \in Seq(MigrationFiles), NEW n \in 0..Len(fs)
    PROVE  /\ SubSeq(fs, 1, n) \in Seq(MigrationFiles) /\ Len(SubSeq(fs, 1, n)) = n
           /\ Agree(SubSeq(fs, 1, n), fs, n)
  BY DEF Agree

LEMMA SchemaAtIs ==
    ASSUME NEW fs \in Seq(MigrationFiles)
    PROVE  /\ \A n \in 0..Len(fs) : SchemaAt(fs, n) \in Sane
           /\ \A n \in 1..Len(fs) : SchemaAt(fs, n) = Read(fs[n].up, SchemaAt(fs, n - 1))
           /\ SchemaAt(fs, Len(fs)) = SchemaIn(fs) /\ SchemaAt(fs, 0) = {}
  <1>0. Len(fs) \in Nat /\ \A i \in 1..Len(fs) : fs[i] \in MigrationFiles
    OBVIOUS
  <1>1. PICK h : Knows(h, fs) /\ SchemaIn(fs) = h[Len(fs)]
    BY SchemaInIs
  <1>2. ASSUME NEW n \in 0..Len(fs) PROVE SchemaAt(fs, n) = h[n]
    <2> DEFINE gs == SubSeq(fs, 1, n)
    <2>1. gs \in Seq(MigrationFiles) /\ Len(gs) = n /\ Agree(gs, fs, n)
      BY PrefixIs
    <2> HIDE DEF gs
    <2>2. PICK g : Knows(g, gs) /\ SchemaIn(gs) = g[n]
      BY <2>1, SchemaInIs
    <2>3. n \in Nat /\ n <= Len(fs) /\ n <= Len(gs)
      BY <1>0, <2>1
    <2>4. g[n] = h[n]
      BY <1>1, <2>1, <2>2, <2>3, KnowsOnce
    <2> QED
      BY <2>2, <2>4 DEF SchemaAt, gs
  <1>3. ASSUME NEW n \in 1..Len(fs)
        PROVE  SchemaAt(fs, n) = Read(fs[n].up, SchemaAt(fs, n - 1))
    <2>1. n \in 0..Len(fs) /\ n - 1 \in 0..Len(fs)
      OBVIOUS
    <2>2. h[n] = Read(fs[n].up, h[n - 1])
      BY <1>1 DEF Knows
    <2> QED
      BY <1>2, <2>1, <2>2
  <1>4. SchemaAt(fs, 0) = {}
    BY <1>0, <1>1, <1>2 DEF Knows
  <1>5. SchemaAt(fs, Len(fs)) = SchemaIn(fs)
    BY <1>0, <1>1, <1>2
  <1>6. \A n \in 0..Len(fs) : SchemaAt(fs, n) \in Sane
    <2> DEFINE T == {n \in Nat : n <= Len(fs) => SchemaAt(fs, n) \in Sane}
    <2>1. 0 \in T
      BY <1>4 DEF Sane, Schemas, Closed
    <2>2. ASSUME NEW n \in T PROVE n + 1 \in T
      <3> SUFFICES ASSUME n + 1 <= Len(fs) PROVE SchemaAt(fs, n + 1) \in Sane
        OBVIOUS
      <3>1. n + 1 \in 1..Len(fs) /\ n + 1 - 1 = n /\ SchemaAt(fs, n) \in Sane
        BY <1>0
      <3>2. SchemaAt(fs, n + 1) = Read(fs[n + 1].up, SchemaAt(fs, n))
        BY <1>3, <3>1
      <3> QED
        BY <1>0, <3>1, <3>2, FileReads
    <2>3. T = Nat
      <3> HIDE DEF T
      <3>1. T \in SUBSET Nat
        BY DEF T
      <3> QED
        BY <2>1, <2>2, <3>1, Induction
    <2> QED
      BY <1>0, <2>3
  <1> QED
    BY <1>3, <1>4, <1>5, <1>6

LEMMA SamePrefix ==
    ASSUME NEW fs \in Seq(MigrationFiles), NEW gs \in Seq(MigrationFiles),
           NEW n \in Nat, n <= Len(fs), n <= Len(gs), Agree(fs, gs, n)
    PROVE  SchemaAt(fs, n) = SchemaAt(gs, n)
  <1>1. SubSeq(fs, 1, n) = SubSeq(gs, 1, n)
    BY DEF Agree
  <1> QED
    BY <1>1 DEF SchemaAt

-----------------------------------------------------------------------------
(* A file of which the schema before it says that it is as generated, but  *)
(* for comments that have been taken into its section up.                  *)
GoodFile(f, known) ==
    /\ GoodUp(f.up, known)
    /\ \A s \in Range(f.comments) : s.op = "drop column" /\ Key(s.on) \in known
    /\ \A s \in Range(f.down) : s.op \in DownOps
    /\ AddedIn(f.up) \subseteq known \cup TakenBy(f.down)
    /\ TakenBy(f.down) \cap known = {}

LEMMA CommentsIn ==
    ASSUME NEW f \in MigrationFiles, NEW known, GoodFile(f, known),
           NEW g \in MigrationFiles, g = Uncommented(f)
    PROVE  GoodFile(g, known)
  <1>0. f.up \in Seq(Statements) /\ f.comments \in Seq(Statements)
    BY DEF MigrationFiles
  <1>1. g.up = f.up \o f.comments /\ g.comments = <<>> /\ g.down = f.down
    BY DEF MigrationFiles, Uncommented
  <1>2. Range(g.up) = Range(f.up) \cup Range(f.comments)
    BY <1>0, <1>1, RangeCat
  <1>3. Range(g.comments) = {}
    BY <1>1 DEF Range
  <1>4. \A s \in Range(f.comments) : s.op = "drop column" /\ Key(s.on) \in known
    BY DEF GoodFile
  <1>5. GoodUp(g.up, known)
    <2> SUFFICES ASSUME NEW s \in Range(g.up)
                 PROVE  /\ s.op \in UpOps
                        /\ s.op = "create table" =>
                             /\ Key(s.on) \notin known
                             /\ \A r \in Range(g.up) : r.on = s.on
                                  /\ r.op \in {"create table", "add column", "drop column"} => r = s
      BY DEF GoodUp
    <2>1. CASE s \in Range(f.comments)
      BY <1>4, <2>1 DEF UpOps
    <2>2. CASE s \in Range(f.up)
      <3>1. /\ s.op \in UpOps
            /\ s.op = "create table" =>
                 /\ Key(s.on) \notin known
                 /\ \A r \in Range(f.up) : r.on = s.on
                      /\ r.op \in {"create table", "add column", "drop column"} => r = s
        BY <2>2 DEF GoodFile, GoodUp
      <3>2. ASSUME s.op = "create table", NEW r \in Range(f.comments) PROVE r.on # s.on
        BY <1>4, <3>1, <3>2
      <3> QED
        BY <1>2, <3>1, <3>2
    <2> QED
      BY <1>2, <2>1, <2>2
  <1>6. AddedIn(g.up) = AddedIn(f.up)
    BY <1>2, <1>4 DEF AddedIn
  <1> QED
    BY <1>1, <1>3, <1>5, <1>6 DEF GoodFile

-----------------------------------------------------------------------------
(* What makemigrations writes.                                             *)

LEMMA InOrderIs ==
    ASSUME NEW U, NEW seq \in Seq(U), NEW S
    PROVE  /\ InOrder(seq, S) \in Seq(U)
           /\ \A x : x \in Range(InOrder(seq, S)) <=> x \in Range(seq) /\ x \in S
  <1> DEFINE F == [e \in U |-> If(e \in S, e)]
  <1>1. F \in [U -> Seq(U)] /\ \A e \in U : Range(F[e]) = IF e \in S THEN {e} ELSE {}
    <2>1. ASSUME NEW e \in U
          PROVE  If(e \in S, e) \in Seq(U) /\ Range(If(e \in S, e)) = IF e \in S THEN {e} ELSE {}
      <3>1. CASE e \in S
        <4>1. If(e \in S, e) = <<e>>
          BY <3>1 DEF If
        <4>2. <<e>> \in Seq(U) /\ Range(<<e>>) = {e}
          BY DEF Range
        <4> QED
          BY <3>1, <4>1, <4>2
      <3>2. CASE e \notin S
        <4>1. If(e \in S, e) = <<>>
          BY <3>2 DEF If
        <4>2. <<>> \in Seq(U) /\ Range(<<>>) = {}
          BY DEF Range
        <4> QED
          BY <3>2, <4>1, <4>2
      <3> QED
        BY <3>1, <3>2
    <2> QED
      BY <2>1
  <1>2. InOrder(seq, S) = Joined(F, seq)
    <2>1. \A i \in DOMAIN seq : seq[i] \in U
      OBVIOUS
    <2>2. [i \in DOMAIN seq |-> If(seq[i] \in S, seq[i])] = [i \in DOMAIN seq |-> F[seq[i]]]
      BY <2>1
    <2> QED
      BY <2>2 DEF InOrder, Each, Joined
  <1> HIDE DEF F
  <1>3. /\ Joined(F, seq) \in Seq(U)
        /\ \A x : x \in Range(Joined(F, seq)) <=> \E e \in Range(seq) : x \in Range(F[e])
    <2>1. F \in [U -> Seq(U)]
      BY <1>1
    <2> QED
      BY ONLY <2>1, seq \in Seq(U), RangeJoined
  <1>4. Range(seq) \subseteq U
    BY RangeIs
  <1>5. ASSUME NEW x PROVE x \in Range(InOrder(seq, S)) <=> x \in Range(seq) /\ x \in S
    <2>1. x \in Range(InOrder(seq, S)) <=> \E e \in Range(seq) : x \in Range(F[e])
      BY <1>2, <1>3
    <2>2. \A e \in Range(seq) : x \in Range(F[e]) <=> e \in S /\ x = e
      BY <1>1, <1>4
    <2> QED
      BY <2>1, <2>2
  <1> QED
    BY <1>2, <1>3, <1>5

LEMMA OneIs ==
    /\ <<>> \in Seq(Statements) /\ Range(<<>>) = {}
    /\ \A s \in Statements : <<s>> \in Seq(Statements) /\ Range(<<s>>) = {s}
  BY DEF Range

IndexOps == {"unique index", "index", "fts"}
DropOps == {"drop index", "drop fts"}

LEMMA StatementIs ==
    ASSUME NEW op \in Ops, NEW t \in ModelTables, NEW cols \in SUBSET ModelColumns
    PROVE  /\ Statement(op, t, cols) \in Statements
           /\ Statement(op, t, cols).op = op /\ Statement(op, t, cols).on = t
           /\ Statement(op, t, cols).cols = cols
  BY DEF Statement, Statements

LEMMA IndexesAre ==
    ASSUME NEW t \in ModelTables, NEW c \in ModelColumns
    PROVE  /\ IndexesOf(t, c) \in Seq(Statements)
           /\ \A s \in Range(IndexesOf(t, c)) : s.op \in IndexOps /\ s.on = t
           /\ DropIndexesOf(t, c) \in Seq(Statements)
           /\ \A s \in Range(DropIndexesOf(t, c)) : s.op \in DropOps /\ s.on = t
  <1> DEFINE st(op) == Statement(op, t, {c})
             u == If(c \in Uniques, st("unique index"))
             i == If(c \in DOMAIN References[t] \ Uniques, st("index"))
             f == If(c \in Searched, st("fts"))
             df == If(c \in Searched, st("drop fts"))
             di == If(c \in Uniques \cup DOMAIN References[t], st("drop index"))
  <1>1. \A op \in Ops : st(op) \in Statements /\ st(op).op = op /\ st(op).on = t
    BY StatementIs
  <1>2. u \in Seq(Statements) /\ Range(u) \subseteq {st("unique index")}
    <2> HIDE DEF st
    <2>1. u = <<st("unique index")>> \/ u = <<>>
      BY DEF If
    <2>2. st("unique index") \in Statements
      BY <1>1 DEF Ops
    <2> HIDE DEF u
    <2> QED
      BY <2>1, <2>2, OneIs
  <1>3. i \in Seq(Statements) /\ Range(i) \subseteq {st("index")}
    <2> HIDE DEF st
    <2>1. i = <<st("index")>> \/ i = <<>>
      BY DEF If
    <2>2. st("index") \in Statements
      BY <1>1 DEF Ops
    <2> HIDE DEF i
    <2> QED
      BY <2>1, <2>2, OneIs
  <1>4. f \in Seq(Statements) /\ Range(f) \subseteq {st("fts")}
    <2> HIDE DEF st
    <2>1. f = <<st("fts")>> \/ f = <<>>
      BY DEF If
    <2>2. st("fts") \in Statements
      BY <1>1 DEF Ops
    <2> HIDE DEF f
    <2> QED
      BY <2>1, <2>2, OneIs
  <1>5. df \in Seq(Statements) /\ Range(df) \subseteq {st("drop fts")}
    <2> HIDE DEF st
    <2>1. df = <<st("drop fts")>> \/ df = <<>>
      BY DEF If
    <2>2. st("drop fts") \in Statements
      BY <1>1 DEF Ops
    <2> HIDE DEF df
    <2> QED
      BY <2>1, <2>2, OneIs
  <1>6. di \in Seq(Statements) /\ Range(di) \subseteq {st("drop index")}
    <2> HIDE DEF st
    <2>1. di = <<st("drop index")>> \/ di = <<>>
      BY DEF If
    <2>2. st("drop index") \in Statements
      BY <1>1 DEF Ops
    <2> HIDE DEF di
    <2> QED
      BY <2>1, <2>2, OneIs
  <1> DEFINE ui == u \o i
  <1>7. IndexesOf(t, c) = ui \o f /\ DropIndexesOf(t, c) = df \o di
    BY DEF IndexesOf, DropIndexesOf
  <1> HIDE DEF u, i, f, df, di
  <1>8. ui \in Seq(Statements) /\ Range(ui) = Range(u) \cup Range(i)
    <2>1. PICK v \in Seq(Statements), w \in Seq(Statements) : v = u /\ w = i
      BY <1>2, <1>3
    <2>2. v \o w \in Seq(Statements) /\ Range(v \o w) = Range(v) \cup Range(w)
      BY ONLY v \in Seq(Statements), w \in Seq(Statements), RangeCat
    <2> QED
      BY <2>1, <2>2
  <1> HIDE DEF ui
  <1>9. ui \o f \in Seq(Statements) /\ Range(ui \o f) = Range(ui) \cup Range(f)
    <2>1. PICK v \in Seq(Statements), w \in Seq(Statements) : v = ui /\ w = f
      BY <1>4, <1>8
    <2>2. v \o w \in Seq(Statements) /\ Range(v \o w) = Range(v) \cup Range(w)
      BY ONLY v \in Seq(Statements), w \in Seq(Statements), RangeCat
    <2> QED
      BY <2>1, <2>2
  <1>10. df \o di \in Seq(Statements) /\ Range(df \o di) = Range(df) \cup Range(di)
    <2>1. PICK v \in Seq(Statements), w \in Seq(Statements) : v = df /\ w = di
      BY <1>5, <1>6
    <2>2. v \o w \in Seq(Statements) /\ Range(v \o w) = Range(v) \cup Range(w)
      BY ONLY v \in Seq(Statements), w \in Seq(Statements), RangeCat
    <2> QED
      BY <2>1, <2>2
  <1>11. \A s \in Range(IndexesOf(t, c)) :
            s \in {st("unique index"), st("index"), st("fts")}
    BY <1>2, <1>3, <1>4, <1>7, <1>8, <1>9
  <1>12. \A s \in Range(DropIndexesOf(t, c)) : s \in {st("drop fts"), st("drop index")}
    BY <1>5, <1>6, <1>7, <1>10
  <1> HIDE DEF st
  <1> QED
    BY <1>1, <1>7, <1>9, <1>10, <1>11, <1>12 DEF IndexOps, DropOps, Ops

DeclaredOK == declared \in [ModelTables -> (SUBSET ModelColumns) \cup {Gone}]
Modelled(t) == t \in ModelTables /\ declared[t] \in SUBSET ModelColumns

LEMMA OrdersAre ==
    ASSUME DeclaredOK
    PROVE  /\ \A ts \in {PendingModels, Alters} :
                ts \in Seq(ModelTables) /\ \A t \in Range(ts) : Modelled(t)
           /\ \A t \in Range(PendingModels) : Key(t) \notin KnownSchema
           /\ \A t \in Range(Alters) : Key(t) \in KnownSchema
  <1>1. ModelOrder \in Seq(ModelTables) /\ Range(ModelOrder) = ModelTables
    BY MakeAssumption DEF ModelTables
  <1> DEFINE P == {t \in ModelTables : declared[t] # Gone /\ Key(t) \notin KnownSchema}
             A == {t \in ModelTables : declared[t] # Gone /\ Key(t) \in KnownSchema}
  <1>2. \A t \in P \cup A : Modelled(t)
    BY DEF DeclaredOK, Modelled
  <1>3. PendingModels = InOrder(ModelOrder, P) /\ Alters = InOrder(ModelOrder, A)
    BY DEF PendingModels, Alters
  <1>a. (\A t \in P : Key(t) \notin KnownSchema) /\ (\A t \in A : Key(t) \in KnownSchema)
    OBVIOUS
  <1> HIDE DEF P, A
  <1>4. PendingModels \in Seq(ModelTables) /\ \A t \in Range(PendingModels) : t \in P
    BY <1>1, <1>3, InOrderIs
  <1>5. Alters \in Seq(ModelTables) /\ \A t \in Range(Alters) : t \in A
    BY <1>1, <1>3, InOrderIs
  <1> QED
    BY <1>2, <1>4, <1>5, <1>a

LEMMA ColumnsAre ==
    /\ ColumnOrder \in Seq(ModelColumns) /\ Range(ColumnOrder) = ModelColumns
    /\ \A S : InOrder(ColumnOrder, S) \in Seq(ModelColumns)
    /\ \A S, c : c \in Range(InOrder(ColumnOrder, S)) <=> c \in ModelColumns /\ c \in S
  <1>1. ColumnOrder \in Seq(ModelColumns) /\ Range(ColumnOrder) = ModelColumns
    BY MakeAssumption DEF ModelColumns
  <1>2. ASSUME NEW S
        PROVE  /\ InOrder(ColumnOrder, S) \in Seq(ModelColumns)
               /\ \A c : c \in Range(InOrder(ColumnOrder, S)) <=> c \in ModelColumns /\ c \in S
    BY <1>1, InOrderIs
  <1> QED
    BY <1>1, <1>2

LEMMA CreateModelIs ==
    ASSUME NEW t, Modelled(t)
    PROVE  /\ CreateModel(t) \in Seq(Statements)
           /\ \A s \in Range(CreateModel(t)) :
                \/ s = Statement("create table", t, declared[t])
                \/ s.op \in IndexOps /\ s.on = t
  <1> DEFINE F == [c \in ModelColumns |-> IndexesOf(t, c)]
             create == Statement("create table", t, declared[t])
  <1>0. t \in ModelTables /\ create \in Statements
    BY StatementIs DEF Modelled, Ops
  <1>1. F \in [ModelColumns -> Seq(Statements)]
    BY <1>0, IndexesAre
  <1>2. Fields(t) \in Seq(ModelColumns)
    BY ColumnsAre DEF Fields
  <1>3. Each(LAMBDA c : IndexesOf(t, c), Fields(t)) = Joined(F, Fields(t))
    <2>1. \A i \in DOMAIN Fields(t) : Fields(t)[i] \in ModelColumns
      BY <1>2
    <2>2. [i \in DOMAIN Fields(t) |-> IndexesOf(t, Fields(t)[i])]
            = [i \in DOMAIN Fields(t) |-> F[Fields(t)[i]]]
      BY <2>1
    <2> QED
      BY <2>2 DEF Each, Joined
  <1>4. \A c \in ModelColumns : \A s \in Range(F[c]) : s.op \in IndexOps /\ s.on = t
    BY <1>0, IndexesAre
  <1> HIDE DEF F
  <1>5. /\ Joined(F, Fields(t)) \in Seq(Statements)
        /\ \A x : x \in Range(Joined(F, Fields(t)))
                    <=> \E e \in Range(Fields(t)) : x \in Range(F[e])
    BY <1>1, <1>2, RangeJoined
  <1>6. Range(Fields(t)) \subseteq ModelColumns
    BY <1>2, RangeIs
  <1>7. <<create>> \in Seq(Statements) /\ Range(<<create>>) = {create}
    <2> HIDE DEF create
    <2> QED
      BY <1>0, OneIs
  <1>8. CreateModel(t) = <<create>> \o Joined(F, Fields(t))
    BY <1>3 DEF CreateModel
  <1> DEFINE first == <<create>>
             rest == Joined(F, Fields(t))
  <1>9. /\ first \o rest \in Seq(Statements)
        /\ Range(first \o rest) = Range(first) \cup Range(rest)
    <2> HIDE DEF first, rest
    <2>1. first \in Seq(Statements) /\ rest \in Seq(Statements)
      BY <1>5, <1>7 DEF first, rest
    <2> QED
      BY <2>1, RangeCat
  <1> HIDE DEF create
  <1>10. \A s \in Range(Joined(F, Fields(t))) : s.op \in IndexOps /\ s.on = t
    BY <1>4, <1>5, <1>6
  <1> QED
    BY <1>7, <1>8, <1>9, <1>10 DEF create

LEMMA AddColumnsIs ==
    ASSUME NEW t, Modelled(t)
    PROVE  /\ AddColumns(t) \in Seq(Statements)
           /\ \A s \in Range(AddColumns(t)) :
                \/ \E c \in Range(Added(t)) : s = Statement("add column", t, {c})
                \/ s.op \in IndexOps /\ s.on = t
  <1> DEFINE add(c) == Statement("add column", t, {c})
             F == [c \in ModelColumns |-> <<add(c)>> \o IndexesOf(t, c)]
  <1>0. t \in ModelTables /\ \A c \in ModelColumns : add(c) \in Statements
    <2>1. t \in ModelTables /\ "add column" \in Ops
      BY DEF Modelled, Ops
    <2>2. ASSUME NEW c \in ModelColumns PROVE add(c) \in Statements
      <3>1. {c} \in SUBSET ModelColumns
        OBVIOUS
      <3> QED
        BY <2>1, <3>1, StatementIs
    <2> QED
      BY <2>1, <2>2
  <1>1. ASSUME NEW c \in ModelColumns
        PROVE  /\ <<add(c)>> \o IndexesOf(t, c) \in Seq(Statements)
               /\ \A s \in Range(<<add(c)>> \o IndexesOf(t, c)) :
                    s = add(c) \/ (s.op \in IndexOps /\ s.on = t)
    <2> HIDE DEF add
    <2>1. <<add(c)>> \in Seq(Statements) /\ Range(<<add(c)>>) = {add(c)}
      BY <1>0, OneIs
    <2>2. /\ IndexesOf(t, c) \in Seq(Statements)
          /\ \A s \in Range(IndexesOf(t, c)) : s.op \in IndexOps /\ s.on = t
      BY <1>0, IndexesAre
    <2> DEFINE first == <<add(c)>>
               rest == IndexesOf(t, c)
    <2>3. first \o rest \in Seq(Statements) /\ Range(first \o rest) = Range(first) \cup Range(rest)
      <3>1. first \in Seq(Statements) /\ rest \in Seq(Statements)
        BY <2>1, <2>2
      <3> HIDE DEF first, rest
      <3> QED
        BY <3>1, RangeCat
    <2>4. Range(first) = {add(c)}
      BY <2>1
    <2>5. \A s \in Range(rest) : s.op \in IndexOps /\ s.on = t
      BY <2>2
    <2>6. first \o rest = <<add(c)>> \o IndexesOf(t, c)
      OBVIOUS
    <2> HIDE DEF first, rest
    <2>7. \A s \in Range(first \o rest) : s = add(c) \/ (s.op \in IndexOps /\ s.on = t)
      BY <2>3, <2>4, <2>5
    <2> QED
      BY <2>3, <2>6, <2>7
  <1>2. Added(t) \in Seq(ModelColumns)
    BY ColumnsAre DEF Added
  <1>3. AddColumns(t) = Joined(F, Added(t))
    <2>1. \A i \in DOMAIN Added(t) : Added(t)[i] \in ModelColumns
      BY <1>2
    <2>2. [i \in DOMAIN Added(t) |-> <<add(Added(t)[i])>> \o IndexesOf(t, Added(t)[i])]
            = [i \in DOMAIN Added(t) |-> F[Added(t)[i]]]
      BY <2>1
    <2> QED
      BY <2>2 DEF AddColumns, Each, Joined
  <1> HIDE DEF add
  <1>4. F \in [ModelColumns -> Seq(Statements)]
    BY <1>1
  <1>5. \A c \in ModelColumns : \A s \in Range(F[c]) : s = add(c) \/ (s.op \in IndexOps /\ s.on = t)
    BY <1>1
  <1> HIDE DEF F
  <1>6. /\ Joined(F, Added(t)) \in Seq(Statements)
        /\ \A x : x \in Range(Joined(F, Added(t))) <=> \E e \in Range(Added(t)) : x \in Range(F[e])
    BY <1>2, <1>4, RangeJoined
  <1>7. Range(Added(t)) \subseteq ModelColumns
    BY <1>2, RangeIs
  <1> QED
    BY <1>3, <1>5, <1>6, <1>7 DEF add

LEMMA DropModelIs ==
    ASSUME NEW t, Modelled(t)
    PROVE  /\ DropModel(t) \in Seq(Statements)
           /\ Statement("drop table", t, {}) \in Range(DropModel(t))
           /\ \A s \in Range(DropModel(t)) :
                s = Statement("drop table", t, {}) \/ s.op \in DropOps
  <1> DEFINE F == [c \in ModelColumns |-> DropIndexesOf(t, c)]
             drop == Statement("drop table", t, {})
  <1>0. t \in ModelTables /\ drop \in Statements
    BY StatementIs DEF Modelled, Ops
  <1>1. F \in [ModelColumns -> Seq(Statements)]
    BY <1>0, IndexesAre
  <1>2. Fields(t) \in Seq(ModelColumns)
    BY ColumnsAre DEF Fields
  <1>3. Each(LAMBDA c : DropIndexesOf(t, c), Fields(t)) = Joined(F, Fields(t))
    <2>1. \A i \in DOMAIN Fields(t) : Fields(t)[i] \in ModelColumns
      BY <1>2
    <2>2. [i \in DOMAIN Fields(t) |-> DropIndexesOf(t, Fields(t)[i])]
            = [i \in DOMAIN Fields(t) |-> F[Fields(t)[i]]]
      BY <2>1
    <2> QED
      BY <2>2 DEF Each, Joined
  <1>4. \A c \in ModelColumns : \A s \in Range(F[c]) : s.op \in DropOps
    BY <1>0, IndexesAre
  <1> HIDE DEF F
  <1>5. /\ Joined(F, Fields(t)) \in Seq(Statements)
        /\ \A x : x \in Range(Joined(F, Fields(t)))
                    <=> \E e \in Range(Fields(t)) : x \in Range(F[e])
    BY <1>1, <1>2, RangeJoined
  <1>6. Range(Fields(t)) \subseteq ModelColumns
    BY <1>2, RangeIs
  <1>7. <<drop>> \in Seq(Statements) /\ Range(<<drop>>) = {drop}
    <2> HIDE DEF drop
    <2> QED
      BY <1>0, OneIs
  <1>8. DropModel(t) = Joined(F, Fields(t)) \o <<drop>>
    BY <1>3 DEF DropModel
  <1> DEFINE first == Joined(F, Fields(t))
             end == <<drop>>
  <1>9. /\ first \o end \in Seq(Statements)
        /\ Range(first \o end) = Range(first) \cup Range(end)
    <2> HIDE DEF first, end
    <2>1. first \in Seq(Statements) /\ end \in Seq(Statements)
      BY <1>5, <1>7 DEF first, end
    <2> QED
      BY <2>1, RangeCat
  <1> HIDE DEF drop
  <1>10. \A s \in Range(Joined(F, Fields(t))) : s.op \in DropOps
    BY <1>4, <1>5, <1>6
  <1> QED
    BY <1>7, <1>8, <1>9, <1>10 DEF drop

LEMMA DropColumnsIs ==
    ASSUME NEW t, Modelled(t)
    PROVE  /\ DropColumns(t) \in Seq(Statements)
           /\ \A c \in Range(Added(t)) : Statement("drop column", t, {c}) \in Range(DropColumns(t))
           /\ \A s \in Range(DropColumns(t)) :
                \/ \E c \in Range(Added(t)) : s = Statement("drop column", t, {c})
                \/ s.op \in DropOps
  <1> DEFINE drop(c) == Statement("drop column", t, {c})
             F == [c \in ModelColumns |-> DropIndexesOf(t, c) \o <<drop(c)>>]
             back == Reverse(Added(t))
  <1>0. t \in ModelTables /\ \A c \in ModelColumns : drop(c) \in Statements
    <2>1. t \in ModelTables /\ "drop column" \in Ops
      BY DEF Modelled, Ops
    <2>2. ASSUME NEW c \in ModelColumns PROVE drop(c) \in Statements
      <3>1. {c} \in SUBSET ModelColumns
        OBVIOUS
      <3> QED
        BY <2>1, <3>1, StatementIs
    <2> QED
      BY <2>1, <2>2
  <1>1. ASSUME NEW c \in ModelColumns
        PROVE  /\ DropIndexesOf(t, c) \o <<drop(c)>> \in Seq(Statements)
               /\ drop(c) \in Range(DropIndexesOf(t, c) \o <<drop(c)>>)
               /\ \A s \in Range(DropIndexesOf(t, c) \o <<drop(c)>>) :
                    s = drop(c) \/ s.op \in DropOps
    <2> HIDE DEF drop
    <2>1. <<drop(c)>> \in Seq(Statements) /\ Range(<<drop(c)>>) = {drop(c)}
      BY <1>0, OneIs
    <2>2. /\ DropIndexesOf(t, c) \in Seq(Statements)
          /\ \A s \in Range(DropIndexesOf(t, c)) : s.op \in DropOps
      BY <1>0, IndexesAre
    <2> DEFINE first == DropIndexesOf(t, c)
               end == <<drop(c)>>
    <2>3. first \o end \in Seq(Statements) /\ Range(first \o end) = Range(first) \cup Range(end)
      <3>1. first \in Seq(Statements) /\ end \in Seq(Statements)
        BY <2>1, <2>2
      <3> HIDE DEF first, end
      <3> QED
        BY <3>1, RangeCat
    <2> QED
      BY <2>1, <2>2, <2>3
  <1>a. Added(t) \in Seq(ModelColumns)
    BY ColumnsAre DEF Added
  <1>2. back \in Seq(ModelColumns) /\ Range(back) = Range(Added(t))
    BY <1>a, RangeReverse
  <1>3. DropColumns(t) = Joined(F, back)
    <2>1. \A i \in DOMAIN back : back[i] \in ModelColumns
      <3> HIDE DEF back
      <3> QED
        BY <1>2
    <2>2. [i \in DOMAIN back |-> DropIndexesOf(t, back[i]) \o <<drop(back[i])>>]
            = [i \in DOMAIN back |-> F[back[i]]]
      <3> HIDE DEF back
      <3> QED
        BY <2>1
    <2> QED
      BY <2>2 DEF DropColumns, Each, Joined
  <1> HIDE DEF drop, back
  <1>4. F \in [ModelColumns -> Seq(Statements)]
    BY <1>1
  <1>5. \A c \in ModelColumns :
          drop(c) \in Range(F[c]) /\ \A s \in Range(F[c]) : s = drop(c) \/ s.op \in DropOps
    BY <1>1
  <1> HIDE DEF F
  <1>6. /\ Joined(F, back) \in Seq(Statements)
        /\ \A x : x \in Range(Joined(F, back)) <=> \E e \in Range(back) : x \in Range(F[e])
    BY <1>2, <1>4, RangeJoined
  <1>7. Range(Added(t)) \subseteq ModelColumns
    BY <1>a, RangeIs
  <1> QED
    BY <1>2, <1>3, <1>5, <1>6, <1>7 DEF drop

LEMMA CommentsAre ==
    ASSUME NEW t, Modelled(t)
    PROVE  LET dropped == Each(LAMBDA c : <<Statement("drop column", t, {c})>>, RemovedColumns(t))
           IN  /\ dropped \in Seq(Statements)
               /\ \A s \in Range(dropped) : s.op = "drop column" /\ s.on = t
  <1> DEFINE drop(c) == Statement("drop column", t, {c})
             F == [c \in ModelColumns |-> <<drop(c)>>]
             gone == RemovedColumns(t)
             dropped == Each(LAMBDA c : <<Statement("drop column", t, {c})>>, RemovedColumns(t))
  <1>0. /\ t \in ModelTables
        /\ \A c \in ModelColumns :
             drop(c) \in Statements /\ drop(c).op = "drop column" /\ drop(c).on = t
    <2>1. t \in ModelTables /\ "drop column" \in Ops
      BY DEF Modelled, Ops
    <2>2. ASSUME NEW c \in ModelColumns
          PROVE  drop(c) \in Statements /\ drop(c).op = "drop column" /\ drop(c).on = t
      <3>1. {c} \in SUBSET ModelColumns
        OBVIOUS
      <3>2. drop(c) \in Statements
        BY <2>1, <3>1, StatementIs
      <3>3. drop(c).op = "drop column" /\ drop(c).on = t
        BY DEF Statement
      <3> QED
        BY <3>2, <3>3
    <2> QED
      BY <2>1, <2>2
  <1>1. \A c \in ModelColumns : <<drop(c)>> \in Seq(Statements) /\ Range(<<drop(c)>>) = {drop(c)}
    <2> HIDE DEF drop
    <2> QED
      BY <1>0, OneIs
  <1>2. gone \in Seq(ModelColumns)
    BY ColumnsAre DEF RemovedColumns
  <1>3. dropped = Joined(F, gone)
    <2>1. \A i \in DOMAIN gone : gone[i] \in ModelColumns
      <3> HIDE DEF gone
      <3> QED
        BY <1>2
    <2>2. [i \in DOMAIN gone |-> <<drop(gone[i])>>] = [i \in DOMAIN gone |-> F[gone[i]]]
      <3> HIDE DEF gone
      <3> QED
        BY <2>1
    <2> QED
      BY <2>2 DEF Each, Joined
  <1> HIDE DEF drop, gone
  <1>4. F \in [ModelColumns -> Seq(Statements)] /\ \A c \in ModelColumns : Range(F[c]) = {drop(c)}
    BY <1>1
  <1> HIDE DEF F
  <1>6. /\ Joined(F, gone) \in Seq(Statements)
        /\ \A x : x \in Range(Joined(F, gone)) <=> \E e \in Range(gone) : x \in Range(F[e])
    BY <1>2, <1>4, RangeJoined
  <1>7. Range(gone) \subseteq ModelColumns
    BY <1>2, RangeIs
  <1>8. \A s \in Range(Joined(F, gone)) : \E c \in ModelColumns : s = drop(c)
    BY <1>4, <1>6, <1>7
  <1>9. \A s \in Range(Joined(F, gone)) : s.op = "drop column" /\ s.on = t
    BY <1>0, <1>8
  <1> QED
    BY <1>3, <1>6, <1>9

LEMMA GeneratedIs ==
    ASSUME DeclaredOK
    PROVE  /\ Generated \in MigrationFiles
           /\ \A s \in Range(Generated.up) :
                \/ \E t \in Range(PendingModels) : s = Statement("create table", t, declared[t])
                \/ \E t \in Range(Alters) : \E c \in Range(Added(t)) :
                     s = Statement("add column", t, {c})
                \/ s.op \in IndexOps
           /\ \A s \in Range(Generated.down) :
                \/ \E t \in Range(PendingModels) : s = Statement("drop table", t, {})
                \/ \E t \in Range(Alters) : \E c \in Range(Added(t)) :
                     s = Statement("drop column", t, {c})
                \/ s.op \in DropOps
           /\ \A t \in Range(PendingModels) :
                Statement("drop table", t, {}) \in Range(Generated.down)
           /\ \A t \in Range(Alters) : \A c \in Range(Added(t)) :
                Statement("drop column", t, {c}) \in Range(Generated.down)
           /\ \A s \in Range(Generated.comments) :
                s.op = "drop column" /\ s.on \in Range(Alters)
  <1> DEFINE M == {t \in ModelTables : Modelled(t)}
             P == PendingModels
             A == Alters
             C == [t \in M |-> CreateModel(t)]
             N == [t \in M |-> AddColumns(t)]
             DM == [t \in M |-> DropModel(t)]
             DC == [t \in M |-> DropColumns(t)]
             comment(t) == Each(LAMBDA c : <<Statement("drop column", t, {c})>>, RemovedColumns(t))
             K == [t \in M |-> comment(t)]
  <1>1. P \in Seq(M) /\ A \in Seq(M) /\ Range(P) \subseteq M /\ Range(A) \subseteq M
    <2>1. \A ts \in {P, A} : ts \in Seq(ModelTables) /\ \A t \in Range(ts) : Modelled(t)
      BY OrdersAre
    <2>2. ASSUME NEW ts \in {P, A} PROVE ts \in Seq(M) /\ Range(ts) \subseteq M
      <3>1. ts \in Seq(ModelTables) /\ \A t \in Range(ts) : Modelled(t)
        BY <2>1
      <3> HIDE DEF P, A
      <3>2. /\ Range(ts) = {ts[i] : i \in 1..Len(ts)} /\ Range(ts) \subseteq ModelTables
            /\ ts \in [1..Len(ts) -> ModelTables] /\ Len(ts) \in Nat
        BY <3>1, RangeIs
      <3>3. \A i \in 1..Len(ts) : ts[i] \in M
        BY <3>1, <3>2
      <3>4. ts \in [1..Len(ts) -> M]
        BY <3>2, <3>3
      <3>5. Range(ts) \subseteq M
        BY <3>2, <3>3
      <3> QED
        BY <3>2, <3>4, <3>5
    <2> QED
      BY <2>2
  <1>2. \A t \in M : Modelled(t)
    OBVIOUS
  <1> HIDE DEF M
  <1>3. /\ C \in [M -> Seq(Statements)] /\ N \in [M -> Seq(Statements)]
        /\ DM \in [M -> Seq(Statements)] /\ DC \in [M -> Seq(Statements)]
    BY <1>2, CreateModelIs, AddColumnsIs, DropModelIs, DropColumnsIs
  <1>4. ASSUME NEW t \in M
        PROVE  comment(t) \in Seq(Statements)
               /\ \A s \in Range(comment(t)) : s.op = "drop column" /\ s.on = t
    BY <1>2, CommentsAre
  <1> HIDE DEF comment
  <1>5. K \in [M -> Seq(Statements)]
    BY <1>4
  <1> DEFINE ra == Reverse(A)
             rp == Reverse(P)
  <1>6. ra \in Seq(M) /\ rp \in Seq(M) /\ Range(ra) = Range(A) /\ Range(rp) = Range(P)
    BY <1>1, RangeReverse
  <1>7. \A ts \in {P, A, ra, rp} : \A i \in DOMAIN ts : ts[i] \in M
    <2> HIDE DEF P, A, ra, rp
    <2>1. \A ts \in {P, A, ra, rp} : ts \in Seq(M)
      BY <1>1, <1>6
    <2> QED
      BY <2>1
  <1> DEFINE creates == Joined(C, P)
             adds == Joined(N, A)
             dropsCols == Joined(DC, ra)
             dropsTabs == Joined(DM, rp)
             notes == Joined(K, A)
  <1>8. /\ Generated.up = creates \o adds /\ Generated.down = dropsCols \o dropsTabs
        /\ Generated.comments = notes
        /\ Generated = [up |-> Generated.up, down |-> Generated.down,
                        comments |-> Generated.comments, byHand |-> FALSE]
    <2>1. Each(CreateModel, PendingModels) = creates
      <3>1. [i \in DOMAIN P |-> CreateModel(P[i])] = [i \in DOMAIN P |-> C[P[i]]]
        <4>1. \A i \in DOMAIN P : P[i] \in M
          BY <1>7
        <4> HIDE DEF P
        <4> QED
          BY <4>1
      <3> QED
        BY <3>1 DEF Each, Joined
    <2>2. Each(AddColumns, Alters) = adds
      <3>1. [i \in DOMAIN A |-> AddColumns(A[i])] = [i \in DOMAIN A |-> N[A[i]]]
        <4>1. \A i \in DOMAIN A : A[i] \in M
          BY <1>7
        <4> HIDE DEF A
        <4> QED
          BY <4>1
      <3> QED
        BY <3>1 DEF Each, Joined
    <2>3. Each(DropColumns, Reverse(Alters)) = dropsCols
      <3>1. [i \in DOMAIN ra |-> DropColumns(ra[i])] = [i \in DOMAIN ra |-> DC[ra[i]]]
        <4>1. \A i \in DOMAIN ra : ra[i] \in M
          BY <1>7
        <4> HIDE DEF ra
        <4> QED
          BY <4>1
      <3> QED
        BY <3>1 DEF Each, Joined
    <2>4. Each(DropModel, LastFirst(PendingModels)) = dropsTabs
      <3>1. [i \in DOMAIN rp |-> DropModel(rp[i])] = [i \in DOMAIN rp |-> DM[rp[i]]]
        <4>1. \A i \in DOMAIN rp : rp[i] \in M
          BY <1>7
        <4> HIDE DEF rp
        <4> QED
          BY <4>1
      <3> QED
        BY <3>1 DEF Each, Joined, LastFirst
    <2>5. Each(LAMBDA t : Each(LAMBDA c : <<Statement("drop column", t, {c})>>,
                               RemovedColumns(t)), Alters) = notes
      <3>1. [i \in DOMAIN A |-> comment(A[i])] = [i \in DOMAIN A |-> K[A[i]]]
        <4>1. \A i \in DOMAIN A : A[i] \in M
          BY <1>7
        <4> HIDE DEF A
        <4> QED
          BY <4>1
      <3> QED
        BY <3>1 DEF Each, Joined, comment
    <2> QED
      BY <2>1, <2>2, <2>3, <2>4, <2>5 DEF Generated
  <1> HIDE DEF ra, rp, P, A
  <1>9. /\ creates \in Seq(Statements)
        /\ \A x : x \in Range(creates) <=> \E t \in Range(P) : x \in Range(C[t])
    <2> HIDE DEF C
    <2> QED
      BY <1>1, <1>3, RangeJoined
  <1>10. /\ adds \in Seq(Statements)
        /\ \A x : x \in Range(adds) <=> \E t \in Range(A) : x \in Range(N[t])
    <2> HIDE DEF N
    <2> QED
      BY <1>1, <1>3, RangeJoined
  <1>11. /\ dropsCols \in Seq(Statements)
         /\ \A x : x \in Range(dropsCols) <=> \E t \in Range(ra) : x \in Range(DC[t])
    <2> HIDE DEF DC
    <2> QED
      BY <1>3, <1>6, RangeJoined
  <1>12. /\ dropsTabs \in Seq(Statements)
         /\ \A x : x \in Range(dropsTabs) <=> \E t \in Range(rp) : x \in Range(DM[t])
    <2> HIDE DEF DM
    <2> QED
      BY <1>3, <1>6, RangeJoined
  <1>13. /\ notes \in Seq(Statements)
        /\ \A x : x \in Range(notes) <=> \E t \in Range(A) : x \in Range(K[t])
    <2> HIDE DEF K
    <2> QED
      BY <1>1, <1>5, RangeJoined
  <1>14. \A t \in M : /\ C[t] = CreateModel(t) /\ N[t] = AddColumns(t) /\ DM[t] = DropModel(t)
                      /\ DC[t] = DropColumns(t) /\ K[t] = comment(t)
    OBVIOUS
  <1> HIDE DEF C, N, DM, DC, K, creates, adds, dropsCols, dropsTabs, notes
  <1>15. /\ creates \o adds \in Seq(Statements)
         /\ Range(creates \o adds) = Range(creates) \cup Range(adds)
    BY <1>9, <1>10, RangeCat
  <1>16. /\ dropsCols \o dropsTabs \in Seq(Statements)
         /\ Range(dropsCols \o dropsTabs) = Range(dropsCols) \cup Range(dropsTabs)
    BY <1>11, <1>12, RangeCat
  <1>17. Generated \in MigrationFiles
    <2>1. /\ Generated.up \in Seq(Statements) /\ Generated.down \in Seq(Statements)
          /\ Generated.comments \in Seq(Statements)
      BY <1>8, <1>13, <1>15, <1>16
    <2> DEFINE u == Generated.up
               d == Generated.down
               c == Generated.comments
    <2>2. Generated = [up |-> u, down |-> d, comments |-> c, byHand |-> FALSE]
      BY <1>8
    <2> HIDE DEF u, d, c
    <2>3. [up |-> u, down |-> d, comments |-> c, byHand |-> FALSE] \in MigrationFiles
      BY <2>1 DEF u, d, c, MigrationFiles
    <2> QED
      BY <2>2, <2>3
  <1>18. ASSUME NEW s \in Range(creates)
         PROVE  \/ \E t \in Range(P) : s = Statement("create table", t, declared[t])
                \/ s.op \in IndexOps
    <2>1. PICK t \in Range(P) : s \in Range(C[t])
      BY <1>9
    <2>2. t \in M /\ Modelled(t) /\ s \in Range(CreateModel(t))
      BY <1>1, <1>2, <1>14, <2>1
    <2>3. s = Statement("create table", t, declared[t]) \/ s.op \in IndexOps
      BY <2>2, CreateModelIs
    <2> QED
      BY <2>3
  <1>19. ASSUME NEW s \in Range(adds)
         PROVE  \/ \E t \in Range(A) : \E c \in Range(Added(t)) :
                     s = Statement("add column", t, {c})
                \/ s.op \in IndexOps
    <2>1. PICK t \in Range(A) : s \in Range(N[t])
      BY <1>10
    <2>2. t \in M /\ Modelled(t) /\ s \in Range(AddColumns(t))
      BY <1>1, <1>2, <1>14, <2>1
    <2>3. (\E c \in Range(Added(t)) : s = Statement("add column", t, {c})) \/ s.op \in IndexOps
      BY <2>2, AddColumnsIs
    <2> QED
      BY <2>3
  <1>20. ASSUME NEW s \in Range(dropsTabs)
         PROVE  (\E t \in Range(P) : s = Statement("drop table", t, {})) \/ s.op \in DropOps
    <2>1. PICK t \in Range(P) : s \in Range(DM[t])
      BY <1>6, <1>12
    <2>2. t \in M /\ Modelled(t) /\ s \in Range(DropModel(t))
      BY <1>1, <1>2, <1>14, <2>1
    <2>3. s = Statement("drop table", t, {}) \/ s.op \in DropOps
      BY <2>2, DropModelIs
    <2> QED
      BY <2>3
  <1>21. ASSUME NEW s \in Range(dropsCols)
         PROVE  \/ \E t \in Range(A) : \E c \in Range(Added(t)) :
                     s = Statement("drop column", t, {c})
                \/ s.op \in DropOps
    <2>1. PICK t \in Range(A) : s \in Range(DC[t])
      BY <1>6, <1>11
    <2>2. t \in M /\ Modelled(t) /\ s \in Range(DropColumns(t))
      BY <1>1, <1>2, <1>14, <2>1
    <2>3. (\E c \in Range(Added(t)) : s = Statement("drop column", t, {c})) \/ s.op \in DropOps
      BY <2>2, DropColumnsIs
    <2> QED
      BY <2>3
  <1>22. ASSUME NEW t \in Range(P) PROVE Statement("drop table", t, {}) \in Range(dropsTabs)
    <2>1. t \in M /\ Modelled(t) /\ t \in Range(rp)
      BY <1>1, <1>2, <1>6
    <2>2. Statement("drop table", t, {}) \in Range(DM[t])
      BY <1>14, <2>1, DropModelIs
    <2> QED
      BY <1>12, <2>1, <2>2
  <1>23. ASSUME NEW t \in Range(A), NEW c \in Range(Added(t))
         PROVE  Statement("drop column", t, {c}) \in Range(dropsCols)
    <2>1. t \in M /\ Modelled(t) /\ t \in Range(ra)
      BY <1>1, <1>2, <1>6
    <2>2. Statement("drop column", t, {c}) \in Range(DC[t])
      BY <1>14, <2>1, DropColumnsIs
    <2> QED
      BY <1>11, <2>1, <2>2
  <1>24. ASSUME NEW s \in Range(notes) PROVE s.op = "drop column" /\ s.on \in Range(A)
    <2>1. PICK t \in Range(A) : s \in Range(K[t])
      BY <1>13
    <2>2. t \in M /\ s \in Range(comment(t))
      BY <1>1, <1>14, <2>1
    <2>3. s.op = "drop column" /\ s.on = t
      BY <1>4, <2>2
    <2> QED
      BY <2>3
  <1>25. /\ Range(Generated.up) = Range(creates) \cup Range(adds)
         /\ Range(Generated.down) = Range(dropsCols) \cup Range(dropsTabs)
         /\ Range(Generated.comments) = Range(notes)
    BY <1>8, <1>15, <1>16
  <1> QED
    BY <1>17, <1>18, <1>19, <1>20, <1>21, <1>22, <1>23, <1>24, <1>25 DEF P, A

LEMMA GeneratedGood ==
    ASSUME DeclaredOK, KnownSchema \in Sane
    PROVE  GoodFile(Generated, KnownSchema)
  <1> DEFINE st == Generated.up
             down == Generated.down
             known == KnownSchema
             P == Range(PendingModels)
             A == Range(Alters)
             create(t) == Statement("create table", t, declared[t])
             add(t, c) == Statement("add column", t, {c})
             dropT(t) == Statement("drop table", t, {})
             dropC(t, c) == Statement("drop column", t, {c})
  <1>1. /\ \A s \in Range(st) : \/ \E t \in P : s = create(t)
                                \/ \E t \in A : \E c \in Range(Added(t)) : s = add(t, c)
                                \/ s.op \in IndexOps
        /\ \A s \in Range(down) : \/ \E t \in P : s = dropT(t)
                                  \/ \E t \in A : \E c \in Range(Added(t)) : s = dropC(t, c)
                                  \/ s.op \in DropOps
        /\ \A t \in P : dropT(t) \in Range(down)
        /\ \A t \in A : \A c \in Range(Added(t)) : dropC(t, c) \in Range(down)
        /\ \A s \in Range(Generated.comments) : s.op = "drop column" /\ s.on \in A
    BY GeneratedIs
  <1>2. /\ \A t \in P : Modelled(t) /\ Key(t) \notin known
        /\ \A t \in A : Modelled(t) /\ Key(t) \in known
    BY OrdersAre
  <1>a. ASSUME NEW t \in P
        PROVE  /\ create(t).op = "create table" /\ create(t).on = t /\ create(t).cols = declared[t]
               /\ dropT(t).op = "drop table" /\ dropT(t).on = t
    BY DEF Statement
  <1>b. ASSUME NEW t \in A, NEW c \in Range(Added(t))
        PROVE  /\ add(t, c).op = "add column" /\ add(t, c).on = t /\ add(t, c).cols = {c}
               /\ dropC(t, c).op = "drop column" /\ dropC(t, c).on = t
               /\ dropC(t, c).cols = {c}
    BY DEF Statement
  <1>4. \A t \in A : \A c \in Range(Added(t)) :
          c \in ModelColumns /\ <<"column", t, c>> \notin known
    <2>1. ASSUME NEW t \in A, NEW c \in Range(Added(t))
          PROVE  c \in ModelColumns /\ <<"column", t, c>> \notin known
      <3>1. c \in ModelColumns /\ c \notin Known(t)
        BY ColumnsAre DEF Added
      <3> QED
        BY <3>1 DEF Known
    <2> QED
      BY <2>1
  <1>5. /\ known \in Schemas /\ \A i \in known : Key(i[2]) \in known
    BY DEF Sane, Closed
  <1> HIDE DEF st, down, P, A, known, create, add, dropT, dropC
  <1>6. GoodUp(st, known)
    <2>1. ASSUME NEW s \in Range(st) PROVE s.op \in UpOps
      <3>1. CASE \E t \in P : s = create(t)
        <4>1. s.op = "create table"
          BY <1>a, <3>1
        <4> QED
          BY <4>1 DEF UpOps
      <3>2. CASE \E t \in A : \E c \in Range(Added(t)) : s = add(t, c)
        <4>a. PICK t \in A : \E c \in Range(Added(t)) : s = add(t, c)
          BY <3>2
        <4>b. PICK c \in Range(Added(t)) : s = add(t, c)
          BY <4>a
        <4>1. s.op = "add column"
          BY <1>b, <4>b
        <4> QED
          BY <4>1 DEF UpOps
      <3>3. CASE s.op \in IndexOps
        BY <3>3 DEF UpOps, IndexOps
      <3> QED
        BY <1>1, <3>1, <3>2, <3>3
    <2>2. ASSUME NEW s \in Range(st), s.op = "create table",
                 NEW r \in Range(st), r.on = s.on,
                 r.op \in {"create table", "add column", "drop column"}
          PROVE  r = s /\ Key(s.on) \notin known
      <3>a. s.op \notin IndexOps
        BY <2>2 DEF IndexOps
      <3>b. ~ (\E t \in A : \E c \in Range(Added(t)) : s = add(t, c))
        <4>1. ASSUME NEW t \in A, NEW c \in Range(Added(t)), s = add(t, c) PROVE FALSE
          <5>1. add(t, c).op = "add column"
            BY <1>b
          <5> QED
            BY <2>2, <4>1, <5>1
        <4> QED
          BY <4>1
      <3>1. PICK t \in P : s = create(t)
        BY <1>1, <3>a, <3>b
      <3>2. Key(t) \notin known /\ s.on = t
        BY <1>2, <1>a, <3>1
      <3>3. ~ (\E u \in A : \E c \in Range(Added(u)) : r = add(u, c))
        <4>1. ASSUME NEW u \in A, NEW c \in Range(Added(u)), r = add(u, c) PROVE FALSE
          <5>1. r.on = u /\ Key(u) \in known
            BY <1>2, <1>b, <4>1
          <5> QED
            BY <2>2, <3>2, <5>1
        <4> QED
          BY <4>1
      <3>4. r.op \notin IndexOps
        BY <2>2 DEF IndexOps
      <3>5. PICK u \in P : r = create(u)
        BY <1>1, <3>3, <3>4
      <3>6. u = t
        BY <1>a, <2>2, <3>2, <3>5
      <3> QED
        BY <3>1, <3>2, <3>5, <3>6
    <2> QED
      BY <2>1, <2>2 DEF GoodUp
  <1>7. \A s \in Range(down) : s.op \in DownOps
    <2> SUFFICES ASSUME NEW s \in Range(down) PROVE s.op \in DownOps
      OBVIOUS
    <2>1. CASE \E t \in P : s = dropT(t)
      <3>1. s.op = "drop table"
        BY <1>a, <2>1
      <3> QED
        BY <3>1 DEF DownOps
    <2>2. CASE \E t \in A : \E c \in Range(Added(t)) : s = dropC(t, c)
      <3>a. PICK t \in A : \E c \in Range(Added(t)) : s = dropC(t, c)
        BY <2>2
      <3>b. PICK c \in Range(Added(t)) : s = dropC(t, c)
        BY <3>a
      <3>1. s.op = "drop column"
        BY <1>b, <3>b
      <3> QED
        BY <3>1 DEF DownOps
    <2>3. CASE s.op \in DropOps
      BY <2>3 DEF DownOps, DropOps
    <2> QED
      BY <1>1, <2>1, <2>2, <2>3
  <1>8. ASSUME NEW x \in AddedIn(st) PROVE x \in known \cup TakenBy(down)
    <2>1. PICK s \in Range(st) : /\ s.op \in {"create table", "add column"}
                                 /\ x \in {Key(s.on)} \cup Items("column", s.on, s.cols)
      BY DEF AddedIn
    <2>2. s.op \notin IndexOps
      BY <2>1 DEF IndexOps
    <2>3. CASE \E t \in P : s = create(t)
      <3>1. PICK t \in P : s = create(t)
        BY <2>3
      <3>2. t \in ModelTables /\ declared[t] \in SUBSET ModelColumns
        BY <1>2 DEF Modelled
      <3>3. x = Key(t) \/ x \in Items("column", t, declared[t])
        BY <1>a, <2>1, <3>1
      <3>4. x \in Things /\ x[1] \in {"table", "column"} /\ x[2] = t
        BY <3>2, <3>3 DEF Key, Items, Things
      <3>5. x \in Takes(dropT(t))
        BY <1>a, <3>4 DEF Takes
      <3> QED
        BY <1>1, <3>5 DEF TakenBy
    <2>4. CASE \E t \in A : \E c \in Range(Added(t)) : s = add(t, c)
      <3>a. PICK t \in A : \E c \in Range(Added(t)) : s = add(t, c)
        BY <2>4
      <3>1. PICK c \in Range(Added(t)) : s = add(t, c)
        BY <3>a
      <3>2. CASE x = Key(t)
        BY <1>2, <3>2
      <3>3. CASE x \in Items("column", t, {c})
        <4>0. /\ dropC(t, c).op = "drop column" /\ dropC(t, c).on = t
              /\ dropC(t, c).cols = {c}
          BY <1>b
        <4>1. x \in Takes(dropC(t, c))
          BY <3>3, <4>0 DEF Takes
        <4> QED
          BY <1>1, <4>1 DEF TakenBy
      <3>4. s.on = t /\ s.cols = {c}
        BY <1>b, <3>1
      <3>5. x = Key(t) \/ x \in Items("column", t, {c})
        BY <2>1, <3>4
      <3> QED
        BY <3>2, <3>3, <3>5
    <2> QED
      BY <1>1, <2>2, <2>3, <2>4
  <1>9. ASSUME NEW x \in TakenBy(down) PROVE x \notin known
    <2>1. PICK s \in Range(down) : x \in Takes(s)
      BY DEF TakenBy
    <2>2. s.op \notin DropOps
      BY <2>1 DEF Takes, DropOps
    <2>3. CASE \E t \in P : s = dropT(t)
      <3>1. PICK t \in P : s = dropT(t)
        BY <2>3
      <3>2. x[2] = t
        BY <1>a, <2>1, <3>1 DEF Takes
      <3> QED
        BY <1>2, <1>5, <3>2
    <2>4. CASE \E t \in A : \E c \in Range(Added(t)) : s = dropC(t, c)
      <3>a. PICK t \in A : \E c \in Range(Added(t)) : s = dropC(t, c)
        BY <2>4
      <3>1. PICK c \in Range(Added(t)) : s = dropC(t, c)
        BY <3>a
      <3>2. x \in Items("column", t, {c})
        <4>1. s.op = "drop column" /\ s.on = t /\ s.cols = {c}
          BY <1>b, <3>1
        <4> QED
          BY <2>1, <4>1 DEF Takes
      <3>3. x = <<"column", t, c>>
        BY <3>2 DEF Items
      <3> QED
        BY <1>4, <3>3
    <2> QED
      BY <1>1, <2>2, <2>3, <2>4
  <1>10. \A s \in Range(Generated.comments) : s.op = "drop column" /\ Key(s.on) \in known
    BY <1>1, <1>2
  <1> QED
    BY <1>6, <1>7, <1>8, <1>9, <1>10 DEF GoodFile, st, down, known

-----------------------------------------------------------------------------
(* Every file is good for the schema before it, and what is applied has    *)
(* left the database the schema that its text says.                        *)

FilesInv ==
    /\ DeclaredOK
    /\ files \in Seq(MigrationFiles) /\ applied \in 0..Len(files)
    /\ \A k \in 1..Len(files) : GoodFile(files[k], SchemaAt(files, k - 1))

StoredInv ==
    /\ stored \in SUBSET Things /\ \A i \in lost : i[1] = "column"
    /\ TablesOf(stored) \ lost = SchemaAt(files, applied) \ lost

MakeInv == FilesInv /\ StoredInv

LEMMA MakeInvInit == MakeInit => MakeInv
  <1> SUFFICES ASSUME MakeInit PROVE MakeInv
    OBVIOUS
  <1>1. files = <<>> /\ applied = 0 /\ stored = {} /\ lost = {}
    BY DEF MakeInit
  <1>2. files \in Seq(MigrationFiles) /\ Len(files) = 0
    BY <1>1
  <1>3. SchemaAt(files, 0) = {}
    BY <1>2, SchemaAtIs
  <1>4. DeclaredOK
    BY DEF MakeInit, DeclaredOK
  <1>5. TablesOf({}) = {}
    BY DEF TablesOf
  <1>6. FilesInv
    <2>1. 1..Len(files) = {} /\ applied \in 0..Len(files)
      BY <1>1, <1>2
    <2> QED
      BY <1>2, <1>4, <2>1 DEF FilesInv
  <1>7. StoredInv
    BY <1>1, <1>3, <1>5 DEF StoredInv
  <1> QED
    BY <1>6, <1>7 DEF MakeInv

(* Files that agree up to the ones that are applied.                       *)
LEMMA StoredKept ==
    ASSUME MakeInv, files' \in Seq(MigrationFiles), UNCHANGED <<applied, stored, lost>>,
           applied <= Len(files'), Agree(files, files', applied)
    PROVE  StoredInv'
  <1>1. applied \in Nat /\ applied <= Len(files) /\ files \in Seq(MigrationFiles)
    BY DEF MakeInv, FilesInv
  <1>2. SchemaAt(files, applied) = SchemaAt(files', applied)
    BY <1>1, SamePrefix
  <1> QED
    BY <1>2 DEF MakeInv, StoredInv

LEMMA WritingKeeps == MakeInv /\ RunMakeMigrations => MakeInv'
  <1> SUFFICES ASSUME MakeInv, RunMakeMigrations PROVE MakeInv'
    OBVIOUS
  <1> DEFINE n == Len(files)
             g == Generated
             fs == files'
  <1>1. /\ files \in Seq(MigrationFiles) /\ n \in Nat /\ applied \in 0..n /\ DeclaredOK
        /\ \A k \in 1..n : GoodFile(files[k], SchemaAt(files, k - 1))
    BY DEF MakeInv, FilesInv
  <1>2. fs = Append(files, g) /\ UNCHANGED <<declared, applied, stored, lost>>
    BY DEF RunMakeMigrations
  <1>3. g \in MigrationFiles
    BY <1>1, GeneratedIs
  <1>4. SchemaAt(files, n) = KnownSchema /\ KnownSchema \in Sane
    BY <1>1, SchemaAtIs DEF KnownSchema
  <1>5. GoodFile(g, KnownSchema)
    BY <1>1, <1>4, GeneratedGood
  <1> HIDE DEF g, fs
  <1>6. fs \in Seq(MigrationFiles) /\ Len(fs) = n + 1 /\ fs[n + 1] = g
        /\ \A k \in 1..n : fs[k] = files[k]
    BY <1>1, <1>2, <1>3
  <1> HIDE DEF n
  <1>7. \A k \in 0..n : SchemaAt(files, k) = SchemaAt(fs, k)
    <2>1. ASSUME NEW k \in 0..n PROVE SchemaAt(files, k) = SchemaAt(fs, k)
      <3>1. k \in Nat /\ k <= Len(files) /\ k <= Len(fs) /\ Agree(files, fs, k)
        BY <1>1, <1>6 DEF Agree, n
      <3> QED
        BY <1>1, <1>6, <3>1, SamePrefix
    <2> QED
      BY <2>1
  <1>8. \A k \in 1..n + 1 : GoodFile(fs[k], SchemaAt(fs, k - 1))
    <2>1. ASSUME NEW k \in 1..n PROVE GoodFile(fs[k], SchemaAt(fs, k - 1))
      <3>1. k - 1 \in 0..n
        BY <1>1
      <3> QED
        BY <1>1, <1>6, <1>7, <3>1
    <2>2. ASSUME NEW k \in 1..n + 1, k = n + 1 PROVE GoodFile(fs[k], SchemaAt(fs, k - 1))
      <3>1. k - 1 = n /\ n \in 0..n
        BY <1>1, <2>2
      <3>2. SchemaAt(files, k - 1) = SchemaAt(fs, k - 1)
        BY <1>7, <3>1
      <3>3. SchemaAt(fs, k - 1) = KnownSchema
        BY <1>4, <3>1, <3>2
      <3>4. fs[k] = g
        BY <1>6, <2>2
      <3> QED
        BY <1>5, <3>3, <3>4
    <2>3. ASSUME NEW k \in 1..n + 1 PROVE GoodFile(fs[k], SchemaAt(fs, k - 1))
      <3>1. CASE k \in 1..n
        BY <2>1, <3>1
      <3>2. CASE k = n + 1
        BY <2>2, <3>2
      <3> QED
        BY <1>1, <3>1, <3>2
    <2> QED
      BY <2>3
  <1>9. FilesInv'
    <2>1. applied' \in 0..Len(fs)
      BY <1>1, <1>2, <1>6
    <2>2. DeclaredOK'
      BY <1>1, <1>2 DEF DeclaredOK
    <2> QED
      BY <1>6, <1>8, <2>1, <2>2 DEF FilesInv, fs
  <1>10. StoredInv'
    <2>1. applied <= Len(files') /\ Agree(files, files', applied)
      BY <1>1, <1>6 DEF Agree, fs
    <2> QED
      BY <1>2, <1>6, <2>1, StoredKept DEF fs
  <1> QED
    BY <1>9, <1>10 DEF MakeInv

LEMMA UncommentingKeeps == MakeInv /\ Uncomment => MakeInv'
  <1> SUFFICES ASSUME MakeInv, Uncomment PROVE MakeInv'
    OBVIOUS
  <1> DEFINE n == Len(files)
             f == files[n]
             g == Uncommented(f)
             fs == files'
  <1>1. /\ files \in Seq(MigrationFiles) /\ n \in Nat /\ applied \in 0..n /\ DeclaredOK
        /\ \A k \in 1..n : GoodFile(files[k], SchemaAt(files, k - 1))
    BY DEF MakeInv, FilesInv
  <1>2. /\ applied < n /\ fs = [files EXCEPT ![n] = g]
        /\ UNCHANGED <<declared, applied, stored, lost>>
    <2>1. applied < n /\ UNCHANGED <<declared, applied, stored, lost>>
      BY DEF Uncomment
    <2>2. fs = [files EXCEPT ![n] = g]
      BY DEF Uncomment
    <2> QED
      BY <2>1, <2>2
  <1>3. n \in 1..n /\ f \in MigrationFiles
    BY <1>1, <1>2
  <1>4. g \in MigrationFiles
    <2>1. f.up \o f.comments \in Seq(Statements)
      BY <1>3, RangeCat DEF MigrationFiles
    <2>2. <<>> \in Seq(Statements)
      OBVIOUS
    <2> HIDE DEF f
    <2> QED
      BY <1>3, <2>1, <2>2 DEF MigrationFiles, Uncommented
  <1>5. GoodFile(g, SchemaAt(files, n - 1))
    <2>1. GoodFile(f, SchemaAt(files, n - 1))
      BY <1>1, <1>3
    <2> HIDE DEF f
    <2> QED
      BY <1>3, <1>4, <2>1, CommentsIn
  <1> HIDE DEF f, g, fs
  <1>6. fs \in Seq(MigrationFiles) /\ Len(fs) = n /\ fs[n] = g
        /\ \A k \in 1..n - 1 : fs[k] = files[k]
    <2>1. files \in [1..n -> MigrationFiles]
      BY <1>1
    <2>2. fs \in [1..n -> MigrationFiles]
      BY <1>2, <1>4, <2>1
    <2>3. fs[n] = g
      BY <1>2, <1>3, <2>1
    <2>4. n \in Nat
      BY <1>1
    <2>6. ASSUME NEW k \in 1..n - 1 PROVE fs[k] = files[k]
      <3>1. k \in 1..n /\ k # n
        BY <2>4
      <3> HIDE DEF n
      <3> QED
        BY <1>2, <2>1, <3>1
    <2> HIDE DEF n
    <2>5. fs \in Seq(MigrationFiles) /\ Len(fs) = n
      BY <2>2, <2>4
    <2> QED
      BY <2>3, <2>5, <2>6
  <1> HIDE DEF n
  <1>7. \A k \in 0..n - 1 : SchemaAt(files, k) = SchemaAt(fs, k)
    <2>1. ASSUME NEW k \in 0..n - 1 PROVE SchemaAt(files, k) = SchemaAt(fs, k)
      <3>1. k \in Nat /\ k <= Len(files) /\ k <= Len(fs) /\ Agree(files, fs, k)
        BY <1>1, <1>6 DEF Agree, n
      <3> QED
        BY <1>1, <1>6, <3>1, SamePrefix
    <2> QED
      BY <2>1
  <1>8. \A k \in 1..n : GoodFile(fs[k], SchemaAt(fs, k - 1))
    <2>1. ASSUME NEW k \in 1..n PROVE GoodFile(fs[k], SchemaAt(fs, k - 1))
      <3>1. k - 1 \in 0..n - 1 /\ SchemaAt(files, k - 1) = SchemaAt(fs, k - 1)
        BY <1>1, <1>7
      <3>2. CASE k = n
        BY <1>5, <1>6, <3>1, <3>2
      <3>3. CASE k # n
        <4>1. k \in 1..n - 1
          BY <1>1, <3>3
        <4> QED
          BY <1>1, <1>6, <3>1, <4>1
      <3> QED
        BY <3>2, <3>3
    <2> QED
      BY <2>1
  <1>9. FilesInv'
    <2>1. applied' \in 0..Len(fs)
      BY <1>1, <1>2, <1>6
    <2>2. DeclaredOK'
      BY <1>1, <1>2 DEF DeclaredOK
    <2> QED
      BY <1>6, <1>8, <2>1, <2>2 DEF FilesInv, fs
  <1>10. StoredInv'
    <2>1. applied <= Len(files') /\ Agree(files, files', applied)
      BY <1>1, <1>2, <1>6 DEF Agree, fs
    <2> QED
      BY <1>2, <1>6, <2>1, StoredKept DEF fs
  <1> QED
    BY <1>9, <1>10 DEF MakeInv

LEMMA ApplyingKeeps == MakeInv /\ ApplyFile => MakeInv'
  <1> SUFFICES ASSUME MakeInv, ApplyFile PROVE MakeInv'
    OBVIOUS
  <1> DEFINE n == Len(files)
             k == applied + 1
             st == files[k].up
             known == SchemaAt(files, applied)
  <1>1. /\ files \in Seq(MigrationFiles) /\ n \in Nat /\ applied \in 0..n /\ DeclaredOK
        /\ \A i \in 1..n : GoodFile(files[i], SchemaAt(files, i - 1))
    BY DEF MakeInv, FilesInv
  <1>2. /\ applied < n /\ stored' = Executed(st, stored) /\ stored' # Refused /\ applied' = k
        /\ UNCHANGED <<declared, files, lost>>
    BY DEF ApplyFile
  <1>3. k \in 1..n /\ k - 1 = applied /\ files[k] \in MigrationFiles
    BY <1>1, <1>2
  <1>4. /\ stored \in SUBSET Things /\ \A i \in lost : i[1] = "column"
        /\ TablesOf(stored) \ lost = known \ lost
    BY DEF MakeInv, StoredInv
  <1>5. known \in Sane /\ SchemaAt(files, k) = Read(st, known)
    BY <1>1, <1>3, SchemaAtIs
  <1>6. st \in Seq(Statements) /\ GoodUp(st, known)
    BY <1>1, <1>3 DEF MigrationFiles, GoodFile
  <1> HIDE DEF n, k, st, known
  <1>7. /\ Executed(st, stored) \in SUBSET Things
        /\ TablesOf(Executed(st, stored)) \ lost = Read(st, known) \ lost
    <2>1. Executed(st, stored) # Refused /\ known \in Schemas
      BY <1>2, <1>5 DEF Sane
    <2> QED
      BY <1>4, <1>6, <2>1, UpFollows
  <1>8. StoredInv'
    BY <1>2, <1>4, <1>5, <1>7 DEF StoredInv
  <1>9. FilesInv'
    <2>1. DeclaredOK'
      BY <1>1, <1>2 DEF DeclaredOK
    <2>2. Len(files) \in Nat /\ k \in 0..Len(files)
      BY <1>1, <1>3 DEF n
    <2> QED
      BY <1>1, <1>2, <2>1, <2>2 DEF FilesInv, n
  <1> QED
    BY <1>8, <1>9 DEF MakeInv

LEMMA RemovingKeeps == MakeInv /\ RemoveNewest => MakeInv'
  <1> SUFFICES ASSUME MakeInv, RemoveNewest PROVE MakeInv'
    OBVIOUS
  <1> DEFINE n == Len(files)
             f == files[n]
             known == SchemaAt(files, n - 1)
             fs == files'
  <1>1. /\ files \in Seq(MigrationFiles) /\ n \in Nat /\ applied \in 0..n /\ DeclaredOK
        /\ \A i \in 1..n : GoodFile(files[i], SchemaAt(files, i - 1))
    BY DEF MakeInv, FilesInv
  <1>2. /\ files # <<>> /\ fs = Front(files) /\ UNCHANGED declared
        /\ Last(files) = f
    BY DEF RemoveNewest, Last
  <1>3. n \in 1..n /\ f \in MigrationFiles
    BY <1>1, <1>2
  <1>4. fs \in Seq(MigrationFiles) /\ Len(fs) = n - 1 /\ \A k \in 1..n - 1 : fs[k] = files[k]
    <2>1. fs = SubSeq(files, 1, n - 1) /\ n - 1 \in 0..n
      BY <1>1, <1>2, <1>3 DEF Front
    <2> HIDE DEF fs
    <2>2. fs \in Seq(MigrationFiles) /\ Len(fs) = n - 1 /\ Agree(fs, files, n - 1)
      BY <1>1, <2>1, PrefixIs
    <2> QED
      BY <2>2 DEF Agree
  <1> HIDE DEF n, f, fs
  <1>5. \A k \in 0..n - 1 : SchemaAt(files, k) = SchemaAt(fs, k)
    <2>1. ASSUME NEW k \in 0..n - 1 PROVE SchemaAt(files, k) = SchemaAt(fs, k)
      <3>1. k \in Nat /\ k <= Len(files) /\ k <= Len(fs) /\ Agree(files, fs, k)
        BY <1>1, <1>3, <1>4 DEF Agree, n
      <3> QED
        BY <1>1, <1>4, <3>1, SamePrefix
    <2> QED
      BY <2>1
  <1>6. \A k \in 1..n - 1 : GoodFile(fs[k], SchemaAt(fs, k - 1))
    <2>1. ASSUME NEW k \in 1..n - 1 PROVE GoodFile(fs[k], SchemaAt(fs, k - 1))
      <3>1. k - 1 \in 0..n - 1 /\ k \in 1..n
        BY <1>1
      <3> QED
        BY <1>1, <1>4, <1>5, <3>1
    <2> QED
      BY <2>1
  <1>7. DeclaredOK'
    BY <1>1, <1>2 DEF DeclaredOK
  <1>8. CASE applied < n
    <2>1. UNCHANGED <<applied, stored, lost>>
      BY <1>8 DEF RemoveNewest, n
    <2>2. applied \in 0..n - 1
      BY <1>1, <1>8
    <2>3. applied <= Len(files') /\ Agree(files, files', applied)
      BY <1>4, <2>2 DEF Agree, fs
    <2>4. StoredInv'
      BY <1>4, <2>1, <2>3, StoredKept DEF fs
    <2>5. FilesInv'
      BY <1>4, <1>6, <1>7, <2>1, <2>2 DEF FilesInv, fs
    <2> QED
      BY <2>4, <2>5 DEF MakeInv
  <1>9. CASE ~ (applied < n)
    <2>1. /\ stored' = Executed(f.down, stored) /\ stored' # Refused /\ applied' = applied - 1
          /\ lost' = lost \cup DroppedIn(f.up)
      BY <1>2, <1>9 DEF RemoveNewest, n
    <2>2. applied = n /\ applied - 1 = n - 1 /\ n - 1 \in 0..n - 1 /\ n - 1 \in 0..n
      BY <1>1, <1>3, <1>9
    <2>3. /\ stored \in SUBSET Things /\ \A i \in lost : i[1] = "column"
          /\ TablesOf(stored) \ lost = SchemaAt(files, n) \ lost
      BY <2>2 DEF MakeInv, StoredInv
    <2>4. known \in Sane /\ SchemaAt(files, n) = Read(f.up, known)
      BY <1>1, <1>3, <2>2, SchemaAtIs DEF n, f
    <2>5. f.up \in Seq(Statements) /\ f.down \in Seq(Statements) /\ GoodFile(f, known)
      BY <1>1, <1>3 DEF MigrationFiles, f
    <2> HIDE DEF known
    <2>6. /\ Executed(f.down, stored) \in SUBSET Things
          /\ TablesOf(Executed(f.down, stored)) = TablesOf(stored) \ TakenBy(f.down)
      <3>1. \A s \in Range(f.down) : s.op \in DownOps
        BY <2>5 DEF GoodFile
      <3>2. Executed(f.down, stored) # Refused
        BY <2>1
      <3> QED
        BY <2>3, <2>5, <3>1, <3>2, DownTakes
    <2>7. /\ Read(f.up, known) \subseteq known \cup AddedIn(f.up)
          /\ known \subseteq Read(f.up, known) \cup DroppedIn(f.up)
      BY <2>4, <2>5, ReadSpans DEF Sane
    <2>8. AddedIn(f.up) \subseteq known \cup TakenBy(f.down) /\ TakenBy(f.down) \cap known = {}
      BY <2>5 DEF GoodFile
    <2>9. TablesOf(stored') \ lost' = known \ lost'
      BY <2>1, <2>3, <2>4, <2>6, <2>7, <2>8
    <2>10. \A i \in lost' : i[1] = "column"
      <3>1. \A i \in DroppedIn(f.up) : i[1] = "column"
        <4>1. ASSUME NEW i \in DroppedIn(f.up) PROVE i[1] = "column"
          <5>1. PICK s \in Range(f.up) : i \in Items("column", s.on, s.cols)
            BY DEF DroppedIn
          <5> QED
            BY <5>1 DEF Items
        <4> QED
          BY <4>1
      <3> QED
        BY <2>1, <2>3, <3>1
    <2>11. known = SchemaAt(fs, applied')
      BY <1>5, <2>1, <2>2 DEF known
    <2>12. StoredInv'
      BY <2>1, <2>6, <2>9, <2>10, <2>11 DEF StoredInv, fs
    <2>13. FilesInv'
      BY <1>4, <1>6, <1>7, <2>1, <2>2 DEF FilesInv, fs
    <2> QED
      BY <2>12, <2>13 DEF MakeInv
  <1> QED
    BY <1>8, <1>9

LEMMA MakeInvNext == MakeInv /\ [MakeNext]_makeVars => MakeInv'
  <1> SUFFICES ASSUME MakeInv, [MakeNext]_makeVars PROVE MakeInv'
    OBVIOUS
  <1>1. ASSUME UNCHANGED <<files, applied, stored, lost>>, DeclaredOK' PROVE MakeInv'
    BY <1>1 DEF MakeInv, FilesInv, StoredInv
  <1>2. CASE Edit
    <2>1. DeclaredOK /\ UNCHANGED <<files, applied, stored, lost>>
      BY <1>2 DEF MakeInv, FilesInv, Edit
    <2>2. PICK t \in ModelTables, new \in (SUBSET ModelColumns) \cup {Gone} :
            declared' = [declared EXCEPT ![t] = new]
      BY <1>2 DEF Edit
    <2>3. DeclaredOK'
      BY <2>1, <2>2 DEF DeclaredOK
    <2> QED
      BY <1>1, <2>1, <2>3
  <1>3. CASE \E t \in ModelTables : InsertRow(t)
    <2>1. UNCHANGED <<declared, files, applied, stored, lost>>
      BY <1>3 DEF InsertRow
    <2> QED
      BY <1>1, <2>1 DEF MakeInv, FilesInv, DeclaredOK
  <1>4. CASE UNCHANGED makeVars
    <2>1. UNCHANGED <<declared, files, applied, stored, lost>>
      BY <1>4 DEF makeVars
    <2> QED
      BY <1>1, <2>1 DEF MakeInv, FilesInv, DeclaredOK
  <1>5. CASE RunMakeMigrations
    BY <1>5, WritingKeeps
  <1>6. CASE Uncomment
    BY <1>6, UncommentingKeeps
  <1>7. CASE ApplyFile
    BY <1>7, ApplyingKeeps
  <1>8. CASE RemoveNewest
    BY <1>8, RemovingKeeps
  <1> QED
    BY <1>2, <1>3, <1>4, <1>5, <1>6, <1>7, <1>8 DEF MakeNext

(* However structs are edited, and files generated, edited as their        *)
(* comments invite, applied and taken back: once all are applied, the      *)
(* schema that migSchemaInDir reads from their text is the one that the    *)
(* database has, but for columns that a file dropped which was taken back. *)
(* For any tables, columns, indexes and references.                        *)
THEOREM TextIsTheSchema == MakeSpec => []SchemaIsKnown
  <1>1. MakeInv => SchemaIsKnown
    <2> SUFFICES ASSUME MakeInv, applied = Len(files)
                 PROVE  KnownSchema \ lost = {i \in stored : i[1] \in {"table", "column"}} \ lost
      BY DEF SchemaIsKnown
    <2>1. files \in Seq(MigrationFiles) /\ TablesOf(stored) \ lost = SchemaAt(files, applied) \ lost
      BY DEF MakeInv, FilesInv, StoredInv
    <2>2. SchemaAt(files, applied) = KnownSchema
      BY <2>1, SchemaAtIs DEF KnownSchema
    <2> QED
      BY <2>1, <2>2 DEF TablesOf
  <1> QED
    BY <1>1, MakeInvInit, MakeInvNext, PTL DEF MakeSpec

-----------------------------------------------------------------------------
(* The order of the statements in a file.  An index follows the statement  *)
(* that brings its column, a column is added once and to a table that was  *)
(* known, and whatever needs an index gets it.                             *)
Indexable(t) == Uniques \cup DOMAIN References[t]

IndexedBy(op, t) ==
    IF op = "unique index" THEN Uniques
    ELSE IF op = "index" THEN DOMAIN References[t] \ Uniques ELSE Searched
DroppedBy(op, t) == IF op = "drop index" THEN Indexable(t) ELSE Searched

IndexStatements(t, cols) ==
    {s \in Statements : /\ s.op \in IndexOps /\ s.on = t
                        /\ \E c \in cols : s.cols = {c} /\ c \in IndexedBy(s.op, t)}
DropStatements(t, cols) ==
    {s \in Statements : /\ s.op \in DropOps /\ s.on = t
                        /\ \E c \in cols : s.cols = {c} /\ c \in DroppedBy(s.op, t)}

LEMMA IfIs ==
    ASSUME NEW U, NEW e \in U, NEW b \in BOOLEAN
    PROVE  If(b, e) \in Seq(U) /\ Range(If(b, e)) = {x \in {e} : b}
  <1>1. CASE b
    <2>1. If(b, e) = <<e>>
      BY <1>1 DEF If
    <2>2. <<e>> \in Seq(U) /\ Range(<<e>>) = {e}
      BY DEF Range
    <2> QED
      BY <1>1, <2>1, <2>2
  <1>2. CASE ~b
    <2>1. If(b, e) = <<>>
      BY <1>2 DEF If
    <2>2. <<>> \in Seq(U) /\ Range(<<>>) = {}
      BY DEF Range
    <2> QED
      BY <1>2, <2>1, <2>2
  <1> QED
    BY <1>1, <1>2

LEMMA StatementOnce ==
    ASSUME NEW s \in Statements
    PROVE  s = Statement(s.op, s.on, s.cols)
  BY DEF Statement, Statements

LEMMA IndexesExact ==
    ASSUME NEW t \in ModelTables, NEW c \in ModelColumns
    PROVE  /\ IndexesOf(t, c) \in Seq(Statements)
           /\ Range(IndexesOf(t, c)) = IndexStatements(t, {c})
           /\ DropIndexesOf(t, c) \in Seq(Statements)
           /\ Range(DropIndexesOf(t, c)) = DropStatements(t, {c})
  <1> DEFINE st(op) == Statement(op, t, {c})
             bu == c \in Uniques
             bi == c \in DOMAIN References[t] \ Uniques
             bf == c \in Searched
             bd == c \in Uniques \cup DOMAIN References[t]
             u == If(bu, st("unique index"))
             i == If(bi, st("index"))
             f == If(bf, st("fts"))
             df == If(bf, st("drop fts"))
             di == If(bd, st("drop index"))
             ui == u \o i
  <1>1. ASSUME NEW op \in Ops
        PROVE  /\ st(op) \in Statements /\ st(op).op = op /\ st(op).on = t /\ st(op).cols = {c}
               /\ \A s \in Statements : s.op = op /\ s.on = t /\ s.cols = {c} => s = st(op)
    <2>1. \A s \in Statements : s.op = op /\ s.on = t /\ s.cols = {c} => s = st(op)
      <3> SUFFICES ASSUME NEW s \in Statements, s.op = op, s.on = t, s.cols = {c}
                   PROVE  s = st(op)
        OBVIOUS
      <3>1. s = Statement(s.op, s.on, s.cols)
        BY StatementOnce
      <3> QED
        BY <3>1
    <2> QED
      BY <2>1, StatementIs
  <1>2. /\ bu \in BOOLEAN /\ bi \in BOOLEAN /\ bf \in BOOLEAN /\ bd \in BOOLEAN
        /\ {"unique index", "index", "fts", "drop fts", "drop index"} \subseteq Ops
    BY DEF Ops
  <1>3. IndexesOf(t, c) = ui \o f /\ DropIndexesOf(t, c) = df \o di
    BY DEF IndexesOf, DropIndexesOf
  <1>4. /\ u \in Seq(Statements) /\ Range(u) = {x \in {st("unique index")} : bu}
        /\ i \in Seq(Statements) /\ Range(i) = {x \in {st("index")} : bi}
        /\ f \in Seq(Statements) /\ Range(f) = {x \in {st("fts")} : bf}
        /\ df \in Seq(Statements) /\ Range(df) = {x \in {st("drop fts")} : bf}
        /\ di \in Seq(Statements) /\ Range(di) = {x \in {st("drop index")} : bd}
    <2>1. \A op \in Ops : st(op) \in Statements
      BY <1>1
    <2> HIDE DEF st, bu, bi, bf, bd
    <2> QED
      BY <1>2, <2>1, IfIs
  <1> HIDE DEF u, i, f, df, di
  <1>a. /\ u \in Seq(Statements) /\ i \in Seq(Statements) /\ f \in Seq(Statements)
        /\ df \in Seq(Statements) /\ di \in Seq(Statements)
    BY <1>4
  <1>5. ui \in Seq(Statements) /\ Range(ui) = Range(u) \cup Range(i)
    BY <1>a, RangeCat
  <1> HIDE DEF ui
  <1>6. ui \o f \in Seq(Statements) /\ Range(ui \o f) = Range(ui) \cup Range(f)
    BY <1>a, <1>5, RangeCat
  <1>7. df \o di \in Seq(Statements) /\ Range(df \o di) = Range(df) \cup Range(di)
    BY <1>a, RangeCat
  <1>8. \A s : s \in IndexStatements(t, {c}) <=>
               \/ bu /\ s = st("unique index")
               \/ bi /\ s = st("index")
               \/ bf /\ s = st("fts")
    <2>1. \A op \in IndexOps : op \in {"unique index", "index", "fts"} /\ op \in Ops
      BY <1>2 DEF IndexOps
    <2>2. /\ IndexedBy("unique index", t) = Uniques /\ IndexedBy("fts", t) = Searched
          /\ IndexedBy("index", t) = DOMAIN References[t] \ Uniques
      BY DEF IndexedBy
    <2>3. \A s : s \in IndexStatements(t, {c}) <=>
                 \E op \in IndexOps : s = st(op) /\ c \in IndexedBy(op, t)
      <3> HIDE DEF st
      <3>1. ASSUME NEW s \in IndexStatements(t, {c})
            PROVE  s.op \in IndexOps /\ s = st(s.op) /\ c \in IndexedBy(s.op, t)
        <4>1. s \in Statements /\ s.op \in IndexOps /\ s.on = t
          BY DEF IndexStatements
        <4>2. s.cols = {c} /\ c \in IndexedBy(s.op, t)
          BY DEF IndexStatements
        <4>3. s.op \in Ops
          BY <2>1, <4>1
        <4> QED
          BY <1>1, <4>1, <4>2, <4>3
      <3>2. ASSUME NEW op \in IndexOps, c \in IndexedBy(op, t)
            PROVE  st(op) \in IndexStatements(t, {c})
        BY <1>1, <2>1, <3>2 DEF IndexStatements
      <3> QED
        BY <3>1, <3>2
    <2> HIDE DEF st
    <2>4. ASSUME NEW s
          PROVE  s \in IndexStatements(t, {c}) <=>
                   \/ s = st("unique index") /\ c \in IndexedBy("unique index", t)
                   \/ s = st("index") /\ c \in IndexedBy("index", t)
                   \/ s = st("fts") /\ c \in IndexedBy("fts", t)
      BY <2>3 DEF IndexOps
    <2> QED
      BY <2>2, <2>4
  <1>9. \A s : s \in DropStatements(t, {c}) <=>
               \/ bf /\ s = st("drop fts")
               \/ bd /\ s = st("drop index")
    <2>1. \A op \in DropOps : op \in {"drop fts", "drop index"} /\ op \in Ops
      BY <1>2 DEF DropOps
    <2>2. /\ DroppedBy("drop fts", t) = Searched
          /\ DroppedBy("drop index", t) = Uniques \cup DOMAIN References[t]
      BY DEF DroppedBy, Indexable
    <2>3. \A s : s \in DropStatements(t, {c}) <=>
                 \E op \in DropOps : s = st(op) /\ c \in DroppedBy(op, t)
      <3> HIDE DEF st
      <3>1. ASSUME NEW s \in DropStatements(t, {c})
            PROVE  s.op \in DropOps /\ s = st(s.op) /\ c \in DroppedBy(s.op, t)
        <4>1. s \in Statements /\ s.op \in DropOps /\ s.on = t
          BY DEF DropStatements
        <4>2. s.cols = {c} /\ c \in DroppedBy(s.op, t)
          BY DEF DropStatements
        <4>3. s.op \in Ops
          BY <2>1, <4>1
        <4> QED
          BY <1>1, <4>1, <4>2, <4>3
      <3>2. ASSUME NEW op \in DropOps, c \in DroppedBy(op, t)
            PROVE  st(op) \in DropStatements(t, {c})
        BY <1>1, <2>1, <3>2 DEF DropStatements
      <3> QED
        BY <3>1, <3>2
    <2> HIDE DEF st
    <2>4. ASSUME NEW s
          PROVE  s \in DropStatements(t, {c}) <=>
                   \/ s = st("drop fts") /\ c \in DroppedBy("drop fts", t)
                   \/ s = st("drop index") /\ c \in DroppedBy("drop index", t)
      BY <2>3 DEF DropOps
    <2> QED
      BY <2>2, <2>4
  <1> HIDE DEF st, bu, bi, bf, bd
  <1>10. Range(ui \o f) = IndexStatements(t, {c})
    <2>1. \A s : s \in Range(ui \o f) <=> s \in Range(u) \/ s \in Range(i) \/ s \in Range(f)
      BY <1>5, <1>6
    <2>2. \A s : /\ s \in Range(u) <=> bu /\ s = st("unique index")
                 /\ s \in Range(i) <=> bi /\ s = st("index")
                 /\ s \in Range(f) <=> bf /\ s = st("fts")
      BY <1>4
    <2>3. \A s : s \in Range(ui \o f) <=> s \in IndexStatements(t, {c})
      BY <1>8, <2>1, <2>2
    <2> QED
      BY <2>3
  <1>11. Range(df \o di) = DropStatements(t, {c})
    <2>1. \A s : s \in Range(df \o di) <=> s \in Range(df) \/ s \in Range(di)
      BY <1>7
    <2>2. \A s : /\ s \in Range(df) <=> bf /\ s = st("drop fts")
                 /\ s \in Range(di) <=> bd /\ s = st("drop index")
      BY <1>4
    <2>3. \A s : s \in Range(df \o di) <=> s \in DropStatements(t, {c})
      BY <1>9, <2>1, <2>2
    <2> QED
      BY <2>3
  <1> QED
    BY <1>3, <1>6, <1>7, <1>10, <1>11

LEMMA StatementsUnite ==
    ASSUME NEW t, NEW cols, NEW s
    PROVE  /\ s \in IndexStatements(t, cols) <=> \E c \in cols : s \in IndexStatements(t, {c})
           /\ s \in DropStatements(t, cols) <=> \E c \in cols : s \in DropStatements(t, {c})
  BY DEF IndexStatements, DropStatements

(* A struct's columns, and those of them that are new, each once.          *)
LEMMA InOrderFresh ==
    ASSUME NEW U, NEW seq \in Seq(U), IsInjective(seq), NEW S
    PROVE  \A i, j \in 1..Len(InOrder(seq, S)) : InOrder(seq, S)[i] = InOrder(seq, S)[j] => i = j
  <1> DEFINE F == [e \in U |-> If(e \in S, e)]
             R == Fresh(U)
             n == Len(seq)
  <1>0. n \in Nat /\ DOMAIN seq = 1..n /\ \A i \in 1..n : seq[i] \in U
    OBVIOUS
  <1>1. \A e \in U : If(e \in S, e) \in Seq(U) /\ Range(If(e \in S, e)) = {x \in {e} : e \in S}
    <2> SUFFICES ASSUME NEW e \in U
                 PROVE  If(e \in S, e) \in Seq(U) /\ Range(If(e \in S, e)) = {x \in {e} : e \in S}
      OBVIOUS
    <2> DEFINE b == e \in S
    <2>1. b \in BOOLEAN
      OBVIOUS
    <2> HIDE DEF b
    <2>2. If(b, e) \in Seq(U) /\ Range(If(b, e)) = {x \in {e} : b}
      BY <2>1, IfIs
    <2> QED
      BY <2>2 DEF b
  <1>2. F \in [U -> Seq(U)] /\ \A e \in U : Range(F[e]) = {x \in {e} : e \in S}
    BY <1>1
  <1>3. InOrder(seq, S) = Joined(F, seq)
    <2>1. [i \in DOMAIN seq |-> If(seq[i] \in S, seq[i])] = [i \in DOMAIN seq |-> F[seq[i]]]
      BY <1>0
    <2> QED
      BY <2>1 DEF InOrder, Each, Joined
  <1> HIDE DEF F
  <1>4. ASSUME NEW i \in 1..n PROVE InPlace(F[seq[i]], {} \cup Firsts(F, seq, i), R)
    <2> DEFINE B == {} \cup Firsts(F, seq, i)
    <2>1. \A x \in B : x \in U /\ x # seq[i]
      <3> SUFFICES ASSUME NEW x \in B PROVE x \in U /\ x # seq[i]
        OBVIOUS
      <3>1. PICK j \in 1..i - 1 : x \in Range(F[seq[j]])
        BY DEF Firsts
      <3>2. j \in 1..n /\ j # i
        BY <1>0
      <3>3. x = seq[j]
        BY <1>0, <1>2, <3>1, <3>2
      <3> QED
        BY <1>0, <3>2, <3>3 DEF IsInjective
    <2>2. CASE seq[i] \in S
      <3>1. F[seq[i]] = <<seq[i]>>
        BY <1>0, <2>2 DEF F, If
      <3>2. <<seq[i], B>> \in R
        BY <1>0, <2>1 DEF Fresh
      <3> HIDE DEF B, R
      <3> QED
        BY <3>1, <3>2, OneInPlace DEF B
    <2>3. CASE seq[i] \notin S
      <3>1. F[seq[i]] = <<>>
        BY <1>0, <2>3 DEF F, If
      <3> QED
        BY <3>1 DEF InPlace
    <2> QED
      BY <2>2, <2>3
  <1>5. InPlace(Joined(F, seq), {}, R)
    <2> HIDE DEF R
    <2> QED
      BY <1>2, <1>4, JoinedInPlace
  <1>6. Joined(F, seq) \in Seq(U)
    BY <1>2, RangeJoined
  <1> QED
    BY <1>3, <1>5, <1>6, FreshIsInjective

-----------------------------------------------------------------------------
(* What a statement adds to a database and what it takes away.             *)
NewOps == {"create table", "add column"}

Ahead(order, t, u) ==
    \E i, j \in 1..Len(order) : i < j /\ order[i] = t /\ order[j] = u

UpOK(x, B, known) ==
    /\ x.op \in NewOps \cup IndexOps
    /\ x.op = "create table" =>
         /\ Key(x.on) \notin known
         /\ \A y \in B : y.op = "create table" => Ahead(ModelOrder, y.on, x.on)
    /\ x.op = "add column" =>
         /\ Key(x.on) \in known
         /\ \E c \in ModelColumns :
              /\ x.cols = {c} /\ <<"column", x.on, c>> \notin known
              /\ \A y \in B : y.op = "add column" /\ y.on = x.on => c \notin y.cols
    /\ x.op \in IndexOps =>
         \E c \in ModelColumns :
           /\ x.cols = {c} /\ c \in IndexedBy(x.op, x.on)
           /\ \E y \in B : y.op \in NewOps /\ y.on = x.on /\ c \in y.cols

UpReady(known) == {p \in Statements \X SUBSET Statements : UpOK(p[1], p[2], known)}

(* Nothing that needs an index is without it.                              *)
Provided(gen) ==
    \A y \in Range(gen) : y.op \in NewOps => IndexStatements(y.on, y.cols) \subseteq Range(gen)

LEMMA CreateParts ==
    ASSUME NEW t, Modelled(t)
    PROVE  /\ Statement("create table", t, declared[t]) \in Statements
           /\ \E rest \in Seq(Statements) :
                /\ CreateModel(t) = <<Statement("create table", t, declared[t])>> \o rest
                /\ Range(rest) = IndexStatements(t, declared[t])
  <1> DEFINE F == [c \in ModelColumns |-> IndexesOf(t, c)]
             create == Statement("create table", t, declared[t])
             rest == Joined(F, Fields(t))
  <1>0. t \in ModelTables /\ declared[t] \in SUBSET ModelColumns /\ create \in Statements
    BY StatementIs DEF Modelled, Ops
  <1>1. /\ F \in [ModelColumns -> Seq(Statements)]
        /\ \A c \in ModelColumns : Range(F[c]) = IndexStatements(t, {c})
    BY <1>0, IndexesExact
  <1>2. Fields(t) \in Seq(ModelColumns) /\ \A c : c \in Range(Fields(t)) <=> c \in declared[t]
    BY <1>0, ColumnsAre DEF Fields
  <1>3. Each(LAMBDA c : IndexesOf(t, c), Fields(t)) = rest
    <2>1. \A i \in DOMAIN Fields(t) : Fields(t)[i] \in ModelColumns
      BY <1>2
    <2>2. [i \in DOMAIN Fields(t) |-> IndexesOf(t, Fields(t)[i])]
            = [i \in DOMAIN Fields(t) |-> F[Fields(t)[i]]]
      BY <2>1
    <2> QED
      BY <2>2 DEF Each, Joined
  <1> HIDE DEF F
  <1>4. /\ rest \in Seq(Statements)
        /\ \A x : x \in Range(rest) <=> \E e \in Range(Fields(t)) : x \in Range(F[e])
    BY <1>1, <1>2, RangeJoined
  <1>5. CreateModel(t) = <<create>> \o rest
    BY <1>3 DEF CreateModel
  <1> HIDE DEF create, rest
  <1>6. \A x : x \in Range(rest) <=> x \in IndexStatements(t, declared[t])
    <2>1. \A x : x \in Range(rest) <=> \E c \in declared[t] : x \in IndexStatements(t, {c})
      <3>1. Range(Fields(t)) = declared[t]
        BY <1>2
      <3>2. \A c \in declared[t] : Range(F[c]) = IndexStatements(t, {c})
        BY <1>0, <1>1
      <3>3. \A x : x \in Range(rest) <=> \E c \in declared[t] : x \in Range(F[c])
        BY <1>4, <3>1
      <3> QED
        BY ONLY <3>2, <3>3
    <2> QED
      BY <2>1, StatementsUnite
  <1>7. Range(rest) = IndexStatements(t, declared[t])
    BY <1>6
  <1> QED
    BY <1>0, <1>4, <1>5, <1>7 DEF create

LEMMA CreateRange ==
    ASSUME NEW t, Modelled(t)
    PROVE  \A s : s \in Range(CreateModel(t)) <=>
               \/ s = Statement("create table", t, declared[t])
               \/ s \in IndexStatements(t, declared[t])
  <1> DEFINE create == Statement("create table", t, declared[t])
             first == <<create>>
  <1>1. PICK rest \in Seq(Statements) :
            CreateModel(t) = first \o rest /\ Range(rest) = IndexStatements(t, declared[t])
    BY CreateParts
  <1>2. first \in Seq(Statements) /\ Range(first) = {create}
    <2>1. create \in Statements
      BY CreateParts
    <2> HIDE DEF create
    <2> QED
      BY <2>1, OneIs
  <1> HIDE DEF create, first
  <1>3. Range(first \o rest) = Range(first) \cup Range(rest)
    BY <1>2, RangeCat
  <1> QED
    BY <1>1, <1>2, <1>3 DEF create

LEMMA CreateInPlace ==
    ASSUME NEW t, Modelled(t), NEW B \in SUBSET Statements, NEW R,
           <<Statement("create table", t, declared[t]), B>> \in R,
           \A s \in IndexStatements(t, declared[t]) : \A C \in SUBSET Statements :
              Statement("create table", t, declared[t]) \in C => <<s, C>> \in R
    PROVE  InPlace(CreateModel(t), B, R)
  <1> DEFINE create == Statement("create table", t, declared[t])
             first == <<create>>
             D == B \cup {create}
  <1>1. PICK rest \in Seq(Statements) :
            CreateModel(t) = first \o rest /\ Range(rest) = IndexStatements(t, declared[t])
    BY CreateParts
  <1>2. create \in Statements /\ first \in Seq(Statements) /\ Range(first) = {create}
    <2>1. create \in Statements
      BY CreateParts
    <2> HIDE DEF create
    <2> QED
      BY <2>1, OneIs
  <1>3. InPlace(first, B, R)
    <2>1. <<create, B>> \in R
      OBVIOUS
    <2> HIDE DEF create
    <2> QED
      BY <2>1, OneInPlace
  <1>4. \A s \in Range(rest) : \A C \in SUBSET Statements : create \in C => <<s, C>> \in R
    BY <1>1
  <1> HIDE DEF create, first
  <1>5. InPlace(rest, D, R)
    <2>1. \A x \in Range(rest) : \A C : D \subseteq C /\ C \subseteq D \cup Range(rest) => <<x, C>> \in R
      <3>1. Range(rest) \subseteq Statements /\ D \subseteq Statements /\ create \in D
        BY <1>2, RangeIs
      <3> QED
        BY <1>4, <3>1
    <2> HIDE DEF D
    <2> QED
      BY <2>1, EasilyInPlace
  <1>6. InPlace(rest, B \cup Range(first), R)
    BY <1>2, <1>5
  <1> QED
    BY <1>1, <1>2, <1>3, <1>6, CatInPlace

LEMMA AddParts ==
    ASSUME NEW t \in ModelTables, NEW c \in ModelColumns
    PROVE  LET add == Statement("add column", t, {c})
               block == <<add>> \o IndexesOf(t, c)
           IN  /\ add \in Statements /\ add.op = "add column" /\ add.on = t /\ add.cols = {c}
               /\ block \in Seq(Statements)
               /\ Range(block) = {add} \cup IndexStatements(t, {c})
               /\ \A R : \A B \in SUBSET Statements :
                    /\ <<add, B>> \in R
                    /\ \A s \in IndexStatements(t, {c}) : \A C \in SUBSET Statements :
                         add \in C => <<s, C>> \in R
                    => InPlace(block, B, R)
  <1> DEFINE add == Statement("add column", t, {c})
             first == <<add>>
             rest == IndexesOf(t, c)
             I == IndexStatements(t, {c})
  <1>1. add \in Statements /\ add.op = "add column" /\ add.on = t /\ add.cols = {c}
    <2>1. "add column" \in Ops /\ {c} \in SUBSET ModelColumns
      BY DEF Ops
    <2>2. add \in Statements
      BY <2>1, StatementIs
    <2> QED
      BY <2>2 DEF Statement
  <1>2. first \in Seq(Statements) /\ Range(first) = {add}
    <2> HIDE DEF add
    <2> QED
      BY <1>1, OneIs
  <1>3. rest \in Seq(Statements) /\ Range(rest) = I
    BY IndexesExact
  <1> HIDE DEF first, rest, I, add
  <1>a. first \in Seq(Statements) /\ rest \in Seq(Statements)
    BY <1>2, <1>3
  <1>b. first \o rest \in Seq(Statements) /\ Range(first \o rest) = Range(first) \cup Range(rest)
    BY <1>a, RangeCat
  <1>4. first \o rest \in Seq(Statements) /\ Range(first \o rest) = {add} \cup I
    BY <1>2, <1>3, <1>b
  <1>5. ASSUME NEW B \in SUBSET Statements, NEW R, <<add, B>> \in R,
               \A s \in I : \A C \in SUBSET Statements : add \in C => <<s, C>> \in R
        PROVE  InPlace(first \o rest, B, R)
    <2> DEFINE D == B \cup {add}
    <2>1. InPlace(first, B, R)
      BY <1>5, OneInPlace DEF first
    <2>2. InPlace(rest, D, R)
      <3>1. \A x \in Range(rest) : \A C : D \subseteq C /\ C \subseteq D \cup Range(rest) => <<x, C>> \in R
        <4>1. Range(rest) \subseteq Statements /\ D \subseteq Statements /\ add \in D
          BY <1>1, <1>3, RangeIs
        <4> QED
          BY <1>3, <1>5, <4>1
      <3> HIDE DEF D
      <3> QED
        BY <1>3, <3>1, EasilyInPlace
    <2>3. InPlace(rest, B \cup Range(first), R)
      BY <1>2, <2>2
    <2> QED
      BY <1>2, <1>3, <2>1, <2>3, CatInPlace
  <1> QED
    BY <1>1, <1>4, <1>5 DEF first, rest, I, add

LEMMA AddRange ==
    ASSUME NEW t, Modelled(t)
    PROVE  \A s : s \in Range(AddColumns(t)) <=>
               \/ \E c \in Range(Added(t)) : s = Statement("add column", t, {c})
               \/ s \in IndexStatements(t, Range(Added(t)))
  <1> DEFINE add(c) == Statement("add column", t, {c})
             F == [c \in ModelColumns |-> <<add(c)>> \o IndexesOf(t, c)]
             new == Added(t)
  <1>0. t \in ModelTables
    BY DEF Modelled
  <1>1. F \in [ModelColumns -> Seq(Statements)]
        /\ \A c \in ModelColumns : Range(F[c]) = {add(c)} \cup IndexStatements(t, {c})
    BY <1>0, AddParts
  <1>2. new \in Seq(ModelColumns) /\ Range(new) \subseteq ModelColumns
    <2>1. new \in Seq(ModelColumns)
      BY ColumnsAre DEF Added
    <2> HIDE DEF new
    <2> QED
      BY <2>1, RangeIs
  <1>3. AddColumns(t) = Joined(F, new)
    <2>1. \A i \in DOMAIN new : new[i] \in ModelColumns
      <3> HIDE DEF new
      <3> QED
        BY <1>2
    <2>2. [i \in DOMAIN new |-> <<add(new[i])>> \o IndexesOf(t, new[i])]
            = [i \in DOMAIN new |-> F[new[i]]]
      BY <2>1
    <2> QED
      BY <2>2 DEF AddColumns, Each, Joined
  <1> HIDE DEF F, new, add
  <1>4. \A x : x \in Range(Joined(F, new)) <=> \E c \in Range(new) : x \in Range(F[c])
    <2>1. F \in [ModelColumns -> Seq(Statements)] /\ new \in Seq(ModelColumns)
      BY <1>1, <1>2
    <2> QED
      BY ONLY <2>1, RangeJoined
  <1>5. \A x : x \in Range(Joined(F, new)) <=>
            \E c \in Range(new) : x = add(c) \/ x \in IndexStatements(t, {c})
    <2>1. \A c \in Range(new) : \A x : x \in Range(F[c]) <=> x = add(c) \/ x \in IndexStatements(t, {c})
      BY <1>1, <1>2
    <2> QED
      BY ONLY <1>4, <2>1
  <1>6. \A x : x \in IndexStatements(t, Range(new)) <=>
            \E c \in Range(new) : x \in IndexStatements(t, {c})
    BY StatementsUnite
  <1>7. \A x : x \in Range(AddColumns(t)) <=>
            (\E c \in Range(new) : x = add(c)) \/ x \in IndexStatements(t, Range(new))
    BY <1>3, <1>5, <1>6
  <1> QED
    BY <1>7 DEF add, new

(* The new columns of a table, each once, then their indexes.              *)
LEMMA AddInPlace ==
    ASSUME NEW t, Modelled(t), Key(t) \in KnownSchema, NEW B \in SUBSET Statements,
           \A y \in B : y.op = "add column" => y.on # t
    PROVE  InPlace(AddColumns(t), B, UpReady(KnownSchema))
  <1> DEFINE add(c) == Statement("add column", t, {c})
             F == [c \in ModelColumns |-> <<add(c)>> \o IndexesOf(t, c)]
             new == Added(t)
             n == Len(new)
             R == UpReady(KnownSchema)
  <1>0. t \in ModelTables
    BY DEF Modelled
  <1>1. /\ F \in [ModelColumns -> Seq(Statements)]
        /\ \A c \in ModelColumns : Range(F[c]) = {add(c)} \cup IndexStatements(t, {c})
    BY <1>0, AddParts
  <1>2. /\ new \in Seq(ModelColumns) /\ \A i, j \in 1..n : new[i] = new[j] => i = j
        /\ \A i \in 1..n : <<"column", t, new[i]>> \notin KnownSchema
    <2>1. new = InOrder(ColumnOrder, declared[t] \ Known(t))
      BY DEF Added
    <2>2. ColumnOrder \in Seq(ModelColumns) /\ IsInjective(ColumnOrder)
      BY ColumnsAre, MakeAssumption
    <2>3. new \in Seq(ModelColumns) /\ \A c : c \in Range(new) => c \notin Known(t)
      <3> DEFINE S == declared[t] \ Known(t)
      <3>1. \A c \in S : c \notin Known(t)
        OBVIOUS
      <3> HIDE DEF S, new
      <3>2. new = InOrder(ColumnOrder, S)
        BY <2>1 DEF S
      <3> QED
        BY <3>1, <3>2, ColumnsAre
    <2>6. new \in Seq(ModelColumns)
      BY <2>3
    <2>4. \A i, j \in 1..n : new[i] = new[j] => i = j
      BY <2>1, <2>2, InOrderFresh
    <2> HIDE DEF new
    <2>5. \A i \in 1..n : new[i] \in ModelColumns /\ new[i] \in Range(new)
      <3>1. Range(new) = {new[i] : i \in 1..n} /\ Range(new) \subseteq ModelColumns
        BY <2>6, RangeIs
      <3> QED
        BY <3>1
    <2> QED
      BY <2>3, <2>4, <2>5 DEF Known
  <1>a. n \in Nat /\ DOMAIN new = 1..n /\ \A i \in 1..n : new[i] \in ModelColumns
    <2>1. new \in Seq(ModelColumns)
      BY <1>2
    <2> HIDE DEF new
    <2> QED
      BY <2>1, PlacesAre
  <1>3. AddColumns(t) = Joined(F, new)
    <2>1. \A i \in DOMAIN new : new[i] \in ModelColumns
      <3> HIDE DEF new
      <3> QED
        BY <1>a
    <2>2. [i \in DOMAIN new |-> <<add(new[i])>> \o IndexesOf(t, new[i])]
            = [i \in DOMAIN new |-> F[new[i]]]
      BY <2>1
    <2> QED
      BY <2>2 DEF AddColumns, Each, Joined
  <1>4. \A c \in ModelColumns : /\ F[c] = <<add(c)>> \o IndexesOf(t, c)
                                /\ add(c) \in Statements /\ add(c).op = "add column"
                                /\ add(c).on = t /\ add(c).cols = {c}
    BY <1>0, AddParts
  <1> HIDE DEF F, new, R
  <1>5. ASSUME NEW i \in 1..n PROVE InPlace(F[new[i]], B \cup Firsts(F, new, i), R)
    <2> DEFINE c == new[i]
               C == B \cup Firsts(F, new, i)
    <2>1. n \in Nat /\ c \in ModelColumns /\ \A j \in 1..i - 1 : new[j] \in ModelColumns /\ new[j] # c
      <3>1. n \in Nat
        BY <1>a
      <3> HIDE DEF n
      <3>2. \A j \in 1..i - 1 : j \in 1..n /\ j # i
        BY <3>1, PlacesBefore
      <3> QED
        BY <1>2, <1>a, <3>1, <3>2
    <2>2. ASSUME NEW y \in Firsts(F, new, i)
          PROVE  y \in Statements /\ (y.op = "add column" => c \notin y.cols)
      <3>1. PICK j \in 1..i - 1 : y \in Range(F[new[j]])
        BY DEF Firsts
      <3>2. y = add(new[j]) \/ y \in IndexStatements(t, {new[j]})
        BY <1>1, <2>1, <3>1
      <3>3. y \in IndexStatements(t, {new[j]}) => y \in Statements /\ y.op # "add column"
        BY DEF IndexStatements, IndexOps
      <3> HIDE DEF add
      <3>4. /\ new[j] \in ModelColumns /\ new[j] # c
            /\ add(new[j]) \in Statements /\ add(new[j]).cols = {new[j]}
        BY <1>4, <2>1
      <3> HIDE DEF c
      <3> QED
        BY <3>2, <3>3, <3>4
    <2>3. C \in SUBSET Statements
      BY <2>2
    <2>4. <<add(c), C>> \in R
      <3>1. \A y \in C : y.op = "add column" /\ y.on = t => c \notin y.cols
        BY <2>2
      <3>2. <<"column", t, c>> \notin KnownSchema
        BY <1>2
      <3> HIDE DEF add, c, C
      <3>3. UpOK(add(c), C, KnownSchema)
        BY <1>4, <2>1, <3>1, <3>2 DEF UpOK, NewOps, IndexOps
      <3> QED
        BY <1>4, <2>1, <2>3, <3>3 DEF R, UpReady
    <2>5. ASSUME NEW s \in IndexStatements(t, {c}), NEW D \in SUBSET Statements, add(c) \in D
          PROVE  <<s, D>> \in R
      <3>1. /\ s \in Statements /\ s.op \in IndexOps /\ s.on = t
            /\ s.cols = {c} /\ c \in IndexedBy(s.op, t)
        BY DEF IndexStatements
      <3> HIDE DEF add, c
      <3>2. UpOK(s, D, KnownSchema)
        BY <1>4, <2>1, <2>5, <3>1 DEF UpOK, NewOps, IndexOps
      <3> QED
        BY <3>1, <3>2 DEF R, UpReady
    <2> HIDE DEF c, C
    <2>6. InPlace(<<add(c)>> \o IndexesOf(t, c), C, R)
      BY <1>0, <2>1, <2>3, <2>4, <2>5, AddParts
    <2> HIDE DEF add
    <2>7. InPlace(F[c], C, R)
      BY <1>4, <2>1, <2>6
    <2> QED
      BY <2>7 DEF c, C
  <1>6. InPlace(Joined(F, new), B, R)
    BY <1>1, <1>2, <1>5, JoinedInPlace DEF n
  <1> QED
    BY <1>3, <1>6 DEF R

-----------------------------------------------------------------------------
(* Executing a section whose statements are accepted one by one.           *)

(* An execution of which each state is known.                              *)
LEMMA RunsAs ==
    ASSUME NEW st \in Seq(Statements), NEW E \in [0..Len(st) -> SUBSET Things],
           \A k \in 1..Len(st) : EffectOf(st[k], E[k - 1]) = E[k]
    PROVE  /\ Executed(st, E[0]) # Refused =>
                /\ Executed(st, E[0]) = E[Len(st)]
                /\ \A k \in 1..Len(st) : AcceptsStatement(st[k], E[k - 1])
           /\ (\A k \in 1..Len(st) : AcceptsStatement(st[k], E[k - 1])) =>
                Executed(st, E[0]) = E[Len(st)]
  <1> DEFINE n == Len(st)
  <1>0. n \in Nat /\ \A i \in 0..n : E[i] \in SUBSET Things /\ E[i] # Refused
    <2>1. Refused \notin SUBSET Things
      BY MakeAssumption DEF Refused, Things, ModelTables, ModelColumns
    <2> QED
      BY <2>1
  <1>1. PICK g : Runs(g, st, E[0]) /\ Executed(st, E[0]) = g[n]
    <2>1. 0 \in 0..n
      BY <1>0
    <2>2. E[0] \in Databases
      BY <1>0, <2>1 DEF Databases
    <2> QED
      BY <2>2, ExecutedIs
  <1>2. /\ g[0] = E[0]
        /\ \A k \in 1..n : g[k] = IF g[k - 1] = Refused \/ ~AcceptsStatement(st[k], g[k - 1])
                                  THEN Refused ELSE EffectOf(st[k], g[k - 1])
    BY <1>1 DEF Runs, Outcome
  <1>3. \A k \in 1..n : EffectOf(st[k], E[k - 1]) = E[k]
    OBVIOUS
  <1> DEFINE S == {i \in Nat : i <= n => g[i] = Refused \/ g[i] = E[i]}
             B == {i \in Nat : i <= n /\ g[n] # Refused => g[n - i] # Refused}
             O == {i \in Nat : i <= n => g[i] = E[i]}
  <1> HIDE DEF n
  <1>a. \A i \in Nat : i + 1 <= n => i + 1 \in 1..n /\ i + 1 - 1 = i /\ i <= n /\ i \in 0..n
    BY <1>0
  <1>4. S = Nat
    <2>1. 0 \in S /\ S \in SUBSET Nat
      BY <1>2
    <2>2. ASSUME NEW i \in S PROVE i + 1 \in S
      <3> SUFFICES ASSUME i + 1 <= n PROVE g[i + 1] = Refused \/ g[i + 1] = E[i + 1]
        OBVIOUS
      <3>1. i + 1 \in 1..n /\ i + 1 - 1 = i /\ (g[i] = Refused \/ g[i] = E[i])
        BY <1>a
      <3> QED
        BY <1>2, <1>3, <3>1
    <2> HIDE DEF S
    <2> QED
      BY <2>1, <2>2, Induction
  <1>5. B = Nat
    <2>1. 0 \in B /\ B \in SUBSET Nat
      BY <1>0
    <2>2. ASSUME NEW i \in B PROVE i + 1 \in B
      <3> SUFFICES ASSUME i + 1 <= n, g[n] # Refused PROVE g[n - (i + 1)] # Refused
        OBVIOUS
      <3>1. n - i \in 1..n /\ n - i - 1 = n - (i + 1) /\ g[n - i] # Refused
        BY <1>0, <1>a
      <3> QED
        BY <1>2, <3>1
    <2> HIDE DEF B
    <2> QED
      BY <2>1, <2>2, Induction
  <1>6. ASSUME g[n] # Refused
        PROVE  g[n] = E[n] /\ \A k \in 1..n : AcceptsStatement(st[k], E[k - 1])
    <2>1. ASSUME NEW i \in 0..n PROVE g[i] = E[i] /\ g[i] # Refused
      <3>1. n - i \in Nat /\ n - i <= n /\ n - (n - i) = i /\ i \in Nat /\ i <= n
        BY <1>0
      <3>2. g[i] # Refused
        BY <1>5, <1>6, <3>1
      <3> QED
        BY <1>4, <3>1, <3>2
    <2>2. ASSUME NEW k \in 1..n PROVE AcceptsStatement(st[k], E[k - 1])
      <3>1. k \in 0..n /\ k - 1 \in 0..n
        BY <1>0
      <3>2. g[k] # Refused /\ g[k - 1] = E[k - 1]
        BY <2>1, <3>1
      <3> QED
        BY <1>2, <3>2
    <2>3. n \in 0..n
      BY <1>0
    <2> QED
      BY <2>1, <2>2, <2>3
  <1>7. ASSUME \A k \in 1..n : AcceptsStatement(st[k], E[k - 1]) PROVE g[n] = E[n]
    <2>1. 0 \in O /\ O \in SUBSET Nat
      BY <1>2
    <2>2. ASSUME NEW i \in O PROVE i + 1 \in O
      <3> SUFFICES ASSUME i + 1 <= n PROVE g[i + 1] = E[i + 1]
        OBVIOUS
      <3>1. i + 1 \in 1..n /\ i + 1 - 1 = i /\ g[i] = E[i] /\ i \in 0..n
        BY <1>a
      <3>2. g[i] # Refused /\ AcceptsStatement(st[i + 1], E[i])
        BY <1>0, <1>7, <3>1
      <3> QED
        BY <1>2, <1>3, <3>1, <3>2
    <2> HIDE DEF O
    <2>3. O = Nat
      BY <2>1, <2>2, Induction
    <2> QED
      BY <1>0, <2>3 DEF O
  <1> QED
    BY <1>1, <1>6, <1>7 DEF n

(* What every accepted statement keeps, an accepted execution keeps.       *)
LEMMA ExecutedKeeps ==
    ASSUME NEW st \in Seq(Statements), NEW J \in SUBSET SUBSET Things, NEW d \in J,
           \A s \in Range(st) : \A e \in J : AcceptsStatement(s, e) => EffectOf(s, e) \in J,
           Executed(st, d) # Refused
    PROVE  Executed(st, d) \in J
  <1> DEFINE n == Len(st)
  <1>0. n \in Nat /\ \A i \in 1..n : st[i] \in Range(st)
    BY DEF Range
  <1>1. PICK g : Runs(g, st, d) /\ Executed(st, d) = g[n]
    BY ExecutedIs DEF Databases
  <1>2. /\ g[0] = d
        /\ \A k \in 1..n : g[k] = IF g[k - 1] = Refused \/ ~AcceptsStatement(st[k], g[k - 1])
                                  THEN Refused ELSE EffectOf(st[k], g[k - 1])
    BY <1>1 DEF Runs, Outcome
  <1> DEFINE T == {i \in Nat : i <= n => g[i] = Refused \/ g[i] \in J}
  <1> HIDE DEF n
  <1>3. 0 \in T /\ T \in SUBSET Nat
    BY <1>2
  <1>4. ASSUME NEW i \in T PROVE i + 1 \in T
    <2> SUFFICES ASSUME i + 1 <= n PROVE g[i + 1] = Refused \/ g[i + 1] \in J
      OBVIOUS
    <2>1. i + 1 \in 1..n /\ i + 1 - 1 = i /\ (g[i] = Refused \/ g[i] \in J)
      BY <1>0
    <2> QED
      BY <1>0, <1>2, <2>1
  <1> HIDE DEF T
  <1>5. T = Nat
    BY <1>3, <1>4, Induction
  <1> QED
    BY <1>0, <1>1, <1>5 DEF T

LEMMA ExecutedCat ==
    ASSUME NEW s \in Seq(Statements), NEW t \in Seq(Statements), NEW d \in Databases
    PROVE  /\ Executed(s \o t, d) = Executed(t, Executed(s, d)) /\ Executed(s, d) \in Databases
           /\ Executed(t, Refused) = Refused
  <1> DEFINE m == Len(s)
             n == Len(t)
             c == s \o t
  <1>1. /\ m \in Nat /\ n \in Nat /\ Len(c) = m + n /\ c \in Seq(Statements)
        /\ \A i \in 1..m + n : c[i] = IF i <= m THEN s[i] ELSE t[i - m]
        /\ \A i \in 1..m : s[i] \in Statements
    OBVIOUS
  <1>2. PICK f : Runs(f, s, d) /\ Executed(s, d) = f[m]
    BY ExecutedIs
  <1>3. PICK h : Runs(h, c, d) /\ Executed(c, d) = h[m + n]
    BY <1>1, ExecutedIs
  <1> HIDE DEF m, n, c
  <1>4. /\ f[0] = d /\ \A i \in 1..m : f[i] = Outcome(s[i], f[i - 1])
        /\ h[0] = d /\ \A i \in 1..m + n : h[i] = Outcome(c[i], h[i - 1])
    BY <1>1, <1>2, <1>3 DEF Runs, m, n
  <1> DEFINE T == {i \in Nat : i <= m => f[i] = h[i] /\ f[i] \in Databases}
  <1>5. T = Nat
    <2>1. 0 \in T /\ T \in SUBSET Nat
      BY <1>4
    <2>2. ASSUME NEW i \in T PROVE i + 1 \in T
      <3> SUFFICES ASSUME i + 1 <= m PROVE f[i + 1] = h[i + 1] /\ f[i + 1] \in Databases
        OBVIOUS
      <3>1. /\ i + 1 \in 1..m /\ i + 1 \in 1..m + n /\ i + 1 - 1 = i /\ c[i + 1] = s[i + 1]
            /\ f[i] = h[i] /\ f[i] \in Databases
        BY <1>1
      <3>2. f[i + 1] = Outcome(s[i + 1], f[i + 1 - 1]) /\ h[i + 1] = Outcome(c[i + 1], h[i + 1 - 1])
        BY <1>4, <3>1
      <3>3. f[i + 1] = Outcome(s[i + 1], f[i]) /\ h[i + 1] = Outcome(s[i + 1], f[i])
        BY <3>1, <3>2
      <3> QED
        BY <1>1, <3>1, <3>3, OutcomeIs
    <2> HIDE DEF T
    <2> QED
      BY <2>1, <2>2, Induction
  <1>6. f[m] = h[m] /\ f[m] \in Databases
    BY <1>1, <1>5
  <1>7. PICK g : Runs(g, t, f[m]) /\ Executed(t, f[m]) = g[n]
    BY <1>6, ExecutedIs DEF n
  <1>8. g[0] = f[m] /\ \A i \in 1..n : g[i] = Outcome(t[i], g[i - 1])
    BY <1>7 DEF Runs, n
  <1> DEFINE V == {i \in Nat : i <= n => g[i] = h[m + i]}
  <1>9. V = Nat
    <2>1. 0 \in V /\ V \in SUBSET Nat
      BY <1>1, <1>6, <1>8
    <2>2. ASSUME NEW i \in V PROVE i + 1 \in V
      <3> SUFFICES ASSUME i + 1 <= n PROVE g[i + 1] = h[m + (i + 1)]
        OBVIOUS
      <3>1. /\ i + 1 \in 1..n /\ m + (i + 1) \in 1..m + n /\ i + 1 - 1 = i
            /\ m + (i + 1) - 1 = m + i /\ g[i] = h[m + i] /\ c[m + (i + 1)] = t[i + 1]
        <4>1. i \in Nat /\ g[i] = h[m + i]
          BY <1>1
        <4> HIDE DEF V
        <4>2. /\ i + 1 \in 1..n /\ m + (i + 1) \in 1..m + n /\ i + 1 - 1 = i
              /\ m + (i + 1) - 1 = m + i /\ ~(m + (i + 1) <= m) /\ (m + (i + 1)) - m = i + 1
          BY <1>1, <4>1
        <4>3. c[m + (i + 1)] = t[i + 1]
          BY ONLY <1>1, <4>2
        <4> QED
          BY <4>1, <4>2, <4>3
      <3>2. PICK j \in 1..m + n : j = m + (i + 1) /\ j - 1 = m + i /\ c[j] = t[i + 1]
        BY <1>1, <3>1
      <3>3. h[j] = Outcome(c[j], h[j - 1])
        BY <1>4
      <3>4. h[j] = Outcome(t[i + 1], h[m + i])
        BY <3>2, <3>3
      <3>5. g[i + 1] = Outcome(t[i + 1], g[i])
        BY <1>8, <3>1
      <3> QED
        BY <3>1, <3>2, <3>4, <3>5
    <2> HIDE DEF V
    <2> QED
      BY <2>1, <2>2, Induction
  <1>10. g[n] = h[m + n]
    BY <1>1, <1>9
  <1>11. Executed(t, Refused) = Refused
    <2>1. PICK r : Runs(r, t, Refused) /\ Executed(t, Refused) = r[n]
      BY ExecutedIs DEF n, Databases
    <2>2. r[0] = Refused /\ \A i \in 1..n : r[i - 1] = Refused => r[i] = Refused
      BY <2>1 DEF Runs, Outcome, n
    <2> DEFINE W == {i \in Nat : i <= n => r[i] = Refused}
    <2>3. 0 \in W /\ W \in SUBSET Nat
      BY <2>2
    <2>4. ASSUME NEW i \in W PROVE i + 1 \in W
      <3> SUFFICES ASSUME i + 1 <= n PROVE r[i + 1] = Refused
        OBVIOUS
      <3>1. i + 1 \in 1..n /\ i + 1 - 1 = i /\ r[i] = Refused
        BY <1>1
      <3> QED
        BY <2>2, <3>1
    <2> HIDE DEF W
    <2>5. W = Nat
      BY <2>3, <2>4, Induction
    <2> QED
      BY <1>1, <2>1, <2>5 DEF W
  <1> QED
    BY <1>2, <1>3, <1>6, <1>7, <1>10, <1>11 DEF c

LEMMA AheadStrict ==
    \A t, u : Ahead(ModelOrder, t, u) => t # u /\ ~Ahead(ModelOrder, u, t)
  <1>1. ASSUME NEW i \in 1..Len(ModelOrder), NEW j \in 1..Len(ModelOrder),
               ModelOrder[i] = ModelOrder[j]
        PROVE  i = j
    <2>1. DOMAIN ModelOrder = 1..Len(ModelOrder)
      BY MakeAssumption
    <2> QED
      BY <1>1, <2>1, MakeAssumption DEF IsInjective
  <1>2. Len(ModelOrder) \in Nat
    BY MakeAssumption
  <1> QED
    BY <1>1, <1>2 DEF Ahead

(* What a statement of a section up adds, and one of a section down drops. *)
Adds(s) ==
    CASE s.op = "create table" -> {Key(s.on)} \cup Items("column", s.on, s.cols)
      [] s.op = "add column" -> Items("column", s.on, s.cols)
      [] s.op \in {"unique index", "index"} -> Items("index", s.on, s.cols)
      [] s.op = "fts" -> Items("fts", s.on, s.cols)
      [] OTHER -> {}
AllAdds(B) == UNION {Adds(s) : s \in B}

Drops(s) ==
    CASE s.op = "drop index" -> Items("index", s.on, s.cols)
      [] s.op = "drop fts" -> Items("fts", s.on, s.cols)
      [] s.op = "drop column" -> Items("column", s.on, s.cols)
      [] s.op = "drop table" -> {i \in Things : i[2] = s.on /\ i[1] # "fts"}
      [] OTHER -> {}
AllDrops(B) == UNION {Drops(s) : s \in B}

LEMMA AddsAre ==
    ASSUME NEW s \in Statements
    PROVE  /\ Adds(s) \subseteq Things
           /\ \A t \in ModelTables :
                Key(t) \in Adds(s) <=> s.op = "create table" /\ s.on = t
           /\ \A t, c : <<"column", t, c>> \in Adds(s) <=>
                s.op \in NewOps /\ s.on = t /\ c \in s.cols
           /\ \A t, c : <<"index", t, c>> \in Adds(s) <=>
                s.op \in {"unique index", "index"} /\ s.on = t /\ c \in s.cols
           /\ \A t, c : <<"fts", t, c>> \in Adds(s) <=> s.op = "fts" /\ s.on = t /\ c \in s.cols
  <1>1. /\ s.op \in Ops /\ Key(s.on) \in Things
        /\ \A k \in {"table", "column", "index", "fts"} : Items(k, s.on, s.cols) \subseteq Things
    BY StatementFacts
  <1>2. \A k, l, t, c : <<l, t, c>> \in Items(k, s.on, s.cols) <=> l = k /\ t = s.on /\ c \in s.cols
    BY DEF Items
  <1>3. \A t : Key(t) = <<"table", t, "id">>
    BY DEF Key
  <1>4. CASE s.op = "create table"
    <2>1. Adds(s) = {Key(s.on)} \cup Items("column", s.on, s.cols)
      BY <1>4 DEF Adds
    <2> QED
      BY <1>1, <1>2, <1>3, <1>4, <2>1 DEF NewOps
  <1>5. CASE s.op = "add column"
    <2>1. Adds(s) = Items("column", s.on, s.cols)
      BY <1>5 DEF Adds
    <2>2. \A l, t, c : <<l, t, c>> \in Adds(s) <=> l = "column" /\ t = s.on /\ c \in s.cols
      BY <2>1 DEF Items
    <2>3. Adds(s) \subseteq Things
      BY <1>1, <2>1
    <2>4. \A t : Key(t) \notin Adds(s)
      BY <1>3, <2>2
    <2> QED
      BY <1>5, <2>2, <2>3, <2>4 DEF NewOps
  <1>6. CASE s.op \in {"unique index", "index"}
    <2>1. Adds(s) = Items("index", s.on, s.cols)
      BY <1>6 DEF Adds
    <2>2. \A l, t, c : <<l, t, c>> \in Adds(s) <=> l = "index" /\ t = s.on /\ c \in s.cols
      BY <2>1 DEF Items
    <2>3. Adds(s) \subseteq Things
      BY <1>1, <2>1
    <2>4. \A t : Key(t) \notin Adds(s)
      BY <1>3, <2>2
    <2> QED
      BY <1>6, <2>2, <2>3, <2>4 DEF NewOps
  <1>7. CASE s.op = "fts"
    <2>1. Adds(s) = Items("fts", s.on, s.cols)
      BY <1>7 DEF Adds
    <2>2. \A l, t, c : <<l, t, c>> \in Adds(s) <=> l = "fts" /\ t = s.on /\ c \in s.cols
      BY <2>1 DEF Items
    <2>3. Adds(s) \subseteq Things
      BY <1>1, <2>1
    <2>4. \A t : Key(t) \notin Adds(s)
      BY <1>3, <2>2
    <2> QED
      BY <1>7, <2>2, <2>3, <2>4 DEF NewOps
  <1>8. CASE s.op \notin {"create table", "add column", "unique index", "index", "fts"}
    <2>1. Adds(s) = {}
      BY <1>8 DEF Adds
    <2> QED
      BY <1>8, <2>1 DEF NewOps
  <1> QED
    BY <1>4, <1>5, <1>6, <1>7, <1>8

LEMMA DropsAre ==
    ASSUME NEW s \in Statements, s.op \in DownOps
    PROVE  /\ Drops(s) \subseteq Things
           /\ \A d \in SUBSET Things : EffectOf(s, d) = d \ Drops(s)
           /\ \A t, c : <<"table", t, c>> \in Drops(s) =>
                s.op = "drop table" /\ s.on = t
           /\ \A t, c : <<"column", t, c>> \in Things =>
                (<<"column", t, c>> \in Drops(s) <=>
                  s.on = t /\ (s.op = "drop table" \/ (s.op = "drop column" /\ c \in s.cols)))
           /\ \A t, c : <<"index", t, c>> \in Things =>
                (<<"index", t, c>> \in Drops(s) <=>
                  s.on = t /\ (s.op = "drop table" \/ (s.op = "drop index" /\ c \in s.cols)))
           /\ \A t, c : <<"fts", t, c>> \in Drops(s) <=> s.op = "drop fts" /\ s.on = t /\ c \in s.cols
  <1>1. \A k \in {"table", "column", "index", "fts"} : Items(k, s.on, s.cols) \subseteq Things
    BY StatementFacts
  <1>2. \A k, l, t, c : <<l, t, c>> \in Items(k, s.on, s.cols) <=> l = k /\ t = s.on /\ c \in s.cols
    BY DEF Items
  <1>3. CASE s.op = "drop index"
    <2>1. Drops(s) = Items("index", s.on, s.cols) /\ \A d : EffectOf(s, d) = d \ Items("index", s.on, s.cols)
      BY <1>3 DEF Drops, EffectOf
    <2>2. \A l, t, c : <<l, t, c>> \in Drops(s) <=> l = "index" /\ t = s.on /\ c \in s.cols
      BY <2>1 DEF Items
    <2>3. Drops(s) \subseteq Things /\ \A d : EffectOf(s, d) = d \ Drops(s)
      BY <1>1, <2>1
    <2> QED
      BY <1>3, <2>2, <2>3
  <1>4. CASE s.op = "drop fts"
    <2>1. Drops(s) = Items("fts", s.on, s.cols) /\ \A d : EffectOf(s, d) = d \ Items("fts", s.on, s.cols)
      BY <1>4 DEF Drops, EffectOf
    <2>2. \A l, t, c : <<l, t, c>> \in Drops(s) <=> l = "fts" /\ t = s.on /\ c \in s.cols
      BY <2>1 DEF Items
    <2>3. Drops(s) \subseteq Things /\ \A d : EffectOf(s, d) = d \ Drops(s)
      BY <1>1, <2>1
    <2> QED
      BY <1>4, <2>2, <2>3
  <1>5. CASE s.op = "drop column"
    <2>1. Drops(s) = Items("column", s.on, s.cols) /\ \A d : EffectOf(s, d) = d \ Items("column", s.on, s.cols)
      BY <1>5 DEF Drops, EffectOf
    <2>2. \A l, t, c : <<l, t, c>> \in Drops(s) <=> l = "column" /\ t = s.on /\ c \in s.cols
      BY <2>1 DEF Items
    <2>3. Drops(s) \subseteq Things /\ \A d : EffectOf(s, d) = d \ Drops(s)
      BY <1>1, <2>1
    <2> QED
      BY <1>5, <2>2, <2>3
  <1>6. CASE s.op = "drop table"
    <2>1. /\ Drops(s) = {i \in Things : i[2] = s.on /\ i[1] # "fts"}
          /\ \A d : EffectOf(s, d) = {i \in d : i[2] # s.on \/ i[1] = "fts"}
      BY <1>6 DEF Drops, EffectOf
    <2>2. \A k, t, c : <<k, t, c>> \in Drops(s) <=> <<k, t, c>> \in Things /\ t = s.on /\ k # "fts"
      BY <2>1
    <2>3. \A d \in SUBSET Things : EffectOf(s, d) = d \ Drops(s)
      BY <2>1
    <2> QED
      BY <1>6, <2>1, <2>2, <2>3
  <1> QED
    BY <1>3, <1>4, <1>5, <1>6 DEF DownOps

LEMMA UpStepAdds ==
    ASSUME NEW s \in Statements, NEW B \in SUBSET Statements, NEW known, NEW d \in SUBSET Things,
           TablesOf(d) \subseteq known, UpOK(s, B, known)
    PROVE  EffectOf(s, d \cup AllAdds(B)) = d \cup AllAdds(B) \cup Adds(s)
  <1> DEFINE e == d \cup AllAdds(B)
  <1>1. CASE s.op = "create table"
    <2>1. Key(s.on) \notin d
      <3>1. Key(s.on)[1] = "table" /\ Key(s.on) \notin known
        BY <1>1 DEF Key, UpOK
      <3> QED
        BY <3>1 DEF TablesOf
    <2>2. ASSUME NEW y \in B PROVE Key(s.on) \notin Adds(y)
      <3>1. y \in Statements /\ s.on \in ModelTables
        BY StatementFacts
      <3>2. SUFFICES ASSUME y.op = "create table", y.on = s.on PROVE FALSE
        BY <3>1, AddsAre
      <3>3. Ahead(ModelOrder, s.on, s.on)
        BY <1>1, <3>2 DEF UpOK
      <3> QED
        BY <3>3, AheadStrict
    <2>3. Key(s.on) \notin e
      BY <2>1, <2>2 DEF AllAdds
    <2> HIDE DEF e
    <2>4. EffectOf(s, e) = e \cup {Key(s.on)} \cup Items("column", s.on, s.cols)
      BY <1>1, <2>3 DEF EffectOf
    <2>5. Adds(s) = {Key(s.on)} \cup Items("column", s.on, s.cols)
      BY <1>1 DEF Adds
    <2> QED
      BY <2>4, <2>5 DEF e
  <1> HIDE DEF e
  <1>2. CASE s.op # "create table"
    <2>1. s.op \in {"add column", "unique index", "index", "fts"}
      BY <1>2 DEF UpOK, NewOps, IndexOps
    <2>2. EffectOf(s, e) = e \cup Adds(s)
      BY <2>1 DEF EffectOf, Adds
    <2> QED
      BY <2>2 DEF e
  <1> QED
    BY <1>1, <1>2

(* The states that a section up goes through.                              *)
UpTo(gen, d, k) == d \cup AllAdds(Until(gen, k))

LEMMA UpRuns ==
    ASSUME NEW gen \in Seq(Statements), NEW known, InPlace(gen, {}, UpReady(known)),
           NEW d \in SUBSET Things, TablesOf(d) \subseteq known
    PROVE  /\ \A k \in 1..Len(gen) : UpTo(gen, d, k) \in SUBSET Things
           /\ d \cup AllAdds(Range(gen)) \in SUBSET Things
           /\ Executed(gen, d) # Refused =>
                /\ Executed(gen, d) = d \cup AllAdds(Range(gen))
                /\ \A k \in 1..Len(gen) : AcceptsStatement(gen[k], UpTo(gen, d, k))
           /\ (\A k \in 1..Len(gen) : AcceptsStatement(gen[k], UpTo(gen, d, k))) =>
                Executed(gen, d) = d \cup AllAdds(Range(gen))
  <1> DEFINE n == Len(gen)
             E == [k \in 0..n |-> UpTo(gen, d, k + 1)]
  <1>0. n \in Nat /\ \A k \in 1..n : gen[k] \in Statements
    OBVIOUS
  <1>1. /\ Until(gen, 1) = {} /\ Until(gen, n + 1) = Range(gen) /\ Range(gen) \subseteq Statements
        /\ \A k \in 1..n : Until(gen, k + 1) = Until(gen, k) \cup {gen[k]}
        /\ \A k \in 1..n : Until(gen, k) \subseteq Range(gen)
    BY UntilIs, RangeIs
  <1>2. \A k \in 1..n : UpOK(gen[k], Until(gen, k), known)
    BY DEF InPlace, UpReady
  <1> HIDE DEF n
  <1>3. ASSUME NEW B \in SUBSET Statements PROVE d \cup AllAdds(B) \in SUBSET Things
    <2>1. \A s \in B : Adds(s) \subseteq Things
      BY AddsAre
    <2> QED
      BY <2>1 DEF AllAdds
  <1>4. \A k \in 1..n + 1 : Until(gen, k) \in SUBSET Statements
    <2>1. \A k \in 1..n + 1 : k \in 1..n \/ k = n + 1
      BY <1>0
    <2> QED
      BY <1>1, <2>1
  <1>5. \A k \in 0..n : k + 1 \in 1..n + 1
    BY <1>0
  <1>6. E \in [0..n -> SUBSET Things] /\ E[0] = d /\ E[n] = d \cup AllAdds(Range(gen))
    <2>1. \A k \in 0..n : UpTo(gen, d, k + 1) \in SUBSET Things
      BY <1>3, <1>4, <1>5 DEF UpTo
    <2>2. UpTo(gen, d, 0 + 1) = d /\ UpTo(gen, d, n + 1) = d \cup AllAdds(Range(gen))
      BY <1>1 DEF UpTo, AllAdds
    <2>3. 0 \in 0..n /\ n \in 0..n
      BY <1>0
    <2> QED
      BY <2>1, <2>2, <2>3
  <1>7. ASSUME NEW k \in 1..n
        PROVE  E[k - 1] = UpTo(gen, d, k) /\ EffectOf(gen[k], E[k - 1]) = E[k] /\ E[k - 1] \in SUBSET Things
    <2>1. k - 1 \in 0..n /\ k - 1 + 1 = k /\ k \in 0..n /\ k \in 1..n + 1
      BY <1>0
    <2>2. E[k - 1] = d \cup AllAdds(Until(gen, k))
      BY <2>1 DEF UpTo
    <2>3. E[k] = d \cup AllAdds(Until(gen, k) \cup {gen[k]})
      BY <1>1, <2>1 DEF UpTo
    <2>4. AllAdds(Until(gen, k) \cup {gen[k]}) = AllAdds(Until(gen, k)) \cup Adds(gen[k])
      BY DEF AllAdds
    <2> HIDE DEF E
    <2>5. EffectOf(gen[k], d \cup AllAdds(Until(gen, k)))
            = d \cup AllAdds(Until(gen, k)) \cup Adds(gen[k])
      BY <1>0, <1>2, <1>4, <2>1, UpStepAdds
    <2> QED
      BY <1>6, <2>1, <2>2, <2>3, <2>4, <2>5 DEF UpTo
  <1> HIDE DEF E
  <1> QED
    BY <1>6, <1>7, RunsAs DEF n

(* The states that a section down goes through.                            *)
DownTo(down, d, k) == d \ AllDrops(Until(down, k))

LEMMA DownRuns ==
    ASSUME NEW down \in Seq(Statements), \A s \in Range(down) : s.op \in DownOps,
           NEW d \in SUBSET Things
    PROVE  /\ Executed(down, d) # Refused =>
                /\ Executed(down, d) = d \ AllDrops(Range(down))
                /\ \A k \in 1..Len(down) : AcceptsStatement(down[k], DownTo(down, d, k))
           /\ (\A k \in 1..Len(down) : AcceptsStatement(down[k], DownTo(down, d, k))) =>
                Executed(down, d) = d \ AllDrops(Range(down))
  <1> DEFINE n == Len(down)
             E == [k \in 0..n |-> DownTo(down, d, k + 1)]
  <1>0. n \in Nat /\ \A k \in 1..n : down[k] \in Statements /\ down[k] \in Range(down)
    BY RangeIs
  <1>1. /\ Until(down, 1) = {} /\ Until(down, n + 1) = Range(down)
        /\ \A k \in 1..n : Until(down, k + 1) = Until(down, k) \cup {down[k]}
    BY UntilIs
  <1> HIDE DEF n
  <1>2. E \in [0..n -> SUBSET Things] /\ E[0] = d /\ E[n] = d \ AllDrops(Range(down))
    <2>2. DownTo(down, d, 0 + 1) = d /\ DownTo(down, d, n + 1) = d \ AllDrops(Range(down))
      BY <1>1 DEF DownTo, AllDrops
    <2>3. 0 \in 0..n /\ n \in 0..n /\ \A k : DownTo(down, d, k) \in SUBSET Things
      BY <1>0 DEF DownTo
    <2> QED
      BY <2>2, <2>3
  <1>3. ASSUME NEW k \in 1..n
        PROVE  E[k - 1] = DownTo(down, d, k) /\ EffectOf(down[k], E[k - 1]) = E[k]
    <2>1. k - 1 \in 0..n /\ k - 1 + 1 = k /\ k \in 0..n
      BY <1>0
    <2>2. E[k - 1] = d \ AllDrops(Until(down, k))
      BY <2>1 DEF DownTo
    <2>3. E[k] = d \ AllDrops(Until(down, k) \cup {down[k]})
      BY <1>1, <2>1 DEF DownTo
    <2>4. AllDrops(Until(down, k) \cup {down[k]}) = AllDrops(Until(down, k)) \cup Drops(down[k])
      BY DEF AllDrops
    <2> HIDE DEF E
    <2>5. EffectOf(down[k], E[k - 1]) = E[k - 1] \ Drops(down[k])
      <3>1. E[k - 1] \in SUBSET Things /\ down[k] \in Statements /\ down[k].op \in DownOps
        BY <1>0, <1>2, <2>1
      <3>2. \A s \in Statements : s.op \in DownOps =>
              \A e \in SUBSET Things : EffectOf(s, e) = e \ Drops(s)
        BY DropsAre
      <3> QED
        BY ONLY <3>1, <3>2
    <2> QED
      BY <2>2, <2>3, <2>4, <2>5 DEF DownTo
  <1> HIDE DEF E
  <1> QED
    BY <1>2, <1>3, RunsAs DEF n

-----------------------------------------------------------------------------
(* What holds of a database whatever files it was made by.                 *)
Names == ModelColumns \cup {"id"}

(* A column that no index is of, and no reference.                         *)
Plain(i) == i[3] \notin Indexable(i[2]) \cup Searched

(* The indexes there are are those of the columns there are.               *)
Indexed(d) ==
    \A t \in ModelTables : \A c \in Names :
        /\ <<"index", t, c>> \in d <=> <<"column", t, c>> \in d /\ c \in Indexable(t)
        /\ <<"fts", t, c>> \in d <=> <<"column", t, c>> \in d /\ c \in Searched

(* Every column that refers to another table refers to one that is there.  *)
Referred(d) ==
    \A u \in ModelTables : \A c \in DOMAIN References[u] :
        <<"column", u, c>> \in d => References[u][c] = u \/ Key(References[u][c]) \in d

LEMMA StatementRefers ==
    ASSUME NEW s \in Statements, NEW d \in SUBSET Things, Referred(d), AcceptsStatement(s, d)
    PROVE  Referred(EffectOf(s, d))
  <1> SUFFICES ASSUME NEW u \in ModelTables, NEW c \in DOMAIN References[u],
                      <<"column", u, c>> \in EffectOf(s, d), References[u][c] # u
               PROVE  Key(References[u][c]) \in EffectOf(s, d)
    BY DEF Referred
  <1> DEFINE v == References[u][c]
  <1>1. <<"column", u, c>> \in d => Key(v) \in d
    BY DEF Referred
  <1>2. Key(v) = <<"table", v, "id">> /\ s.op \in Ops
    BY DEF Key, Statements
  <1> HIDE DEF v
  <1>3. CASE s.op \in NewOps
    <2> DEFINE cols == Items("column", s.on, s.cols)
    <2>1. /\ d \subseteq EffectOf(s, d)
          /\ \A i \in EffectOf(s, d) : i \in d \/ i = Key(s.on) \/ (i \in cols /\ EffectOf(s, d) # d)
      BY <1>3 DEF EffectOf, NewOps
    <2>2. SUFFICES ASSUME <<"column", u, c>> \in cols, EffectOf(s, d) # d PROVE Key(v) \in d
      BY <1>1, <2>1 DEF Key, v
    <2>3. TargetIn(d, s.on, s.cols)
      BY <1>3, <2>2 DEF AcceptsStatement, EffectOf, NewOps
    <2>4. u = s.on /\ c \in s.cols
      BY <2>2 DEF Items
    <2> QED
      BY <2>3, <2>4 DEF TargetIn, v
  <1>4. CASE s.op \in IndexOps
    <2>1. \E k \in {"index", "fts"} : EffectOf(s, d) = d \cup Items(k, s.on, s.cols)
      BY <1>4 DEF EffectOf, IndexOps
    <2>2. \A k \in {"index", "fts"} : <<"column", u, c>> \notin Items(k, s.on, s.cols)
      BY DEF Items
    <2> QED
      BY <1>1, <2>1, <2>2 DEF v
  <1>5. CASE s.op \in DropOps \cup {"drop column"}
    <2>1. \E k \in {"index", "fts", "column"} : EffectOf(s, d) = d \ Items(k, s.on, s.cols)
      BY <1>5 DEF EffectOf, DropOps
    <2>2. \A k \in {"index", "fts", "column"} : Key(v) \notin Items(k, s.on, s.cols)
      BY <1>2 DEF Items
    <2> QED
      BY <1>1, <2>1, <2>2 DEF v
  <1>6. CASE s.op = "drop table"
    <2>1. EffectOf(s, d) = {i \in d : i[2] # s.on \/ i[1] = "fts"}
      BY <1>6 DEF EffectOf
    <2>2. <<"column", u, c>> \in d /\ u # s.on
      BY <2>1
    <2>3. \A t \in ModelTables \ {s.on} : \A e \in DOMAIN References[t] :
             References[t][e] = s.on => <<"column", t, e>> \notin d
      BY <1>6 DEF AcceptsStatement
    <2>4. v # s.on
      BY <2>2, <2>3 DEF v
    <2> QED
      BY <1>1, <1>2, <2>1, <2>2, <2>4 DEF v
  <1> QED
    BY <1>2, <1>3, <1>4, <1>5, <1>6 DEF Ops, NewOps, IndexOps, DropOps

LEMMA ReferredKept ==
    ASSUME NEW st \in Seq(Statements), NEW d \in SUBSET Things, Referred(d), Executed(st, d) # Refused
    PROVE  Referred(Executed(st, d))
  <1> DEFINE J == {e \in SUBSET Things : Referred(e)}
  <1>1. \A s \in Range(st) : \A e \in J : AcceptsStatement(s, e) => EffectOf(s, e) \in J
    BY RangeIs, EffectIs, StatementRefers
  <1>2. J \in SUBSET SUBSET Things /\ d \in J
    OBVIOUS
  <1> HIDE DEF J
  <1>3. Executed(st, d) \in J
    BY <1>1, <1>2, ExecutedKeeps
  <1> QED
    BY <1>3 DEF J

(* What a generated section up adds is indexed.                            *)
LEMMA UpIndexes ==
    ASSUME NEW gen \in Seq(Statements), NEW known, InPlace(gen, {}, UpReady(known)),
           Provided(gen), NEW d \in SUBSET Things, Indexed(d)
    PROVE  Indexed(d \cup AllAdds(Range(gen)))
  <1> DEFINE U == Range(gen)
             e == d \cup AllAdds(U)
  <1>1. U \subseteq Statements
    BY RangeIs
  <1>2. ASSUME NEW x \in U PROVE \E B \in SUBSET U : UpOK(x, B, known)
    <2>1. PICK k \in 1..Len(gen) : x = gen[k]
      BY RangeIs
    <2>2. <<gen[k], {} \cup Until(gen, k)>> \in UpReady(known)
      BY DEF InPlace
    <2>3. UpOK(gen[k], Until(gen, k), known)
      BY <2>2 DEF UpReady
    <2>4. Until(gen, k) \subseteq U
      BY UntilIs
    <2> QED
      BY <2>1, <2>3, <2>4
  <1>3. \A y \in U : y.op \in NewOps => IndexStatements(y.on, y.cols) \subseteq U
    BY DEF Provided
  <1> HIDE DEF U
  <1>4. \A i : i \in e <=> i \in d \/ \E x \in U : i \in Adds(x)
    BY DEF AllAdds
  <1> HIDE DEF e
  <1> SUFFICES ASSUME NEW t \in ModelTables, NEW c \in Names
               PROVE  /\ <<"index", t, c>> \in e <=> <<"column", t, c>> \in e /\ c \in Indexable(t)
                      /\ <<"fts", t, c>> \in e <=> <<"column", t, c>> \in e /\ c \in Searched
    BY DEF Indexed, e, U
  <1> DEFINE col == <<"column", t, c>>
             ind == <<"index", t, c>>
             fts == <<"fts", t, c>>
  <1>5. /\ ind \in d <=> col \in d /\ c \in Indexable(t)
        /\ fts \in d <=> col \in d /\ c \in Searched
    BY DEF Indexed
  <1>6. \A x \in U :
          /\ col \in Adds(x) <=> x.op \in NewOps /\ x.on = t /\ c \in x.cols
          /\ ind \in Adds(x) <=> x.op \in {"unique index", "index"} /\ x.on = t /\ c \in x.cols
          /\ fts \in Adds(x) <=> x.op = "fts" /\ x.on = t /\ c \in x.cols
    BY <1>1, AddsAre
  <1> HIDE DEF col, ind, fts
  <1>7. ASSUME NEW x \in U, x.op \in IndexOps, x.on = t, c \in x.cols
        PROVE  col \in e /\ c \in IndexedBy(x.op, t)
    <2>1. PICK B \in SUBSET U : UpOK(x, B, known)
      BY <1>2
    <2>2. PICK a \in ModelColumns :
            /\ x.cols = {a} /\ a \in IndexedBy(x.op, x.on)
            /\ \E y \in B : y.op \in NewOps /\ y.on = x.on /\ a \in y.cols
      BY <1>7, <2>1 DEF UpOK
    <2>3. a = c
      BY <1>7, <2>2
    <2>4. PICK y \in B : y.op \in NewOps /\ y.on = t /\ c \in y.cols
      BY <1>7, <2>2, <2>3
    <2>5. col \in Adds(y) /\ y \in U
      BY <1>6, <2>4
    <2> QED
      BY <1>4, <1>7, <2>2, <2>3, <2>5
  <1>8. ASSUME NEW y \in U, y.op \in NewOps, y.on = t, c \in y.cols
        PROVE  /\ c \in Indexable(t) => ind \in e
               /\ c \in Searched => fts \in e
    <2> DEFINE st(op) == Statement(op, t, {c})
    <2>0. c \in ModelColumns
      BY <1>1, <1>8 DEF Statements
    <2>1. ASSUME NEW op \in IndexOps, c \in IndexedBy(op, t)
          PROVE  \E x \in U : x.op = op /\ x.on = t /\ c \in x.cols
      <3>1. {c} \in SUBSET ModelColumns /\ op \in Ops
        BY <2>0 DEF IndexOps, Ops
      <3>2. /\ st(op) \in Statements /\ st(op).op = op /\ st(op).on = t /\ st(op).cols = {c}
        BY <3>1, StatementIs
      <3> HIDE DEF st
      <3>3. st(op) \in IndexStatements(t, y.cols)
        BY <1>8, <2>1, <3>2 DEF IndexStatements
      <3>4. st(op) \in U
        BY <1>3, <1>8, <3>3
      <3> QED
        BY <3>2, <3>4
    <2>2. ASSUME c \in Indexable(t) PROVE ind \in e
      <3>1. c \in IndexedBy("unique index", t) \/ c \in IndexedBy("index", t)
        BY <2>2 DEF Indexable, IndexedBy
      <3>2. \E x \in U : x.op \in {"unique index", "index"} /\ x.on = t /\ c \in x.cols
        BY <2>1, <3>1 DEF IndexOps
      <3> QED
        BY <1>4, <1>6, <3>2
    <2>3. ASSUME c \in Searched PROVE fts \in e
      <3>1. c \in IndexedBy("fts", t)
        BY <2>3 DEF IndexedBy
      <3>2. \E x \in U : x.op = "fts" /\ x.on = t /\ c \in x.cols
        BY <2>1, <3>1 DEF IndexOps
      <3> QED
        BY <1>4, <1>6, <3>2
    <2> QED
      BY <2>2, <2>3
  <1>9. ASSUME ind \in e PROVE col \in e /\ c \in Indexable(t)
    <2>1. CASE ind \in d
      BY <1>4, <1>5, <2>1
    <2>2. CASE ind \notin d
      <3>1. PICK x \in U : x.op \in {"unique index", "index"} /\ x.on = t /\ c \in x.cols
        BY <1>4, <1>6, <1>9, <2>2
      <3>2. col \in e /\ c \in IndexedBy(x.op, t)
        BY <1>7, <3>1 DEF IndexOps
      <3> QED
        BY <3>1, <3>2 DEF IndexedBy, Indexable
    <2> QED
      BY <2>1, <2>2
  <1>10. ASSUME fts \in e PROVE col \in e /\ c \in Searched
    <2>1. CASE fts \in d
      BY <1>4, <1>5, <2>1
    <2>2. CASE fts \notin d
      <3>1. PICK x \in U : x.op = "fts" /\ x.on = t /\ c \in x.cols
        BY <1>4, <1>6, <1>10, <2>2
      <3>2. col \in e /\ c \in IndexedBy(x.op, t)
        BY <1>7, <3>1 DEF IndexOps
      <3> QED
        BY <3>1, <3>2 DEF IndexedBy
    <2> QED
      BY <2>1, <2>2
  <1>11. ASSUME col \in e
         PROVE  (c \in Indexable(t) => ind \in e) /\ (c \in Searched => fts \in e)
    <2>1. CASE col \in d
      BY <1>4, <1>5, <2>1
    <2>2. CASE col \notin d
      <3>1. PICK y \in U : y.op \in NewOps /\ y.on = t /\ c \in y.cols
        BY <1>4, <1>6, <1>11, <2>2
      <3> QED
        BY <1>8, <3>1
    <2> QED
      BY <2>1, <2>2
  <1> QED
    BY <1>9, <1>10, <1>11 DEF col, ind, fts

(* The comments that a developer took into a section up.                   *)
LEMMA NotesKeepIndexed ==
    ASSUME NEW com \in Seq(Statements), \A s \in Range(com) : s.op = "drop column",
           NEW d \in SUBSET Things, Indexed(d), Executed(com, d) # Refused
    PROVE  Indexed(Executed(com, d)) /\ \A i \in DroppedIn(com) : Plain(i)
  <1> DEFINE U == Range(com)
             e == d \ AllDrops(U)
  <1>1. U \subseteq Statements /\ \A s \in U : s.op \in DownOps
    BY RangeIs DEF DownOps
  <1>2. /\ Executed(com, d) = e
        /\ \A k \in 1..Len(com) : AcceptsStatement(com[k], DownTo(com, d, k))
    BY <1>1, DownRuns
  <1>3. \A s \in U : \A t, c : <<"index", t, c>> \notin Drops(s) /\ <<"fts", t, c>> \notin Drops(s)
    BY DEF Drops, Items
  <1>4. ASSUME NEW s \in U, NEW c \in s.cols
        PROVE  c \in ModelColumns /\ s.on \in ModelTables /\ c \notin Indexable(s.on) \cup Searched
    <2>1. PICK k \in 1..Len(com) : s = com[k]
      BY RangeIs
    <2>2. c \in ModelColumns /\ s.on \in ModelTables /\ s.op = "drop column"
      BY <1>1 DEF Statements
    <2> DEFINE D == DownTo(com, d, k)
    <2>3. /\ Items("column", s.on, s.cols) \subseteq D
          /\ (Items("index", s.on, s.cols) \cup Items("fts", s.on, s.cols)) \cap D = {}
      <3>1. AcceptsStatement(s, D)
        BY <1>2, <2>1
      <3> QED
        BY <2>2, <3>1 DEF AcceptsStatement
    <2>4. /\ <<"column", s.on, c>> \in D
          /\ <<"index", s.on, c>> \notin D /\ <<"fts", s.on, c>> \notin D
      BY <2>3 DEF Items
    <2>5. \A i : i \in D <=> i \in d /\ \A x \in Until(com, k) : i \notin Drops(x)
      BY DEF DownTo, AllDrops
    <2>6. Until(com, k) \subseteq U
      BY UntilIs
    <2> HIDE DEF D, U
    <2>7. /\ <<"column", s.on, c>> \in d
          /\ <<"index", s.on, c>> \notin d /\ <<"fts", s.on, c>> \notin d
      BY <1>3, <2>4, <2>5, <2>6
    <2> QED
      BY <2>2, <2>7 DEF Indexed, Names
  <1>5. ASSUME NEW i \in DroppedIn(com) PROVE Plain(i)
    <2>1. PICK s \in U : i \in Items("column", s.on, s.cols)
      BY DEF DroppedIn
    <2>2. PICK c \in s.cols : i = <<"column", s.on, c>>
      BY <2>1 DEF Items
    <2>3. i[2] = s.on /\ i[3] = c
      BY <2>2
    <2> QED
      BY <1>4, <2>3 DEF Plain
  <1>6. Indexed(e)
    <2> SUFFICES ASSUME NEW t \in ModelTables, NEW c \in Names
                 PROVE  /\ <<"index", t, c>> \in e <=> <<"column", t, c>> \in e /\ c \in Indexable(t)
                        /\ <<"fts", t, c>> \in e <=> <<"column", t, c>> \in e /\ c \in Searched
      BY DEF Indexed
    <2>1. /\ <<"index", t, c>> \in d <=> <<"column", t, c>> \in d /\ c \in Indexable(t)
          /\ <<"fts", t, c>> \in d <=> <<"column", t, c>> \in d /\ c \in Searched
      BY DEF Indexed
    <2>2. \A i : i \in e <=> i \in d /\ \A x \in U : i \notin Drops(x)
      BY DEF AllDrops
    <2>3. ASSUME NEW x \in U, <<"column", t, c>> \in Drops(x)
          PROVE  c \notin Indexable(t) \cup Searched
      <3>1. Drops(x) = Items("column", x.on, x.cols)
        BY DEF Drops
      <3>2. t = x.on /\ c \in x.cols
        BY <2>3, <3>1 DEF Items
      <3> QED
        BY <1>4, <3>2
    <2> HIDE DEF e, U
    <2> QED
      BY <1>3, <2>1, <2>2, <2>3
  <1> QED
    BY <1>2, <1>5, <1>6

(* The database has no table or column that the text does not tell of.     *)
LEMMA UpWithin ==
    ASSUME NEW st \in Seq(Statements), NEW known \in Schemas, NEW d \in SUBSET Things,
           TablesOf(d) \subseteq known, \A s \in Range(st) : s.op \in UpOps,
           Executed(st, d) # Refused
    PROVE  TablesOf(Executed(st, d)) \subseteq Read(st, known)
  <1> DEFINE n == Len(st)
  <1>0. n \in Nat /\ \A i \in 1..n : st[i] \in Statements /\ st[i].op \in UpOps
    BY RangeIs
  <1>1. PICK g : Runs(g, st, d) /\ Executed(st, d) = g[n]
    BY ExecutedIs DEF Databases
  <1>2. PICK h : Reads(h, st, known) /\ Read(st, known) = h[n]
    BY ReadIs
  <1>3. ASSUME NEW s \in Statements, s.op \in UpOps, NEW a \in SUBSET Things, NEW k,
               TablesOf(a) \subseteq k
        PROVE  TablesOf(EffectOf(s, a)) \subseteq SeenIn(k, s)
    <2> DEFINE cols == Items("column", s.on, s.cols)
    <2>1. \A i \in Items("index", s.on, s.cols) \cup Items("fts", s.on, s.cols) :
             i[1] \notin {"table", "column"}
      BY DEF Items
    <2>2. CASE s.op = "create table"
      <3>1. SeenIn(k, s) = k \cup {Key(s.on)} \cup cols
        BY <2>2 DEF SeenIn
      <3>2. EffectOf(s, a) \subseteq a \cup {Key(s.on)} \cup cols
        BY <2>2 DEF EffectOf
      <3> QED
        BY <1>3, <3>1, <3>2 DEF TablesOf
    <2>3. CASE s.op = "add column"
      <3>1. SeenIn(k, s) = k \cup {Key(s.on)} \cup cols
        BY <2>3 DEF SeenIn
      <3>2. EffectOf(s, a) = a \cup cols
        BY <2>3 DEF EffectOf
      <3> QED
        BY <1>3, <3>1, <3>2 DEF TablesOf
    <2>4. CASE s.op = "drop column"
      <3>1. SeenIn(k, s) = k \ cols
        BY <2>4 DEF SeenIn
      <3>2. EffectOf(s, a) = a \ cols
        BY <2>4 DEF EffectOf
      <3> QED
        BY <1>3, <3>1, <3>2 DEF TablesOf
    <2>5. CASE s.op \in IndexOps
      <3>1. SeenIn(k, s) = k
        BY <2>5 DEF SeenIn, IndexOps
      <3>2. EffectOf(s, a) \subseteq a \cup Items("index", s.on, s.cols) \cup Items("fts", s.on, s.cols)
        BY <2>5 DEF EffectOf, IndexOps
      <3> QED
        BY <1>3, <2>1, <3>1, <3>2 DEF TablesOf
    <2> QED
      BY <1>3, <2>2, <2>3, <2>4, <2>5 DEF UpOps, IndexOps
  <1> DEFINE T == {i \in Nat : i <= n /\ g[i] # Refused =>
                               g[i] \in SUBSET Things /\ TablesOf(g[i]) \subseteq h[i]}
  <1> HIDE DEF n
  <1>4. /\ g[0] = d /\ \A i \in 1..n : g[i] = Outcome(st[i], g[i - 1])
        /\ h[0] = known /\ \A i \in 1..n : h[i] = SeenIn(h[i - 1], st[i])
    BY <1>1, <1>2 DEF Runs, Reads, n
  <1>5. 0 \in T /\ T \in SUBSET Nat
    BY <1>4
  <1>6. ASSUME NEW i \in T PROVE i + 1 \in T
    <2> SUFFICES ASSUME i + 1 <= n, g[i + 1] # Refused
                 PROVE  g[i + 1] \in SUBSET Things /\ TablesOf(g[i + 1]) \subseteq h[i + 1]
      OBVIOUS
    <2>1. PICK j \in 1..n : j = i + 1 /\ j - 1 = i
      BY <1>0
    <2>2. g[j] = Outcome(st[j], g[j - 1]) /\ h[j] = SeenIn(h[j - 1], st[j])
      BY <1>4
    <2>3. g[j] = Outcome(st[j], g[i]) /\ h[j] = SeenIn(h[i], st[j]) /\ g[j] # Refused
      BY <2>1, <2>2
    <2>4. g[i] # Refused /\ g[j] = EffectOf(st[j], g[i])
      BY <2>3 DEF Outcome
    <2>5. g[i] \in SUBSET Things /\ TablesOf(g[i]) \subseteq h[i]
      BY <1>0, <2>1, <2>4
    <2>6. EffectOf(st[j], g[i]) \in SUBSET Things
      BY <1>0, <2>1, <2>5, EffectIs
    <2>7. TablesOf(EffectOf(st[j], g[i])) \subseteq SeenIn(h[i], st[j])
      BY <1>0, <1>3, <2>1, <2>5
    <2> QED
      BY <2>1, <2>3, <2>4, <2>6, <2>7
  <1> HIDE DEF T
  <1>7. T = Nat
    BY <1>5, <1>6, Induction
  <1> QED
    BY <1>0, <1>1, <1>2, <1>7 DEF T

(* What a section up adds is read, unless the section drops it again.      *)
LEMMA ReadAdds ==
    ASSUME NEW st \in Seq(Statements), NEW known \in Schemas
    PROVE  AddedIn(st) \subseteq Read(st, known) \cup DroppedIn(st)
  <1> DEFINE n == Len(st)
             gone == DroppedIn(st)
             new(s) == {i \in {Key(s.on)} \cup Items("column", s.on, s.cols) : s.op \in NewOps}
  <1>0. n \in Nat /\ \A i \in 1..n : st[i] \in Statements /\ st[i] \in Range(st)
    BY RangeIs
  <1>1. PICK h : Reads(h, st, known) /\ Read(st, known) = h[n]
    BY ReadIs
  <1>2. ASSUME NEW s \in Range(st), NEW k PROVE (k \cup new(s)) \subseteq SeenIn(k, s) \cup gone
    <2>1. s.op = "drop column" => Items("column", s.on, s.cols) \subseteq gone
      BY DEF DroppedIn
    <2>2. s.op \in NewOps => SeenIn(k, s) = k \cup {Key(s.on)} \cup Items("column", s.on, s.cols)
      BY DEF SeenIn, NewOps
    <2>3. s.op \notin NewOps => SeenIn(k, s) = k \/ (s.op = "drop column"
                                     /\ SeenIn(k, s) = k \ Items("column", s.on, s.cols))
      BY DEF SeenIn, NewOps
    <2> HIDE DEF gone
    <2> QED
      BY <2>1, <2>2, <2>3
  <1>3. \A x \in AddedIn(st) : \E j \in 1..n : x \in new(st[j])
    <2> SUFFICES ASSUME NEW x \in AddedIn(st) PROVE \E j \in 1..n : x \in new(st[j])
      OBVIOUS
    <2>1. PICK s \in Range(st) : x \in new(s)
      BY DEF AddedIn, NewOps
    <2>2. PICK j \in 1..n : s = st[j]
      BY RangeIs
    <2> QED
      BY <2>1, <2>2
  <1> DEFINE T == {i \in Nat : i <= n => \A j \in 1..i : new(st[j]) \subseteq h[i] \cup gone}
  <1> HIDE DEF n, new, gone
  <1>4. h[0] = known /\ \A i \in 1..n : h[i] = SeenIn(h[i - 1], st[i])
    BY <1>1 DEF Reads, n
  <1>5. 0 \in T /\ T \in SUBSET Nat
    OBVIOUS
  <1>6. ASSUME NEW i \in T PROVE i + 1 \in T
    <2> SUFFICES ASSUME i + 1 <= n, NEW j \in 1..i + 1 PROVE new(st[j]) \subseteq h[i + 1] \cup gone
      OBVIOUS
    <2>1. PICK m \in 1..n : m = i + 1 /\ m - 1 = i
      BY <1>0
    <2>2. h[m] = SeenIn(h[m - 1], st[m])
      BY <1>4
    <2>3. (h[i] \cup new(st[m])) \subseteq h[m] \cup gone
      BY <1>0, <1>2, <2>1, <2>2
    <2>4. CASE j = m
      BY <2>1, <2>3, <2>4
    <2>5. CASE j # m
      <3>1. j \in 1..i /\ i <= n
        BY <1>0, <2>1, <2>5
      <3>2. new(st[j]) \subseteq h[i] \cup gone
        BY <3>1
      <3> QED
        BY <2>1, <2>3, <3>2
    <2> QED
      BY <2>4, <2>5
  <1> HIDE DEF T
  <1>7. T = Nat
    BY <1>5, <1>6, Induction
  <1>8. \A j \in 1..n : new(st[j]) \subseteq h[n] \cup gone
    BY <1>0, <1>7 DEF T
  <1> QED
    BY <1>1, <1>3, <1>8 DEF gone

-----------------------------------------------------------------------------
(* A file as it was generated: the order of its two sections.              *)
Made(st) == {s \in Range(st) : s.op \in NewOps}

(* The order of a section down.  A column goes after its indexes, and a    *)
(* table after the columns that refer to it.                               *)
DownOK(x, B, made, known) ==
    /\ x.op \in DownOps
    /\ x.op = "drop column" =>
         /\ Key(x.on) \in known
         /\ \E c \in ModelColumns :
              /\ x.cols = {c}
              /\ \A y \in B : y.op = "drop column" /\ y.on = x.on => c \notin y.cols
              /\ c \in Indexable(x.on) => Statement("drop index", x.on, {c}) \in B
              /\ c \in Searched => Statement("drop fts", x.on, {c}) \in B
              /\ \E y \in made : y.op = "add column" /\ y.on = x.on /\ y.cols = {c}
    /\ x.op = "drop table" =>
         \A y \in made :
           /\ y.op = "add column" => Statement("drop column", y.on, y.cols) \in B
           /\ y.op = "create table" /\ Ahead(ModelOrder, x.on, y.on) =>
                Statement("drop table", y.on, {}) \in B

DownReady(made, known) ==
    {p \in Statements \X SUBSET Statements : DownOK(p[1], p[2], made, known)}

(* The indexes that are dropped are those of the columns that are.         *)
Unmade(st, down) ==
    /\ \A s \in Range(down) : s.op \in DropOps =>
          Items("column", s.on, s.cols) \subseteq TakenBy(down)
    /\ \A s \in Made(st) : \A c \in s.cols :
         /\ c \in Indexable(s.on) => Statement("drop index", s.on, {c}) \in Range(down)
         /\ c \in Searched => Statement("drop fts", s.on, {c}) \in Range(down)

(* A table is created after the ones that it refers to.                    *)
TargetsMet(st, known) ==
    \A s \in Range(st) : s.op = "create table" =>
        \A c \in s.cols \cap DOMAIN References[s.on] :
            LET t == References[s.on][c]
            IN  t = s.on \/ Key(t) \in known \/ Ahead(ModelOrder, t, s.on)

(* A file as it was generated, and what its developer has added to it.     *)
UpDrafted(f, known, gen, com) ==
    /\ f.up = gen \o com
    /\ \A s \in Range(com) : s.op = "drop column"
    /\ ~f.byHand => com = <<>>
    /\ InPlace(gen, {}, UpReady(known)) /\ Provided(gen)

Drafted(f, known) ==
    /\ \E gen, com \in Seq(Statements) : UpDrafted(f, known, gen, com)
    /\ InPlace(f.down, {}, DownReady(Made(f.up), known))
    /\ Unmade(f.up, f.down)

LEMMA KeyInThings == \A t : Key(t) \in Things => t \in ModelTables
  BY DEF Key, Things

LEMMA UpPlaces ==
    ASSUME NEW gen \in Seq(Statements), NEW known, InPlace(gen, {}, UpReady(known)), NEW k \in 1..Len(gen)
    PROVE  /\ gen[k] \in Statements /\ gen[k] \in Range(gen) /\ Until(gen, k) \subseteq Range(gen)
           /\ Until(gen, k) \in SUBSET Statements /\ UpOK(gen[k], Until(gen, k), known)
  <1>1. Until(gen, k) \subseteq Range(gen) /\ Range(gen) \subseteq Statements /\ gen[k] \in Range(gen)
    BY UntilIs, RangeIs
  <1>2. <<gen[k], {} \cup Until(gen, k)>> \in UpReady(known)
    BY DEF InPlace
  <1> QED
    BY <1>1, <1>2 DEF UpReady

LEMMA NotCreatedYet ==
    ASSUME NEW s \in Statements, NEW B \in SUBSET Statements, NEW known, NEW d \in SUBSET Things,
           TablesOf(d) \subseteq known, UpOK(s, B, known), s.op = "create table"
    PROVE  Key(s.on) \notin d \cup AllAdds(B)
  <1>1. Key(s.on) \notin d
    <2>1. Key(s.on)[1] = "table" /\ Key(s.on) \notin known
      BY DEF Key, UpOK
    <2> QED
      BY <2>1 DEF TablesOf
  <1>2. ASSUME NEW y \in B PROVE Key(s.on) \notin Adds(y)
    <2>1. y \in Statements /\ s.on \in ModelTables
      BY StatementFacts
    <2>2. SUFFICES ASSUME y.op = "create table", y.on = s.on PROVE FALSE
      BY <2>1, AddsAre
    <2>3. Ahead(ModelOrder, s.on, s.on)
      BY <2>2 DEF UpOK
    <2> QED
      BY <2>3, AheadStrict
  <1> QED
    BY <1>1, <1>2 DEF AllAdds

(* The database saw to it.                                                 *)
LEMMA UpMeets ==
    ASSUME NEW gen \in Seq(Statements), NEW known, InPlace(gen, {}, UpReady(known)),
           NEW d \in SUBSET Things, TablesOf(d) \subseteq known, Executed(gen, d) # Refused
    PROVE  TargetsMet(gen, known)
  <1> SUFFICES ASSUME NEW s \in Range(gen), s.op = "create table",
                      NEW c \in s.cols \cap DOMAIN References[s.on]
               PROVE  \/ References[s.on][c] = s.on \/ Key(References[s.on][c]) \in known
                      \/ Ahead(ModelOrder, References[s.on][c], s.on)
    BY DEF TargetsMet
  <1> DEFINE t == References[s.on][c]
  <1>1. PICK k \in 1..Len(gen) : s = gen[k]
    <2>1. Range(gen) = {gen[i] : i \in 1..Len(gen)}
      BY ONLY gen \in Seq(Statements), RangeIs
    <2> QED
      BY <2>1
  <1> DEFINE B == Until(gen, k)
  <1>2. s \in Statements /\ B \in SUBSET Statements /\ UpOK(s, B, known)
    BY <1>1, UpPlaces
  <1>3. AcceptsStatement(s, d \cup AllAdds(B))
    BY <1>1, UpRuns DEF UpTo
  <1>4. Key(s.on) \notin d \cup AllAdds(B)
    BY <1>2, NotCreatedYet
  <1> HIDE DEF B
  <1>5. TargetIn(d \cup AllAdds(B), s.on, s.cols)
    BY <1>3, <1>4 DEF AcceptsStatement
  <1>6. t = s.on \/ Key(t) \in d \cup AllAdds(B)
    BY <1>5 DEF TargetIn
  <1> HIDE DEF t
  <1>7. Key(t) \in d => Key(t) \in known
    <2>1. Key(t)[1] = "table"
      BY DEF Key
    <2> QED
      BY <2>1 DEF TablesOf
  <1>8. ASSUME NEW y \in B, Key(t) \in Adds(y) PROVE Ahead(ModelOrder, t, s.on)
    <2>1. y \in Statements
      BY <1>2
    <2>2. t \in ModelTables
      BY <1>8, <2>1, AddsAre, KeyInThings
    <2>3. y.op = "create table" /\ y.on = t
      BY <1>8, <2>1, <2>2, AddsAre
    <2> QED
      BY <1>2, <2>3 DEF UpOK
  <1>9. t = s.on \/ Key(t) \in known \/ Ahead(ModelOrder, t, s.on)
    BY <1>6, <1>7, <1>8 DEF AllAdds
  <1> QED
    BY <1>9 DEF t

(* What applying a file leaves.                                            *)
LEMMA UpSettles ==
    ASSUME NEW f \in MigrationFiles, NEW known \in Schemas, Drafted(f, known), GoodUp(f.up, known),
           NEW d \in SUBSET Things, TablesOf(d) \subseteq known, Indexed(d), Referred(d),
           Executed(f.up, d) # Refused
    PROVE  /\ Executed(f.up, d) \in SUBSET Things
           /\ TablesOf(Executed(f.up, d)) \subseteq Read(f.up, known)
           /\ Indexed(Executed(f.up, d)) /\ Referred(Executed(f.up, d))
           /\ TargetsMet(f.up, known) /\ \A i \in DroppedIn(f.up) : Plain(i)
  <1>1. f.up \in Seq(Statements) /\ \A s \in Range(f.up) : s.op \in UpOps
    BY DEF MigrationFiles, GoodUp
  <1>2. TablesOf(Executed(f.up, d)) \subseteq Read(f.up, known)
    BY <1>1, UpWithin
  <1>3. Referred(Executed(f.up, d))
    BY <1>1, ReferredKept
  <1>4. PICK gen \in Seq(Statements), com \in Seq(Statements) : UpDrafted(f, known, gen, com)
    BY DEF Drafted
  <1>5. /\ f.up = gen \o com /\ InPlace(gen, {}, UpReady(known)) /\ Provided(gen)
        /\ \A s \in Range(com) : s.op = "drop column"
    BY <1>4 DEF UpDrafted
  <1>6. d \in Databases
    BY DEF Databases
  <1>7. Executed(f.up, d) = Executed(com, Executed(gen, d)) /\ Executed(gen, d) # Refused
    <2>1. /\ Executed(gen \o com, d) = Executed(com, Executed(gen, d))
          /\ Executed(com, Refused) = Refused
      BY <1>6, ExecutedCat
    <2>2. Executed(f.up, d) = Executed(com, Executed(gen, d))
      BY <1>5, <2>1
    <2> QED
      BY <2>1, <2>2
  <1> DEFINE e == d \cup AllAdds(Range(gen))
  <1>8. Executed(gen, d) = e /\ e \in SUBSET Things
    BY <1>5, <1>7, UpRuns
  <1>9. Indexed(e)
    BY <1>5, UpIndexes
  <1> HIDE DEF e
  <1>10. Executed(f.up, d) = Executed(com, e) /\ Executed(com, e) # Refused
    BY <1>7, <1>8
  <1>11. Indexed(Executed(com, e)) /\ \A i \in DroppedIn(com) : Plain(i)
    BY <1>5, <1>8, <1>9, <1>10, NotesKeepIndexed
  <1>12. Executed(f.up, d) \in SUBSET Things
    <2>1. \A s \in Range(com) : s.op \in DownOps
      BY <1>5 DEF DownOps
    <2>2. Executed(com, e) = e \ AllDrops(Range(com))
      BY <1>8, <1>10, <2>1, DownRuns
    <2> QED
      BY <1>8, <1>10, <2>2
  <1>13. Range(f.up) = Range(gen) \cup Range(com)
    <2>1. Range(gen \o com) = Range(gen) \cup Range(com)
      BY ONLY gen \in Seq(Statements), com \in Seq(Statements), RangeCat
    <2> QED
      BY <1>5, <2>1
  <1>14. \A s \in Range(gen) : s.op \in NewOps \cup IndexOps
    <2> SUFFICES ASSUME NEW s \in Range(gen) PROVE s.op \in NewOps \cup IndexOps
      OBVIOUS
    <2>1. PICK k \in 1..Len(gen) : s = gen[k]
      BY RangeIs
    <2> QED
      BY <1>5, <2>1, UpPlaces DEF UpOK
  <1>15. DroppedIn(f.up) = DroppedIn(com)
    BY <1>13, <1>14 DEF DroppedIn, NewOps, IndexOps
  <1>16. TargetsMet(f.up, known)
    <2>1. TargetsMet(gen, known)
      BY <1>5, <1>7, UpMeets
    <2>2. \A s \in Range(f.up) : s.op = "create table" => s \in Range(gen)
      BY <1>5, <1>13
    <2> QED
      BY <2>1, <2>2 DEF TargetsMet
  <1> QED
    BY <1>2, <1>3, <1>10, <1>11, <1>12, <1>15, <1>16

(* What taking back the newest file leaves.                                *)
LEMMA DownSettles ==
    ASSUME NEW f \in MigrationFiles, NEW known \in Sane, GoodFile(f, known), Unmade(f.up, f.down),
           NEW d \in SUBSET Things, TablesOf(d) \subseteq Read(f.up, known), Indexed(d), Referred(d),
           Executed(f.down, d) # Refused
    PROVE  LET e == Executed(f.down, d)
           IN  e \in SUBSET Things /\ TablesOf(e) \subseteq known /\ Indexed(e) /\ Referred(e)
  <1> DEFINE D == Range(f.down)
             e == Executed(f.down, d)
  <1>1. /\ f.up \in Seq(Statements) /\ f.down \in Seq(Statements) /\ D \subseteq Statements
        /\ \A s \in D : s.op \in DownOps
        /\ AddedIn(f.up) \subseteq known \cup TakenBy(f.down) /\ TakenBy(f.down) \cap known = {}
    <2>1. f.up \in Seq(Statements) /\ f.down \in Seq(Statements)
      BY DEF MigrationFiles
    <2> QED
      BY <2>1, RangeIs DEF GoodFile
  <1>2. e \in SUBSET Things /\ TablesOf(e) = TablesOf(d) \ TakenBy(f.down)
    BY <1>1, DownTakes
  <1>3. Referred(e)
    BY <1>1, ReferredKept
  <1>4. Read(f.up, known) \subseteq known \cup AddedIn(f.up) /\ Closed(known)
    BY <1>1, ReadSpans DEF Sane
  <1>5. TablesOf(e) \subseteq known
    BY <1>1, <1>2, <1>4
  <1>6. e = d \ AllDrops(D)
    BY <1>1, DownRuns
  <1> HIDE DEF e
  <1>7. \A i : i \in e <=> i \in d /\ \A x \in D : i \notin Drops(x)
    BY <1>6 DEF AllDrops
  <1>8. Indexed(e)
    <2> SUFFICES ASSUME NEW t \in ModelTables, NEW c \in Names
                 PROVE  /\ <<"index", t, c>> \in e <=> <<"column", t, c>> \in e /\ c \in Indexable(t)
                        /\ <<"fts", t, c>> \in e <=> <<"column", t, c>> \in e /\ c \in Searched
      BY DEF Indexed
    <2> DEFINE col == <<"column", t, c>>
               ind == <<"index", t, c>>
               fts == <<"fts", t, c>>
    <2>1. /\ ind \in d <=> col \in d /\ c \in Indexable(t)
          /\ fts \in d <=> col \in d /\ c \in Searched
      BY DEF Indexed
    <2>2. col \in Things /\ ind \in Things /\ fts \in Things
      BY DEF Things, Names
    <2>3. \A x \in D :
            /\ col \in Drops(x) <=>
                 x.on = t /\ (x.op = "drop table" \/ (x.op = "drop column" /\ c \in x.cols))
            /\ ind \in Drops(x) <=>
                 x.on = t /\ (x.op = "drop table" \/ (x.op = "drop index" /\ c \in x.cols))
            /\ fts \in Drops(x) <=> x.op = "drop fts" /\ x.on = t /\ c \in x.cols
      BY <1>1, <2>2, DropsAre
    <2>4. \A x \in D : col \in Takes(x) <=> col \in Drops(x)
      <3> SUFFICES ASSUME NEW x \in D PROVE col \in Takes(x) <=> col \in Drops(x)
        OBVIOUS
      <3>1. CASE x.op = "drop column"
        <4>1. Takes(x) = Items("column", x.on, x.cols) /\ Drops(x) = Items("column", x.on, x.cols)
          BY <3>1 DEF Takes, Drops
        <4> QED
          BY <4>1
      <3>2. CASE x.op # "drop column"
        <4>1. Takes(x) = {i \in Things : x.op = "drop table" /\ i[1] \in {"table", "column"} /\ i[2] = x.on}
          BY <3>2 DEF Takes
        <4>2. col \in Takes(x) <=> x.op = "drop table" /\ t = x.on
          BY <2>2, <4>1
        <4> QED
          BY <2>3, <3>2, <4>2
      <3> QED
        BY <3>1, <3>2
    <2>5. ASSUME col \in d, NEW x \in D, col \in Drops(x)
          PROVE  (c \in Indexable(t) => ind \notin e) /\ (c \in Searched => fts \notin e)
      <3>1. col \in TakenBy(f.down) /\ col \in TablesOf(d)
        BY <2>4, <2>5 DEF TakenBy, TablesOf
      <3>2. col \in AddedIn(f.up)
        BY <1>1, <1>4, <3>1
      <3>3. PICK s \in Made(f.up) : col \in {Key(s.on)} \cup Items("column", s.on, s.cols)
        BY <3>2 DEF AddedIn, Made, NewOps
      <3>4. s.on = t /\ c \in s.cols /\ s \in Statements
        <4>1. col # Key(s.on)
          BY DEF Key
        <4>2. col \in Items("column", s.on, s.cols)
          BY <3>3, <4>1
        <4>3. s \in Statements
          BY <1>1, RangeIs DEF Made
        <4> QED
          BY <4>2, <4>3 DEF Items
      <3>5. /\ c \in Indexable(t) => Statement("drop index", t, {c}) \in D
            /\ c \in Searched => Statement("drop fts", t, {c}) \in D
        BY <3>3, <3>4 DEF Unmade
      <3> HIDE DEF D
      <3>6. ASSUME c \in Indexable(t) PROVE ind \notin e
        <4> DEFINE y == Statement("drop index", t, {c})
        <4>1. y \in D /\ y.op = "drop index" /\ y.on = t /\ c \in y.cols
          BY <3>5, <3>6 DEF Statement
        <4> HIDE DEF y
        <4> QED
          BY <1>7, <2>3, <4>1
      <3>7. ASSUME c \in Searched PROVE fts \notin e
        <4> DEFINE y == Statement("drop fts", t, {c})
        <4>1. y \in D /\ y.op = "drop fts" /\ y.on = t /\ c \in y.cols
          BY <3>5, <3>7 DEF Statement
        <4> HIDE DEF y
        <4> QED
          BY <1>7, <2>3, <4>1
      <3> QED
        BY <3>6, <3>7
    <2>6. ASSUME NEW x \in D, ind \in Drops(x) \/ fts \in Drops(x) PROVE col \notin e
      <3>1. CASE x.op = "drop table"
        <4>1. col \in Drops(x)
          BY <2>3, <2>6, <3>1
        <4> QED
          BY <1>7, <4>1
      <3>2. CASE x.op # "drop table"
        <4>1. x.op \in DropOps /\ x.on = t /\ c \in x.cols
          BY <2>3, <2>6, <3>2 DEF DropOps
        <4>2. col \in TakenBy(f.down)
          BY <4>1 DEF Unmade, Items
        <4>3. PICK z \in D : col \in Takes(z)
          BY <4>2 DEF TakenBy
        <4> QED
          BY <1>7, <2>4, <4>3
      <3> QED
        BY <3>1, <3>2
    <2> HIDE DEF col, ind, fts, D
    <2>7. \A i : i \in e => i \in d
      BY <1>7
    <2>8. ASSUME ind \in e PROVE col \in e /\ c \in Indexable(t)
      BY <1>7, <2>1, <2>5, <2>8
    <2>9. ASSUME fts \in e PROVE col \in e /\ c \in Searched
      BY <1>7, <2>1, <2>5, <2>9
    <2>10. ASSUME col \in e
           PROVE  (c \in Indexable(t) => ind \in e) /\ (c \in Searched => fts \in e)
      BY <1>7, <2>1, <2>6, <2>10
    <2> QED
      BY <2>8, <2>9, <2>10 DEF col, ind, fts
  <1> QED
    BY <1>2, <1>3, <1>5, <1>8 DEF e

-----------------------------------------------------------------------------
(* Why the section down is accepted, and restores what there was.          *)
LEMMA DownPlaces ==
    ASSUME NEW down \in Seq(Statements), NEW made, NEW known,
           InPlace(down, {}, DownReady(made, known)), NEW k \in 1..Len(down)
    PROVE  /\ down[k] \in Statements /\ down[k] \in Range(down)
           /\ Until(down, k) \subseteq Range(down) /\ Until(down, k) \in SUBSET Statements
           /\ DownOK(down[k], Until(down, k), made, known)
  <1>1. /\ Until(down, k) \subseteq Range(down) /\ Range(down) \subseteq Statements
        /\ down[k] \in Range(down)
    BY UntilIs, RangeIs
  <1>2. <<down[k], {} \cup Until(down, k)>> \in DownReady(made, known)
    BY DEF InPlace
  <1> QED
    BY <1>1, <1>2 DEF DownReady

(* A file that nobody has edited drops no column in its section up.        *)
LEMMA UpDropsNone ==
    ASSUME NEW f \in MigrationFiles, NEW known, Drafted(f, known), ~f.byHand
    PROVE  /\ DroppedIn(f.up) = {} /\ InPlace(f.up, {}, UpReady(known)) /\ Provided(f.up)
           /\ \A s \in Range(f.up) : s.op \in NewOps \cup IndexOps
  <1>1. PICK gen \in Seq(Statements), com \in Seq(Statements) : UpDrafted(f, known, gen, com)
    BY DEF Drafted
  <1>2. /\ f.up = gen \o com /\ com = <<>> /\ InPlace(gen, {}, UpReady(known)) /\ Provided(gen)
    BY <1>1 DEF UpDrafted
  <1>3. f.up = gen
    BY <1>2
  <1>4. \A s \in Range(gen) : s.op \in NewOps \cup IndexOps
    <2> SUFFICES ASSUME NEW s \in Range(gen) PROVE s.op \in NewOps \cup IndexOps
      OBVIOUS
    <2>1. PICK k \in 1..Len(gen) : s = gen[k]
      BY RangeIs
    <2> QED
      BY <1>2, <2>1, UpPlaces DEF UpOK
  <1>5. DroppedIn(gen) = {}
    BY <1>4 DEF DroppedIn, NewOps, IndexOps
  <1> QED
    BY <1>2, <1>3, <1>4, <1>5

(* What the file adds, statement by statement.                             *)
LEMMA AddedBy ==
    ASSUME NEW st \in Seq(Statements), NEW t, NEW c
    PROVE  <<"column", t, c>> \in AddedIn(st) <=>
             \E s \in Made(st) : s.on = t /\ c \in s.cols
  <1>1. \A s : <<"column", t, c>> \in {Key(s.on)} \cup Items("column", s.on, s.cols)
                 <=> s.on = t /\ c \in s.cols
    BY DEF Key, Items
  <1> QED
    BY <1>1 DEF AddedIn, Made, NewOps

(* The database before the file, known but for what is lost, refers to     *)
(* nothing that the section down drops.                                    *)
Undoing(f, known, b, d) ==
    /\ TablesOf(b) \subseteq known /\ TablesOf(b) \ lost = known \ lost
    /\ Indexed(b) /\ Referred(b)
    /\ TablesOf(d) \subseteq Read(f.up, known) /\ TablesOf(d) \ lost = Read(f.up, known) \ lost
    /\ Indexed(d)
    /\ \A i \in lost : i[1] = "column" /\ Plain(i)
    /\ DroppedIn(f.down) \cap lost = {}

LEMMA ColumnsGo ==
    ASSUME NEW f \in MigrationFiles, NEW known \in Sane, GoodFile(f, known), Drafted(f, known),
           ~f.byHand, NEW b \in SUBSET Things, NEW d \in SUBSET Things, Undoing(f, known, b, d),
           NEW k \in 1..Len(f.down), f.down[k].op = "drop column"
    PROVE  AcceptsStatement(f.down[k], DownTo(f.down, d, k))
  <1> DEFINE down == f.down
             x == down[k]
             B == Until(down, k)
             D == DownTo(down, d, k)
  <1>1. f.up \in Seq(Statements) /\ down \in Seq(Statements)
    BY DEF MigrationFiles
  <1>2. /\ x \in Statements /\ x \in Range(down) /\ B \subseteq Range(down)
        /\ B \in SUBSET Statements /\ DownOK(x, B, Made(f.up), known) /\ x.op = "drop column"
    BY <1>1, DownPlaces DEF Drafted
  <1>3. /\ \A i : i \in D <=> i \in d /\ \A z \in B : i \notin Drops(z)
    BY DEF DownTo, AllDrops
  <1>4. \A s \in Range(down) : s.op \in DownOps
    BY DEF GoodFile
  <1> HIDE DEF x, B, D
  <1>5. Key(x.on) \in known
    BY <1>2 DEF DownOK
  <1>6. PICK c \in ModelColumns :
          /\ x.cols = {c}
          /\ \A y \in B : y.op = "drop column" /\ y.on = x.on => c \notin y.cols
          /\ c \in Indexable(x.on) => Statement("drop index", x.on, {c}) \in B
          /\ c \in Searched => Statement("drop fts", x.on, {c}) \in B
          /\ \E y \in Made(f.up) : y.op = "add column" /\ y.on = x.on /\ y.cols = {c}
    BY <1>2 DEF DownOK
  <1> DEFINE t == x.on
             col == <<"column", t, c>>
             ind == <<"index", t, c>>
             fts == <<"fts", t, c>>
  <1>7. t \in ModelTables /\ col \in Things /\ ind \in Things /\ fts \in Things
    BY <1>2, StatementFacts DEF Things
  <1>8. col \in d
    <2>1. col \in AddedIn(f.up)
      <3>1. PICK y \in Made(f.up) : y.on = t /\ y.cols = {c}
        BY <1>6
      <3>2. y.on = t /\ c \in y.cols
        BY <3>1
      <3> HIDE DEF t
      <3> QED
        BY <1>1, <3>2, AddedBy
    <2>2. AddedIn(f.up) \subseteq Read(f.up, known)
      <3>1. DroppedIn(f.up) = {}
        BY UpDropsNone
      <3>2. known \in Schemas
        BY DEF Sane
      <3> QED
        BY <1>1, <3>1, <3>2, ReadAdds
    <2>3. col \in DroppedIn(down)
      <3>1. col \in Items("column", x.on, x.cols)
        BY <1>6 DEF Items
      <3> QED
        BY <1>2, <3>1 DEF DroppedIn
    <2> QED
      BY <2>1, <2>2, <2>3 DEF Undoing, TablesOf
  <1>9. ASSUME NEW z \in B PROVE col \notin Drops(z)
    <2>1. z \in Statements /\ z.op \in DownOps /\ z \in Range(down)
      BY <1>2, <1>4
    <2>2. col \in Drops(z) <=>
            z.on = t /\ (z.op = "drop table" \/ (z.op = "drop column" /\ c \in z.cols))
      BY <1>7, <2>1, DropsAre
    <2>3. ~(z.on = t /\ z.op = "drop table")
      <3> SUFFICES ASSUME z.on = t, z.op = "drop table" PROVE FALSE
        OBVIOUS
      <3>1. Key(t) \in Takes(z)
        <4>1. Takes(z) = {i \in Things : i[1] \in {"table", "column"} /\ i[2] = z.on}
          BY DEF Takes
        <4>2. Key(t) \in Things
          BY <1>2, StatementFacts
        <4> QED
          BY <4>1, <4>2 DEF Key
      <3>2. Key(t) \in TakenBy(down)
        BY <2>1, <3>1 DEF TakenBy
      <3> QED
        BY <1>5, <3>2 DEF GoodFile
    <2> QED
      BY <1>6, <2>2, <2>3
  <1>10. col \in D
    BY <1>3, <1>8, <1>9
  <1>11. ind \notin D
    <2> SUFFICES ASSUME ind \in D PROVE FALSE
      OBVIOUS
    <2>1. ind \in d /\ \A z \in B : ind \notin Drops(z)
      BY <1>3
    <2>2. c \in Indexable(t)
      <3>1. c \in Names
        BY DEF Names
      <3> QED
        BY <1>7, <2>1, <3>1 DEF Undoing, Indexed
    <2> DEFINE z == Statement("drop index", t, {c})
    <2>3. z \in B /\ z.op = "drop index" /\ z.on = t /\ z.cols = {c}
      BY <1>6, <2>2 DEF Statement
    <2> HIDE DEF z, t
    <2>4. ind \in Drops(z)
      BY <2>3 DEF Drops, Items
    <2> QED
      BY <2>1, <2>3, <2>4
  <1>12. fts \notin D
    <2> SUFFICES ASSUME fts \in D PROVE FALSE
      OBVIOUS
    <2>1. fts \in d /\ \A z \in B : fts \notin Drops(z)
      BY <1>3
    <2>2. c \in Searched
      <3>1. c \in Names
        BY DEF Names
      <3> QED
        BY <1>7, <2>1, <3>1 DEF Undoing, Indexed
    <2> DEFINE z == Statement("drop fts", t, {c})
    <2>3. z \in B /\ z.op = "drop fts" /\ z.on = t /\ z.cols = {c}
      BY <1>6, <2>2 DEF Statement
    <2> HIDE DEF z, t
    <2>4. fts \in Drops(z)
      BY <2>3 DEF Drops, Items
    <2> QED
      BY <2>1, <2>3, <2>4
  <1>13. /\ Items("column", x.on, x.cols) = {col}
         /\ Items("index", x.on, x.cols) = {ind} /\ Items("fts", x.on, x.cols) = {fts}
    BY <1>6 DEF Items
  <1> HIDE DEF col, ind, fts
  <1>14. AcceptsStatement(x, D)
    BY <1>2, <1>10, <1>11, <1>12, <1>13 DEF AcceptsStatement, Understood
  <1> QED
    BY <1>14 DEF x, D

LEMMA TablesGo ==
    ASSUME NEW f \in MigrationFiles, NEW known \in Sane, GoodFile(f, known), Drafted(f, known),
           TargetsMet(f.up, known),
           NEW b \in SUBSET Things, NEW d \in SUBSET Things, Undoing(f, known, b, d),
           NEW k \in 1..Len(f.down), f.down[k].op = "drop table"
    PROVE  AcceptsStatement(f.down[k], DownTo(f.down, d, k))
  <1> DEFINE down == f.down
             x == down[k]
             B == Until(down, k)
             D == DownTo(down, d, k)
             v == x.on
  <1>1. f.up \in Seq(Statements) /\ down \in Seq(Statements)
    BY DEF MigrationFiles
  <1>2. /\ x \in Statements /\ x \in Range(down) /\ B \subseteq Range(down)
        /\ B \in SUBSET Statements /\ DownOK(x, B, Made(f.up), known) /\ x.op = "drop table"
    BY <1>1, DownPlaces DEF Drafted
  <1>3. /\ \A i : i \in D <=> i \in d /\ \A z \in B : i \notin Drops(z)
    BY DEF DownTo, AllDrops
  <1> HIDE DEF x, B, D
  <1>4. Key(v) \notin known
    <2>1. Takes(x) = {i \in Things : i[1] \in {"table", "column"} /\ i[2] = v}
      BY <1>2 DEF Takes
    <2>2. Key(v) \in Things
      BY <1>2, StatementFacts
    <2>3. Key(v) \in TakenBy(down)
      BY <1>2, <2>1, <2>2 DEF TakenBy, Key
    <2> QED
      BY <2>3 DEF GoodFile
  <1>5. \A y \in Made(f.up) :
          /\ y.op = "add column" => Statement("drop column", y.on, y.cols) \in B
          /\ y.op = "create table" /\ Ahead(ModelOrder, v, y.on) =>
               Statement("drop table", y.on, {}) \in B
    BY <1>2 DEF DownOK
  <1> HIDE DEF v
  <1>6. ASSUME NEW t \in ModelTables, NEW c \in DOMAIN References[t], t # v,
               References[t][c] = v, <<"column", t, c>> \in D
        PROVE  FALSE
    <2> DEFINE col == <<"column", t, c>>
    <2>1. col \in d /\ col \in Things /\ \A z \in B : col \notin Drops(z)
      BY <1>3, <1>6
    <2>2. col \notin lost
      <3>1. ~Plain(col)
        BY DEF Plain, Indexable
      <3> QED
        BY <3>1 DEF Undoing
    <2>3. col \in Read(f.up, known)
      BY <2>1 DEF Undoing, TablesOf
    <2>4. col \in known \/ col \in AddedIn(f.up)
      BY <1>1, <2>3, ReadSpans DEF Sane
    <2>5. CASE col \in known
      <3>1. col \in b
        BY <2>2, <2>5 DEF Undoing, TablesOf
      <3>2. Key(v) \in b
        BY <1>6, <3>1 DEF Undoing, Referred
      <3>3. Key(v)[1] = "table"
        BY DEF Key
      <3>4. Key(v) \in TablesOf(b)
        BY <3>2, <3>3 DEF TablesOf
      <3>5. TablesOf(b) \subseteq known
        BY DEF Undoing
      <3> QED
        BY <1>4, <3>4, <3>5
    <2>6. CASE col \in AddedIn(f.up)
      <3>1. PICK s \in Made(f.up) : s.on = t /\ c \in s.cols
        <4>1. f.up \in Seq(Statements)
          BY <1>1
        <4>2. col \in AddedIn(f.up) <=> \E s \in Made(f.up) : s.on = t /\ c \in s.cols
          BY ONLY <4>1, AddedBy
        <4> QED
          BY <2>6, <4>2
      <3>2. s.op \in NewOps /\ s \in Range(f.up)
        BY DEF Made
      <3>3. CASE s.op = "add column"
        <4> DEFINE z == Statement("drop column", t, s.cols)
        <4>1. z \in B /\ z.op = "drop column" /\ z.on = t /\ z.cols = s.cols
          BY <1>5, <3>1, <3>3 DEF Statement
        <4> HIDE DEF z
        <4>2. col \in Drops(z)
          BY <3>1, <4>1 DEF Drops, Items
        <4> QED
          BY <2>1, <4>1, <4>2
      <3>4. CASE s.op = "create table"
        <4>1. v = t \/ Key(v) \in known \/ Ahead(ModelOrder, v, t)
          BY <1>6, <3>1, <3>2, <3>4 DEF TargetsMet
        <4>2. Ahead(ModelOrder, v, t)
          BY <1>4, <1>6, <4>1
        <4> DEFINE z == Statement("drop table", t, {})
        <4>3. z \in B /\ z.op = "drop table" /\ z.on = t
          BY <1>5, <3>1, <3>4, <4>2 DEF Statement
        <4> HIDE DEF z
        <4>4. col \in Drops(z)
          BY <2>1, <4>3 DEF Drops
        <4> QED
          BY <2>1, <4>3, <4>4
      <3> QED
        BY <3>2, <3>3, <3>4 DEF NewOps
    <2> QED
      BY <2>4, <2>5, <2>6
  <1>7. AcceptsStatement(x, D)
    BY <1>2, <1>6 DEF AcceptsStatement, Understood, v
  <1> QED
    BY <1>7 DEF x, D

(* The database accepts the section down of a file nobody has edited.      *)
LEMMA DownAccepted ==
    ASSUME NEW f \in MigrationFiles, NEW known \in Sane, GoodFile(f, known), Drafted(f, known),
           ~f.byHand, TargetsMet(f.up, known), Migrates,
           NEW b \in SUBSET Things, NEW d \in SUBSET Things, Undoing(f, known, b, d)
    PROVE  Executed(f.down, d) \in SUBSET Things /\ Executed(f.down, d) # Refused
  <1>1. f.down \in Seq(Statements) /\ \A s \in Range(f.down) : s.op \in DownOps
    BY DEF MigrationFiles, GoodFile
  <1>2. ASSUME NEW k \in 1..Len(f.down)
        PROVE  AcceptsStatement(f.down[k], DownTo(f.down, d, k))
    <2>1. CASE f.down[k].op = "drop column"
      BY <2>1, ColumnsGo
    <2>2. CASE f.down[k].op = "drop table"
      BY <2>2, TablesGo
    <2>3. CASE f.down[k].op \in DropOps
      BY <2>3 DEF AcceptsStatement, Understood, Migrates, DropOps
    <2>4. f.down[k].op \in DownOps
      BY <1>1, RangeIs
    <2> QED
      BY <2>1, <2>2, <2>3, <2>4 DEF DownOps, DropOps
  <1>3. Executed(f.down, d) = d \ AllDrops(Range(f.down))
    BY <1>1, <1>2, DownRuns
  <1>4. Refused \notin SUBSET Things
    BY MakeAssumption DEF Refused, Things, ModelTables, ModelColumns
  <1> QED
    BY <1>3, <1>4

(* Tables and columns determine the indexes, and nothing that is lost had  *)
(* one.                                                                    *)
LEMMA SameButLost ==
    ASSUME NEW a \in SUBSET Things, NEW b \in SUBSET Things, Indexed(a), Indexed(b),
           TablesOf(a) \ lost = TablesOf(b) \ lost, \A i \in lost : i[1] = "column" /\ Plain(i)
    PROVE  a \ lost = b \ lost
  <1> SUFFICES ASSUME NEW i \in Things, i \notin lost PROVE i \in a <=> i \in b
    OBVIOUS
  <1>1. CASE i[1] \in {"table", "column"}
    BY <1>1 DEF TablesOf
  <1>2. CASE i[1] \in {"index", "fts"}
    <2>1. PICK k \in {"index", "fts"}, t \in ModelTables, c \in Names : i = <<k, t, c>>
      BY <1>2 DEF Things, Names
    <2> DEFINE col == <<"column", t, c>>
    <2>2. CASE c \in Indexable(t) \cup Searched
      <3>1. ~Plain(col)
        BY <2>2 DEF Plain
      <3>2. col \in a <=> col \in b
        BY <3>1 DEF TablesOf
      <3> QED
        BY <2>1, <3>2 DEF Indexed
    <2>3. CASE c \notin Indexable(t) \cup Searched
      BY <2>1, <2>3 DEF Indexed
    <2> QED
      BY <2>2, <2>3
  <1> QED
    BY <1>1, <1>2 DEF Things

(* The section down takes back what the section up did.                    *)
LEMMA DownRestores ==
    ASSUME NEW f \in MigrationFiles, NEW known \in Sane, GoodFile(f, known), Drafted(f, known),
           ~f.byHand, TargetsMet(f.up, known), Migrates,
           NEW b \in SUBSET Things, NEW d \in SUBSET Things, Undoing(f, known, b, d), Referred(d)
    PROVE  Executed(f.down, d) \ lost = b \ lost
  <1> DEFINE e == Executed(f.down, d)
  <1>1. e \in SUBSET Things /\ e # Refused
    BY DownAccepted
  <1>2. Unmade(f.up, f.down) /\ TablesOf(d) \subseteq Read(f.up, known) /\ Indexed(d)
    BY DEF Drafted, Undoing
  <1>3. Indexed(e)
    BY <1>1, <1>2, DownSettles
  <1>4. f.up \in Seq(Statements) /\ f.down \in Seq(Statements) /\ \A s \in Range(f.down) : s.op \in DownOps
    BY DEF MigrationFiles, GoodFile
  <1>5. TablesOf(e) = TablesOf(d) \ TakenBy(f.down)
    BY <1>1, <1>4, DownTakes
  <1>6. Read(f.up, known) \subseteq known \cup AddedIn(f.up) /\ known \subseteq Read(f.up, known)
    <2>1. DroppedIn(f.up) = {}
      BY UpDropsNone
    <2> QED
      BY <1>4, <2>1, ReadSpans DEF Sane
  <1>7. AddedIn(f.up) \subseteq known \cup TakenBy(f.down) /\ TakenBy(f.down) \cap known = {}
    BY DEF GoodFile
  <1>8. /\ TablesOf(b) \ lost = known \ lost /\ TablesOf(d) \ lost = Read(f.up, known) \ lost
        /\ Indexed(b) /\ \A i \in lost : i[1] = "column" /\ Plain(i)
    BY DEF Undoing
  <1> HIDE DEF e
  <1>9. TablesOf(e) \ lost = TablesOf(b) \ lost
    BY <1>5, <1>6, <1>7, <1>8
  <1>10. e \ lost = b \ lost
    BY <1>1, <1>3, <1>8, <1>9, SameButLost
  <1> QED
    BY <1>10 DEF e

LEMMA EarlierIs ==
    ASSUME NEW n \in Nat, NEW k \in 1..n, NEW i \in 1..k, i # k
    PROVE  i \in 1..k - 1
  OBVIOUS

(* A file that was generated and not edited is accepted, but for what its  *)
(* developer is told to see to.                                            *)
LEMMA PlaceAccepted ==
    ASSUME NEW f \in MigrationFiles, NEW known \in Sane, GoodFile(f, known), Drafted(f, known),
           ~f.byHand, ~ReferredLater(f), ~RowsUnsuited(f), ~NotUnderstood(f),
           stored \in SUBSET Things, TablesOf(stored) \subseteq known,
           TablesOf(stored) \ lost = known \ lost, \A i \in lost : i[1] = "column",
           \A t \in ModelTables : Key(t) \notin stored => rowsOf[t] = 0,
           rowsOf \in [ModelTables -> Nat],
           NEW k \in 1..Len(f.up)
    PROVE  AcceptsStatement(f.up[k], UpTo(f.up, stored, k))
  <1> DEFINE gen == f.up
             s == gen[k]
             B == Until(gen, k)
             d == UpTo(gen, stored, k)
  <1>1. gen \in Seq(Statements) /\ InPlace(gen, {}, UpReady(known))
    BY UpDropsNone DEF MigrationFiles
  <1>2. /\ s \in Statements /\ s \in Range(gen) /\ B \subseteq Range(gen)
        /\ B \in SUBSET Statements /\ UpOK(s, B, known)
    BY <1>1, UpPlaces
  <1>3. s.on \in ModelTables /\ s.cols \subseteq ModelColumns
    BY <1>2, StatementFacts
  <1>4. \A i : i \in d <=> i \in stored \/ \E y \in B : i \in Adds(y)
    BY DEF UpTo, AllAdds
  <1>5. Len(gen) \in Nat /\ DOMAIN gen = 1..Len(gen) /\ \A i \in 1..Len(gen) : gen[i] \in Statements
    BY <1>1
  <1>6. B = {gen[i] : i \in 1..k - 1}
    BY DEF Until
  <1>7. ASSUME NEW y \in Range(gen), y.op = "add column"
        PROVE  \/ y.cols \subseteq Nullable
               \/ /\ y.cols \cap DOMAIN References[y.on] # {} => rowsOf[y.on] = 0
                  /\ y.cols \cap Uniques # {} => rowsOf[y.on] < 2
    <2>1. PICK i \in DOMAIN gen : y = gen[i]
      BY DEF Range
    <2>2. y.on \in ModelTables
      BY <1>5, <2>1, StatementFacts
    <2>3. rowsOf[y.on] \in Nat
      BY <2>2
    <2>4. \/ y.cols \subseteq Nullable
          \/ /\ y.cols \cap DOMAIN References[y.on] # {} => ~(rowsOf[y.on] > 0)
             /\ y.cols \cap Uniques # {} => ~(rowsOf[y.on] > 1)
      BY <1>7, <2>1 DEF RowsUnsuited
    <2> QED
      BY <2>3, <2>4
  <1>8. ASSUME s.op \in NewOps PROVE TargetIn(d, s.on, s.cols)
    <2> DEFINE created == {i \in 1..k : gen[i].op = "create table"}
               there == stored \cup {Key(gen[i].on) : i \in created}
    <2>1. TargetIn(there, s.on, s.cols)
      BY <1>5, <1>8 DEF ReferredLater, NewOps
    <2> SUFFICES ASSUME NEW c \in s.cols \cap DOMAIN References[s.on],
                        References[s.on][c] # s.on
                 PROVE  Key(References[s.on][c]) \in d
      BY DEF TargetIn
    <2> DEFINE v == References[s.on][c]
    <2>2. Key(v) \in there
      BY <2>1 DEF TargetIn
    <2> HIDE DEF v
    <2>3. CASE Key(v) \in stored
      BY <1>4, <2>3 DEF v
    <2>4. CASE Key(v) \notin stored
      <3>1. PICK i \in created : Key(v) = Key(gen[i].on)
        BY <2>2, <2>4
      <3>2. v = gen[i].on
        BY <3>1 DEF Key
      <3>3. i # k
        BY <3>2 DEF v
      <3>4. i \in 1..k - 1 /\ gen[i] \in B
        <4>1. i \in 1..k /\ k \in 1..Len(gen)
          OBVIOUS
        <4>2. Len(gen) \in Nat
          BY <1>5
        <4>3. i \in 1..k - 1
          BY ONLY <3>3, <4>1, <4>2, EarlierIs
        <4> HIDE DEF B
        <4> QED
          BY <1>6, <4>3
      <3>5. Key(v) \in Adds(gen[i])
        BY <3>1 DEF Adds
      <3> QED
        BY <1>4, <3>4, <3>5 DEF v
    <2> QED
      BY <2>3, <2>4
  <1>13. Understood(s)
    BY <1>2 DEF NotUnderstood, Migrates, Understood
  <1> SUFFICES AcceptsStatement(s, d)
    OBVIOUS
  <1> HIDE DEF s, B, d
  <1>9. CASE s.op = "create table"
    BY <1>8, <1>9, <1>13 DEF AcceptsStatement, NewOps
  <1>10. CASE s.op = "add column"
    <2>1. Key(s.on) \in known
      BY <1>2, <1>10 DEF UpOK
    <2>2. PICK c \in ModelColumns :
            /\ s.cols = {c} /\ <<"column", s.on, c>> \notin known
            /\ \A y \in B : y.op = "add column" /\ y.on = s.on => c \notin y.cols
      BY <1>2, <1>10 DEF UpOK
    <2>3. Key(s.on) \in d
      <3>1. Key(s.on) \notin lost
        BY DEF Key
      <3>2. Key(s.on) \in stored
        BY <2>1, <3>1 DEF TablesOf
      <3> QED
        BY <1>4, <3>2
    <2>4. <<"column", s.on, c>> \notin d
      <3>1. <<"column", s.on, c>> \notin stored
        BY <2>2 DEF TablesOf
      <3>2. ASSUME NEW y \in B, <<"column", s.on, c>> \in Adds(y) PROVE FALSE
        <4>1. y \in Statements
          BY <1>2
        <4>2. y.op \in NewOps /\ y.on = s.on /\ c \in y.cols
          BY <3>2, <4>1, AddsAre
        <4>3. y.op = "create table"
          BY <2>2, <4>2 DEF NewOps
        <4>4. y \in Range(gen) /\ GoodUp(gen, known)
          BY <1>2 DEF GoodFile
        <4>5. Key(y.on) \notin known
          BY <4>3, <4>4 DEF GoodUp
        <4> QED
          BY <2>1, <4>2, <4>5
      <3> QED
        BY <1>4, <3>1, <3>2
    <2>5. Items("column", s.on, s.cols) \cap d = {}
      BY <2>2, <2>4 DEF Items
    <2>6. s.cols \cap DOMAIN References[s.on] \subseteq Nullable \/ rowsOf[s.on] = 0
      BY <1>2, <1>7, <1>10, <2>2
    <2> QED
      BY <1>8, <1>10, <1>13, <2>3, <2>5, <2>6 DEF AcceptsStatement, NewOps
  <1>11. CASE s.op \in IndexOps
    <2>1. PICK c \in ModelColumns :
            /\ s.cols = {c} /\ c \in IndexedBy(s.op, s.on)
            /\ \E y \in B : y.op \in NewOps /\ y.on = s.on /\ c \in y.cols
      BY <1>2, <1>11 DEF UpOK
    <2>2. PICK y \in B : y.op \in NewOps /\ y.on = s.on /\ c \in y.cols
      BY <2>1
    <2>3. y \in Statements /\ y \in Range(gen) /\ y \in B
      BY <1>2
    <2>4. Items("column", s.on, s.cols) \subseteq d
      <3>1. <<"column", s.on, c>> \in Adds(y)
        BY <2>2, <2>3, AddsAre
      <3>2. <<"column", s.on, c>> \in d
        BY <1>4, <2>3, <3>1
      <3> QED
        BY <2>1, <3>2 DEF Items
    <2>5. s.op = "unique index" => s.cols \subseteq Nullable \/ rowsOf[s.on] < 2
      <3> SUFFICES ASSUME s.op = "unique index", c \notin Nullable PROVE rowsOf[s.on] < 2
        BY <2>1
      <3>1. c \in Uniques
        BY <2>1 DEF IndexedBy
      <3>2. CASE y.op = "add column"
        <4>1. c \in y.cols \cap Uniques /\ ~(y.cols \subseteq Nullable)
          BY <2>2, <3>1
        <4> QED
          BY <1>7, <2>2, <2>3, <3>2, <4>1
      <3>3. CASE y.op = "create table"
        <4>1. GoodUp(gen, known)
          BY DEF GoodFile
        <4>2. Key(y.on) \notin known
          BY <2>3, <3>3, <4>1 DEF GoodUp
        <4>3. Key(s.on) \notin stored
          <5>1. Key(s.on)[1] = "table"
            BY DEF Key
          <5> QED
            BY <2>2, <4>2, <5>1 DEF TablesOf
        <4>4. rowsOf[s.on] = 0
          BY <1>3, <4>3
        <4> QED
          BY ONLY <4>4
      <3> QED
        BY <2>2, <3>2, <3>3 DEF NewOps
    <2> QED
      BY <1>11, <1>13, <2>4, <2>5 DEF AcceptsStatement, IndexOps
  <1>12. s.op \in NewOps \cup IndexOps
    BY <1>2 DEF UpOK
  <1> QED
    BY <1>9, <1>10, <1>11, <1>12 DEF NewOps

LEMMA UpAccepted ==
    ASSUME NEW f \in MigrationFiles, NEW known \in Sane, GoodFile(f, known), Drafted(f, known),
           ~f.byHand, ~ReferredLater(f), ~RowsUnsuited(f), ~NotUnderstood(f),
           stored \in SUBSET Things, TablesOf(stored) \subseteq known,
           TablesOf(stored) \ lost = known \ lost, \A i \in lost : i[1] = "column",
           \A t \in ModelTables : Key(t) \notin stored => rowsOf[t] = 0,
           rowsOf \in [ModelTables -> Nat]
    PROVE  Executed(f.up, stored) # Refused
  <1>1. f.up \in Seq(Statements) /\ InPlace(f.up, {}, UpReady(known))
    BY UpDropsNone DEF MigrationFiles
  <1>2. \A k \in 1..Len(f.up) : AcceptsStatement(f.up[k], UpTo(f.up, stored, k))
    BY PlaceAccepted
  <1>3. Executed(f.up, stored) \in SUBSET Things
    BY <1>1, <1>2, UpRuns
  <1>4. Refused \notin SUBSET Things
    BY MakeAssumption DEF Refused, Things, ModelTables, ModelColumns
  <1> QED
    BY <1>3, <1>4

-----------------------------------------------------------------------------
(* What migGenerateSQL writes is in that order: its section up.            *)

(* What InOrder keeps of the order of the models.                          *)
LEMMA ModelsAhead ==
    ASSUME NEW S
    PROVE  LET ts == InOrder(ModelOrder, S)
           IN  \A j \in 1..Len(ts) : \A i \in 1..j - 1 : Ahead(ModelOrder, ts[i], ts[j])
  <1> DEFINE U == ModelTables
             seq == ModelOrder
             F == [e \in U |-> If(e \in S, e)]
             R == {p \in U \X SUBSET U : \A u \in p[2] : Ahead(ModelOrder, u, p[1])}
             n == Len(seq)
             ts == InOrder(seq, S)
  <1>0. seq \in Seq(U) /\ n \in Nat /\ DOMAIN seq = 1..n /\ \A i \in 1..n : seq[i] \in U
    BY MakeAssumption DEF ModelTables
  <1>1. \A e \in U : If(e \in S, e) \in Seq(U) /\ Range(If(e \in S, e)) = {x \in {e} : e \in S}
    <2> SUFFICES ASSUME NEW e \in U
                 PROVE  If(e \in S, e) \in Seq(U) /\ Range(If(e \in S, e)) = {x \in {e} : e \in S}
      OBVIOUS
    <2> DEFINE b == e \in S
    <2>1. b \in BOOLEAN
      OBVIOUS
    <2> HIDE DEF b, U
    <2>2. If(b, e) \in Seq(U) /\ Range(If(b, e)) = {x \in {e} : b}
      BY <2>1, IfIs
    <2> QED
      BY <2>2 DEF b
  <1>2. F \in [U -> Seq(U)] /\ \A e \in U : Range(F[e]) = {x \in {e} : e \in S}
    BY <1>1
  <1> HIDE DEF U
  <1>3. ts = Joined(F, seq)
    <2>1. [i \in DOMAIN seq |-> If(seq[i] \in S, seq[i])] = [i \in DOMAIN seq |-> F[seq[i]]]
      BY <1>0
    <2> QED
      BY <2>1 DEF InOrder, Each, Joined
  <1> HIDE DEF F
  <1>4. ASSUME NEW i \in 1..n PROVE InPlace(F[seq[i]], {} \cup Firsts(F, seq, i), R)
    <2> DEFINE B == {} \cup Firsts(F, seq, i)
    <2>1. \A x \in B : x \in U /\ Ahead(ModelOrder, x, seq[i])
      <3> SUFFICES ASSUME NEW x \in B PROVE x \in U /\ Ahead(ModelOrder, x, seq[i])
        OBVIOUS
      <3>1. PICK j \in 1..i - 1 : x \in Range(F[seq[j]])
        BY DEF Firsts
      <3>2. j \in 1..n /\ j < i
        BY <1>0
      <3>3. x = seq[j]
        BY <1>0, <1>2, <3>1, <3>2
      <3> QED
        BY <1>0, <3>2, <3>3 DEF Ahead
    <2>2. CASE seq[i] \in S
      <3>1. F[seq[i]] = <<seq[i]>>
        BY <1>0, <2>2 DEF F, If
      <3>2. <<seq[i], B>> \in R
        BY <1>0, <2>1
      <3> HIDE DEF B, R
      <3> QED
        BY <3>1, <3>2, OneInPlace DEF B
    <2>3. CASE seq[i] \notin S
      <3>1. F[seq[i]] = <<>>
        BY <1>0, <2>3 DEF F, If
      <3> QED
        BY <3>1 DEF InPlace
    <2> QED
      BY <2>2, <2>3
  <1>5. InPlace(Joined(F, seq), {}, R)
    <2> HIDE DEF R, n
    <2> QED
      BY <1>0, <1>2, <1>4, JoinedInPlace DEF n
  <1> HIDE DEF ts
  <1>6. ASSUME NEW j \in 1..Len(ts), NEW i \in 1..j - 1 PROVE Ahead(ModelOrder, ts[i], ts[j])
    <2>1. <<ts[j], {} \cup Until(ts, j)>> \in R
      BY <1>3, <1>5 DEF InPlace
    <2>2. ts[i] \in Until(ts, j)
      BY DEF Until
    <2> QED
      BY <2>1, <2>2
  <1> QED
    BY <1>6 DEF ts

-----------------------------------------------------------------------------
(* The parts of a generated file.                                          *)
Structs == {t \in ModelTables : Modelled(t)}

CreateAll == [t \in Structs |-> CreateModel(t)]
AddAll == [t \in Structs |-> AddColumns(t)]
DropAll == [t \in Structs |-> DropModel(t)]
UnaddAll == [t \in Structs |-> DropColumns(t)]

LEMMA GeneratedParts ==
    ASSUME DeclaredOK
    PROVE  /\ CreateAll \in [Structs -> Seq(Statements)] /\ AddAll \in [Structs -> Seq(Statements)]
           /\ DropAll \in [Structs -> Seq(Statements)] /\ UnaddAll \in [Structs -> Seq(Statements)]
           /\ PendingModels \in Seq(Structs) /\ Alters \in Seq(Structs)
           /\ Generated.up = Joined(CreateAll, PendingModels) \o Joined(AddAll, Alters)
           /\ Generated.down = Joined(UnaddAll, Reverse(Alters)) \o Joined(DropAll, Reverse(PendingModels))
           /\ Generated.byHand = FALSE
  <1> DEFINE M == Structs
             P == PendingModels
             A == Alters
             ra == Reverse(A)
             rp == Reverse(P)
  <1>1. P \in Seq(M) /\ A \in Seq(M)
    <2>1. \A ts \in {P, A} : ts \in Seq(ModelTables) /\ \A t \in Range(ts) : Modelled(t)
      BY OrdersAre
    <2>2. ASSUME NEW ts \in {P, A} PROVE ts \in Seq(M)
      <3>1. ts \in Seq(ModelTables) /\ \A t \in Range(ts) : Modelled(t)
        BY <2>1
      <3> HIDE DEF P, A
      <3>2. /\ Range(ts) = {ts[i] : i \in 1..Len(ts)} /\ Range(ts) \subseteq ModelTables
            /\ ts \in [1..Len(ts) -> ModelTables] /\ Len(ts) \in Nat
        BY <3>1, RangeIs
      <3>3. \A i \in 1..Len(ts) : ts[i] \in M
        BY <3>1, <3>2 DEF Structs
      <3>4. ts \in [1..Len(ts) -> M]
        BY <3>2, <3>3
      <3> QED
        BY <3>2, <3>4
    <2> QED
      BY <2>2
  <1>2. \A t \in M : Modelled(t)
    BY DEF Structs
  <1>3. /\ CreateAll \in [M -> Seq(Statements)] /\ AddAll \in [M -> Seq(Statements)]
        /\ DropAll \in [M -> Seq(Statements)] /\ UnaddAll \in [M -> Seq(Statements)]
    BY <1>2, CreateModelIs, AddColumnsIs, DropModelIs, DropColumnsIs
       DEF CreateAll, AddAll, DropAll, UnaddAll
  <1>4. ra \in Seq(M) /\ rp \in Seq(M)
    BY <1>1, RangeReverse
  <1>5. \A ts \in {P, A, ra, rp} : \A i \in DOMAIN ts : ts[i] \in M
    <2> HIDE DEF P, A, ra, rp, M
    <2>1. \A ts \in {P, A, ra, rp} : ts \in Seq(M)
      BY <1>1, <1>4
    <2> QED
      BY <2>1
  <1>6. Each(CreateModel, PendingModels) = Joined(CreateAll, P)
    <2>1. [i \in DOMAIN P |-> CreateModel(P[i])] = [i \in DOMAIN P |-> CreateAll[P[i]]]
      <3>1. \A i \in DOMAIN P : P[i] \in M
        BY <1>5
      <3> HIDE DEF P, M
      <3> QED
        BY <3>1 DEF CreateAll, M
    <2> QED
      BY <2>1 DEF Each, Joined
  <1>7. Each(AddColumns, Alters) = Joined(AddAll, A)
    <2>1. [i \in DOMAIN A |-> AddColumns(A[i])] = [i \in DOMAIN A |-> AddAll[A[i]]]
      <3>1. \A i \in DOMAIN A : A[i] \in M
        BY <1>5
      <3> HIDE DEF A, M
      <3> QED
        BY <3>1 DEF AddAll, M
    <2> QED
      BY <2>1 DEF Each, Joined
  <1>8. Each(DropColumns, Reverse(Alters)) = Joined(UnaddAll, ra)
    <2>1. [i \in DOMAIN ra |-> DropColumns(ra[i])] = [i \in DOMAIN ra |-> UnaddAll[ra[i]]]
      <3>1. \A i \in DOMAIN ra : ra[i] \in M
        BY <1>5
      <3> HIDE DEF ra, M
      <3> QED
        BY <3>1 DEF UnaddAll, M
    <2> QED
      BY <2>1 DEF Each, Joined
  <1>9. Each(DropModel, LastFirst(PendingModels)) = Joined(DropAll, rp)
    <2>1. [i \in DOMAIN rp |-> DropModel(rp[i])] = [i \in DOMAIN rp |-> DropAll[rp[i]]]
      <3>1. \A i \in DOMAIN rp : rp[i] \in M
        BY <1>5
      <3> HIDE DEF rp, M
      <3> QED
        BY <3>1 DEF DropAll, M
    <2> QED
      BY <2>1 DEF Each, Joined, LastFirst
  <1> QED
    BY <1>1, <1>3, <1>6, <1>7, <1>8, <1>9 DEF Generated

LEMMA OfIndexes ==
    ASSUME NEW t \in ModelTables, NEW cols \in SUBSET ModelColumns, NEW y \in Statements,
           y.op \in NewOps, y.on = t, y.cols = cols, NEW known,
           NEW s \in IndexStatements(t, cols), NEW B \in SUBSET Statements, y \in B
    PROVE  <<s, B>> \in UpReady(known)
  <1>1. s \in Statements /\ s.op \in IndexOps /\ s.on = t
    BY DEF IndexStatements
  <1>2. PICK c \in cols : s.cols = {c} /\ c \in IndexedBy(s.op, t)
    BY DEF IndexStatements
  <1>3. UpOK(s, B, known)
    BY <1>1, <1>2 DEF UpOK, IndexOps, NewOps
  <1> QED
    BY <1>1, <1>3 DEF UpReady

LEMMA CreatesInPlace ==
    ASSUME DeclaredOK
    PROVE  InPlace(Joined(CreateAll, PendingModels), {}, UpReady(KnownSchema))
  <1> DEFINE P == PendingModels
             R == UpReady(KnownSchema)
             create(t) == Statement("create table", t, declared[t])
  <1>1. P \in Seq(Structs) /\ CreateAll \in [Structs -> Seq(Statements)]
    BY GeneratedParts
  <1>2. \A j \in 1..Len(P) : \A i \in 1..j - 1 : Ahead(ModelOrder, P[i], P[j])
    BY ModelsAhead DEF PendingModels
  <1>3. \A t \in Range(P) : Key(t) \notin KnownSchema
    BY OrdersAre
  <1>4. ASSUME NEW t \in Structs
        PROVE  /\ t \in ModelTables /\ declared[t] \in SUBSET ModelColumns /\ Modelled(t)
               /\ create(t) \in Statements /\ create(t).op = "create table"
               /\ create(t).on = t /\ create(t).cols = declared[t]
               /\ CreateAll[t] = CreateModel(t)
               /\ \A s \in Range(CreateModel(t)) :
                    s = create(t) \/ (s.op \in IndexOps /\ s.on = t)
    <2>1. t \in ModelTables /\ declared[t] \in SUBSET ModelColumns /\ Modelled(t)
      BY DEF Structs, Modelled
    <2>2. "create table" \in Ops
      BY DEF Ops
    <2>3. CreateAll[t] = CreateModel(t)
      BY DEF CreateAll
    <2>4. /\ create(t) \in Statements /\ create(t).op = "create table"
          /\ create(t).on = t /\ create(t).cols = declared[t]
      <3> DEFINE s == Statement("create table", t, declared[t])
      <3>1. s.op = "create table" /\ s.on = t /\ s.cols = declared[t]
        BY DEF Statement
      <3>2. s \in Statements
        BY <2>1, StatementIs DEF Modelled, Ops
      <3> QED
        BY <3>1, <3>2
    <2>5. \A s \in Range(CreateModel(t)) :
             \/ s = create(t)
             \/ s.op \in IndexOps /\ s.on = t
      BY <2>1, CreateModelIs
    <2> HIDE DEF create
    <2> QED
      BY <2>1, <2>3, <2>4, <2>5
  <1> HIDE DEF P, create
  <1>5. ASSUME NEW i \in 1..Len(P)
        PROVE  InPlace(CreateAll[P[i]], {} \cup Firsts(CreateAll, P, i), R)
    <2> DEFINE t == P[i]
               B == {} \cup Firsts(CreateAll, P, i)
    <2>0. \A j \in 1..i - 1 : j \in 1..Len(P)
      BY <1>1
    <2>1. t \in Structs /\ t \in Range(P) /\ \A j \in 1..Len(P) : P[j] \in Structs
      BY <1>1, RangeIs
    <2>2. ASSUME NEW y \in B
          PROVE  /\ y \in Statements
                 /\ y.op = "create table" => Ahead(ModelOrder, y.on, t)
      <3>1. PICK j \in 1..i - 1 : y \in Range(CreateAll[P[j]])
        BY DEF Firsts
      <3>2. P[j] \in Structs
        BY <2>0, <2>1
      <3> DEFINE u == P[j]
      <3>3. Ahead(ModelOrder, u, t)
        BY <1>2
      <3> HIDE DEF u, t
      <3>4. CreateAll[u] \in Seq(Statements)
        BY <1>1, <3>2 DEF u
      <3>5. y \in Statements
        BY <3>1, <3>4, RangeIs DEF u
      <3>6. y = create(u) \/ y.op \in IndexOps
        BY <1>4, <3>1, <3>2 DEF u
      <3>7. create(u).on = u
        BY <1>4, <3>2 DEF u
      <3> QED
        BY <3>3, <3>5, <3>6, <3>7 DEF IndexOps
    <2> HIDE DEF t, B
    <2>3. B \in SUBSET Statements
      BY <2>2
    <2>4. <<create(t), B>> \in R
      <3>1. create(t) \in Statements /\ create(t).op = "create table" /\ create(t).on = t
        BY <1>4, <2>1
      <3>2. Key(t) \notin KnownSchema
        BY <1>3, <2>1
      <3>3. UpOK(create(t), B, KnownSchema)
        BY <2>2, <3>1, <3>2 DEF UpOK, NewOps, IndexOps
      <3> QED
        BY <2>3, <3>1, <3>3 DEF UpReady
    <2>5. \A s \in IndexStatements(t, declared[t]) : \A C \in SUBSET Statements :
             create(t) \in C => <<s, C>> \in R
      <3>1. t \in ModelTables /\ declared[t] \in SUBSET ModelColumns
        BY <1>4, <2>1
      <3>2. /\ create(t) \in Statements /\ create(t).op \in NewOps /\ create(t).on = t
            /\ create(t).cols = declared[t]
        BY <1>4, <2>1 DEF NewOps
      <3> QED
        BY <3>1, <3>2, OfIndexes
    <2>6. InPlace(CreateModel(t), B, R)
      <3> HIDE DEF R
      <3>1. Modelled(t)
        BY <1>4, <2>1
      <3> QED
        BY <2>3, <2>4, <2>5, <3>1, CreateInPlace DEF create
    <2> QED
      BY <1>4, <2>1, <2>6 DEF t, B
  <1> HIDE DEF R
  <1>6. InPlace(Joined(CreateAll, P), {}, R)
    BY <1>1, <1>5, JoinedInPlace
  <1> QED
    BY <1>6 DEF P, R

LEMMA AddColumnsHold ==
    ASSUME NEW t \in Structs
    PROVE  /\ AddAll[t] = AddColumns(t) /\ AddColumns(t) \in Seq(Statements)
           /\ \A s \in Range(AddColumns(t)) : s \in Statements /\ s.on = t /\ s.op # "create table"
  <1>1. Modelled(t) /\ AddAll[t] = AddColumns(t)
    BY DEF Structs, AddAll
  <1>2. AddColumns(t) \in Seq(Statements)
    BY <1>1, AddColumnsIs
  <1>3. ASSUME NEW s \in Range(AddColumns(t))
        PROVE  s \in Statements /\ s.on = t /\ s.op # "create table"
    <2>1. s \in Statements
      BY <1>2, RangeIs
    <2>2. CASE s \in IndexStatements(t, Range(Added(t)))
      BY <2>1, <2>2 DEF IndexStatements, IndexOps
    <2>3. CASE \E c \in Range(Added(t)) : s = Statement("add column", t, {c})
      <3>1. PICK c \in Range(Added(t)) : s = Statement("add column", t, {c})
        BY <2>3
      <3>2. s.on = t /\ s.op = "add column"
        BY <3>1 DEF Statement
      <3> QED
        BY <2>1, <3>2
    <2> QED
      BY <1>1, <2>2, <2>3, AddRange
  <1> QED
    BY <1>1, <1>2, <1>3

LEMMA AddsInPlace ==
    ASSUME DeclaredOK, NEW B \in SUBSET Statements, \A y \in B : y.op # "add column"
    PROVE  InPlace(Joined(AddAll, Alters), B, UpReady(KnownSchema))
  <1> DEFINE A == Alters
             R == UpReady(KnownSchema)
  <1>1. A \in Seq(Structs) /\ AddAll \in [Structs -> Seq(Statements)]
    BY GeneratedParts
  <1>2. \A i, j \in 1..Len(A) : A[i] = A[j] => i = j
    <2>1. ModelOrder \in Seq(ModelTables) /\ IsInjective(ModelOrder)
      BY MakeAssumption DEF ModelTables
    <2> QED
      BY <2>1, InOrderFresh DEF Alters
  <1>3. \A t \in Range(A) : Key(t) \in KnownSchema
    BY OrdersAre
  <1> HIDE DEF A
  <1>4. ASSUME NEW i \in 1..Len(A)
        PROVE  InPlace(AddAll[A[i]], B \cup Firsts(AddAll, A, i), R)
    <2> DEFINE t == A[i]
               C == B \cup Firsts(AddAll, A, i)
    <2>1. t \in Structs /\ t \in Range(A) /\ \A j \in 1..Len(A) : A[j] \in Structs
      <3>1. \A j \in 1..Len(A) : A[j] \in Structs
        BY <1>1, PlacesAre
      <3>2. Range(A) = {A[j] : j \in 1..Len(A)}
        BY <1>1, RangeIs
      <3> QED
        BY <3>1, <3>2
    <2>2. \A j \in 1..i - 1 : j \in 1..Len(A) /\ j # i
      BY <1>1, PlacesAre, PlacesBefore
    <2>3. ASSUME NEW y \in C PROVE y \in Statements /\ (y.op = "add column" => y.on # t)
      <3>1. CASE y \in B
        BY <3>1
      <3>2. CASE y \in Firsts(AddAll, A, i)
        <4>1. PICK j \in 1..i - 1 : y \in Range(AddAll[A[j]])
          BY <3>2 DEF Firsts
        <4>2. A[j] \in Structs /\ A[j] # t
          BY <1>2, <2>1, <2>2
        <4>3. y \in Statements /\ y.on = A[j]
          BY <4>1, <4>2, AddColumnsHold
        <4> QED
          BY <4>2, <4>3
      <3> QED
        BY <3>1, <3>2
    <2> HIDE DEF t, C
    <2>4. C \in SUBSET Statements /\ \A y \in C : y.op = "add column" => y.on # t
      BY <2>3
    <2>5. Modelled(t) /\ Key(t) \in KnownSchema
      BY <1>3, <2>1 DEF Structs
    <2>6. InPlace(AddColumns(t), C, R)
      BY <2>4, <2>5, AddInPlace
    <2> QED
      BY <2>1, <2>6, AddColumnsHold DEF t, C
  <1> HIDE DEF R
  <1>5. InPlace(Joined(AddAll, A), B, R)
    BY <1>1, <1>4, JoinedInPlace
  <1> QED
    BY <1>5 DEF A, R

(* The section up as it is generated.                                      *)
LEMMA UpGenerated ==
    ASSUME DeclaredOK
    PROVE  /\ Generated.up \in Seq(Statements) /\ InPlace(Generated.up, {}, UpReady(KnownSchema))
           /\ \A s : s \in Range(Generated.up) <=>
                \/ \E t \in Range(PendingModels) :
                     \/ s = Statement("create table", t, declared[t])
                     \/ s \in IndexStatements(t, declared[t])
                \/ \E t \in Range(Alters) :
                     \/ \E c \in Range(Added(t)) : s = Statement("add column", t, {c})
                     \/ s \in IndexStatements(t, Range(Added(t)))
  <1> DEFINE P == PendingModels
             A == Alters
             creates == Joined(CreateAll, P)
             adds == Joined(AddAll, A)
             R == UpReady(KnownSchema)
  <1>1. /\ P \in Seq(Structs) /\ A \in Seq(Structs) /\ Generated.up = creates \o adds
        /\ CreateAll \in [Structs -> Seq(Statements)] /\ AddAll \in [Structs -> Seq(Statements)]
    BY GeneratedParts
  <1>2. Range(P) \subseteq Structs /\ Range(A) \subseteq Structs
    BY <1>1, RangeIs
  <1>3. /\ creates \in Seq(Statements)
        /\ \A x : x \in Range(creates) <=> \E t \in Range(P) : x \in Range(CreateAll[t])
    BY <1>1, RangeJoined
  <1>4. /\ adds \in Seq(Statements)
        /\ \A x : x \in Range(adds) <=> \E t \in Range(A) : x \in Range(AddAll[t])
    BY <1>1, RangeJoined
  <1>5. \A t \in Structs : CreateAll[t] = CreateModel(t) /\ AddAll[t] = AddColumns(t) /\ Modelled(t)
    BY DEF Structs, CreateAll, AddAll
  <1>6. InPlace(creates, {}, R)
    BY CreatesInPlace
  <1> HIDE DEF P, A, creates, adds, R
  <1>7. /\ creates \o adds \in Seq(Statements)
        /\ Range(creates \o adds) = Range(creates) \cup Range(adds)
    BY <1>3, <1>4, RangeCat
  <1>8. \A s : s \in Range(creates) <=>
               \E t \in Range(P) : \/ s = Statement("create table", t, declared[t])
                                   \/ s \in IndexStatements(t, declared[t])
    BY <1>2, <1>3, <1>5, CreateRange
  <1>9. \A s : s \in Range(adds) <=>
               \E t \in Range(A) : \/ \E c \in Range(Added(t)) : s = Statement("add column", t, {c})
                                   \/ s \in IndexStatements(t, Range(Added(t)))
    BY <1>2, <1>4, <1>5, AddRange
  <1>10. InPlace(adds, Range(creates), R)
    <2>1. Range(creates) \in SUBSET Statements
      BY <1>3, RangeIs
    <2>2. ASSUME NEW y \in Range(creates) PROVE y.op # "add column"
      <3>1. PICK t \in Range(P) : \/ y = Statement("create table", t, declared[t])
                                  \/ y \in IndexStatements(t, declared[t])
        BY <1>8
      <3>2. y \in IndexStatements(t, declared[t]) => y.op \in IndexOps
        BY DEF IndexStatements
      <3>3. Statement("create table", t, declared[t]).op = "create table"
        BY DEF Statement
      <3> QED
        BY <3>1, <3>2, <3>3 DEF IndexOps
    <2> QED
      BY <2>1, <2>2, AddsInPlace DEF adds, A, R
  <1>11. InPlace(creates \o adds, {}, R)
    <2>1. {} \cup Range(creates) = Range(creates)
      OBVIOUS
    <2>2. InPlace(adds, {} \cup Range(creates), R)
      BY <1>10, <2>1
    <2> QED
      BY <1>3, <1>4, <1>6, <2>2, CatInPlace
  <1>12. \A s : s \in Range(creates \o adds) <=> s \in Range(creates) \/ s \in Range(adds)
    BY <1>7
  <1>13. \A s : s \in Range(creates \o adds) <=>
           \/ \E t \in Range(P) : \/ s = Statement("create table", t, declared[t])
                                  \/ s \in IndexStatements(t, declared[t])
           \/ \E t \in Range(A) : \/ \E c \in Range(Added(t)) : s = Statement("add column", t, {c})
                                  \/ s \in IndexStatements(t, Range(Added(t)))
    BY <1>8, <1>9, <1>12
  <1> QED
    BY <1>1, <1>7, <1>11, <1>13 DEF P, A, R

LEMMA GeneratedProvides ==
    ASSUME DeclaredOK
    PROVE  Provided(Generated.up)
  <1> DEFINE U == Range(Generated.up)
  <1>1. \A s : s \in U <=>
           \/ \E t \in Range(PendingModels) :
                \/ s = Statement("create table", t, declared[t])
                \/ s \in IndexStatements(t, declared[t])
           \/ \E t \in Range(Alters) :
                \/ \E c \in Range(Added(t)) : s = Statement("add column", t, {c})
                \/ s \in IndexStatements(t, Range(Added(t)))
    BY UpGenerated
  <1> HIDE DEF U
  <1> SUFFICES ASSUME NEW y \in U, y.op \in NewOps, NEW s \in IndexStatements(y.on, y.cols)
               PROVE  s \in U
    BY DEF Provided, U
  <1>2. \A t, cols : y \notin IndexStatements(t, cols)
    BY DEF NewOps, IndexStatements, IndexOps
  <1>3. CASE \E t \in Range(PendingModels) : y = Statement("create table", t, declared[t])
    <2>1. PICK t \in Range(PendingModels) : y = Statement("create table", t, declared[t])
      BY <1>3
    <2>2. y.on = t /\ y.cols = declared[t]
      BY <2>1 DEF Statement
    <2> QED
      BY <1>1, <2>2
  <1>4. CASE \E t \in Range(Alters) : \E c \in Range(Added(t)) : y = Statement("add column", t, {c})
    <2>1. PICK t \in Range(Alters) : \E c \in Range(Added(t)) : y = Statement("add column", t, {c})
      BY <1>4
    <2>2. PICK c \in Range(Added(t)) : y = Statement("add column", t, {c})
      BY <2>1
    <2>3. y.on = t /\ y.cols = {c}
      BY <2>2 DEF Statement
    <2>4. s \in IndexStatements(t, Range(Added(t)))
      BY <2>3, StatementsUnite
    <2> QED
      BY <1>1, <2>4
  <1> QED
    BY <1>1, <1>2, <1>3, <1>4

LEMMA ReverseOnce ==
    ASSUME NEW U, NEW s \in Seq(U), \A i, j \in 1..Len(s) : s[i] = s[j] => i = j
    PROVE  \A i, j \in 1..Len(s) : Reverse(s)[i] = Reverse(s)[j] => i = j
  <1> DEFINE n == Len(s)
  <1>1. /\ n \in Nat
        /\ \A i \in 1..n : (n - i) + 1 \in 1..n /\ Reverse(s)[i] = s[(n - i) + 1]
    BY ReverseIs
  <1>2. \A i, j \in 1..n : (n - i) + 1 = (n - j) + 1 => i = j
    BY <1>1
  <1> HIDE DEF n
  <1> SUFFICES ASSUME NEW i \in 1..n, NEW j \in 1..n, Reverse(s)[i] = Reverse(s)[j] PROVE i = j
    BY DEF n
  <1>3. (n - i) + 1 = (n - j) + 1
    BY <1>1 DEF n
  <1> QED
    BY <1>2, <1>3

LEMMA AddedAre ==
    ASSUME NEW t
    PROVE  /\ Added(t) \in Seq(ModelColumns)
           /\ \A i, j \in 1..Len(Added(t)) : Added(t)[i] = Added(t)[j] => i = j
           /\ Range(Added(t)) \subseteq ModelColumns
  <1>1. ColumnOrder \in Seq(ModelColumns) /\ IsInjective(ColumnOrder)
    BY ColumnsAre, MakeAssumption
  <1>2. Added(t) \in Seq(ModelColumns)
    BY ColumnsAre DEF Added
  <1> QED
    BY <1>1, <1>2, InOrderFresh, RangeIs DEF Added

-----------------------------------------------------------------------------
(* The order of a section down as it is generated.                         *)
LEMMA OfDrops ==
    ASSUME NEW t, NEW cols, NEW s \in DropStatements(t, cols), NEW B \in SUBSET Statements,
           NEW made, NEW known
    PROVE  <<s, B>> \in DownReady(made, known)
  <1>1. s \in Statements /\ s.op \in DropOps
    BY DEF DropStatements
  <1>2. DownOK(s, B, made, known)
    BY <1>1 DEF DownOK, DropOps, DownOps
  <1> QED
    BY <1>1, <1>2 DEF DownReady

LEMMA DropParts ==
    ASSUME NEW t \in Structs
    PROVE  /\ Statement("drop table", t, {}) \in Statements
           /\ \E first \in Seq(Statements) :
                /\ DropModel(t) = first \o <<Statement("drop table", t, {})>>
                /\ Range(first) = DropStatements(t, declared[t])
  <1> DEFINE F == [c \in ModelColumns |-> DropIndexesOf(t, c)]
             drop == Statement("drop table", t, {})
             first == Joined(F, Fields(t))
  <1>0. t \in ModelTables /\ declared[t] \in SUBSET ModelColumns /\ drop \in Statements
    BY StatementIs DEF Structs, Modelled, Ops
  <1>1. /\ F \in [ModelColumns -> Seq(Statements)]
        /\ \A c \in ModelColumns : Range(F[c]) = DropStatements(t, {c})
    BY <1>0, IndexesExact
  <1>2. Fields(t) \in Seq(ModelColumns) /\ \A c : c \in Range(Fields(t)) <=> c \in declared[t]
    BY <1>0, ColumnsAre DEF Fields
  <1>3. Each(LAMBDA c : DropIndexesOf(t, c), Fields(t)) = first
    <2>1. \A i \in DOMAIN Fields(t) : Fields(t)[i] \in ModelColumns
      BY <1>2
    <2>2. [i \in DOMAIN Fields(t) |-> DropIndexesOf(t, Fields(t)[i])]
            = [i \in DOMAIN Fields(t) |-> F[Fields(t)[i]]]
      BY <2>1
    <2> QED
      BY <2>2 DEF Each, Joined
  <1> HIDE DEF F
  <1>4. /\ first \in Seq(Statements)
        /\ \A x : x \in Range(first) <=> \E e \in Range(Fields(t)) : x \in Range(F[e])
    BY <1>1, <1>2, RangeJoined
  <1>5. DropModel(t) = first \o <<drop>>
    BY <1>3 DEF DropModel
  <1> HIDE DEF drop, first
  <1>6. \A x : x \in Range(first) <=> x \in DropStatements(t, declared[t])
    <2>1. \A x : x \in Range(first) <=> \E c \in declared[t] : x \in DropStatements(t, {c})
      <3>1. Range(Fields(t)) = declared[t]
        BY <1>2
      <3>2. \A c \in declared[t] : Range(F[c]) = DropStatements(t, {c})
        BY <1>0, <1>1
      <3>3. \A x : x \in Range(first) <=> \E c \in declared[t] : x \in Range(F[c])
        BY <1>4, <3>1
      <3> QED
        BY ONLY <3>2, <3>3
    <2> QED
      BY <2>1, StatementsUnite
  <1>7. Range(first) = DropStatements(t, declared[t])
    BY <1>6
  <1> QED
    BY <1>0, <1>4, <1>5, <1>7 DEF drop

LEMMA DropHolds ==
    ASSUME NEW t \in Structs
    PROVE  /\ DropAll[t] = DropModel(t) /\ DropModel(t) \in Seq(Statements)
           /\ \A s : s \in Range(DropModel(t)) <=>
                \/ s = Statement("drop table", t, {})
                \/ s \in DropStatements(t, declared[t])
  <1> DEFINE drop == Statement("drop table", t, {})
             end == <<drop>>
  <1>1. PICK first \in Seq(Statements) :
            DropModel(t) = first \o end /\ Range(first) = DropStatements(t, declared[t])
    BY DropParts
  <1>2. end \in Seq(Statements) /\ Range(end) = {drop}
    <2>1. drop \in Statements
      BY DropParts
    <2> HIDE DEF drop
    <2> QED
      BY <2>1, OneIs
  <1> HIDE DEF drop, end
  <1>3. first \o end \in Seq(Statements) /\ Range(first \o end) = Range(first) \cup Range(end)
    BY <1>2, RangeCat
  <1>4. DropAll[t] = DropModel(t)
    BY DEF DropAll
  <1> QED
    BY <1>1, <1>2, <1>3, <1>4 DEF drop

LEMMA DropInPlace ==
    ASSUME NEW t \in Structs, NEW B \in SUBSET Statements, NEW made, NEW known,
           \A y \in made :
             /\ y.op = "add column" => Statement("drop column", y.on, y.cols) \in B
             /\ y.op = "create table" /\ Ahead(ModelOrder, t, y.on) =>
                  Statement("drop table", y.on, {}) \in B
    PROVE  InPlace(DropModel(t), B, DownReady(made, known))
  <1> DEFINE drop == Statement("drop table", t, {})
             end == <<drop>>
             R == DownReady(made, known)
  <1>0. drop \in Statements /\ drop.op = "drop table" /\ drop.on = t
    BY DropParts DEF Statement
  <1>1. PICK first \in Seq(Statements) :
            DropModel(t) = first \o end /\ Range(first) = DropStatements(t, declared[t])
    BY DropParts
  <1> HIDE DEF drop
  <1>2. end \in Seq(Statements)
    BY <1>0, OneIs
  <1>3. Range(first) \subseteq Statements
    BY RangeIs
  <1>4. InPlace(first, B, R)
    <2>1. ASSUME NEW x \in Range(first), NEW C, B \subseteq C, C \subseteq B \cup Range(first)
          PROVE  <<x, C>> \in R
      <3>1. C \in SUBSET Statements /\ x \in DropStatements(t, declared[t])
        BY <1>1, <1>3, <2>1
      <3> QED
        BY <3>1, OfDrops
    <2> HIDE DEF R
    <2> QED
      BY <2>1, EasilyInPlace
  <1>5. <<drop, B \cup Range(first)>> \in R
    <2> DEFINE C == B \cup Range(first)
    <2>1. C \in SUBSET Statements /\ B \subseteq C
      BY <1>3
    <2> HIDE DEF C
    <2>2. DownOK(drop, C, made, known)
      BY <1>0, <2>1 DEF DownOK, DownOps
    <2> QED
      BY <1>0, <2>1, <2>2 DEF DownReady, C
  <1> HIDE DEF R
  <1>6. InPlace(end, B \cup Range(first), R)
    BY <1>5, OneInPlace
  <1> HIDE DEF end
  <1>7. InPlace(first \o end, B, R)
    BY <1>2, <1>4, <1>6, CatInPlace
  <1> QED
    BY <1>1, <1>7 DEF R

(* A column that was added is dropped after its indexes.                   *)
LEMMA UnaddParts ==
    ASSUME NEW t \in ModelTables, NEW c \in ModelColumns
    PROVE  LET drop == Statement("drop column", t, {c})
               block == DropIndexesOf(t, c) \o <<drop>>
           IN  /\ drop \in Statements /\ drop.op = "drop column" /\ drop.on = t /\ drop.cols = {c}
               /\ block \in Seq(Statements)
               /\ Range(block) = {drop} \cup DropStatements(t, {c})
               /\ c \in Indexable(t) => Statement("drop index", t, {c}) \in DropStatements(t, {c})
               /\ c \in Searched => Statement("drop fts", t, {c}) \in DropStatements(t, {c})
  <1> DEFINE drop == Statement("drop column", t, {c})
             end == <<drop>>
             first == DropIndexesOf(t, c)
  <1>0. {c} \in SUBSET ModelColumns /\ {"drop column", "drop index", "drop fts"} \subseteq Ops
    BY DEF Ops
  <1>1. drop \in Statements /\ drop.op = "drop column" /\ drop.on = t /\ drop.cols = {c}
    BY <1>0 DEF Statement, Statements
  <1>2. first \in Seq(Statements) /\ Range(first) = DropStatements(t, {c})
    BY IndexesExact
  <1>3. c \in Indexable(t) => Statement("drop index", t, {c}) \in DropStatements(t, {c})
    <2> DEFINE s == Statement("drop index", t, {c})
    <2>1. s \in Statements /\ s.op = "drop index" /\ s.on = t /\ s.cols = {c}
      BY <1>0 DEF Statement, Statements
    <2> HIDE DEF s
    <2> QED
      BY <2>1 DEF DropStatements, DropOps, DroppedBy, s
  <1>4. c \in Searched => Statement("drop fts", t, {c}) \in DropStatements(t, {c})
    <2> DEFINE s == Statement("drop fts", t, {c})
    <2>1. s \in Statements /\ s.op = "drop fts" /\ s.on = t /\ s.cols = {c}
      BY <1>0 DEF Statement, Statements
    <2> HIDE DEF s
    <2> QED
      BY <2>1 DEF DropStatements, DropOps, DroppedBy, s
  <1> HIDE DEF drop, first
  <1>5. end \in Seq(Statements) /\ Range(end) = {drop}
    BY <1>1, OneIs
  <1> HIDE DEF end
  <1>6. first \o end \in Seq(Statements) /\ Range(first \o end) = Range(first) \cup Range(end)
    BY <1>2, <1>5, RangeCat
  <1> QED
    BY <1>1, <1>2, <1>3, <1>4, <1>5, <1>6 DEF drop, first, end

Unadds(t) == [c \in ModelColumns |-> DropIndexesOf(t, c) \o <<Statement("drop column", t, {c})>>]

LEMMA UnaddIs ==
    ASSUME NEW t \in Structs
    PROVE  /\ t \in ModelTables /\ Modelled(t)
           /\ Unadds(t) \in [ModelColumns -> Seq(Statements)]
           /\ \A c \in ModelColumns :
                Range(Unadds(t)[c]) = {Statement("drop column", t, {c})} \cup DropStatements(t, {c})
           /\ DropColumns(t) = Joined(Unadds(t), Reverse(Added(t)))
           /\ UnaddAll[t] = DropColumns(t) /\ DropColumns(t) \in Seq(Statements)
  <1> DEFINE back == Reverse(Added(t))
  <1>0. t \in ModelTables /\ Modelled(t)
    BY DEF Structs
  <1>1. /\ Unadds(t) \in [ModelColumns -> Seq(Statements)]
        /\ \A c \in ModelColumns :
             Range(Unadds(t)[c]) = {Statement("drop column", t, {c})} \cup DropStatements(t, {c})
    BY <1>0, UnaddParts DEF Unadds
  <1>2. back \in Seq(ModelColumns)
    BY AddedAre, ReverseIs
  <1>3. DropColumns(t) = Joined(Unadds(t), back)
    <2>1. \A i \in DOMAIN back : back[i] \in ModelColumns
      <3> HIDE DEF back
      <3> QED
        BY <1>2
    <2>2. [i \in DOMAIN back |-> DropIndexesOf(t, back[i]) \o <<Statement("drop column", t, {back[i]})>>]
            = [i \in DOMAIN back |-> Unadds(t)[back[i]]]
      <3> HIDE DEF back
      <3> QED
        BY <2>1 DEF Unadds
    <2> QED
      BY <2>2 DEF DropColumns, Each, Joined
  <1>4. UnaddAll[t] = DropColumns(t)
    BY DEF UnaddAll
  <1>5. DropColumns(t) \in Seq(Statements)
    BY <1>0, DropColumnsIs
  <1> QED
    BY <1>0, <1>1, <1>3, <1>4, <1>5

LEMMA UnaddHolds ==
    ASSUME NEW t \in Structs
    PROVE  \A s : s \in Range(DropColumns(t)) <=>
               \/ \E c \in Range(Added(t)) : s = Statement("drop column", t, {c})
               \/ s \in DropStatements(t, Range(Added(t)))
  <1> DEFINE F == Unadds(t)
             back == Reverse(Added(t))
  <1>1. /\ F \in [ModelColumns -> Seq(Statements)] /\ DropColumns(t) = Joined(F, back)
        /\ \A c \in ModelColumns :
             Range(F[c]) = {Statement("drop column", t, {c})} \cup DropStatements(t, {c})
    BY UnaddIs
  <1>2. back \in Seq(ModelColumns) /\ Range(back) = Range(Added(t)) /\ Range(back) \subseteq ModelColumns
    BY AddedAre, ReverseIs
  <1> HIDE DEF F, back
  <1>3. \A s : s \in Range(DropColumns(t)) <=> \E c \in Range(back) : s \in Range(F[c])
    <2>1. \A s : s \in Range(Joined(F, back)) <=> \E c \in Range(back) : s \in Range(F[c])
      <3>1. F \in [ModelColumns -> Seq(Statements)] /\ back \in Seq(ModelColumns)
        BY <1>1, <1>2
      <3> QED
        BY ONLY <3>1, RangeJoined
    <2> QED
      BY <1>1, <2>1
  <1> SUFFICES ASSUME NEW s
               PROVE  s \in Range(DropColumns(t)) <=>
                        \/ \E c \in Range(Added(t)) : s = Statement("drop column", t, {c})
                        \/ s \in DropStatements(t, Range(Added(t)))
    OBVIOUS
  <1>4. s \in Range(DropColumns(t)) <=>
          \E c \in Range(Added(t)) : s = Statement("drop column", t, {c}) \/ s \in DropStatements(t, {c})
    <2>1. s \in Range(DropColumns(t)) <=> \E c \in Range(Added(t)) : s \in Range(F[c])
      BY <1>2, <1>3
    <2>2. \A c \in Range(Added(t)) :
            s \in Range(F[c]) <=> s = Statement("drop column", t, {c}) \/ s \in DropStatements(t, {c})
      BY <1>1, <1>2
    <2> QED
      BY ONLY <2>1, <2>2
  <1>5. s \in DropStatements(t, Range(Added(t))) <=> \E c \in Range(Added(t)) : s \in DropStatements(t, {c})
    BY StatementsUnite
  <1> QED
    BY <1>4, <1>5

LEMMA UnaddInPlace ==
    ASSUME NEW t \in Structs, NEW B \in SUBSET Statements, NEW made, NEW known, Key(t) \in known,
           \A y \in B : y.op = "drop column" => y.on # t,
           \A c \in Range(Added(t)) : Statement("add column", t, {c}) \in made
    PROVE  InPlace(DropColumns(t), B, DownReady(made, known))
  <1> DEFINE F == Unadds(t)
             back == Reverse(Added(t))
             n == Len(back)
             R == DownReady(made, known)
             drop(c) == Statement("drop column", t, {c})
  <1>1. /\ t \in ModelTables /\ F \in [ModelColumns -> Seq(Statements)]
        /\ DropColumns(t) = Joined(F, back)
        /\ \A c \in ModelColumns : Range(F[c]) = {drop(c)} \cup DropStatements(t, {c})
    BY UnaddIs
  <1>2. /\ back \in Seq(ModelColumns) /\ Range(back) = Range(Added(t))
        /\ \A i, j \in 1..n : back[i] = back[j] => i = j
    <2> DEFINE new == Added(t)
    <2>1. new \in Seq(ModelColumns) /\ \A i, j \in 1..Len(new) : new[i] = new[j] => i = j
      BY AddedAre
    <2> HIDE DEF new
    <2>2. /\ Reverse(new) \in Seq(ModelColumns) /\ Range(Reverse(new)) = Range(new)
          /\ Len(Reverse(new)) = Len(new)
      BY <2>1, ReverseIs
    <2>3. \A i, j \in 1..Len(new) : Reverse(new)[i] = Reverse(new)[j] => i = j
      BY <2>1, ReverseOnce
    <2> QED
      BY <2>2, <2>3 DEF new
  <1>3. n \in Nat /\ \A i \in 1..n : back[i] \in ModelColumns /\ back[i] \in Range(Added(t))
    <2> HIDE DEF back
    <2>1. n \in Nat /\ \A i \in 1..n : back[i] \in ModelColumns
      BY <1>2, PlacesAre
    <2>2. Range(back) = {back[i] : i \in 1..n}
      BY <1>2, RangeIs
    <2> QED
      BY <1>2, <2>1, <2>2
  <1>4. \A c \in ModelColumns :
          /\ F[c] = DropIndexesOf(t, c) \o <<drop(c)>> /\ drop(c) \in Statements
          /\ drop(c).op = "drop column" /\ drop(c).on = t /\ drop(c).cols = {c}
          /\ c \in Indexable(t) => Statement("drop index", t, {c}) \in DropStatements(t, {c})
          /\ c \in Searched => Statement("drop fts", t, {c}) \in DropStatements(t, {c})
    BY <1>1, UnaddParts DEF Unadds
  <1> HIDE DEF F, back, n, R, drop
  <1>5. ASSUME NEW i \in 1..n PROVE InPlace(F[back[i]], B \cup Firsts(F, back, i), R)
    <2> DEFINE c == back[i]
               C == B \cup Firsts(F, back, i)
               first == DropIndexesOf(t, c)
               D == C \cup Range(first)
    <2>1. c \in ModelColumns /\ \A j \in 1..i - 1 : back[j] \in ModelColumns /\ back[j] # c
      <3>1. \A j \in 1..i - 1 : j \in 1..n /\ j # i
        BY <1>3, PlacesBefore
      <3> QED
        BY <1>2, <1>3, <3>1
    <2>2. ASSUME NEW y \in Firsts(F, back, i)
          PROVE  y \in Statements /\ (y.op = "drop column" => c \notin y.cols)
      <3>1. PICK j \in 1..i - 1 : y \in Range(F[back[j]])
        BY DEF Firsts
      <3> DEFINE e == back[j]
      <3>2. e \in ModelColumns /\ e # c
        BY <2>1
      <3> HIDE DEF c, e
      <3>3. y = drop(e) \/ y \in DropStatements(t, {e})
        BY <1>1, <3>1, <3>2 DEF e
      <3>4. y \in DropStatements(t, {e}) => y \in Statements /\ y.op # "drop column"
        BY DEF DropStatements, DropOps
      <3>5. drop(e) \in Statements /\ drop(e).cols = {e}
        BY <1>4, <3>2
      <3> QED
        BY <3>2, <3>3, <3>4, <3>5
    <2>3. C \in SUBSET Statements /\ \A y \in C : y.op = "drop column" /\ y.on = t => c \notin y.cols
      BY <2>2
    <2>4. first \in Seq(Statements) /\ Range(first) = DropStatements(t, {c})
      BY <1>1, <2>1, IndexesExact
    <2>5. Statement("add column", t, {c}) \in made
      BY <1>3
    <2> HIDE DEF c, C, first
    <2>6. InPlace(first, C, R)
      <3>1. ASSUME NEW x \in Range(first), NEW G, C \subseteq G, G \subseteq C \cup Range(first)
            PROVE  <<x, G>> \in R
        <4>1. Range(first) \subseteq Statements
          BY <2>4, RangeIs
        <4>2. G \in SUBSET Statements /\ x \in DropStatements(t, {c})
          BY <2>3, <2>4, <3>1, <4>1
        <4> QED
          BY <4>2, OfDrops DEF R
      <3> QED
        BY <2>4, <3>1, EasilyInPlace
    <2>7. <<drop(c), D>> \in R
      <3>1. D \in SUBSET Statements /\ \A y \in D : y.op = "drop column" /\ y.on = t => c \notin y.cols
        <4>1. \A y \in DropStatements(t, {c}) : y \in Statements /\ y.op # "drop column"
          BY DEF DropStatements, DropOps
        <4> QED
          BY <2>3, <2>4, <4>1
      <3>2. /\ c \in Indexable(t) => Statement("drop index", t, {c}) \in D
            /\ c \in Searched => Statement("drop fts", t, {c}) \in D
        BY <1>4, <2>1, <2>4
      <3>3. \E y \in made : y.op = "add column" /\ y.on = t /\ y.cols = {c}
        <4>1. LET y == Statement("add column", t, {c}) IN y.op = "add column" /\ y.on = t /\ y.cols = {c}
          BY DEF Statement
        <4> QED
          BY <2>5, <4>1
      <3>4. /\ drop(c) \in Statements /\ drop(c).op = "drop column"
            /\ drop(c).on = t /\ drop(c).cols = {c}
        BY <1>4, <2>1
      <3> HIDE DEF D
      <3>5. DownOK(drop(c), D, made, known)
        BY <2>1, <3>1, <3>2, <3>3, <3>4 DEF DownOK, DownOps
      <3> QED
        BY <3>1, <3>4, <3>5 DEF DownReady, R
    <2> DEFINE end == <<drop(c)>>
    <2>8. InPlace(end, C \cup Range(first), R)
      BY <2>7, OneInPlace
    <2>9. end \in Seq(Statements)
      BY <1>4, <2>1, OneIs
    <2>10. F[c] = first \o end
      BY <1>4, <2>1 DEF first
    <2> HIDE DEF end
    <2>11. InPlace(F[c], C, R)
      BY <2>4, <2>6, <2>8, <2>9, <2>10, CatInPlace
    <2> QED
      BY <2>11 DEF c, C
  <1>6. InPlace(Joined(F, back), B, R)
    BY <1>1, <1>2, <1>5, JoinedInPlace DEF n
  <1> QED
    BY <1>1, <1>6 DEF R

LEMMA MadeAre ==
    ASSUME DeclaredOK
    PROVE  \A y : y \in Made(Generated.up) <=>
               \/ \E t \in Range(PendingModels) : y = Statement("create table", t, declared[t])
               \/ \E t \in Range(Alters) : \E c \in Range(Added(t)) : y = Statement("add column", t, {c})
  <1>1. \A s : s \in Range(Generated.up) <=>
           \/ \E t \in Range(PendingModels) :
                \/ s = Statement("create table", t, declared[t])
                \/ s \in IndexStatements(t, declared[t])
           \/ \E t \in Range(Alters) :
                \/ \E c \in Range(Added(t)) : s = Statement("add column", t, {c})
                \/ s \in IndexStatements(t, Range(Added(t)))
    BY UpGenerated
  <1>2. \A t, cols : \A s \in IndexStatements(t, cols) : s.op \notin NewOps
    BY DEF NewOps, IndexStatements, IndexOps
  <1>3. \A t, cols : /\ Statement("create table", t, cols).op \in NewOps
                     /\ Statement("add column", t, cols).op \in NewOps
    BY DEF NewOps, Statement
  <1> SUFFICES ASSUME NEW y
               PROVE  y \in Made(Generated.up) <=>
                 \/ \E t \in Range(PendingModels) : y = Statement("create table", t, declared[t])
                 \/ \E t \in Range(Alters) : \E c \in Range(Added(t)) : y = Statement("add column", t, {c})
    OBVIOUS
  <1>4. y \in Made(Generated.up) <=> y \in Range(Generated.up) /\ y.op \in NewOps
    BY DEF Made
  <1> QED
    BY <1>1, <1>2, <1>3, <1>4

LEMMA UnaddsInPlace ==
    ASSUME DeclaredOK
    PROVE  LET ra == Reverse(Alters)
           IN  /\ ra \in Seq(Structs) /\ Range(ra) = Range(Alters)
               /\ InPlace(Joined(UnaddAll, ra), {}, DownReady(Made(Generated.up), KnownSchema))
  <1> DEFINE A == Alters
             ra == Reverse(A)
             made == Made(Generated.up)
             R == DownReady(made, KnownSchema)
  <1>1. A \in Seq(Structs) /\ UnaddAll \in [Structs -> Seq(Statements)]
    BY GeneratedParts
  <1>2. \A i, j \in 1..Len(A) : A[i] = A[j] => i = j
    <2>1. ModelOrder \in Seq(ModelTables) /\ IsInjective(ModelOrder)
      BY MakeAssumption DEF ModelTables
    <2> QED
      BY <2>1, InOrderFresh DEF Alters
  <1>3. \A t \in Range(A) : Key(t) \in KnownSchema
    BY OrdersAre
  <1>4. \A t \in Range(A) : \A c \in Range(Added(t)) : Statement("add column", t, {c}) \in made
    BY MadeAre
  <1> HIDE DEF A, made, R
  <1>5. ra \in Seq(Structs) /\ Range(ra) = Range(A) /\ Len(ra) = Len(A)
    BY <1>1, ReverseIs
  <1>6. \A i, j \in 1..Len(ra) : ra[i] = ra[j] => i = j
    BY <1>1, <1>2, <1>5, ReverseOnce
  <1> HIDE DEF ra
  <1>7. ASSUME NEW i \in 1..Len(ra)
        PROVE  InPlace(UnaddAll[ra[i]], {} \cup Firsts(UnaddAll, ra, i), R)
    <2> DEFINE t == ra[i]
               B == {} \cup Firsts(UnaddAll, ra, i)
    <2>1. t \in Structs /\ t \in Range(A) /\ \A j \in 1..Len(ra) : ra[j] \in Structs
      <3>1. Len(ra) \in Nat /\ \A j \in 1..Len(ra) : ra[j] \in Structs
        BY <1>5, PlacesAre
      <3>2. Range(ra) = {ra[j] : j \in 1..Len(ra)}
        BY <1>5, RangeIs
      <3> QED
        BY <1>5, <3>1, <3>2
    <2>2. \A j \in 1..i - 1 : ra[j] \in Structs /\ ra[j] # t
      <3>1. \A j \in 1..i - 1 : j \in 1..Len(ra) /\ j # i
        BY <1>5, PlacesAre, PlacesBefore
      <3> QED
        BY <1>6, <2>1, <3>1
    <2>3. ASSUME NEW y \in B PROVE y \in Statements /\ (y.op = "drop column" => y.on # t)
      <3>1. PICK j \in 1..i - 1 : y \in Range(UnaddAll[ra[j]])
        BY DEF Firsts
      <3> DEFINE u == ra[j]
      <3>2. u \in Structs /\ u # t
        BY <2>2
      <3> HIDE DEF u, t
      <3>3. y \in Range(DropColumns(u)) /\ DropColumns(u) \in Seq(Statements)
        BY <3>1, <3>2, UnaddIs DEF u
      <3>4. y \in Statements
        BY <3>3, RangeIs
      <3>5. CASE \E c \in Range(Added(u)) : y = Statement("drop column", u, {c})
        <4>0. PICK c \in Range(Added(u)) : y = Statement("drop column", u, {c})
          BY <3>5
        <4>1. y.on = u
          BY <4>0 DEF Statement
        <4> QED
          BY <3>2, <3>4, <4>1
      <3>6. CASE y \in DropStatements(u, Range(Added(u)))
        BY <3>4, <3>6 DEF DropStatements, DropOps
      <3> QED
        BY <3>2, <3>3, <3>5, <3>6, UnaddHolds
    <2> HIDE DEF t, B
    <2>4. B \in SUBSET Statements /\ \A y \in B : y.op = "drop column" => y.on # t
      BY <2>3
    <2>5. InPlace(DropColumns(t), B, R)
      BY <1>3, <1>4, <2>1, <2>4, UnaddInPlace DEF R
    <2> QED
      BY <2>1, <2>5, UnaddIs DEF t, B
  <1>8. InPlace(Joined(UnaddAll, ra), {}, R)
    BY <1>1, <1>5, <1>7, JoinedInPlace
  <1> QED
    BY <1>5, <1>8 DEF ra, A, R, made

LEMMA DropsInPlace ==
    ASSUME DeclaredOK, NEW B \in SUBSET Statements,
           \A y \in Made(Generated.up) :
             y.op = "add column" => Statement("drop column", y.on, y.cols) \in B
    PROVE  LET rp == Reverse(PendingModels)
           IN  /\ rp \in Seq(Structs) /\ Range(rp) = Range(PendingModels)
               /\ InPlace(Joined(DropAll, rp), B, DownReady(Made(Generated.up), KnownSchema))
  <1> DEFINE P == PendingModels
             n == Len(P)
             rp == Reverse(P)
             made == Made(Generated.up)
             R == DownReady(made, KnownSchema)
  <1>1. P \in Seq(Structs) /\ DropAll \in [Structs -> Seq(Statements)]
    BY GeneratedParts
  <1>2. \A j \in 1..n : \A i \in 1..j - 1 : Ahead(ModelOrder, P[i], P[j])
    BY ModelsAhead DEF PendingModels
  <1>3. \A y \in made : y.op = "create table" => y.on \in Range(P)
    <2> SUFFICES ASSUME NEW y \in made, y.op = "create table" PROVE y.on \in Range(P)
      OBVIOUS
    <2>1. CASE \E t \in Range(P) : y = Statement("create table", t, declared[t])
      <3>1. PICK t \in Range(P) : y = Statement("create table", t, declared[t])
        BY <2>1
      <3>2. y.on = t
        BY <3>1 DEF Statement
      <3> QED
        BY <3>2
    <2>2. CASE \E t \in Range(Alters) : \E c \in Range(Added(t)) : y = Statement("add column", t, {c})
      <3>0. PICK t \in Range(Alters) : \E c \in Range(Added(t)) : y = Statement("add column", t, {c})
        BY <2>2
      <3>1. PICK c \in Range(Added(t)) : y = Statement("add column", t, {c})
        BY <3>0
      <3>2. y.op = "add column"
        BY <3>1 DEF Statement
      <3> QED
        BY <2>2, <3>2
    <2> QED
      BY <2>1, <2>2, MadeAre
  <1> HIDE DEF P, made, R
  <1>a. n \in Nat
    <2>1. P \in Seq(Structs)
      BY <1>1
    <2> QED
      BY ONLY <2>1, PlacesAre
  <1>4. /\ rp \in Seq(Structs) /\ Range(rp) = Range(P) /\ Len(rp) = n
        /\ \A i \in 1..n : (n - i) + 1 \in 1..n /\ rp[i] = P[(n - i) + 1] /\ rp[i] \in Structs
    <2>1. P \in Seq(Structs)
      BY <1>1
    <2> QED
      BY ONLY <2>1, ReverseIs
  <1> HIDE DEF rp, n
  <1>5. Range(rp) = {rp[i] : i \in 1..n}
    BY <1>4, RangeIs
  <1>6. ASSUME NEW i \in 1..n
        PROVE  InPlace(DropAll[rp[i]], B \cup Firsts(DropAll, rp, i), R)
    <2> DEFINE t == rp[i]
               C == B \cup Firsts(DropAll, rp, i)
    <2>1. t \in Structs /\ \A j \in 1..i - 1 : rp[j] \in Structs
      <3>1. \A j \in 1..i - 1 : j \in 1..n
        BY <1>a, PlacesBefore
      <3> QED
        BY <1>4, <3>1
    <2>2. C \in SUBSET Statements
      <3>1. ASSUME NEW y \in Firsts(DropAll, rp, i) PROVE y \in Statements
        <4>1. PICK j \in 1..i - 1 : y \in Range(DropAll[rp[j]])
          BY <3>1 DEF Firsts
        <4>2. DropAll[rp[j]] \in Seq(Statements)
          BY <1>1, <2>1
        <4> QED
          BY <4>1, <4>2, RangeIs
      <3> QED
        BY <3>1
    <2>3. ASSUME NEW y \in made, y.op = "create table", Ahead(ModelOrder, t, y.on)
          PROVE  Statement("drop table", y.on, {}) \in C
      <3>1. PICK j \in 1..n : y.on = rp[j]
        <4>1. y.on \in Range(rp)
          BY <1>3, <1>4, <2>3
        <4> QED
          BY <1>5, <4>1
      <3> DEFINE u == rp[j]
      <3>2. ~Ahead(ModelOrder, u, t) /\ u # t
        BY <2>3, <3>1, AheadStrict
      <3>3. ~(i < j)
        <4> SUFFICES ASSUME i < j PROVE FALSE
          OBVIOUS
        <4>1. (n - j) + 1 \in 1..((n - i) + 1) - 1 /\ (n - i) + 1 \in 1..n
          <5>1. n \in Nat /\ i \in 1..n /\ j \in 1..n /\ i < j
            BY <1>a
          <5> QED
            BY ONLY <5>1
        <4>2. Ahead(ModelOrder, P[(n - j) + 1], P[(n - i) + 1])
          BY <1>2, <4>1
        <4> QED
          BY <1>4, <3>2, <4>2
      <3>4. j \in 1..i - 1
        <4>1. j # i
          BY <3>2
        <4>2. n \in Nat /\ i \in 1..n /\ j \in 1..n
          BY <1>a
        <4> QED
          BY ONLY <3>3, <4>1, <4>2
      <3>5. u \in Structs
        BY <2>1, <3>4
      <3> HIDE DEF u, t
      <3>6. Statement("drop table", u, {}) \in Range(DropAll[u])
        BY <3>5, DropHolds
      <3>7. Statement("drop table", u, {}) \in Firsts(DropAll, rp, i)
        BY <3>4, <3>6 DEF Firsts, u
      <3> QED
        BY <3>1, <3>7 DEF u
    <2> HIDE DEF t
    <2>4. \A y \in made :
            /\ y.op = "add column" => Statement("drop column", y.on, y.cols) \in C
            /\ y.op = "create table" /\ Ahead(ModelOrder, t, y.on) =>
                 Statement("drop table", y.on, {}) \in C
      BY <2>3 DEF made
    <2> HIDE DEF C
    <2>5. InPlace(DropModel(t), C, R)
      BY <2>1, <2>2, <2>4, DropInPlace DEF R
    <2> QED
      BY <2>1, <2>5, DropHolds DEF t, C
  <1>7. InPlace(Joined(DropAll, rp), B, R)
    BY <1>1, <1>4, <1>6, JoinedInPlace
  <1> QED
    BY <1>4, <1>7 DEF rp, P, R, made

LEMMA DownGenerated ==
    ASSUME DeclaredOK
    PROVE  /\ Generated.down \in Seq(Statements)
           /\ InPlace(Generated.down, {}, DownReady(Made(Generated.up), KnownSchema))
           /\ \A s : s \in Range(Generated.down) <=>
                \/ \E t \in Range(Alters) :
                     \/ \E c \in Range(Added(t)) : s = Statement("drop column", t, {c})
                     \/ s \in DropStatements(t, Range(Added(t)))
                \/ \E t \in Range(PendingModels) :
                     \/ s = Statement("drop table", t, {})
                     \/ s \in DropStatements(t, declared[t])
  <1> DEFINE P == PendingModels
             A == Alters
             ra == Reverse(A)
             rp == Reverse(P)
             unadds == Joined(UnaddAll, ra)
             drops == Joined(DropAll, rp)
             made == Made(Generated.up)
             R == DownReady(made, KnownSchema)
  <1>1. /\ P \in Seq(Structs) /\ A \in Seq(Structs) /\ Generated.down = unadds \o drops
        /\ UnaddAll \in [Structs -> Seq(Statements)] /\ DropAll \in [Structs -> Seq(Statements)]
    BY GeneratedParts
  <1>2. Range(P) \subseteq Structs /\ Range(A) \subseteq Structs
    BY <1>1, RangeIs
  <1>3. ra \in Seq(Structs) /\ Range(ra) = Range(A) /\ rp \in Seq(Structs) /\ Range(rp) = Range(P)
    BY <1>1, RangeReverse
  <1>4. InPlace(unadds, {}, R)
    BY UnaddsInPlace
  <1>5. /\ unadds \in Seq(Statements)
        /\ \A x : x \in Range(unadds) <=> \E t \in Range(A) : x \in Range(UnaddAll[t])
    <2>1. PICK seq \in Seq(Structs) : seq = ra /\ Range(seq) = Range(A)
      BY <1>3
    <2>2. PICK F \in [Structs -> Seq(Statements)] : F = UnaddAll
      BY <1>1
    <2>3. /\ Joined(F, seq) \in Seq(Statements)
          /\ \A x : x \in Range(Joined(F, seq)) <=> \E t \in Range(seq) : x \in Range(F[t])
      BY ONLY F \in [Structs -> Seq(Statements)], seq \in Seq(Structs), RangeJoined
    <2>4. unadds = Joined(F, seq)
      BY <2>1, <2>2
    <2> HIDE DEF unadds, A, ra
    <2> QED
      BY ONLY <2>1, <2>2, <2>3, <2>4
  <1>6. /\ drops \in Seq(Statements)
        /\ \A x : x \in Range(drops) <=> \E t \in Range(P) : x \in Range(DropAll[t])
    <2>1. PICK seq \in Seq(Structs) : seq = rp /\ Range(seq) = Range(P)
      BY <1>3
    <2>2. PICK F \in [Structs -> Seq(Statements)] : F = DropAll
      BY <1>1
    <2>3. /\ Joined(F, seq) \in Seq(Statements)
          /\ \A x : x \in Range(Joined(F, seq)) <=> \E t \in Range(seq) : x \in Range(F[t])
      BY ONLY F \in [Structs -> Seq(Statements)], seq \in Seq(Structs), RangeJoined
    <2>4. drops = Joined(F, seq)
      BY <2>1, <2>2
    <2> HIDE DEF drops, P, rp
    <2> QED
      BY ONLY <2>1, <2>2, <2>3, <2>4
  <1> HIDE DEF P, A, ra, rp, unadds, drops, made, R
  <1>7. \A s : s \in Range(unadds) <=>
               \E t \in Range(A) : \/ \E c \in Range(Added(t)) : s = Statement("drop column", t, {c})
                                   \/ s \in DropStatements(t, Range(Added(t)))
    <2>1. \A t \in Range(A) : UnaddAll[t] = DropColumns(t)
      BY <1>2, UnaddIs
    <2> QED
      BY <1>2, <1>5, <2>1, UnaddHolds
  <1>8. \A s : s \in Range(drops) <=>
               \E t \in Range(P) : \/ s = Statement("drop table", t, {})
                                   \/ s \in DropStatements(t, declared[t])
    BY <1>2, <1>6, DropHolds
  <1>9. unadds \o drops \in Seq(Statements) /\ Range(unadds \o drops) = Range(unadds) \cup Range(drops)
    BY <1>5, <1>6, RangeCat
  <1>10. InPlace(drops, {} \cup Range(unadds), R)
    <2> DEFINE B == {} \cup Range(unadds)
    <2>1. B \in SUBSET Statements
      BY <1>5, RangeIs
    <2>2. ASSUME NEW y \in made, y.op = "add column"
          PROVE  Statement("drop column", y.on, y.cols) \in B
      <3>1. \/ \E t \in Range(P) : y = Statement("create table", t, declared[t])
            \/ \E t \in Range(A) : \E c \in Range(Added(t)) : y = Statement("add column", t, {c})
        BY MadeAre DEF made, P, A
      <3>2. ~\E t \in Range(P) : y = Statement("create table", t, declared[t])
        <4> SUFFICES ASSUME NEW t \in Range(P), y = Statement("create table", t, declared[t])
                     PROVE  FALSE
          OBVIOUS
        <4>1. y.op = "create table"
          BY DEF Statement
        <4> QED
          BY <2>2, <4>1
      <3>3. PICK t \in Range(A) : \E c \in Range(Added(t)) : y = Statement("add column", t, {c})
        BY <3>1, <3>2
      <3>4. PICK c \in Range(Added(t)) : y = Statement("add column", t, {c})
        BY <3>3
      <3>5. y.on = t /\ y.cols = {c}
        BY <3>4 DEF Statement
      <3> QED
        BY <1>7, <3>5
    <2> HIDE DEF B
    <2>3. InPlace(drops, B, R)
      BY <2>1, <2>2, DropsInPlace DEF drops, rp, P, R, made
    <2> QED
      BY <2>3 DEF B
  <1>11. InPlace(unadds \o drops, {}, R)
    BY <1>4, <1>5, <1>6, <1>10, CatInPlace
  <1>12. \A s : s \in Range(unadds \o drops) <=>
           \/ \E t \in Range(A) : \/ \E c \in Range(Added(t)) : s = Statement("drop column", t, {c})
                                  \/ s \in DropStatements(t, Range(Added(t)))
           \/ \E t \in Range(P) : \/ s = Statement("drop table", t, {})
                                  \/ s \in DropStatements(t, declared[t])
    <2>1. \A s : s \in Range(unadds \o drops) <=> s \in Range(unadds) \/ s \in Range(drops)
      BY <1>9
    <2> QED
      BY <1>7, <1>8, <2>1
  <1> QED
    BY <1>1, <1>9, <1>11, <1>12 DEF P, A, R, made

LEMMA GeneratedUnmade ==
    ASSUME DeclaredOK
    PROVE  Unmade(Generated.up, Generated.down)
  <1> DEFINE down == Generated.down
             P == Range(PendingModels)
             A == Range(Alters)
  <1>1. \A s : s \in Range(down) <=>
           \/ \E t \in A : \/ \E c \in Range(Added(t)) : s = Statement("drop column", t, {c})
                           \/ s \in DropStatements(t, Range(Added(t)))
           \/ \E t \in P : \/ s = Statement("drop table", t, {})
                           \/ s \in DropStatements(t, declared[t])
    BY DownGenerated
  <1>2. /\ \A t \in P \cup A : t \in ModelTables /\ declared[t] \in SUBSET ModelColumns
        /\ \A t : Range(Added(t)) \subseteq ModelColumns
    BY OrdersAre, AddedAre DEF Modelled
  <1>3. \A y : y \in Made(Generated.up) <=>
           \/ \E t \in P : y = Statement("create table", t, declared[t])
           \/ \E t \in A : \E c \in Range(Added(t)) : y = Statement("add column", t, {c})
    BY MadeAre
  <1> HIDE DEF down, P, A
  <1>4. ASSUME NEW t \in ModelTables, NEW c \in ModelColumns, NEW cols, c \in cols
        PROVE  /\ c \in Indexable(t) => Statement("drop index", t, {c}) \in DropStatements(t, cols)
               /\ c \in Searched => Statement("drop fts", t, {c}) \in DropStatements(t, cols)
    <2>1. /\ c \in Indexable(t) => Statement("drop index", t, {c}) \in DropStatements(t, {c})
          /\ c \in Searched => Statement("drop fts", t, {c}) \in DropStatements(t, {c})
      BY UnaddParts
    <2>2. \A s : s \in DropStatements(t, {c}) => s \in DropStatements(t, cols)
      BY <1>4, StatementsUnite
    <2> QED
      BY <2>1, <2>2
  <1>5. ASSUME NEW s \in Made(Generated.up), NEW c \in s.cols
        PROVE  /\ c \in Indexable(s.on) => Statement("drop index", s.on, {c}) \in Range(down)
               /\ c \in Searched => Statement("drop fts", s.on, {c}) \in Range(down)
    <2>1. CASE \E t \in P : s = Statement("create table", t, declared[t])
      <3>1. PICK t \in P : s = Statement("create table", t, declared[t])
        BY <2>1
      <3>2. s.on = t /\ s.cols = declared[t]
        BY <3>1 DEF Statement
      <3>3. /\ c \in Indexable(t) => Statement("drop index", t, {c}) \in DropStatements(t, declared[t])
            /\ c \in Searched => Statement("drop fts", t, {c}) \in DropStatements(t, declared[t])
        BY <1>2, <1>4, <3>2
      <3> QED
        BY <1>1, <3>2, <3>3
    <2>2. CASE \E t \in A : \E e \in Range(Added(t)) : s = Statement("add column", t, {e})
      <3>1. PICK t \in A : \E e \in Range(Added(t)) : s = Statement("add column", t, {e})
        BY <2>2
      <3>2. PICK e \in Range(Added(t)) : s = Statement("add column", t, {e})
        BY <3>1
      <3>3. s.on = t /\ s.cols = {e}
        BY <3>2 DEF Statement
      <3>4. c \in Range(Added(t))
        BY <3>3
      <3> DEFINE new == Range(Added(t))
      <3>5. /\ c \in Indexable(t) => Statement("drop index", t, {c}) \in DropStatements(t, new)
            /\ c \in Searched => Statement("drop fts", t, {c}) \in DropStatements(t, new)
        BY <1>2, <1>4, <3>4
      <3> QED
        BY <1>1, <3>3, <3>5
    <2> QED
      BY <1>3, <2>1, <2>2
  <1>6. ASSUME NEW s \in Range(down), s.op \in DropOps
        PROVE  Items("column", s.on, s.cols) \subseteq TakenBy(down)
    <2>0. \A t, cols : /\ Statement("drop column", t, cols).op \notin DropOps
                       /\ Statement("drop table", t, cols).op \notin DropOps
      BY DEF Statement, DropOps
    <2>1. CASE \E t \in A : s \in DropStatements(t, Range(Added(t)))
      <3>1. PICK t \in A : s \in DropStatements(t, Range(Added(t)))
        BY <2>1
      <3>2. PICK c \in Range(Added(t)) : s.on = t /\ s.cols = {c}
        BY <3>1 DEF DropStatements
      <3> DEFINE z == Statement("drop column", t, {c})
      <3>3. z \in Range(down) /\ z.op = "drop column" /\ z.on = t /\ z.cols = {c}
        BY <1>1 DEF Statement
      <3> HIDE DEF z
      <3>4. Takes(z) = Items("column", s.on, s.cols)
        BY <3>2, <3>3 DEF Takes
      <3> QED
        BY <3>3, <3>4 DEF TakenBy
    <2>2. CASE \E t \in P : s \in DropStatements(t, declared[t])
      <3>1. PICK t \in P : s \in DropStatements(t, declared[t])
        BY <2>2
      <3>2. s \in Statements /\ s.on = t
        BY <3>1 DEF DropStatements
      <3> DEFINE z == Statement("drop table", t, {})
      <3>3. z \in Range(down) /\ z.op = "drop table" /\ z.on = t
        BY <1>1 DEF Statement
      <3> HIDE DEF z
      <3>4. Takes(z) = {i \in Things : i[1] \in {"table", "column"} /\ i[2] = t}
        BY <3>3 DEF Takes
      <3>5. Items("column", s.on, s.cols) \subseteq Takes(z)
        BY <3>2, <3>4, StatementFacts, ColumnsOf
      <3> QED
        BY <3>3, <3>5 DEF TakenBy
    <2> QED
      BY <1>1, <1>6, <2>0, <2>1, <2>2
  <1> QED
    BY <1>5, <1>6 DEF Unmade, down

(* What makemigrations writes.                                             *)
LEMMA GeneratedDrafted ==
    ASSUME DeclaredOK
    PROVE  Drafted(Generated, KnownSchema)
  <1> DEFINE gen == Generated.up
             com == <<>>
  <1>1. /\ gen \in Seq(Statements) /\ InPlace(gen, {}, UpReady(KnownSchema)) /\ Provided(gen)
    BY UpGenerated, GeneratedProvides
  <1>2. com \in Seq(Statements) /\ Range(com) = {} /\ gen = gen \o com
    <2>1. com \in Seq(Statements) /\ Range(com) = {}
      BY OneIs
    <2> HIDE DEF gen
    <2> QED
      BY <1>1, <2>1
  <1> HIDE DEF com
  <1>3. UpDrafted(Generated, KnownSchema, gen, com)
    BY <1>1, <1>2 DEF UpDrafted, com
  <1>4. InPlace(Generated.down, {}, DownReady(Made(Generated.up), KnownSchema))
    BY DownGenerated
  <1>5. Unmade(Generated.up, Generated.down)
    BY GeneratedUnmade
  <1> QED
    BY <1>1, <1>2, <1>3, <1>4, <1>5 DEF Drafted

(* What the developer uncomments leaves it so.                             *)
LEMMA UncommentedDrafted ==
    ASSUME NEW f \in MigrationFiles, NEW known, GoodFile(f, known), Drafted(f, known),
           NEW g, g = Uncommented(f)
    PROVE  Drafted(g, known)
  <1>1. /\ f.up \in Seq(Statements) /\ f.comments \in Seq(Statements)
        /\ \A s \in Range(f.comments) : s.op = "drop column"
    BY DEF MigrationFiles, GoodFile
  <1>2. g.up = f.up \o f.comments /\ g.down = f.down /\ g.byHand = TRUE
    BY DEF Uncommented, MigrationFiles
  <1>3. PICK gen \in Seq(Statements), com \in Seq(Statements) : UpDrafted(f, known, gen, com)
    BY DEF Drafted
  <1>4. /\ f.up = gen \o com /\ \A s \in Range(com) : s.op = "drop column"
        /\ InPlace(gen, {}, UpReady(known)) /\ Provided(gen)
    BY <1>3 DEF UpDrafted
  <1>11. PICK notes \in Seq(Statements) : notes = f.comments
    BY <1>1
  <1>12. \A s \in Range(notes) : s.op = "drop column"
    BY <1>1, <1>11
  <1>13. PICK up \in Seq(Statements) : up = f.up
    BY <1>1
  <1>14. g.up = up \o notes /\ up = gen \o com
    BY <1>2, <1>4, <1>11, <1>13
  <1> DEFINE more == com \o notes
  <1>5. more \in Seq(Statements) /\ Range(more) = Range(com) \cup Range(notes)
    BY RangeCat
  <1>6. g.up = gen \o more
    <2>1. (gen \o com) \o notes = gen \o (com \o notes)
      BY CatTwice
    <2> QED
      BY ONLY <1>14, <2>1 DEF more
  <1> HIDE DEF more
  <1>7. UpDrafted(g, known, gen, more)
    BY <1>12, <1>2, <1>4, <1>5, <1>6 DEF UpDrafted
  <1>8. Made(g.up) = Made(f.up)
    <2>1. Range(up \o notes) = Range(up) \cup Range(notes)
      BY RangeCat
    <2>2. Range(g.up) = Range(f.up) \cup Range(notes)
      BY <1>13, <1>14, <2>1
    <2> QED
      BY <1>12, <2>2 DEF Made, NewOps
  <1>9. InPlace(f.down, {}, DownReady(Made(f.up), known)) /\ Unmade(f.up, f.down)
    BY DEF Drafted
  <1>10. Unmade(g.up, g.down)
    BY <1>2, <1>8, <1>9 DEF Unmade
  <1> QED
    BY <1>2, <1>5, <1>7, <1>8, <1>9, <1>10 DEF Drafted

-----------------------------------------------------------------------------
(* The inductive invariant of the files as they are applied and taken back.*)

(* A database that is the one a schema tells of, but for the columns that  *)
(* are gone: it has no table or column besides, the indexes of its columns *)
(* and no others, and every table that one of them refers to.              *)
AsRead(d, known, gone) ==
    /\ d \in SUBSET Things
    /\ TablesOf(d) \subseteq known /\ TablesOf(d) \ gone = known \ gone
    /\ Indexed(d) /\ Referred(d)

(* What applying a file has shown of it.                                   *)
Settled(f, known) == TargetsMet(f.up, known) /\ \A i \in DroppedIn(f.up) : Plain(i)

RowsInv ==
    /\ rowsOf \in [ModelTables -> Nat]
    /\ \A t \in ModelTables : Key(t) \notin stored => rowsOf[t] = 0

DraftsInv == \A k \in 1..Len(files) : Drafted(files[k], SchemaAt(files, k - 1))

HistoryInv ==
    /\ before \in Seq(SUBSET Things) /\ Len(before) = applied
    /\ \A i \in lost : Plain(i)
    /\ AsRead(stored, SchemaAt(files, applied), lost)
    /\ \A k \in 1..applied : /\ AsRead(before[k], SchemaAt(files, k - 1), lost)
                             /\ Settled(files[k], SchemaAt(files, k - 1))

StandInv == MakeInv /\ RowsInv /\ DraftsInv /\ HistoryInv

LEMMA AsReadStill ==
    ASSUME NEW d, NEW known, NEW gone, AsRead(d, known, gone), NEW more, gone \subseteq more
    PROVE  AsRead(d, known, more)
  BY DEF AsRead

LEMMA StandInvInit == MakeInit => StandInv
  <1> SUFFICES ASSUME MakeInit PROVE StandInv
    OBVIOUS
  <1>1. MakeInv
    BY MakeInvInit
  <1>2. files = <<>> /\ applied = 0 /\ before = <<>> /\ stored = {} /\ lost = {}
    BY DEF MakeInit
  <1>3. RowsInv
    BY DEF MakeInit, RowsInv
  <1>4. DraftsInv
    BY <1>2 DEF DraftsInv
  <1>5. files \in Seq(MigrationFiles) /\ SchemaAt(files, 0) = {}
    BY <1>1, SchemaAtIs DEF MakeInv, FilesInv
  <1>6. AsRead({}, {}, {})
    BY DEF AsRead, TablesOf, Indexed, Referred
  <1>7. HistoryInv
    <2>1. before \in Seq(SUBSET Things) /\ Len(before) = applied /\ 1..applied = {}
      BY <1>2
    <2> QED
      BY <1>2, <1>5, <1>6, <2>1 DEF HistoryInv
  <1> QED
    BY <1>1, <1>3, <1>4, <1>7 DEF StandInv

(* Files that agree up to the ones that are applied.                       *)
LEMMA HistoryKept ==
    ASSUME StandInv, files' \in Seq(MigrationFiles), UNCHANGED <<applied, stored, before, lost>>,
           applied <= Len(files'), Agree(files, files', applied)
    PROVE  HistoryInv'
  <1>1. applied \in Nat /\ applied <= Len(files) /\ files \in Seq(MigrationFiles)
    BY DEF StandInv, MakeInv, FilesInv
  <1>2. ASSUME NEW k \in 0..applied PROVE SchemaAt(files, k) = SchemaAt(files', k)
    <2>1. k \in Nat /\ k <= Len(files) /\ k <= Len(files') /\ Agree(files, files', k)
      BY <1>1 DEF Agree
    <2> QED
      BY <1>1, <2>1, SamePrefix
  <1>3. HistoryInv
    BY DEF StandInv
  <1>4. AsRead(stored, SchemaAt(files', applied), lost)
    <2>1. applied \in 0..applied
      BY <1>1
    <2> QED
      BY <1>2, <1>3, <2>1 DEF HistoryInv
  <1>5. ASSUME NEW k \in 1..applied
        PROVE  /\ AsRead(before[k], SchemaAt(files', k - 1), lost)
               /\ Settled(files'[k], SchemaAt(files', k - 1))
    <2>1. k - 1 \in 0..applied /\ files'[k] = files[k]
      BY <1>1 DEF Agree
    <2> QED
      BY <1>2, <1>3, <2>1 DEF HistoryInv
  <1>6. before' \in Seq(SUBSET Things) /\ Len(before') = applied' /\ \A i \in lost' : Plain(i)
    BY <1>3 DEF HistoryInv
  <1> QED
    BY <1>4, <1>5, <1>6 DEF HistoryInv

LEMMA WritingStands == StandInv /\ RunMakeMigrations => StandInv'
  <1> SUFFICES ASSUME StandInv, RunMakeMigrations PROVE StandInv'
    OBVIOUS
  <1> DEFINE n == Len(files)
             g == Generated
             fs == files'
  <1>1. MakeInv'
    BY WritingKeeps DEF StandInv
  <1>2. /\ files \in Seq(MigrationFiles) /\ n \in Nat /\ applied \in 0..n /\ DeclaredOK
        /\ \A k \in 1..n : Drafted(files[k], SchemaAt(files, k - 1))
    BY DEF StandInv, MakeInv, FilesInv, DraftsInv
  <1>3. fs = Append(files, g) /\ UNCHANGED <<applied, stored, rowsOf, before, lost>>
    BY DEF RunMakeMigrations
  <1>4. g \in MigrationFiles /\ Drafted(g, KnownSchema)
    BY <1>2, GeneratedIs, GeneratedDrafted
  <1>5. SchemaAt(files, n) = KnownSchema
    BY <1>2, SchemaAtIs DEF KnownSchema
  <1> HIDE DEF g, fs
  <1>6. fs \in Seq(MigrationFiles) /\ Len(fs) = n + 1 /\ fs[n + 1] = g
        /\ \A k \in 1..n : fs[k] = files[k]
    BY <1>2, <1>3, <1>4
  <1> HIDE DEF n
  <1>7. ASSUME NEW k \in 0..n PROVE SchemaAt(files, k) = SchemaAt(fs, k)
    <2>1. k \in Nat /\ k <= Len(files) /\ k <= Len(fs) /\ Agree(files, fs, k)
      BY <1>2, <1>6 DEF Agree, n
    <2> QED
      BY <1>2, <1>6, <2>1, SamePrefix
  <1>8. ASSUME NEW k \in 1..n + 1 PROVE Drafted(fs[k], SchemaAt(fs, k - 1))
    <2>1. k - 1 \in 0..n /\ SchemaAt(fs, k - 1) = SchemaAt(files, k - 1)
      BY <1>2, <1>7
    <2>2. CASE k = n + 1
      <3>1. k - 1 = n
        BY <1>2, <2>2
      <3>2. SchemaAt(fs, k - 1) = KnownSchema
        BY <1>5, <2>1, <3>1
      <3> QED
        BY <1>4, <1>6, <2>2, <3>2
    <2>3. CASE k # n + 1
      <3>1. k \in 1..n
        BY <1>2, <2>3
      <3> QED
        BY <1>2, <1>6, <2>1, <3>1
    <2> QED
      BY <2>2, <2>3
  <1>9. DraftsInv'
    BY <1>6, <1>8 DEF DraftsInv, fs
  <1>10. RowsInv'
    BY <1>3 DEF StandInv, RowsInv
  <1>11. HistoryInv'
    <2>1. applied <= Len(files') /\ Agree(files, files', applied)
      BY <1>2, <1>6 DEF Agree, fs
    <2> QED
      BY <1>3, <1>6, <2>1, HistoryKept DEF fs
  <1> QED
    BY <1>1, <1>9, <1>10, <1>11 DEF StandInv

LEMMA UncommentingStands == StandInv /\ Uncomment => StandInv'
  <1> SUFFICES ASSUME StandInv, Uncomment PROVE StandInv'
    OBVIOUS
  <1> DEFINE n == Len(files)
             f == files[n]
             g == Uncommented(f)
             fs == files'
  <1>1. MakeInv'
    BY UncommentingKeeps DEF StandInv
  <1>2. /\ files \in Seq(MigrationFiles) /\ n \in Nat /\ applied \in 0..n
        /\ \A k \in 1..n : GoodFile(files[k], SchemaAt(files, k - 1))
        /\ \A k \in 1..n : Drafted(files[k], SchemaAt(files, k - 1))
    BY DEF StandInv, MakeInv, FilesInv, DraftsInv
  <1>3. applied < n /\ fs = [files EXCEPT ![n] = g]
        /\ UNCHANGED <<applied, stored, rowsOf, before, lost>>
    <2>1. applied < n /\ UNCHANGED <<applied, stored, rowsOf, before, lost>>
      BY DEF Uncomment
    <2>2. fs = [files EXCEPT ![n] = g]
      BY DEF Uncomment
    <2> QED
      BY <2>1, <2>2
  <1>4. fs \in Seq(MigrationFiles)
    BY <1>1 DEF MakeInv, FilesInv
  <1>5. n \in 1..n /\ f \in MigrationFiles
    BY <1>2, <1>3
  <1>6. Drafted(g, SchemaAt(files, n - 1))
    <2>1. GoodFile(f, SchemaAt(files, n - 1)) /\ Drafted(f, SchemaAt(files, n - 1))
      BY <1>2, <1>5
    <2> HIDE DEF f
    <2> QED
      BY <1>5, <2>1, UncommentedDrafted
  <1> HIDE DEF f, g, fs
  <1>7. Len(fs) = n /\ fs[n] = g /\ \A k \in 1..n - 1 : fs[k] = files[k]
    <2>1. files \in [1..n -> MigrationFiles] /\ DOMAIN fs = 1..n
      BY <1>2, <1>3
    <2>2. fs[n] = g
      BY <1>3, <1>5, <2>1
    <2>3. n \in Nat
      BY <1>2
    <2>4. ASSUME NEW k \in 1..n - 1 PROVE fs[k] = files[k]
      <3>1. k \in 1..n /\ k # n
        BY <2>3
      <3> HIDE DEF n
      <3> QED
        BY <1>3, <2>1, <3>1
    <2>5. Len(fs) = n
      <3> HIDE DEF n
      <3> QED
        BY <1>4, <2>1, <2>3
    <2> QED
      BY <2>2, <2>4, <2>5
  <1> HIDE DEF n
  <1>8. ASSUME NEW k \in 0..n - 1 PROVE SchemaAt(files, k) = SchemaAt(fs, k)
    <2>1. k \in Nat /\ k <= Len(files) /\ k <= Len(fs) /\ Agree(files, fs, k)
      BY <1>2, <1>7 DEF Agree, n
    <2> QED
      BY <1>2, <1>4, <2>1, SamePrefix
  <1>9. ASSUME NEW k \in 1..n PROVE Drafted(fs[k], SchemaAt(fs, k - 1))
    <2>1. k - 1 \in 0..n - 1 /\ SchemaAt(files, k - 1) = SchemaAt(fs, k - 1)
      BY <1>2, <1>8
    <2>2. CASE k = n
      BY <1>6, <1>7, <2>1, <2>2
    <2>3. CASE k # n
      <3>1. k \in 1..n - 1
        BY <1>2, <2>3
      <3> QED
        BY <1>2, <1>7, <2>1, <3>1
    <2> QED
      BY <2>2, <2>3
  <1>10. DraftsInv'
    BY <1>7, <1>9 DEF DraftsInv, fs
  <1>11. RowsInv'
    BY <1>3 DEF StandInv, RowsInv
  <1>12. HistoryInv'
    <2>1. applied <= Len(files') /\ Agree(files, files', applied)
      BY <1>2, <1>3, <1>7 DEF Agree, fs
    <2> QED
      BY <1>3, <1>4, <2>1, HistoryKept DEF fs
  <1> QED
    BY <1>1, <1>10, <1>11, <1>12 DEF StandInv

LEMMA RowsStay ==
    ASSUME RowsInv, rowsOf' = RowsLeft(stored')
    PROVE  RowsInv'
  BY DEF RowsInv, RowsLeft

LEMMA ApplyingStands == StandInv /\ ApplyFile => StandInv'
  <1> SUFFICES ASSUME StandInv, ApplyFile PROVE StandInv'
    OBVIOUS
  <1> DEFINE n == Len(files)
             k == applied + 1
             f == files[k]
             known == SchemaAt(files, applied)
  <1>1. MakeInv'
    BY ApplyingKeeps DEF StandInv
  <1>2. /\ files \in Seq(MigrationFiles) /\ n \in Nat /\ applied \in 0..n
        /\ \A i \in 1..n : GoodFile(files[i], SchemaAt(files, i - 1))
        /\ \A i \in 1..n : Drafted(files[i], SchemaAt(files, i - 1))
    BY DEF StandInv, MakeInv, FilesInv, DraftsInv
  <1>3. /\ applied < n /\ stored' = Executed(f.up, stored) /\ stored' # Refused /\ applied' = k
        /\ before' = Append(before, stored) /\ rowsOf' = RowsLeft(stored')
        /\ UNCHANGED <<declared, files, lost>>
    BY DEF ApplyFile
  <1>4. /\ before \in Seq(SUBSET Things) /\ Len(before) = applied
        /\ \A i \in lost : Plain(i)
        /\ AsRead(stored, known, lost)
        /\ \A i \in 1..applied : /\ AsRead(before[i], SchemaAt(files, i - 1), lost)
                                 /\ Settled(files[i], SchemaAt(files, i - 1))
    BY DEF StandInv, HistoryInv
  <1>5. k \in 1..n /\ k - 1 = applied /\ f \in MigrationFiles
    BY <1>2, <1>3
  <1>6. known \in Sane /\ SchemaAt(files, k) = Read(f.up, known)
    BY <1>2, <1>5, SchemaAtIs
  <1>7. GoodFile(f, known) /\ Drafted(f, known)
    BY <1>2, <1>5
  <1>8. TablesOf(stored') \ lost = SchemaAt(files, k) \ lost
    BY <1>1, <1>3 DEF MakeInv, StoredInv
  <1>9. RowsInv' /\ DraftsInv'
    <2>1. RowsInv'
      BY <1>3, RowsStay DEF StandInv
    <2>2. DraftsInv'
      BY <1>3 DEF StandInv, DraftsInv
    <2> QED
      BY <2>1, <2>2
  <1> HIDE DEF n, k, f, known
  <1>10. AsRead(stored', SchemaAt(files, k), lost) /\ Settled(f, known)
    <2>1. stored \in SUBSET Things /\ TablesOf(stored) \subseteq known /\ Indexed(stored) /\ Referred(stored)
      BY <1>4 DEF AsRead
    <2>2. known \in Schemas /\ GoodUp(f.up, known) /\ Executed(f.up, stored) # Refused
      BY <1>3, <1>6, <1>7 DEF Sane, GoodFile
    <2> DEFINE e == Executed(f.up, stored)
    <2>3. /\ e \in SUBSET Things /\ TablesOf(e) \subseteq Read(f.up, known)
          /\ Indexed(e) /\ Referred(e)
          /\ TargetsMet(f.up, known) /\ \A i \in DroppedIn(f.up) : Plain(i)
      BY <1>5, <1>7, <2>1, <2>2, UpSettles
    <2>4. stored' = e
      BY <1>3
    <2> HIDE DEF e
    <2>5. AsRead(stored', SchemaAt(files, k), lost)
      BY <1>6, <1>8, <2>3, <2>4 DEF AsRead
    <2> QED
      BY <2>3, <2>5 DEF Settled
  <1>11. /\ before' \in Seq(SUBSET Things) /\ Len(before') = k /\ before'[k] = stored
         /\ \A i \in 1..applied : before'[i] = before[i]
    <2>1. stored \in SUBSET Things /\ applied \in Nat /\ k = applied + 1
      BY <1>2, <1>4 DEF AsRead, k
    <2> QED
      BY <1>3, <1>4, <2>1
  <1>12. ASSUME NEW i \in 1..k
         PROVE  /\ AsRead(before'[i], SchemaAt(files, i - 1), lost)
                /\ Settled(files[i], SchemaAt(files, i - 1))
    <2>1. CASE i = k
      <3>1. SchemaAt(files, i - 1) = known /\ files[i] = f
        BY <1>5, <2>1 DEF known, f
      <3> QED
        BY <1>4, <1>10, <1>11, <2>1, <3>1
    <2>2. CASE i # k
      <3>1. i \in 1..applied
        BY <1>2, <1>5, <2>2
      <3> QED
        BY <1>4, <1>11, <3>1
    <2> QED
      BY <2>1, <2>2
  <1>13. HistoryInv'
    BY <1>3, <1>4, <1>10, <1>11, <1>12 DEF HistoryInv
  <1> QED
    BY <1>1, <1>9, <1>13 DEF StandInv

LEMMA RemovingStands == StandInv /\ RemoveNewest => StandInv'
  <1> SUFFICES ASSUME StandInv, RemoveNewest PROVE StandInv'
    OBVIOUS
  <1> DEFINE n == Len(files)
             f == files[n]
             known == SchemaAt(files, n - 1)
             fs == files'
  <1>1. MakeInv'
    BY RemovingKeeps DEF StandInv
  <1>2. /\ files \in Seq(MigrationFiles) /\ n \in Nat /\ applied \in 0..n
        /\ \A i \in 1..n : GoodFile(files[i], SchemaAt(files, i - 1))
        /\ \A i \in 1..n : Drafted(files[i], SchemaAt(files, i - 1))
    BY DEF StandInv, MakeInv, FilesInv, DraftsInv
  <1>3. files # <<>> /\ fs = Front(files) /\ Last(files) = f
    BY DEF RemoveNewest, Last
  <1>4. n \in 1..n /\ f \in MigrationFiles
    BY <1>2, <1>3
  <1>5. fs \in Seq(MigrationFiles) /\ Len(fs) = n - 1 /\ \A i \in 1..n - 1 : fs[i] = files[i]
    <2>1. fs = SubSeq(files, 1, n - 1) /\ n - 1 \in 0..n
      BY <1>2, <1>3, <1>4 DEF Front
    <2> HIDE DEF fs
    <2>2. fs \in Seq(MigrationFiles) /\ Len(fs) = n - 1 /\ Agree(fs, files, n - 1)
      BY <1>2, <2>1, PrefixIs
    <2> QED
      BY <2>2 DEF Agree
  <1> HIDE DEF n, f, fs
  <1>6. ASSUME NEW i \in 0..n - 1 PROVE SchemaAt(files, i) = SchemaAt(fs, i)
    <2>1. i \in Nat /\ i <= Len(files) /\ i <= Len(fs) /\ Agree(files, fs, i)
      BY <1>2, <1>4, <1>5 DEF Agree, n
    <2> QED
      BY <1>2, <1>5, <2>1, SamePrefix
  <1>7. ASSUME NEW i \in 1..n - 1 PROVE Drafted(fs[i], SchemaAt(fs, i - 1))
    <2>1. i - 1 \in 0..n - 1 /\ i \in 1..n
      BY <1>2
    <2> QED
      BY <1>2, <1>5, <1>6, <2>1
  <1>8. DraftsInv'
    BY <1>5, <1>7 DEF DraftsInv, fs
  <1>9. CASE applied < n
    <2>1. UNCHANGED <<applied, stored, rowsOf, before, lost>>
      BY <1>9 DEF RemoveNewest, n
    <2>2. RowsInv'
      BY <2>1 DEF StandInv, RowsInv
    <2>3. applied <= Len(files') /\ Agree(files, files', applied)
      BY <1>2, <1>5, <1>9 DEF Agree, fs
    <2>4. HistoryInv'
      BY <1>5, <2>1, <2>3, HistoryKept DEF fs
    <2> QED
      BY <1>1, <1>8, <2>2, <2>4 DEF StandInv
  <1>10. CASE ~ (applied < n)
    <2>1. /\ stored' = Executed(f.down, stored) /\ stored' # Refused /\ applied' = applied - 1
          /\ before' = Front(before) /\ rowsOf' = RowsLeft(stored')
          /\ lost' = lost \cup DroppedIn(f.up)
      BY <1>3, <1>10 DEF RemoveNewest, n
    <2>2. applied = n /\ applied' = n - 1 /\ n - 1 \in 0..n - 1 /\ n - 1 \in 0..n
      BY <1>2, <1>4, <1>10, <2>1
    <2>3. RowsInv'
      BY <2>1, RowsStay DEF StandInv
    <2>4. /\ before \in Seq(SUBSET Things) /\ Len(before) = n
          /\ \A i \in lost : Plain(i)
          /\ AsRead(stored, SchemaAt(files, n), lost)
          /\ \A i \in 1..n : /\ AsRead(before[i], SchemaAt(files, i - 1), lost)
                             /\ Settled(files[i], SchemaAt(files, i - 1))
      BY <2>2 DEF StandInv, HistoryInv
    <2>5. known \in Sane /\ SchemaAt(files, n) = Read(f.up, known)
      BY <1>2, <1>4, <2>2, SchemaAtIs DEF n, f
    <2>6. GoodFile(f, known) /\ Drafted(f, known) /\ Settled(f, known)
      BY <1>2, <1>4, <2>4 DEF f
    <2>7. known = SchemaAt(fs, n - 1)
      BY <1>6, <2>2
    <2>8. TablesOf(stored') \ lost' = known \ lost'
      BY <1>1, <2>2, <2>7 DEF MakeInv, StoredInv, fs
    <2> HIDE DEF known
    <2>9. AsRead(stored', known, lost')
      <3>1. /\ stored \in SUBSET Things /\ TablesOf(stored) \subseteq Read(f.up, known)
            /\ Indexed(stored) /\ Referred(stored)
        BY <2>4, <2>5 DEF AsRead
      <3>2. Executed(f.down, stored) # Refused /\ Unmade(f.up, f.down)
        BY <2>1, <2>6 DEF Drafted
      <3> DEFINE e == Executed(f.down, stored)
      <3>3. e \in SUBSET Things /\ TablesOf(e) \subseteq known /\ Indexed(e) /\ Referred(e)
        BY <1>4, <2>5, <2>6, <3>1, <3>2, DownSettles
      <3>4. stored' = e
        BY <2>1
      <3> HIDE DEF e
      <3> QED
        BY <2>8, <3>3, <3>4 DEF AsRead
    <2>10. \A i \in lost' : Plain(i)
      BY <2>1, <2>4, <2>6 DEF Settled
    <2>11. /\ before' \in Seq(SUBSET Things) /\ Len(before') = n - 1
           /\ \A i \in 1..n - 1 : before'[i] = before[i]
      <3>1. before' = SubSeq(before, 1, n - 1)
        BY <2>1, <2>4 DEF Front
      <3> QED
        BY <1>2, <2>2, <2>4, <3>1
    <2>12. ASSUME NEW i \in 1..n - 1
           PROVE  /\ AsRead(before'[i], SchemaAt(fs, i - 1), lost')
                  /\ Settled(fs[i], SchemaAt(fs, i - 1))
      <3>1. i \in 1..n /\ i - 1 \in 0..n - 1
        BY <1>2
      <3>2. AsRead(before[i], SchemaAt(files, i - 1), lost) /\ Settled(files[i], SchemaAt(files, i - 1))
        BY <2>4, <3>1
      <3>3. lost \subseteq lost'
        BY <2>1
      <3>4. AsRead(before[i], SchemaAt(files, i - 1), lost')
        BY <3>2, <3>3, AsReadStill
      <3> QED
        BY <1>5, <1>6, <2>11, <3>1, <3>2, <3>4
    <2>13. HistoryInv'
      BY <2>2, <2>7, <2>9, <2>10, <2>11, <2>12 DEF HistoryInv, fs
    <2> QED
      BY <1>1, <1>8, <2>3, <2>13 DEF StandInv
  <1> QED
    BY <1>9, <1>10

LEMMA StandInvNext == StandInv /\ [MakeNext]_makeVars => StandInv'
  <1> SUFFICES ASSUME StandInv, [MakeNext]_makeVars PROVE StandInv'
    OBVIOUS
  <1>1. MakeInv'
    BY MakeInvNext DEF StandInv
  <1>2. ASSUME UNCHANGED <<files, applied, stored, before, lost>>
        PROVE  DraftsInv' /\ HistoryInv'
    BY <1>2 DEF StandInv, DraftsInv, HistoryInv
  <1>3. CASE Edit
    <2>1. UNCHANGED <<files, applied, stored, rowsOf, before, lost>>
      BY <1>3 DEF Edit
    <2> QED
      BY <1>1, <1>2, <2>1 DEF StandInv, RowsInv
  <1>4. ASSUME NEW t \in ModelTables, InsertRow(t) PROVE StandInv'
    <2>1. /\ Key(t) \in stored /\ rowsOf' = [rowsOf EXCEPT ![t] = @ + 1]
          /\ UNCHANGED <<files, applied, stored, before, lost>>
      BY <1>4 DEF InsertRow
    <2>2. RowsInv'
      BY <2>1 DEF StandInv, RowsInv
    <2> QED
      BY <1>1, <1>2, <2>1, <2>2 DEF StandInv
  <1>5. CASE UNCHANGED makeVars
    <2>1. UNCHANGED <<files, applied, stored, rowsOf, before, lost>>
      BY <1>5 DEF makeVars
    <2> QED
      BY <1>1, <1>2, <2>1 DEF StandInv, RowsInv
  <1>6. CASE RunMakeMigrations
    BY <1>6, WritingStands
  <1>7. CASE Uncomment
    BY <1>7, UncommentingStands
  <1>8. CASE ApplyFile
    BY <1>8, ApplyingStands
  <1>9. CASE RemoveNewest
    BY <1>9, RemovingStands
  <1> QED
    BY <1>3, <1>4, <1>5, <1>6, <1>7, <1>8, <1>9 DEF MakeNext

(* What has been applied was not applied to MySQL.                         *)
MigratedInv == applied > 0 => Migrates

LEMMA MigratedInvNext == StandInv /\ MigratedInv /\ [MakeNext]_makeVars => MigratedInv'
  <1> SUFFICES ASSUME StandInv, MigratedInv, [MakeNext]_makeVars PROVE MigratedInv'
    OBVIOUS
  <1>1. applied \in Int /\ driver' = driver
    BY DEF StandInv, MakeInv, FilesInv, MakeNext, makeVars
  <1>2. CASE ApplyFile
    BY <1>1, <1>2 DEF ApplyFile, MigratedInv, Migrates
  <1>3. CASE applied' = applied \/ applied' = applied - 1
    BY <1>1, <1>3 DEF MigratedInv, Migrates
  <1> QED
    BY <1>2, <1>3 DEF MakeNext, makeVars, Edit, RunMakeMigrations, Uncomment, RemoveNewest, InsertRow

(* However structs are edited, and files generated, edited as their        *)
(* comments invite, applied and taken back: the database accepts the next  *)
(* file that migGenerateSQL wrote, but for what its developer is told to   *)
(* see to, the triggers of a searched column on SQLite and whatever there  *)
(* is on MySQL; and the section down of the newest one, left as it was     *)
(* written, is accepted and leaves what there was before the file, tables, *)
(* columns and indexes.  For any tables, columns, indexes and references   *)
(* (makemigrations.go:264-426, migrate.go:131-215).                        *)
THEOREM GeneratedFilesStand == MakeSpec => []GeneratedFilesWork
  <1>1. StandInv => GeneratedFilesApply
    <2> SUFFICES ASSUME StandInv, applied < Len(files)
                 PROVE  LET file == files[applied + 1]
                        IN  \/ file.byHand \/ ReferredLater(file) \/ RowsUnsuited(file)
                            \/ NotUnderstood(file)
                            \/ Executed(file.up, stored) # Refused
      BY DEF GeneratedFilesApply
    <2> DEFINE k == applied + 1
               f == files[k]
               known == SchemaAt(files, applied)
    <2>1. /\ files \in Seq(MigrationFiles) /\ Len(files) \in Nat /\ applied \in 0..Len(files)
          /\ \A i \in 1..Len(files) : /\ GoodFile(files[i], SchemaAt(files, i - 1))
                                      /\ Drafted(files[i], SchemaAt(files, i - 1))
      BY DEF StandInv, MakeInv, FilesInv, DraftsInv
    <2>2. k \in 1..Len(files) /\ k - 1 = applied /\ f \in MigrationFiles
      BY <2>1
    <2>3. known \in Sane
      BY <2>1, SchemaAtIs
    <2>4. GoodFile(f, known) /\ Drafted(f, known)
      BY <2>1, <2>2
    <2> HIDE DEF f, known
    <2>5. /\ stored \in SUBSET Things /\ TablesOf(stored) \subseteq known
          /\ TablesOf(stored) \ lost = known \ lost
      BY DEF StandInv, HistoryInv, AsRead, known
    <2>6. /\ \A i \in lost : i[1] = "column"
          /\ rowsOf \in [ModelTables -> Nat]
          /\ \A t \in ModelTables : Key(t) \notin stored => rowsOf[t] = 0
      BY DEF StandInv, MakeInv, StoredInv, RowsInv
    <2>7. \/ f.byHand \/ ReferredLater(f) \/ RowsUnsuited(f) \/ NotUnderstood(f)
          \/ Executed(f.up, stored) # Refused
      BY <2>2, <2>3, <2>4, <2>5, <2>6, UpAccepted
    <2> QED
      BY <2>7 DEF f
  <1>2. StandInv /\ MigratedInv => DownUndoesUp
    <2> DEFINE n == Len(files)
               f == files[n]
               b == before[n]
               known == SchemaAt(files, n - 1)
    <2> SUFFICES ASSUME StandInv, Migrates, applied = n, n > 0, ~f.byHand,
                        DroppedIn(f.down) \cap lost = {}
                 PROVE  Executed(f.down, stored) \ lost = b \ lost
      <3>1. Last(files) = f
        BY DEF Last
      <3>2. StandInv /\ applied = n => Last(before) = b
        BY DEF Last, StandInv, HistoryInv
      <3> HIDE DEF n, f, b, known
      <3> QED
        BY <3>1, <3>2 DEF DownUndoesUp, MigratedInv, n
    <2>1. /\ files \in Seq(MigrationFiles) /\ n \in Nat /\ n \in 1..n /\ n \in 0..n /\ n - 1 \in 0..n
          /\ \A i \in 1..n : /\ GoodFile(files[i], SchemaAt(files, i - 1))
                             /\ Drafted(files[i], SchemaAt(files, i - 1))
      BY DEF StandInv, MakeInv, FilesInv, DraftsInv
    <2>2. known \in Sane /\ SchemaAt(files, n) = Read(f.up, known)
      BY <2>1, SchemaAtIs
    <2>3. f \in MigrationFiles /\ GoodFile(f, known) /\ Drafted(f, known)
      BY <2>1
    <2>4. /\ AsRead(stored, SchemaAt(files, n), lost)
          /\ AsRead(b, known, lost) /\ Settled(f, known)
          /\ \A i \in lost : i[1] = "column" /\ Plain(i)
      BY <2>1 DEF StandInv, MakeInv, StoredInv, HistoryInv
    <2> HIDE DEF n, f, b, known
    <2>5. /\ b \in SUBSET Things /\ stored \in SUBSET Things
          /\ Referred(stored) /\ TargetsMet(f.up, known)
      BY <2>4 DEF AsRead, Settled
    <2>6. Undoing(f, known, b, stored)
      BY <2>2, <2>4 DEF Undoing, AsRead
    <2> QED
      BY <2>2, <2>3, <2>5, <2>6, DownRestores
  <1>3. StandInv /\ MigratedInv => GeneratedFilesWork
    BY <1>1, <1>2 DEF GeneratedFilesWork
  <1>4. MakeInit => MigratedInv
    BY DEF MakeInit, MigratedInv
  <1> QED
    BY <1>3, <1>4, StandInvInit, StandInvNext, MigratedInvNext, PTL DEF MakeSpec
=============================================================================
