---------------------------- MODULE MigrationsProofs ----------------------------
(* For any number of processes that migrate, serve, click and die: what is   *)
(* recorded as applied is in the file, a process that serves finds all of    *)
(* it, and the totals count every event.                                     *)
EXTENDS Migrations, FiniteSetTheorems, TLAPS

Place == [at : {"down", "migrating", "up"}, todo : SUBSET Scripts, done : Int,
          row : Scripts \cup {0}, counting : BOOLEAN]

\* Where a process may be, and what it has seen to be in the file.
ProcessOK(p) ==
    /\ st[p] \in Place
    /\ st[p].at # "migrating" => st[p].todo = {} /\ st[p].row = 0
    /\ st[p].counting => p \in Rss /\ st[p].at = "up"
    /\ st[p].at # "down" => \A s \in Scripts \ st[p].todo : Made(s) \subseteq schema
    /\ st[p].todo # {} => \A n \in DOMAIN Statements[Now(p)] :
                              n <= st[p].done => Statements[Now(p)][n] \in schema
    /\ st[p].row # 0 => Made(st[p].row) \subseteq schema

SchemaInv ==
    /\ DOMAIN st = Starters
    /\ applied \subseteq Scripts /\ schema \subseteq Everything
    /\ \A s \in applied : Made(s) \subseteq schema
    /\ \A p \in Starters : ProcessOK(p)

-------------------------------------------------------------------------------
(* The scripts *)

LEMMA ScriptFacts ==
    /\ Scripts = {1, 2, 3}
    /\ \A s \in Scripts : /\ DOMAIN Statements[s] = 1..Len(Statements[s])
                          /\ Len(Statements[s]) \in Nat
                          /\ Made(s) \subseteq Everything
                          /\ \A n \in 1..Len(Statements[s]) : Statements[s][n] \in Made(s)
  <1>1. Scripts = {1, 2, 3}
    BY DEF Scripts
  <1>2. \A s \in Scripts : DOMAIN Statements[s] = 1..Len(Statements[s]) /\ Len(Statements[s]) \in Nat
    BY <1>1 DEF Statements
  <1> QED
    BY <1>1, <1>2 DEF Made, Everything

LEMMA LeastFacts ==
    ASSUME NEW T \in SUBSET Scripts, T # {}
    PROVE  (CHOOSE s \in T : \A u \in T : s <= u) \in T
  <1>1. \A u \in T : u = 1 \/ u = 2 \/ u = 3
    BY DEF Scripts
  <1>2. CASE 1 \in T
    BY <1>1, <1>2
  <1>3. CASE 1 \notin T /\ 2 \in T
    BY <1>1, <1>3
  <1>4. CASE 1 \notin T /\ 2 \notin T
    BY <1>1, <1>4
  <1> QED
    BY <1>2, <1>3, <1>4

LEMMA NowFacts ==
    ASSUME NEW p, st[p].todo \in SUBSET Scripts, st[p].todo # {}
    PROVE  Now(p) \in st[p].todo /\ Now(p) \in Scripts
  BY LeastFacts DEF Now

-------------------------------------------------------------------------------
(* The file *)

LEMMA DownPlace == /\ Down \in Place /\ Down.at = "down" /\ Down.todo = {} /\ Down.row = 0
                   /\ Down.counting = FALSE
  BY DEF Down, Place

LEMMA UpPlace ==
    ASSUME NEW b \in BOOLEAN, NEW r, r = Up(b)
    PROVE  r \in Place /\ r.at = "up" /\ r.todo = {} /\ r.row = 0 /\ r.counting = b
  BY DEF Up, Place

LEMMA Elsewhere ==
    ASSUME SchemaInv, schema \subseteq schema', NEW q \in Starters, st'[q] = st[q]
    PROVE  ProcessOK(q)'
  BY DEF SchemaInv, ProcessOK, Now

\* A step of process p, which leaves the others where they are.
LEMMA OneMoves ==
    ASSUME SchemaInv, NEW p \in Starters, NEW r, st' = [st EXCEPT ![p] = r],
           schema \subseteq schema', schema' \subseteq Everything,
           applied' \subseteq Scripts, \A s \in applied' : Made(s) \subseteq schema',
           ProcessOK(p)'
    PROVE  SchemaInv'
  <1>1. \A q \in Starters : q # p => st'[q] = st[q]
    BY DEF SchemaInv
  <1> QED
    BY <1>1, Elsewhere DEF SchemaInv

LEMMA BackDown ==
    ASSUME SchemaInv, NEW p \in Starters, st' = [st EXCEPT ![p] = Down],
           UNCHANGED <<schema, applied>>
    PROVE  SchemaInv'
  <1>1. st'[p] = Down
    BY DEF SchemaInv
  <1>2. ProcessOK(p)'
    BY <1>1, DownPlace DEF ProcessOK
  <1> QED
    BY <1>2, OneMoves DEF SchemaInv

\* Process p looks at the first of the scripts left to it, of which it has run
\* nothing.
LEMMA Looks ==
    ASSUME SchemaInv, NEW p \in Starters, NEW T \in SUBSET Scripts, NEW n \in {-1, 0},
           NEW w \in Scripts \cup {0}, st' = [st EXCEPT ![p] = Migrating(T, n, w)],
           schema' = schema,
           applied' \subseteq Scripts, \A s \in applied' : Made(s) \subseteq schema,
           \A s \in Scripts \ T : Made(s) \subseteq schema,
           w # 0 => Made(w) \subseteq schema
    PROVE  SchemaInv'
  <1>1. st'[p] = Migrating(T, n, w)
    BY DEF SchemaInv
  <1>2. /\ st'[p] \in Place /\ st'[p].at = "migrating" /\ st'[p].todo = T /\ st'[p].done = n
        /\ st'[p].row = w /\ st'[p].counting = FALSE
    <2>1. n \in Int
      OBVIOUS
    <2>2. Migrating(T, n, w) \in Place
      BY <2>1 DEF Migrating, Place
    <2> QED
      BY <1>1, <2>2 DEF Migrating
  <1>3. T # {} => \A i \in DOMAIN Statements[Now(p)'] : ~(i <= n)
    <2>1. SUFFICES ASSUME T # {} PROVE Now(p)' \in Scripts
      BY ScriptFacts
    <2> QED
      BY <1>2, <2>1, LeastFacts DEF Now
  <1>4. ProcessOK(p)'
    BY <1>2, <1>3 DEF ProcessOK
  <1> QED
    BY <1>4, OneMoves DEF SchemaInv

LEMMA BeginKeeps == ASSUME SchemaInv, NEW p \in Starters, Begin(p) PROVE SchemaInv'
  <1>1. /\ NotApplied \in SUBSET Scripts
        /\ \A s \in Scripts \ NotApplied : Made(s) \subseteq schema
    BY DEF NotApplied, SchemaInv
  <1>2. CASE p \in Pys
    BY <1>1, <1>2, Looks DEF Begin, SchemaInv
  <1>3. CASE p \notin Pys
    BY <1>3, Looks DEF Begin, SchemaInv
  <1> QED
    BY <1>2, <1>3

LEMMA AskKeeps == ASSUME SchemaInv, NEW p \in Starters, Ask(p) PROVE SchemaInv'
  <1>1. ProcessOK(p) /\ UNCHANGED <<schema, applied>> /\ st[p].todo # {}
    BY DEF SchemaInv, Ask
  <1>2. /\ st[p].at = "migrating" /\ st[p].todo \in SUBSET Scripts /\ Left(p) \in SUBSET Scripts
        /\ \A s \in Scripts \ st[p].todo : Made(s) \subseteq schema
    BY <1>1 DEF ProcessOK, Place, Left
  <1>3. CASE Now(p) \in applied
    <2>1. \A s \in Scripts \ Left(p) : Made(s) \subseteq schema
      BY <1>2, <1>3 DEF Left, SchemaInv
    <2>2. st' = [st EXCEPT ![p] = Migrating(Left(p), -1, 0)]
      BY <1>3 DEF Ask
    <2> QED
      BY <1>1, <1>2, <2>1, <2>2, Looks DEF SchemaInv
  <1>4. CASE Now(p) \notin applied
    <2>1. st' = [st EXCEPT ![p] = Migrating(st[p].todo, 0, 0)]
      BY <1>4 DEF Ask
    <2> QED
      BY <1>1, <1>2, <2>1, Looks DEF SchemaInv
  <1> QED
    BY <1>3, <1>4

LEMMA ExecuteKeeps == ASSUME SchemaInv, NEW p \in Starters, Execute(p) PROVE SchemaInv'
  <1> DEFINE k == st[p].done
             ran == Statements[Now(p)]
  <1>1. ProcessOK(p) /\ st[p].todo # {} /\ st[p].todo \in SUBSET Scripts
    BY DEF SchemaInv, Execute, Running, ProcessOK, Place
  <1>2. Now(p) \in Scripts
    BY <1>1, NowFacts
  <1>3. k \in 0..(Len(ran) - 1) /\ Len(ran) \in Nat /\ DOMAIN ran = 1..Len(ran)
    BY <1>2, ScriptFacts DEF Execute, Running
  <1>4. k + 1 \in 1..Len(ran) /\ k + 1 \in Int
    BY <1>3
  <1>5. Statement(p) = ran[k + 1] /\ Statement(p) \in Everything
    BY <1>2, <1>4, ScriptFacts DEF Statement
  <1>6. \A n \in DOMAIN ran : n <= k + 1 => n <= k \/ n = k + 1
    BY <1>3, <1>4
  <1>7. \A n \in DOMAIN ran : n <= k => ran[n] \in schema
    BY <1>1 DEF ProcessOK
  <1>8. schema' = schema \cup {Statement(p)} /\ applied' = applied
    BY DEF Execute
  <1>9. \A n \in DOMAIN ran : n <= k + 1 => ran[n] \in schema'
    BY <1>5, <1>6, <1>7, <1>8
  <1>10. /\ st' = [st EXCEPT ![p] = Migrating(st[p].todo, k + 1, 0)]
         /\ st'[p] = Migrating(st[p].todo, k + 1, 0)
    BY DEF Execute, SchemaInv
  <1>11. /\ st'[p] \in Place /\ st'[p].at = "migrating" /\ st'[p].todo = st[p].todo
         /\ st'[p].done = k + 1 /\ st'[p].row = 0 /\ st'[p].counting = FALSE
    BY <1>1, <1>4, <1>10 DEF Migrating, Place
  <1>12. Now(p)' = Now(p)
    BY <1>11 DEF Now
  <1>13. st[p].at # "down"
    BY <1>1 DEF ProcessOK
  <1>14. ProcessOK(p)'
    BY <1>1, <1>8, <1>9, <1>11, <1>12, <1>13 DEF ProcessOK
  <1>15. schema' \subseteq Everything
    BY <1>5, <1>8 DEF SchemaInv
  <1> QED
    BY <1>8, <1>10, <1>14, <1>15, OneMoves DEF SchemaInv

LEMMA RecordKeeps == ASSUME SchemaInv, NEW p \in Starters, Record(p) PROVE SchemaInv'
  <1>1. /\ ProcessOK(p) /\ st[p].todo # {} /\ st[p].todo \in SUBSET Scripts
        /\ schema' = schema /\ st[p].at # "down"
    BY DEF SchemaInv, Record, Ran, ProcessOK, Place
  <1>2. Now(p) \in Scripts /\ Left(p) \in SUBSET Scripts
    BY <1>1, NowFacts DEF Left
  <1>3. Made(Now(p)) \subseteq schema
    <2>1. st[p].done = Len(Statements[Now(p)])
      BY DEF Record, Ran
    <2> QED
      BY <1>1, <1>2, <2>1, ScriptFacts DEF ProcessOK, Made
  <1>4. \A s \in Scripts \ Left(p) : Made(s) \subseteq schema
    BY <1>1, <1>3 DEF Left, ProcessOK
  <1>5. CASE Now(p) \in applied
    BY <1>1, <1>5, BackDown DEF Record
  <1>6. CASE Now(p) \notin applied /\ p \in Pys
    <2>1. st' = [st EXCEPT ![p] = Migrating(Left(p), 0, Now(p))] /\ applied' = applied
      BY <1>6 DEF Record
    <2> QED
      BY <1>1, <1>2, <1>3, <1>4, <2>1, Looks DEF SchemaInv
  <1>7. CASE Now(p) \notin applied /\ p \notin Pys
    <2>1. st' = [st EXCEPT ![p] = Migrating(Left(p), -1, 0)] /\ applied' = applied \cup {Now(p)}
      BY <1>7 DEF Record
    <2> QED
      BY <1>1, <1>2, <1>3, <1>4, <2>1, Looks DEF SchemaInv
  <1> QED
    BY <1>5, <1>6, <1>7

LEMMA CommitKeeps == ASSUME SchemaInv, NEW p \in Starters, Commit(p) PROVE SchemaInv'
  <1>1. /\ ProcessOK(p) /\ st[p].todo \in SUBSET Scripts /\ st[p].done \in Int
        /\ st[p].row \in Scripts /\ schema' = schema /\ applied' = applied \cup {st[p].row}
    BY DEF SchemaInv, Commit, Row, ProcessOK, Place
  <1>2. st[p].at # "down" /\ Made(st[p].row) \subseteq schema
    BY <1>1, ScriptFacts DEF ProcessOK
  <1>3. /\ st' = [st EXCEPT ![p] = Migrating(st[p].todo, st[p].done, 0)]
        /\ st'[p] = Migrating(st[p].todo, st[p].done, 0)
    BY DEF Commit, SchemaInv
  <1>4. /\ st'[p] \in Place /\ st'[p].at = "migrating" /\ st'[p].todo = st[p].todo
        /\ st'[p].done = st[p].done /\ st'[p].row = 0 /\ st'[p].counting = FALSE
    <2>1. Migrating(st[p].todo, st[p].done, 0) \in Place
      BY <1>1 DEF Migrating, Place
    <2> QED
      BY <1>3, <2>1 DEF Migrating
  <1>5. Now(p)' = Now(p)
    BY <1>4 DEF Now
  <1>6. ProcessOK(p)'
    BY <1>1, <1>2, <1>4, <1>5 DEF ProcessOK
  <1> QED
    BY <1>1, <1>2, <1>3, <1>6, OneMoves DEF SchemaInv

LEMMA UpKeeps ==
    ASSUME SchemaInv, NEW p \in Starters, NEW b \in BOOLEAN, st' = [st EXCEPT ![p] = Up(b)],
           UNCHANGED <<schema, applied>>, st[p].at # "down", st[p].todo = {},
           b => p \in Rss
    PROVE  SchemaInv'
  <1>1. st'[p] = Up(b)
    BY DEF SchemaInv
  <1>2. st'[p] \in Place /\ st'[p].at = "up" /\ st'[p].todo = {} /\ st'[p].row = 0 /\ st'[p].counting = b
    BY <1>1, UpPlace
  <1>3. \A s \in Scripts : Made(s) \subseteq schema
    BY DEF SchemaInv, ProcessOK
  <1>4. ProcessOK(p)'
    BY <1>2, <1>3 DEF ProcessOK
  <1> QED
    BY <1>4, OneMoves DEF SchemaInv

LEMMA SchemaStep == ASSUME SchemaInv, [Next]_vars PROVE SchemaInv'
  <1>1. CASE UNCHANGED <<schema, applied, st>>
    BY <1>1 DEF SchemaInv, ProcessOK, Place, Now
  <1>2. ASSUME NEW p \in Starters, Starting(p) PROVE SchemaInv'
    <2>1. CASE DuplicateColumn(p)
      BY <2>1, BackDown DEF DuplicateColumn
    <2>2. CASE Serve(p)
      BY <2>2, UpKeeps DEF Serve
    <2> QED
      BY <1>2, <2>1, <2>2, BeginKeeps, AskKeeps, ExecuteKeeps, RecordKeeps, CommitKeeps
         DEF Starting
  <1>3. ASSUME NEW p \in Starters, RsClick(p) PROVE SchemaInv'
    <2>1. st[p].todo = {} /\ st[p].counting \in BOOLEAN
      BY <1>3 DEF RsClick, SchemaInv, ProcessOK, Place
    <2> QED
      BY <1>3, <2>1, UpKeeps DEF RsClick
  <1>4. ASSUME NEW p \in Starters, Crash(p) PROVE SchemaInv'
    BY <1>4, BackDown DEF Crash
  <1> QED
    BY <1>1, <1>2, <1>3, <1>4 DEF Next, PyClick, OldClick, OldStops, vars

LEMMA SchemaInit == Init => SchemaInv
  <1> SUFFICES ASSUME Init PROVE SchemaInv
    OBVIOUS
  <1>1. PICK n \in 0..2 : applied = 1..n /\ schema = UNION {Made(s) : s \in 1..n}
    BY DEF Init
  <1>2. 1..n \subseteq Scripts
    BY DEF Scripts
  <1>3. \A p \in Starters : ProcessOK(p)
    BY DownPlace DEF Init, ProcessOK
  <1>4. DOMAIN st = Starters
    BY DEF Init
  <1> QED
    BY <1>1, <1>2, <1>3, <1>4, ScriptFacts DEF SchemaInv

LEMMA SchemaAlways == Spec => []SchemaInv
  BY SchemaInit, SchemaStep, PTL DEF Spec

\* However many processes migrate at once and wherever they die, what
\* schema_migrations records has been done, and whoever serves requests finds
\* every table and column (persistence.py:41, db.rs:61).
THEOREM ServesMigrated == Spec => []ServesOnlyMigrated
  <1>1. SchemaInv => ServesOnlyMigrated
    BY DEF SchemaInv, ProcessOK, ServesOnlyMigrated, Everything
  <1> QED
    BY <1>1, SchemaAlways, PTL

-------------------------------------------------------------------------------
(* The totals *)

Counting == {p \in Rss : st[p].counting}

CountInv == /\ SchemaInv /\ TotalsCountEvents
            /\ events \in Nat /\ totals \in Nat /\ unseen \in Nat /\ twice \in Nat

LEMMA CountingFinite == IsFiniteSet(Counting) /\ Cardinality(Counting) \in Nat
  <1>1. Counting \in SUBSET Rss
    BY DEF Counting
  <1> QED
    BY <1>1, RssAssumption, FS_Subset, FS_CardinalityType

\* Process p moves from a place where it counts no click to another one.
LEMMA NoneCounting ==
    ASSUME SchemaInv, NEW p \in Starters, NEW r, st' = [st EXCEPT ![p] = r],
           ~st[p].counting, ~r.counting
    PROVE  Counting' = Counting
  BY DEF SchemaInv, Starters, Counting

LEMMA StartsCounting ==
    ASSUME SchemaInv, NEW p \in Rss, NEW r, st' = [st EXCEPT ![p] = r],
           ~st[p].counting, r.counting
    PROVE  Counting' = Counting \cup {p} /\ p \notin Counting
  BY DEF SchemaInv, Starters, Counting

LEMMA StopsCounting ==
    ASSUME SchemaInv, NEW p \in Rss, NEW r, st' = [st EXCEPT ![p] = r],
           st[p].counting, ~r.counting
    PROVE  Counting' = Counting \ {p} /\ p \in Counting
  BY DEF SchemaInv, Starters, Counting

LEMMA QuietStart ==
    ASSUME SchemaInv, NEW p \in Starters, Starting(p)
    PROVE  Counting' = Counting
  <1>1. st[p].at # "up" => ~st[p].counting
    BY DEF SchemaInv, ProcessOK
  <1>2. st[p].todo # {} \/ Row(p) # 0 => st[p].at # "up"
    BY DEF SchemaInv, ProcessOK, Row
  <1>3. \A T, n, w : ~Migrating(T, n, w).counting
    BY DEF Migrating
  <1>4. ~Down.counting /\ ~Up(FALSE).counting
    BY DEF Down, Up
  <1>5. CASE Begin(p)
    BY <1>1, <1>3, <1>5, NoneCounting DEF Begin
  <1>6. CASE Ask(p)
    BY <1>1, <1>2, <1>3, <1>6, NoneCounting DEF Ask
  <1>7. CASE Execute(p)
    BY <1>1, <1>2, <1>3, <1>7, NoneCounting DEF Execute, Running
  <1>8. CASE DuplicateColumn(p)
    BY <1>1, <1>2, <1>4, <1>8, NoneCounting DEF DuplicateColumn, Running
  <1>9. CASE Record(p)
    BY <1>1, <1>2, <1>3, <1>4, <1>9, NoneCounting DEF Record, Ran
  <1>10. CASE Commit(p)
    BY <1>1, <1>2, <1>3, <1>10, NoneCounting DEF Commit
  <1>11. CASE Serve(p)
    BY <1>1, <1>4, <1>11, NoneCounting DEF Serve
  <1> QED
    BY <1>5, <1>6, <1>7, <1>8, <1>9, <1>10, <1>11 DEF Starting

LEMMA CountStep == ASSUME CountInv, [Next]_vars PROVE CountInv'
  <1> DEFINE n == Cardinality(Counting)
             m == Cardinality(Counting')
  <1>1. SchemaInv /\ SchemaInv'
    BY SchemaStep DEF CountInv
  <1>2. /\ totals + unseen + n = events + twice /\ n \in Nat
        /\ events \in Nat /\ totals \in Nat /\ unseen \in Nat /\ twice \in Nat
    BY CountingFinite DEF CountInv, TotalsCountEvents, Counting
  <1>3. SUFFICES /\ totals' + unseen' + m = events' + twice'
                 /\ events' \in Nat /\ totals' \in Nat /\ unseen' \in Nat /\ twice' \in Nat
    BY <1>1 DEF CountInv, TotalsCountEvents, Counting
  <1>4. CASE UNCHANGED vars
    BY <1>2, <1>4 DEF vars, Counting
  <1>5. ASSUME NEW p \in Starters, Starting(p)
        PROVE  /\ totals' + unseen' + m = events' + twice'
               /\ events' \in Nat /\ totals' \in Nat /\ unseen' \in Nat /\ twice' \in Nat
    <2>1. m = n /\ events' = events
      BY <1>1, <1>5, QuietStart
         DEF Starting, Begin, Ask, Execute, DuplicateColumn, Record, Commit, Serve
    <2>2. CASE UNCHANGED <<totals, unseen, twice>>
      BY <1>2, <2>1, <2>2
    <2>3. CASE totals' = events /\ unseen' = 0 /\ twice' = n
      BY <1>2, <2>1, <2>3
    <2>4. Execute(p) => UNCHANGED <<totals, unseen, twice>>
                        \/ (totals' = events /\ unseen' = 0 /\ twice' = n)
      BY DEF Execute, BackfilledTotals, Counting
    <2>5. ~Execute(p) => UNCHANGED <<totals, unseen, twice>>
      BY <1>5 DEF Starting, Begin, Ask, DuplicateColumn, Record, Commit, Serve
    <2> QED
      BY <2>2, <2>3, <2>4, <2>5
  <1>6. ASSUME NEW p \in Starters, PyClick(p)
        PROVE  /\ totals' + unseen' + m = events' + twice'
               /\ events' \in Nat /\ totals' \in Nat /\ unseen' \in Nat /\ twice' \in Nat
    <2>1. m = n
      BY <1>6 DEF PyClick, Counting
    <2> QED
      BY <1>2, <1>6, <2>1 DEF PyClick
  <1>7. ASSUME NEW p \in Starters, RsClick(p)
        PROVE  /\ totals' + unseen' + m = events' + twice'
               /\ events' \in Nat /\ totals' \in Nat /\ unseen' \in Nat /\ twice' \in Nat
    <2>1. /\ p \in Rss /\ UNCHANGED <<unseen, twice>> /\ st[p].counting \in BOOLEAN
          /\ st' = [st EXCEPT ![p] = Up(~st[p].counting)]
          /\ Up(~st[p].counting).counting = ~st[p].counting
      BY <1>1, <1>7 DEF RsClick, SchemaInv, ProcessOK, Place, Up
    <2>2. CASE st[p].counting
      <3>1. Counting' = Counting \ {p} /\ p \in Counting
        BY <1>1, <2>1, <2>2, StopsCounting
      <3>2. m = n - 1
        BY <3>1, CountingFinite, FS_RemoveElement
      <3> QED
        BY <1>2, <1>7, <2>1, <2>2, <3>2 DEF RsClick
    <2>3. CASE ~st[p].counting
      <3>1. Counting' = Counting \cup {p} /\ p \notin Counting
        BY <1>1, <2>1, <2>3, StartsCounting
      <3>2. m = n + 1
        BY <3>1, CountingFinite, FS_AddElement
      <3> QED
        BY <1>2, <1>7, <2>1, <2>3, <3>2 DEF RsClick
    <2> QED
      BY <2>2, <2>3
  <1>8. ASSUME NEW p \in Starters, Crash(p)
        PROVE  /\ totals' + unseen' + m = events' + twice'
               /\ events' \in Nat /\ totals' \in Nat /\ unseen' \in Nat /\ twice' \in Nat
    <2>1. /\ UNCHANGED <<events, totals, twice>> /\ st' = [st EXCEPT ![p] = Down]
          /\ unseen' = unseen + (IF st[p].counting THEN 1 ELSE 0) /\ ~Down.counting
      BY <1>8, DownPlace DEF Crash
    <2>2. CASE st[p].counting
      <3>1. Counting' = Counting \ {p} /\ p \in Counting
        <4>1. p \in Rss
          BY <1>1, <2>2 DEF SchemaInv, ProcessOK
        <4> QED
          BY <1>1, <2>1, <2>2, <4>1, StopsCounting
      <3>2. m = n - 1
        BY <3>1, CountingFinite, FS_RemoveElement
      <3> QED
        BY <1>2, <2>1, <2>2, <3>2
    <2>3. CASE ~st[p].counting
      <3>1. m = n
        BY <1>1, <2>1, <2>3, NoneCounting
      <3> QED
        BY <1>2, <2>1, <2>3, <3>1
    <2> QED
      BY <2>2, <2>3
  <1>9. CASE OldClick \/ OldStops
    <2>1. m = n
      BY <1>9 DEF OldClick, OldStops, Counting
    <2> QED
      BY <1>2, <1>9, <2>1 DEF OldClick, OldStops
  <1> QED
    BY <1>4, <1>5, <1>6, <1>7, <1>8, <1>9 DEF Next

LEMMA CountInit == Init => CountInv
  <1> SUFFICES ASSUME Init PROVE CountInv
    OBVIOUS
  <1>1. Counting = {}
    BY DownPlace DEF Init, Counting, Starters
  <1>2. Cardinality(Counting) = 0
    BY <1>1, FS_EmptySet
  <1>3. events \in Nat
    BY DEF Init
  <1> QED
    BY <1>2, <1>3, SchemaInit DEF Init, CountInv, TotalsCountEvents, Counting

\* The totals count every event once, but for the clicks of the release before
\* after the backfill, those of a process that died between the event and the
\* total, and those that a late backfill counted in between
\* (003_analytics_aggregates.sql, persistence.py:145, db.rs:217).
THEOREM TotalsRight == Spec => []TotalsCountEvents
  <1>1. CountInv => TotalsCountEvents
    BY DEF CountInv
  <1> QED
    BY <1>1, CountInit, CountStep, PTL DEF Spec
===============================================================================
