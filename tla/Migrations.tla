------------------------------ MODULE Migrations ------------------------------
(* Processes of both services start on one database file and migrate it,     *)
(* while one of the release before still serves it.  A statement of a script *)
(* commits by itself in both: executescript() first commits what is open and *)
(* then runs outside a transaction.  The row that records a script is a      *)
(* commit of its own: at once in Rust, in Python with the next script or at  *)
(* the end, and until then the Python process holds the write lock.          *)
EXTENDS Integers, Sequences, FiniteSets

CONSTANTS
    Pys, Rss,       \* processes of the Python and of the Rust service
    MaxEvents, MaxCrashes   \* bounds

\* Those that count a click are themselves counted.
ASSUME RssAssumption == IsFiniteSet(Rss)

VARIABLES
    schema,     \* what the statements run so far have made
    applied,    \* rows of schema_migrations
    events, totals,     \* clicks of a link: rows of click_events, click_totals.clicks
    st,         \* [process -> where its start is]
    old,        \* the release before is still serving
    unseen,     \* history: events since the last backfill that nobody added to the totals
    twice,      \* history: events that the last backfill and their writer both counted
    crashes     \* history

vars == <<schema, applied, events, totals, st, old, unseen, twice, crashes>>

Starters == Pys \cup Rss
\* What the scripts 001, 002, 003 do, in order; the three tables of 001 as one.
Statements == <<<<"tables">>,
                <<"expires_at", "version", "link_audit">>,
                <<"click_totals", "index", "backfill">>>>
Scripts == 1..3
Made(s) == {Statements[s][n] : n \in DOMAIN Statements[s]}
Everything == UNION {Made(s) : s \in Scripts}
\* The statements that fail when they are run again.
Columns == {"expires_at", "version"}

\* A process that is down, or migrating: todo are the scripts it still has to
\* look at, done the statements of the first one (-1: the Rust service has not
\* yet asked whether it is applied), row the script whose row it has not
\* committed (0 for none), counting a click between two statements of the Rust
\* service.
Down == [at |-> "down", todo |-> {}, done |-> 0, row |-> 0, counting |-> FALSE]
Migrating(todo, done, row) ==
    [at |-> "migrating", todo |-> todo, done |-> done, row |-> row, counting |-> FALSE]
Up(counting) == [at |-> "up", todo |-> {}, done |-> 0, row |-> 0, counting |-> counting]
Row(p) == st[p].row
Now(p) == CHOOSE s \in st[p].todo : \A u \in st[p].todo : s <= u
Left(p) == st[p].todo \ {Now(p)}

\* A new file, one of the first release, or one of the second with its clicks.
Init ==
    /\ \E n \in 0..2 : /\ applied = 1..n
                       /\ schema = UNION {Made(s) : s \in 1..n}
                       /\ old = (n > 0)
                       /\ events \in 0..(IF n = 0 THEN 0 ELSE 1)
    /\ totals = 0 /\ unseen = events /\ twice = 0 /\ crashes = 0
    /\ st = [p \in Starters |-> Down]

\* Nobody else has an open transaction that writes.
MayWrite(p) == \A q \in Starters \ {p} : Row(q) = 0

\* Faulty: the scripts are all run again.
AllScripts == Scripts

NotApplied == Scripts \ applied

\* The Python service reads which scripts are applied once, the Rust service
\* asks for each of them in turn.
Begin(p) ==
    /\ st[p].at = "down"
    /\ st' = [st EXCEPT ![p] = IF p \in Pys THEN Migrating(NotApplied, 0, 0)
                               ELSE Migrating(Scripts, -1, 0)]
    /\ UNCHANGED <<schema, applied, events, totals, old, unseen, twice, crashes>>

Ask(p) ==
    /\ st[p].todo # {} /\ st[p].done = -1
    /\ st' = [st EXCEPT ![p] = IF Now(p) \in applied THEN Migrating(Left(p), -1, 0)
                               ELSE Migrating(st[p].todo, 0, 0)]
    /\ UNCHANGED <<schema, applied, events, totals, old, unseen, twice, crashes>>

\* Faulty: the backfill adds to the totals that are there.
AddTotals == totals + events

\* INSERT OR REPLACE ... SELECT COUNT(*): the totals are counted afresh.
BackfilledTotals == events

Running(p) == /\ st[p].todo # {} /\ Row(p) = 0
              /\ st[p].done \in 0..(Len(Statements[Now(p)]) - 1)
Statement(p) == Statements[Now(p)][st[p].done + 1]

\* A statement of a script, committed.
Execute(p) ==
    /\ Running(p) /\ MayWrite(p) /\ Statement(p) \notin Columns \cap schema
    /\ schema' = schema \cup {Statement(p)}
    /\ IF Statement(p) = "backfill"
       THEN /\ totals' = BackfilledTotals /\ unseen' = 0
            /\ twice' = Cardinality({q \in Rss : st[q].counting})
       ELSE UNCHANGED <<totals, unseen, twice>>
    /\ st' = [st EXCEPT ![p] = Migrating(st[p].todo, st[p].done + 1, 0)]
    /\ UNCHANGED <<applied, events, old, crashes>>

\* "duplicate column name": the process ends.
DuplicateColumn(p) ==
    /\ Running(p) /\ Statement(p) \in Columns \cap schema
    /\ st' = [st EXCEPT ![p] = Down]
    /\ UNCHANGED <<schema, applied, events, totals, old, unseen, twice, crashes>>

\* Faulty: a script is recorded when it is begun.
Begun(p) == st[p].todo # {} /\ st[p].done > 0

\* All statements of the script have run.
Ran(p) == st[p].todo # {} /\ st[p].done = Len(Statements[Now(p)])

\* INSERT INTO schema_migrations; a row that is there already ends the process.
Record(p) ==
    /\ Ran(p) /\ Row(p) = 0 /\ MayWrite(p)
    /\ IF Now(p) \in applied
       THEN st' = [st EXCEPT ![p] = Down] /\ UNCHANGED applied
       ELSE IF p \in Pys
            THEN /\ st' = [st EXCEPT ![p] = Migrating(Left(p), 0, Now(p))]
                 /\ UNCHANGED applied
            ELSE /\ st' = [st EXCEPT ![p] = Migrating(Left(p), -1, 0)]
                 /\ applied' = applied \cup {Now(p)}
    /\ UNCHANGED <<schema, events, totals, old, unseen, twice, crashes>>

\* The commit before the next script, or at the end.
Commit(p) ==
    /\ Row(p) # 0
    /\ applied' = applied \cup {Row(p)} /\ st' = [st EXCEPT ![p] = Migrating(st[p].todo, st[p].done, 0)]
    /\ UNCHANGED <<schema, events, totals, old, unseen, twice, crashes>>

Serve(p) ==
    /\ st[p].at = "migrating" /\ st[p].todo = {} /\ Row(p) = 0
    /\ st' = [st EXCEPT ![p] = Up(FALSE)]
    /\ UNCHANGED <<schema, applied, events, totals, old, unseen, twice, crashes>>

-------------------------------------------------------------------------------
(* Clicks meanwhile *)

\* The release before writes the event and knows of no totals.
OldClick ==
    /\ old /\ events < MaxEvents /\ \A q \in Starters : Row(q) = 0
    /\ events' = events + 1 /\ unseen' = unseen + 1
    /\ UNCHANGED <<schema, applied, totals, st, old, twice, crashes>>

OldStops == old /\ old' = FALSE
            /\ UNCHANGED <<schema, applied, events, totals, st, unseen, twice, crashes>>

\* A Python process writes both in one transaction.
PyClick(p) ==
    /\ p \in Pys /\ st[p].at = "up" /\ events < MaxEvents /\ MayWrite(p)
    /\ events' = events + 1 /\ totals' = totals + 1
    /\ UNCHANGED <<schema, applied, st, old, unseen, twice, crashes>>

\* A Rust process writes the event and then the total.
RsClick(p) ==
    /\ p \in Rss /\ st[p].at = "up" /\ MayWrite(p)
    /\ IF st[p].counting
       THEN totals' = totals + 1 /\ UNCHANGED events
       ELSE events < MaxEvents /\ events' = events + 1 /\ UNCHANGED totals
    /\ st' = [st EXCEPT ![p] = Up(~st[p].counting)]
    /\ UNCHANGED <<schema, applied, old, unseen, twice, crashes>>

\* A process dies; a row it had not committed is gone with it, and so is the
\* total of a click.
Crash(p) ==
    /\ st[p].at # "down" /\ crashes < MaxCrashes /\ crashes' = crashes + 1
    /\ st' = [st EXCEPT ![p] = Down]
    /\ unseen' = unseen + (IF st[p].counting THEN 1 ELSE 0)
    /\ UNCHANGED <<schema, applied, events, totals, old, twice>>

\* What a start does by itself; whoever looks after it starts it again.
Starting(p) == Begin(p) \/ Ask(p) \/ Execute(p) \/ DuplicateColumn(p) \/ Record(p)
               \/ Commit(p) \/ Serve(p)

Next == \/ \E p \in Starters : Starting(p) \/ PyClick(p) \/ RsClick(p) \/ Crash(p)
        \/ OldClick \/ OldStops

Spec == Init /\ [][Next]_vars
FairSpec == Spec /\ \A p \in Starters : WF_vars(Starting(p))

-------------------------------------------------------------------------------

\* 002 is half done or not recorded, and nobody is at it any more: every start
\* from now on ends with a duplicate column.
Stranded == /\ schema \cap Columns # {} /\ 2 \notin applied
            /\ \A p \in Starters : /\ Row(p) # 2
                                   /\ st[p].todo # {} => ~(Now(p) = 2 /\ st[p].done > 0)

\* What schema_migrations says is so, and a process that serves requests finds
\* every table and column its statements name (persistence.py:41, db.rs:61),
\* however many processes migrate at once and wherever one of them dies.
ServesOnlyMigrated ==
    /\ \A s \in applied : Made(s) \subseteq schema
    /\ \A p \in Starters : st[p].at = "up" => schema = Everything

\* The totals count every event once (003_analytics_aggregates.sql, and
\* persistence.py:145, db.rs:217), but for the clicks that the release before
\* writes after the backfill, those of a process that dies between its two
\* statements, and those that a second, late backfill counts in between.
TotalsCountEvents ==
    totals + unseen + Cardinality({p \in Rss : st[p].counting}) = events + twice

\* Every process that starts is serving in the end, whatever order the starts
\* take and however often they end on each other's rows; the one thing that
\* keeps them all from it is a process that died inside 002.
ComesUp ==
    \A p \in Starters : <>(st[p].at = "up" \/ (Stranded /\ crashes > 0))
===============================================================================
