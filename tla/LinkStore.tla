------------------------------ MODULE LinkStore ------------------------------
(* The database file of the URL shortener, which both services open: the     *)
(* tables, what one SQL statement does to them, and when a link may be       *)
(* served.  A url, a code and an idempotency key are model values.  The clock *)
(* stops at the last deadline; any other time is kept as the number of ticks *)
(* since then, counted as far as it matters.                                 *)
EXTENDS Integers, Sequences, FiniteSets

CONSTANTS
    Codes, Urls, Keys, Pys, Rss,    \* Pys and Rss: the Python services, the threads of the Rust one
    NoKey,                          \* a create without an idempotency key
    Deadlines, Never,               \* the expiries asked for, and none
    Versions,                       \* the versions that requests name
    TTL,                            \* of a cache entry
    MaxWrites, MaxClicks, MaxFaults \* bounds: updates and disables, redirects, faults

\* NoKey is the absence of a key.
ASSUME KeysAssumption == NoKey \notin Keys
\* A process is of one service, there are finitely many of them, a request
\* names any integer, and times are numbers of ticks.
ASSUME StoreAssumption ==
    Pys \cap Rss = {} /\ IsFiniteSet(Pys) /\ Versions \subseteq Int /\ TTL \in Nat
        /\ Deadlines \subseteq Nat

VARIABLES
    links,      \* [code -> row]
    keys,       \* [idempotency key -> code]
    audit,      \* link_audit, in insertion order
    events,     \* [code -> number of click_events]
    totals,     \* [code -> click_totals.clicks]
    now,        \* the clock
    origin,     \* history: [code created under a key -> the key and who]
    acked,      \* history: [code -> redirects answered]
    faults      \* history: crashes and failed statements

tables == <<links, keys, audit, events, totals>>
store == <<links, keys, audit, events, totals, now, origin, acked, faults>>

\* "named" is history: the version that the last update named, 0 before one.
Link == [url : Urls, expires : Deadlines \cup {Never}, disabled : BOOLEAN,
         version : Nat \ {0}, named : Int]

\* The version, who, and whether the request named a version that was not there
\* yet when the old url was read are there for the properties: the row itself
\* has the code, the action, the two urls and the time, of which the age is kept.
Entry == [code : Codes, action : {"update", "disable"}, old : Urls, new : Urls,
          age : 0..TTL, version : Nat \ {0}, guessed : BOOLEAN, by : Pys \cup Rss]

StoreInit ==
    /\ links = << >> /\ keys = << >> /\ audit = << >> /\ origin = << >>
    /\ events = [c \in Codes |-> 0] /\ totals = events /\ acked = events
    /\ now = 0 /\ faults = 0

\* A table with row x.
With(rows, x, row) == [y \in DOMAIN rows \cup {x} |-> IF y = x THEN row ELSE rows[y]]

\* INSERT INTO links: the primary key refuses a code in use.
InsertLink(c, url, expires, key, by) ==
    /\ c \notin DOMAIN links
    /\ links' = With(links, c, [url |-> url, expires |-> expires,
                                disabled |-> FALSE, version |-> 1, named |-> 0])
    /\ origin' = IF key = NoKey THEN origin ELSE With(origin, c, [key |-> key, by |-> by])

\* Faulty: INSERT OR REPLACE.
ReplaceKey(key, c) == keys' = With(keys, key, c)

\* INSERT INTO idempotency_keys: the primary key refuses a key in use.
InsertKey(key, c) == key \notin DOMAIN keys /\ keys' = With(keys, key, c)

\* Faulty: WHERE code, whatever the version.
UpdateAnyLink(c, url, expected) ==
    links' = [links EXCEPT ![c].url = url, ![c].version = @ + 1, ![c].named = expected]

\* UPDATE links SET url, version = version + 1 WHERE code AND version.
UpdateLink(c, url, expected) ==
    /\ links[c].version = expected
    /\ links' = [links EXCEPT ![c].url = url, ![c].version = @ + 1, ![c].named = expected]

\* UPDATE links SET disabled = 1.
DisableLink(c) == links' = [links EXCEPT ![c].disabled = TRUE]

\* INSERT INTO link_audit.
InsertAudit(action, c, old, new, version, guessed, by) ==
    audit' = Append(audit, [code |-> c, action |-> action, old |-> old, new |-> new,
                            age |-> 0, version |-> version, guessed |-> guessed, by |-> by])

\* What an update has read of row c, and the version v that its request names.
ReadRow(c, v) == [op |-> "update", code |-> c, old |-> links[c].url, expected |-> v,
                  guessed |-> v > links[c].version]

Expired(link) == link.expires # Never /\ link.expires <= now
\* Faulty: a link is served at the very instant it expires (the defect the
\* brownfield scenario seeds).
ServableAtDeadline(link) == ~link.disabled /\ ~(link.expires # Never /\ link.expires < now)

Servable(link) == ~link.disabled /\ ~Expired(link)

\* Rows of links under a key that names no such code: a create of the Rust
\* service that has not inserted its key, or never did.  No client knows them.
HalfMade == {c \in DOMAIN origin : ~(origin[c].key \in DOMAIN keys /\ keys[origin[c].key] = c)}
Known == DOMAIN links \ HalfMade

\* The sum of the counts.
Total(count) == Cardinality(UNION {{x} \X (1..count[x]) : x \in DOMAIN count})

Redirects == Total(acked)
Writes == Total([c \in DOMAIN links |-> links[c].version - 1])
            + Cardinality({n \in DOMAIN audit : audit[n].action = "disable"})

ClockTicks == now' = IF \E d \in Deadlines : now < d THEN now + 1 ELSE now
Older(age, limit) == IF age < limit THEN age + 1 ELSE age
Ageing(entries) == [n \in DOMAIN entries |-> [entries[n] EXCEPT !.age = Older(@, TTL)]]

Fault == faults < MaxFaults /\ faults' = faults + 1
===============================================================================
