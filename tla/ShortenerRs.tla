----------------------------- MODULE ShortenerRs -----------------------------
(* The Rust service: one process, handlers on several threads, a mutex round *)
(* the connection that a handler holds for one function of db.rs.  Nothing   *)
(* opens a transaction, so each statement that writes commits by itself.     *)
(* A read is one step with the statement after it, except where the version  *)
(* of an update is compared.                                                 *)
EXTENDS LinkStore

VARIABLE rs     \* [thread -> what is left of the request it serves]

RsIdle == [op |-> "idle"]
RsInit == rs = [t \in Rss |-> RsIdle]

MutexFree == \A t \in Rss : rs[t] = RsIdle
Free(t) == rs' = [rs EXCEPT ![t] = RsIdle]

\* Faulty: the key is never looked up.
InsertNewLink(t, c, url, expires, key) ==
    /\ MutexFree /\ InsertLink(c, url, expires, key, t)
    /\ IF key = NoKey \/ key \in DOMAIN keys THEN UNCHANGED rs
       ELSE rs' = [rs EXCEPT ![t] = [op |-> "key", code |-> c, key |-> key]]
    /\ UNCHANGED <<keys, audit, events, totals, now, acked, faults>>

\* create_link(): a known key replays; else INSERT INTO links with a free code.
RsCreateLink(t, c, url, expires, key) ==
    /\ MutexFree /\ key \notin DOMAIN keys /\ InsertLink(c, url, expires, key, t)
    /\ IF key = NoKey THEN UNCHANGED rs
       ELSE rs' = [rs EXCEPT ![t] = [op |-> "key", code |-> c, key |-> key]]
    /\ UNCHANGED <<keys, audit, events, totals, now, acked, faults>>

\* INSERT INTO idempotency_keys, which another process may have done: 500.
RsInsertKey(t) ==
    /\ rs[t].op = "key" /\ Free(t)
    /\ IF rs[t].key \in DOMAIN keys THEN UNCHANGED keys ELSE InsertKey(rs[t].key, rs[t].code)
    /\ UNCHANGED <<links, audit, events, totals, now, origin, acked, faults>>

\* update_destination(): the row is read by a statement of its own, and the
\* client may name any version.
RsReadOld(t, c, v) ==
    /\ MutexFree /\ c \in Known
    /\ rs' = [rs EXCEPT ![t] = ReadRow(c, v)]
    /\ UNCHANGED store

RsUpdateLink(t, url) ==
    /\ rs[t].op = "update" /\ Writes < MaxWrites
    /\ UpdateLink(rs[t].code, url, rs[t].expected)
    /\ rs' = [rs EXCEPT ![t] = [op |-> "audit", action |-> "update", code |-> rs[t].code,
                                old |-> rs[t].old, new |-> url, version |-> rs[t].expected + 1,
                                guessed |-> rs[t].guessed]]
    /\ UNCHANGED <<keys, audit, events, totals, now, origin, acked, faults>>

\* 409: no row has the version.
RsConflict(t) ==
    /\ rs[t].op = "update" /\ links[rs[t].code].version # rs[t].expected
    /\ Free(t) /\ UNCHANGED store

\* disable_link(): UPDATE links SET disabled = 1.
RsDisable(t, c) ==
    /\ MutexFree /\ c \in Known /\ Writes < MaxWrites
    /\ DisableLink(c)
    /\ rs' = [rs EXCEPT ![t] = [op |-> "audit", action |-> "disable", code |-> c,
                                old |-> links[c].url, new |-> links[c].url,
                                version |-> links[c].version, guessed |-> FALSE]]
    /\ UNCHANGED <<keys, audit, events, totals, now, origin, acked, faults>>

\* The INSERT INTO link_audit of either.
RsAudit(t) ==
    /\ rs[t].op = "audit" /\ Free(t)
    /\ InsertAudit(rs[t].action, rs[t].code, rs[t].old, rs[t].new, rs[t].version, rs[t].guessed, t)
    /\ UNCHANGED <<links, keys, events, totals, now, origin, acked, faults>>

\* resolve(): the row is read from the database and a servable one recorded; if
\* the first INSERT fails the redirect goes out all the same.
RsResolve(t, c) ==
    /\ MutexFree /\ c \in Known /\ Redirects < MaxClicks /\ Servable(links[c])
    /\ \/ /\ events' = [events EXCEPT ![c] = @ + 1]
          /\ rs' = [rs EXCEPT ![t] = [op |-> "totals", code |-> c]]
          /\ UNCHANGED <<acked, faults>>
       \/ /\ Fault /\ acked' = [acked EXCEPT ![c] = @ + 1]
          /\ UNCHANGED <<events, rs>>
    /\ UNCHANGED <<links, keys, audit, totals, now, origin>>

\* The UPSERT of click_totals, and the redirect.
RsTotals(t) ==
    /\ rs[t].op = "totals" /\ Free(t)
    /\ totals' = [totals EXCEPT ![rs[t].code] = @ + 1]
    /\ acked' = [acked EXCEPT ![rs[t].code] = @ + 1]
    /\ UNCHANGED <<links, keys, audit, events, now, origin, faults>>

\* A statement fails: a redirect goes out all the same, anything else is a 500.
RsStatementFails(t) ==
    /\ rs[t] # RsIdle /\ Fault /\ Free(t)
    /\ IF rs[t].op = "totals" THEN acked' = [acked EXCEPT ![rs[t].code] = @ + 1]
       ELSE UNCHANGED acked
    /\ UNCHANGED <<tables, now, origin>>

\* The process dies and is started again.
CrashRs ==
    /\ ~MutexFree /\ Fault /\ rs' = [t \in Rss |-> RsIdle]
    /\ UNCHANGED <<tables, now, origin, acked>>

RsNext ==
    \/ CrashRs
    \/ \E t \in Rss :
        \/ \E c \in Codes, url \in Urls, e \in Deadlines \cup {Never}, k \in Keys \cup {NoKey} :
                RsCreateLink(t, c, url, e, k)
        \/ \E c \in Codes : \/ RsDisable(t, c) \/ RsResolve(t, c)
                            \/ \E v \in Versions : RsReadOld(t, c, v)
        \/ \E url \in Urls : RsUpdateLink(t, url)
        \/ RsInsertKey(t) \/ RsConflict(t) \/ RsAudit(t) \/ RsTotals(t)
        \/ RsStatementFails(t)
===============================================================================
