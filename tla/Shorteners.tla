------------------------------ MODULE Shorteners ------------------------------
(* Instances of the Python service and the Rust service on one database.     *)
EXTENDS ShortenerPy, ShortenerRs

vars == <<store, pyVars, rs>>

Init == StoreInit /\ PyInit /\ RsInit

Tick ==
    /\ ClockTicks
    /\ audit' = Ageing(audit)
    /\ cache' = [i \in Pys |-> Ageing(cache[i])]
    /\ flushed' = [i \in Pys |-> Older(flushed[i], FlushInterval)]
    /\ UNCHANGED <<links, keys, events, totals, origin, acked, faults, req, buffer, rs>>

Next == \/ \E i \in Pys : PyNext(i) /\ UNCHANGED rs
        \/ RsNext /\ UNCHANGED pyVars
        \/ Tick

Spec == Init /\ [][Next]_vars

-------------------------------------------------------------------------------

\* The tables, the caches and the buffers hold what the code puts in them.
TypeOK ==
    /\ DOMAIN links \subseteq Codes /\ \A c \in DOMAIN links : links[c] \in Link
    /\ DOMAIN origin \subseteq DOMAIN links
    /\ DOMAIN keys \subseteq Keys /\ \A k \in DOMAIN keys : keys[k] \in DOMAIN links
    /\ \A n \in DOMAIN audit : audit[n] \in Entry
    /\ events \in [Codes -> Nat] /\ totals \in [Codes -> Nat] /\ acked \in [Codes -> Nat]
    /\ buffer \in [Pys -> [Codes -> Nat]] /\ flushed \in [Pys -> 0..FlushInterval]
    /\ \A i \in Pys : /\ Len(cache[i]) <= CacheSize
                      /\ \A n \in DOMAIN cache[i] : cache[i][n].link \in Link

\* What the Rust service is doing to code c right now.
Doing(op, c) == \E t \in Rss : rs[t].op = op /\ rs[t].code = c
\* The audit entries of a code.
Entries(c) == {n \in DOMAIN audit : audit[n].code = c}
Updates(c) == {n \in Entries(c) : audit[n].action = "update"}
\* Every write to code c has its audit entry.
Audited(c) == /\ Cardinality(Updates(c)) = links[c].version - 1
              /\ links[c].disabled => \E n \in Entries(c) : audit[n].action = "disable"

\* An idempotency key names the one link created under it (persistence.py:69,
\* db.rs:114).  Any other link created under that key was left behind by the
\* Rust service, which inserts the link and the key in two commits: it is in
\* between, it failed there, or the Python service inserted the key first.
KeyNamesItsLink ==
    \A c \in HalfMade :
        LET k == origin[c].key IN
        /\ origin[c].by \in Rss
        /\ \/ Doing("key", c) \/ faults > 0
           \/ k \in DOMAIN keys /\ origin[keys[k]].by \in Pys

\* The audit trail tells the whole history of a link (persistence.py:128,
\* db.rs:193): every version is there once, and its old url is the url of the
\* version before, whichever process wrote that.  The old url is wrong for a
\* client that named a version which was not there yet when the row was read,
\* and which another process made before the UPDATE; and only the Rust service
\* has an update without its entry, while it is in between or when it failed.
AuditExplains ==
    \A c \in DOMAIN links :
        /\ Audited(c) \/ Doing("audit", c) \/ faults > 0
        /\ \A m, n \in Updates(c) :
              /\ audit[m].version = audit[n].version => m = n
              /\ audit[n].version = audit[m].version + 1 /\ ~audit[n].guessed =>
                     audit[n].old = audit[m].new
        /\ \A n \in Updates(c) : audit[n].version = links[c].version => audit[n].new = links[c].url

\* A link is a redirect at no instant at or after its expiry, cached or not
\* (domain.py:5, cache.py:5).
ExpiryHonoured ==
    \A i \in Pys, c \in Known :
        Servable(Lookup(i, c)) => links[c].expires = Never \/ now < links[c].expires

\* What an instance answers is the link as it is, or as it was less than TTL
\* ago by the audit trail (cache.py:3), whoever changed it since.
StaleLessThanTTL ==
    \A i \in Pys, c \in Known :
        LET seen == Lookup(i, c)
            since(action) == {n \in Entries(c) : audit[n].action = action /\ audit[n].age < TTL}
        IN Audited(c) =>
            /\ seen.version < links[c].version =>
                   \E n \in since("update") : audit[n].version = seen.version + 1
            /\ seen.disabled # links[c].disabled => since("disable") # {}

\* An instance never answers with a state of a link older than the one it
\* last wrote itself (api.py:131, api.py:142).
ReadsItsWrites ==
    \A i \in Pys, c \in Known : \A n \in Entries(c) :
        audit[n].by = i => /\ Lookup(i, c).version >= audit[n].version
                           /\ audit[n].action = "disable" => Lookup(i, c).disabled

\* Until a process dies or a statement fails, every redirect answered is one
\* event written or waiting in a buffer, and none is there twice; the totals
\* agree with the events (analytics.py:42, persistence.py:145, db.rs:217).
\* Afterwards clicks may be missing, and at most one per fault is too many:
\* an event whose redirect never went out.
ClicksAccounted ==
    \A c \in Codes :
        LET waiting == Total([i \in Pys |-> buffer[i][c]])
            open == IF Doing("totals", c) THEN 1 ELSE 0
        IN /\ events[c] + waiting <= acked[c] + open + faults
           /\ totals[c] + open <= events[c] /\ events[c] <= totals[c] + open + faults
           /\ faults = 0 => events[c] + waiting = acked[c] + open

\* The links that clients can know of, and the keys.
visible == [c \in Known |-> links[c]]
Promised == INSTANCE LinkContract WITH links <- visible, Expiries <- Deadlines \cup {Never}

\* Both services together keep the contract: a create is atomic, with its key,
\* as far as a client can tell, no key is ever rebound, and an update is
\* accepted only if the link is at the version that it names (db.rs:173,
\* persistence.py:118), so that none is lost.
KeepsContract == Promised!Spec
===============================================================================
