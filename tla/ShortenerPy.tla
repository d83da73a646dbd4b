----------------------------- MODULE ShortenerPy -----------------------------
(* The Python service: one event loop per instance, so a handler runs to its *)
(* end before the next one of that instance; other processes use the same    *)
(* database file.  A handler that writes reads first, outside its            *)
(* transaction, and those are two steps; the transaction is one.             *)
EXTENDS LinkStore, SequencesExt

CONSTANTS CacheSize, FlushInterval

\* An empty cache would not hold the link that is being answered.
ASSUME CacheAssumption == CacheSize \in Nat \ {0} /\ FlushInterval \in Nat

VARIABLES
    req,        \* [instance -> the request between its reads and its transaction]
    cache,      \* [instance -> entries, least recently used first]
    buffer,     \* [instance -> clicks not yet written]
    flushed     \* [instance -> ticks since the last flush]

pyVars == <<req, cache, buffer, flushed>>

Idle == [op |-> "idle"]
NoClicks == [c \in Codes |-> 0]

PyInit == /\ req = [i \in Pys |-> Idle] /\ cache = [i \in Pys |-> << >>]
          /\ buffer = [i \in Pys |-> NoClicks] /\ flushed = [i \in Pys |-> 0]

-------------------------------------------------------------------------------
(* The cache *)

\* An OrderedDict has one entry of a code at most.
Places(entries, c) == {n \in DOMAIN entries : entries[n].code = c}
Drop(entries, c) == IF Places(entries, c) = {} THEN entries
                    ELSE RemoveAt(entries, CHOOSE n \in Places(entries, c) : TRUE)
Fresh(entries, c) == {n \in Places(entries, c) : entries[n].age < TTL}
Found(entries, c) == entries[CHOOSE n \in Fresh(entries, c) : TRUE]

\* Faulty: nothing is evicted.
PutUnbounded(entries, e) == Append(Drop(entries, e.code), e)

\* Put the entry last and evict the oldest ones above CacheSize.
Put(entries, e) ==
    LET all == Append(Drop(entries, e.code), e)
    IN SubSeq(all, Len(all) - (IF Len(all) > CacheSize THEN CacheSize ELSE Len(all)) + 1, Len(all))

\* Faulty: a hit starts the entry's time to live afresh.
TouchRenewing(entries, c) ==
    IF Fresh(entries, c) = {} THEN Put(entries, [code |-> c, age |-> 0, link |-> links[c]])
    ELSE Put(entries, [Found(entries, c) EXCEPT !.age = 0])

\* The cache after a look-up of code c: a hit moves to the end, a miss or an
\* entry past its time is read from the database and put.
Touch(entries, c) ==
    IF Fresh(entries, c) = {} THEN Put(entries, [code |-> c, age |-> 0, link |-> links[c]])
    ELSE Append(Drop(entries, c), Found(entries, c))

\* Faulty: an update or a disable leaves the entry.
Kept(entries, c) == entries

Invalidate(entries, c) == Drop(entries, c)

\* The link an instance would answer code c with.
Lookup(i, c) == Last(Touch(cache[i], c)).link

-------------------------------------------------------------------------------
(* The admin handlers *)

\* POST /v1/links with a key that is known replays the link: nothing changes.
\* What else the request says is chosen where it is used, in the transaction.
LookUpKey(i, key) ==
    /\ req[i] = Idle /\ key \notin DOMAIN keys
    /\ req' = [req EXCEPT ![i] = [op |-> "create", key |-> key]]
    /\ UNCHANGED <<store, cache, buffer, flushed>>

\* Faulty: a key that another process has inserted meanwhile is overlooked.
InsertedIgnoringKey(i, c, url, expires, key) ==
    /\ InsertLink(c, url, expires, key, i)
    /\ IF key \in Keys \ DOMAIN keys THEN InsertKey(key, c) ELSE UNCHANGED keys

\* The link and its key in one transaction.
Inserted(i, c, url, expires, key) ==
    /\ InsertLink(c, url, expires, key, i)
    /\ IF key = NoKey THEN UNCHANGED keys ELSE InsertKey(key, c)

\* The generated code is a free one; the reply is 201.
CreateLink(i, c, url, expires) ==
    /\ \/ req[i] = Idle /\ Inserted(i, c, url, expires, NoKey)
       \/ req[i].op = "create" /\ Inserted(i, c, url, expires, req[i].key)
    /\ req' = [req EXCEPT ![i] = Idle]
    /\ UNCHANGED <<audit, events, totals, now, acked, faults, cache, buffer, flushed>>

\* The key was inserted meanwhile (IntegrityError), or every code generated
\* was in use (CodeAllocationError): rolled back, 500.
CreateFails(i) ==
    /\ req[i].op = "create" /\ (req[i].key \in DOMAIN keys \/ links # << >>)
    /\ req' = [req EXCEPT ![i] = Idle] /\ UNCHANGED <<store, cache, buffer, flushed>>

\* PATCH /v1/links/{code}: the row is read before the transaction begins, and
\* the client may name any version.
ReadOld(i, c, v) ==
    /\ req[i] = Idle /\ c \in Known
    /\ req' = [req EXCEPT ![i] = ReadRow(c, v)]
    /\ UNCHANGED <<store, cache, buffer, flushed>>

\* Faulty: the version is not compared.
UpdatedWhatever(i, url) ==
    LET r == req[i] IN
    /\ UpdateAnyLink(r.code, url, r.expected)
    /\ InsertAudit("update", r.code, r.old, url, links[r.code].version + 1, r.guessed, i)

\* The row and its audit entry in one transaction.
Updated(i, url) ==
    LET r == req[i] IN
    /\ UpdateLink(r.code, url, r.expected)
    /\ InsertAudit("update", r.code, r.old, url, r.expected + 1, r.guessed, i)

UpdateDestination(i, url) ==
    /\ req[i].op = "update" /\ Writes < MaxWrites /\ Updated(i, url)
    /\ cache' = [cache EXCEPT ![i] = Invalidate(@, req[i].code)]
    /\ req' = [req EXCEPT ![i] = Idle]
    /\ UNCHANGED <<keys, events, totals, now, origin, acked, faults, buffer, flushed>>

\* 409: the link is at another version.
UpdateConflicts(i) ==
    /\ req[i].op = "update" /\ links[req[i].code].version # req[i].expected
    /\ req' = [req EXCEPT ![i] = Idle] /\ UNCHANGED <<store, cache, buffer, flushed>>

\* DELETE /v1/links/{code}.
Disable(i, c) ==
    /\ req[i] = Idle /\ c \in Known /\ Writes < MaxWrites
    /\ DisableLink(c)
    /\ InsertAudit("disable", c, links[c].url, links[c].url, links[c].version, FALSE, i)
    /\ cache' = [cache EXCEPT ![i] = Invalidate(@, c)]
    /\ UNCHANGED <<keys, events, totals, now, origin, acked, faults, req, buffer, flushed>>

-------------------------------------------------------------------------------
(* Redirects and their clicks *)

\* record_clicks(): the events and their totals in one transaction.
RecordClicks(batch) == /\ events' = [c \in Codes |-> events[c] + batch[c]]
                       /\ totals' = [c \in Codes |-> totals[c] + batch[c]]

\* Faulty: the buffer is emptied only after the write.
FlushKeeping(i, batch) ==
    /\ flushed' = [flushed EXCEPT ![i] = 0]
    /\ buffer' = [buffer EXCEPT ![i] = batch]
    /\ RecordClicks(batch) /\ UNCHANGED faults

\* flush(): the buffer is emptied and then written; a write that fails loses it.
Flush(i, batch) ==
    /\ flushed' = [flushed EXCEPT ![i] = 0]
    /\ buffer' = [buffer EXCEPT ![i] = NoClicks]
    /\ \/ RecordClicks(batch) /\ UNCHANGED faults
       \/ batch # NoClicks /\ Fault /\ UNCHANGED <<events, totals>>

\* GET /{code}: cache, database, is_servable at this instant, record(), 307.
Resolve(i, c) ==
    /\ req[i] = Idle /\ c \in Known /\ Redirects < MaxClicks
    /\ cache' = [cache EXCEPT ![i] = Touch(@, c)]
    /\ IF Servable(Lookup(i, c))
       THEN /\ acked' = [acked EXCEPT ![c] = @ + 1]
            /\ LET batch == [buffer[i] EXCEPT ![c] = @ + 1] IN
               IF flushed[i] >= FlushInterval
               THEN Flush(i, batch)
               ELSE /\ buffer' = [buffer EXCEPT ![i] = batch]
                    /\ UNCHANGED <<events, totals, flushed, faults>>
       ELSE UNCHANGED <<acked, buffer, events, totals, flushed, faults>>
    /\ UNCHANGED <<links, keys, audit, now, origin, req>>

\* GET /v1/links/{code}/stats flushes before it reads.
Stats(i) == /\ req[i] = Idle /\ Known # {} /\ Flush(i, buffer[i])
            /\ UNCHANGED <<links, keys, audit, now, origin, acked, req, cache>>

\* The process dies and is started again: what it held in memory is gone.
CrashPy(i) ==
    /\ Fault
    /\ req' = [req EXCEPT ![i] = Idle] /\ cache' = [cache EXCEPT ![i] = << >>]
    /\ buffer' = [buffer EXCEPT ![i] = NoClicks] /\ flushed' = [flushed EXCEPT ![i] = 0]
    /\ UNCHANGED <<tables, now, origin, acked>>

PyNext(i) ==
    \/ \E k \in Keys : LookUpKey(i, k)
    \/ \E c \in Codes, url \in Urls, e \in Deadlines \cup {Never} : CreateLink(i, c, url, e)
    \/ \E c \in Codes : Disable(i, c) \/ Resolve(i, c) \/ \E v \in Versions : ReadOld(i, c, v)
    \/ \E url \in Urls : UpdateDestination(i, url)
    \/ CreateFails(i) \/ UpdateConflicts(i) \/ Stats(i) \/ CrashPy(i)
===============================================================================
