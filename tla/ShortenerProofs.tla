---------------------------- MODULE ShortenerProofs ----------------------------
(* For any number of instances of the Python service and threads of the Rust *)
(* service on one database: an idempotency key names its link, together they *)
(* keep the contract about links, and what the audit trail tells, what the   *)
(* caches answer and what becomes of the clicks.                             *)
EXTENDS Shorteners, TLAPS, FiniteSetTheorems, SequenceTheorems

Expiries == Deadlines \cup {Never}
NewLink(url, expires) == [url |-> url, expires |-> expires, disabled |-> FALSE, version |-> 1,
                          named |-> 0]

\* A key names a link that was created under it.
KeysOK == \A k \in DOMAIN keys : keys[k] \in DOMAIN origin /\ origin[keys[k]].key = k

\* A link that nobody knows is as it was inserted.
Pristine == \A c \in HalfMade : \E url \in Urls, e \in Expiries : links[c] = NewLink(url, e)

\* What a request holds between its steps.
ReqOK ==
    /\ DOMAIN req = Pys
    /\ \A i \in Pys : /\ req[i].op = "create" => req[i].key \in Keys
                      /\ req[i].op = "update" => req[i].code \in Known /\ req[i].expected \in Versions

\* The mutex is held by one thread, and a link whose key is about to be
\* inserted lost that key, if at all, to the Python service.
RsOK ==
    /\ DOMAIN rs = Rss
    /\ \A t, u \in Rss : rs[t] # RsIdle /\ rs[u] # RsIdle => t = u
    /\ \A t \in Rss :
        /\ rs[t].op = "update" => rs[t].code \in Known /\ rs[t].expected \in Versions
        /\ rs[t].op = "key" =>
              /\ rs[t].code \in HalfMade /\ rs[t].key \in Keys
              /\ origin[rs[t].code].key = rs[t].key
              /\ rs[t].key \in DOMAIN keys => origin[keys[rs[t].key]].by \in Pys

LinkInv == /\ DOMAIN links \subseteq Codes /\ DOMAIN origin \subseteq DOMAIN links
           /\ faults \in Nat
           /\ KeysOK /\ Pristine /\ ReqOK /\ RsOK /\ KeyNamesItsLink

-------------------------------------------------------------------------------
(* What a step does to the links and the keys *)

LinksKept == UNCHANGED <<links, keys, origin>>

\* A link that is known at once: without a key, or under one a Python
\* instance inserts with it.
Published(i, c, url, e, key) ==
    /\ i \in Pys \cup Rss /\ c \in Codes /\ url \in Urls /\ e \in Expiries
    /\ InsertLink(c, url, e, key, i)
    /\ \/ key = NoKey /\ UNCHANGED keys
       \/ key \in Keys /\ i \in Pys /\ InsertKey(key, c)

\* A link whose key thread t will insert.
Inserting(t, c, url, e, key) ==
    /\ t \in Rss /\ c \in Codes /\ url \in Urls /\ e \in Expiries /\ key \in Keys \ DOMAIN keys
    /\ MutexFree /\ InsertLink(c, url, e, key, t) /\ UNCHANGED keys
    /\ rs' = [rs EXCEPT ![t] = [op |-> "key", code |-> c, key |-> key]]

\* Thread t inserts its key.
Keyed(t) == /\ t \in Rss /\ rs[t].op = "key" /\ Free(t)
            /\ InsertKey(rs[t].key, rs[t].code) /\ UNCHANGED <<links, origin>>

\* A row that clients know is written.
Written(c) ==
    /\ c \in Known /\ UNCHANGED <<keys, origin>>
    /\ \/ \E url \in Urls, v \in Versions :
             /\ links[c].version = v
             /\ links' = [links EXCEPT ![c].url = url, ![c].version = @ + 1, ![c].named = v]
       \/ DisableLink(c)

\* Who is known stays known and with the same origin, and a key stays bound.
Grows == /\ DOMAIN links \subseteq DOMAIN links' /\ Known \subseteq Known'
         /\ DOMAIN links' \subseteq Codes /\ DOMAIN origin' \subseteq DOMAIN links'
         /\ \A c \in DOMAIN origin : c \in DOMAIN origin' /\ origin'[c] = origin[c]
         /\ \A k \in DOMAIN keys : k \in DOMAIN keys' /\ keys'[k] = keys[k]

LEMMA KeptGrows == ASSUME LinkInv, LinksKept
                   PROVE  Grows /\ KeysOK' /\ Pristine' /\ HalfMade' = HalfMade
  BY DEF LinkInv, LinksKept, Grows, KeysOK, Pristine, HalfMade, Known

LEMMA PublishedGrows ==
    ASSUME LinkInv, NEW i, NEW c, NEW url, NEW e, NEW key, Published(i, c, url, e, key)
    PROVE  /\ Grows /\ KeysOK' /\ Pristine' /\ HalfMade' = HalfMade
           /\ Known' = Known \cup {c} /\ c \notin HalfMade
           /\ \A k \in DOMAIN keys' \ DOMAIN keys : origin'[keys'[k]].by \in Pys
  <1>1. c \notin DOMAIN links /\ c \notin DOMAIN origin /\ c \in Codes
    BY DEF LinkInv, Published, InsertLink
  <1>2. /\ links' = With(links, c, NewLink(url, e))
        /\ DOMAIN links' = DOMAIN links \cup {c}
        /\ \A d \in DOMAIN links : links'[d] = links[d]
    BY <1>1 DEF Published, InsertLink, NewLink, With
  <1>3. CASE key = NoKey
    <2>1. origin' = origin /\ keys' = keys
      BY <1>3, KeysAssumption DEF Published, InsertLink
    <2> QED
      BY <1>1, <1>2, <2>1 DEF LinkInv, Grows, KeysOK, Pristine, HalfMade, Known
  <1>4. CASE key # NoKey
    <2>1. /\ DOMAIN origin' = DOMAIN origin \cup {c} /\ origin'[c] = [key |-> key, by |-> i]
          /\ \A d \in DOMAIN origin : origin'[d] = origin[d]
      BY <1>1, <1>4 DEF Published, InsertLink, With
    <2>2. /\ key \notin DOMAIN keys /\ i \in Pys
          /\ DOMAIN keys' = DOMAIN keys \cup {key} /\ keys'[key] = c
          /\ \A k \in DOMAIN keys : keys'[k] = keys[k]
      BY <1>4 DEF Published, InsertKey, With
    <2>3. KeysOK'
      BY <2>1, <2>2 DEF LinkInv, KeysOK
    <2>4. HalfMade' = HalfMade
      BY <1>1, <2>1, <2>2 DEF LinkInv, KeysOK, HalfMade
    <2>5. Pristine'
      BY <1>1, <1>2, <2>4 DEF LinkInv, Pristine, HalfMade
    <2> QED
      BY <1>1, <1>2, <2>1, <2>2, <2>3, <2>4, <2>5 DEF LinkInv, Grows, HalfMade, Known
  <1> QED
    BY <1>3, <1>4

LEMMA InsertingGrows ==
    ASSUME LinkInv, NEW t, NEW c, NEW url, NEW e, NEW key, Inserting(t, c, url, e, key)
    PROVE  /\ Grows /\ KeysOK' /\ Pristine' /\ HalfMade' = HalfMade \cup {c}
           /\ Known' = Known /\ c \notin DOMAIN links
           /\ origin'[c] = [key |-> key, by |-> t]
  <1>1. c \notin DOMAIN links /\ c \notin DOMAIN origin /\ key # NoKey
    BY KeysAssumption DEF LinkInv, Inserting, InsertLink
  <1>2. /\ DOMAIN links' = DOMAIN links \cup {c} /\ links'[c] = NewLink(url, e)
        /\ \A d \in DOMAIN links : links'[d] = links[d]
    BY <1>1 DEF Inserting, InsertLink, NewLink, With
  <1>3. /\ DOMAIN origin' = DOMAIN origin \cup {c}
        /\ origin'[c] = [key |-> key, by |-> t]
        /\ \A d \in DOMAIN origin : origin'[d] = origin[d]
    BY <1>1 DEF Inserting, InsertLink, With
  <1>4. keys' = keys /\ key \notin DOMAIN keys /\ url \in Urls /\ e \in Expiries
        /\ c \in Codes
    BY DEF Inserting
  <1>5. HalfMade' = HalfMade \cup {c}
    BY <1>1, <1>3, <1>4 DEF HalfMade
  <1>6. Pristine'
    BY <1>1, <1>2, <1>4, <1>5 DEF LinkInv, Pristine, HalfMade
  <1>7. KeysOK'
    BY <1>3, <1>4 DEF LinkInv, KeysOK
  <1> QED
    BY <1>1, <1>2, <1>3, <1>4, <1>5, <1>6, <1>7 DEF LinkInv, Grows, Known, HalfMade

LEMMA KeyedGrows ==
    ASSUME LinkInv, NEW t, Keyed(t)
    PROVE  /\ Grows /\ KeysOK' /\ Pristine' /\ HalfMade' = HalfMade \ {rs[t].code}
           /\ Known' = Known \cup {rs[t].code} /\ rs[t].code \in HalfMade
  <1> DEFINE k == rs[t].key
             c == rs[t].code
  <1>1. c \in HalfMade /\ c \in DOMAIN origin /\ origin[c].key = k
    BY DEF LinkInv, RsOK, Keyed, HalfMade
  <1>2. /\ k \notin DOMAIN keys /\ DOMAIN keys' = DOMAIN keys \cup {k} /\ keys'[k] = c
        /\ \A j \in DOMAIN keys : keys'[j] = keys[j]
    BY DEF Keyed, InsertKey, With
  <1>3. links' = links /\ origin' = origin
    BY DEF Keyed
  <1>4. KeysOK'
    BY <1>1, <1>2, <1>3 DEF LinkInv, KeysOK
  <1>5. HalfMade' = HalfMade \ {c}
    BY <1>1, <1>2, <1>3 DEF HalfMade
  <1>6. Pristine'
    BY <1>3, <1>5 DEF LinkInv, Pristine
  <1> QED
    BY <1>1, <1>2, <1>3, <1>4, <1>5, <1>6 DEF LinkInv, Grows, Known

LEMMA WrittenGrows ==
    ASSUME LinkInv, NEW c, Written(c)
    PROVE  Grows /\ KeysOK' /\ Pristine' /\ HalfMade' = HalfMade
  <1>1. keys' = keys /\ origin' = origin /\ c \notin HalfMade /\ c \in DOMAIN links
    BY DEF Written, Known
  <1>2. /\ DOMAIN links' = DOMAIN links
        /\ \A d \in DOMAIN links : d # c => links'[d] = links[d]
    BY DEF Written, DisableLink
  <1>3. HalfMade' = HalfMade /\ KeysOK'
    BY <1>1 DEF HalfMade, LinkInv, KeysOK
  <1> QED
    BY <1>1, <1>2, <1>3 DEF LinkInv, Grows, Pristine, Known, HalfMade

-------------------------------------------------------------------------------
(* Every step is of one of these kinds *)

Creates == \E i \in Pys \cup Rss, c \in Codes, url \in Urls, e \in Expiries, key \in Keys \cup {NoKey} :
               Published(i, c, url, e, key)
Writing == \E c : Written(c)
Starts == \E t \in Rss, c \in Codes, url \in Urls, e \in Expiries, key \in Keys :
              Inserting(t, c, url, e, key)
Ends == \E t \in Rss : Keyed(t)

Growing == /\ Grows /\ KeysOK' /\ Pristine'
           /\ faults' \in Nat /\ faults' >= faults

LEMMA AllGrow == ASSUME LinkInv, faults' \in Nat, faults' >= faults,
                        LinksKept \/ Creates \/ Writing \/ Starts \/ Ends
                 PROVE  Growing
  BY KeptGrows, PublishedGrows, WrittenGrows, InsertingGrows, KeyedGrows
     DEF Creates, Writing, Starts, Ends, Growing

LEMMA PyStep ==
    ASSUME LinkInv, NEW i \in Pys, PyNext(i)
    PROVE  (LinksKept \/ Creates \/ Writing) /\ faults' \in Nat /\ faults' >= faults
  <1> USE DEF LinkInv
  <1>1. ASSUME NEW k \in Keys, LookUpKey(i, k) PROVE LinksKept /\ faults' = faults
    BY <1>1 DEF LookUpKey, store, LinksKept
  <1>2. ASSUME NEW c \in Codes, NEW url \in Urls, NEW e \in Expiries, CreateLink(i, c, url, e)
        PROVE  Creates /\ faults' = faults
    <2>1. Inserted(i, c, url, e, NoKey) => Published(i, c, url, e, NoKey)
      BY <1>2 DEF Inserted, Published
    <2>2. req[i].op = "create" /\ Inserted(i, c, url, e, req[i].key)
              => req[i].key \in Keys /\ Published(i, c, url, e, req[i].key)
      BY <1>2, KeysAssumption DEF Inserted, Published, ReqOK
    <2> QED
      BY <1>2, <2>1, <2>2 DEF CreateLink, Creates
  <1>3. ASSUME NEW c \in Codes, NEW v \in Versions, ReadOld(i, c, v) PROVE LinksKept /\ faults' = faults
    BY <1>3 DEF ReadOld, store, LinksKept
  <1>4. ASSUME NEW c \in Codes, Disable(i, c) PROVE Writing /\ faults' = faults
    BY <1>4 DEF Disable, Written, Writing
  <1>5. ASSUME NEW c \in Codes, Resolve(i, c)
        PROVE  LinksKept /\ faults' \in Nat /\ faults' >= faults
    BY <1>5 DEF Resolve, Flush, Fault, LinksKept
  <1>6. ASSUME NEW url \in Urls, UpdateDestination(i, url) PROVE Writing /\ faults' = faults
    <2>1. req[i].code \in Known /\ req[i].expected \in Versions
      BY <1>6 DEF UpdateDestination, ReqOK
    <2> QED
      BY <1>6, <2>1 DEF UpdateDestination, Updated, UpdateLink, Written, Writing
  <1>7. CreateFails(i) \/ UpdateConflicts(i) => LinksKept /\ faults' = faults
    BY DEF CreateFails, UpdateConflicts, store, LinksKept
  <1>8. Stats(i) \/ CrashPy(i) => LinksKept /\ faults' \in Nat /\ faults' >= faults
    BY DEF Stats, Flush, CrashPy, Fault, tables, LinksKept
  <1>9. CASE \E c \in Codes, url \in Urls, e \in Deadlines \cup {Never} : CreateLink(i, c, url, e)
    BY <1>2, <1>9 DEF Expiries
  <1> QED
    BY <1>1, <1>3, <1>4, <1>5, <1>6, <1>7, <1>8, <1>9 DEF PyNext

LEMMA RsStep ==
    ASSUME LinkInv, RsNext
    PROVE  /\ LinksKept \/ Creates \/ Writing \/ Starts \/ Ends
           /\ faults' \in Nat /\ faults' >= faults
  <1> USE DEF LinkInv
  <1>1. CASE CrashRs
    BY <1>1 DEF CrashRs, Fault, tables, LinksKept
  <1>2. ASSUME NEW t \in Rss, NEW c \in Codes, NEW url \in Urls, NEW e \in Expiries,
               NEW k \in Keys \cup {NoKey}, RsCreateLink(t, c, url, e, k)
        PROVE  (Creates \/ Starts) /\ faults' = faults
    <2>1. CASE k = NoKey
      BY <1>2, <2>1 DEF RsCreateLink, Published, Creates
    <2>2. CASE k # NoKey
      <3>1. Inserting(t, c, url, e, k) /\ k \in Keys
        BY <1>2, <2>2 DEF RsCreateLink, Inserting
      <3> QED
        BY <1>2, <3>1 DEF RsCreateLink, Starts
    <2> QED
      BY <2>1, <2>2
  <1>3. ASSUME NEW t \in Rss, NEW c \in Codes, NEW v \in Versions, RsReadOld(t, c, v)
        PROVE  LinksKept /\ faults' = faults
    BY <1>3 DEF RsReadOld, store, LinksKept
  <1>10. ASSUME NEW t \in Rss, NEW c \in Codes, RsResolve(t, c)
         PROVE  LinksKept /\ faults' \in Nat /\ faults' >= faults
    BY <1>10 DEF RsResolve, Fault, LinksKept
  <1>4. ASSUME NEW t \in Rss, NEW c \in Codes, RsDisable(t, c)
        PROVE  Writing /\ faults' = faults
    BY <1>4 DEF RsDisable, Written, Writing
  <1>5. ASSUME NEW t \in Rss, NEW url \in Urls, RsUpdateLink(t, url)
        PROVE  Writing /\ faults' = faults
    <2>1. rs[t].code \in Known /\ rs[t].expected \in Versions
      BY <1>5 DEF RsUpdateLink, RsOK
    <2> QED
      BY <1>5, <2>1 DEF RsUpdateLink, UpdateLink, Written, Writing
  <1>6. ASSUME NEW t \in Rss, RsInsertKey(t)
        PROVE  (LinksKept \/ Ends) /\ faults' = faults
    BY <1>6 DEF RsInsertKey, Keyed, Ends, LinksKept
  <1>7. ASSUME NEW t \in Rss, RsConflict(t) \/ RsAudit(t) \/ RsTotals(t)
        PROVE  LinksKept /\ faults' = faults
    BY <1>7 DEF RsConflict, RsAudit, RsTotals, store, LinksKept
  <1>8. ASSUME NEW t \in Rss, RsStatementFails(t)
        PROVE  LinksKept /\ faults' \in Nat /\ faults' >= faults
    BY <1>8 DEF RsStatementFails, Fault, tables, LinksKept
  <1>9. ASSUME NEW t \in Rss, \E c \in Codes, url \in Urls, e \in Deadlines \cup {Never},
                                   k \in Keys \cup {NoKey} : RsCreateLink(t, c, url, e, k)
        PROVE  (Creates \/ Starts) /\ faults' = faults
    BY <1>2, <1>9 DEF Expiries
  <1> DEFINE Goal == /\ LinksKept \/ Creates \/ Writing \/ Starts \/ Ends
                     /\ faults' \in Nat /\ faults' >= faults
  <1>11. ASSUME NEW t \in Rss, NEW c \in Codes,
                RsDisable(t, c) \/ RsResolve(t, c) \/ \E v \in Versions : RsReadOld(t, c, v)
         PROVE  Goal
    BY <1>3, <1>4, <1>10, <1>11
  <1>12. ASSUME NEW t \in Rss, \E url \in Urls : RsUpdateLink(t, url) PROVE Goal
    BY <1>5, <1>12
  <1>13. ASSUME NEW t \in Rss,
                \/ RsInsertKey(t) \/ RsConflict(t) \/ RsAudit(t) \/ RsTotals(t) \/ RsStatementFails(t)
         PROVE  Goal
    BY <1>6, <1>7, <1>8, <1>13
  <1>14. CrashRs => Goal
    BY <1>1
  <1>15. ASSUME NEW t \in Rss, \E c \in Codes, url \in Urls, e \in Deadlines \cup {Never},
                                    k \in Keys \cup {NoKey} : RsCreateLink(t, c, url, e, k)
         PROVE  Goal
    BY <1>9, <1>15
  <1> HIDE DEF Goal
  <1>16. Goal
    BY <1>11, <1>12, <1>13, <1>14, <1>15 DEF RsNext
  <1> QED
    BY <1>16 DEF Goal

-------------------------------------------------------------------------------
(* The invariant *)

LEMMA StepKinds ==
    ASSUME LinkInv, [Next]_vars
    PROVE  (LinksKept \/ Creates \/ Writing \/ Starts \/ Ends) /\ Growing
  <1>1. CASE UNCHANGED vars
    BY <1>1, AllGrow DEF vars, store, LinksKept, LinkInv
  <1>2. CASE Tick
    BY <1>2, AllGrow DEF Tick, LinksKept, LinkInv
  <1> QED
    BY <1>1, <1>2, PyStep, RsStep, AllGrow DEF Next

LEMMA ReqStep == ASSUME LinkInv, [Next]_vars, Growing PROVE ReqOK'
  <1>1. Known \subseteq Known' /\ ReqOK
    BY DEF Growing, Grows, LinkInv
  <1>2. CASE UNCHANGED req
    BY <1>1, <1>2 DEF ReqOK
  <1>3. ASSUME NEW i \in Pys, req' = [req EXCEPT ![i] = Idle] PROVE ReqOK'
    BY <1>1, <1>3 DEF ReqOK, Idle
  <1>4. ASSUME NEW i \in Pys, NEW k \in Keys, LookUpKey(i, k) PROVE ReqOK'
    BY <1>1, <1>4 DEF LookUpKey, ReqOK
  <1>5. ASSUME NEW i \in Pys, NEW c \in Codes, NEW v \in Versions, ReadOld(i, c, v) PROVE ReqOK'
    BY <1>1, <1>5 DEF ReadOld, ReadRow, ReqOK
  <1>6. ASSUME NEW i \in Pys, PyNext(i)
        PROVE  \/ \E k \in Keys : LookUpKey(i, k)
               \/ \E c \in Codes, v \in Versions : ReadOld(i, c, v)
               \/ UNCHANGED req \/ req' = [req EXCEPT ![i] = Idle]
    BY <1>6 DEF PyNext, CreateLink, Disable, Resolve, UpdateDestination, CreateFails,
                UpdateConflicts, Stats, CrashPy
  <1>7. ASSUME NEW i \in Pys, PyNext(i) PROVE ReqOK'
    BY <1>2, <1>3, <1>4, <1>5, <1>6, <1>7
  <1> QED
    BY <1>2, <1>7 DEF Next, Tick, vars, pyVars

\* What a thread that is to insert its key holds on to.
Holds(t) == /\ rs[t].code \in HalfMade /\ rs[t].key \in Keys
            /\ origin[rs[t].code].key = rs[t].key
            /\ rs[t].key \in DOMAIN keys => origin[keys[rs[t].key]].by \in Pys

LEMMA HolderKeeps ==
    ASSUME LinkInv, LinksKept \/ Creates \/ Writing, Growing,
           NEW t \in Rss, rs[t].op = "key", rs'[t] = rs[t]
    PROVE  Holds(t)'
  <1>1. HalfMade' = HalfMade /\ \A k \in DOMAIN keys' \ DOMAIN keys : origin'[keys'[k]].by \in Pys
    <2>1. CASE LinksKept
      BY <2>1, KeptGrows DEF LinksKept
    <2>2. CASE Creates
      BY <2>2, PublishedGrows DEF Creates
    <2>3. CASE Writing
      <3>1. PICK c : Written(c)
        BY <2>3 DEF Writing
      <3> QED
        BY <3>1, WrittenGrows DEF Written
    <2> QED
      BY <2>1, <2>2, <2>3
  <1>2. Holds(t)
    BY DEF LinkInv, RsOK, Holds
  <1>3. rs[t].key \in DOMAIN keys => keys[rs[t].key] \in DOMAIN origin
    BY DEF LinkInv, KeysOK
  <1> QED
    BY <1>1, <1>2, <1>3 DEF Growing, Grows, Holds, HalfMade

\* Where the threads of the Rust service may be after a step.
LEMMA RsMoves ==
    ASSUME LinkInv, [Next]_vars
    PROVE  \/ UNCHANGED rs /\ (LinksKept \/ Creates \/ Writing)
           \/ rs' = [t \in Rss |-> RsIdle] /\ faults' > 0
           \/ \E t \in Rss : \/ RsInsertKey(t)
                             \/ /\ rs[t].op # "key" \/ faults' > 0
                                /\ rs[t] # RsIdle /\ Free(t)
                             \/ RsUpdateLink(t, rs'[t].new) /\ rs'[t].op = "audit"
                             \/ /\ MutexFree
                                /\ \E r : /\ r.op # "key" /\ r.code \in Known
                                          /\ r.op = "update" => r.expected \in Versions
                                          /\ rs' = [rs EXCEPT ![t] = r]
                             \/ Starts
  <1>1. CASE UNCHANGED vars
    BY <1>1 DEF vars, store, LinksKept
  <1>2. CASE Tick
    BY <1>2 DEF Tick, LinksKept
  <1>3. ASSUME NEW i \in Pys, PyNext(i), UNCHANGED rs PROVE LinksKept \/ Creates \/ Writing
    BY <1>3, PyStep
  <1>4. CASE CrashRs
    BY <1>4 DEF CrashRs, Fault, LinkInv
  <1> DEFINE Moved(t) == \/ UNCHANGED rs /\ (LinksKept \/ Creates \/ Writing)
                         \/ RsInsertKey(t)
                         \/ /\ rs[t].op # "key" \/ faults' > 0
                            /\ rs[t] # RsIdle /\ Free(t)
                         \/ RsUpdateLink(t, rs'[t].new) /\ rs'[t].op = "audit"
                         \/ /\ MutexFree
                            /\ \E r : /\ r.op # "key" /\ r.code \in Known
                                      /\ r.op = "update" => r.expected \in Versions
                                      /\ rs' = [rs EXCEPT ![t] = r]
                         \/ Starts
  <1>5. ASSUME NEW t \in Rss, NEW c \in Codes, NEW url \in Urls, NEW e \in Expiries,
               NEW k \in Keys \cup {NoKey}, RsCreateLink(t, c, url, e, k)
        PROVE  Moved(t)
    <2>1. CASE k = NoKey
      BY <1>5, <2>1 DEF RsCreateLink, Published, Creates
    <2>2. CASE k # NoKey
      <3>1. Inserting(t, c, url, e, k) /\ k \in Keys
        BY <1>5, <2>2 DEF RsCreateLink, Inserting
      <3> QED
        BY <3>1 DEF Starts
    <2> QED
      BY <2>1, <2>2
  <1>6. ASSUME NEW t \in Rss, NEW c \in Codes, NEW v \in Versions, RsReadOld(t, c, v) PROVE Moved(t)
    BY <1>6 DEF RsReadOld, ReadRow
  <1>7. ASSUME NEW t \in Rss, NEW c \in Codes, RsDisable(t, c) PROVE Moved(t)
    BY <1>7 DEF RsDisable
  <1>8. ASSUME NEW t \in Rss, NEW c \in Codes, RsResolve(t, c) PROVE Moved(t)
    BY <1>8 DEF RsResolve, LinksKept
  <1>9. ASSUME NEW t \in Rss, NEW url \in Urls, RsUpdateLink(t, url) PROVE Moved(t)
    BY <1>9 DEF RsUpdateLink, LinkInv, RsOK
  <1>10. ASSUME NEW t \in Rss, RsConflict(t) \/ RsAudit(t) \/ RsTotals(t) PROVE Moved(t)
    BY <1>10 DEF RsConflict, RsAudit, RsTotals, RsIdle
  <1>11. ASSUME NEW t \in Rss, RsStatementFails(t) PROVE Moved(t)
    BY <1>11 DEF RsStatementFails, Fault, LinkInv
  <1>12. ASSUME RsNext, ~CrashRs PROVE \E t \in Rss : Moved(t)
    BY <1>5, <1>6, <1>7, <1>8, <1>9, <1>10, <1>11, <1>12 DEF RsNext, Expiries
  <1> HIDE DEF Moved
  <1>13. ASSUME RsNext PROVE CrashRs \/ \E t \in Rss : Moved(t)
    BY <1>12, <1>13
  <1> QED
    BY <1>1, <1>2, <1>3, <1>4, <1>13 DEF Next, Moved

LEMMA RsKept == ASSUME LinkInv, [Next]_vars, Growing PROVE RsOK'
  <1>1. RsOK /\ Known \subseteq Known'
    BY DEF LinkInv, Growing, Grows
  <1>2. CASE UNCHANGED rs /\ (LinksKept \/ Creates \/ Writing)
    <2>1. ASSUME NEW t \in Rss, rs[t].op = "key" PROVE Holds(t)'
      BY <1>2, <2>1, HolderKeeps
    <2> QED
      BY <1>1, <1>2, <2>1 DEF RsOK, Holds
  <1>3. CASE rs' = [t \in Rss |-> RsIdle]
    BY <1>3 DEF RsOK, RsIdle
  <1>4. ASSUME NEW t \in Rss, NEW r, rs' = [rs EXCEPT ![t] = r], rs[t] # RsIdle \/ MutexFree,
               r.op # "key", r.op = "update" => r.code \in Known' /\ r.expected \in Versions
        PROVE  RsOK'
    <2>1. \A u \in Rss : u # t => rs'[u] = RsIdle
      BY <1>1, <1>4 DEF RsOK, MutexFree
    <2>2. DOMAIN rs' = Rss /\ rs'[t] = r
      BY <1>1, <1>4 DEF RsOK
    <2>3. ASSUME NEW u \in Rss
          PROVE  rs'[u].op # "key" /\ (rs'[u].op = "update" => rs'[u].code \in Known' /\ rs'[u].expected \in Versions)
      BY <1>4, <2>1, <2>2 DEF RsIdle
    <2>4. \A u, v \in Rss : rs'[u] # RsIdle /\ rs'[v] # RsIdle => u = v
      BY <2>1
    <2> QED
      BY <2>2, <2>3, <2>4 DEF RsOK
  <1>5. ASSUME NEW t \in Rss, rs[t] # RsIdle, Free(t) PROVE RsOK'
    <2>1. RsIdle.op = "idle"
      BY DEF RsIdle
    <2> QED
      BY <1>4, <1>5, <2>1 DEF Free
  <1>6. ASSUME NEW t \in Rss, RsInsertKey(t) PROVE RsOK'
    BY <1>5, <1>6 DEF RsInsertKey, RsIdle
  <1>7. ASSUME NEW t \in Rss, RsUpdateLink(t, rs'[t].new), rs'[t].op = "audit" PROVE RsOK'
    <2>1. PICK r : rs' = [rs EXCEPT ![t] = r]
      BY <1>7 DEF RsUpdateLink
    <2>2. rs'[t] = r /\ rs[t] # RsIdle
      BY <1>1, <1>7, <2>1 DEF RsOK, RsUpdateLink, RsIdle
    <2> QED
      BY <1>4, <1>7, <2>1, <2>2
  <1>8. ASSUME NEW t \in Rss, MutexFree, NEW r, r.op # "key", r.code \in Known,
               r.op = "update" => r.expected \in Versions,
               rs' = [rs EXCEPT ![t] = r]
        PROVE  RsOK'
    BY <1>1, <1>4, <1>8
  <1>9. ASSUME NEW t \in Rss, NEW c \in Codes, NEW url \in Urls, NEW e \in Expiries,
               NEW k \in Keys, Inserting(t, c, url, e, k)
        PROVE  RsOK'
    <2>1. /\ DOMAIN rs' = Rss /\ rs'[t] = [op |-> "key", code |-> c, key |-> k]
          /\ \A u \in Rss : u # t => rs'[u] = RsIdle
      BY <1>1, <1>9 DEF Inserting, MutexFree, RsOK
    <2>2. c \in HalfMade' /\ origin'[c] = [key |-> k, by |-> t]
      BY <1>9, InsertingGrows
    <2>6. origin'[c].key = k /\ k \notin DOMAIN keys'
      BY <1>9, <2>2 DEF Inserting
    <2>3. ASSUME NEW u \in Rss
          PROVE  /\ rs'[u].op # "update"
                 /\ rs'[u].op = "key" => u = t
      BY <2>1 DEF RsIdle
    <2>4. rs'[t].code = c /\ rs'[t].key = k
      BY <2>1
    <2>5. \A u, v \in Rss : rs'[u] # RsIdle /\ rs'[v] # RsIdle => u = v
      BY <2>1
    <2> QED
      BY <2>1, <2>2, <2>3, <2>4, <2>5, <2>6 DEF RsOK
  <1> QED
    BY <1>2, <1>3, <1>5, <1>6, <1>7, <1>8, <1>9, RsMoves DEF Starts

LEMMA KeyNamesKept == ASSUME LinkInv, [Next]_vars, Growing PROVE KeyNamesItsLink'
  <1>1. SUFFICES ASSUME NEW c \in HalfMade'
                 PROVE  LET k == origin'[c].key IN
                        /\ origin'[c].by \in Rss
                        /\ \/ Doing("key", c)' \/ faults' > 0
                           \/ k \in DOMAIN keys' /\ origin'[keys'[k]].by \in Pys
    BY DEF KeyNamesItsLink
  <1>2. c \in HalfMade \/ \E t \in Rss : \E url, e, k : Inserting(t, c, url, e, k)
    <2>1. CASE LinksKept
      BY <2>1, KeptGrows
    <2>2. CASE Creates
      BY <2>2, PublishedGrows DEF Creates
    <2>3. CASE Writing
      BY <2>3, WrittenGrows DEF Writing
    <2>4. CASE Starts
      <3>1. PICK t \in Rss, d \in Codes, url \in Urls, e \in Expiries, k \in Keys :
                Inserting(t, d, url, e, k)
        BY <2>4 DEF Starts
      <3>2. HalfMade' = HalfMade \cup {d}
        BY <3>1, InsertingGrows
      <3> QED
        BY <3>1, <3>2
    <2>5. CASE Ends
      BY <2>5, KeyedGrows DEF Ends
    <2> QED
      BY <2>1, <2>2, <2>3, <2>4, <2>5, StepKinds
  <1>3. ASSUME NEW t \in Rss, NEW url, NEW e, NEW k, Inserting(t, c, url, e, k)
        PROVE  origin'[c].by \in Rss /\ Doing("key", c)'
    <2>1. origin'[c] = [key |-> k, by |-> t]
      BY <1>3, InsertingGrows
    <2>2. rs'[t] = [op |-> "key", code |-> c, key |-> k]
      BY <1>3 DEF Inserting, LinkInv, RsOK
    <2> QED
      BY <2>1, <2>2 DEF Doing
  <1>4. CASE c \in HalfMade
    <2>1. c \in DOMAIN origin /\ origin'[c] = origin[c] /\ origin[c].by \in Rss
      BY <1>4 DEF HalfMade, Growing, Grows, LinkInv, KeyNamesItsLink
    <2> DEFINE k == origin[c].key
    <2>2. k \in DOMAIN keys /\ origin[keys[k]].by \in Pys
            => k \in DOMAIN keys' /\ origin'[keys'[k]].by \in Pys
      BY DEF LinkInv, KeysOK, Growing, Grows
    <2>3. faults > 0 => faults' > 0
      BY DEF Growing, LinkInv
    <2>4. ASSUME NEW t \in Rss, rs[t].op = "key", rs[t].code = c
          PROVE  \/ rs'[t] = rs[t] \/ faults' > 0
                 \/ k \in DOMAIN keys /\ origin[keys[k]].by \in Pys
      <3>1. k = rs[t].key /\ rs[t] # RsIdle /\ ~MutexFree
        BY <2>4 DEF LinkInv, RsOK, MutexFree, RsIdle
      <3>2. ASSUME NEW u \in Rss, RsInsertKey(u)
            PROVE  k \in DOMAIN keys /\ origin[keys[k]].by \in Pys
        <4>1. u = t
          BY <3>1, <3>2 DEF RsInsertKey, LinkInv, RsOK, RsIdle
        <4>2. CASE k \in DOMAIN keys
          BY <2>4, <3>1, <4>2 DEF LinkInv, RsOK
        <4>3. CASE k \notin DOMAIN keys
          <5>1. Keyed(t)
            BY <3>1, <3>2, <4>1, <4>3 DEF RsInsertKey, Keyed
          <5> QED
            BY <2>4, <5>1, KeyedGrows
        <4> QED
          BY <4>2, <4>3
      <3>3. ASSUME NEW u \in Rss, rs[u].op # "key" \/ faults' > 0, rs[u] # RsIdle, Free(u)
            PROVE  faults' > 0
        BY <2>4, <3>1, <3>3 DEF LinkInv, RsOK
      <3>4. ASSUME NEW u \in Rss, RsUpdateLink(u, rs'[u].new)
            PROVE  FALSE
        BY <2>4, <3>1, <3>4 DEF RsUpdateLink, LinkInv, RsOK, RsIdle
      <3>5. ~Starts
        BY <3>1 DEF Starts, Inserting
      <3> QED
        BY <3>1, <3>2, <3>3, <3>4, <3>5, RsMoves
    <2>5. Doing("key", c) => \/ Doing("key", c)' \/ faults' > 0
                             \/ k \in DOMAIN keys /\ origin[keys[k]].by \in Pys
      BY <2>4 DEF Doing
    <2>6. \/ Doing("key", c) \/ faults > 0
          \/ k \in DOMAIN keys /\ origin[keys[k]].by \in Pys
      BY <1>4 DEF LinkInv, KeyNamesItsLink
    <2> QED
      BY <2>1, <2>2, <2>3, <2>5, <2>6
  <1> QED
    BY <1>2, <1>3, <1>4

LEMMA InvInit == Init => LinkInv
  <1> SUFFICES ASSUME Init PROVE LinkInv
    OBVIOUS
  <1>1. DOMAIN links = {} /\ DOMAIN keys = {} /\ DOMAIN origin = {} /\ faults = 0
    BY DEF Init, StoreInit
  <1>2. HalfMade = {}
    BY <1>1 DEF HalfMade
  <1>3. ReqOK
    BY DEF Init, PyInit, ReqOK, Idle
  <1>4. RsOK
    BY DEF Init, RsInit, RsOK, RsIdle
  <1> QED
    BY <1>1, <1>2, <1>3, <1>4 DEF LinkInv, KeysOK, Pristine, KeyNamesItsLink

LEMMA InvStep == LinkInv /\ [Next]_vars => LinkInv'
  <1> SUFFICES ASSUME LinkInv, [Next]_vars PROVE LinkInv'
    OBVIOUS
  <1> QED
    BY StepKinds, ReqStep, RsKept, KeyNamesKept DEF LinkInv, Growing, Grows

LEMMA InvAlways == Spec => []LinkInv
  BY InvInit, InvStep, PTL DEF Spec

\* However the instances and threads interleave, fail and die, a link that was
\* created under a key is the one the key names, or one the Rust service left
\* behind (persistence.py:69, db.rs:114).
THEOREM KeyNames == Spec => []KeyNamesItsLink
  BY InvAlways, PTL DEF LinkInv

-------------------------------------------------------------------------------
(* The contract *)

LEMMA ContractInit == Init => Promised!Init
  <1> SUFFICES ASSUME Init PROVE visible = << >> /\ keys = << >>
    BY DEF Promised!Init
  <1>1. links = << >> /\ origin = << >> /\ keys = << >>
    BY DEF Init, StoreInit
  <1>2. DOMAIN links = {}
    BY <1>1
  <1>3. Known = {}
    BY <1>2 DEF Known
  <1> QED
    BY <1>1, <1>3 DEF visible

LEMMA ContractStep == LinkInv /\ [Next]_vars => [Promised!Next]_<<visible, keys>>
  <1> SUFFICES ASSUME LinkInv, [Next]_vars PROVE [Promised!Next]_<<visible, keys>>
    OBVIOUS
  <1> USE DEF visible
  <1>1. CASE LinksKept
    BY <1>1, KeptGrows DEF LinksKept, Known
  <1>2. ASSUME NEW i \in Pys \cup Rss, NEW c \in Codes, NEW url \in Urls, NEW e \in Expiries,
               NEW key \in Keys \cup {NoKey}, Published(i, c, url, e, key)
        PROVE  Promised!Create(c, url, e)
    <2>1. /\ c \notin Known /\ Known' = Known \cup {c}
          /\ links' = With(links, c, NewLink(url, e))
      BY <1>2, PublishedGrows DEF Published, InsertLink, NewLink, Known
    <2>2. visible' = Promised!With(visible, c, NewLink(url, e))
      BY <2>1 DEF With, Promised!With, Known
    <2>3. UNCHANGED keys \/ \E k \in Keys \ DOMAIN keys : keys' = Promised!With(keys, k, c)
      BY <1>2 DEF Published, InsertKey, With, Promised!With
    <2> QED
      BY <2>1, <2>2, <2>3 DEF Promised!Create, NewLink
  <1>3. ASSUME NEW c, Written(c)
        PROVE  /\ c \in DOMAIN visible
               /\ Promised!Disable(c) \/ \E url \in Urls, v \in Versions : Promised!Update(c, url, v)
    <2>1. c \in Known /\ Known' = Known /\ keys' = keys
      <3>1. HalfMade' = HalfMade /\ DOMAIN links' = DOMAIN links /\ c \in Known /\ keys' = keys
        BY <1>3, WrittenGrows DEF Written, DisableLink
      <3> QED
        BY <3>1 DEF Known
    <2>2. ASSUME NEW url \in Urls, NEW v \in Versions, links[c].version = v,
                 links' = [links EXCEPT ![c].url = url, ![c].version = @ + 1, ![c].named = v]
          PROVE  Promised!Update(c, url, v)
      BY <2>1, <2>2 DEF Promised!Update, Known
    <2>3. ASSUME DisableLink(c) PROVE Promised!Disable(c)
      BY <2>1, <2>3 DEF Promised!Disable, DisableLink, Known
    <2> QED
      BY <1>3, <2>1, <2>2, <2>3 DEF Written
  <1>4. CASE Starts
    <2>1. PICK t \in Rss, c \in Codes, url \in Urls, e \in Expiries, k \in Keys :
              Inserting(t, c, url, e, k)
      BY <1>4 DEF Starts
    <2>2. Known' = Known /\ c \notin DOMAIN links /\ links' = With(links, c, NewLink(url, e))
      BY <2>1, InsertingGrows DEF Inserting, InsertLink, NewLink
    <2>3. visible' = visible
      BY <2>2 DEF With, Known
    <2> QED
      BY <2>1, <2>3 DEF Inserting
  <1>5. ASSUME NEW t \in Rss, Keyed(t)
        PROVE  \E c \in Codes, url \in Urls, e \in Expiries : Promised!Create(c, url, e)
    <2> DEFINE c == rs[t].code
    <2>1. /\ c \in HalfMade /\ Known' = Known \cup {c}
          /\ links' = links
      BY <1>5, KeyedGrows DEF Keyed
    <2>2. PICK url \in Urls, e \in Expiries : links[c] = NewLink(url, e)
      BY <2>1 DEF LinkInv, Pristine
    <2>3. c \in Codes /\ c \notin Known
      BY <2>1 DEF LinkInv, HalfMade, Known
    <2>4. visible' = Promised!With(visible, c, NewLink(url, e))
      BY <2>1, <2>2, <2>3 DEF Promised!With
    <2>5. rs[t].key \in Keys /\ InsertKey(rs[t].key, c)
      BY <1>5 DEF Keyed, LinkInv, RsOK
    <2>6. \E k \in Keys \ DOMAIN keys : keys' = Promised!With(keys, k, c)
      BY <2>5 DEF InsertKey, With, Promised!With
    <2> QED
      BY <2>3, <2>4, <2>6 DEF Promised!Create, NewLink
  <1> QED
    <2>1. CASE Creates
      BY <1>2, <2>1 DEF Creates, Promised!Next, Expiries
    <2>2. CASE Writing
      BY <1>3, <2>2 DEF Writing, Promised!Next
    <2>3. CASE Ends
      BY <1>5, <2>3 DEF Ends, Promised!Next, Expiries
    <2> QED
      BY <1>1, <1>4, <2>1, <2>2, <2>3, StepKinds

\* Both services together, any number of instances and threads of them, are
\* seen by their clients as one store that creates a link and its key in one
\* step, never rebinds a key and accepts an update only of the version that it
\* names, so that none is lost (persistence.py:60, db.rs:103).
THEOREM ContractKept == Spec => KeepsContract
  BY InvAlways, ContractInit, ContractStep, PTL DEF Spec, KeepsContract, Promised!Spec

-------------------------------------------------------------------------------
(* Sums *)

Pairs(count) == UNION {{x} \X (1..count[x]) : x \in DOMAIN count}

LEMMA ColumnSize ==
    ASSUME NEW x, NEW k \in Nat
    PROVE  IsFiniteSet({x} \X (1..k)) /\ Cardinality({x} \X (1..k)) = k
  <1>1. IsFiniteSet({x}) /\ Cardinality({x}) = 1
    BY FS_Singleton
  <1>2. IsFiniteSet(1..k) /\ Cardinality(1..k) = k
    BY FS_Interval
  <1>3. /\ IsFiniteSet({x} \X (1..k))
        /\ Cardinality({x} \X (1..k)) = Cardinality({x}) * Cardinality(1..k)
    BY <1>1, <1>2, FS_Product
  <1> QED
    BY <1>1, <1>2, <1>3

\* A sum over a finite set is a number.
LEMMA TotalNat ==
    ASSUME NEW S, IsFiniteSet(S), NEW f \in [S -> Nat]
    PROVE  IsFiniteSet(Pairs(f)) /\ Total(f) \in Nat
  <1> DEFINE col == [x \in S |-> {x} \X (1..f[x])]
             cols == {col[x] : x \in S}
  <1>1. \A x \in S : IsFiniteSet(col[x])
    BY ColumnSize
  <1>2. IsFiniteSet(cols)
    <2>1. col \in Surjection(S, cols)
      BY DEF Surjection
    <2> QED
      BY <2>1, FS_Surjection
  <1>3. \A C \in cols : IsFiniteSet(C)
    BY <1>1
  <1>4. IsFiniteSet(UNION cols)
    BY <1>2, <1>3, FS_UNION
  <1>5. Pairs(f) = UNION cols
    BY DEF Pairs
  <1> QED
    BY <1>4, <1>5, FS_CardinalityType DEF Total, Pairs

\* One summand changes.
LEMMA TotalExcept ==
    ASSUME NEW S, IsFiniteSet(S), NEW f \in [S -> Nat], NEW x \in S, NEW k \in Nat
    PROVE  Total([f EXCEPT ![x] = k]) = Total(f) - f[x] + k
  <1> DEFINE g == [f EXCEPT ![x] = k]
             A == {x} \X (1..f[x])
             B == {x} \X (1..k)
             R == Pairs(f) \ A
  <1>1. /\ IsFiniteSet(Pairs(f)) /\ IsFiniteSet(R)
    BY TotalNat, FS_Difference
  <1>2. /\ IsFiniteSet(A) /\ Cardinality(A) = f[x] /\ IsFiniteSet(B) /\ Cardinality(B) = k
    BY ColumnSize
  <1>3. \A p : p \in Pairs(f) <=> \E y \in S : \E n \in 1..f[y] : p = <<y, n>>
    BY DEF Pairs
  <1>4. DOMAIN g = S /\ g[x] = k /\ \A y \in S \ {x} : g[y] = f[y]
    OBVIOUS
  <1> HIDE DEF g
  <1>5. \A p : p \in Pairs(g) <=> \E y \in S : \E n \in 1..g[y] : p = <<y, n>>
    BY <1>4 DEF Pairs
  <1>6. /\ \A p : p \in A <=> \E n \in 1..f[x] : p = <<x, n>>
        /\ \A p : p \in B <=> \E n \in 1..k : p = <<x, n>>
    OBVIOUS
  <1>7. \A p : p \in R <=> \E y \in S \ {x} : \E n \in 1..f[y] : p = <<y, n>>
    BY <1>3, <1>6
  <1> HIDE DEF R, A, B
  <1>8. Pairs(f) = R \cup A
    BY <1>3, <1>6, <1>7
  <1>9. Pairs(g) = R \cup B
    <2>1. ASSUME NEW p, p \in Pairs(g) PROVE p \in R \cup B
      BY <1>4, <1>5, <1>6, <1>7, <2>1
    <2>2. ASSUME NEW p, p \in R \cup B PROVE p \in Pairs(g)
      BY <1>4, <1>5, <1>6, <1>7, <2>2
    <2> QED
      BY <2>1, <2>2
  <1>10. R \cap A = {} /\ R \cap B = {}
    BY <1>6, <1>7
  <1>11. Cardinality(R) \in Nat /\ f[x] \in Nat
    BY <1>1, FS_CardinalityType
  <1>12. Cardinality({}) = 0
    BY FS_EmptySet
  <1>13. Cardinality(R \cup A) = Cardinality(R) + Cardinality(A) - Cardinality(R \cap A)
    BY <1>1, <1>2, FS_Union
  <1>14. Cardinality(R \cup B) = Cardinality(R) + Cardinality(B) - Cardinality(R \cap B)
    BY <1>1, <1>2, FS_Union
  <1>15. Total(f) = Cardinality(Pairs(f)) /\ Total(g) = Cardinality(Pairs(g))
    BY DEF Total, Pairs
  <1>16. Total(f) = Cardinality(R) + f[x] /\ Total(g) = Cardinality(R) + k
    <2>1. Cardinality(R \cap A) = 0 /\ Cardinality(R \cap B) = 0
      BY <1>10, <1>12, Zenon
    <2>2. Total(f) = Cardinality(R \cup A) /\ Total(g) = Cardinality(R \cup B)
      BY <1>8, <1>9, <1>15, Zenon
    <2> QED
      BY <1>2, <1>11, <1>13, <1>14, <2>1, <2>2
  <1> QED
    BY <1>11, <1>16 DEF g

LEMMA TotalZero == ASSUME NEW S, NEW f \in [S -> Nat], \A x \in S : f[x] = 0
                   PROVE  Total(f) = 0
  <1>1. Pairs(f) = {}
    BY DEF Pairs
  <1> QED
    BY <1>1, FS_EmptySet DEF Total, Pairs

-------------------------------------------------------------------------------
(* The cache *)

CacheEntry == [code : Codes, age : 0..TTL, link : Link]
\* No code is there twice.
OneEach(entries) == \A m, n \in DOMAIN entries : entries[m].code = entries[n].code => m = n

LEMMA RemoveAtProps ==
    ASSUME NEW T, NEW s \in Seq(T), NEW i \in DOMAIN s
    PROVE  /\ RemoveAt(s, i) \in Seq(T) /\ Len(RemoveAt(s, i)) = Len(s) - 1
           /\ \A n \in DOMAIN RemoveAt(s, i) :
                  RemoveAt(s, i)[n] = IF n < i THEN s[n] ELSE s[n + 1]
  <1> DEFINE a == SubSeq(s, 1, i - 1)
             b == SubSeq(s, i + 1, Len(s))
  <1>1. i \in 1..Len(s) /\ Len(s) \in Nat
    OBVIOUS
  <1>2. /\ a \in Seq(T) /\ Len(a) = i - 1 /\ b \in Seq(T) /\ Len(b) = Len(s) - i
        /\ \A n \in 1..(i - 1) : a[n] = s[n]
        /\ \A n \in 1..(Len(s) - i) : b[n] = s[i + n]
    BY <1>1
  <1> HIDE DEF a, b
  <1>3. /\ a \o b \in Seq(T) /\ Len(a \o b) = Len(s) - 1 /\ DOMAIN (a \o b) = 1..(Len(s) - 1)
        /\ \A n \in 1..(i - 1) : (a \o b)[n] = a[n]
        /\ \A n \in i..(Len(s) - 1) : (a \o b)[n] = b[n - i + 1]
    <2>1. /\ a \o b \in Seq(T) /\ Len(a \o b) = Len(a) + Len(b)
          /\ \A n \in 1..(Len(a) + Len(b)) :
                 (a \o b)[n] = IF n <= Len(a) THEN a[n] ELSE b[n - Len(a)]
      BY <1>2, ConcatProperties
    <2>2. Len(a \o b) = Len(s) - 1 /\ DOMAIN (a \o b) = 1..Len(a \o b)
      BY <1>1, <1>2, <2>1
    <2>3. \A n \in 1..(i - 1) : n \in 1..(Len(a) + Len(b)) /\ n <= Len(a)
      BY <1>1, <1>2
    <2>4. \A n \in i..(Len(s) - 1) : /\ n \in 1..(Len(a) + Len(b)) /\ ~(n <= Len(a))
                                    /\ n - Len(a) = n - i + 1
      BY <1>1, <1>2
    <2> QED
      BY <2>1, <2>2, <2>3, <2>4
  <1>4. ASSUME NEW n \in 1..(Len(s) - 1)
        PROVE  (a \o b)[n] = IF n < i THEN s[n] ELSE s[n + 1]
    <2>1. CASE n < i
      BY <1>1, <1>2, <1>3, <2>1
    <2>2. CASE ~(n < i)
      <3>1. n - i + 1 \in 1..(Len(s) - i) /\ i + (n - i + 1) = n + 1 /\ n \in i..(Len(s) - 1)
        BY <1>1, <2>2
      <3> QED
        BY <1>2, <1>3, <2>2, <3>1
    <2> QED
      BY <2>1, <2>2
  <1> QED
    BY <1>3, <1>4 DEF RemoveAt, a, b

LEMMA DropProps ==
    ASSUME NEW entries \in Seq(CacheEntry), OneEach(entries), NEW c
    PROVE  LET rest == Drop(entries, c) IN
           /\ rest \in Seq(CacheEntry) /\ Len(rest) <= Len(entries) /\ OneEach(rest)
           /\ \A n \in DOMAIN rest : rest[n].code # c /\ \E m \in DOMAIN entries : rest[n] = entries[m]
           /\ (\E n \in DOMAIN entries : entries[n].code = c) => Len(rest) < Len(entries)
  <1>1. CASE Places(entries, c) = {}
    BY <1>1 DEF Drop, Places
  <1>2. CASE Places(entries, c) # {}
    <2> DEFINE p == CHOOSE n \in Places(entries, c) : TRUE
               rest == RemoveAt(entries, p)
    <2>1. p \in DOMAIN entries /\ entries[p].code = c
      BY <1>2 DEF Places
    <2> HIDE DEF p
    <2>2. Drop(entries, c) = rest
      BY <1>2 DEF Drop, p
    <2>3. /\ rest \in Seq(CacheEntry) /\ Len(rest) = Len(entries) - 1
          /\ \A n \in DOMAIN rest : rest[n] = IF n < p THEN entries[n] ELSE entries[n + 1]
      BY <2>1, RemoveAtProps
    <2> HIDE DEF rest
    <2> DEFINE at(n) == IF n < p THEN n ELSE n + 1
    <2>4. p \in 1..Len(entries) /\ DOMAIN entries = 1..Len(entries)
          /\ DOMAIN rest = 1..(Len(entries) - 1) /\ Len(entries) \in Nat
      BY <2>1, <2>3
    <2>5. \A n \in DOMAIN rest : at(n) \in DOMAIN entries /\ at(n) # p /\ rest[n] = entries[at(n)]
      BY <2>3, <2>4
    <2>6. \A m, n \in DOMAIN rest : at(m) = at(n) => m = n
      BY <2>4
    <2> HIDE DEF at
    <2>7. OneEach(rest) /\ \A n \in DOMAIN rest : rest[n].code # c
      BY <2>1, <2>5, <2>6 DEF OneEach
    <2> QED
      BY <2>2, <2>3, <2>4, <2>5, <2>7
  <1> QED
    BY <1>1, <1>2

LEMMA AppendOneEach ==
    ASSUME NEW rest \in Seq(CacheEntry), OneEach(rest), NEW e \in CacheEntry,
           \A n \in DOMAIN rest : rest[n].code # e.code
    PROVE  LET all == Append(rest, e) IN
           /\ all \in Seq(CacheEntry) /\ Len(all) = Len(rest) + 1 /\ OneEach(all) /\ Last(all) = e
           /\ \A n \in DOMAIN all : all[n] = e \/ \E m \in DOMAIN rest : all[n] = rest[m]
  <1> DEFINE all == Append(rest, e)
  <1>1. /\ all \in Seq(CacheEntry) /\ Len(all) = Len(rest) + 1 /\ DOMAIN all = 1..(Len(rest) + 1)
        /\ DOMAIN rest = 1..Len(rest) /\ Len(rest) \in Nat
        /\ all[Len(rest) + 1] = e /\ \A n \in 1..Len(rest) : all[n] = rest[n]
    OBVIOUS
  <1> HIDE DEF all
  <1>2. \A n \in DOMAIN all : n = Len(rest) + 1 \/ n \in 1..Len(rest)
    BY <1>1
  <1>3. OneEach(all)
    BY <1>1, <1>2 DEF OneEach
  <1>4. Last(all) = e
    BY <1>1 DEF Last
  <1> QED
    BY <1>1, <1>2, <1>3, <1>4 DEF all

LEMMA PutProps ==
    ASSUME NEW entries \in Seq(CacheEntry), OneEach(entries), NEW e \in CacheEntry
    PROVE  LET all == Put(entries, e) IN
           /\ all \in Seq(CacheEntry) /\ Len(all) <= CacheSize /\ OneEach(all) /\ Last(all) = e
           /\ \A n \in DOMAIN all : all[n] = e \/ \E m \in DOMAIN entries : all[n] = entries[m]
  <1> DEFINE all == Append(Drop(entries, e.code), e)
             k == IF Len(all) > CacheSize THEN CacheSize ELSE Len(all)
             kept == SubSeq(all, Len(all) - k + 1, Len(all))
  <1>1. /\ all \in Seq(CacheEntry) /\ Len(all) >= 1 /\ OneEach(all) /\ Last(all) = e
        /\ \A n \in DOMAIN all : all[n] = e \/ \E m \in DOMAIN entries : all[n] = entries[m]
    <2>1. /\ Drop(entries, e.code) \in Seq(CacheEntry) /\ OneEach(Drop(entries, e.code))
          /\ \A n \in DOMAIN Drop(entries, e.code) :
                /\ Drop(entries, e.code)[n].code # e.code
                /\ \E m \in DOMAIN entries : Drop(entries, e.code)[n] = entries[m]
      BY DropProps
    <2> QED
      BY <2>1, AppendOneEach
  <1> HIDE DEF all
  <1>2. k \in 1..Len(all) /\ k <= CacheSize /\ Len(all) \in Nat
    BY <1>1, CacheAssumption
  <1> HIDE DEF k
  <1>3. /\ kept \in Seq(CacheEntry) /\ Len(kept) = k /\ DOMAIN kept = 1..k
        /\ \A n \in 1..k : kept[n] = all[Len(all) - k + n] /\ Len(all) - k + n \in DOMAIN all
    BY <1>1, <1>2
  <1>4. Put(entries, e) = kept
    BY DEF Put, all, k
  <1> HIDE DEF kept
  <1>5. OneEach(kept)
    <2>1. ASSUME NEW m \in 1..k, NEW n \in 1..k, kept[m].code = kept[n].code
          PROVE  m = n
      <3>1. Len(all) - k + m = Len(all) - k + n
        BY <1>1, <1>3, <2>1 DEF OneEach
      <3> QED
        BY <1>2, <3>1
    <2> QED
      BY <1>3, <2>1 DEF OneEach
  <1>6. Last(kept) = e
    BY <1>1, <1>2, <1>3 DEF Last
  <1> QED
    BY <1>1, <1>2, <1>3, <1>4, <1>5, <1>6

\* What a look-up leaves in the cache, and what it answers.
LEMMA TouchProps ==
    ASSUME NEW entries \in Seq(CacheEntry), OneEach(entries), Len(entries) <= CacheSize,
           NEW c \in Codes, links[c] \in Link
    PROVE  LET all == Touch(entries, c)
               read == [code |-> c, age |-> 0, link |-> links[c]]
           IN /\ all \in Seq(CacheEntry) /\ Len(all) <= CacheSize /\ OneEach(all)
              /\ \A n \in DOMAIN all : all[n] = read \/ \E m \in DOMAIN entries : all[n] = entries[m]
              /\ \/ Last(all) = read
                 \/ \E m \in DOMAIN entries : /\ Last(all) = entries[m] /\ entries[m].code = c
                                              /\ entries[m].age < TTL
  <1> DEFINE read == [code |-> c, age |-> 0, link |-> links[c]]
  <1>1. CASE Fresh(entries, c) = {}
    <2>1. read \in CacheEntry
      BY StoreAssumption DEF CacheEntry
    <2>2. Touch(entries, c) = Put(entries, read)
      BY <1>1 DEF Touch
    <2> HIDE DEF read
    <2>3. /\ Put(entries, read) \in Seq(CacheEntry) /\ Len(Put(entries, read)) <= CacheSize
          /\ OneEach(Put(entries, read)) /\ Last(Put(entries, read)) = read
          /\ \A n \in DOMAIN Put(entries, read) :
                \/ Put(entries, read)[n] = read
                \/ \E m \in DOMAIN entries : Put(entries, read)[n] = entries[m]
      BY <2>1, PutProps
    <2> QED
      BY <2>2, <2>3 DEF read
  <1>2. CASE Fresh(entries, c) # {}
    <2> DEFINE m == CHOOSE n \in Fresh(entries, c) : TRUE
               rest == Drop(entries, c)
               all == Append(rest, entries[m])
    <2>1. m \in DOMAIN entries /\ entries[m].code = c /\ entries[m].age < TTL
      BY <1>2 DEF Fresh, Places
    <2>2. Touch(entries, c) = all
      BY <1>2 DEF Touch, Found
    <2> HIDE DEF m
    <2>3. /\ rest \in Seq(CacheEntry) /\ OneEach(rest) /\ Len(rest) < Len(entries)
          /\ \A n \in DOMAIN rest : rest[n].code # c /\ \E k \in DOMAIN entries : rest[n] = entries[k]
      BY <2>1, DropProps
    <2>4. entries[m] \in CacheEntry
      BY <2>1
    <2> HIDE DEF rest
    <2>5. /\ all \in Seq(CacheEntry) /\ Len(all) = Len(rest) + 1 /\ OneEach(all)
          /\ Last(all) = entries[m]
          /\ \A n \in DOMAIN all : all[n] = entries[m] \/ \E k \in DOMAIN rest : all[n] = rest[k]
      BY <2>1, <2>3, <2>4, AppendOneEach
    <2> HIDE DEF all
    <2>6. Len(all) <= CacheSize
      BY <2>3, <2>5, CacheAssumption
    <2> QED
      BY <2>1, <2>2, <2>3, <2>5, <2>6
  <1> QED
    BY <1>1, <1>2

-------------------------------------------------------------------------------
(* The audit trail *)

IsUpdate(e) == e.action = "update"

\* Entry e is about a state that its link, now l, has been in.
Told(e, l) ==
    /\ e.version <= l.version
    /\ IsUpdate(e) => e.version >= 2 /\ (e.version = l.version => e.new = l.url)
    /\ e.action = "disable" => l.disabled

\* Update f is another one than e, and if it is the next one, it starts where e
\* ends, unless its client guessed the version.
Agree(e, f) == IsUpdate(e) /\ IsUpdate(f) /\ e.code = f.code =>
                   e.version # f.version /\ (f.version = e.version + 1 => f.guessed \/ f.old = e.new)

\* What a request read of its link, now l, is what it was at the version it
\* names, unless that was not there yet.
WasRead(r, l) == /\ r.expected \in Int /\ r.old \in Urls /\ r.guessed \in BOOLEAN
                 /\ ~r.guessed => /\ r.expected <= l.version
                                  /\ r.expected = l.version => r.old = l.url

\* The threads between a write and its audit entry.
Pending == {t \in Rss : rs[t].op = "audit"}
EntryOf(r, by) == [code |-> r.code, action |-> r.action, old |-> r.old, new |-> r.new,
                   age |-> 0, version |-> r.version, guessed |-> r.guessed, by |-> by]

Tells(e, c, action, v) == e.code = c /\ e.action = action /\ (IsUpdate(e) => e.version = v)
OnRecord(c, action, v) == \/ \E n \in DOMAIN audit : Tells(audit[n], c, action, v)
                          \/ \E t \in Pending : Tells(rs[t], c, action, v)

LinksOK == \A c \in DOMAIN links : links[c] \in Link

EntriesOK ==
    /\ audit \in Seq(Entry)
    /\ \A n \in DOMAIN audit : audit[n].code \in Known /\ Told(audit[n], links[audit[n].code])
    /\ \A m, n \in DOMAIN audit : m # n => Agree(audit[m], audit[n])

PendingOK == \A t \in Rss : rs[t].op = "audit" =>
    /\ EntryOf(rs[t], t) \in Entry
    /\ rs[t].code \in Known /\ Told(rs[t], links[rs[t].code])
    /\ \A n \in DOMAIN audit : Agree(audit[n], rs[t]) /\ Agree(rs[t], audit[n])

ReadsOK ==
    /\ \A i \in Pys : req[i].op = "update" => WasRead(req[i], links[req[i].code])
    /\ \A t \in Rss : rs[t].op = "update" => WasRead(rs[t], links[rs[t].code])

\* As long as nothing has failed, every write is told or about to be.
NoneMissing == faults = 0 => \A c \in DOMAIN links :
    /\ \A v \in 2..links[c].version : OnRecord(c, "update", v)
    /\ links[c].disabled => OnRecord(c, "disable", 0)

TrailInv == LinksOK /\ EntriesOK /\ PendingOK /\ ReadsOK /\ NoneMissing

\* What UPDATE makes of a row.
Rewritten(l, m) == \/ \E url \in Urls, v \in Versions :
                          m = [l EXCEPT !.url = url, !.version = @ + 1, !.named = v]
                   \/ m = [l EXCEPT !.disabled = TRUE]

LEMMA RewrittenKeeps ==
    ASSUME NEW l \in Link, NEW m, Rewritten(l, m)
    PROVE  /\ m \in Link /\ m.expires = l.expires /\ m.version >= l.version
           /\ l.disabled => m.disabled
           /\ \A e : e.version \in Nat /\ Told(e, l) => Told(e, m)
           /\ \A r : WasRead(r, l) => WasRead(r, m)
  <1>1. /\ l = [url |-> l.url, expires |-> l.expires, disabled |-> l.disabled,
                version |-> l.version, named |-> l.named]
        /\ l.url \in Urls /\ l.expires \in Deadlines \cup {Never} /\ l.disabled \in BOOLEAN
        /\ l.version \in Nat \ {0} /\ l.named \in Int
    BY DEF Link
  <1> DEFINE Facts == /\ m \in Link /\ m.expires = l.expires /\ m.version >= l.version
                      /\ l.disabled => m.disabled
                      /\ m.version = l.version => m.url = l.url
  <1>2. ASSUME NEW url \in Urls, NEW v \in Versions,
               m = [l EXCEPT !.url = url, !.version = @ + 1, !.named = v]
        PROVE  Facts
    <2>1. m = [url |-> url, expires |-> l.expires, disabled |-> l.disabled,
               version |-> l.version + 1, named |-> v]
      BY <1>1, <1>2
    <2>2. m.version = l.version + 1 /\ l.version + 1 \in Nat \ {0} /\ v \in Int
      BY <1>1, <2>1, StoreAssumption
    <2> QED
      BY <1>1, <2>1, <2>2 DEF Link
  <1>3. ASSUME m = [l EXCEPT !.disabled = TRUE] PROVE Facts
    <2>1. m = [url |-> l.url, expires |-> l.expires, disabled |-> TRUE,
               version |-> l.version, named |-> l.named]
      BY <1>1, <1>3
    <2> QED
      BY <1>1, <2>1 DEF Link
  <1> HIDE DEF Facts
  <1>4. Facts
    BY <1>2, <1>3, Zenon DEF Rewritten
  <1> USE DEF Facts
  <1>5. m.version \in Nat
    BY <1>4 DEF Link
  <1>6. ASSUME NEW e, e.version \in Nat, Told(e, l) PROVE Told(e, m)
    BY <1>1, <1>4, <1>5, <1>6 DEF Told
  <1>7. ASSUME NEW r, WasRead(r, l) PROVE WasRead(r, m)
    BY <1>1, <1>4, <1>5, <1>7 DEF WasRead
  <1> QED
    BY <1>4, <1>6, <1>7

\* An update of the link as it is follows what is told of it.
LEMMA NextAgrees ==
    ASSUME NEW l \in Link, NEW e, NEW f, e.version \in Nat, e.code = f.code => Told(e, l),
           f.version = l.version + 1, f.guessed \/ f.old = l.url
    PROVE  Agree(e, f) /\ Agree(f, e)
  <1>1. l.version \in Nat
    BY DEF Link
  <1> QED
    BY <1>1 DEF Agree, Told

\* The same entry, but for its age and who wrote it.
SameEntry(e, f) == /\ f.code = e.code /\ f.action = e.action /\ f.old = e.old /\ f.new = e.new
                   /\ f.version = e.version /\ f.guessed = e.guessed

LEMMA SameSays ==
    ASSUME NEW e, NEW f, SameEntry(e, f)
    PROVE  /\ \A l : Told(e, l) = Told(f, l)
           /\ \A g : Agree(e, g) = Agree(f, g) /\ Agree(g, e) = Agree(g, f)
           /\ \A c, action, v : Tells(e, c, action, v) = Tells(f, c, action, v)
  BY DEF SameEntry, Told, Agree, Tells, IsUpdate

LEMMA Aged ==
    ASSUME audit \in Seq(Entry), audit' = Ageing(audit)
    PROVE  /\ audit' \in Seq(Entry) /\ DOMAIN audit' = DOMAIN audit
           /\ \A n \in DOMAIN audit : /\ SameEntry(audit[n], audit'[n])
                                      /\ audit'[n].by = audit[n].by
                                      /\ audit'[n].age = Older(audit[n].age, TTL)
  <1>1. DOMAIN audit = 1..Len(audit) /\ Len(audit) \in Nat
    OBVIOUS
  <1>2. DOMAIN audit' = DOMAIN audit
        /\ \A n \in DOMAIN audit : audit'[n] = [audit[n] EXCEPT !.age = Older(@, TTL)]
    BY DEF Ageing
  <1>3. ASSUME NEW n \in DOMAIN audit
        PROVE  /\ audit'[n] \in Entry /\ SameEntry(audit[n], audit'[n])
               /\ audit'[n].by = audit[n].by
               /\ audit'[n].age = Older(audit[n].age, TTL)
    <2>1. audit[n] \in Entry
      OBVIOUS
    <2> DEFINE e == audit[n]
    <2>2. e.age \in 0..TTL
      BY <2>1 DEF Entry
    <2>3. Older(e.age, TTL) \in 0..TTL
      BY <2>2, StoreAssumption DEF Older
    <2> QED
      BY <1>2, <2>1, <2>3 DEF Entry, SameEntry
  <1>4. audit' = [n \in 1..Len(audit) |-> audit'[n]]
    BY <1>1 DEF Ageing
  <1>5. audit' \in Seq(Entry)
    BY <1>1, <1>3, <1>4
  <1> QED
    BY <1>2, <1>3, <1>5

LEMMA Appended ==
    ASSUME NEW T, NEW s \in Seq(T), NEW e \in T
    PROVE  LET all == Append(s, e) IN
           /\ all \in Seq(T) /\ DOMAIN all = DOMAIN s \cup {Len(s) + 1} /\ Len(s) + 1 \notin DOMAIN s
           /\ all[Len(s) + 1] = e /\ \A n \in DOMAIN s : all[n] = s[n]
  <1>1. DOMAIN s = 1..Len(s) /\ Len(s) \in Nat /\ Len(Append(s, e)) = Len(s) + 1
    OBVIOUS
  <1> QED
    BY <1>1

\* A row stays as it is, and a new one is as it is inserted.
RowsStay ==
    /\ DOMAIN links \subseteq DOMAIN links' /\ Known \subseteq Known'
    /\ \A c \in DOMAIN links : links'[c] = links[c]
    /\ \A c \in DOMAIN links' \ DOMAIN links :
          links'[c] \in Link /\ links'[c].version = 1 /\ ~links'[c].disabled
TrailStays == /\ audit' \in Seq(Entry) /\ DOMAIN audit' = DOMAIN audit
              /\ \A n \in DOMAIN audit : SameEntry(audit[n], audit'[n])
\* No thread is newly before its audit entry, and none drops it without a fault.
PendingStays == \A t \in Rss : \/ rs'[t] = rs[t]
                               \/ rs'[t].op # "audit" /\ (rs[t].op = "audit" => faults' > 0)
Reading(r, old) == r.op = "update" => r = old \/ (r.code \in Known /\ WasRead(r, links[r.code]))
ReadsStay == /\ \A i \in Pys : Reading(req'[i], req[i])
             /\ \A t \in Rss : Reading(rs'[t], rs[t])
\* A step that writes neither a row nor an entry.
Quiet == RowsStay /\ TrailStays /\ PendingStays /\ ReadsStay

LEMMA QuietKeepsTrail == ASSUME LinkInv, Growing, TrailInv, Quiet PROVE TrailInv'
  <1> DEFINE code(n) == audit[n].code
  <1>1. Known \subseteq DOMAIN links /\ Known' \subseteq DOMAIN links' /\ Known \subseteq Known'
    BY DEF Known, Quiet, RowsStay
  <1>2. LinksOK'
    BY DEF Quiet, RowsStay, TrailInv, LinksOK
  <1>3. EntriesOK'
    <2>1. ASSUME NEW n \in DOMAIN audit
          PROVE  audit'[n].code \in Known' /\ Told(audit'[n], links'[audit'[n].code])
      <3>1. audit[n].code \in Known /\ Told(audit[n], links[audit[n].code])
        BY DEF TrailInv, EntriesOK
      <3>2. audit'[n].code = audit[n].code /\ links'[audit[n].code] = links[audit[n].code]
        BY <1>1, <3>1 DEF Quiet, RowsStay, TrailStays, SameEntry
      <3>3. SameEntry(audit[n], audit'[n])
        BY DEF Quiet, TrailStays
      <3> QED
        BY <1>1, <3>1, <3>2, <3>3, SameSays
    <2>2. ASSUME NEW m \in DOMAIN audit, NEW n \in DOMAIN audit, m # n
          PROVE  Agree(audit'[m], audit'[n])
      <3>1. Agree(audit[m], audit[n])
        BY <2>2 DEF TrailInv, EntriesOK
      <3>2. SameEntry(audit[m], audit'[m]) /\ SameEntry(audit[n], audit'[n])
        BY DEF Quiet, TrailStays
      <3> QED
        BY <3>1, <3>2, SameSays
    <2> QED
      BY <2>1, <2>2 DEF EntriesOK, Quiet, TrailStays
  <1>4. PendingOK'
    <2>1. SUFFICES ASSUME NEW t \in Rss, rs'[t].op = "audit"
                   PROVE  /\ EntryOf(rs'[t], t) \in Entry
                          /\ rs'[t].code \in Known' /\ Told(rs'[t], links'[rs'[t].code])
                          /\ \A n \in DOMAIN audit' : Agree(audit'[n], rs'[t]) /\ Agree(rs'[t], audit'[n])
      BY DEF PendingOK, EntryOf
    <2>2. rs'[t] = rs[t]
      BY <2>1 DEF Quiet, PendingStays
    <2>3. /\ EntryOf(rs[t], t) \in Entry /\ rs[t].code \in Known /\ Told(rs[t], links[rs[t].code])
          /\ \A n \in DOMAIN audit : Agree(audit[n], rs[t]) /\ Agree(rs[t], audit[n])
      BY <2>1, <2>2 DEF TrailInv, PendingOK
    <2>4. links'[rs[t].code] = links[rs[t].code]
      BY <1>1, <2>3 DEF Quiet, RowsStay
    <2>5. ASSUME NEW n \in DOMAIN audit' PROVE Agree(audit'[n], rs[t]) /\ Agree(rs[t], audit'[n])
      <3>1. n \in DOMAIN audit /\ SameEntry(audit[n], audit'[n])
        BY DEF Quiet, TrailStays
      <3> QED
        BY <2>3, <3>1, SameSays
    <2> QED
      BY <1>1, <2>2, <2>3, <2>4, <2>5
  <1>5. ReadsOK'
    <2>1. ASSUME NEW r, NEW old, Reading(r, old), r.op = "update",
                 old.op = "update" => old.code \in Known /\ WasRead(old, links[old.code])
          PROVE  WasRead(r, links'[r.code])
      <3>1. r.code \in Known /\ WasRead(r, links[r.code])
        BY <2>1 DEF Reading
      <3> QED
        BY <1>1, <3>1 DEF Quiet, RowsStay
    <2>2. \A i \in Pys : req[i].op = "update" => req[i].code \in Known /\ WasRead(req[i], links[req[i].code])
      BY DEF TrailInv, ReadsOK, LinkInv, ReqOK
    <2>3. \A t \in Rss : rs[t].op = "update" => rs[t].code \in Known /\ WasRead(rs[t], links[rs[t].code])
      BY DEF TrailInv, ReadsOK, LinkInv, RsOK
    <2> QED
      BY <2>1, <2>2, <2>3 DEF ReadsOK, Quiet, ReadsStay
  <1>6. NoneMissing'
    <2>1. SUFFICES ASSUME faults' = 0, NEW c \in DOMAIN links'
                   PROVE  /\ \A v \in 2..links'[c].version : OnRecord(c, "update", v)'
                          /\ links'[c].disabled => OnRecord(c, "disable", 0)'
      BY DEF NoneMissing
    <2>2. faults = 0
      BY <2>1 DEF Growing, LinkInv
    <2>3. ASSUME NEW action, NEW v, OnRecord(c, action, v) PROVE OnRecord(c, action, v)'
      <3>1. ASSUME NEW n \in DOMAIN audit, Tells(audit[n], c, action, v)
            PROVE  n \in DOMAIN audit' /\ Tells(audit'[n], c, action, v)
        BY <3>1, SameSays DEF Quiet, TrailStays
      <3>2. ASSUME NEW t \in Pending, Tells(rs[t], c, action, v)
            PROVE  t \in Pending' /\ Tells(rs'[t], c, action, v)
        <4>1. rs'[t] = rs[t]
          BY <2>1 DEF Quiet, PendingStays, Pending
        <4> QED
          BY <3>2, <4>1 DEF Pending
      <3> QED
        BY <2>3, <3>1, <3>2 DEF OnRecord
    <2>4. CASE c \in DOMAIN links
      <3>1. links'[c] = links[c]
        BY <2>4 DEF Quiet, RowsStay
      <3>2. /\ \A v \in 2..links[c].version : OnRecord(c, "update", v)
            /\ links[c].disabled => OnRecord(c, "disable", 0)
        BY <2>2, <2>4 DEF TrailInv, NoneMissing
      <3> QED
        BY <2>3, <3>1, <3>2
    <2>5. CASE c \notin DOMAIN links
      <3>1. links'[c].version = 1 /\ ~links'[c].disabled
        BY <2>5 DEF Quiet, RowsStay
      <3> QED
        BY <3>1
    <2> QED
      BY <2>4, <2>5
  <1> QED
    BY <1>2, <1>3, <1>4, <1>5, <1>6 DEF TrailInv

\* Row c is written, and no other.
WrittenRow(c) == /\ c \in Known /\ Known' = Known /\ DOMAIN links' = DOMAIN links
                 /\ \A d \in DOMAIN links : d # c => links'[d] = links[d]
                 /\ Rewritten(links[c], links'[c])

\* Entry e tells how row l became row m.
TellsWrite(e, l, m) ==
    \/ /\ e.action = "update" /\ e.version = l.version + 1 /\ e.new \in Urls
       /\ e.guessed \/ e.old = l.url
       /\ \E v \in Versions : m = [l EXCEPT !.url = e.new, !.version = @ + 1, !.named = v]
    \/ e.action = "disable" /\ e.version = l.version /\ m = [l EXCEPT !.disabled = TRUE]

LEMMA WrittenRowKeeps ==
    ASSUME LinksOK, NEW c, WrittenRow(c)
    PROVE  /\ LinksOK'
           /\ \A d \in DOMAIN links :
                 /\ \A e : e.version \in Nat /\ Told(e, links[d]) => Told(e, links'[d])
                 /\ \A r : WasRead(r, links[d]) => WasRead(r, links'[d])
  <1>1. c \in DOMAIN links /\ links[c] \in Link /\ Rewritten(links[c], links'[c])
    BY DEF WrittenRow, Known, LinksOK
  <1>2. /\ links'[c] \in Link
        /\ \A e : e.version \in Nat /\ Told(e, links[c]) => Told(e, links'[c])
        /\ \A r : WasRead(r, links[c]) => WasRead(r, links'[c])
    BY <1>1, RewrittenKeeps
  <1>3. \A d \in DOMAIN links : d # c => links'[d] = links[d]
    BY DEF WrittenRow
  <1>4. DOMAIN links' = DOMAIN links
    BY DEF WrittenRow
  <1>5. LinksOK'
    BY <1>1, <1>2, <1>3, <1>4 DEF LinksOK
  <1> QED
    BY <1>2, <1>3, <1>5

LEMMA TellsWriteProps ==
    ASSUME NEW l \in Link, NEW m, NEW e, TellsWrite(e, l, m)
    PROVE  /\ Rewritten(l, m) /\ Told(e, m)
           /\ \A f : f.version \in Nat /\ (f.code = e.code => Told(f, l)) => Agree(f, e) /\ Agree(e, f)
           /\ \A v \in 2..m.version : v \in 2..l.version \/ (IsUpdate(e) /\ e.version = v)
           /\ m.disabled => l.disabled \/ e.action = "disable"
  <1>1. /\ l = [url |-> l.url, expires |-> l.expires, disabled |-> l.disabled,
                version |-> l.version, named |-> l.named]
        /\ l.disabled \in BOOLEAN /\ l.version \in Nat \ {0}
    BY DEF Link
  <1>2. ASSUME e.action = "update", e.version = l.version + 1, e.new \in Urls,
               e.guessed \/ e.old = l.url, NEW w \in Versions,
               m = [l EXCEPT !.url = e.new, !.version = @ + 1, !.named = w]
        PROVE  /\ Rewritten(l, m) /\ Told(e, m)
               /\ \A f : f.version \in Nat /\ (f.code = e.code => Told(f, l)) => Agree(f, e) /\ Agree(e, f)
               /\ \A v \in 2..m.version : v \in 2..l.version \/ (IsUpdate(e) /\ e.version = v)
               /\ m.disabled => l.disabled \/ e.action = "disable"
    <2>1. m = [url |-> e.new, expires |-> l.expires, disabled |-> l.disabled,
               version |-> l.version + 1, named |-> w]
      BY <1>1, <1>2
    <2>2. Rewritten(l, m)
      BY <1>2 DEF Rewritten
    <2>3. m.version = l.version + 1 /\ m.url = e.new /\ m.disabled = l.disabled
      BY <2>1
    <2>4. Told(e, m)
      BY <1>1, <1>2, <2>3 DEF Told, IsUpdate
    <2>5. \A f : f.version \in Nat /\ (f.code = e.code => Told(f, l)) => Agree(f, e) /\ Agree(e, f)
      BY <1>2, NextAgrees
    <2>6. \A v \in 2..m.version : v \in 2..l.version \/ e.version = v
      BY <1>1, <1>2, <2>3
    <2>7. m.disabled => l.disabled
      BY <2>3
    <2>8. IsUpdate(e)
      BY <1>2 DEF IsUpdate
    <2> QED
      BY <2>2, <2>4, <2>5, <2>6, <2>7, <2>8
  <1>3. CASE e.action = "disable" /\ e.version = l.version /\ m = [l EXCEPT !.disabled = TRUE]
    <2>1. m = [url |-> l.url, expires |-> l.expires, disabled |-> TRUE,
               version |-> l.version, named |-> l.named]
      BY <1>1, <1>3
    <2>2. Rewritten(l, m)
      BY <1>3 DEF Rewritten
    <2>3. ~IsUpdate(e)
      BY <1>3 DEF IsUpdate
    <2>4. Told(e, m)
      BY <1>1, <1>3, <2>1, <2>3 DEF Told
    <2>5. \A v \in 2..m.version : v \in 2..l.version
      BY <2>1
    <2>6. \A f : Agree(f, e) /\ Agree(e, f)
      BY <2>3 DEF Agree
    <2> QED
      BY <1>3, <2>2, <2>4, <2>5, <2>6
  <1> QED
    BY <1>2, <1>3 DEF TellsWrite

\* The row and its entry are written together.
LEMMA PyWriteTrail ==
    ASSUME LinkInv, Growing, TrailInv, NEW c, WrittenRow(c), NEW e \in Entry, e.code = c,
           TellsWrite(e, links[c], links'[c]), audit' = Append(audit, e), rs' = rs,
           \A i \in Pys : req'[i].op = "update" => req'[i] = req[i], faults' = faults
    PROVE  TrailInv'
  <1> DEFINE l == Len(audit) + 1
  <1>1. /\ c \in DOMAIN links /\ links[c] \in Link /\ Known' = Known /\ DOMAIN links' = DOMAIN links
        /\ Known \subseteq DOMAIN links
    BY DEF WrittenRow, Known, TrailInv, LinksOK
  <1>2. /\ LinksOK'
        /\ \A d \in DOMAIN links :
              /\ \A f : f.version \in Nat /\ Told(f, links[d]) => Told(f, links'[d])
              /\ \A r : WasRead(r, links[d]) => WasRead(r, links'[d])
    BY WrittenRowKeeps DEF TrailInv
  <1>3. /\ Told(e, links'[c])
        /\ \A f : f.version \in Nat /\ (f.code = e.code => Told(f, links[c])) => Agree(f, e) /\ Agree(e, f)
        /\ \A v \in 2..links'[c].version : v \in 2..links[c].version \/ (IsUpdate(e) /\ e.version = v)
        /\ links'[c].disabled => links[c].disabled \/ e.action = "disable"
    BY <1>1, TellsWriteProps
  <1>4. audit \in Seq(Entry)
    BY DEF TrailInv, EntriesOK
  <1>5. /\ audit' \in Seq(Entry) /\ DOMAIN audit' = DOMAIN audit \cup {l} /\ l \notin DOMAIN audit
        /\ audit'[l] = e /\ \A n \in DOMAIN audit : audit'[n] = audit[n]
    BY <1>4, Appended
  <1>6. \A n \in DOMAIN audit : audit[n].version \in Nat
    <2>1. \A n \in DOMAIN audit : audit[n] \in Entry
      BY <1>4
    <2> QED
      BY <2>1 DEF Entry
  <1> HIDE DEF l
  <1>7. EntriesOK'
    <2>1. ASSUME NEW n \in DOMAIN audit
          PROVE  /\ audit'[n].code \in Known' /\ Told(audit'[n], links'[audit'[n].code])
                 /\ Agree(audit[n], e) /\ Agree(e, audit[n])
      <3>1. audit[n].code \in Known /\ Told(audit[n], links[audit[n].code])
        BY DEF TrailInv, EntriesOK
      <3> QED
        BY <1>1, <1>2, <1>3, <1>5, <1>6, <3>1
    <2>2. e.code \in Known' /\ Told(e, links'[e.code])
      BY <1>1, <1>3 DEF WrittenRow
    <2>3. ASSUME NEW m \in DOMAIN audit', NEW n \in DOMAIN audit', m # n
          PROVE  Agree(audit'[m], audit'[n])
      <3>1. m \in DOMAIN audit /\ n \in DOMAIN audit => Agree(audit[m], audit[n])
        BY <2>3 DEF TrailInv, EntriesOK
      <3> QED
        BY <1>5, <2>1, <2>3, <3>1
    <2> QED
      BY <1>5, <2>1, <2>2, <2>3 DEF EntriesOK
  <1>8. PendingOK'
    <2>1. SUFFICES ASSUME NEW t \in Rss, rs[t].op = "audit"
                   PROVE  /\ EntryOf(rs[t], t) \in Entry
                          /\ rs[t].code \in Known' /\ Told(rs[t], links'[rs[t].code])
                          /\ \A n \in DOMAIN audit' : Agree(audit'[n], rs[t]) /\ Agree(rs[t], audit'[n])
      BY DEF PendingOK, EntryOf
    <2>2. /\ EntryOf(rs[t], t) \in Entry /\ rs[t].code \in Known /\ Told(rs[t], links[rs[t].code])
          /\ \A n \in DOMAIN audit : Agree(audit[n], rs[t]) /\ Agree(rs[t], audit[n])
      BY <2>1 DEF TrailInv, PendingOK
    <2>3. rs[t].version \in Nat
      BY <2>2 DEF EntryOf, Entry
    <2>4. Agree(rs[t], e) /\ Agree(e, rs[t])
      BY <1>3, <2>2, <2>3
    <2> QED
      BY <1>1, <1>2, <1>5, <2>2, <2>3, <2>4
  <1>9. ReadsOK'
    <2>1. \A i \in Pys : req[i].op = "update" => req[i].code \in Known /\ WasRead(req[i], links[req[i].code])
      BY DEF TrailInv, ReadsOK, LinkInv, ReqOK
    <2>2. \A t \in Rss : rs[t].op = "update" => rs[t].code \in Known /\ WasRead(rs[t], links[rs[t].code])
      BY DEF TrailInv, ReadsOK, LinkInv, RsOK
    <2> QED
      BY <1>1, <1>2, <2>1, <2>2 DEF ReadsOK
  <1>10. NoneMissing'
    <2>1. SUFFICES ASSUME faults = 0, NEW d \in DOMAIN links
                   PROVE  /\ \A v \in 2..links'[d].version : OnRecord(d, "update", v)'
                          /\ links'[d].disabled => OnRecord(d, "disable", 0)'
      BY <1>1 DEF NoneMissing
    <2>2. ASSUME NEW action, NEW v, OnRecord(d, action, v) PROVE OnRecord(d, action, v)'
      BY <1>5, <2>2 DEF OnRecord, Pending
    <2>3. /\ \A v \in 2..links[d].version : OnRecord(d, "update", v)
          /\ links[d].disabled => OnRecord(d, "disable", 0)
      BY <2>1 DEF TrailInv, NoneMissing
    <2>4. CASE d # c
      BY <2>2, <2>3, <2>4 DEF WrittenRow
    <2>5. CASE d = c
      <3>1. ASSUME NEW v \in 2..links'[c].version PROVE OnRecord(c, "update", v)'
        <4>1. CASE v \in 2..links[c].version
          BY <2>2, <2>3, <2>5, <4>1
        <4>2. CASE IsUpdate(e) /\ e.version = v
          <5>1. Tells(audit'[l], c, "update", v)
            BY <1>5, <4>2 DEF Tells, IsUpdate
          <5> QED
            BY <1>5, <5>1 DEF OnRecord
        <4> QED
          BY <1>3, <4>1, <4>2
      <3>2. ASSUME links'[c].disabled PROVE OnRecord(c, "disable", 0)'
        <4>1. CASE e.action = "disable"
          <5>1. Tells(audit'[l], c, "disable", 0)
            BY <1>5, <4>1 DEF Tells, IsUpdate
          <5> QED
            BY <1>5, <5>1 DEF OnRecord
        <4> QED
          BY <1>3, <2>2, <2>3, <2>5, <3>2, <4>1
      <3> QED
        BY <2>5, <3>1, <3>2
    <2> QED
      BY <2>4, <2>5
  <1> QED
    BY <1>2, <1>7, <1>8, <1>9, <1>10 DEF TrailInv

\* The row is written, and thread t has its entry to write.
LEMMA RsWriteTrail ==
    ASSUME LinkInv, Growing, TrailInv, NEW c, WrittenRow(c), NEW t \in Rss,
           rs'[t].op = "audit", EntryOf(rs'[t], t) \in Entry, rs'[t].code = c,
           TellsWrite(rs'[t], links[c], links'[c]), \A u \in Rss : u # t => rs[u] = RsIdle /\ rs'[u] = RsIdle,
           rs[t].op # "audit", audit' = audit, req' = req, faults' = faults
    PROVE  TrailInv'
  <1> DEFINE e == rs'[t]
  <1>1. /\ c \in DOMAIN links /\ links[c] \in Link /\ Known' = Known /\ DOMAIN links' = DOMAIN links
        /\ Known \subseteq DOMAIN links
    BY DEF WrittenRow, Known, TrailInv, LinksOK
  <1>2. /\ LinksOK'
        /\ \A d \in DOMAIN links :
              /\ \A f : f.version \in Nat /\ Told(f, links[d]) => Told(f, links'[d])
              /\ \A r : WasRead(r, links[d]) => WasRead(r, links'[d])
    BY WrittenRowKeeps DEF TrailInv
  <1>3. /\ Told(e, links'[c])
        /\ \A f : f.version \in Nat /\ (f.code = e.code => Told(f, links[c])) => Agree(f, e) /\ Agree(e, f)
        /\ \A v \in 2..links'[c].version : v \in 2..links[c].version \/ (IsUpdate(e) /\ e.version = v)
        /\ links'[c].disabled => links[c].disabled \/ e.action = "disable"
    BY <1>1, TellsWriteProps
  <1>4. \A u \in Rss : u # t => rs[u].op = "idle" /\ rs'[u].op = "idle"
    BY DEF RsIdle
  <1> DEFINE p == e
  <1>5. \A n \in DOMAIN audit : audit[n].version \in Nat
    <2>1. \A n \in DOMAIN audit : audit[n] \in Entry
      BY DEF TrailInv, EntriesOK
    <2> QED
      BY <2>1 DEF Entry
  <1>6. ASSUME NEW n \in DOMAIN audit
        PROVE  /\ audit[n].code \in Known' /\ Told(audit[n], links'[audit[n].code])
               /\ Agree(audit[n], e) /\ Agree(e, audit[n])
    <2>1. audit[n].code \in Known /\ Told(audit[n], links[audit[n].code])
      BY DEF TrailInv, EntriesOK
    <2> QED
      BY <1>1, <1>2, <1>3, <1>5, <2>1
  <1>7. EntriesOK'
    <2>1. /\ audit \in Seq(Entry)
          /\ \A m, n \in DOMAIN audit : m # n => Agree(audit[m], audit[n])
      BY DEF TrailInv, EntriesOK
    <2> QED
      BY <1>6, <2>1 DEF EntriesOK
  <1>8. PendingOK'
    <2>1. e.code \in Known'
      BY <1>1 DEF WrittenRow
    <2> QED
      BY <1>3, <1>4, <1>6, <2>1 DEF PendingOK
  <1>9. ReadsOK'
    <2>1. \A i \in Pys : req[i].op = "update" => req[i].code \in Known /\ WasRead(req[i], links[req[i].code])
      BY DEF TrailInv, ReadsOK, LinkInv, ReqOK
    <2>2. \A u \in Rss : rs'[u].op # "update"
      BY <1>4
    <2> QED
      BY <1>1, <1>2, <2>1, <2>2 DEF ReadsOK
  <1>10. NoneMissing'
    <2>1. SUFFICES ASSUME faults = 0, NEW d \in DOMAIN links
                   PROVE  /\ \A v \in 2..links'[d].version : OnRecord(d, "update", v)'
                          /\ links'[d].disabled => OnRecord(d, "disable", 0)'
      BY <1>1 DEF NoneMissing
    <2>2. ASSUME NEW action, NEW v, OnRecord(d, action, v) PROVE OnRecord(d, action, v)'
      <3>1. Pending = {}
        BY <1>4 DEF Pending
      <3> QED
        BY <2>2, <3>1 DEF OnRecord
    <2>3. /\ \A v \in 2..links[d].version : OnRecord(d, "update", v)
          /\ links[d].disabled => OnRecord(d, "disable", 0)
      BY <2>1 DEF TrailInv, NoneMissing
    <2>4. CASE d # c
      BY <2>2, <2>3, <2>4 DEF WrittenRow
    <2>5. CASE d = c
      <3>1. t \in Pending'
        BY DEF Pending
      <3>2. ASSUME NEW v \in 2..links'[c].version PROVE OnRecord(c, "update", v)'
        <4>1. CASE v \in 2..links[c].version
          BY <2>2, <2>3, <2>5, <4>1
        <4>2. CASE IsUpdate(e) /\ e.version = v
          <5>1. Tells(e, c, "update", v)
            BY <4>2 DEF Tells, IsUpdate
          <5> QED
            BY <3>1, <5>1 DEF OnRecord
        <4> QED
          BY <1>3, <4>1, <4>2
      <3>3. ASSUME links'[c].disabled PROVE OnRecord(c, "disable", 0)'
        <4>1. CASE e.action = "disable"
          <5>1. Tells(e, c, "disable", 0)
            BY <4>1 DEF Tells, IsUpdate
          <5> QED
            BY <3>1, <5>1 DEF OnRecord
        <4> QED
          BY <1>3, <2>2, <2>3, <2>5, <3>3, <4>1
      <3> QED
        BY <2>5, <3>2, <3>3
    <2> QED
      BY <2>4, <2>5
  <1> QED
    BY <1>2, <1>7, <1>8, <1>9, <1>10 DEF TrailInv

\* Thread t writes the entry it has to write.
LEMMA RsAuditTrail ==
    ASSUME LinkInv, Growing, TrailInv, NEW t \in Rss, RsAudit(t), req' = req PROVE TrailInv'
  <1> DEFINE e == EntryOf(rs[t], t)
             l == Len(audit) + 1
  <1>1. links' = links /\ Known' = Known /\ faults' = faults /\ req' = req
    <2>1. links' = links /\ keys' = keys /\ origin' = origin /\ faults' = faults
      BY DEF RsAudit
    <2>2. HalfMade' = HalfMade
      BY <2>1 DEF HalfMade
    <2> QED
      BY <2>1, <2>2 DEF Known
  <1>2. /\ rs[t].op = "audit" /\ rs'[t] = RsIdle
        /\ \A u \in Rss : u # t => rs[u] = RsIdle /\ rs'[u] = RsIdle
    BY DEF RsAudit, Free, LinkInv, RsOK, RsIdle
  <1>3. /\ e \in Entry /\ rs[t].code \in Known /\ Told(rs[t], links[rs[t].code])
        /\ \A n \in DOMAIN audit : Agree(audit[n], rs[t]) /\ Agree(rs[t], audit[n])
    BY <1>2 DEF TrailInv, PendingOK
  <1>4. SameEntry(rs[t], e)
    BY DEF SameEntry, EntryOf
  <1>5. /\ e.code \in Known /\ Told(e, links[e.code])
        /\ \A n \in DOMAIN audit : Agree(audit[n], e) /\ Agree(e, audit[n])
        /\ \A c, action, v : Tells(rs[t], c, action, v) = Tells(e, c, action, v)
    <2>1. e.code = rs[t].code
      BY <1>4 DEF SameEntry
    <2> QED
      BY <1>3, <1>4, <2>1, SameSays
  <1>6. audit \in Seq(Entry) /\ audit' = Append(audit, e)
    BY DEF TrailInv, EntriesOK, RsAudit, InsertAudit, EntryOf
  <1> HIDE DEF e
  <1>7. /\ audit' \in Seq(Entry) /\ DOMAIN audit' = DOMAIN audit \cup {l} /\ l \notin DOMAIN audit
        /\ audit'[l] = e /\ \A n \in DOMAIN audit : audit'[n] = audit[n]
    BY <1>3, <1>6, Appended
  <1> HIDE DEF l
  <1>8. EntriesOK'
    <2>1. /\ \A n \in DOMAIN audit : audit[n].code \in Known /\ Told(audit[n], links[audit[n].code])
          /\ \A m, n \in DOMAIN audit : m # n => Agree(audit[m], audit[n])
      BY DEF TrailInv, EntriesOK
    <2> QED
      BY <1>1, <1>5, <1>7, <2>1 DEF EntriesOK
  <1>9. \A u \in Rss : rs'[u].op = "idle"
    BY <1>2 DEF RsIdle
  <1>10. PendingOK'
    BY <1>9 DEF PendingOK
  <1>11. ReadsOK'
    BY <1>1, <1>9 DEF TrailInv, ReadsOK
  <1>12. NoneMissing'
    <2>1. ASSUME NEW c, NEW action, NEW v, OnRecord(c, action, v) PROVE OnRecord(c, action, v)'
      <3>1. Pending \subseteq {t}
        BY <1>2 DEF Pending, RsIdle
      <3>2. CASE \E n \in DOMAIN audit : Tells(audit[n], c, action, v)
        BY <1>7, <3>2 DEF OnRecord
      <3>3. CASE Tells(rs[t], c, action, v)
        <4>1. Tells(audit'[l], c, action, v)
          BY <1>5, <1>7, <3>3
        <4> QED
          BY <1>7, <4>1 DEF OnRecord
      <3> QED
        BY <2>1, <3>1, <3>2, <3>3 DEF OnRecord
    <2> QED
      BY <1>1, <2>1 DEF TrailInv, NoneMissing
  <1> QED
    BY <1>1, <1>8, <1>10, <1>11, <1>12 DEF TrailInv, LinksOK

LEMMA Unwritten == ASSUME Growing, UNCHANGED links PROVE RowsStay
  BY DEF Growing, Grows, RowsStay

LEMMA Inserts ==
    ASSUME LinkInv, Growing, NEW c, NEW url \in Urls, NEW e \in Deadlines \cup {Never}, NEW key, NEW by,
           InsertLink(c, url, e, key, by)
    PROVE  RowsStay
  <1>1. /\ DOMAIN links' = DOMAIN links \cup {c} /\ \A d \in DOMAIN links : links'[d] = links[d]
        /\ links'[c] = NewLink(url, e)
    BY DEF InsertLink, With, NewLink
  <1>2. NewLink(url, e) \in Link /\ NewLink(url, e).version = 1 /\ ~NewLink(url, e).disabled
    BY DEF NewLink, Link
  <1> QED
    BY <1>1, <1>2 DEF Growing, Grows, RowsStay

LEMMA Untold == ASSUME TrailInv, UNCHANGED audit PROVE TrailStays
  BY DEF TrailInv, EntriesOK, TrailStays, SameEntry

LEMMA Writes1 ==
    ASSUME LinkInv, LinksOK, NEW c, Written(c), NEW e, e.new \in Urls, TellsWrite(e, links[c], links'[c])
    PROVE  WrittenRow(c)
  <1>1. HalfMade' = HalfMade /\ DOMAIN links' = DOMAIN links /\ c \in Known
    BY WrittenGrows DEF Written, DisableLink
  <1>2. Known' = Known /\ c \in DOMAIN links
    BY <1>1 DEF Known
  <1>3. \A d \in DOMAIN links : d # c => links'[d] = links[d]
    BY DEF Written, DisableLink
  <1>4. Rewritten(links[c], links'[c])
    BY <1>2, TellsWriteProps DEF LinksOK
  <1> QED
    BY <1>1, <1>2, <1>3, <1>4 DEF WrittenRow

\* An update of row c that was read as r.
LEMMA UpdateWrites ==
    ASSUME LinkInv, LinksOK, NEW c \in Known, NEW url \in Urls, NEW r, WasRead(r, links[c]),
           UpdateLink(c, url, r.expected), UNCHANGED <<keys, origin>>,
           NEW e, e.action = "update", e.old = r.old, e.new = url, e.version = r.expected + 1,
           e.guessed = r.guessed, r.expected \in Versions
    PROVE  /\ WrittenRow(c) /\ TellsWrite(e, links[c], links'[c])
           /\ c \in Codes /\ e.old \in Urls /\ e.version \in Nat \ {0} /\ e.guessed \in BOOLEAN
  <1>1. c \in DOMAIN links /\ links[c] \in Link /\ c \in Codes
    BY DEF Known, LinksOK, LinkInv
  <1>2. Written(c)
    BY DEF UpdateLink, Written
  <1>3. links'[c] = [links[c] EXCEPT !.url = url, !.version = @ + 1, !.named = r.expected]
    BY <1>1 DEF UpdateLink
  <1>4. TellsWrite(e, links[c], links'[c])
    BY <1>3 DEF TellsWrite, WasRead, UpdateLink
  <1>5. e.old \in Urls /\ e.version \in Nat \ {0} /\ e.guessed \in BOOLEAN
    BY <1>1 DEF WasRead, UpdateLink, Link
  <1> QED
    BY <1>1, <1>2, <1>4, <1>5, Writes1

LEMMA DisableWrites ==
    ASSUME LinkInv, LinksOK, NEW c \in Known, DisableLink(c), UNCHANGED <<keys, origin>>,
           NEW e, e.action = "disable", e.old = links[c].url, e.new = links[c].url,
           e.version = links[c].version
    PROVE  /\ WrittenRow(c) /\ TellsWrite(e, links[c], links'[c])
           /\ c \in Codes /\ e.old \in Urls /\ e.version \in Nat \ {0}
  <1>1. c \in DOMAIN links /\ links[c] \in Link /\ c \in Codes
    BY DEF Known, LinksOK, LinkInv
  <1>2. Written(c)
    BY DEF Written
  <1>3. links'[c] = [links[c] EXCEPT !.disabled = TRUE]
    BY <1>1 DEF DisableLink
  <1>4. TellsWrite(e, links[c], links'[c])
    BY <1>3 DEF TellsWrite
  <1>5. e.new \in Urls /\ e.old \in Urls /\ e.version \in Nat \ {0}
    BY <1>1 DEF Link
  <1> QED
    BY <1>1, <1>2, <1>4, <1>5, Writes1

LEMMA ReadRowWasRead ==
    ASSUME NEW c, links[c] \in Link, NEW v \in Versions
    PROVE  /\ WasRead(ReadRow(c, v), links[c]) /\ ReadRow(c, v).code = c
           /\ ReadRow(c, v).op = "update"
  <1>1. v \in Int /\ links[c].version \in Nat /\ links[c].url \in Urls
    BY StoreAssumption DEF Link
  <1>2. /\ ReadRow(c, v).expected = v /\ ReadRow(c, v).old = links[c].url
        /\ ReadRow(c, v).guessed = (v > links[c].version)
        /\ ReadRow(c, v).code = c /\ ReadRow(c, v).op = "update"
    BY DEF ReadRow
  <1>3. ReadRow(c, v).guessed \in BOOLEAN
    BY <1>2
  <1>4. ~ReadRow(c, v).guessed => v <= links[c].version
    <2>1. ~ReadRow(c, v).guessed => ~(v > links[c].version)
      BY <1>2, Zenon
    <2>2. ~(v > links[c].version) => v <= links[c].version
      BY <1>1
    <2> QED
      BY <2>1, <2>2
  <1> HIDE DEF ReadRow
  <1> QED
    BY <1>1, <1>2, <1>3, <1>4 DEF WasRead

LEMMA PyTrail ==
    ASSUME LinkInv, Growing, TrailInv, NEW i \in Pys, PyNext(i), UNCHANGED rs PROVE TrailInv'
  <1> DEFINE Stays == RowsStay /\ UNCHANGED audit /\ \A j \in Pys : Reading(req'[j], req[j])
  <1>0. Stays => TrailInv'
    BY Untold, QuietKeepsTrail DEF Quiet, PendingStays, ReadsStay, Reading
  <1>1. \A j \in Pys : Reading(req[j], req[j]) /\ Reading(Idle, req[j])
    BY DEF Reading, Idle
  <1>2. DOMAIN req = Pys
    BY DEF LinkInv, ReqOK
  <1>3. req' = [req EXCEPT ![i] = Idle] => \A j \in Pys : Reading(req'[j], req[j])
    BY <1>1, <1>2
  <1>4. ASSUME NEW k \in Keys, LookUpKey(i, k) PROVE Stays
    <2>1. \A j \in Pys : req'[j] = req[j] \/ req'[j].op = "create"
      BY <1>2, <1>4 DEF LookUpKey
    <2> QED
      BY <1>4, <2>1, Unwritten DEF LookUpKey, store, Reading
  <1>5. ASSUME NEW c \in Codes, NEW url \in Urls, NEW e \in Deadlines \cup {Never}, CreateLink(i, c, url, e)
        PROVE  Stays
    <2>1. \E key : InsertLink(c, url, e, key, i)
      BY <1>5 DEF CreateLink, Inserted
    <2>2. RowsStay
      BY <2>1, Inserts
    <2> QED
      BY <1>3, <1>5, <2>2 DEF CreateLink
  <1>6. ASSUME NEW c \in Codes, NEW v \in Versions, ReadOld(i, c, v) PROVE Stays
    <2>1. c \in Known /\ links[c] \in Link
      BY <1>6 DEF ReadOld, Known, TrailInv, LinksOK
    <2>2. WasRead(ReadRow(c, v), links[c]) /\ ReadRow(c, v).code = c
      BY <2>1, ReadRowWasRead
    <2>3. \A j \in Pys : Reading(req'[j], req[j])
      BY <1>1, <1>2, <1>6, <2>1, <2>2 DEF ReadOld, Reading
    <2> QED
      BY <1>6, <2>3, Unwritten DEF ReadOld, store
  <1>7. ASSUME NEW c \in Codes, Disable(i, c) PROVE TrailInv'
    <2> DEFINE e == [code |-> c, action |-> "disable", old |-> links[c].url, new |-> links[c].url,
                     age |-> 0, version |-> links[c].version, guessed |-> FALSE, by |-> i]
    <2>1. /\ c \in Known /\ DisableLink(c) /\ UNCHANGED <<keys, origin, faults, req>>
          /\ audit' = Append(audit, e)
      BY <1>7 DEF Disable, InsertAudit
    <2>2. /\ e.action = "disable" /\ e.old = links[c].url /\ e.new = links[c].url
          /\ e.version = links[c].version /\ e.code = c
      OBVIOUS
    <2>3. /\ WrittenRow(c) /\ TellsWrite(e, links[c], links'[c]) /\ e.old \in Urls /\ e.version \in Nat \ {0}
      BY <2>1, <2>2, DisableWrites DEF TrailInv
    <2>4. e \in Entry
      BY <2>3, StoreAssumption DEF Entry
    <2> HIDE DEF e
    <2> QED
      BY <2>1, <2>2, <2>3, <2>4, PyWriteTrail
  <1>8. ASSUME NEW c \in Codes, Resolve(i, c) PROVE Stays
    BY <1>1, <1>8, Unwritten DEF Resolve
  <1>9. ASSUME NEW url \in Urls, UpdateDestination(i, url) PROVE TrailInv'
    <2> DEFINE r == req[i]
               e == [code |-> r.code, action |-> "update", old |-> r.old, new |-> url,
                     age |-> 0, version |-> r.expected + 1, guessed |-> r.guessed, by |-> i]
    <2>1. /\ r.op = "update" /\ UpdateLink(r.code, url, r.expected) /\ UNCHANGED <<keys, origin, faults>>
          /\ audit' = Append(audit, e) /\ req' = [req EXCEPT ![i] = Idle]
      BY <1>9 DEF UpdateDestination, Updated, InsertAudit
    <2>2. r.code \in Known /\ WasRead(r, links[r.code]) /\ r.expected \in Versions
      BY <2>1 DEF LinkInv, ReqOK, TrailInv, ReadsOK
    <2>3. /\ e.action = "update" /\ e.old = r.old /\ e.new = url /\ e.version = r.expected + 1
          /\ e.code = r.code /\ e.guessed = r.guessed
      OBVIOUS
    <2>4. /\ WrittenRow(r.code) /\ TellsWrite(e, links[r.code], links'[r.code])
          /\ r.code \in Codes /\ e.old \in Urls /\ e.version \in Nat \ {0}
          /\ e.guessed \in BOOLEAN
      BY <2>1, <2>2, <2>3, UpdateWrites DEF TrailInv
    <2>5. e \in Entry
      BY <2>4, StoreAssumption DEF Entry
    <2>6. \A j \in Pys : req'[j].op = "update" => req'[j] = req[j]
      BY <1>2, <2>1 DEF Idle
    <2> HIDE DEF e
    <2> QED
      BY <2>1, <2>3, <2>4, <2>5, <2>6, PyWriteTrail
  <1>10. CreateFails(i) \/ UpdateConflicts(i) => Stays
    BY <1>3, Unwritten DEF CreateFails, UpdateConflicts, store
  <1>11. Stats(i) => Stays
    BY <1>1, Unwritten DEF Stats
  <1>12. CrashPy(i) => Stays
    BY <1>3, Unwritten DEF CrashPy, tables
  <1> HIDE DEF Stays
  <1> QED
    BY <1>0, <1>4, <1>5, <1>6, <1>7, <1>8, <1>9, <1>10, <1>11, <1>12 DEF PyNext

LEMMA RsTrail == ASSUME LinkInv, Growing, TrailInv, RsNext, UNCHANGED pyVars PROVE TrailInv'
  <1> DEFINE Stays == RowsStay /\ UNCHANGED audit /\ PendingStays
                      /\ \A t \in Rss : Reading(rs'[t], rs[t])
  <1>0. req' = req
    BY DEF pyVars
  <1>1. Stays => TrailInv'
    BY <1>0, Untold, QuietKeepsTrail DEF Quiet, ReadsStay, Reading
  <1>2. DOMAIN rs = Rss /\ faults \in Nat /\ faults' \in Nat
    BY DEF LinkInv, RsOK, Growing
  <1>3. ASSUME NEW t \in Rss, NEW r, rs' = [rs EXCEPT ![t] = r], r.op # "audit",
               rs[t].op = "audit" => faults' > 0, Reading(r, rs[t])
        PROVE  PendingStays /\ \A u \in Rss : Reading(rs'[u], rs[u])
    BY <1>2, <1>3 DEF PendingStays, Reading
  <1>4. \A old : Reading(RsIdle, old)
    BY DEF Reading, RsIdle
  <1>5. RsIdle.op # "audit"
    BY DEF RsIdle
  <1>6. UNCHANGED rs => PendingStays /\ \A u \in Rss : Reading(rs'[u], rs[u])
    BY DEF PendingStays, Reading
  <1>7. ASSUME NEW t \in Rss, Free(t), rs[t].op = "audit" => faults' > 0
        PROVE  PendingStays /\ \A u \in Rss : Reading(rs'[u], rs[u])
    BY <1>3, <1>4, <1>5, <1>7 DEF Free
  <1>8. CASE CrashRs
    <2>1. faults' > 0
      BY <1>2, <1>8 DEF CrashRs, Fault
    <2>2. \A t \in Rss : rs'[t] = RsIdle
      BY <1>8 DEF CrashRs
    <2>3. PendingStays
      BY <1>5, <2>1, <2>2 DEF PendingStays
    <2>4. UNCHANGED <<links, audit>>
      BY <1>8 DEF CrashRs, tables
    <2> QED
      BY <1>1, <1>4, <2>2, <2>3, <2>4, Unwritten
  <1>9. ASSUME NEW t \in Rss, NEW c \in Codes, NEW url \in Urls, NEW e \in Deadlines \cup {Never},
               NEW k \in Keys \cup {NoKey}, RsCreateLink(t, c, url, e, k)
        PROVE  Stays
    <2>1. RowsStay /\ UNCHANGED audit
      BY <1>9, Inserts DEF RsCreateLink
    <2>2. rs[t].op # "audit"
      BY <1>5, <1>9 DEF RsCreateLink, MutexFree
    <2> DEFINE r == [op |-> "key", code |-> c, key |-> k]
    <2>3. r.op # "audit" /\ Reading(r, rs[t])
      BY DEF Reading
    <2>4. UNCHANGED rs \/ rs' = [rs EXCEPT ![t] = r]
      BY <1>9 DEF RsCreateLink
    <2> HIDE DEF r
    <2> QED
      BY <1>3, <1>6, <2>1, <2>2, <2>3, <2>4
  <1>10. ASSUME NEW t \in Rss, NEW c \in Codes, NEW v \in Versions, RsReadOld(t, c, v) PROVE Stays
    <2> DEFINE r == ReadRow(c, v)
    <2>1. c \in Known /\ links[c] \in Link
      BY <1>10 DEF RsReadOld, Known, TrailInv, LinksOK
    <2>2. WasRead(r, links[c]) /\ r.code = c /\ r.op # "audit"
      BY <2>1, ReadRowWasRead
    <2>3. rs' = [rs EXCEPT ![t] = r] /\ UNCHANGED <<links, audit>> /\ rs[t].op # "audit"
      BY <1>5, <1>10 DEF RsReadOld, MutexFree, store
    <2> HIDE DEF r
    <2>4. Reading(r, rs[t])
      BY <2>1, <2>2 DEF Reading
    <2> QED
      BY <1>3, <2>2, <2>3, <2>4, Unwritten
  <1>11. ASSUME NEW t \in Rss, NEW c \in Codes, RsDisable(t, c) PROVE TrailInv'
    <2> DEFINE e == [op |-> "audit", action |-> "disable", code |-> c, old |-> links[c].url,
                     new |-> links[c].url, version |-> links[c].version, guessed |-> FALSE]
    <2>1. /\ c \in Known /\ DisableLink(c) /\ UNCHANGED <<keys, origin, faults, audit>>
          /\ rs' = [rs EXCEPT ![t] = e] /\ \A u \in Rss : rs[u] = RsIdle
      BY <1>11 DEF RsDisable, MutexFree
    <2>2. /\ e.action = "disable" /\ e.old = links[c].url /\ e.new = links[c].url
          /\ e.version = links[c].version /\ e.code = c /\ e.op = "audit"
      OBVIOUS
    <2>3. /\ WrittenRow(c) /\ TellsWrite(e, links[c], links'[c]) /\ e.old \in Urls /\ e.version \in Nat \ {0}
      BY <2>1, <2>2, DisableWrites DEF TrailInv
    <2>4. EntryOf(e, t) \in Entry
      BY <2>3, StoreAssumption DEF Entry, EntryOf
    <2>5. rs'[t] = e /\ \A u \in Rss : u # t => rs[u] = RsIdle /\ rs'[u] = RsIdle
      BY <1>2, <2>1
    <2>6. rs[t].op # "audit"
      BY <1>5, <2>1
    <2> HIDE DEF e
    <2> QED
      BY <1>0, <2>1, <2>2, <2>3, <2>4, <2>5, <2>6, RsWriteTrail
  <1>12. ASSUME NEW t \in Rss, NEW c \in Codes, RsResolve(t, c) PROVE Stays
    <2> DEFINE r == [op |-> "totals", code |-> c]
    <2>1. r.op # "audit" /\ Reading(r, rs[t])
      BY DEF Reading
    <2>2. /\ UNCHANGED rs \/ rs' = [rs EXCEPT ![t] = r]
          /\ UNCHANGED <<links, audit>> /\ rs[t].op # "audit"
      BY <1>5, <1>12 DEF RsResolve, MutexFree
    <2> HIDE DEF r
    <2> QED
      BY <1>3, <1>6, <2>1, <2>2, Unwritten
  <1>13. ASSUME NEW t \in Rss, NEW url \in Urls, RsUpdateLink(t, url) PROVE TrailInv'
    <2> DEFINE r == rs[t]
               e == [op |-> "audit", action |-> "update", code |-> r.code,
                     old |-> r.old, new |-> url, version |-> r.expected + 1,
                     guessed |-> r.guessed]
    <2>1. /\ r.op = "update" /\ UpdateLink(r.code, url, r.expected) /\ UNCHANGED <<keys, origin, faults, audit>>
          /\ rs' = [rs EXCEPT ![t] = e]
      BY <1>13 DEF RsUpdateLink
    <2>2. r.code \in Known /\ WasRead(r, links[r.code]) /\ r.expected \in Versions
      BY <2>1 DEF LinkInv, RsOK, TrailInv, ReadsOK
    <2>3. /\ e.action = "update" /\ e.old = r.old /\ e.new = url /\ e.version = r.expected + 1
          /\ e.code = r.code /\ e.op = "audit" /\ e.guessed = r.guessed
      OBVIOUS
    <2>4. /\ WrittenRow(r.code) /\ TellsWrite(e, links[r.code], links'[r.code])
          /\ r.code \in Codes /\ e.old \in Urls /\ e.version \in Nat \ {0}
          /\ e.guessed \in BOOLEAN
      BY <2>1, <2>2, <2>3, UpdateWrites DEF TrailInv
    <2>5. EntryOf(e, t) \in Entry
      BY <2>4, StoreAssumption DEF Entry, EntryOf
    <2>6. rs'[t] = e /\ \A u \in Rss : u # t => rs[u] = RsIdle /\ rs'[u] = RsIdle
      BY <1>2, <2>1 DEF LinkInv, RsOK, RsIdle
    <2> HIDE DEF e
    <2> QED
      BY <1>0, <2>1, <2>3, <2>4, <2>5, <2>6, RsWriteTrail
  <1>14. ASSUME NEW t \in Rss, RsInsertKey(t) \/ RsConflict(t) \/ RsTotals(t) PROVE Stays
    <2>1. Free(t) /\ UNCHANGED <<links, audit>> /\ rs[t].op # "audit"
      BY <1>14 DEF RsInsertKey, RsConflict, RsTotals, store
    <2> QED
      BY <1>7, <2>1, Unwritten
  <1>15. ASSUME NEW t \in Rss, RsAudit(t) PROVE TrailInv'
    BY <1>0, <1>15, RsAuditTrail
  <1>16. ASSUME NEW t \in Rss, RsStatementFails(t) PROVE Stays
    <2>1. Free(t) /\ UNCHANGED <<links, audit>> /\ faults' > 0
      BY <1>2, <1>16 DEF RsStatementFails, Fault, tables
    <2> QED
      BY <1>7, <2>1, Unwritten
  <1> HIDE DEF Stays
  <1> QED
    BY <1>1, <1>8, <1>9, <1>10, <1>11, <1>12, <1>13, <1>14, <1>15, <1>16 DEF RsNext

LEMMA TrailStep == ASSUME LinkInv, TrailInv, [Next]_vars PROVE TrailInv'
  <1>1. Growing
    BY StepKinds
  <1>2. CASE UNCHANGED <<links, rs, req>> /\ TrailStays
    <2>1. Quiet
      BY <1>1, <1>2, Unwritten DEF Quiet, PendingStays, ReadsStay, Reading
    <2> QED
      BY <1>1, <2>1, QuietKeepsTrail
  <1>3. CASE UNCHANGED vars
    BY <1>2, <1>3, Untold DEF vars, store, pyVars
  <1>4. CASE Tick
    <2>1. TrailStays
      BY <1>4, Aged DEF Tick, TrailStays, TrailInv, EntriesOK
    <2> QED
      BY <1>2, <1>4, <2>1 DEF Tick
  <1> QED
    BY <1>1, <1>3, <1>4, PyTrail, RsTrail DEF Next

LEMMA TrailInit == Init => TrailInv
  <1> SUFFICES ASSUME Init PROVE TrailInv
    OBVIOUS
  <1>1. DOMAIN links = {} /\ audit = << >>
    BY DEF Init, StoreInit
  <1>2. \A i \in Pys : req[i].op = "idle"
    BY DEF Init, PyInit, Idle
  <1>3. \A t \in Rss : rs[t].op = "idle"
    BY DEF Init, RsInit, RsIdle
  <1> QED
    BY <1>1, <1>2, <1>3 DEF TrailInv, LinksOK, EntriesOK, PendingOK, ReadsOK, NoneMissing

LEMMA TrailAlways == Spec => [](LinkInv /\ TrailInv)
  BY InvInit, InvStep, TrailInit, TrailStep, PTL DEF Spec

LEMMA UpdatesFinite == ASSUME TrailInv, NEW c PROVE IsFiniteSet(Updates(c))
  <1>1. audit \in Seq(Entry)
    BY DEF TrailInv, EntriesOK
  <1>2. IsFiniteSet(1..Len(audit)) /\ Updates(c) \subseteq 1..Len(audit)
    BY <1>1, FS_Interval DEF Updates, Entries
  <1> QED
    BY <1>2, FS_Subset

\* The updates of a link are as many as it has versions above the first
\* exactly when each of those has its entry.
LEMMA Counted ==
    ASSUME TrailInv, NEW c \in DOMAIN links
    PROVE  Cardinality(Updates(c)) = links[c].version - 1 <=>
               \A v \in 2..links[c].version : \E n \in Updates(c) : audit[n].version = v
  <1> DEFINE V == links[c].version
             f == [n \in Updates(c) |-> audit[n].version]
  <1>1. V \in Nat \ {0}
    BY DEF TrailInv, LinksOK, Link
  <1>2. IsFiniteSet(2..V) /\ Cardinality(2..V) = V - 1
    <2> HIDE DEF V
    <2>1. V \in Int /\ IsFiniteSet(2..V) /\ Cardinality(2..V) = IF 2 > V THEN 0 ELSE V - 2 + 1
      BY <1>1, FS_Interval
    <2> QED
      BY <1>1, <2>1
  <1>3. ASSUME NEW n \in Updates(c) PROVE audit[n].version \in 2..V
    <2>1. n \in DOMAIN audit /\ audit[n].code = c /\ IsUpdate(audit[n])
      BY DEF Updates, Entries, IsUpdate
    <2>2. audit[n] \in Entry /\ Told(audit[n], links[c])
      BY <2>1 DEF TrailInv, EntriesOK
    <2> QED
      BY <1>1, <2>1, <2>2 DEF Told, Entry
  <1>4. ASSUME NEW m \in Updates(c), NEW n \in Updates(c), audit[m].version = audit[n].version
        PROVE  m = n
    <2>1. /\ m \in DOMAIN audit /\ n \in DOMAIN audit /\ audit[m].code = audit[n].code
          /\ IsUpdate(audit[m]) /\ IsUpdate(audit[n])
      BY DEF Updates, Entries, IsUpdate
    <2> QED
      BY <1>4, <2>1 DEF TrailInv, EntriesOK, Agree
  <1>5. f \in Injection(Updates(c), 2..V)
    BY <1>3, <1>4 DEF Injection, IsInjective
  <1>6. Cardinality(Updates(c)) = Cardinality(2..V) <=> f \in Surjection(Updates(c), 2..V)
    BY <1>2, <1>5, FS_Injection
  <1>7. f \in Surjection(Updates(c), 2..V) <=> \A v \in 2..V : \E n \in Updates(c) : audit[n].version = v
    BY <1>3 DEF Surjection
  <1> QED
    BY <1>2, <1>6, <1>7

LEMMA TrailExplains == LinkInv /\ TrailInv => AuditExplains
  <1> SUFFICES ASSUME LinkInv, TrailInv, NEW c \in DOMAIN links
               PROVE  /\ Audited(c) \/ Doing("audit", c) \/ faults > 0
                      /\ \A m, n \in Updates(c) :
                            /\ audit[m].version = audit[n].version => m = n
                            /\ audit[n].version = audit[m].version + 1 /\ ~audit[n].guessed =>
                                   audit[n].old = audit[m].new
                      /\ \A n \in Updates(c) : audit[n].version = links[c].version => audit[n].new = links[c].url
    BY DEF AuditExplains
  <1>1. \A n \in Updates(c) : n \in DOMAIN audit /\ audit[n].code = c /\ IsUpdate(audit[n])
    BY DEF Updates, Entries, IsUpdate
  <1>2. \A n \in Updates(c) : audit[n] \in Entry /\ Told(audit[n], links[c])
    BY <1>1 DEF TrailInv, EntriesOK
  <1>3. ASSUME NEW m \in Updates(c), NEW n \in Updates(c)
        PROVE  /\ audit[m].version = audit[n].version => m = n
               /\ audit[n].version = audit[m].version + 1 /\ ~audit[n].guessed =>
                      audit[n].old = audit[m].new
    <2>1. m # n => Agree(audit[m], audit[n])
      BY <1>1 DEF TrailInv, EntriesOK
    <2>2. audit[m].version \in Nat
      BY <1>2 DEF Entry
    <2> QED
      BY <1>1, <2>1, <2>2 DEF Agree
  <1>4. ASSUME faults = 0, ~Doing("audit", c) PROVE Audited(c)
    <2>1. /\ \A v \in 2..links[c].version : OnRecord(c, "update", v)
          /\ links[c].disabled => OnRecord(c, "disable", 0)
      BY <1>4 DEF TrailInv, NoneMissing
    <2>2. \A action, v : OnRecord(c, action, v) => \E n \in DOMAIN audit : Tells(audit[n], c, action, v)
      BY <1>4 DEF OnRecord, Pending, Doing, Tells
    <2>3. \A v \in 2..links[c].version : \E n \in Updates(c) : audit[n].version = v
      BY <2>1, <2>2 DEF Tells, Updates, Entries, IsUpdate
    <2>4. links[c].disabled => \E n \in Entries(c) : audit[n].action = "disable"
      BY <2>1, <2>2 DEF Tells, Entries
    <2> QED
      BY <2>3, <2>4, Counted DEF Audited
  <1>5. Audited(c) \/ Doing("audit", c) \/ faults > 0
    BY <1>4 DEF LinkInv
  <1> QED
    BY <1>1, <1>2, <1>3, <1>5 DEF Told

\* The audit trail tells the whole history of a link, however the instances
\* and threads interleave; only a write of the Rust service may still be
\* untold, or stay so after a fault (persistence.py:128, db.rs:193).
THEOREM TrailTells == Spec => []AuditExplains
  BY TrailAlways, TrailExplains, PTL

-------------------------------------------------------------------------------
(* What the caches answer *)

\* Cache entry x of instance i is a state that the link, now l, has been in:
\* what was written since has an entry no older than x, and none of it is by i.
AsItWas(i, x, l, trail) ==
    /\ x.link.expires = l.expires /\ x.link.version <= l.version /\ (x.link.disabled => l.disabled)
    /\ \A n \in DOMAIN trail : LET e == trail[n] IN e.code = x.code =>
          /\ IsUpdate(e) /\ e.version > x.link.version => e.age <= x.age
          /\ e.action = "disable" /\ ~x.link.disabled => e.age <= x.age
          /\ e.by = i => e.version <= x.link.version /\ (e.action = "disable" => x.link.disabled)

CacheOK ==
    /\ DOMAIN cache = Pys
    /\ \A i \in Pys :
       /\ cache[i] \in Seq(CacheEntry) /\ Len(cache[i]) <= CacheSize /\ OneEach(cache[i])
       /\ \A n \in DOMAIN cache[i] : /\ cache[i][n].code \in Known
                                     /\ AsItWas(i, cache[i][n], links[cache[i][n].code], audit)

\* Row m is a later state of row l.
Later(l, m) == m.expires = l.expires /\ l.version <= m.version /\ (l.disabled => m.disabled)

LEMMA RowsLater ==
    ASSUME LinkInv, LinksOK, [Next]_vars
    PROVE  \A c \in DOMAIN links : Later(links[c], links'[c])
  <1>1. ASSUME NEW c \in DOMAIN links, links'[c] = links[c] PROVE Later(links[c], links'[c])
    BY <1>1 DEF Later, LinksOK, Link
  <1>2. ASSUME NEW c \in DOMAIN links, Rewritten(links[c], links'[c]) PROVE Later(links[c], links'[c])
    <2>1. links[c] \in Link
      BY DEF LinksOK
    <2>2. links'[c].expires = links[c].expires /\ links'[c].version >= links[c].version
          /\ (links[c].disabled => links'[c].disabled) /\ links'[c] \in Link
      BY <1>2, <2>1, RewrittenKeeps
    <2> QED
      BY <2>1, <2>2 DEF Later, Link
  <1>3. CASE LinksKept \/ Ends
    BY <1>1, <1>3 DEF LinksKept, Ends, Keyed
  <1>4. CASE Creates \/ Starts
    <2>1. \E c, url, e, key, by : InsertLink(c, url, e, key, by)
      BY <1>4 DEF Creates, Starts, Published, Inserting
    <2>2. \A c \in DOMAIN links : links'[c] = links[c]
      BY <2>1 DEF InsertLink, With
    <2> QED
      BY <1>1, <2>2
  <1>5. CASE Writing
    <2>1. PICK d : Written(d)
      BY <1>5 DEF Writing
    <2>2. d \in DOMAIN links
      BY <2>1 DEF Written, Known
    <2>3. \A c \in DOMAIN links : c # d => links'[c] = links[c]
      BY <2>1 DEF Written, DisableLink
    <2>4. Rewritten(links[d], links'[d])
      BY <2>1, <2>2 DEF Written, DisableLink, Rewritten
    <2> QED
      BY <1>1, <1>2, <2>2, <2>3, <2>4
  <1> QED
    BY <1>3, <1>4, <1>5, StepKinds

\* The entry stays true: the link only moves on, and what is newly told is
\* fresh and by somebody else.
LEMMA StaysAsItWas ==
    ASSUME NEW i, NEW x, NEW y, NEW l \in Link, NEW m \in Link, NEW trail, NEW told,
           AsItWas(i, x, l, trail), Later(l, m), x.link \in Link, y.link = x.link, y.code = x.code,
           \A n \in DOMAIN told :
               \/ /\ n \in DOMAIN trail /\ SameEntry(trail[n], told[n]) /\ told[n].by = trail[n].by
                  /\ trail[n].age <= x.age => told[n].age <= y.age
               \/ /\ told[n].age <= y.age
                  /\ told[n].code = y.code => told[n].by # i
    PROVE  AsItWas(i, y, m, told)
  <1>1. /\ y.link.expires = m.expires /\ y.link.version <= m.version /\ (y.link.disabled => m.disabled)
    BY DEF AsItWas, Later, Link
  <1>2. ASSUME NEW n \in DOMAIN told, told[n].code = y.code
        PROVE  /\ IsUpdate(told[n]) /\ told[n].version > y.link.version => told[n].age <= y.age
               /\ told[n].action = "disable" /\ ~y.link.disabled => told[n].age <= y.age
               /\ told[n].by = i => told[n].version <= y.link.version
                                   /\ (told[n].action = "disable" => y.link.disabled)
    <2>1. CASE /\ n \in DOMAIN trail /\ SameEntry(trail[n], told[n]) /\ told[n].by = trail[n].by
               /\ trail[n].age <= x.age => told[n].age <= y.age
      BY <1>2, <2>1 DEF AsItWas, SameEntry, IsUpdate
    <2>2. CASE told[n].age <= y.age /\ (told[n].code = y.code => told[n].by # i)
      BY <1>2, <2>2
    <2> QED
      BY <2>1, <2>2
  <1> QED
    BY <1>1, <1>2 DEF AsItWas

\* What is read is what it is.
LEMMA ReadAsItIs ==
    ASSUME LinkInv, TrailInv, NEW i, NEW c \in Known, NEW x, x.code = c, x.link = links[c]
    PROVE  AsItWas(i, x, links[c], audit)
  <1>1. links[c] \in Link
    BY DEF Known, TrailInv, LinksOK
  <1>2. ASSUME NEW n \in DOMAIN audit, audit[n].code = c
        PROVE  audit[n] \in Entry /\ Told(audit[n], links[c])
    BY <1>2 DEF TrailInv, EntriesOK
  <1>3. ASSUME NEW n \in DOMAIN audit, audit[n].code = c
        PROVE  /\ audit[n].version <= links[c].version /\ ~(audit[n].version > links[c].version)
               /\ audit[n].action = "disable" => links[c].disabled
    BY <1>1, <1>2, <1>3 DEF Told, Entry, Link
  <1>4. links[c].version <= links[c].version
    BY <1>1 DEF Link
  <1> QED
    BY <1>3, <1>4 DEF AsItWas

\* A step that reads nothing into the caches.
LEMMA CacheKeeps ==
    ASSUME LinkInv, TrailInv, TrailInv', Growing, CacheOK, [Next]_vars, DOMAIN cache' = Pys,
           \A i \in Pys :
               /\ cache'[i] \in Seq(CacheEntry) /\ Len(cache'[i]) <= CacheSize /\ OneEach(cache'[i])
               /\ \A n \in DOMAIN cache'[i] : \E m \in DOMAIN cache[i] : cache'[i][n] = cache[i][m]
               /\ \A n \in DOMAIN audit' :
                     \/ n \in DOMAIN audit /\ audit'[n] = audit[n]
                     \/ /\ audit'[n].age = 0
                        /\ \A k \in DOMAIN cache'[i] : cache'[i][k].code = audit'[n].code => audit'[n].by # i
    PROVE  CacheOK'
  <1>1. SUFFICES ASSUME NEW i \in Pys, NEW n \in DOMAIN cache'[i]
                 PROVE  /\ cache'[i][n].code \in Known'
                        /\ AsItWas(i, cache'[i][n], links'[cache'[i][n].code], audit')
    BY DEF CacheOK
  <1> DEFINE x == cache'[i][n]
  <1>2. PICK m \in DOMAIN cache[i] : x = cache[i][m]
    OBVIOUS
  <1>3. x \in CacheEntry /\ x.code \in Known /\ AsItWas(i, x, links[x.code], audit)
    BY <1>2 DEF CacheOK
  <1>4. x.link \in Link /\ x.age \in Nat
    BY <1>3, StoreAssumption DEF CacheEntry
  <1>5. /\ x.code \in DOMAIN links /\ links[x.code] \in Link /\ x.code \in Known'
        /\ x.code \in DOMAIN links' /\ links'[x.code] \in Link
    BY <1>3 DEF Known, TrailInv, LinksOK, Growing, Grows
  <1>6. Later(links[x.code], links'[x.code])
    BY <1>5, RowsLater DEF TrailInv
  <1>7. ASSUME NEW k \in DOMAIN audit'
        PROVE  \/ /\ k \in DOMAIN audit /\ SameEntry(audit[k], audit'[k]) /\ audit'[k].by = audit[k].by
                  /\ audit[k].age <= x.age => audit'[k].age <= x.age
               \/ /\ audit'[k].age <= x.age
                  /\ audit'[k].code = x.code => audit'[k].by # i
    <2>1. CASE k \in DOMAIN audit /\ audit'[k] = audit[k]
      BY <2>1 DEF SameEntry
    <2>2. CASE /\ audit'[k].age = 0
               /\ \A j \in DOMAIN cache'[i] : cache'[i][j].code = audit'[k].code => audit'[k].by # i
      BY <1>4, <2>2
    <2> QED
      BY <2>1, <2>2
  <1> HIDE DEF x
  <1>8. AsItWas(i, x, links'[x.code], audit')
    BY <1>3, <1>4, <1>5, <1>6, <1>7, StaysAsItWas
  <1> QED
    BY <1>5, <1>8 DEF x

LEMMA CacheAndTrailStay ==
    ASSUME LinkInv, TrailInv, TrailInv', Growing, CacheOK, [Next]_vars, UNCHANGED audit,
           DOMAIN cache' = Pys, \A i \in Pys : cache'[i] = cache[i] \/ cache'[i] = << >>
    PROVE  CacheOK'
  <1>1. ASSUME NEW i \in Pys
        PROVE  /\ cache'[i] \in Seq(CacheEntry) /\ Len(cache'[i]) <= CacheSize /\ OneEach(cache'[i])
               /\ \A n \in DOMAIN cache'[i] : \E m \in DOMAIN cache[i] : cache'[i][n] = cache[i][m]
    <2>1. CASE cache'[i] = cache[i]
      BY <2>1 DEF CacheOK
    <2>2. CASE cache'[i] = << >>
      <3>1. cache'[i] \in Seq(CacheEntry) /\ Len(cache'[i]) = 0 /\ DOMAIN cache'[i] = {}
        BY <2>2
      <3> QED
        BY <3>1, CacheAssumption DEF OneEach
    <2> QED
      BY <2>1, <2>2
  <1> QED
    BY <1>1, CacheKeeps

\* Instance i writes the entry e of a code it drops from its cache.
LEMMA CacheDrops ==
    ASSUME LinkInv, TrailInv, TrailInv', Growing, CacheOK, [Next]_vars, NEW i \in Pys, NEW e,
           audit' = Append(audit, e), e.age = 0, e.by = i,
           cache' = [cache EXCEPT ![i] = Invalidate(@, e.code)]
    PROVE  CacheOK'
  <1> DEFINE rest == Drop(cache[i], e.code)
  <1>1. DOMAIN cache' = Pys /\ cache'[i] = rest /\ \A j \in Pys : j # i => cache'[j] = cache[j]
    BY DEF CacheOK, Invalidate
  <1>2. cache[i] \in Seq(CacheEntry) /\ Len(cache[i]) <= CacheSize /\ OneEach(cache[i])
    BY DEF CacheOK
  <1>3. /\ rest \in Seq(CacheEntry) /\ Len(rest) <= Len(cache[i]) /\ OneEach(rest)
        /\ \A n \in DOMAIN rest : rest[n].code # e.code /\ \E m \in DOMAIN cache[i] : rest[n] = cache[i][m]
    BY <1>2, DropProps
  <1> HIDE DEF rest
  <1>4. Len(rest) <= CacheSize
    BY <1>2, <1>3, CacheAssumption
  <1>5. \A n \in DOMAIN audit' : (n \in DOMAIN audit /\ audit'[n] = audit[n]) \/ audit'[n] = e
    <2>1. audit \in Seq(Entry)
      BY DEF TrailInv, EntriesOK
    <2>2. DOMAIN audit = 1..Len(audit) /\ DOMAIN audit' = 1..(Len(audit) + 1) /\ Len(audit) \in Nat
      BY <2>1
    <2>3. \A n \in 1..(Len(audit) + 1) : n \in 1..Len(audit) \/ n = Len(audit) + 1
      BY <2>2
    <2>4. audit'[Len(audit) + 1] = e /\ \A n \in 1..Len(audit) : audit'[n] = audit[n]
      BY <2>1
    <2> QED
      BY <2>2, <2>3, <2>4
  <1>6. ASSUME NEW j \in Pys
        PROVE  /\ cache'[j] \in Seq(CacheEntry) /\ Len(cache'[j]) <= CacheSize /\ OneEach(cache'[j])
               /\ \A n \in DOMAIN cache'[j] : \E m \in DOMAIN cache[j] : cache'[j][n] = cache[j][m]
    BY <1>1, <1>3, <1>4 DEF CacheOK
  <1>7. ASSUME NEW j \in Pys, NEW n \in DOMAIN audit'
        PROVE  \/ n \in DOMAIN audit /\ audit'[n] = audit[n]
               \/ /\ audit'[n].age = 0
                  /\ \A k \in DOMAIN cache'[j] : cache'[j][k].code = audit'[n].code => audit'[n].by # j
    <2>1. CASE audit'[n] = e
      BY <1>1, <1>3, <2>1
    <2> QED
      BY <1>5, <2>1
  <1> QED
    BY <1>1, <1>6, <1>7, CacheKeeps

LEMMA CacheTold ==
    ASSUME LinkInv, TrailInv, TrailInv', Growing, CacheOK, [Next]_vars, UNCHANGED cache,
           NEW e, audit' = Append(audit, e), e.age = 0, e.by \notin Pys
    PROVE  CacheOK'
  <1>1. \A n \in DOMAIN audit' : (n \in DOMAIN audit /\ audit'[n] = audit[n]) \/ audit'[n] = e
    <2>1. audit \in Seq(Entry)
      BY DEF TrailInv, EntriesOK
    <2>2. DOMAIN audit = 1..Len(audit) /\ DOMAIN audit' = 1..(Len(audit) + 1) /\ Len(audit) \in Nat
      BY <2>1
    <2>3. \A n \in 1..(Len(audit) + 1) : n \in 1..Len(audit) \/ n = Len(audit) + 1
      BY <2>2
    <2>4. audit'[Len(audit) + 1] = e /\ \A n \in 1..Len(audit) : audit'[n] = audit[n]
      BY <2>1
    <2> QED
      BY <2>2, <2>3, <2>4
  <1>2. ASSUME NEW j \in Pys, NEW n \in DOMAIN audit'
        PROVE  \/ n \in DOMAIN audit /\ audit'[n] = audit[n]
               \/ /\ audit'[n].age = 0
                  /\ \A k \in DOMAIN cache'[j] : cache'[j][k].code = audit'[n].code => audit'[n].by # j
    <2>1. CASE audit'[n] = e
      BY <2>1
    <2> QED
      BY <1>1, <2>1
  <1>3. ASSUME NEW j \in Pys
        PROVE  /\ cache'[j] \in Seq(CacheEntry) /\ Len(cache'[j]) <= CacheSize /\ OneEach(cache'[j])
               /\ \A n \in DOMAIN cache'[j] : \E m \in DOMAIN cache[j] : cache'[j][n] = cache[j][m]
    BY DEF CacheOK
  <1>4. DOMAIN cache' = Pys
    BY DEF CacheOK
  <1> QED
    BY <1>2, <1>3, <1>4, CacheKeeps

LEMMA CacheReads ==
    ASSUME LinkInv, TrailInv, CacheOK, NEW i \in Pys, NEW c \in Codes, Resolve(i, c)
    PROVE  CacheOK'
  <1>1. /\ c \in Known /\ UNCHANGED <<links, keys, origin, audit>>
        /\ cache' = [cache EXCEPT ![i] = Touch(@, c)]
    BY DEF Resolve
  <1>2. Known' = Known
    BY <1>1 DEF Known, HalfMade
  <1> DEFINE all == Touch(cache[i], c)
             read == [code |-> c, age |-> 0, link |-> links[c]]
  <1>3. /\ cache[i] \in Seq(CacheEntry) /\ OneEach(cache[i]) /\ Len(cache[i]) <= CacheSize
        /\ links[c] \in Link
    BY <1>1 DEF CacheOK, Known, TrailInv, LinksOK
  <1>4. /\ all \in Seq(CacheEntry) /\ Len(all) <= CacheSize /\ OneEach(all)
        /\ \A n \in DOMAIN all : all[n] = read \/ \E m \in DOMAIN cache[i] : all[n] = cache[i][m]
    BY <1>3, TouchProps
  <1>5. DOMAIN cache' = Pys /\ cache'[i] = all /\ \A j \in Pys : j # i => cache'[j] = cache[j]
    BY <1>1 DEF CacheOK
  <1>6. read.code \in Known /\ AsItWas(i, read, links[read.code], audit)
    BY <1>1, ReadAsItIs
  <1> HIDE DEF all, read
  <1>7. ASSUME NEW n \in DOMAIN all
        PROVE  all[n].code \in Known /\ AsItWas(i, all[n], links[all[n].code], audit)
    <2>1. CASE all[n] = read
      BY <1>6, <2>1
    <2>2. ASSUME NEW m \in DOMAIN cache[i], all[n] = cache[i][m]
          PROVE  all[n].code \in Known /\ AsItWas(i, all[n], links[all[n].code], audit)
      BY <2>2 DEF CacheOK
    <2> QED
      BY <1>4, <2>1, <2>2
  <1>8. ASSUME NEW j \in Pys
        PROVE  /\ cache'[j] \in Seq(CacheEntry) /\ Len(cache'[j]) <= CacheSize /\ OneEach(cache'[j])
               /\ \A n \in DOMAIN cache'[j] :
                     /\ cache'[j][n].code \in Known
                     /\ AsItWas(j, cache'[j][n], links[cache'[j][n].code], audit)
    <2>1. CASE j = i
      BY <1>4, <1>5, <1>7, <2>1
    <2>2. CASE j # i
      BY <1>5, <2>2 DEF CacheOK
    <2> QED
      BY <2>1, <2>2
  <1> QED
    BY <1>1, <1>2, <1>5, <1>8 DEF CacheOK

LEMMA OlderProps ==
    ASSUME NEW a \in 0..TTL, NEW b \in 0..TTL
    PROVE  Older(a, TTL) \in 0..TTL /\ (a <= b => Older(a, TTL) <= Older(b, TTL))
  BY StoreAssumption DEF Older

LEMMA CacheAges == ASSUME LinkInv, TrailInv, CacheOK, Tick PROVE CacheOK'
  <1>1. /\ UNCHANGED <<links, keys, origin>> /\ audit' = Ageing(audit)
        /\ cache' = [i \in Pys |-> Ageing(cache[i])]
    BY DEF Tick
  <1>2. Known' = Known
    BY <1>1 DEF Known, HalfMade
  <1>3. audit \in Seq(Entry)
    BY DEF TrailInv, EntriesOK
  <1>4. /\ DOMAIN audit' = DOMAIN audit
        /\ \A n \in DOMAIN audit : /\ SameEntry(audit[n], audit'[n]) /\ audit'[n].by = audit[n].by
                                   /\ audit'[n].age = Older(audit[n].age, TTL)
    BY <1>1, <1>3, Aged
  <1>5. \A n \in DOMAIN audit : audit[n].age \in 0..TTL
    <2>1. \A n \in DOMAIN audit : audit[n] \in Entry
      BY <1>3
    <2> QED
      BY <2>1 DEF Entry
  <1>6. SUFFICES ASSUME NEW i \in Pys
                 PROVE  /\ cache'[i] \in Seq(CacheEntry) /\ Len(cache'[i]) <= CacheSize /\ OneEach(cache'[i])
                        /\ \A n \in DOMAIN cache'[i] :
                              /\ cache'[i][n].code \in Known
                              /\ AsItWas(i, cache'[i][n], links[cache'[i][n].code], audit')
    BY <1>1, <1>2 DEF CacheOK
  <1> DEFINE s == cache[i]
             aged == cache'[i]
  <1>7. /\ s \in Seq(CacheEntry) /\ Len(s) <= CacheSize /\ OneEach(s)
        /\ \A n \in DOMAIN s : s[n].code \in Known /\ AsItWas(i, s[n], links[s[n].code], audit)
    BY DEF CacheOK
  <1>8. DOMAIN s = 1..Len(s) /\ Len(s) \in Nat
    BY <1>7
  <1>9. aged = [n \in DOMAIN s |-> [s[n] EXCEPT !.age = Older(@, TTL)]]
    BY <1>1 DEF Ageing
  <1>10. DOMAIN aged = DOMAIN s
    BY <1>9
  <1>11. ASSUME NEW n \in DOMAIN s
         PROVE  /\ aged[n] \in CacheEntry /\ aged[n].code = s[n].code /\ aged[n].link = s[n].link
                /\ aged[n].age = Older(s[n].age, TTL) /\ s[n].age \in 0..TTL /\ s[n].link \in Link
    <2>1. s[n] \in CacheEntry /\ aged[n] = [s[n] EXCEPT !.age = Older(@, TTL)]
      BY <1>7, <1>9
    <2>2. s[n].age \in 0..TTL
      BY <2>1 DEF CacheEntry
    <2>3. Older(s[n].age, TTL) \in 0..TTL
      BY <2>2, OlderProps
    <2> QED
      BY <2>1, <2>2, <2>3 DEF CacheEntry
  <1> HIDE DEF aged, s
  <1>12. aged \in Seq(CacheEntry) /\ Len(aged) = Len(s)
    <2>1. aged \in [1..Len(s) -> CacheEntry]
      BY <1>8, <1>9, <1>10, <1>11
    <2> QED
      BY <1>8, <2>1
  <1>13. OneEach(aged)
    BY <1>7, <1>10, <1>11 DEF OneEach
  <1>14. ASSUME NEW n \in DOMAIN aged
         PROVE  aged[n].code \in Known /\ AsItWas(i, aged[n], links[aged[n].code], audit')
    <2> DEFINE x == s[n]
               y == aged[n]
               l == links[x.code]
    <2>1. /\ x.code \in Known /\ AsItWas(i, x, l, audit) /\ y.code = x.code /\ y.link = x.link
          /\ y.age = Older(x.age, TTL) /\ x.age \in 0..TTL /\ x.link \in Link
      BY <1>7, <1>10, <1>11
    <2>2. l \in Link
      BY <2>1 DEF Known, TrailInv, LinksOK
    <2>3. Later(l, l)
      BY <2>2 DEF Later, Link
    <2> HIDE DEF x, y, l
    <2>4. \A k \in DOMAIN audit' :
              /\ k \in DOMAIN audit /\ SameEntry(audit[k], audit'[k]) /\ audit'[k].by = audit[k].by
              /\ audit[k].age <= x.age => audit'[k].age <= y.age
      BY <1>4, <1>5, <2>1, OlderProps
    <2>5. AsItWas(i, y, l, audit')
      BY <2>1, <2>2, <2>3, <2>4, StaysAsItWas
    <2> QED
      BY <2>1, <2>5 DEF x, y, l
  <1> QED
    BY <1>7, <1>12, <1>13, <1>14 DEF aged

LEMMA CacheStep ==
    ASSUME LinkInv, TrailInv, TrailInv', CacheOK, [Next]_vars PROVE CacheOK'
  <1>1. Growing
    BY StepKinds
  <1>2. DOMAIN cache = Pys
    BY DEF CacheOK
  <1> DEFINE Stays == /\ UNCHANGED audit /\ DOMAIN cache' = Pys
                      /\ \A i \in Pys : cache'[i] = cache[i] \/ cache'[i] = << >>
  <1>3. Stays => CacheOK'
    BY <1>1, CacheAndTrailStay
  <1>4. UNCHANGED <<audit, cache>> => Stays
    BY <1>2
  <1>5. CASE UNCHANGED vars
    BY <1>3, <1>4, <1>5 DEF vars, store, pyVars
  <1>6. ASSUME NEW i \in Pys, PyNext(i) PROVE CacheOK'
    <2>1. ASSUME NEW k \in Keys, LookUpKey(i, k) PROVE Stays
      BY <1>4, <2>1 DEF LookUpKey, store
    <2>2. ASSUME NEW c \in Codes, NEW url \in Urls, NEW e \in Deadlines \cup {Never}, CreateLink(i, c, url, e)
          PROVE  Stays
      BY <1>4, <2>2 DEF CreateLink
    <2>3. ASSUME NEW c \in Codes, NEW v \in Versions, ReadOld(i, c, v) PROVE Stays
      BY <1>4, <2>3 DEF ReadOld, store
    <2>4. ASSUME NEW c \in Codes, Disable(i, c) PROVE CacheOK'
      <3> DEFINE e == [code |-> c, action |-> "disable", old |-> links[c].url, new |-> links[c].url,
                       age |-> 0, version |-> links[c].version, guessed |-> FALSE, by |-> i]
      <3>1. /\ audit' = Append(audit, e) /\ e.age = 0 /\ e.by = i /\ e.code = c
            /\ cache' = [cache EXCEPT ![i] = Invalidate(@, c)]
        BY <2>4 DEF Disable, InsertAudit
      <3> HIDE DEF e
      <3> QED
        BY <1>1, <3>1, CacheDrops
    <2>5. ASSUME NEW c \in Codes, Resolve(i, c) PROVE CacheOK'
      BY <2>5, CacheReads
    <2>6. ASSUME NEW url \in Urls, UpdateDestination(i, url) PROVE CacheOK'
      <3> DEFINE e == [code |-> req[i].code, action |-> "update", old |-> req[i].old, new |-> url,
                       age |-> 0, version |-> req[i].expected + 1, guessed |-> req[i].guessed, by |-> i]
      <3>1. /\ audit' = Append(audit, e) /\ e.age = 0 /\ e.by = i /\ e.code = req[i].code
            /\ cache' = [cache EXCEPT ![i] = Invalidate(@, req[i].code)]
        BY <2>6 DEF UpdateDestination, Updated, InsertAudit
      <3> HIDE DEF e
      <3> QED
        BY <1>1, <3>1, CacheDrops
    <2>7. CreateFails(i) \/ UpdateConflicts(i) \/ Stats(i) => Stays
      BY <1>4 DEF CreateFails, UpdateConflicts, Stats, store
    <2>8. CrashPy(i) => Stays
      BY <1>2 DEF CrashPy, tables
    <2> HIDE DEF Stays
    <2> QED
      BY <1>3, <1>6, <2>1, <2>2, <2>3, <2>4, <2>5, <2>6, <2>7, <2>8 DEF PyNext
  <1>7. ASSUME RsNext, UNCHANGED pyVars PROVE CacheOK'
    <2>1. ASSUME NEW t \in Rss, RsAudit(t) PROVE CacheOK'
      <3> DEFINE e == EntryOf(rs[t], t)
      <3>1. /\ audit' = Append(audit, e) /\ e.age = 0 /\ e.by = t
        BY <2>1 DEF RsAudit, InsertAudit, EntryOf
      <3>2. t \notin Pys /\ UNCHANGED cache
        BY <1>7, StoreAssumption DEF pyVars
      <3> HIDE DEF e
      <3> QED
        BY <1>1, <3>1, <3>2, CacheTold
    <2>2. UNCHANGED audit \/ \E t \in Rss : RsAudit(t)
      BY <1>7 DEF RsNext, CrashRs, RsCreateLink, RsReadOld, RsDisable, RsResolve, RsUpdateLink, RsInsertKey,
                  RsConflict, RsTotals, RsStatementFails, tables, store
    <2>3. UNCHANGED cache
      BY <1>7 DEF pyVars
    <2> QED
      BY <1>3, <1>4, <2>1, <2>2, <2>3
  <1> QED
    BY <1>5, <1>6, <1>7, CacheAges DEF Next

-------------------------------------------------------------------------------
(* What becomes of the clicks *)

CountsOK ==
    /\ now \in Nat
    /\ events \in [Codes -> Nat] /\ totals \in [Codes -> Nat] /\ acked \in [Codes -> Nat]
    /\ buffer \in [Pys -> [Codes -> Nat]] /\ flushed \in [Pys -> 0..FlushInterval]
    /\ \A t \in Rss : rs[t].op = "totals" => rs[t].code \in Codes

Waiting(c) == Total([i \in Pys |-> buffer[i][c]])
Open(c) == IF Doing("totals", c) THEN 1 ELSE 0

\* e events, w clicks waiting, a redirects answered, o open, t in the totals, f faults.
Balance(e, w, a, o, t, f) == /\ e + w <= a + o + f /\ t + o <= e /\ e <= t + o + f
                             /\ f = 0 => e + w = a + o
Balanced == \A c \in Codes : Balance(events[c], Waiting(c), acked[c], Open(c), totals[c], faults)

LEMMA BalancedIsAccounted == Balanced <=> ClicksAccounted
  BY DEF Balanced, Balance, ClicksAccounted, Waiting, Open

LEMMA CountTypes ==
    ASSUME LinkInv, CountsOK, NEW c \in Codes
    PROVE  /\ Waiting(c) \in Nat /\ Open(c) \in {0, 1} /\ events[c] \in Nat /\ totals[c] \in Nat
           /\ acked[c] \in Nat /\ faults \in Nat
  <1>1. [i \in Pys |-> buffer[i][c]] \in [Pys -> Nat]
    BY DEF CountsOK
  <1>2. Waiting(c) \in Nat
    BY <1>1, TotalNat, StoreAssumption DEF Waiting
  <1> QED
    BY <1>2 DEF CountsOK, LinkInv, Open

\* The buffer of one instance changes.
LEMMA WaitingChanges ==
    ASSUME CountsOK, NEW i \in Pys, NEW batch \in [Codes -> Nat], buffer' = [buffer EXCEPT ![i] = batch]
    PROVE  /\ buffer' \in [Pys -> [Codes -> Nat]]
           /\ \A c \in Codes : /\ buffer[i][c] \in Nat /\ batch[c] \in Nat
                               /\ Waiting(c)' = Waiting(c) - buffer[i][c] + batch[c]
  <1>1. buffer \in [Pys -> [Codes -> Nat]]
    BY DEF CountsOK
  <1>2. ASSUME NEW c \in Codes PROVE Waiting(c)' = Waiting(c) - buffer[i][c] + batch[c]
    <2> DEFINE f == [j \in Pys |-> buffer[j][c]]
    <2>1. f \in [Pys -> Nat] /\ batch[c] \in Nat /\ f[i] = buffer[i][c]
      BY <1>1
    <2>2. [j \in Pys |-> buffer'[j][c]] = [f EXCEPT ![i] = batch[c]]
      BY <1>1
    <2> HIDE DEF f
    <2>3. IsFiniteSet(Pys)
      BY StoreAssumption
    <2>4. Total([f EXCEPT ![i] = batch[c]]) = Total(f) - f[i] + batch[c]
      BY <2>1, <2>3, TotalExcept, Zenon
    <2>5. Waiting(c) = Total(f)
      BY DEF Waiting, f
    <2>6. Waiting(c)' = Total([f EXCEPT ![i] = batch[c]])
      BY <2>2 DEF Waiting
    <2> QED
      BY <2>1, <2>4, <2>5, <2>6
  <1> QED
    BY <1>1, <1>2

LEMMA NoClicksType == NoClicks \in [Codes -> Nat] /\ \A c \in Codes : NoClicks[c] = 0
  BY DEF NoClicks

\* What is in no thread's hands stays so.
LEMMA OpenStays ==
    ASSUME LinkInv, CountsOK, NEW t \in Rss, NEW r, rs' = [rs EXCEPT ![t] = r],
           rs[t].op # "totals", r.op # "totals"
    PROVE  (\A c \in Codes : Open(c)' = Open(c)) /\ \A u \in Rss : rs'[u].op = "totals" => rs'[u].code \in Codes
  <1>1. DOMAIN rs = Rss
    BY DEF LinkInv, RsOK
  <1>2. \A u \in Rss : (rs'[u].op = "totals" <=> rs[u].op = "totals")
                          /\ (rs[u].op = "totals" => rs'[u] = rs[u])
    BY <1>1
  <1>3. ASSUME NEW c PROVE Doing("totals", c)' <=> Doing("totals", c)
    BY <1>2 DEF Doing
  <1> QED
    BY <1>2, <1>3 DEF Open, CountsOK

\* A step that answers and records nothing.
CountsStay == /\ UNCHANGED <<events, totals, acked, buffer, flushed, now>>
              /\ \A c \in Codes : Open(c)' = Open(c)
              /\ \A u \in Rss : rs'[u].op = "totals" => rs'[u].code \in Codes

LEMMA CountsKept ==
    ASSUME LinkInv, Growing, CountsOK, Balanced, CountsStay PROVE CountsOK' /\ Balanced'
  <1>1. CountsOK'
    BY DEF CountsStay, CountsOK
  <1>2. ASSUME NEW c \in Codes
        PROVE  Balance(events'[c], Waiting(c)', acked'[c], Open(c)', totals'[c], faults')
    <2>1. Balance(events[c], Waiting(c), acked[c], Open(c), totals[c], faults)
      BY DEF Balanced
    <2>2. /\ Waiting(c)' = Waiting(c) /\ Open(c)' = Open(c) /\ events' = events /\ acked' = acked
          /\ totals' = totals
      BY DEF CountsStay, Waiting
    <2>3. faults' >= faults /\ faults' \in Nat
      BY DEF Growing
    <2> QED
      BY <2>1, <2>2, <2>3, CountTypes DEF Balance
  <1> QED
    BY <1>1, <1>2 DEF Balanced

\* A flush writes the batch or, if that fails, loses it.
LEMMA FlushKeeps ==
    ASSUME LinkInv, CountsOK, NEW i \in Pys, NEW batch \in [Codes -> Nat], Flush(i, batch)
    PROVE  /\ flushed' \in [Pys -> 0..FlushInterval] /\ buffer' \in [Pys -> [Codes -> Nat]]
           /\ events' \in [Codes -> Nat] /\ totals' \in [Codes -> Nat]
           /\ \A c \in Codes : Waiting(c)' = Waiting(c) - buffer[i][c]
           /\ \/ /\ faults' = faults
                 /\ \A c \in Codes : events'[c] = events[c] + batch[c] /\ totals'[c] = totals[c] + batch[c]
              \/ faults' = faults + 1 /\ events' = events /\ totals' = totals
  <1>1. /\ flushed' = [flushed EXCEPT ![i] = 0] /\ buffer' = [buffer EXCEPT ![i] = NoClicks]
        /\ \/ RecordClicks(batch) /\ UNCHANGED faults
           \/ Fault /\ UNCHANGED <<events, totals>>
    BY DEF Flush
  <1>2. flushed' \in [Pys -> 0..FlushInterval]
    BY <1>1, CacheAssumption DEF CountsOK
  <1>3. /\ buffer' \in [Pys -> [Codes -> Nat]]
        /\ \A c \in Codes : Waiting(c)' = Waiting(c) - buffer[i][c]
    <2>1. /\ buffer' \in [Pys -> [Codes -> Nat]]
          /\ \A c \in Codes : /\ buffer[i][c] \in Nat
                              /\ Waiting(c)' = Waiting(c) - buffer[i][c] + NoClicks[c]
      BY <1>1, NoClicksType, WaitingChanges
    <2> QED
      BY <2>1, NoClicksType, CountTypes
  <1>4. CASE RecordClicks(batch) /\ UNCHANGED faults
    <2>1. /\ events' = [c \in Codes |-> events[c] + batch[c]]
          /\ totals' = [c \in Codes |-> totals[c] + batch[c]]
      BY <1>4 DEF RecordClicks
    <2>2. events' \in [Codes -> Nat] /\ totals' \in [Codes -> Nat]
      BY <2>1 DEF CountsOK
    <2> QED
      BY <1>2, <1>3, <1>4, <2>1, <2>2
  <1>5. CASE Fault /\ UNCHANGED <<events, totals>>
    BY <1>2, <1>3, <1>5 DEF Fault, CountsOK
  <1> QED
    BY <1>1, <1>4, <1>5

LEMMA PyCounts ==
    ASSUME LinkInv, Growing, CountsOK, Balanced, NEW i \in Pys, PyNext(i), UNCHANGED rs
    PROVE  CountsOK' /\ Balanced'
  <1>1. /\ \A c : Open(c)' = Open(c)
        /\ \A u \in Rss : rs'[u].op = "totals" => rs'[u].code \in Codes
    BY DEF Open, Doing, CountsOK
  <1>2. UNCHANGED <<events, totals, acked, buffer, flushed, now>> => CountsOK' /\ Balanced'
    BY <1>1, CountsKept DEF CountsStay
  <1>3. /\ buffer[i] \in [Codes -> Nat] /\ now \in Nat /\ faults \in Nat
        /\ acked \in [Codes -> Nat] /\ flushed \in [Pys -> 0..FlushInterval]
        /\ events \in [Codes -> Nat] /\ totals \in [Codes -> Nat]
    BY DEF CountsOK, LinkInv
  <1>4. \A c \in Codes : /\ Balance(events[c], Waiting(c), acked[c], Open(c), totals[c], faults)
                        /\ Waiting(c) \in Nat /\ Open(c) \in {0, 1} /\ events[c] \in Nat /\ totals[c] \in Nat
                        /\ acked[c] \in Nat /\ buffer[i][c] \in Nat
    BY <1>3, CountTypes DEF Balanced
  <1>5. ASSUME NEW c \in Codes, Resolve(i, c), ~Servable(Lookup(i, c)) PROVE CountsOK' /\ Balanced'
    BY <1>2, <1>5 DEF Resolve
  <1>6. ASSUME NEW c \in Codes, Resolve(i, c), Servable(Lookup(i, c)) PROVE CountsOK' /\ Balanced'
    <2> DEFINE batch == [buffer[i] EXCEPT ![c] = @ + 1]
    <2>1. /\ acked' = [acked EXCEPT ![c] = @ + 1] /\ now' = now
          /\ \/ Flush(i, batch)
             \/ buffer' = [buffer EXCEPT ![i] = batch] /\ UNCHANGED <<events, totals, flushed, faults>>
      BY <1>6 DEF Resolve
    <2>2. batch \in [Codes -> Nat] /\ \A d \in Codes : batch[d] = buffer[i][d] + IF d = c THEN 1 ELSE 0
      BY <1>3
    <2>3. acked' \in [Codes -> Nat] /\ \A d \in Codes : acked'[d] = acked[d] + IF d = c THEN 1 ELSE 0
      BY <1>3, <2>1
    <2> HIDE DEF batch
    <2>4. CASE Flush(i, batch)
      <3>1. /\ flushed' \in [Pys -> 0..FlushInterval] /\ buffer' \in [Pys -> [Codes -> Nat]]
            /\ events' \in [Codes -> Nat] /\ totals' \in [Codes -> Nat]
            /\ \A d \in Codes : Waiting(d)' = Waiting(d) - buffer[i][d]
            /\ \/ /\ faults' = faults
                  /\ \A d \in Codes : events'[d] = events[d] + batch[d] /\ totals'[d] = totals[d] + batch[d]
               \/ faults' = faults + 1 /\ events' = events /\ totals' = totals
        BY <2>2, <2>4, FlushKeeps
      <3>2. CountsOK'
        BY <1>1, <1>3, <2>1, <2>3, <3>1 DEF CountsOK
      <3>3. ASSUME NEW d \in Codes
            PROVE  Balance(events'[d], Waiting(d)', acked'[d], Open(d)', totals'[d], faults')
        <4>1. /\ batch[d] = buffer[i][d] + IF d = c THEN 1 ELSE 0
              /\ acked'[d] = acked[d] + IF d = c THEN 1 ELSE 0
              /\ Open(d)' = Open(d) /\ Waiting(d)' = Waiting(d) - buffer[i][d]
          BY <1>1, <2>2, <2>3, <3>1
        <4>2. CASE faults' = faults /\ events'[d] = events[d] + batch[d] /\ totals'[d] = totals[d] + batch[d]
          BY <1>3, <1>4, <4>1, <4>2 DEF Balance
        <4>3. CASE faults' = faults + 1 /\ events' = events /\ totals' = totals
          BY <1>3, <1>4, <4>1, <4>3 DEF Balance
        <4> QED
          BY <3>1, <4>2, <4>3
      <3> QED
        BY <3>2, <3>3 DEF Balanced
    <2>5. CASE buffer' = [buffer EXCEPT ![i] = batch] /\ UNCHANGED <<events, totals, flushed, faults>>
      <3>1. /\ buffer' \in [Pys -> [Codes -> Nat]]
            /\ \A d \in Codes : Waiting(d)' = Waiting(d) - buffer[i][d] + batch[d]
        BY <2>2, <2>5, WaitingChanges
      <3>2. CountsOK'
        BY <1>1, <1>3, <2>1, <2>3, <2>5, <3>1 DEF CountsOK
      <3>3. ASSUME NEW d \in Codes
            PROVE  Balance(events'[d], Waiting(d)', acked'[d], Open(d)', totals'[d], faults')
        <4>1. /\ batch[d] = buffer[i][d] + IF d = c THEN 1 ELSE 0
              /\ acked'[d] = acked[d] + IF d = c THEN 1 ELSE 0
              /\ Open(d)' = Open(d) /\ Waiting(d)' = Waiting(d) - buffer[i][d] + batch[d]
          BY <1>1, <2>2, <2>3, <3>1
        <4> QED
          BY <1>3, <1>4, <2>5, <4>1 DEF Balance
      <3> QED
        BY <3>2, <3>3 DEF Balanced
    <2> QED
      BY <2>1, <2>4, <2>5
  <1>7. ASSUME Stats(i) PROVE CountsOK' /\ Balanced'
    <2>1. Flush(i, buffer[i]) /\ UNCHANGED <<acked, now>>
      BY <1>7 DEF Stats
    <2>2. /\ flushed' \in [Pys -> 0..FlushInterval] /\ buffer' \in [Pys -> [Codes -> Nat]]
          /\ events' \in [Codes -> Nat] /\ totals' \in [Codes -> Nat]
          /\ \A d \in Codes : Waiting(d)' = Waiting(d) - buffer[i][d]
          /\ \/ /\ faults' = faults
                /\ \A d \in Codes : events'[d] = events[d] + buffer[i][d] /\ totals'[d] = totals[d] + buffer[i][d]
             \/ faults' = faults + 1 /\ events' = events /\ totals' = totals
      BY <1>3, <2>1, FlushKeeps
    <2>3. CountsOK'
      BY <1>1, <1>3, <2>1, <2>2 DEF CountsOK
    <2>4. ASSUME NEW d \in Codes
          PROVE  Balance(events'[d], Waiting(d)', acked'[d], Open(d)', totals'[d], faults')
      <3>1. acked'[d] = acked[d] /\ Open(d)' = Open(d) /\ Waiting(d)' = Waiting(d) - buffer[i][d]
        BY <1>1, <2>1, <2>2
      <3>2. CASE /\ faults' = faults /\ events'[d] = events[d] + buffer[i][d]
                 /\ totals'[d] = totals[d] + buffer[i][d]
        BY <1>3, <1>4, <3>1, <3>2 DEF Balance
      <3>3. CASE faults' = faults + 1 /\ events' = events /\ totals' = totals
        BY <1>3, <1>4, <3>1, <3>3 DEF Balance
      <3> QED
        BY <2>2, <3>2, <3>3
    <2> QED
      BY <2>3, <2>4 DEF Balanced
  <1>8. ASSUME CrashPy(i) PROVE CountsOK' /\ Balanced'
    <2>1. /\ buffer' = [buffer EXCEPT ![i] = NoClicks] /\ flushed' = [flushed EXCEPT ![i] = 0]
          /\ faults' = faults + 1 /\ UNCHANGED <<events, totals, acked, now>>
      BY <1>8 DEF CrashPy, Fault, tables
    <2>2. /\ buffer' \in [Pys -> [Codes -> Nat]]
          /\ \A d \in Codes : Waiting(d)' = Waiting(d) - buffer[i][d] + NoClicks[d]
      BY <2>1, NoClicksType, WaitingChanges
    <2>3. flushed' \in [Pys -> 0..FlushInterval]
      BY <1>3, <2>1, CacheAssumption
    <2>4. CountsOK'
      BY <1>1, <1>3, <2>1, <2>2, <2>3 DEF CountsOK
    <2>5. ASSUME NEW d \in Codes
          PROVE  Balance(events'[d], Waiting(d)', acked'[d], Open(d)', totals'[d], faults')
      <3>1. Open(d)' = Open(d) /\ Waiting(d)' = Waiting(d) - buffer[i][d]
        BY <1>1, <1>4, <2>2, NoClicksType
      <3> QED
        BY <1>3, <1>4, <2>1, <3>1 DEF Balance
    <2> QED
      BY <2>4, <2>5 DEF Balanced
  <1>9. ASSUME NEW k \in Keys, LookUpKey(i, k) PROVE CountsOK' /\ Balanced'
    BY <1>2, <1>9 DEF LookUpKey, store
  <1>10. ASSUME NEW c \in Codes, NEW url \in Urls, NEW e \in Deadlines \cup {Never}, CreateLink(i, c, url, e)
         PROVE  CountsOK' /\ Balanced'
    BY <1>2, <1>10 DEF CreateLink
  <1>11. ASSUME NEW c \in Codes, Disable(i, c) PROVE CountsOK' /\ Balanced'
    BY <1>2, <1>11 DEF Disable
  <1>14. ASSUME NEW c \in Codes, NEW v \in Versions, ReadOld(i, c, v) PROVE CountsOK' /\ Balanced'
    BY <1>2, <1>14 DEF ReadOld, store
  <1>12. ASSUME NEW url \in Urls, UpdateDestination(i, url) PROVE CountsOK' /\ Balanced'
    BY <1>2, <1>12 DEF UpdateDestination
  <1>13. CreateFails(i) \/ UpdateConflicts(i) => CountsOK' /\ Balanced'
    BY <1>2 DEF CreateFails, UpdateConflicts, store
  <1> QED
    BY <1>5, <1>6, <1>7, <1>8, <1>9, <1>10, <1>11, <1>12, <1>13, <1>14 DEF PyNext

LEMMA RsCounts ==
    ASSUME LinkInv, Growing, CountsOK, Balanced, RsNext, UNCHANGED pyVars
    PROVE  CountsOK' /\ Balanced'
  <1>1. /\ now \in Nat /\ faults \in Nat /\ DOMAIN rs = Rss /\ RsIdle.op = "idle"
        /\ acked \in [Codes -> Nat] /\ events \in [Codes -> Nat] /\ totals \in [Codes -> Nat]
        /\ buffer \in [Pys -> [Codes -> Nat]] /\ flushed \in [Pys -> 0..FlushInterval]
        /\ buffer' = buffer /\ flushed' = flushed
    BY DEF CountsOK, LinkInv, RsOK, RsIdle, pyVars
  <1>2. \A c \in Codes : /\ Balance(events[c], Waiting(c), acked[c], Open(c), totals[c], faults)
                        /\ Waiting(c) \in Nat /\ events[c] \in Nat /\ totals[c] \in Nat
                        /\ acked[c] \in Nat /\ Waiting(c)' = Waiting(c) /\ Open(c) \in {0, 1}
    BY <1>1, CountTypes DEF Balanced, Waiting
  <1>3. ASSUME NEW t \in Rss, NEW r, rs' = [rs EXCEPT ![t] = r], rs[t].op # "totals", r.op # "totals",
               UNCHANGED <<events, totals, acked, now>>
        PROVE  CountsOK' /\ Balanced'
    BY <1>1, <1>3, OpenStays, CountsKept DEF CountsStay
  <1>4. UNCHANGED <<events, totals, acked, now, rs>> => CountsOK' /\ Balanced'
    BY <1>1, CountsKept DEF CountsStay, Open, Doing, CountsOK
  <1>5. ASSUME \A t \in Rss : rs'[t] = RsIdle PROVE \A c : Open(c)' = 0
    BY <1>1, <1>5 DEF Open, Doing
  <1>6. CASE CrashRs
    <2>1. /\ faults' = faults + 1 /\ (\A t \in Rss : rs'[t] = RsIdle)
          /\ UNCHANGED <<events, totals, acked, now>>
      BY <1>6 DEF CrashRs, Fault, tables
    <2>2. CountsOK'
      BY <1>1, <2>1 DEF CountsOK
    <2>3. ASSUME NEW d \in Codes
          PROVE  Balance(events'[d], Waiting(d)', acked'[d], Open(d)', totals'[d], faults')
      BY <1>1, <1>2, <1>5, <2>1 DEF Balance
    <2> QED
      BY <2>2, <2>3 DEF Balanced
  <1>7. ASSUME NEW t \in Rss, NEW c \in Codes, MutexFree,
               rs' = [rs EXCEPT ![t] = [op |-> "totals", code |-> c]],
               events' = [events EXCEPT ![c] = @ + 1], UNCHANGED <<totals, acked, now, faults>>
        PROVE  CountsOK' /\ Balanced'
    <2>1. /\ \A u \in Rss : rs[u] = RsIdle
          /\ rs' = [rs EXCEPT ![t] = [op |-> "totals", code |-> c]]
          /\ events' = [events EXCEPT ![c] = @ + 1] /\ UNCHANGED <<totals, acked, now, faults>>
      BY <1>7 DEF MutexFree
    <2>2. /\ rs'[t] = [op |-> "totals", code |-> c] /\ \A u \in Rss : u # t => rs'[u] = RsIdle
      BY <1>1, <2>1
    <2>3. CountsOK'
      BY <1>1, <2>1, <2>2 DEF CountsOK
    <2>4. \A d \in Codes : Open(d) = 0 /\ Open(d)' = IF d = c THEN 1 ELSE 0
      BY <1>1, <2>1, <2>2 DEF Open, Doing
    <2>5. \A d \in Codes : events'[d] = events[d] + IF d = c THEN 1 ELSE 0
      BY <1>1, <2>1
    <2>6. ASSUME NEW d \in Codes
          PROVE  Balance(events'[d], Waiting(d)', acked'[d], Open(d)', totals'[d], faults')
      BY <1>1, <1>2, <2>1, <2>4, <2>5 DEF Balance
    <2> QED
      BY <2>3, <2>6 DEF Balanced
  <1>15. ASSUME NEW c \in Codes, acked' = [acked EXCEPT ![c] = @ + 1], faults' = faults + 1,
                UNCHANGED <<events, totals, now, rs>>
         PROVE  CountsOK' /\ Balanced'
    <2>1. CountsOK'
      BY <1>1, <1>15 DEF CountsOK
    <2>2. \A d \in Codes : Open(d)' = Open(d)
      BY <1>15 DEF Open, Doing
    <2>3. \A d \in Codes : acked'[d] \in Nat /\ (acked'[d] = acked[d] \/ acked'[d] = acked[d] + 1)
      BY <1>1, <1>15
    <2>4. ASSUME NEW d \in Codes
          PROVE  Balance(events'[d], Waiting(d)', acked'[d], Open(d)', totals'[d], faults')
      BY <1>1, <1>2, <1>15, <2>2, <2>3 DEF Balance
    <2> QED
      BY <2>1, <2>4 DEF Balanced
  <1>16. ASSUME NEW t \in Rss, NEW c \in Codes, RsResolve(t, c) PROVE CountsOK' /\ Balanced'
    BY <1>7, <1>15, <1>16 DEF RsResolve, Fault
  <1>8. ASSUME NEW t \in Rss, rs[t].op = "totals", Free(t), UNCHANGED <<events, now>>,
               acked' = [acked EXCEPT ![rs[t].code] = @ + 1],
               \/ totals' = [totals EXCEPT ![rs[t].code] = @ + 1] /\ UNCHANGED faults
               \/ UNCHANGED totals /\ faults' = faults + 1
        PROVE  CountsOK' /\ Balanced'
    <2> DEFINE c == rs[t].code
    <2>1. /\ c \in Codes /\ rs[t] # RsIdle
      BY <1>1, <1>8 DEF CountsOK
    <2>2. \A u \in Rss : rs'[u] = RsIdle /\ (u # t => rs[u] = RsIdle)
      BY <1>1, <1>8, <2>1 DEF Free, LinkInv, RsOK
    <2>3. acked' \in [Codes -> Nat] /\ totals' \in [Codes -> Nat]
      BY <1>1, <1>8, <2>1
    <2>4. CountsOK'
      BY <1>1, <1>8, <2>2, <2>3 DEF CountsOK
    <2>5. \A d \in Codes : Open(d)' = 0 /\ Open(d) = IF d = c THEN 1 ELSE 0
      BY <1>1, <1>5, <1>8, <2>2 DEF Open, Doing
    <2>6. \A d \in Codes : acked'[d] = acked[d] + IF d = c THEN 1 ELSE 0
      BY <1>1, <1>8, <2>1
    <2>7. \/ faults' = faults /\ \A d \in Codes : totals'[d] = totals[d] + IF d = c THEN 1 ELSE 0
          \/ faults' = faults + 1 /\ totals' = totals
      BY <1>1, <1>8, <2>1
    <2> HIDE DEF c
    <2>8. ASSUME NEW d \in Codes
          PROVE  Balance(events'[d], Waiting(d)', acked'[d], Open(d)', totals'[d], faults')
      BY <1>1, <1>2, <1>8, <2>5, <2>6, <2>7 DEF Balance
    <2> QED
      BY <2>4, <2>8 DEF Balanced
  <1>9. ASSUME NEW t \in Rss, RsTotals(t) PROVE CountsOK' /\ Balanced'
    BY <1>8, <1>9 DEF RsTotals
  <1>10. ASSUME NEW t \in Rss, RsStatementFails(t) PROVE CountsOK' /\ Balanced'
    <2>1. CASE rs[t].op = "totals"
      BY <1>8, <1>10, <2>1 DEF RsStatementFails, Fault, tables
    <2>2. CASE rs[t].op # "totals"
      BY <1>1, <1>3, <1>10, <2>2 DEF RsStatementFails, tables, Free
    <2> QED
      BY <2>1, <2>2
  <1>11. ASSUME NEW t \in Rss, RsInsertKey(t) \/ RsConflict(t) \/ RsAudit(t) PROVE CountsOK' /\ Balanced'
    <2>1. rs[t].op # "totals" /\ Free(t) /\ UNCHANGED <<events, totals, acked, now>>
      BY <1>11 DEF RsInsertKey, RsConflict, RsAudit, store
    <2> QED
      BY <1>1, <1>3, <2>1 DEF Free
  <1>12. ASSUME NEW t \in Rss, NEW url \in Urls, RsUpdateLink(t, url) PROVE CountsOK' /\ Balanced'
    <2>1. /\ rs[t].op # "totals" /\ UNCHANGED <<events, totals, acked, now>>
          /\ \E r : r.op # "totals" /\ rs' = [rs EXCEPT ![t] = r]
      BY <1>12 DEF RsUpdateLink
    <2> QED
      BY <1>3, <2>1
  <1>13. ASSUME NEW t \in Rss, NEW c \in Codes, RsDisable(t, c) \/ \E v \in Versions : RsReadOld(t, c, v)
         PROVE  CountsOK' /\ Balanced'
    <2>1. /\ rs[t].op # "totals" /\ UNCHANGED <<events, totals, acked, now>>
          /\ \E r : r.op # "totals" /\ rs' = [rs EXCEPT ![t] = r]
      BY <1>1, <1>13 DEF RsReadOld, ReadRow, RsDisable, store, MutexFree
    <2> QED
      BY <1>3, <2>1
  <1>14. ASSUME NEW t \in Rss, NEW c \in Codes, NEW url \in Urls, NEW e \in Deadlines \cup {Never},
                NEW k \in Keys \cup {NoKey}, RsCreateLink(t, c, url, e, k)
         PROVE  CountsOK' /\ Balanced'
    <2>1. /\ rs[t].op # "totals" /\ UNCHANGED <<events, totals, acked, now>>
          /\ UNCHANGED rs \/ \E r : r.op # "totals" /\ rs' = [rs EXCEPT ![t] = r]
      BY <1>1, <1>14 DEF RsCreateLink, MutexFree
    <2> QED
      BY <1>3, <1>4, <2>1
  <1> DEFINE Goal == CountsOK' /\ Balanced'
  <1>17. ASSUME NEW t \in Rss, NEW c \in Codes,
                RsDisable(t, c) \/ RsResolve(t, c) \/ \E v \in Versions : RsReadOld(t, c, v)
         PROVE  Goal
    BY <1>13, <1>16, <1>17
  <1>18. ASSUME NEW t \in Rss,
                \/ \E url \in Urls : RsUpdateLink(t, url)
                \/ RsInsertKey(t) \/ RsConflict(t) \/ RsAudit(t) \/ RsTotals(t) \/ RsStatementFails(t)
                \/ \E c \in Codes, url \in Urls, e \in Deadlines \cup {Never}, k \in Keys \cup {NoKey} :
                       RsCreateLink(t, c, url, e, k)
         PROVE  Goal
    BY <1>9, <1>10, <1>11, <1>12, <1>14, <1>18
  <1>19. CrashRs => Goal
    BY <1>6
  <1> HIDE DEF Goal
  <1>20. Goal
    BY <1>17, <1>18, <1>19 DEF RsNext
  <1> QED
    BY <1>20 DEF Goal

LEMMA CountsStep ==
    ASSUME LinkInv, CountsOK, Balanced, [Next]_vars PROVE CountsOK' /\ Balanced'
  <1>1. Growing
    BY StepKinds
  <1>2. CASE UNCHANGED vars
    BY <1>1, <1>2, CountsKept DEF CountsStay, vars, store, pyVars, Open, Doing, CountsOK
  <1>3. CASE Tick
    <2>1. /\ UNCHANGED <<events, totals, acked, faults, buffer, rs>> /\ now' \in Nat
          /\ flushed' = [i \in Pys |-> Older(flushed[i], FlushInterval)]
      BY <1>3 DEF Tick, ClockTicks, CountsOK
    <2>2. flushed' \in [Pys -> 0..FlushInterval]
      BY <2>1, CacheAssumption DEF CountsOK, Older
    <2>3. CountsOK'
      BY <2>1, <2>2 DEF CountsOK
    <2>4. \A c : Waiting(c)' = Waiting(c) /\ Open(c)' = Open(c)
      BY <2>1 DEF Waiting, Open, Doing
    <2> QED
      BY <2>1, <2>3, <2>4 DEF Balanced
  <1> QED
    BY <1>1, <1>2, <1>3, PyCounts, RsCounts DEF Next

LEMMA CountsInit == Init => CountsOK /\ Balanced
  <1> SUFFICES ASSUME Init PROVE CountsOK /\ Balanced
    OBVIOUS
  <1>1. /\ events = [c \in Codes |-> 0] /\ totals = events /\ acked = events /\ now = 0 /\ faults = 0
        /\ buffer = [i \in Pys |-> NoClicks] /\ flushed = [i \in Pys |-> 0]
        /\ rs = [t \in Rss |-> RsIdle] /\ RsIdle.op = "idle"
    BY DEF Init, StoreInit, PyInit, RsInit, RsIdle
  <1>2. CountsOK
    BY <1>1, NoClicksType, CacheAssumption DEF CountsOK
  <1>3. ASSUME NEW c \in Codes PROVE Waiting(c) = 0 /\ Open(c) = 0
    <2> DEFINE f == [i \in Pys |-> buffer[i][c]]
    <2>1. f \in [Pys -> Nat] /\ \A i \in Pys : f[i] = 0
      BY <1>1, NoClicksType
    <2> HIDE DEF f
    <2>2. Total(f) = 0
      BY <2>1, TotalZero
    <2>3. Open(c) = 0
      BY <1>1 DEF Open, Doing
    <2> QED
      BY <2>2, <2>3 DEF Waiting, f
  <1> QED
    BY <1>1, <1>2, <1>3 DEF Balanced, Balance

LEMMA CacheInit == Init => CacheOK
  <1> SUFFICES ASSUME Init PROVE CacheOK
    OBVIOUS
  <1>1. cache = [i \in Pys |-> << >>]
    BY DEF Init, PyInit
  <1> QED
    BY <1>1, CacheAssumption DEF CacheOK, OneEach

-------------------------------------------------------------------------------
(* The invariant and what follows from it *)

KeysTyped == DOMAIN keys \subseteq Keys

LEMMA KeysTypedStep == ASSUME LinkInv, KeysTyped, [Next]_vars PROVE KeysTyped'
  <1>1. CASE LinksKept \/ Writing \/ Starts
    BY <1>1 DEF LinksKept, Writing, Written, Starts, Inserting, KeysTyped
  <1>2. CASE Creates
    BY <1>2 DEF Creates, Published, InsertKey, With, KeysTyped
  <1>3. CASE Ends
    <2>1. PICK t \in Rss : rs[t].op = "key" /\ InsertKey(rs[t].key, rs[t].code)
      BY <1>3 DEF Ends, Keyed
    <2>2. rs[t].key \in Keys
      BY <2>1 DEF LinkInv, RsOK
    <2> QED
      BY <2>1, <2>2 DEF InsertKey, With, KeysTyped
  <1> QED
    BY <1>1, <1>2, <1>3, StepKinds

\* The tables, what the Rust service is doing to them, the caches and the
\* counts, none of which is inductive by itself.
ServingInv == LinkInv /\ TrailInv /\ KeysTyped /\ CacheOK /\ CountsOK /\ Balanced

LEMMA ServingInit == Init => ServingInv
  BY InvInit, TrailInit, CacheInit, CountsInit DEF ServingInv, KeysTyped, Init, StoreInit

LEMMA ServingStep == ServingInv /\ [Next]_vars => ServingInv'
  <1> SUFFICES ASSUME ServingInv, [Next]_vars PROVE ServingInv'
    OBVIOUS
  <1>1. LinkInv' /\ TrailInv' /\ KeysTyped'
    BY InvStep, TrailStep, KeysTypedStep DEF ServingInv
  <1>2. CacheOK' /\ CountsOK' /\ Balanced'
    BY <1>1, CacheStep, CountsStep DEF ServingInv
  <1> QED
    BY <1>1, <1>2 DEF ServingInv

LEMMA ServingAlways == Spec => []ServingInv
  BY ServingInit, ServingStep, PTL DEF Spec

LEMMA ServingTyped == ServingInv => TypeOK
  <1> SUFFICES ASSUME ServingInv PROVE TypeOK
    OBVIOUS
  <1>1. /\ DOMAIN links \subseteq Codes /\ DOMAIN origin \subseteq DOMAIN links
        /\ \A k \in DOMAIN keys : keys[k] \in DOMAIN links
    BY DEF ServingInv, LinkInv, KeysOK
  <1>2. (\A c \in DOMAIN links : links[c] \in Link) /\ audit \in Seq(Entry)
    BY DEF ServingInv, TrailInv, LinksOK, EntriesOK
  <1>3. \A n \in DOMAIN audit : audit[n] \in Entry
    BY <1>2
  <1>4. ASSUME NEW i \in Pys
        PROVE  Len(cache[i]) <= CacheSize /\ \A n \in DOMAIN cache[i] : cache[i][n].link \in Link
    <2>1. Len(cache[i]) <= CacheSize /\ cache[i] \in Seq(CacheEntry)
      BY DEF ServingInv, CacheOK
    <2>2. \A n \in DOMAIN cache[i] : cache[i][n] \in CacheEntry
      BY <2>1
    <2> QED
      BY <2>1, <2>2 DEF CacheEntry
  <1> QED
    BY <1>1, <1>2, <1>3, <1>4 DEF TypeOK, ServingInv, KeysTyped, CountsOK

\* What a look-up answers is a state that the link has been in, read less than
\* TTL ago or now.
LEMMA LookupSeen ==
    ASSUME ServingInv, NEW i \in Pys, NEW c \in Known
    PROVE  \E x \in CacheEntry :
              /\ Lookup(i, c) = x.link /\ x.code = c /\ AsItWas(i, x, links[c], audit)
              /\ x.age < TTL \/ x.link = links[c]
  <1> DEFINE read == [code |-> c, age |-> 0, link |-> links[c]]
             seen == Last(Touch(cache[i], c))
  <1>1. LinkInv /\ TrailInv /\ CacheOK
    BY DEF ServingInv
  <1>2. c \in Codes /\ links[c] \in Link
    BY <1>1 DEF Known, LinkInv, TrailInv, LinksOK
  <1>3. /\ cache[i] \in Seq(CacheEntry) /\ OneEach(cache[i]) /\ Len(cache[i]) <= CacheSize
        /\ \A n \in DOMAIN cache[i] : AsItWas(i, cache[i][n], links[cache[i][n].code], audit)
    BY <1>1 DEF CacheOK
  <1>4. \/ seen = read
        \/ \E m \in DOMAIN cache[i] : /\ seen = cache[i][m] /\ cache[i][m].code = c
                                      /\ cache[i][m].age < TTL
    BY <1>2, <1>3, TouchProps
  <1>5. CASE seen = read
    <2>1. read \in CacheEntry /\ read.code = c /\ read.link = links[c]
      BY <1>2, StoreAssumption DEF CacheEntry
    <2> HIDE DEF read
    <2>2. AsItWas(i, read, links[c], audit)
      BY <1>1, <2>1, ReadAsItIs
    <2> QED
      BY <1>5, <2>1, <2>2 DEF Lookup
  <1>6. ASSUME NEW m \in DOMAIN cache[i], seen = cache[i][m], cache[i][m].code = c, cache[i][m].age < TTL
        PROVE  \E x \in CacheEntry :
                  /\ Lookup(i, c) = x.link /\ x.code = c /\ AsItWas(i, x, links[c], audit)
                  /\ x.age < TTL \/ x.link = links[c]
    <2>1. cache[i][m] \in CacheEntry /\ AsItWas(i, cache[i][m], links[c], audit)
      BY <1>3, <1>6
    <2> QED
      BY <1>6, <2>1 DEF Lookup
  <1> QED
    BY <1>4, <1>5, <1>6

LEMMA SeenHonoursExpiry == ServingInv => ExpiryHonoured
  <1> SUFFICES ASSUME ServingInv, NEW i \in Pys, NEW c \in Known, Servable(Lookup(i, c))
               PROVE  links[c].expires = Never \/ now < links[c].expires
    BY DEF ExpiryHonoured
  <1>1. Lookup(i, c).expires = links[c].expires
    BY LookupSeen DEF AsItWas
  <1>2. links[c].expires \in Deadlines \cup {Never}
    BY DEF ServingInv, Known, TrailInv, LinksOK, Link
  <1>3. links[c].expires # Never => links[c].expires \in Nat /\ ~(links[c].expires <= now)
    BY <1>1, <1>2, StoreAssumption DEF Servable, Expired
  <1>4. now \in Nat
    BY DEF ServingInv, CountsOK
  <1> QED
    BY <1>3, <1>4

LEMMA SeenIsNotStale == ServingInv => StaleLessThanTTL
  <1> SUFFICES ASSUME ServingInv, NEW i \in Pys, NEW c \in Known, Audited(c)
               PROVE  /\ Lookup(i, c).version < links[c].version =>
                            \E n \in Entries(c) : /\ audit[n].action = "update" /\ audit[n].age < TTL
                                                  /\ audit[n].version = Lookup(i, c).version + 1
                      /\ Lookup(i, c).disabled # links[c].disabled =>
                            \E n \in Entries(c) : audit[n].action = "disable" /\ audit[n].age < TTL
    BY DEF StaleLessThanTTL
  <1>1. c \in DOMAIN links /\ links[c] \in Link /\ TrailInv
    BY DEF ServingInv, Known, TrailInv, LinksOK
  <1>2. PICK x \in CacheEntry :
            /\ Lookup(i, c) = x.link /\ x.code = c /\ AsItWas(i, x, links[c], audit)
            /\ x.age < TTL \/ x.link = links[c]
    BY LookupSeen
  <1> DEFINE seen == Lookup(i, c)
  <1>3. seen = x.link /\ seen \in Link /\ x.age \in Nat
    BY <1>2, StoreAssumption DEF CacheEntry
  <1>4. TTL \in Nat /\ audit \in Seq(Entry)
    BY <1>1, StoreAssumption DEF TrailInv, EntriesOK
  <1>5. \A n \in Entries(c) : /\ n \in DOMAIN audit /\ audit[n].code = c /\ audit[n].age \in Nat
                              /\ audit[n].version \in Nat
    <2>1. \A n \in DOMAIN audit : audit[n] \in Entry
      BY <1>4
    <2> QED
      BY <1>4, <2>1 DEF Entries, Entry
  <1>6. \A n \in Entries(c) :
           /\ IsUpdate(audit[n]) /\ audit[n].version > seen.version => audit[n].age <= x.age
           /\ audit[n].action = "disable" /\ ~seen.disabled => audit[n].age <= x.age
    BY <1>2, <1>3, <1>5 DEF AsItWas
  <1> HIDE DEF seen
  <1>7. ASSUME seen.version < links[c].version
        PROVE  \E n \in Entries(c) : /\ audit[n].action = "update" /\ audit[n].age < TTL
                                     /\ audit[n].version = seen.version + 1
    <2>1. seen.version + 1 \in 2..links[c].version
      BY <1>1, <1>3, <1>7 DEF Link
    <2>2. PICK n \in Updates(c) : audit[n].version = seen.version + 1
      BY <1>1, <2>1, Counted DEF Audited
    <2>3. n \in Entries(c) /\ audit[n].action = "update"
      BY <2>2 DEF Updates
    <2>4. x.age < TTL
      BY <1>1, <1>2, <1>3, <1>7 DEF Link
    <2>5. audit[n].age <= x.age
      BY <1>3, <1>6, <2>2, <2>3 DEF IsUpdate, Link
    <2> QED
      BY <1>3, <1>4, <1>5, <2>2, <2>3, <2>4, <2>5
  <1>8. ASSUME seen.disabled # links[c].disabled
        PROVE  \E n \in Entries(c) : audit[n].action = "disable" /\ audit[n].age < TTL
    <2>1. links[c].disabled /\ ~seen.disabled /\ x.age < TTL
      BY <1>1, <1>2, <1>3, <1>8 DEF AsItWas, Link
    <2>2. PICK n \in Entries(c) : audit[n].action = "disable"
      BY <2>1 DEF Audited
    <2> QED
      BY <1>3, <1>4, <1>5, <1>6, <2>1, <2>2
  <1> QED
    BY <1>7, <1>8 DEF seen

LEMMA SeenIsWritten == ServingInv => ReadsItsWrites
  <1> SUFFICES ASSUME ServingInv, NEW i \in Pys, NEW c \in Known, NEW n \in Entries(c), audit[n].by = i
               PROVE  /\ Lookup(i, c).version >= audit[n].version
                      /\ audit[n].action = "disable" => Lookup(i, c).disabled
    BY DEF ReadsItsWrites
  <1>1. PICK x \in CacheEntry : Lookup(i, c) = x.link /\ x.code = c /\ AsItWas(i, x, links[c], audit)
    BY LookupSeen
  <1>2. n \in DOMAIN audit /\ audit[n].code = x.code
    BY <1>1 DEF Entries
  <1>3. audit[n].version <= x.link.version /\ (audit[n].action = "disable" => x.link.disabled)
    BY <1>1, <1>2 DEF AsItWas
  <1>4. audit[n].version \in Nat /\ x.link.version \in Nat
    <2>1. audit \in Seq(Entry)
      BY DEF ServingInv, TrailInv, EntriesOK
    <2>2. audit[n] \in Entry /\ x.link \in Link
      BY <1>1, <1>2, <2>1 DEF CacheEntry
    <2> QED
      BY <2>2 DEF Entry, Link
  <1> QED
    BY <1>1, <1>3, <1>4

\* Whatever the services do, fail at and lose, the tables, the caches and the
\* buffers hold what the code puts in them, and a cache never more entries
\* than its capacity (cache.py:41).
THEOREM ServingTypes == Spec => []TypeOK
  BY ServingAlways, ServingTyped, PTL

\* No instance redirects at or after the expiry of a link, from its cache or
\* from the database (domain.py:5, cache.py:5).
THEOREM ExpiryKept == Spec => []ExpiryHonoured
  BY ServingAlways, SeenHonoursExpiry, PTL

\* What an instance answers lags less than the TTL behind the audit trail,
\* whichever process wrote (cache.py:3).
THEOREM StalenessBounded == Spec => []StaleLessThanTTL
  BY ServingAlways, SeenIsNotStale, PTL

\* An instance answers with its own last write or a later one (api.py:131,
\* api.py:142).
THEOREM OwnWritesRead == Spec => []ReadsItsWrites
  BY ServingAlways, SeenIsWritten, PTL

\* Every redirect answered is one event, written or waiting, until a fault; and
\* a fault loses clicks or adds one at most (analytics.py:42, persistence.py:145,
\* db.rs:217).
THEOREM ClicksKept == Spec => []ClicksAccounted
  BY ServingAlways, BalancedIsAccounted, PTL DEF ServingInv
===============================================================================
