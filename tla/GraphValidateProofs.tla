------------------------- MODULE GraphValidateProofs -------------------------
(***************************************************************************)
(* Kahn's algorithm as graph.validate has it decides what the scheduler    *)
(* needs, for lists of any length over any names.                          *)
(***************************************************************************)
EXTENDS GraphValidate, FiniteSetTheorems, TLAPS

Counted == indegree # <<>>

\* The names that have left the queue.
Popped == {n \in TaskNames : indegree[n] <= 0} \ queue

DepsOf(c) == tasks[LastEntry(c)].deps

\* The edges into c that have not been followed.
Open(c) == {j \in DOMAIN DepsOf(c) : DepsOf(c)[j] \notin Popped}

Progress ==
    /\ TaskNames # {} /\ AllKnown
    /\ indegree \in [TaskNames -> Int]
    /\ queue \subseteq {n \in TaskNames : indegree[n] <= 0}
    /\ seen = Cardinality(Popped)

\* In a list without a name twice, the indegree of a name is what is still
\* open, and what has left the queue is a graph without a cycle.
Waiting ==
    Distinct => /\ \A c \in TaskNames : indegree[c] = Cardinality(Open(c))
                /\ Acyclic(Popped, DepSet)

KahnInv ==
    /\ tasks \in Seq([name : Names, deps : Seq(Names)])
    /\ verdict \in {"none", "ok", "unknown", "cycle"}
    /\ ~Counted => queue = {} /\ seen = 0
    /\ Counted => Progress /\ Waiting
    /\ AcceptsExactlyPlans

-------------------------------------------------------------------------------
(* The list and its edges *)

List == tasks \in Seq([name : Names, deps : Seq(Names)])

LEMMA Entry ==
    ASSUME List, NEW i \in DOMAIN tasks
    PROVE  /\ tasks[i].deps \in Seq(Names)
           /\ DOMAIN tasks[i].deps = 1..Len(tasks[i].deps)
           /\ Len(tasks[i].deps) \in Nat
           /\ tasks[i].name \in TaskNames
<1> DEFINE Row == [name : Names, deps : Seq(Names)]
<1>1. tasks[i] \in Row
  <2> HIDE DEF Row
  <2>1. tasks \in Seq(Row)
    BY DEF List, Row
  <2> QED
    BY <2>1
<1>2. tasks[i].deps \in Seq(Names)
  BY <1>1
<1> QED
  BY <1>2 DEF TaskNames

LEMMA ListFinite ==
    ASSUME List
    PROVE  /\ DOMAIN tasks = 1..Len(tasks) /\ Len(tasks) \in Nat
           /\ IsFiniteSet(DOMAIN tasks) /\ Cardinality(DOMAIN tasks) = Len(tasks)
           /\ [i \in DOMAIN tasks |-> tasks[i].name] \in Surjection(DOMAIN tasks, TaskNames)
           /\ IsFiniteSet(TaskNames) /\ Cardinality(TaskNames) \in Nat
           /\ Cardinality(TaskNames) = Len(tasks) <=> Distinct
<1> DEFINE name == [i \in DOMAIN tasks |-> tasks[i].name]
<1>1. DOMAIN tasks = 1..Len(tasks) /\ Len(tasks) \in Nat
  BY DEF List
<1>2. IsFiniteSet(DOMAIN tasks) /\ Cardinality(DOMAIN tasks) = Len(tasks)
  <2>1. /\ IsFiniteSet(1..Len(tasks))
        /\ Cardinality(1..Len(tasks)) = IF 1 > Len(tasks) THEN 0 ELSE Len(tasks) - 1 + 1
    BY <1>1, FS_Interval
  <2> QED
    BY <1>1, <2>1
<1>3. name \in Surjection(DOMAIN tasks, TaskNames)
  BY DEF Surjection, TaskNames
<1>4. /\ IsFiniteSet(TaskNames)
      /\ Cardinality(TaskNames) = Cardinality(DOMAIN tasks)
            <=> name \in Injection(DOMAIN tasks, TaskNames)
  BY <1>2, <1>3, FS_Surjection
<1>5. Cardinality(TaskNames) \in Nat
  BY <1>4, FS_CardinalityType
<1>6. name \in Injection(DOMAIN tasks, TaskNames) <=> Distinct
  BY <1>3 DEF Injection, IsInjective, Surjection, Distinct
<1> QED
  BY <1>1, <1>2, <1>3, <1>4, <1>5, <1>6

\* Every set of numbers with a member has a least one.
LEMMA LeastNumber ==
    ASSUME NEW S \in SUBSET Nat, S # {}
    PROVE  \E m \in S : \A k \in S : m <= k
<1>1. \E m \in S : \A k \in S : ~ (<<k, m>> \in OpToRel(<, Nat))
  BY NatLessThanWellFounded, WFMin
<1>2. PICK m \in S : \A k \in S : ~ (<<k, m>> \in OpToRel(<, Nat))
  BY <1>1
<1>3. \A k \in S : ~ (k < m)
  BY <1>2 DEF OpToRel
<1> QED
  BY <1>3

LEMMA Last ==
    ASSUME List, NEW c \in TaskNames
    PROVE  LastEntry(c) \in DOMAIN tasks /\ tasks[LastEntry(c)].name = c
<1> DEFINE S == {i \in DOMAIN tasks : tasks[i].name = c}
           L == Len(tasks)
           T == {k \in 0..L : L - k \in S}
<1>1. S # {} /\ S \subseteq 1..L /\ L \in Nat
  BY ListFinite DEF TaskNames
<1>2. PICK i \in S : TRUE
  BY <1>1
<1>3. L - i \in T
  BY <1>1, <1>2
<1>4. PICK m \in T : \A k \in T : m <= k
  <2>1. T \in SUBSET Nat /\ T # {}
    BY <1>3
  <2> HIDE DEF T
  <2> QED
    BY <2>1, LeastNumber
<1>5. L - m \in S
  BY <1>4
<1>6. ASSUME NEW j \in S PROVE j <= L - m
  <2>1. L - j \in T
    BY <1>1
  <2> QED
    BY <1>1, <1>4, <2>1
<1> QED
  BY <1>5, <1>6 DEF LastEntry

-------------------------------------------------------------------------------
(* Counting edges *)

LEMMA EdgesFinite ==
    ASSUME List, NEW n, NEW c
    PROVE  Edges(n, c) \in Nat
<1> DEFINE entries == {i \in DOMAIN tasks : tasks[i].name = c}
           at(i) == {k \in DOMAIN tasks[i].deps : tasks[i].deps[k] = n}
           from(i) == {<<i, j>> : j \in at(i)}
           all == {from(i) : i \in entries}
<1>1. \A i \in entries : IsFiniteSet(from(i))
  <2> SUFFICES ASSUME NEW i \in entries PROVE IsFiniteSet(from(i))
    OBVIOUS
  <2>1. IsFiniteSet(1..Len(tasks[i].deps))
    BY Entry, FS_Interval
  <2>2. at(i) \in SUBSET (1..Len(tasks[i].deps))
    BY Entry
  <2>3. IsFiniteSet(at(i))
    BY <2>1, <2>2, FS_Subset
  <2>4. [j \in at(i) |-> <<i, j>>] \in Surjection(at(i), from(i))
    BY DEF Surjection
  <2> QED
    BY <2>3, <2>4, FS_Surjection
<1>2. IsFiniteSet(entries)
  <2>1. entries \in SUBSET (DOMAIN tasks)
    OBVIOUS
  <2> QED
    BY <2>1, ListFinite, FS_Subset
<1>3. IsFiniteSet(all)
  <2>1. [i \in entries |-> from(i)] \in Surjection(entries, all)
    BY DEF Surjection
  <2> QED
    BY <1>2, <2>1, FS_Surjection
<1>4. IsFiniteSet(UNION all)
  <2>1. \A T \in all : IsFiniteSet(T)
    BY <1>1
  <2> HIDE DEF all
  <2> QED
    BY <1>3, <2>1, FS_UNION
<1>5. Edges(n, c) = Cardinality(UNION all)
  BY DEF Edges
<1> QED
  BY <1>4, <1>5, FS_CardinalityType

LEMMA OpenFinite ==
    ASSUME List, NEW c \in TaskNames, NEW S \in SUBSET DOMAIN DepsOf(c)
    PROVE  IsFiniteSet(S) /\ Cardinality(S) \in Nat /\ (Cardinality(S) <= 0 <=> S = {})
<1>1. DOMAIN DepsOf(c) = 1..Len(DepsOf(c)) /\ Len(DepsOf(c)) \in Nat
  BY Last, Entry DEF DepsOf
<1>2. IsFiniteSet(DOMAIN DepsOf(c))
  BY <1>1, FS_Interval
<1>3. IsFiniteSet(S)
  BY <1>2, FS_Subset
<1>4. Cardinality(S) \in Nat
  BY <1>3, FS_CardinalityType
<1>5. Cardinality(S) = 0 <=> S = {}
  BY <1>3, FS_EmptySet
<1> QED
  BY <1>3, <1>4, <1>5

\* In a list without a name twice, the edges from n to c stand in one entry.
LEMMA EdgesOfOne ==
    ASSUME List, Distinct, NEW n, NEW c \in TaskNames
    PROVE  Edges(n, c) = Cardinality({j \in DOMAIN DepsOf(c) : DepsOf(c)[j] = n})
<1> DEFINE e == LastEntry(c)
           entries == {i \in DOMAIN tasks : tasks[i].name = c}
           at(i) == {k \in DOMAIN tasks[i].deps : tasks[i].deps[k] = n}
           pairs == UNION {{<<i, j>> : j \in at(i)} : i \in entries}
           F == [j \in at(e) |-> <<e, j>>]
<1>1. entries = {e}
  BY Last DEF Distinct
<1>2. pairs = {<<e, j>> : j \in at(e)}
  BY <1>1
<1>3. F \in Bijection(at(e), pairs)
  <2>1. F \in [at(e) -> pairs]
    BY <1>2
  <2>2. \A a, b \in at(e) : F[a] = F[b] => a = b
    OBVIOUS
  <2>3. \A t \in pairs : \E j \in at(e) : F[j] = t
    BY <1>2
  <2> HIDE DEF F, pairs
  <2> QED
    BY <2>1, <2>2, <2>3 DEF Bijection, Injection, Surjection, IsInjective
<1>4. ExistsBijection(at(e), pairs)
  BY <1>3 DEF ExistsBijection
<1>5. at(e) \in SUBSET DOMAIN DepsOf(c)
  BY DEF DepsOf
<1>6. IsFiniteSet(at(e))
  <2> HIDE DEF at, e
  <2> QED
    BY <1>5, OpenFinite
<1>7. Cardinality(pairs) = Cardinality(at(e))
  <2> HIDE DEF at, e, pairs
  <2> QED
    BY <1>4, <1>6, FS_Bijection
<1>8. Edges(n, c) = Cardinality(pairs)
  BY DEF Edges
<1> QED
  BY <1>7, <1>8 DEF DepsOf

LEMMA DepSetOfOne ==
    ASSUME List, Distinct, NEW c \in TaskNames
    PROVE  DepSet[c] = {DepsOf(c)[j] : j \in DOMAIN DepsOf(c)}
<1>1. {k \in DOMAIN tasks : tasks[k].name = c} = {LastEntry(c)}
  BY Last DEF Distinct
<1> QED
  BY <1>1 DEF DepSet, DepsOf

-------------------------------------------------------------------------------
(* The steps *)

LEMMA InitKahn == Init => KahnInv
<1> SUFFICES ASSUME Init PROVE KahnInv
  OBVIOUS
<1>1. List
  <2> DEFINE Row == [name : Names, deps : DepLists]
             Full == [name : Names, deps : Seq(Names)]
  <2>1. Row \subseteq Full
    BY InputAssumption
  <2>2. PICK k \in 0..MaxTasks : tasks \in [1..k -> Row]
    BY DEF Init
  <2>3. tasks \in Seq(Full)
    <3> HIDE DEF Row, Full
    <3> QED
      BY <2>1, <2>2, InputAssumption
  <2> QED
    BY <2>3 DEF List
<1>2. ~Counted
  BY DEF Init, Counted
<1> QED
  BY <1>1, <1>2 DEF Init, KahnInv, List, AcceptsExactlyPlans

LEMMA CountKahn ==
    ASSUME KahnInv, Count
    PROVE  KahnInv'
<1>1. List /\ List' /\ TaskNames' = TaskNames /\ AllKnown' = AllKnown
  BY DEF KahnInv, List, Count, TaskNames, AllKnown
<1>2. \A c \in TaskNames : DepsOf(c)' = DepsOf(c) /\ LastEntry(c)' = LastEntry(c)
  BY DEF Count, DepsOf, LastEntry
<1>3. \A c \in TaskNames : /\ Len(DepsOf(c)) \in Nat
                           /\ DOMAIN DepsOf(c) = 1..Len(DepsOf(c))
                           /\ indegree'[c] = Len(DepsOf(c))
  BY <1>1, Last, Entry DEF Count, DepsOf
<1>4. indegree' \in [TaskNames -> Int] /\ DOMAIN indegree' = TaskNames
  <2>1. indegree' = [n \in TaskNames |-> Len(DepsOf(n))]
    BY DEF Count, DepsOf
  <2> QED
    BY <1>3, <2>1
<1>5. queue' = {n \in TaskNames : indegree'[n] <= 0} /\ Popped' = {}
  <2>1. queue' = {n \in TaskNames : indegree'[n] <= 0}
    BY <1>3 DEF Count
  <2> QED
    BY <1>1, <2>1 DEF Popped
<1>6. seen' = Cardinality(Popped')
  <2>1. seen = 0
    BY DEF KahnInv, Counted, Count
  <2> QED
    BY <1>5, <2>1, FS_EmptySet DEF Count
<1>7. Progress'
  BY <1>1, <1>4, <1>5, <1>6 DEF Progress, Count
<1>8. \A c \in TaskNames : indegree'[c] = Cardinality(Open(c)')
  <2> SUFFICES ASSUME NEW c \in TaskNames PROVE indegree'[c] = Cardinality(Open(c)')
    OBVIOUS
  <2>1. Open(c)' = 1..Len(DepsOf(c))
    BY <1>2, <1>3, <1>5 DEF Open
  <2>2. Cardinality(1..Len(DepsOf(c))) = Len(DepsOf(c))
    <3> DEFINE L == Len(DepsOf(c))
    <3>1. L \in Nat
      BY <1>3
    <3> HIDE DEF L
    <3>2. Cardinality(1..L) = IF 1 > L THEN 0 ELSE L - 1 + 1
      BY <3>1, FS_Interval
    <3>3. Cardinality(1..L) = L
      BY <3>1, <3>2
    <3> QED
      BY <3>3 DEF L
  <2> QED
    BY <1>3, <2>1, <2>2
<1>9. Waiting'
  BY <1>1, <1>5, <1>8 DEF Waiting, Acyclic
<1>10. Counted'
  BY <1>4 DEF Counted, Count
<1> QED
  BY <1>1, <1>7, <1>9, <1>10 DEF KahnInv, List, Count, AcceptsExactlyPlans

LEMMA PopLeaves ==
    ASSUME List, Progress, NEW n \in queue, Pop(n)
    PROVE  /\ n \in TaskNames \ Popped /\ Popped' = Popped \cup {n}
           /\ indegree' \in [TaskNames -> Int]
           /\ queue' \subseteq {m \in TaskNames : indegree'[m] <= 0}
           /\ \A c \in TaskNames : indegree'[c] = indegree[c] - Edges(n, c)
<1> USE DEF Progress
<1>1. \A c \in TaskNames : Edges(n, c) \in Nat /\ indegree[c] \in Int
  BY EdgesFinite
<1>2. TaskNames' = TaskNames
  BY DEF TaskNames, Pop
<1>3. /\ \A c \in TaskNames : indegree'[c] = indegree[c] - Edges(n, c)
      /\ queue' = (queue \ {n}) \cup {c \in TaskNames : indegree[c] \in 1..Edges(n, c)}
      /\ indegree' = [c \in TaskNames |-> indegree[c] - Edges(n, c)]
  BY DEF Pop
<1>4. n \in TaskNames \ Popped
  BY DEF Popped
<1>5. \A m \in TaskNames : m \in Popped' <=> m \in Popped \/ m = n
  <2> SUFFICES ASSUME NEW m \in TaskNames PROVE m \in Popped' <=> m \in Popped \/ m = n
    OBVIOUS
  <2>1. m \in Popped' <=> indegree[m] - Edges(n, m) <= 0 /\ m \notin queue'
    BY <1>2, <1>3 DEF Popped
  <2>2. m \in queue' <=> (m \in queue /\ m # n) \/ (indegree[m] >= 1 /\ indegree[m] <= Edges(n, m))
    BY <1>1, <1>3
  <2>3. m \in queue => indegree[m] <= 0
    OBVIOUS
  <2> QED
    BY <1>1, <2>1, <2>2, <2>3 DEF Popped
<1>6. Popped' = Popped \cup {n}
  BY <1>2, <1>4, <1>5 DEF Popped
<1> QED
  BY <1>1, <1>3, <1>4, <1>6

\* What has left the queue waits for nothing that has not.
LEMMA PoppedIsClosed ==
    ASSUME List, Progress, Waiting, Distinct, NEW c \in TaskNames
    PROVE  indegree[c] <= 0 <=> DepSet[c] \subseteq Popped
<1>1. indegree[c] <= 0 <=> Open(c) = {}
  BY OpenFinite DEF Waiting, Open
<1>2. Open(c) = {} <=> DepSet[c] \subseteq Popped
  BY DepSetOfOne DEF Open
<1> QED
  BY <1>1, <1>2

LEMMA PopKahn ==
    ASSUME KahnInv, NEW n \in Names, Pop(n)
    PROVE  KahnInv'
<1>1. Counted /\ n \in queue
  BY DEF KahnInv, Pop
<1>2. List /\ Progress /\ Waiting
  BY <1>1 DEF KahnInv, List
<1>3. /\ List' /\ TaskNames' = TaskNames /\ AllKnown' = AllKnown
      /\ Distinct' = Distinct /\ DepSet' = DepSet
      /\ \A c \in TaskNames : DepsOf(c)' = DepsOf(c)
  BY <1>2 DEF List, TaskNames, AllKnown, Distinct, DepSet, DepsOf, LastEntry, Pop
<1>4. /\ n \in TaskNames \ Popped /\ Popped' = Popped \cup {n}
      /\ indegree' \in [TaskNames -> Int]
      /\ queue' \subseteq {m \in TaskNames : indegree'[m] <= 0}
      /\ \A c \in TaskNames : indegree'[c] = indegree[c] - Edges(n, c)
  BY <1>1, <1>2, PopLeaves
<1>5. seen' = Cardinality(Popped')
  <2>1. IsFiniteSet(Popped)
    BY <1>2, ListFinite, FS_Subset, Popped \in SUBSET TaskNames DEF Popped
  <2>2. Cardinality(Popped \cup {n}) = Cardinality(Popped) + 1
    BY <1>4, <2>1, FS_AddElement
  <2> QED
    BY <1>2, <1>4, <2>2 DEF Pop, Progress
<1>6. Progress'
  BY <1>2, <1>3, <1>4, <1>5 DEF Progress
<1>7. ASSUME Distinct, NEW c \in TaskNames
      PROVE  indegree'[c] = Cardinality(Open(c)')
  <2> DEFINE along == {j \in DOMAIN DepsOf(c) : DepsOf(c)[j] = n}
  <2>1. Open(c)' = Open(c) \ along
    BY <1>3, <1>4 DEF Open
  <2>2. along \subseteq Open(c) /\ Open(c) \in SUBSET DOMAIN DepsOf(c)
    BY <1>4 DEF Open
  <2>3. IsFiniteSet(Open(c))
    BY <1>2, <2>2, OpenFinite
  <2>4. Open(c) \cap along = along
    BY <2>2
  <2>5. Cardinality(Open(c) \ along) = Cardinality(Open(c)) - Cardinality(along)
    BY <2>3, <2>4, FS_Difference
  <2>6. Edges(n, c) = Cardinality(along)
    BY <1>2, <1>7, EdgesOfOne
  <2>7. indegree[c] = Cardinality(Open(c))
    BY <1>2, <1>7 DEF Waiting
  <2> HIDE DEF along
  <2> QED
    BY <1>4, <2>1, <2>5, <2>6, <2>7
<1>8. ASSUME Distinct, NEW S \in SUBSET Popped', S # {}
      PROVE  \E t \in S : DepSet[t] \cap S = {}
  <2>1. \A t \in Popped \cup {n} : DepSet[t] \subseteq Popped
    <3>1. \A t \in Popped \cup {n} : t \in TaskNames /\ indegree[t] <= 0
      BY <1>1, <1>2, <1>4 DEF Popped, Progress
    <3> QED
      BY <1>2, <1>8, <3>1, PoppedIsClosed
  <2>2. CASE S \cap Popped = {}
    BY <1>4, <1>8, <2>1, <2>2
  <2>3. CASE S \cap Popped # {}
    <3>1. PICK t \in S \cap Popped : DepSet[t] \cap (S \cap Popped) = {}
      BY <1>2, <1>8, <2>3 DEF Waiting, Acyclic
    <3> QED
      BY <2>1, <3>1
  <2> QED
    BY <2>2, <2>3
<1>9. Waiting'
  <2> SUFFICES ASSUME Distinct'
               PROVE  /\ \A c \in TaskNames' : indegree'[c] = Cardinality(Open(c)')
                      /\ Acyclic(Popped', DepSet')
    BY DEF Waiting
  <2>1. Distinct
    BY <1>3
  <2>2. \A c \in TaskNames' : indegree'[c] = Cardinality(Open(c)')
    BY <1>3, <1>7, <2>1
  <2>3. Acyclic(Popped', DepSet')
    BY <1>3, <1>8, <2>1 DEF Acyclic
  <2> QED
    BY <2>2, <2>3
<1>10. Counted'
  BY <1>1, <1>2, <1>4 DEF Counted, Progress
<1> QED
  BY <1>1, <1>3, <1>6, <1>9, <1>10 DEF KahnInv, List, Pop, AcceptsExactlyPlans

LEMMA DecideKahn ==
    ASSUME KahnInv, Decide
    PROVE  KahnInv'
<1>1. List /\ List' /\ UNCHANGED <<tasks, indegree, queue, seen>>
  BY DEF KahnInv, List, Decide
<1>2. /\ TaskNames' = TaskNames /\ AllKnown' = AllKnown
      /\ Distinct' = Distinct /\ DepSet' = DepSet /\ Counted' = Counted
      /\ Progress' = Progress /\ Waiting' = Waiting
  BY <1>1 DEF TaskNames, AllKnown, Distinct, DepSet, Counted, Progress, Waiting,
              Popped, Open, DepsOf, LastEntry
<1>3. (verdict' = "ok" <=> seen = Len(tasks)) /\ verdict' \in {"ok", "cycle"}
  BY DEF Decide
<1>4. seen = Len(tasks) <=> Distinct /\ ValidPlan(TaskNames, DepSet)
  <2>1. CASE tasks = <<>>
    <3>1. TaskNames = {}
      BY <2>1 DEF TaskNames
    <3>2. seen = 0
      BY <3>1 DEF KahnInv, Progress
    <3> QED
      BY <2>1, <3>1, <3>2 DEF Distinct, ValidPlan, Acyclic
  <2>2. CASE tasks # <<>>
    <3>1. Progress /\ Waiting /\ queue = {}
      BY <2>2 DEF Decide, KahnInv, Counted
    <3>2. Popped \in SUBSET TaskNames /\ seen = Cardinality(Popped)
      BY <3>1 DEF Popped, Progress
    <3>3. /\ Len(tasks) \in Nat /\ IsFiniteSet(TaskNames) /\ Cardinality(TaskNames) \in Nat
          /\ Cardinality(TaskNames) <= Len(tasks)
          /\ Cardinality(TaskNames) = Len(tasks) <=> Distinct
      BY <1>1, ListFinite, FS_Surjection
    <3>4. /\ IsFiniteSet(Popped) /\ Cardinality(Popped) <= Cardinality(TaskNames)
          /\ Cardinality(TaskNames) = Cardinality(Popped) => TaskNames = Popped
      BY <3>2, <3>3, FS_Subset
    <3>5. Cardinality(Popped) \in Nat
      BY <3>4, FS_CardinalityType
    <3>6. seen = Len(tasks) <=> Distinct /\ Popped = TaskNames
      BY <3>2, <3>3, <3>4, <3>5
    <3>7. ASSUME Distinct PROVE \A t \in TaskNames : DepSet[t] \subseteq TaskNames
      BY <1>1, <3>1, <3>7, DepSetOfOne, Last DEF Progress, AllKnown, DepsOf
    <3>8. ASSUME Distinct, Popped = TaskNames PROVE Acyclic(TaskNames, DepSet)
      BY <3>1, <3>8 DEF Waiting
    <3>9. ASSUME Distinct, Acyclic(TaskNames, DepSet) PROVE Popped = TaskNames
      <4> SUFFICES ASSUME TaskNames \ Popped # {} PROVE FALSE
        BY <3>2
      <4>1. PICK t \in TaskNames \ Popped : DepSet[t] \cap (TaskNames \ Popped) = {}
        BY <3>9 DEF Acyclic
      <4>2. DepSet[t] \subseteq Popped
        BY <3>7, <3>9, <4>1
      <4>3. indegree[t] <= 0
        BY <1>1, <3>1, <3>9, <4>1, <4>2, PoppedIsClosed
      <4> QED
        BY <3>1, <4>1, <4>3 DEF Popped
    <3> QED
      BY <3>6, <3>7, <3>8, <3>9 DEF ValidPlan
  <2> QED
    BY <2>1, <2>2
<1>5. AcceptsExactlyPlans'
  BY <1>2, <1>3, <1>4 DEF AcceptsExactlyPlans, ValidPlan, Acyclic
<1> QED
  BY <1>1, <1>2, <1>3, <1>5 DEF KahnInv, List

LEMMA UnknownKahn ==
    ASSUME KahnInv, UnknownDependency
    PROVE  KahnInv'
<1>1. List /\ ~AllKnown /\ verdict' = "unknown" /\ UNCHANGED <<tasks, indegree, queue, seen>>
  BY DEF KahnInv, List, UnknownDependency
<1>2. ~ValidPlan(TaskNames, DepSet) \/ ~Distinct
  <2> SUFFICES ASSUME Distinct PROVE ~ValidPlan(TaskNames, DepSet)
    OBVIOUS
  <2>1. PICK i \in DOMAIN tasks : \E j \in DOMAIN tasks[i].deps : tasks[i].deps[j] \notin TaskNames
    BY <1>1 DEF AllKnown
  <2>2. tasks[i].name \in TaskNames /\ LastEntry(tasks[i].name) = i
    BY <1>1, Entry, Last DEF Distinct
  <2>3. ~(DepSet[tasks[i].name] \subseteq TaskNames)
    BY <1>1, <2>1, <2>2, DepSetOfOne DEF DepsOf
  <2> QED
    BY <2>2, <2>3 DEF ValidPlan
<1>3. /\ Counted' = Counted /\ Progress' = Progress /\ Waiting' = Waiting
      /\ TaskNames' = TaskNames /\ Distinct' = Distinct /\ DepSet' = DepSet /\ List'
  BY <1>1 DEF TaskNames, AllKnown, Distinct, DepSet, Counted, Progress, Waiting,
              Popped, Open, DepsOf, LastEntry, List
<1>4. AcceptsExactlyPlans'
  BY <1>1, <1>2, <1>3 DEF AcceptsExactlyPlans, ValidPlan, Acyclic
<1> QED
  BY <1>1, <1>3, <1>4 DEF KahnInv, List

\* validate accepts a list exactly when the scheduler can finish it: every name
\* once, every dependency known, no cycle.  For lists of any length, over any
\* names, whatever the order in which the queue is emptied.
THEOREM ValidateDecides == Spec => []AcceptsExactlyPlans
<1>1. Init => KahnInv
  BY InitKahn
<1>2. KahnInv /\ [Next]_kvars => KahnInv'
  <2> SUFFICES ASSUME KahnInv, [Next]_kvars PROVE KahnInv'
    OBVIOUS
  <2>1. CASE UnknownDependency
    BY <2>1, UnknownKahn
  <2>2. CASE Count
    BY <2>2, CountKahn
  <2>3. CASE Decide
    BY <2>3, DecideKahn
  <2>4. CASE \E n \in Names : Pop(n)
    BY <2>4, PopKahn
  <2>5. CASE UNCHANGED kvars
    <3>1. UNCHANGED <<tasks, indegree, queue, seen, verdict>>
      BY <2>5 DEF kvars
    <3>2. /\ TaskNames' = TaskNames /\ Distinct' = Distinct /\ DepSet' = DepSet
          /\ Counted' = Counted /\ Progress' = Progress /\ Waiting' = Waiting
      BY <3>1 DEF TaskNames, AllKnown, Distinct, DepSet, Counted, Progress, Waiting,
                  Popped, Open, DepsOf, LastEntry
    <3>3. AcceptsExactlyPlans' = AcceptsExactlyPlans
      BY <3>1, <3>2 DEF AcceptsExactlyPlans, ValidPlan, Acyclic
    <3> QED
      BY <3>1, <3>2, <3>3 DEF KahnInv
  <2> QED
    BY <2>1, <2>2, <2>3, <2>4, <2>5 DEF Next
<1>3. KahnInv => AcceptsExactlyPlans
  BY DEF KahnInv
<1> QED
  BY <1>1, <1>2, <1>3, PTL DEF Spec
=============================================================================
