--------------------------- MODULE SemTableProofs ---------------------------
(***************************************************************************)
(* What the calls of module Semaphores do to the table of semaphores, for  *)
(* any number of processes and semaphores: lemmas for the modules that are *)
(* built on Semaphores.                                                    *)
(***************************************************************************)
EXTENDS Semaphores, QueueProofs

-----------------------------------------------------------------------------
(* Queues of semaphores                                                    *)

LEMMA ListWithout ==
  ASSUME NEW S, NEW M, NEW q, Lists(q, S, M), NEW x \in M
  PROVE  Lists(without(q, x), S, M \ {x}) /\ Len(without(q, x)) = Len(q) - 1
<1> DEFINE k == CHOOSE i \in 1..Len(q) : q[i] = x
<1>1. \E i \in 1..Len(q) : q[i] = x
  BY ListFacts
<1>2. k \in 1..Len(q) /\ q[k] = x
  BY <1>1
<1>3. without(q, x) = RemoveAt(q, k)
  BY DEF without
<1> HIDE DEF k
<1>4. /\ Lists(RemoveAt(q, k), S, M \ {q[k]})
      /\ Len(RemoveAt(q, k)) = Len(q) - 1
  BY <1>2, ListRemoved
<1> QED BY <1>2, <1>3, <1>4

\* unserved(): the first n are gone, all of them if there are no more than n.
LEMMA ListUnserved ==
  ASSUME NEW S, NEW M, NEW q, Lists(q, S, M), NEW n \in Nat
  PROVE  /\ Lists(unserved(q, n), S, Range(unserved(q, n)))
         /\ Range(unserved(q, n)) \subseteq M
         /\ Len(unserved(q, n)) = IF n >= Len(q) THEN 0 ELSE Len(q) - n
<1>1. CASE n >= Len(q)
  <2>1. unserved(q, n) = <<>>
    BY <1>1 DEF unserved
  <2>2. Lists(<<>>, S, {}) /\ Len(<<>>) = 0
    BY ListEmpty
  <2>3. Range(<<>>) = {}
    BY <2>2 DEF Lists
  <2>4. Len(<<>>) = IF n >= Len(q) THEN 0 ELSE Len(q) - n
    BY <1>1, <2>2
  <2> QED BY <2>1, <2>2, <2>3, <2>4, Zenon
<1>2. CASE ~(n >= Len(q))
  <2> DEFINE r == SubSeq(q, n + 1, Len(q))
             m == n + 1
  <2>0. unserved(q, n) = r
    BY <1>2 DEF unserved
  <2>1. /\ Len(q) \in Nat
        /\ \A i \in 1..Len(q) : q[i] \in M /\ q[i] \in S
        /\ \A i, j \in 1..Len(q) : q[i] = q[j] => i = j
    BY ListFacts
  <2>2. m \in Int /\ Len(q) \in Int /\ (\A i \in m..Len(q) : q[i] \in S)
    BY <2>1
  <2>3. /\ r \in Seq(S)
        /\ Len(r) = (IF m <= Len(q) THEN Len(q) - m + 1 ELSE 0)
        /\ \A i \in 1..(Len(q) - m + 1) : r[i] = q[m + i - 1]
    <3> HIDE DEF m
    <3>1. r = SubSeq(q, m, Len(q))
      BY DEF m
    <3> HIDE DEF r
    <3> QED BY <2>2, <3>1, SubSeqProperties
  <2> HIDE DEF r
  <2>4. /\ Len(r) = Len(q) - n
        /\ \A i \in 1..Len(r) : r[i] = q[n + i] /\ n + i \in 1..Len(q)
    BY <1>2, <2>1, <2>3
  <2>5. \A i, j \in 1..Len(r) : r[i] = r[j] => i = j
    BY <2>1, <2>4
  <2>6. DOMAIN r = 1..Len(r)
    BY <2>3, LenProperties
  <2>7. Lists(r, S, Range(r))
    BY <2>3, <2>5, <2>6 DEF Lists, IsInjective
  <2>8. Range(r) \subseteq M
    BY <2>1, <2>4, <2>6 DEF Range
  <2> QED BY <1>2, <2>0, <2>4, <2>7, <2>8
<1> QED BY <1>1, <1>2

-----------------------------------------------------------------------------
(* The semaphore table                                                     *)

SemEntries == [used : BOOLEAN, count : Int, queue : Seq(Procs)]
OnQueue(t, s) == Range(t[s].queue)

\* A count below 0 says how many processes wait.
WaitCount(n) == IF n < 0 THEN -n ELSE 0

\* Counts and queues agree, a process waits in one place, and entries that are
\* not in use are as semdelete() leaves them.
SemTable(t) ==
  /\ t \in [SemIds -> SemEntries]
  /\ \A s \in SemIds : IsInjective(t[s].queue) /\ Len(t[s].queue) = WaitCount(t[s].count)
  /\ \A s \in SemIds : ~t[s].used => t[s] = Unused
  /\ \A s, r \in SemIds : s # r => OnQueue(t, s) \cap OnQueue(t, r) = {}

\* Table u is table t but for entry s.
OnlyChanges(t, u, s) == \A r \in SemIds : r # s => u[r] = t[r]

LEMMA SemQueue ==
  ASSUME NEW t, SemTable(t), NEW s \in SemIds
  PROVE  /\ t[s] \in SemEntries /\ t[s].used \in BOOLEAN /\ t[s].count \in Int
         /\ Lists(t[s].queue, Procs, OnQueue(t, s))
         /\ Len(t[s].queue) = WaitCount(t[s].count)
         /\ t[s].count >= 0 <=> t[s].queue = <<>>
         /\ t[s].count >= 0 <=> OnQueue(t, s) = {}
         /\ OnQueue(t, s) \subseteq Procs
<1>1. t[s] \in SemEntries /\ t[s].used \in BOOLEAN /\ t[s].count \in Int
  BY DEF SemTable, SemEntries
<1>2. Lists(t[s].queue, Procs, OnQueue(t, s))
  BY DEF SemTable, SemEntries, Lists, OnQueue
<1>3. Len(t[s].queue) = WaitCount(t[s].count)
  BY DEF SemTable
<1> DEFINE q == t[s].queue
           M == OnQueue(t, s)
<1>4. (q = <<>> <=> Len(q) = 0) /\ (q = <<>> <=> M = {}) /\ M \subseteq Procs
  <2>1. Lists(q, Procs, M)
    BY <1>2
  <2> HIDE DEF q, M
  <2> QED BY <2>1, ListFacts
<1>7. t[s].count >= 0 <=> t[s].queue = <<>>
  BY <1>1, <1>3, <1>4 DEF WaitCount
<1> QED BY <1>1, <1>2, <1>3, <1>4, <1>7

\* As many processes wait as the count says.
LEMMA SemWaiters ==
  ASSUME NEW t, SemTable(t), NEW s \in SemIds
  PROVE  IsFiniteSet(OnQueue(t, s)) /\ Cardinality(OnQueue(t, s)) = WaitCount(t[s].count)
<1>1. Lists(t[s].queue, Procs, OnQueue(t, s)) /\ Len(t[s].queue) = WaitCount(t[s].count)
  BY SemQueue
<1> QED BY <1>1, ListCardinality, Zenon

LEMMA WaitsOnQueue ==
  ASSUME NEW t, NEW p
  PROVE  WaitsIn(t, p) <=> \E s \in SemIds : p \in OnQueue(t, s)
BY DEF WaitsIn, OnQueue

\* Table u is table t with entry e in the place of s.
Replaced(t, u, s, e) == u = [t EXCEPT ![s] = e]

LEMMA ChangeEntry ==
  ASSUME NEW t, SemTable(t), NEW s \in SemIds, NEW e \in SemEntries,
         NEW Q, Lists(e.queue, Procs, Q), Len(e.queue) = WaitCount(e.count),
         ~e.used => e = Unused,
         \A r \in SemIds : r # s => Q \cap OnQueue(t, r) = {},
         NEW u, Replaced(t, u, s, e)
  PROVE  SemTable(u) /\ u[s] = e /\ OnQueue(u, s) = Q /\ OnlyChanges(t, u, s)
<1>1. u \in [SemIds -> SemEntries] /\ u[s] = e /\ OnlyChanges(t, u, s)
  BY DEF SemTable, OnlyChanges, Replaced
<1>2. OnQueue(u, s) = Q
  BY <1>1 DEF Lists, OnQueue
<1>3. \A r \in SemIds : r # s => u[r] = t[r] /\ OnQueue(u, r) = OnQueue(t, r)
  BY <1>1 DEF OnlyChanges, OnQueue
<1>4. \A r \in SemIds : IsInjective(u[r].queue) /\ Len(u[r].queue) = WaitCount(u[r].count)
  BY <1>1, <1>3 DEF SemTable, Lists
<1>5. \A r \in SemIds : ~u[r].used => u[r] = Unused
  BY <1>1, <1>3 DEF SemTable
<1>6. \A r, v \in SemIds : r # v => OnQueue(u, r) \cap OnQueue(u, v) = {}
  <2> SUFFICES ASSUME NEW r \in SemIds, NEW v \in SemIds, r # v
               PROVE  OnQueue(u, r) \cap OnQueue(u, v) = {}
    OBVIOUS
  <2>1. r # s /\ v # s => OnQueue(t, r) \cap OnQueue(t, v) = {}
    BY DEF SemTable
  <2> QED BY <1>2, <1>3, <2>1
<1> QED BY <1>1, <1>2, <1>4, <1>5, <1>6 DEF SemTable

LEMMA ChangedEntry ==
  ASSUME NEW t, SemTable(t), NEW s \in SemIds, t[s].used,
         NEW count \in Int, NEW queue, NEW Q, Lists(queue, Procs, Q),
         Len(queue) = WaitCount(count),
         \A p \in Q : p \in OnQueue(t, s) \/ ~WaitsIn(t, p),
         NEW u, Replaced(t, u, s, changed(t[s], count, queue))
  PROVE  /\ SemTable(u) /\ OnlyChanges(t, u, s)
         /\ u[s].used /\ u[s].count = count /\ OnQueue(u, s) = Q
<1> DEFINE e == changed(t[s], count, queue)
<1>1. e \in SemEntries /\ e.used /\ e.count = count /\ e.queue = queue
  BY SemQueue DEF changed, SemEntries, Lists
<1>2. \A r \in SemIds : r # s => Q \cap OnQueue(t, r) = {}
  <2> SUFFICES ASSUME NEW r \in SemIds, r # s, NEW p \in Q, p \in OnQueue(t, r) PROVE FALSE
    OBVIOUS
  <2>1. p \notin OnQueue(t, s)
    BY DEF SemTable
  <2> QED BY <2>1, WaitsOnQueue
<1>3. Replaced(t, u, s, e)
  OBVIOUS
<1> HIDE DEF e
<1>4. SemTable(u) /\ u[s] = e /\ OnQueue(u, s) = Q /\ OnlyChanges(t, u, s)
  BY <1>1, <1>2, <1>3, ChangeEntry
<1> QED BY <1>1, <1>4

-----------------------------------------------------------------------------
(* What the calls do                                                       *)

\* wait(): the caller waits if the count was not positive.
LEMMA WaitTable ==
  ASSUME NEW t, SemTable(t), NEW s \in SemIds, t[s].used,
         NEW p \in Procs, ~WaitsIn(t, p)
  PROVE  LET u == wait(t, s, p)
         IN  /\ SemTable(u) /\ OnlyChanges(t, u, s)
             /\ u[s].used /\ u[s].count = t[s].count - 1
             /\ OnQueue(u, s) = IF t[s].count <= 0 THEN OnQueue(t, s) \cup {p} ELSE {}
<1> DEFINE u == wait(t, s, p)
           old == t[s].queue
           queue == IF t[s].count <= 0 THEN Append(old, p) ELSE old
           count == t[s].count - 1
           Q == IF t[s].count <= 0 THEN OnQueue(t, s) \cup {p} ELSE {}
<1>0. Replaced(t, u, s, changed(t[s], count, queue))
  BY DEF wait, Replaced
<1>1. /\ t[s].count \in Int /\ Lists(old, Procs, OnQueue(t, s))
      /\ Len(old) = WaitCount(t[s].count)
      /\ t[s].count >= 0 <=> OnQueue(t, s) = {}
  BY SemQueue
<1>2. p \notin OnQueue(t, s)
  BY WaitsOnQueue
<1>3. Lists(queue, Procs, Q) /\ Len(queue) = WaitCount(count)
  <2>1. CASE t[s].count <= 0
    <3>1. Lists(Append(old, p), Procs, OnQueue(t, s) \cup {p})
             /\ Len(Append(old, p)) = Len(old) + 1
      BY <1>1, <1>2, ListAppend
    <3> QED BY <1>1, <2>1, <3>1 DEF WaitCount
  <2>2. CASE ~(t[s].count <= 0)
    <3>1. OnQueue(t, s) = {} /\ queue = old /\ Q = {}
      BY <1>1, <2>2
    <3> QED BY <1>1, <2>2, <3>1 DEF WaitCount
  <2> QED BY <2>1, <2>2
<1>4. count \in Int
  BY <1>1
<1>5. \A q \in Q : q \in OnQueue(t, s) \/ ~WaitsIn(t, q)
  OBVIOUS
<1> HIDE DEF u, queue, count, Q
<1>6. /\ SemTable(u) /\ OnlyChanges(t, u, s)
      /\ u[s].used /\ u[s].count = count /\ OnQueue(u, s) = Q
  BY <1>0, <1>3, <1>4, <1>5, ChangedEntry
<1> QED BY <1>6 DEF u, count, Q

\* signal(): the first process is released if any waits.
LEMMA SignalTable ==
  ASSUME NEW t, SemTable(t), NEW s \in SemIds, t[s].used
  PROVE  LET u == signal(t, s)
         IN  /\ SemTable(u) /\ OnlyChanges(t, u, s)
             /\ u[s].used /\ u[s].count = t[s].count + 1
             /\ OnQueue(u, s) \subseteq OnQueue(t, s)
<1> DEFINE u == signal(t, s)
           old == t[s].queue
           queue == IF t[s].count < 0 THEN Tail(old) ELSE old
           count == t[s].count + 1
           Q == IF t[s].count < 0 THEN OnQueue(t, s) \ {Head(old)} ELSE {}
<1>0. Replaced(t, u, s, changed(t[s], count, queue))
  BY DEF signal, isused, Replaced
<1>1. /\ t[s].count \in Int /\ Lists(old, Procs, OnQueue(t, s))
      /\ Len(old) = WaitCount(t[s].count)
      /\ t[s].count >= 0 <=> old = <<>>
      /\ t[s].count >= 0 <=> OnQueue(t, s) = {}
  BY SemQueue
<1>2. Lists(queue, Procs, Q) /\ Len(queue) = WaitCount(count)
  <2>1. CASE t[s].count < 0
    <3>1. old # <<>>
      BY <1>1, <2>1
    <3>2. Lists(Tail(old), Procs, OnQueue(t, s) \ {Head(old)}) /\ Len(Tail(old)) = Len(old) - 1
      BY <1>1, <3>1, ListTail
    <3> QED BY <1>1, <2>1, <3>2 DEF WaitCount
  <2>2. CASE ~(t[s].count < 0)
    <3>1. OnQueue(t, s) = {} /\ queue = old /\ Q = {}
      BY <1>1, <2>2
    <3> QED BY <1>1, <2>2, <3>1 DEF WaitCount
  <2> QED BY <2>1, <2>2
<1>3. count \in Int /\ \A q \in Q : q \in OnQueue(t, s) \/ ~WaitsIn(t, q)
  BY <1>1
<1>5. Q \subseteq OnQueue(t, s)
  OBVIOUS
<1> HIDE DEF u, queue, count, Q
<1>4. /\ SemTable(u) /\ OnlyChanges(t, u, s)
      /\ u[s].used /\ u[s].count = count /\ OnQueue(u, s) = Q
  BY <1>0, <1>2, <1>3, ChangedEntry
<1> QED BY <1>4, <1>5 DEF u, count

\* signal() of what is no semaphore does nothing.
LEMMA SignalUnused ==
  ASSUME NEW t, NEW s, ~isused(t, s)
  PROVE  signal(t, s) = t /\ semdelete(t, s) = t /\ \A n : semreset(t, s, n) = t
BY DEF signal, semdelete, semreset

\* signaln(): n processes are released, or all.
LEMMA SignalnTable ==
  ASSUME NEW t, SemTable(t), NEW s \in SemIds, t[s].used, NEW n \in Nat
  PROVE  LET u == signaln(t, s, n)
         IN  /\ SemTable(u) /\ OnlyChanges(t, u, s)
             /\ u[s].used /\ u[s].count = t[s].count + n
             /\ OnQueue(u, s) \subseteq OnQueue(t, s)
<1> DEFINE u == signaln(t, s, n)
           old == t[s].queue
           queue == unserved(old, n)
           count == t[s].count + n
           Q == Range(queue)
<1>0. Replaced(t, u, s, changed(t[s], count, queue))
  BY DEF signaln, Replaced
<1>1. /\ t[s].count \in Int /\ Lists(old, Procs, OnQueue(t, s))
      /\ Len(old) = WaitCount(t[s].count)
  BY SemQueue
<1>2. /\ Lists(queue, Procs, Q) /\ Q \subseteq OnQueue(t, s)
      /\ Len(queue) = IF n >= Len(old) THEN 0 ELSE Len(old) - n
  <2> DEFINE M == OnQueue(t, s)
  <2>1. Lists(old, Procs, M)
    BY <1>1
  <2> HIDE DEF old, M
  <2>2. /\ Lists(queue, Procs, Q) /\ Q \subseteq M
        /\ Len(queue) = IF n >= Len(old) THEN 0 ELSE Len(old) - n
    BY <2>1, ListUnserved
  <2> QED BY <2>2 DEF M
<1> HIDE DEF queue, Q
<1>3. count \in Int /\ Len(queue) = WaitCount(count)
  BY <1>1, <1>2 DEF WaitCount
<1>5. \A q \in Q : q \in OnQueue(t, s) \/ ~WaitsIn(t, q)
  BY <1>2
<1> HIDE DEF u, count
<1>4. /\ SemTable(u) /\ OnlyChanges(t, u, s)
      /\ u[s].used /\ u[s].count = count /\ OnQueue(u, s) = Q
  BY <1>0, <1>2, <1>3, <1>5, ChangedEntry
<1> QED BY <1>2, <1>4 DEF u, count

\* semreset(): everybody is released.
LEMMA ResetTable ==
  ASSUME NEW t, SemTable(t), NEW s \in SemIds, t[s].used, NEW count \in Nat
  PROVE  LET u == semreset(t, s, count)
         IN  /\ SemTable(u) /\ OnlyChanges(t, u, s)
             /\ u[s].used /\ u[s].count = count /\ OnQueue(u, s) = {}
<1> DEFINE u == semreset(t, s, count)
           queue == <<>>
           Q == {}
<1>0. Replaced(t, u, s, changed(t[s], count, queue))
  BY DEF semreset, isused, Replaced
<1>1. Lists(queue, Procs, Q) /\ Len(queue) = WaitCount(count) /\ count \in Int
  BY ListEmpty DEF WaitCount
<1>2. \A q \in Q : q \in OnQueue(t, s) \/ ~WaitsIn(t, q)
  OBVIOUS
<1> HIDE DEF u, queue, Q
<1>3. /\ SemTable(u) /\ OnlyChanges(t, u, s)
      /\ u[s].used /\ u[s].count = count /\ OnQueue(u, s) = Q
  BY <1>0, <1>1, <1>2, ChangedEntry
<1> QED BY <1>3 DEF u, Q

LEMMA UnusedEntry ==
  Unused \in SemEntries /\ ~Unused.used /\ Lists(Unused.queue, Procs, {})
    /\ Len(Unused.queue) = WaitCount(Unused.count)
<1>1. Lists(<<>>, Procs, {}) /\ Len(<<>>) = 0
  BY ListEmpty
<1>2. Unused.queue = <<>> /\ Unused.count = 0 /\ Unused.used = FALSE
  BY DEF Unused
<1>3. Unused \in SemEntries
  BY <1>1 DEF Unused, SemEntries, Lists
<1> QED BY <1>1, <1>2, <1>3 DEF WaitCount

\* semdelete(): everybody is released, and the entry is free.
LEMMA DeleteTable ==
  ASSUME NEW t, SemTable(t), NEW s \in SemIds, t[s].used
  PROVE  LET u == semdelete(t, s)
         IN  SemTable(u) /\ OnlyChanges(t, u, s) /\ ~u[s].used /\ OnQueue(u, s) = {}
<1> DEFINE u == semdelete(t, s)
<1>1. Replaced(t, u, s, Unused)
  BY DEF semdelete, isused, Replaced
<1> DEFINE Q == {}
           e == Unused
<1>3. \A r \in SemIds : r # s => Q \cap OnQueue(t, r) = {}
  OBVIOUS
<1>4. e \in SemEntries /\ (~e.used => e = Unused) /\ Lists(e.queue, Procs, Q)
        /\ Len(e.queue) = WaitCount(e.count)
  BY UnusedEntry
<1> HIDE DEF u, e, Q
<1>5. SemTable(u) /\ u[s] = e /\ OnQueue(u, s) = Q /\ OnlyChanges(t, u, s)
  BY <1>1, <1>3, <1>4, ChangeEntry DEF e
<1>2. SemTable(u) /\ u[s] = Unused /\ OnQueue(u, s) = {} /\ OnlyChanges(t, u, s)
  BY <1>5 DEF e, Q
<1> QED BY <1>2, UnusedEntry DEF u

\* semcreate() takes a free entry, in whose queue nobody is.
LEMMA CreateTable ==
  ASSUME NEW t, SemTable(t), NEW s \in FreeSems(t), NEW count \in Nat
  PROVE  LET u == semcreate(t, s, count)
         IN  /\ SemTable(u) /\ OnlyChanges(t, u, s) /\ s \in SemIds /\ ~t[s].used
             /\ u[s].used /\ u[s].count = count
             /\ OnQueue(u, s) = {} /\ OnQueue(t, s) = {}
<1> DEFINE u == semcreate(t, s, count)
           e == [used |-> TRUE, count |-> count, queue |-> <<>>]
<1>1. s \in SemIds /\ ~t[s].used /\ s # SYSERR
  BY SemAssumption DEF FreeSems, SemIds, SYSERR
<1>2. Replaced(t, u, s, e)
  BY <1>1 DEF semcreate, Replaced
<1>3. Lists(<<>>, Procs, {}) /\ Len(<<>>) = 0
  BY ListEmpty
<1>4. e \in SemEntries /\ e.used /\ e.count = count /\ e.queue = <<>>
  BY <1>3 DEF SemEntries, Lists
<1> DEFINE Q == {}
<1>5. Len(e.queue) = WaitCount(e.count) /\ Lists(e.queue, Procs, Q)
  BY <1>3, <1>4 DEF WaitCount
<1>8. \A r \in SemIds : r # s => Q \cap OnQueue(t, r) = {}
  OBVIOUS
<1> HIDE DEF u, e, Q
<1>9. SemTable(u) /\ u[s] = e /\ OnQueue(u, s) = Q /\ OnlyChanges(t, u, s)
  BY <1>1, <1>2, <1>4, <1>5, <1>8, ChangeEntry
<1>6. SemTable(u) /\ u[s] = e /\ OnQueue(u, s) = {} /\ OnlyChanges(t, u, s)
  BY <1>9 DEF Q
<1>7. OnQueue(t, s) = {}
  BY <1>1, UnusedEntry DEF SemTable, OnQueue, Lists
<1> QED BY <1>1, <1>4, <1>6, <1>7 DEF u

\* A process that waits is killed: its place in the queue goes to nobody.
LEMMA WithdrawTable ==
  ASSUME NEW t, SemTable(t), NEW p
  PROVE  LET u == withdraw(t, p)
         IN  /\ SemTable(u) /\ ~WaitsIn(u, p)
             /\ \A s \in SemIds :
                  /\ u[s].used = t[s].used
                  /\ OnQueue(u, s) = OnQueue(t, s) \ {p}
                  /\ u[s].count = IF p \in OnQueue(t, s) THEN t[s].count + 1 ELSE t[s].count
<1> DEFINE u == withdraw(t, p)
           Result(s) == /\ u[s] \in SemEntries
                        /\ IsInjective(u[s].queue) /\ Len(u[s].queue) = WaitCount(u[s].count)
                        /\ ~u[s].used => u[s] = Unused
                        /\ u[s].used = t[s].used
                        /\ OnQueue(u, s) = OnQueue(t, s) \ {p}
                        /\ u[s].count = IF p \in OnQueue(t, s) THEN t[s].count + 1
                                        ELSE t[s].count
<1>1. ASSUME NEW s \in SemIds PROVE Result(s)
  <2>1. /\ t[s] \in SemEntries /\ t[s].used \in BOOLEAN /\ t[s].count \in Int
        /\ Lists(t[s].queue, Procs, OnQueue(t, s))
        /\ Len(t[s].queue) = WaitCount(t[s].count)
        /\ t[s].count >= 0 <=> OnQueue(t, s) = {}
        /\ ~t[s].used => t[s] = Unused
    BY SemQueue DEF SemTable
  <2>2. CASE p \in OnQueue(t, s)
    <3> DEFINE old == t[s].queue
               queue == without(old, p)
               M == OnQueue(t, s)
    <3>1. u[s] = changed(t[s], t[s].count + 1, queue)
      BY <2>2 DEF withdraw, OnQueue
    <3>0. Lists(old, Procs, M) /\ p \in M
      BY <2>1, <2>2
    <3>2. Lists(queue, Procs, M \ {p}) /\ Len(queue) = Len(old) - 1
      <4> HIDE DEF old, M
      <4> QED BY <3>0, ListWithout
    <3>3. t[s].count < 0 /\ t[s].used
      <4>1. t[s].count < 0
        BY <2>1, <2>2
      <4>2. Unused.count = 0
        BY DEF Unused
      <4> QED BY <2>1, <4>1, <4>2
    <3> HIDE DEF queue, u
    <3>4. u[s].used = t[s].used /\ u[s].count = t[s].count + 1 /\ u[s].queue = queue
      BY <3>1 DEF changed
    <3>5. u[s] \in SemEntries
      BY <2>1, <3>1, <3>2 DEF changed, SemEntries, Lists
    <3>6. OnQueue(u, s) = OnQueue(t, s) \ {p} /\ IsInjective(u[s].queue)
      BY <3>2, <3>4 DEF OnQueue, Lists
    <3>7. Len(u[s].queue) = WaitCount(u[s].count)
      BY <2>1, <3>2, <3>3, <3>4 DEF WaitCount
    <3> QED BY <2>2, <3>3, <3>4, <3>5, <3>6, <3>7
  <2>3. CASE p \notin OnQueue(t, s)
    <3>1. u[s] = t[s]
      BY <2>3 DEF withdraw, OnQueue
    <3> HIDE DEF u
    <3>2. OnQueue(u, s) = OnQueue(t, s) \ {p}
      BY <2>3, <3>1 DEF OnQueue
    <3> QED BY <2>1, <2>3, <3>1, <3>2 DEF Lists
  <2> QED BY <2>2, <2>3
<1>2. u \in [SemIds -> SemEntries]
  <2>1. u = [s \in SemIds |-> u[s]]
    BY DEF withdraw
  <2> HIDE DEF u
  <2> QED BY <1>1, <2>1
<1> HIDE DEF u
<1>3. \A s, r \in SemIds : s # r => OnQueue(u, s) \cap OnQueue(u, r) = {}
  BY <1>1 DEF SemTable
<1>4. ~WaitsIn(u, p)
  BY <1>1, WaitsOnQueue
<1>5. SemTable(u)
  BY <1>1, <1>2, <1>3 DEF SemTable
<1> QED BY <1>1, <1>4, <1>5 DEF u

LEMMA InitTable == SemInit => SemTable(semtab)
<1> SUFFICES ASSUME SemInit PROVE SemTable(semtab)
  OBVIOUS
<1>1. \A s \in SemIds : semtab[s] = Unused
  BY DEF SemInit
<1>2. semtab \in [SemIds -> SemEntries]
  BY UnusedEntry DEF SemInit
<1>3. \A s \in SemIds : OnQueue(semtab, s) = {}
  BY <1>1, UnusedEntry DEF OnQueue, Lists
<1> QED BY <1>1, <1>2, <1>3, UnusedEntry DEF SemTable, Lists

-----------------------------------------------------------------------------
(* Counting the callers                                                    *)

\* C are the processes that have called wait() and not gone on since.  The units
\* that are left and those that have been promised to callers that have not
\* resumed are the count and the callers, whatever the sign of the count.
LEMMA Owed ==
  ASSUME NEW t, SemTable(t), NEW s \in SemIds,
         NEW C, IsFiniteSet(C), OnQueue(t, s) \subseteq C
  PROVE  (IF t[s].count > 0 THEN t[s].count ELSE 0) + Cardinality(C \ OnQueue(t, s))
           = t[s].count + Cardinality(C)
<1>1. IsFiniteSet(OnQueue(t, s)) /\ Cardinality(OnQueue(t, s)) = WaitCount(t[s].count)
  BY SemWaiters
<1>2. C \cap OnQueue(t, s) = OnQueue(t, s)
  OBVIOUS
<1>3. Cardinality(C \ OnQueue(t, s)) = Cardinality(C) - Cardinality(OnQueue(t, s))
  BY <1>2, FS_Difference
<1>4. t[s].count \in Int /\ Cardinality(C) \in Nat
  BY SemQueue, FS_CardinalityType
<1> QED BY <1>1, <1>3, <1>4 DEF WaitCount

=============================================================================
