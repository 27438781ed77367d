---------------------------- MODULE SleepProofs ----------------------------
(***************************************************************************)
(* The delta list is exact: theorems about SleepTiming.                    *)
(*                                                                         *)
(* The sum of the keys up to an entry is the rest of its delay if and only *)
(* if each key is the difference between the rests of two neighbours; the  *)
(* invariant says that, because a step changes at most two differences     *)
(* while it changes many sums.                                             *)
(***************************************************************************)
EXTENDS SleepTiming, KernelProofs

\* The rest of the delay of the i-th entry; the list begins at 0.
Rest(q, r, i) == IF i = 0 THEN 0 ELSE r[q[i].pid]

Deltas(q, r) ==
  \A i \in 1..Len(q) : q[i].key = Rest(q, r, i) - Rest(q, r, i - 1) /\ q[i].key >= 0

DelayInv ==
  /\ remain \in [Pids -> Int]
  /\ Deltas(sleepq, remain)
  /\ loop.op # "wakeup" => \A p \in Members(sleepq) : remain[p] > 0

-----------------------------------------------------------------------------
(* EntriesOf of a queue                                                      *)

LEMMA EntryTypes ==
  ASSUME NEW q \in Seq(Queued), NEW r \in [Pids -> Int]
  PROVE  /\ Len(q) \in Nat
         /\ \A i \in 1..Len(q) : q[i] \in Queued /\ q[i].pid \in Pids /\ q[i].key \in Int
         /\ \A i \in 0..Len(q) : Rest(q, r, i) \in Int
<1>1. Len(q) \in Nat /\ \A i \in 1..Len(q) : q[i] \in Queued
  BY LenProperties, ElementOfSeq
<1>2. \A i \in 1..Len(q) : q[i].pid \in Pids /\ q[i].key \in Int
  BY <1>1 DEF Queued
<1> QED BY <1>1, <1>2 DEF Rest

\* An entry with another key.
LEMMA Rekeyed ==
  ASSUME NEW e \in Queued, NEW n \in Int
  PROVE  LET f == [e EXCEPT !.key = n] IN f \in Queued /\ f.pid = e.pid /\ f.key = n
BY DEF Queued

-----------------------------------------------------------------------------
(* The operations on a delta list                                          *)

\* What remains of a delay behind the i-th entry.
LEMMA RemainingValue ==
  ASSUME NEW q \in Seq(Queued), NEW r \in [Pids -> Int], Deltas(q, r), NEW delay \in Int
  PROVE  \A i \in 0..Len(q) : Remaining(q, delay)[i] = delay - Rest(q, r, i)
<1> DEFINE f == Remaining(q, delay)
           R(i) == Rest(q, r, i)
           K(i) == q[i].key
<1>1. Len(q) \in Nat /\ \A i \in 0..Len(q) : R(i) \in Int
  BY EntryTypes
<1>2. \A i \in 0..Len(q) : f[i] = IF i = 0 THEN delay ELSE f[i - 1] - K(i)
  BY <1>1, RemainingStep
<1>3. \A i \in 1..Len(q) : K(i) = R(i) - R(i - 1)
  BY DEF Deltas
<1>4. R(0) = 0
  BY DEF Rest
<1> HIDE DEF f, R, K
<1> DEFINE T == {i \in 0..Len(q) : f[i] # delay - R(i)}
<1>5. T = {}
  <2> SUFFICES ASSUME T # {} PROVE FALSE
    OBVIOUS
  <2>1. PICK n \in T : \A m \in T : n <= m
    <3>1. T \in SUBSET Nat
      OBVIOUS
    <3> QED BY <3>1, LeastNat
  <2>2. n # 0
    BY <1>1, <1>2, <1>4
  <2>3. n - 1 \in 0..Len(q) /\ n - 1 \notin T /\ n \in 1..Len(q)
    BY <1>1, <2>1, <2>2
  <2>4. f[n - 1] = delay - R(n - 1) /\ f[n] = f[n - 1] - K(n) /\ K(n) = R(n) - R(n - 1)
    BY <1>2, <1>3, <2>2, <2>3
  <2>5. R(n) \in Int /\ R(n - 1) \in Int
    BY <1>1, <2>3
  <2> QED BY <2>4, <2>5
<1> QED BY <1>5 DEF f, R

\* insertd() puts an entry between those that end before it and those that end
\* after it, and takes its key from the one behind.
InsertedAfter(q, r, p, delay, new, k) ==
  /\ Len(new) = Len(q) + 1
  /\ \A i \in 1..k : new[i] = q[i]
  /\ new[k + 1] = Entry(p, delay - Rest(q, r, k))
  /\ delay - Rest(q, r, k) >= 0
  /\ k < Len(q) =>
       /\ new[k + 2].pid = q[k + 1].pid
       /\ new[k + 2].key = Rest(q, r, k + 1) - delay
       /\ Rest(q, r, k + 1) - delay >= 0
  /\ \A i \in (k + 3)..(Len(q) + 1) : new[i] = q[i - 1]

LEMMA InsertdEntries ==
  ASSUME NEW q \in Seq(Queued), NEW r \in [Pids -> Int], Deltas(q, r),
         NEW p \in Pids, NEW delay \in Nat
  PROVE  \E k \in 0..Len(q) : InsertedAfter(q, r, p, delay, insertd(q, p, delay), k)
<1> DEFINE left == Remaining(q, delay)
           k == Passed(q, left)
           R(i) == Rest(q, r, i)
           K(i) == q[i].key
           n == K(k + 1) - left[k]
           s == IF k < Len(q) THEN [q EXCEPT ![k + 1] = [q[k + 1] EXCEPT !.key = n]] ELSE q
           e == Entry(p, left[k])
           new == InsertAt(s, k + 1, e)
<1>1. /\ Len(q) \in Nat /\ \A i \in 0..Len(q) : R(i) \in Int
      /\ \A i \in 1..Len(q) : q[i] \in Queued /\ K(i) \in Int
  BY EntryTypes
<1>2. \A i \in 0..Len(q) : left[i] = delay - R(i)
  BY RemainingValue
<1>3. \A i \in 1..Len(q) : K(i) = R(i) - R(i - 1) /\ K(i) >= 0
  BY DEF Deltas
<1>4. R(0) = 0
  BY DEF Rest
<1>5. insertd(q, p, delay) = new
  <2>1. [q EXCEPT ![k + 1].key = @ - left[k]] = [q EXCEPT ![k + 1] = [q[k + 1] EXCEPT !.key = n]]
    OBVIOUS
  <2> QED BY <2>1 DEF insertd
<1>6. \A i \in 0..Len(q) : left[i] \in Int
  BY <1>1, <1>2
<1> HIDE DEF left
<1>7. /\ k \in 0..Len(q)
      /\ \A i \in 1..k : K(i) <= left[i - 1]
      /\ k < Len(q) => K(k + 1) > left[k]
  BY <1>1, <1>6, PassedStops
<1> HIDE DEF k
<1>8. k < Len(q) => n = R(k + 1) - delay /\ n >= 0 /\ n \in Int
  <2> SUFFICES ASSUME k < Len(q) PROVE n = R(k + 1) - delay /\ n >= 0 /\ n \in Int
    OBVIOUS
  <2>1. k + 1 \in 1..Len(q) /\ k \in 0..Len(q) /\ k + 1 \in 0..Len(q) /\ (k + 1) - 1 = k
    BY <1>1, <1>7
  <2>2. K(k + 1) = R(k + 1) - R(k) /\ left[k] = delay - R(k) /\ K(k + 1) > left[k]
    BY <1>2, <1>3, <1>7, <2>1
  <2>3. R(k) \in Int /\ R(k + 1) \in Int
    BY <1>1, <2>1
  <2> HIDE DEF R, K
  <2> QED BY <2>2, <2>3
<1>9. left[k] = delay - R(k) /\ left[k] >= 0 /\ left[k] \in Int
  <2>1. CASE k = 0
    BY <1>1, <1>2, <1>4, <2>1
  <2>2. CASE k # 0
    <3>1. k \in 1..k /\ k \in 1..Len(q) /\ k - 1 \in 0..Len(q)
      BY <1>1, <1>7, <2>2
    <3>2. K(k) <= left[k - 1] /\ left[k - 1] = delay - R(k - 1) /\ K(k) = R(k) - R(k - 1)
          /\ left[k] = delay - R(k)
      BY <1>2, <1>3, <1>7, <3>1
    <3>3. R(k) \in Int /\ R(k - 1) \in Int
      BY <1>1, <1>7, <3>1
    <3> HIDE DEF R, K
    <3> QED BY <3>2, <3>3
  <2> QED BY <2>1, <2>2
<1>10. /\ s \in Seq(Queued) /\ Len(s) = Len(q)
       /\ \A i \in 1..Len(q) : i # k + 1 => s[i] = q[i]
       /\ k < Len(q) => s[k + 1].pid = q[k + 1].pid /\ s[k + 1].key = n
  <2>1. CASE k < Len(q)
    <3> DEFINE f == [q[k + 1] EXCEPT !.key = n]
    <3>1. k + 1 \in 1..Len(q) /\ n \in Int
      BY <1>1, <1>7, <1>8, <2>1
    <3>2. f \in Queued /\ f.pid = q[k + 1].pid /\ f.key = n
      BY <1>1, <3>1, Rekeyed
    <3> HIDE DEF f, n
    <3>3. s = [q EXCEPT ![k + 1] = f]
      BY <2>1 DEF f
    <3> HIDE DEF s
    <3> QED BY <3>1, <3>2, <3>3, ExceptSeq
  <2>2. CASE ~(k < Len(q))
    BY <2>2
  <2> QED BY <2>1, <2>2
<1>11. e \in Queued
  BY <1>9 DEF Entry, Queued
<1>12. k + 1 \in 1..(Len(s) + 1)
  BY <1>1, <1>7, <1>10
<1> HIDE DEF s, e
<1>13. /\ Len(new) = Len(q) + 1
       /\ \A i \in 1..(Len(q) + 1) :
            new[i] = IF i < k + 1 THEN s[i] ELSE IF i = k + 1 THEN e ELSE s[i - 1]
  <2> DEFINE j == k + 1
             E == Queued
  <2>1. s \in Seq(E) /\ e \in E /\ j \in 1..(Len(s) + 1)
    BY <1>10, <1>11, <1>12
  <2> HIDE DEF j, E
  <2>2. /\ InsertAt(s, j, e) \in Seq(E)
        /\ Len(InsertAt(s, j, e)) = Len(s) + 1
        /\ \A i \in 1..(Len(s) + 1) :
             InsertAt(s, j, e)[i] = IF i < j THEN s[i] ELSE IF i = j THEN e ELSE s[i - 1]
    BY <2>1, InsertAtProperties
  <2> QED BY <1>10, <2>2 DEF j
<1> HIDE DEF new, n
<1>14. \A i \in 1..k : new[i] = q[i]
  <2> SUFFICES ASSUME NEW i \in 1..k PROVE new[i] = q[i]
    OBVIOUS
  <2>1. i \in 1..(Len(q) + 1) /\ i \in 1..Len(q) /\ i # k + 1 /\ i < k + 1
    BY <1>1, <1>7
  <2> QED BY <1>10, <1>13, <2>1
<1>15. new[k + 1] = e
  BY <1>1, <1>7, <1>13
<1>16. k < Len(q) => new[k + 2] = s[k + 1]
  BY <1>1, <1>7, <1>13
<1>17. \A i \in (k + 3)..(Len(q) + 1) : new[i] = q[i - 1]
  <2> SUFFICES ASSUME NEW i \in (k + 3)..(Len(q) + 1) PROVE new[i] = q[i - 1]
    OBVIOUS
  <2>1. i \in 1..(Len(q) + 1) /\ i - 1 \in 1..Len(q) /\ i - 1 # k + 1 /\ ~(i < k + 1) /\ i # k + 1
    BY <1>1, <1>7
  <2> QED BY <1>10, <1>13, <2>1
<1>18. e = Entry(p, delay - R(k)) /\ delay - R(k) >= 0
  BY <1>9 DEF e
<1>19. k < Len(q) =>
         /\ new[k + 2].pid = q[k + 1].pid /\ new[k + 2].key = R(k + 1) - delay
         /\ R(k + 1) - delay >= 0
  BY <1>8, <1>10, <1>16
<1>20. InsertedAfter(q, r, p, delay, new, k)
  BY <1>13, <1>14, <1>15, <1>17, <1>18, <1>19 DEF InsertedAfter
<1> QED BY <1>5, <1>7, <1>20

\* The list stays exact when p joins it with its delay.
LEMMA DeltasInsertd ==
  ASSUME NEW q \in Seq(Queued), NEW r \in [Pids -> Int], Deltas(q, r),
         NEW p \in Pids, p \notin Members(q), NEW delay \in Nat
  PROVE  Deltas(insertd(q, p, delay), [r EXCEPT ![p] = delay])
<1> DEFINE new == insertd(q, p, delay)
           w == [r EXCEPT ![p] = delay]
           R(i) == Rest(q, r, i)
           W(i) == Rest(new, w, i)
           K(i) == q[i].key
<1>1. /\ Len(q) \in Nat /\ \A i \in 0..Len(q) : R(i) \in Int
      /\ \A i \in 1..Len(q) : q[i].pid \in Pids /\ K(i) \in Int
  BY EntryTypes
<1>0. PICK k \in 0..Len(q) : InsertedAfter(q, r, p, delay, new, k)
  BY InsertdEntries
<1>2. /\ k \in 0..Len(q)
      /\ Len(new) = Len(q) + 1
      /\ \A i \in 1..k : new[i] = q[i]
      /\ new[k + 1] = Entry(p, delay - R(k))
      /\ delay - R(k) >= 0
      /\ k < Len(q) => /\ new[k + 2].pid = q[k + 1].pid
                       /\ new[k + 2].key = R(k + 1) - delay
                       /\ R(k + 1) - delay >= 0
      /\ \A i \in (k + 3)..(Len(q) + 1) : new[i] = q[i - 1]
  BY <1>0 DEF InsertedAfter
<1>3. \A i \in 1..Len(q) : K(i) = R(i) - R(i - 1) /\ K(i) >= 0
  BY DEF Deltas
<1>4. w[p] = delay /\ \A i \in 1..Len(q) : w[q[i].pid] = r[q[i].pid]
  BY <1>1 DEF Members
<1>5. \A i \in 0..k : W(i) = R(i)
  <2> SUFFICES ASSUME NEW i \in 1..k PROVE W(i) = R(i)
    BY DEF Rest
  <2>1. i # 0 /\ i \in 1..Len(q) /\ new[i] = q[i]
    BY <1>1, <1>2
  <2>2. W(i) = w[q[i].pid] /\ R(i) = r[q[i].pid]
    BY <2>1 DEF Rest
  <2> QED BY <1>4, <2>1, <2>2
<1>6. W(k + 1) = delay /\ new[k + 1].key = delay - R(k)
  <2>1. new[k + 1].pid = p /\ new[k + 1].key = delay - R(k) /\ k + 1 # 0
    BY <1>2 DEF Entry
  <2> QED BY <1>4, <2>1 DEF Rest
<1>7. \A i \in (k + 2)..(Len(q) + 1) : W(i) = R(i - 1)
  <2> SUFFICES ASSUME NEW i \in (k + 2)..(Len(q) + 1) PROVE W(i) = R(i - 1)
    OBVIOUS
  <2>1. i # 0 /\ i - 1 # 0 /\ i - 1 \in 1..Len(q)
    BY <1>1, <1>2
  <2>2. new[i].pid = q[i - 1].pid
    <3>1. CASE i = k + 2
      <4>1. k < Len(q) /\ i - 1 = k + 1
        BY <1>1, <1>2, <3>1
      <4> QED BY <1>2, <3>1, <4>1
    <3>2. CASE i # k + 2
      <4>1. i \in (k + 3)..(Len(q) + 1)
        BY <1>1, <1>2, <3>2
      <4> QED BY <1>2, <4>1
    <3> QED BY <3>1, <3>2
  <2>3. W(i) = w[q[i - 1].pid] /\ R(i - 1) = r[q[i - 1].pid]
    BY <2>1, <2>2 DEF Rest
  <2> QED BY <1>4, <2>1, <2>3
<1> HIDE DEF R, W, K, w, new
<1>8. ASSUME NEW i \in 1..Len(new) PROVE new[i].key = W(i) - W(i - 1) /\ new[i].key >= 0
  <2>0. i \in 1..(Len(q) + 1)
    BY <1>2
  <2>1. CASE i <= k
    <3>1. i \in 1..k /\ i \in 0..k /\ i - 1 \in 0..k /\ i \in 1..Len(q)
      BY <1>1, <1>2, <2>0, <2>1
    <3>2. new[i] = q[i] /\ W(i) = R(i) /\ W(i - 1) = R(i - 1)
      BY <1>2, <1>5, <3>1
    <3> QED BY <1>3, <3>1, <3>2 DEF K
  <2>2. CASE i = k + 1
    <3>1. k \in 0..k /\ (k + 1) - 1 = k /\ W(k) = R(k)
      BY <1>1, <1>2, <1>5
    <3> QED BY <1>2, <1>6, <2>2, <3>1
  <2>3. CASE i = k + 2
    <3>1. k < Len(q) /\ k + 2 \in (k + 2)..(Len(q) + 1) /\ (k + 2) - 1 = k + 1
      BY <1>1, <1>2, <2>0, <2>3
    <3>2. W(k + 2) = R(k + 1)
      BY <1>7, <3>1
    <3> QED BY <1>2, <1>6, <2>3, <3>1, <3>2
  <2>4. CASE i > k + 2
    <3>1. /\ i \in (k + 3)..(Len(q) + 1) /\ i \in (k + 2)..(Len(q) + 1)
          /\ i - 1 \in (k + 2)..(Len(q) + 1) /\ i - 1 \in 1..Len(q)
      BY <1>1, <1>2, <2>0, <2>4
    <3>2. new[i] = q[i - 1] /\ W(i) = R(i - 1) /\ W(i - 1) = R(i - 1 - 1)
      BY <1>2, <1>7, <3>1
    <3> QED BY <1>3, <3>1, <3>2 DEF K
  <2> QED BY <1>1, <1>2, <2>0, <2>1, <2>2, <2>3, <2>4
<1> QED BY <1>8 DEF Deltas, W, w, new

\* It stays exact when p leaves it, whose delay the entry behind takes over.
LEMMA DeltasUnsleep ==
  ASSUME NEW q \in Seq(Queued), NEW r \in [Pids -> Int], Deltas(q, r),
         NoDuplicates(q), NEW p \in Members(q)
  PROVE  Deltas(unsleep(q, p), r)
<1> DEFINE m == Position(q, p)
           R(i) == Rest(q, r, i)
           K(i) == q[i].key
           n == K(m + 1) + K(m)
           s == IF m < Len(q) THEN [q EXCEPT ![m + 1] = [q[m + 1] EXCEPT !.key = n]] ELSE q
           new == RemoveAt(s, m)
           W(i) == Rest(new, r, i)
<1>1. /\ Len(q) \in Nat /\ \A i \in 0..Len(q) : R(i) \in Int
      /\ \A i \in 1..Len(q) : q[i] \in Queued /\ q[i].pid \in Pids /\ K(i) \in Int
  BY EntryTypes
<1>2. \A i \in 1..Len(q) : K(i) = R(i) - R(i - 1) /\ K(i) >= 0
  BY DEF Deltas
<1>3. m \in 1..Len(q)
  BY DEF Members, Position
<1>4. unsleep(q, p) = new
  BY DEF unsleep
<1> HIDE DEF m
<1>5. m < Len(q) => n \in Int /\ n = R(m + 1) - R(m - 1) /\ n >= 0
  <2> SUFFICES ASSUME m < Len(q) PROVE n \in Int /\ n = R(m + 1) - R(m - 1) /\ n >= 0
    OBVIOUS
  <2>1. /\ m + 1 \in 1..Len(q) /\ (m + 1) - 1 = m
        /\ m \in 0..Len(q) /\ m + 1 \in 0..Len(q) /\ m - 1 \in 0..Len(q)
    BY <1>1, <1>3
  <2>2. /\ K(m + 1) = R(m + 1) - R(m) /\ K(m) = R(m) - R(m - 1)
        /\ K(m + 1) >= 0 /\ K(m) >= 0
        /\ R(m) \in Int /\ R(m + 1) \in Int /\ R(m - 1) \in Int
    BY <1>1, <1>2, <1>3, <2>1
  <2> HIDE DEF R, K
  <2> QED BY <2>2
<1>6. /\ s \in Seq(Queued) /\ Len(s) = Len(q)
      /\ \A i \in 1..Len(q) : i # m + 1 => s[i] = q[i]
      /\ m < Len(q) => s[m + 1].pid = q[m + 1].pid /\ s[m + 1].key = n
  <2>1. CASE m < Len(q)
    <3> DEFINE f == [q[m + 1] EXCEPT !.key = n]
    <3>1. m + 1 \in 1..Len(q) /\ n \in Int
      BY <1>1, <1>3, <1>5, <2>1
    <3>2. f \in Queued /\ f.pid = q[m + 1].pid /\ f.key = n
      BY <1>1, <3>1, Rekeyed
    <3> HIDE DEF f, n
    <3>3. s = [q EXCEPT ![m + 1] = f]
      BY <2>1 DEF f
    <3> HIDE DEF s
    <3> QED BY <3>1, <3>2, <3>3, ExceptSeq
  <2>2. CASE ~(m < Len(q))
    BY <2>2
  <2> QED BY <2>1, <2>2
<1> HIDE DEF s
<1>7. /\ Len(new) = Len(q) - 1
      /\ \A i \in 1..(Len(q) - 1) : new[i] = IF i < m THEN s[i] ELSE s[i + 1]
  <2> DEFINE E == Queued
  <2>1. s \in Seq(E) /\ m \in 1..Len(s)
    BY <1>3, <1>6
  <2> HIDE DEF E
  <2>2. /\ RemoveAt(s, m) \in Seq(E)
        /\ Len(RemoveAt(s, m)) = Len(s) - 1
        /\ \A i \in 1..(Len(s) - 1) : RemoveAt(s, m)[i] = IF i < m THEN s[i] ELSE s[i + 1]
    BY <2>1, RemoveAtProperties
  <2> QED BY <1>6, <2>2
<1> HIDE DEF new, n
<1>8. \A i \in 1..(Len(q) - 1) : s[i].pid = q[i].pid /\ s[i + 1].pid = q[i + 1].pid
  <2>1. \A i \in 1..Len(q) : s[i].pid = q[i].pid
    <3> SUFFICES ASSUME NEW i \in 1..Len(q) PROVE s[i].pid = q[i].pid
      OBVIOUS
    <3>1. CASE i = m + 1
      <4>1. m < Len(q)
        BY <1>1, <1>3, <3>1
      <4> QED BY <1>6, <3>1, <4>1
    <3>2. CASE i # m + 1
      BY <1>6, <3>2
    <3> QED BY <3>1, <3>2
  <2>2. \A i \in 1..(Len(q) - 1) : i \in 1..Len(q) /\ i + 1 \in 1..Len(q)
    BY <1>1
  <2> QED BY <2>1, <2>2
<1>9. ASSUME NEW i \in 0..(Len(q) - 1)
      PROVE  W(i) = IF i < m THEN R(i) ELSE R(i + 1)
  <2>1. CASE i = 0
    BY <1>3, <2>1 DEF Rest
  <2>2. CASE i # 0
    <3>1. i \in 1..(Len(q) - 1) /\ i + 1 # 0
      BY <1>1, <2>2
    <3>2. new[i].pid = IF i < m THEN q[i].pid ELSE q[i + 1].pid
      BY <1>7, <1>8, <3>1
    <3> QED BY <2>2, <3>1, <3>2 DEF Rest
  <2> QED BY <2>1, <2>2
<1> HIDE DEF R, W, K
<1>10. ASSUME NEW i \in 1..Len(new) PROVE new[i].key = W(i) - W(i - 1) /\ new[i].key >= 0
  <2>0. i \in 1..(Len(q) - 1) /\ i \in 0..(Len(q) - 1) /\ i - 1 \in 0..(Len(q) - 1)
    BY <1>1, <1>7
  <2>1. CASE i < m
    <3>1. i \in 1..Len(q) /\ i # m + 1 /\ i - 1 < m
      BY <1>1, <1>3, <2>0, <2>1
    <3>2. new[i] = q[i] /\ W(i) = R(i) /\ W(i - 1) = R(i - 1)
      BY <1>6, <1>7, <1>9, <2>0, <2>1, <3>1
    <3> QED BY <1>2, <3>1, <3>2 DEF K
  <2>2. CASE i = m
    <3>1. m < Len(q) /\ m - 1 < m /\ ~(m < m)
      BY <1>1, <1>3, <2>0, <2>2
    <3>2. new[m] = s[m + 1] /\ W(m) = R(m + 1) /\ W(m - 1) = R(m - 1)
      BY <1>7, <1>9, <2>0, <2>2, <3>1
    <3> QED BY <1>5, <1>6, <2>2, <3>1, <3>2
  <2>3. CASE i > m
    <3>1. i + 1 \in 1..Len(q) /\ i + 1 # m + 1 /\ ~(i < m) /\ ~(i - 1 < m) /\ i - 1 + 1 = i
      BY <1>1, <1>3, <2>0, <2>3
    <3>2. new[i] = q[i + 1] /\ W(i) = R(i + 1) /\ W(i - 1) = R(i)
      BY <1>6, <1>7, <1>9, <2>0, <3>1
    <3>3. i + 1 - 1 = i
      BY <2>0
    <3> QED BY <1>2, <3>1, <3>2, <3>3 DEF K
  <2> QED BY <1>3, <2>0, <2>1, <2>2, <2>3
<1> QED BY <1>4, <1>10 DEF Deltas, W

\* The rests grow along the list, because no key is negative.
LEMMA FirstEndsFirst ==
  ASSUME NEW q \in Seq(Queued), NEW r \in [Pids -> Int], Deltas(q, r)
  PROVE  \A i \in 1..Len(q) : r[q[i].pid] >= firstkey(q)
<1> DEFINE R(i) == Rest(q, r, i)
           K(i) == q[i].key
<1>1. Len(q) \in Nat /\ \A i \in 0..Len(q) : R(i) \in Int
  BY EntryTypes
<1>2. \A i \in 1..Len(q) : K(i) = R(i) - R(i - 1) /\ K(i) >= 0
  BY DEF Deltas
<1>3. R(0) = 0
  BY DEF Rest
<1>4. \A i \in 1..Len(q) : R(i) = r[q[i].pid]
  BY DEF Rest
<1>5. 1 \in 1..Len(q) => firstkey(q) = K(1)
  BY DEF firstkey
<1> HIDE DEF R, K
<1> DEFINE T == {i \in 1..Len(q) : ~(R(i) >= K(1))}
<1>6. T = {}
  <2> SUFFICES ASSUME T # {} PROVE FALSE
    OBVIOUS
  <2>1. PICK n \in T : \A m \in T : n <= m
    <3>1. T \in SUBSET Nat
      OBVIOUS
    <3> QED BY <3>1, LeastNat
  <2>2. CASE n = 1
    <3>1. 1 \in 1..Len(q) /\ 1 - 1 = 0 /\ 1 \in 0..Len(q)
      BY <1>1, <2>1, <2>2
    <3> QED BY <1>1, <1>2, <1>3, <2>1, <2>2, <3>1
  <2>3. CASE n # 1
    <3>1. n - 1 \in 1..Len(q) /\ n - 1 \notin T /\ n \in 1..Len(q)
          /\ n \in 0..Len(q) /\ n - 1 \in 0..Len(q) /\ 1 \in 1..Len(q)
          /\ 1 \in 0..Len(q) /\ 1 - 1 = 0 /\ 0 \in 0..Len(q)
      BY <1>1, <2>1, <2>3
    <3>2. R(n - 1) >= K(1) /\ K(n) = R(n) - R(n - 1) /\ K(n) >= 0 /\ ~(R(n) >= K(1))
      BY <1>2, <2>1, <3>1
    <3>3. R(n) \in Int /\ R(n - 1) \in Int /\ K(1) \in Int
      <4>1. K(1) = R(1) - R(0)
        BY <1>2, <3>1
      <4> QED BY <1>1, <3>1, <4>1
    <3> QED BY <3>2, <3>3
  <2> QED BY <2>2, <2>3
<1>7. ASSUME NEW i \in 1..Len(q) PROVE r[q[i].pid] >= firstkey(q)
  <2>1. 1 \in 1..Len(q) /\ i \notin T
    BY <1>1, <1>6
  <2> QED BY <1>4, <1>5, <2>1
<1> QED BY <1>7

\* The first entry is taken off when its delay is over.
LEMMA DeltasDequeue ==
  ASSUME NEW q \in Seq(Queued), NEW r \in [Pids -> Int], Deltas(q, r),
         q # <<>>, firstkey(q) = 0
  PROVE  Deltas(rest(q), r)
<1> DEFINE new == rest(q)
           R(i) == Rest(q, r, i)
           W(i) == Rest(new, r, i)
           K(i) == q[i].key
<1>1. Len(q) \in Nat /\ 1 \in 1..Len(q) /\ \A i \in 0..Len(q) : R(i) \in Int
  BY EmptySeq, EntryTypes
<1>2. \A i \in 1..Len(q) : K(i) = R(i) - R(i - 1) /\ K(i) >= 0
  BY DEF Deltas
<1>3. R(0) = 0 /\ K(1) = 0
  BY DEF Rest, firstkey
<1>4. R(1) = 0
  <2>1. K(1) = R(1) - R(0) /\ R(1) \in Int
    BY <1>1, <1>2
  <2> HIDE DEF R, K
  <2> QED BY <1>3, <2>1
<1>5. /\ Len(new) = Len(q) - 1
      /\ \A i \in 1..Len(new) : new[i] = q[i + 1]
  <2> DEFINE E == Queued
  <2>1. q \in Seq(E) /\ q # <<>>
    OBVIOUS
  <2> HIDE DEF E
  <2>2. /\ Tail(q) \in Seq(E) /\ Len(Tail(q)) = Len(q) - 1
        /\ \A i \in 1..Len(Tail(q)) : Tail(q)[i] = q[i + 1]
    BY <2>1, HeadTailProperties
  <2> QED BY <2>2 DEF rest
<1> HIDE DEF new
<1>6. ASSUME NEW i \in 0..Len(new) PROVE W(i) = R(i + 1)
  <2>1. CASE i = 0
    BY <1>4, <2>1 DEF Rest
  <2>2. CASE i # 0
    <3>1. i \in 1..Len(new) /\ i + 1 # 0
      BY <1>1, <1>5, <2>2
    <3>2. new[i] = q[i + 1]
      BY <1>5, <3>1
    <3> QED BY <2>2, <3>1, <3>2 DEF Rest
  <2> QED BY <2>1, <2>2
<1> HIDE DEF R, W, K
<1>7. ASSUME NEW i \in 1..Len(new) PROVE new[i].key = W(i) - W(i - 1) /\ new[i].key >= 0
  <2>1. i + 1 \in 1..Len(q) /\ i \in 0..Len(new) /\ i - 1 \in 0..Len(new)
        /\ i - 1 + 1 = i /\ i + 1 - 1 = i
    BY <1>1, <1>5
  <2>2. new[i] = q[i + 1] /\ W(i) = R(i + 1) /\ W(i - 1) = R(i)
    BY <1>5, <1>6, <2>1
  <2>3. K(i + 1) = R(i + 1) - R(i) /\ K(i + 1) >= 0
    BY <1>2, <2>1
  <2> QED BY <2>2, <2>3 DEF K
<1> QED BY <1>7 DEF Deltas, W, new

\* A tick shortens the first key, and with it every delay on the list.
LEMMA DeltasTick ==
  ASSUME NEW q \in Seq(Queued), NEW r \in [Pids -> Int], Deltas(q, r),
         q # <<>>, firstkey(q) > 0
  PROVE  /\ Deltas([q EXCEPT ![1].key = @ - 1],
                   [p \in Pids |-> IF p \in Members(q) THEN r[p] - 1 ELSE r[p]])
         /\ [q EXCEPT ![1].key = @ - 1] \in Seq(Queued)
         /\ [q EXCEPT ![1].key = @ - 1] # <<>>
         /\ firstkey([q EXCEPT ![1].key = @ - 1]) = firstkey(q) - 1
         /\ Members([q EXCEPT ![1].key = @ - 1]) = Members(q)
<1> DEFINE n == q[1].key - 1
           f == [q[1] EXCEPT !.key = n]
           new == [q EXCEPT ![1] = f]
           w == [p \in Pids |-> IF p \in Members(q) THEN r[p] - 1 ELSE r[p]]
           R(i) == Rest(q, r, i)
           W(i) == Rest(new, w, i)
           K(i) == q[i].key
<1>1. /\ Len(q) \in Nat /\ 1 \in 1..Len(q) /\ \A i \in 0..Len(q) : R(i) \in Int
      /\ \A i \in 1..Len(q) : q[i] \in Queued /\ q[i].pid \in Pids /\ K(i) \in Int
  BY EmptySeq, EntryTypes
<1>2. \A i \in 1..Len(q) : K(i) = R(i) - R(i - 1) /\ K(i) >= 0
  BY DEF Deltas
<1>3. R(0) = 0 /\ W(0) = 0 /\ K(1) > 0
  BY DEF Rest, firstkey
<1>4. n \in Int /\ n = K(1) - 1
  BY <1>1
<1>5. f \in Queued /\ f.pid = q[1].pid /\ f.key = n
  BY <1>1, <1>4, Rekeyed
<1>6. [q EXCEPT ![1].key = @ - 1] = new
  OBVIOUS
<1>7. \A i \in 1..Len(q) : w[q[i].pid] = r[q[i].pid] - 1
  BY <1>1 DEF Members
<1> HIDE DEF f, n, w
<1>8. /\ new \in Seq(Queued) /\ Len(new) = Len(q)
      /\ \A i \in 1..Len(q) : i # 1 => new[i] = q[i]
      /\ new[1] = f
  BY <1>1, <1>5, ExceptSeq
<1> HIDE DEF new
<1>9. \A i \in 1..Len(q) : new[i].pid = q[i].pid
  <2> SUFFICES ASSUME NEW i \in 1..Len(q) PROVE new[i].pid = q[i].pid
    OBVIOUS
  <2> QED BY <1>5, <1>8
<1>10. ASSUME NEW i \in 1..Len(q) PROVE W(i) = R(i) - 1
  <2>1. i # 0 /\ new[i].pid = q[i].pid
    BY <1>1, <1>9
  <2> QED BY <1>7, <2>1 DEF Rest
<1>11. new # <<>> /\ firstkey(new) = firstkey(q) - 1
  <2>1. new # <<>>
    BY <1>1, <1>8
  <2> QED BY <1>4, <1>5, <1>8, <2>1 DEF firstkey
<1>12. Members(new) = Members(q)
  BY <1>8, <1>9 DEF Members
<1> HIDE DEF R, W, K
<1>13. ASSUME NEW i \in 1..Len(new) PROVE new[i].key = W(i) - W(i - 1) /\ new[i].key >= 0
  <2>1. i \in 1..Len(q)
    BY <1>8
  <2>2. CASE i = 1
    <3>1. K(1) = R(1) - R(0) /\ W(1) = R(1) - 1 /\ R(1) \in Int /\ 1 - 1 = 0
      BY <1>1, <1>2, <1>10
    <3>2. new[1].key = K(1) - 1
      BY <1>4, <1>5, <1>8
    <3> QED BY <1>3, <2>2, <3>1, <3>2
  <2>3. CASE i # 1
    <3>1. i - 1 \in 1..Len(q) /\ i - 1 \in 0..Len(q) /\ i \in 0..Len(q)
      BY <1>1, <2>1, <2>3
    <3>2. /\ new[i] = q[i] /\ W(i) = R(i) - 1 /\ W(i - 1) = R(i - 1) - 1
          /\ K(i) = R(i) - R(i - 1) /\ K(i) >= 0
          /\ R(i) \in Int /\ R(i - 1) \in Int
      BY <1>1, <1>2, <1>8, <1>10, <2>1, <2>3, <3>1
    <3> QED BY <3>2 DEF K
  <2> QED BY <2>2, <2>3
<1>14. Deltas(new, w)
  BY <1>13 DEF Deltas, W
<1> QED BY <1>6, <1>8, <1>11, <1>12, <1>14 DEF w

\* The keys up to an entry add up to the rest of its delay.  The rests solve the
\* recursion that defines the sums, so that a solution exists.
LEMMA KeySumIsRest ==
  ASSUME NEW q \in Seq(Queued), NEW r \in [Pids -> Int], Deltas(q, r)
  PROVE  \A i \in 1..Len(q) : KeySum(q)[i] = r[q[i].pid]
<1> DEFINE R(i) == Rest(q, r, i)
           K(i) == q[i].key
           Sum(f) == f = [i \in 0..Len(q) |-> IF i = 0 THEN 0 ELSE f[i - 1] + q[i].key]
           g == [i \in 0..Len(q) |-> R(i)]
           f == KeySum(q)
<1>1. Len(q) \in Nat /\ \A i \in 0..Len(q) : R(i) \in Int
  BY EntryTypes
<1>2. \A i \in 1..Len(q) : K(i) = R(i) - R(i - 1)
  BY DEF Deltas
<1>3. R(0) = 0
  BY DEF Rest
<1>4. Sum(g)
  <2> HIDE DEF R
  <2>1. ASSUME NEW i \in 0..Len(q)
        PROVE  g[i] = IF i = 0 THEN 0 ELSE g[i - 1] + q[i].key
    <3>1. CASE i = 0
      BY <1>3, <3>1
    <3>2. CASE i # 0
      <4>1. i \in 1..Len(q) /\ i - 1 \in 0..Len(q)
        BY <1>1, <3>2
      <4>2. g[i] = R(i) /\ g[i - 1] = R(i - 1) /\ K(i) = R(i) - R(i - 1)
            /\ R(i) \in Int /\ R(i - 1) \in Int
        BY <1>1, <1>2, <4>1
      <4> QED BY <3>2, <4>2
    <3> QED BY <3>1, <3>2
  <2> QED BY <2>1
<1>5. Sum(f)
  <2>1. f = CHOOSE h : Sum(h)
    BY Zenon DEF KeySum
  <2> HIDE DEF f, Sum, g
  <2> QED BY <1>4, <2>1
<1> HIDE DEF f
<1>6. \A i \in 0..Len(q) : f[i] = IF i = 0 THEN 0 ELSE f[i - 1] + K(i)
  BY <1>5
<1> HIDE DEF R, K, Sum
<1> DEFINE T == {i \in 0..Len(q) : f[i] # R(i)}
<1>7. T = {}
  <2> SUFFICES ASSUME T # {} PROVE FALSE
    OBVIOUS
  <2>1. PICK n \in T : \A m \in T : n <= m
    <3>1. T \in SUBSET Nat
      OBVIOUS
    <3> QED BY <3>1, LeastNat
  <2>2. n # 0
    BY <1>1, <1>3, <1>6
  <2>3. n - 1 \in 0..Len(q) /\ n - 1 \notin T /\ n \in 1..Len(q)
    BY <1>1, <2>1, <2>2
  <2>4. f[n - 1] = R(n - 1) /\ f[n] = f[n - 1] + K(n) /\ K(n) = R(n) - R(n - 1)
        /\ R(n) \in Int /\ R(n - 1) \in Int
    BY <1>1, <1>2, <1>6, <2>2, <2>3
  <2> QED BY <2>4
<1>8. ASSUME NEW i \in 1..Len(q) PROVE f[i] = r[q[i].pid]
  <2>1. i \in 0..Len(q) /\ i # 0 /\ i \notin T
    BY <1>1, <1>7
  <2> QED BY <2>1 DEF R, Rest
<1> QED BY <1>8 DEF f

\* Only the delays of processes on the list matter.
LEMMA DeltasOthers ==
  ASSUME NEW q \in Seq(Queued), NEW r \in [Pids -> Int], Deltas(q, r),
         NEW p \in Pids, p \notin Members(q), NEW n
  PROVE  Deltas(q, [r EXCEPT ![p] = n])
<1> DEFINE w == [r EXCEPT ![p] = n]
<1>1. \A i \in 1..Len(q) : q[i].pid \in Pids /\ w[q[i].pid] = r[q[i].pid]
  BY EntryTypes DEF Members
<1>2. Len(q) \in Nat
  BY EntryTypes
<1> HIDE DEF w
<1>3. \A i \in 0..Len(q) : Rest(q, w, i) = Rest(q, r, i)
  BY <1>1, <1>2 DEF Rest
<1>4. \A i \in 1..Len(q) : i \in 0..Len(q) /\ i - 1 \in 0..Len(q)
  BY <1>2
<1>5. Deltas(q, w)
  BY <1>3, <1>4 DEF Deltas
<1> QED BY <1>5 DEF w

-----------------------------------------------------------------------------
(* The invariant of the delays                                             *)

TInv == IInv /\ DelayInv

\* The list holds exactly the processes that sleep.
LEMMA Sleepers ==
  ASSUME IInv
  PROVE  /\ sleepq \in Seq(Queued) /\ NoDuplicates(sleepq)
         /\ Members(sleepq) = {p \in Pids : prstate[p] \in Asleep}
         /\ InUser => loop.op = "none" /\ currpid \in Pids /\ currpid \notin Members(sleepq)
<1>1. /\ sleepq \in Seq(Queued) /\ NoDuplicates(sleepq)
      /\ Members(sleepq) = {p \in Pids : prstate[p] \in Asleep}
  BY DEF IInv, SleepInv, Holds, EntriesOf, Queued
<1>2. InUser => loop.op = "none" /\ currpid \in Pids /\ currpid \notin Members(sleepq)
  BY <1>1, InUserFacts, StateNames DEF Running, NoLoop
<1> QED BY <1>1, <1>2

\* The first delay ends first.
LEMMA FirstRest ==
  ASSUME IInv, DelayInv, sleepq # <<>>
  PROVE  /\ first(sleepq) \in Members(sleepq)
         /\ firstkey(sleepq) = remain[first(sleepq)]
         /\ firstkey(sleepq) \in Nat
         /\ \A p \in Members(sleepq) : remain[p] \in Int /\ remain[p] >= firstkey(sleepq)
<1>1. /\ sleepq \in Seq(Queued) /\ remain \in [Pids -> Int] /\ Deltas(sleepq, remain)
  BY Sleepers DEF DelayInv
<1>2. /\ Len(sleepq) \in Nat /\ 1 \in 1..Len(sleepq)
      /\ \A i \in 1..Len(sleepq) : sleepq[i].pid \in Pids /\ sleepq[i].key \in Int
      /\ \A i \in 0..Len(sleepq) : Rest(sleepq, remain, i) \in Int
  BY <1>1, EntryTypes, EmptySeq
<1>3. firstkey(sleepq) = remain[first(sleepq)] /\ firstkey(sleepq) \in Nat
  <2>1. /\ sleepq[1].key = Rest(sleepq, remain, 1) - Rest(sleepq, remain, 0)
        /\ sleepq[1].key >= 0
    BY <1>1, <1>2 DEF Deltas
  <2>2. Rest(sleepq, remain, 0) = 0 /\ Rest(sleepq, remain, 1) = remain[sleepq[1].pid]
        /\ Rest(sleepq, remain, 1) \in Int
    BY <1>2 DEF Rest
  <2> QED BY <1>2, <2>1, <2>2 DEF firstkey, first
<1>4. \A i \in 1..Len(sleepq) : remain[sleepq[i].pid] >= firstkey(sleepq)
  BY <1>1, FirstEndsFirst
<1>5. first(sleepq) \in Members(sleepq)
  BY <1>2 DEF first, Members
<1>6. \A p \in Members(sleepq) : remain[p] \in Int /\ remain[p] >= firstkey(sleepq)
  BY <1>1, <1>2, <1>4 DEF Members
<1> QED BY <1>3, <1>5, <1>6

\* A step that moves nobody and ends no delay.
LEMMA DelayKept ==
  ASSUME DelayInv, UNCHANGED <<sleepq, remain>>,
         loop'.op # "wakeup" => loop.op # "wakeup"
  PROVE  DelayInv'
BY DEF DelayInv

\* The current process joins the list with a delay that has time left.
LEMMA JoinStep ==
  ASSUME IInv, DelayInv, Calling, NEW delay \in Nat, delay > 0,
         sleepq' = insertd(sleepq, currpid, delay), joins(delay), UNCHANGED loop
  PROVE  DelayInv' /\ Members(sleepq') = Members(sleepq) \cup {currpid}
<1>1. /\ sleepq \in Seq(Queued) /\ currpid \in Pids /\ currpid \notin Members(sleepq)
      /\ loop.op # "wakeup"
  BY Sleepers DEF Calling
<1>2. remain' = [remain EXCEPT ![currpid] = delay] /\ remain' \in [Pids -> Int]
  <2>1. remain \in [Pids -> Int] /\ delay \in Int
    BY DEF DelayInv
  <2>2. remain' = [remain EXCEPT ![currpid] = delay]
    BY DEF joins
  <2> QED BY <1>1, <2>1, <2>2
<1>3. Deltas(sleepq', remain')
  BY <1>1, <1>2, DeltasInsertd DEF DelayInv
<1>4. Members(sleepq') = Members(sleepq) \cup {currpid}
  <2> DEFINE M == Members(sleepq)
  <2>1. Holds(sleepq, Pids, M) /\ currpid \notin M
    BY <1>1, Sleepers DEF IInv, SleepInv
  <2> HIDE DEF M
  <2>2. Holds(insertd(sleepq, currpid, delay), Pids, M \cup {currpid})
    BY <1>1, <2>1, InsertdHolds
  <2> QED BY <2>2 DEF Holds, M
<1>5. \A p \in Members(sleepq') : remain'[p] > 0
  <2> SUFFICES ASSUME NEW p \in Members(sleepq') PROVE remain'[p] > 0
    OBVIOUS
  <2>1. CASE p = currpid
    BY <1>1, <1>2, <2>1 DEF DelayInv
  <2>2. CASE p # currpid
    <3>1. p \in Members(sleepq) /\ p \in Pids
      BY <1>4, <2>2, Sleepers
    <3>2. remain[p] > 0
      BY <1>1, <3>1 DEF DelayInv
    <3> QED BY <1>2, <2>2, <3>1, <3>2 DEF DelayInv
  <2> QED BY <2>1, <2>2
<1> QED BY <1>2, <1>3, <1>4, <1>5 DEF DelayInv

\* A process that does not go to sleep has a delay nobody looks at.
LEMMA NoDelayStep ==
  ASSUME IInv, DelayInv, yield, joins(0)
  PROVE  DelayInv'
<1>1. /\ sleepq \in Seq(Queued) /\ currpid \in Pids /\ currpid \notin Members(sleepq)
      /\ loop.op # "wakeup" /\ UNCHANGED <<sleepq, loop>>
  BY Sleepers DEF yield, Calling, ctlVars
<1>2. remain' = [remain EXCEPT ![currpid] = 0] /\ remain' \in [Pids -> Int]
  <2>1. remain \in [Pids -> Int] /\ 0 \in Int
    BY DEF DelayInv
  <2>2. remain' = [remain EXCEPT ![currpid] = 0]
    BY DEF joins
  <2> QED BY <1>1, <2>1, <2>2
<1>3. Deltas(sleepq', remain')
  BY <1>1, <1>2, DeltasOthers DEF DelayInv
<1>4. \A p \in Members(sleepq') : remain'[p] > 0
  <2> SUFFICES ASSUME NEW p \in Members(sleepq) PROVE remain'[p] > 0
    BY <1>1
  <2>1. p # currpid /\ p \in Pids /\ remain[p] > 0
    BY <1>1, Sleepers DEF DelayInv
  <2> QED BY <1>2, <2>1 DEF DelayInv
<1> QED BY <1>2, <1>3, <1>4 DEF DelayInv

\* kill() takes a sleeper off the list and leaves the other delays alone.
LEMMA KillDelay ==
  ASSUME IInv, DelayInv, NEW k \in Pids, kill(k), UNCHANGED remain
  PROVE  /\ DelayInv'
         /\ \A p \in Members(sleepq) \ Members(sleepq') : prstate'[p] = PR_FREE
<1>1. Calling /\ UNCHANGED loop
  BY DEF kill, xdone, remove, ctlVars
<1>2. CASE UNCHANGED sleepq
  BY <1>1, <1>2, DelayKept
<1>3. CASE prstate[k] \in Asleep /\ sleepq' = unsleep(sleepq, k)
           /\ prstate' = [prstate EXCEPT ![k] = PR_FREE]
  <2>1. sleepq \in Seq(Queued) /\ NoDuplicates(sleepq) /\ k \in Members(sleepq)
        /\ loop.op # "wakeup"
    BY <1>1, <1>3, Sleepers DEF Calling
  <2>2. Deltas(sleepq', remain)
    BY <1>3, <2>1, DeltasUnsleep DEF DelayInv
  <2>3. Members(sleepq') = Members(sleepq) \ {k}
    <3> DEFINE M == Members(sleepq)
    <3>1. Holds(sleepq, Pids, M) /\ k \in M
      BY <2>1, Sleepers DEF IInv, SleepInv
    <3> HIDE DEF M
    <3>2. Holds(unsleep(sleepq, k), Pids, M \ {k})
      BY <3>1, UnsleepHolds
    <3> QED BY <1>3, <3>2 DEF Holds, M
  <2>4. prstate'[k] = PR_FREE
    BY <1>3 DEF IInv, SchedInv
  <2> QED BY <1>1, <2>1, <2>2, <2>3, <2>4 DEF DelayInv
<1>4. (UNCHANGED sleepq)
      \/ (prstate[k] \in Asleep /\ sleepq' = unsleep(sleepq, k)
          /\ prstate' = [prstate EXCEPT ![k] = PR_FREE])
  BY DEF kill, xdone, remove, Asleep
<1> QED BY <1>2, <1>3, <1>4

\* A tick, whether it ends a delay or not.
LEMMA TickStep ==
  ASSUME IInv, DelayInv, tick
  PROVE  DelayInv' /\ Members(sleepq') = Members(sleepq)
<1> DEFINE M == Members(sleepq)
           w == [p \in Pids |-> IF p \in M THEN remain[p] - 1 ELSE remain[p]]
           new == [sleepq EXCEPT ![1].key = @ - 1]
<1>1. InUser /\ remain' = w
  BY DEF tick, Clock, clkhandler, clkwakeup
<1>2. /\ sleepq \in Seq(Queued) /\ loop.op # "wakeup"
      /\ M \subseteq Pids /\ \A p \in M : remain[p] > 0
  BY <1>1, Sleepers DEF DelayInv
<1>3. w \in [Pids -> Int] /\ \A p \in M : w[p] = remain[p] - 1
  BY <1>2 DEF DelayInv
<1>4. CASE sleepq = <<>>
  <2>1. M = {} /\ UNCHANGED <<sleepq, loop>>
    BY <1>4 DEF tick, Clock, clkhandler, clkwakeup, Members, ctlVars
  <2>2. remain' = remain
    BY <1>1, <2>1 DEF DelayInv
  <2> QED BY <2>1, <2>2, DelayKept
<1>5. CASE sleepq # <<>>
  <2>1. firstkey(sleepq) \in Nat /\ firstkey(sleepq) > 0
        /\ \A p \in M : remain[p] \in Int /\ remain[p] >= firstkey(sleepq)
    BY <1>2, <1>5, FirstRest
  <2>2. Deltas(new, w) /\ Members(new) = M
    BY <1>2, <1>5, <2>1, DeltasTick DEF DelayInv
  <2>3. sleepq' = new
    BY <1>5 DEF tick, Clock, clkhandler, clkwakeup
  <2>4. loop'.op # "wakeup" => firstkey(sleepq) > 1
    <3>1. CASE clkhandler
      BY <1>5, <2>1, <3>1 DEF clkhandler
    <3>2. CASE clkwakeup
      BY <3>2 DEF clkwakeup, NoLoop
    <3> QED BY <3>1, <3>2 DEF tick, Clock
  <2>5. ASSUME loop'.op # "wakeup", NEW p \in M PROVE w[p] > 0
    BY <1>3, <2>1, <2>4, <2>5
  <2> HIDE DEF w, new, M
  <2>6. DelayInv'
    BY <1>1, <1>3, <2>2, <2>3, <2>5 DEF DelayInv
  <2> QED BY <2>2, <2>3, <2>6 DEF M
<1> QED BY <1>4, <1>5

\* wakeup() readies the processes whose delay is over, and only those.
LEMMA WakeupDelay ==
  ASSUME IInv, DelayInv, wakeup, UNCHANGED remain
  PROVE  /\ DelayInv'
         /\ \A p \in Members(sleepq) \ Members(sleepq') : remain[p] = 0
<1>1. CASE /\ sleepq # <<>> /\ firstkey(sleepq) <= 0
           /\ sleepq' = rest(sleepq) /\ UNCHANGED loop
  <2>1. firstkey(sleepq) = 0 /\ remain[first(sleepq)] = 0
    BY <1>1, FirstRest
  <2>2. Deltas(sleepq', remain')
    BY <1>1, <2>1, Sleepers, DeltasDequeue DEF DelayInv
  <2>3. Members(sleepq') = Members(sleepq) \ {first(sleepq)}
    <3> DEFINE M == Members(sleepq)
    <3>1. Holds(sleepq, Pids, M) /\ sleepq # <<>>
      BY <1>1, Sleepers DEF IInv, SleepInv
    <3> HIDE DEF M
    <3>2. Holds(rest(sleepq), Pids, M \ {first(sleepq)})
      BY <3>1, DequeueHolds
    <3> QED BY <1>1, <3>2 DEF Holds, M
  <2>4. loop'.op = "wakeup"
    BY <1>1 DEF wakeup
  <2> QED BY <2>1, <2>2, <2>3, <2>4 DEF DelayInv
<1>2. CASE (sleepq = <<>> \/ firstkey(sleepq) > 0) /\ UNCHANGED sleepq
  <2>1. ASSUME NEW p \in Members(sleepq) PROVE remain[p] > 0
    <3>1. sleepq # <<>>
      BY <2>1 DEF Members
    <3>2. remain[p] \in Int /\ remain[p] >= firstkey(sleepq) /\ firstkey(sleepq) \in Nat
      BY <3>1, FirstRest
    <3> QED BY <1>2, <3>1, <3>2
  <2> QED BY <1>2, <2>1 DEF DelayInv
<1> QED BY <1>1, <1>2 DEF wakeup

-----------------------------------------------------------------------------
(* Every step                                                              *)

\* What a step does to the delays and to the processes on the list.
DelayStep ==
  /\ DelayInv'
  /\ \A p \in Members(sleepq) \ Members(sleepq') : remain[p] = 0 \/ prstate'[p] = PR_FREE

LEMMA QuietStep ==
  ASSUME DelayInv, UNCHANGED <<sleepq, remain>>,
         loop'.op # "wakeup" => loop.op # "wakeup"
  PROVE  DelayStep
BY DelayKept DEF DelayStep

LEMMA ProcessCallsDelay ==
  ASSUME IInv, DelayInv, ProcessCalls, UNCHANGED remain
  PROVE  DelayStep
<1>1. ASSUME NEW p \in Pids, kill(p) PROVE DelayStep
  BY <1>1, KillDelay DEF DelayStep
<1>2. CASE UNCHANGED <<sleepq, loop>>
  BY <1>2, QuietStep
<1>3. ASSUME NEW prio \in Prios, create(prio) \/ nulluser(prio) \/ usercreate(prio)
      PROVE  UNCHANGED <<sleepq, loop>>
  BY <1>3 DEF create, nulluser, usercreate, rcreate, NewProc
<1>4. ASSUME NEW which \in {"create", "rcreate"}, createfail(which)
      PROVE  UNCHANGED <<sleepq, loop>>
  BY <1>4 DEF createfail, ctlVars
<1>5. ASSUME NEW p \in Pids, suspend(p) \/ resume(p) PROVE UNCHANGED <<sleepq, loop>>
  BY <1>5 DEF suspend, resume, ctlVars
<1>6. ASSUME NEW p \in Pids, NEW prio \in NewPrios, chprio(p, prio)
      PROVE  UNCHANGED <<sleepq, loop>>
  BY <1>6 DEF chprio, ctlVars
<1>7. CASE yield
  BY <1>2, <1>7 DEF yield, ctlVars
<1> QED BY <1>1, <1>2, <1>3, <1>4, <1>5, <1>6, <1>7 DEF ProcessCalls

LEMMA DelayNext ==
  ASSUME 0 \notin Waits, IInv, DelayInv, [TNext]_tvars
  PROVE  DelayStep
<1>1. ASSUME NEW delay \in Delays, tsleepms(delay) PROVE DelayStep
  <2>1. delay \in Nat
    BY InputAssumption
  <2>2. CASE delay = 0 /\ yield
    <3>1. DelayInv' /\ UNCHANGED sleepq
      BY <1>1, <2>2, NoDelayStep DEF tsleepms, yield
    <3> QED BY <3>1 DEF DelayStep
  <2>3. CASE /\ Calling /\ delay > 0
             /\ sleepq' = insertd(sleepq, currpid, delay) /\ UNCHANGED ctlVars
    BY <1>1, <2>1, <2>3, JoinStep DEF tsleepms, ctlVars, DelayStep
  <2> QED BY <1>1, <2>2, <2>3 DEF tsleepms, sleepms
<1>2. ASSUME NEW maxwait \in Waits, trecvtime(maxwait) PROVE DelayStep
  <2>1. maxwait \in Nat /\ maxwait > 0
    BY InputAssumption
  <2> QED BY <1>2, <2>1, JoinStep DEF trecvtime, recvtime, ctlVars, DelayStep
<1>3. CASE tick
  BY <1>3, TickStep DEF DelayStep
<1>4. CASE ProcessCalls /\ UNCHANGED remain
  BY <1>4, ProcessCallsDelay
<1>5. CASE (receive \/ clkreturn \/ halt) /\ UNCHANGED remain
  BY <1>5, QuietStep DEF receive, clkreturn, halt, ctlVars, vars
<1>6. CASE KernelLoops /\ UNCHANGED remain
  <2>1. CASE wakeup
    BY <1>6, <2>1, WakeupDelay DEF DelayStep
  <2>2. CASE signalnloop \/ semdeleteloop \/ semresetloop
    <3>1. UNCHANGED sleepq /\ loop.op # "wakeup"
      BY <2>2 DEF signalnloop, semdeleteloop, semresetloop
    <3> QED BY <1>6, <3>1, QuietStep
  <2> QED BY <1>6, <2>1, <2>2 DEF KernelLoops
<1>7. CASE UNCHANGED tvars
  BY <1>7, QuietStep DEF tvars, vars, ctlVars
<1> QED BY <1>1, <1>2, <1>3, <1>4, <1>5, <1>6, <1>7 DEF TNext

\* The steps of SleepTiming are steps of Kernel.
LEMMA StepsOfKernel == [TNext]_tvars => [Next]_vars
BY DEF TNext, Next, BlockingCalls, tsleepms, trecvtime, tick, tvars

LEMMA InitTInv == TInit => TInv
<1> SUFFICES ASSUME TInit PROVE TInv
  OBVIOUS
<1>1. IInv
  BY InitIInv DEF TInit
<1>2. DelayInv
  <2>1. sleepq = <<>> /\ Len(sleepq) = 0 /\ remain \in [Pids -> Int]
    BY DEF TInit, Init
  <2> QED BY <2>1 DEF DelayInv, Deltas, Members
<1> QED BY <1>1, <1>2 DEF TInv

LEMMA NextTInv == ASSUME 0 \notin Waits PROVE TInv /\ [TNext]_tvars => TInv'
BY DelayNext, StepsOfKernel, NextIInv DEF TInv, DelayStep

\* The assumption: recvtime(0) joins the list with a delay that is already
\* over, and the tick that wakes the caller does not count for those behind it.
THEOREM TInvCorrect ==
  ASSUME 0 \notin Waits
  PROVE  TSpec => []TInv
BY InitTInv, NextTInv, PTL DEF TSpec

\* The delta list is exact for any number of processes and any delays: through
\* insertions, kills and ticks the keys up to a process add up to the ticks it
\* still has to wait, and nobody oversleeps (insertd.c:22, unsleep.c:39).
THEOREM DelaysExactCorrect ==
  ASSUME 0 \notin Waits
  PROVE  TSpec => []DelaysExact
<1>1. TInv => DelaysExact
  <2> SUFFICES ASSUME TInv PROVE DelaysExact
    OBVIOUS
  <2>1. sleepq \in Seq(Queued) /\ remain \in [Pids -> Int] /\ Deltas(sleepq, remain)
    BY Sleepers DEF TInv, DelayInv
  <2>2. loop = NoLoop => \A p \in Members(sleepq) : remain[p] > 0
    BY DEF TInv, DelayInv, NoLoop
  <2> QED BY <2>1, <2>2, KeySumIsRest DEF DelaysExact
<1> QED BY <1>1, TInvCorrect, PTL

\* A process leaves the list at the tick that ends its delay or killed.
LEMMA LeavesOnTime ==
  ASSUME 0 \notin Waits, TInv, [TNext]_tvars,
         NEW p \in Pids, prstate[p] \in Asleep, prstate'[p] \notin Asleep \cup {PR_FREE}
  PROVE  remain[p] = 0
<1>1. TInv' /\ DelayStep
  BY NextTInv, DelayNext DEF TInv
<1>2. p \in Members(sleepq)
  BY Sleepers DEF TInv
<1>3. Members(sleepq') = {r \in Pids : prstate'[r] \in Asleep}
  BY <1>1 DEF TInv, IInv, SleepInv, Holds
<1> QED BY <1>1, <1>2, <1>3 DEF DelayStep

\* Nobody is woken before the delay is over or after it, but by being killed
\* (clkhandler.c:33, sleep.c:23).
THEOREM WokenOnTimeCorrect ==
  ASSUME 0 \notin Waits
  PROVE  TSpec => WokenOnTime
<1>1. TInv /\ [TNext]_tvars => [WokenInTime]_tvars
  <2> SUFFICES ASSUME TInv, [TNext]_tvars PROVE WokenInTime
    OBVIOUS
  <2> QED BY LeavesOnTime DEF WokenInTime, Asleep
<1> QED BY <1>1, TInvCorrect, PTL DEF TSpec, WokenOnTime
=============================================================================
