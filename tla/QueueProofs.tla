---------------------------- MODULE QueueProofs ----------------------------
(***************************************************************************)
(* What the queue operations of Queues do to the processes on a queue,     *)
(* proved for queues of any length: the lemmas on which the proofs about   *)
(* the kernel rest.  P is the set of process IDs.                          *)
(***************************************************************************)
EXTENDS Queues, SequenceTheorems, FiniteSetTheorems, WellFoundedInduction, TLAPS

EntriesOf(P) == [pid : P, key : Int]

\* q is a well-formed queue of the processes in M, each of them on it once.
Holds(q, P, M) ==
  /\ q \in Seq(EntriesOf(P))
  /\ Members(q) = M
  /\ NoDuplicates(q)

-----------------------------------------------------------------------------
(* Sequences                                                               *)

\* A non-empty set of natural numbers has a least element: the place where a
\* walk along a queue stops.
LEMMA LeastNat ==
  ASSUME NEW T \in SUBSET Nat, T # {}
  PROVE  \E x \in T : \A y \in T : x <= y
<1>1. PICK x \in T : \A y \in T : <<y, x>> \notin OpToRel(<, Nat)
  BY NatLessThanWellFounded, WFMin
<1>2. ASSUME NEW y \in T PROVE x <= y
  <2>1. <<y, x>> \in Nat \X Nat
    OBVIOUS
  <2>2. ~(y < x)
    BY <1>1, <2>1 DEF OpToRel
  <2> QED BY <2>2
<1> QED BY <1>2

\* InsertAt(q, k, e) is q with e at position k.
LEMMA InsertAtProperties ==
  ASSUME NEW S, NEW q \in Seq(S), NEW e \in S, NEW k \in 1..(Len(q) + 1)
  PROVE  /\ InsertAt(q, k, e) \in Seq(S)
         /\ Len(InsertAt(q, k, e)) = Len(q) + 1
         /\ \A i \in 1..(Len(q) + 1) :
              InsertAt(q, k, e)[i] =
                IF i < k THEN q[i] ELSE IF i = k THEN e ELSE q[i - 1]
<1> DEFINE a == SubSeq(q, 1, k - 1)
           b == SubSeq(q, k, Len(q))
<1>0. Len(q) \in Nat /\ \A i \in 1..Len(q) : q[i] \in S
  BY LenProperties, ElementOfSeq
<1>1. /\ a \in Seq(S) /\ Len(a) = k - 1
      /\ \A i \in 1..(k - 1) : a[i] = q[i]
  <2>1. \A i \in 1..(k - 1) : q[i] \in S
    BY <1>0
  <2> QED BY <1>0, <2>1, SubSeqProperties
<1>2. /\ b \in Seq(S) /\ Len(b) = Len(q) - k + 1
      /\ \A i \in 1..(Len(q) - k + 1) : b[i] = q[k + i - 1]
  <2>1. \A i \in k..Len(q) : q[i] \in S
    BY <1>0
  <2> QED BY <1>0, <2>1, SubSeqProperties
<1> DEFINE c == a \o <<e>>
<1> HIDE DEF a, b
<1>3. /\ <<e>> \in Seq(S) /\ Len(<<e>>) = 1 /\ <<e>>[1] = e
  OBVIOUS
<1>4. /\ c \in Seq(S) /\ Len(c) = k
      /\ \A i \in 1..k : c[i] = IF i < k THEN q[i] ELSE e
  <2>1. /\ c \in Seq(S)
        /\ Len(c) = Len(a) + Len(<<e>>)
        /\ \A i \in 1..(Len(a) + Len(<<e>>)) :
             c[i] = IF i <= Len(a) THEN a[i] ELSE <<e>>[i - Len(a)]
    BY <1>1, <1>3, ConcatProperties
  <2> HIDE DEF c
  <2>2. Len(c) = k
    BY <1>1, <1>3, <2>1
  <2>3. ASSUME NEW i \in 1..k
        PROVE  c[i] = IF i < k THEN q[i] ELSE e
    <3>1. c[i] = IF i <= Len(a) THEN a[i] ELSE <<e>>[i - Len(a)]
      BY <1>1, <1>3, <2>1
    <3>2. CASE i < k
      BY <1>0, <1>1, <3>1, <3>2
    <3>3. CASE i = k
      BY <1>0, <1>1, <1>3, <3>1, <3>3
    <3> QED BY <1>0, <3>2, <3>3
  <2> QED BY <2>1, <2>2, <2>3
<1> HIDE DEF c
<1>5. /\ c \o b \in Seq(S)
      /\ Len(c \o b) = Len(c) + Len(b)
      /\ \A i \in 1..(Len(c) + Len(b)) :
           (c \o b)[i] = IF i <= Len(c) THEN c[i] ELSE b[i - Len(c)]
  BY <1>2, <1>4, ConcatProperties
<1>6. InsertAt(q, k, e) = c \o b
  BY DEF InsertAt, a, b, c
<1> DEFINE r == c \o b
<1> HIDE DEF r
<1>7. r \in Seq(S) /\ Len(r) = Len(q) + 1
  BY <1>0, <1>2, <1>4, <1>5 DEF r
<1>8. ASSUME NEW i \in 1..(Len(q) + 1)
      PROVE  r[i] = IF i < k THEN q[i] ELSE IF i = k THEN e ELSE q[i - 1]
  <2>1. r[i] = IF i <= Len(c) THEN c[i] ELSE b[i - Len(c)]
    BY <1>0, <1>2, <1>4, <1>5 DEF r
  <2>2. CASE i <= k
    <3>1. i \in 1..k /\ i <= Len(c)
      BY <1>0, <1>4, <2>2
    <3>2. r[i] = c[i]
      BY <2>1, <3>1
    <3> QED BY <1>4, <3>1, <3>2
  <2>3. CASE i > k
    <3>1. i - k \in 1..(Len(q) - k + 1) /\ ~(i <= Len(c)) /\ i - Len(c) = i - k
      BY <1>0, <1>4, <2>3
    <3>2. r[i] = b[i - k]
      BY <2>1, <3>1
    <3>3. b[i - k] = q[k + (i - k) - 1]
      BY <1>2, <3>1
    <3>4. k + (i - k) - 1 = i - 1
      OBVIOUS
    <3> QED BY <2>3, <3>2, <3>3, <3>4
  <2> QED BY <2>2, <2>3
<1> QED BY <1>6, <1>7, <1>8 DEF r

\* RemoveAt(q, k) is q without its position k.
LEMMA RemoveAtProperties ==
  ASSUME NEW S, NEW q \in Seq(S), NEW k \in 1..Len(q)
  PROVE  /\ RemoveAt(q, k) \in Seq(S)
         /\ Len(RemoveAt(q, k)) = Len(q) - 1
         /\ \A i \in 1..(Len(q) - 1) :
              RemoveAt(q, k)[i] = IF i < k THEN q[i] ELSE q[i + 1]
<1> DEFINE a == SubSeq(q, 1, k - 1)
           b == SubSeq(q, k + 1, Len(q))
<1>0. Len(q) \in Nat /\ \A i \in 1..Len(q) : q[i] \in S
  BY LenProperties, ElementOfSeq
<1>1. /\ a \in Seq(S) /\ Len(a) = k - 1
      /\ \A i \in 1..(k - 1) : a[i] = q[i]
  <2>1. \A i \in 1..(k - 1) : q[i] \in S
    BY <1>0
  <2> QED BY <1>0, <2>1, SubSeqProperties
<1>2. /\ b \in Seq(S) /\ Len(b) = Len(q) - k
      /\ \A i \in 1..(Len(q) - k) : b[i] = q[k + i]
  <2>1. \A i \in (k + 1)..Len(q) : q[i] \in S
    BY <1>0
  <2> QED BY <1>0, <2>1, SubSeqProperties
<1> HIDE DEF a, b
<1>3. /\ a \o b \in Seq(S)
      /\ Len(a \o b) = Len(a) + Len(b)
      /\ \A i \in 1..(Len(a) + Len(b)) :
           (a \o b)[i] = IF i <= Len(a) THEN a[i] ELSE b[i - Len(a)]
  BY <1>1, <1>2, ConcatProperties
<1>4. RemoveAt(q, k) = a \o b
  BY DEF RemoveAt, a, b
<1> DEFINE r == a \o b
<1> HIDE DEF r
<1>5. r \in Seq(S) /\ Len(r) = Len(q) - 1
  BY <1>0, <1>1, <1>2, <1>3 DEF r
<1>6. ASSUME NEW i \in 1..(Len(q) - 1)
      PROVE  r[i] = IF i < k THEN q[i] ELSE q[i + 1]
  <2>1. r[i] = IF i <= Len(a) THEN a[i] ELSE b[i - Len(a)]
    BY <1>0, <1>1, <1>2, <1>3 DEF r
  <2>2. CASE i < k
    <3>1. i \in 1..(k - 1) /\ i <= Len(a)
      BY <1>0, <1>1, <2>2
    <3> QED BY <1>1, <2>1, <2>2, <3>1
  <2>3. CASE i >= k
    <3>1. /\ i - (k - 1) \in 1..(Len(q) - k)
          /\ ~(i <= Len(a))
          /\ i - Len(a) = i - (k - 1)
      BY <1>0, <1>1, <2>3
    <3>2. r[i] = b[i - (k - 1)]
      BY <2>1, <3>1
    <3>3. b[i - (k - 1)] = q[k + (i - (k - 1))]
      BY <1>2, <3>1
    <3>4. k + (i - (k - 1)) = i + 1
      OBVIOUS
    <3> QED BY <2>3, <3>2, <3>3, <3>4
  <2> QED BY <2>2, <2>3
<1> QED BY <1>4, <1>5, <1>6 DEF r

-----------------------------------------------------------------------------
(* Linking and unlinking one entry                                         *)

\* Linking a process that is not on the queue, at any position, adds it to the
\* processes on the queue and to nothing else.
LEMMA LinkHolds ==
  ASSUME NEW P, NEW M, NEW q, Holds(q, P, M),
         NEW p \in P, p \notin M, NEW key \in Int, NEW k \in 1..(Len(q) + 1)
  PROVE  /\ Holds(InsertAt(q, k, Entry(p, key)), P, M \cup {p})
         /\ InsertAt(q, k, Entry(p, key)) # <<>>
<1> DEFINE e == Entry(p, key)
           r == InsertAt(q, k, e)
<1>0. q \in Seq(EntriesOf(P)) /\ Len(q) \in Nat
  BY LenProperties DEF Holds
<1>1. e \in EntriesOf(P) /\ e.pid = p
  BY DEF Entry, EntriesOf
<1> HIDE DEF e
<1>2. /\ r \in Seq(EntriesOf(P))
      /\ Len(r) = Len(q) + 1
      /\ \A i \in 1..(Len(q) + 1) :
           r[i] = IF i < k THEN q[i] ELSE IF i = k THEN e ELSE q[i - 1]
  <2> DEFINE E == EntriesOf(P)
  <2>1. q \in Seq(E) /\ e \in E
    BY <1>0, <1>1
  <2> HIDE DEF E
  <2>2. /\ InsertAt(q, k, e) \in Seq(E)
        /\ Len(InsertAt(q, k, e)) = Len(q) + 1
        /\ \A i \in 1..(Len(q) + 1) :
             InsertAt(q, k, e)[i] =
               IF i < k THEN q[i] ELSE IF i = k THEN e ELSE q[i - 1]
    BY <2>1, InsertAtProperties
  <2> QED BY <2>2 DEF E, r
<1> HIDE DEF r
<1>3. \A i \in 1..Len(q) : q[i].pid \in M
  BY DEF Holds, Members
<1>4. Members(r) \subseteq M \cup {p}
  <2> SUFFICES ASSUME NEW i \in 1..Len(r) PROVE r[i].pid \in M \cup {p}
    BY DEF Members
  <2>1. CASE i < k
    BY <1>0, <1>2, <1>3, <2>1
  <2>2. CASE i = k
    BY <1>0, <1>1, <1>2, <2>2
  <2>3. CASE i > k
    <3>1. i - 1 \in 1..Len(q) /\ r[i] = q[i - 1]
      BY <1>0, <1>2, <2>3
    <3> QED BY <1>3, <3>1
  <2> QED BY <2>1, <2>2, <2>3
<1>5. M \cup {p} \subseteq Members(r)
  <2>1. p \in Members(r)
    <3>1. k \in 1..Len(r) /\ r[k].pid = p
      BY <1>0, <1>1, <1>2
    <3> QED BY <3>1 DEF Members
  <2>2. ASSUME NEW m \in M PROVE m \in Members(r)
    <3>1. PICK i \in 1..Len(q) : q[i].pid = m
      BY DEF Holds, Members
    <3>2. CASE i < k
      <4>1. i \in 1..Len(r) /\ r[i].pid = m
        BY <1>0, <1>2, <3>1, <3>2
      <4> QED BY <4>1 DEF Members
    <3>3. CASE i >= k
      <4>1. i + 1 \in 1..Len(r) /\ r[i + 1] = q[(i + 1) - 1]
        BY <1>0, <1>2, <3>3
      <4>2. r[i + 1].pid = m
        BY <3>1, <4>1
      <4> QED BY <4>1, <4>2 DEF Members
    <3> QED BY <3>2, <3>3
  <2> QED BY <2>1, <2>2
<1>6. NoDuplicates(r)
  <2> DEFINE at(i) == IF i < k THEN i ELSE i - 1
  <2>1. ASSUME NEW i \in 1..Len(r), i # k
        PROVE  at(i) \in 1..Len(q) /\ r[i] = q[at(i)]
    BY <1>0, <1>2, <2>1
  <2>2. ASSUME NEW i \in 1..Len(r), NEW j \in 1..Len(r), r[i].pid = r[j].pid
        PROVE  i = j
    <3>1. CASE i = k /\ j = k
      BY <3>1
    <3>2. CASE i = k /\ j # k
      BY <1>0, <1>1, <1>2, <1>3, <2>1, <2>2, <3>2
    <3>3. CASE i # k /\ j = k
      BY <1>0, <1>1, <1>2, <1>3, <2>1, <2>2, <3>3
    <3>4. CASE i # k /\ j # k
      <4>0. /\ at(i) \in 1..Len(q) /\ at(j) \in 1..Len(q)
            /\ q[at(i)].pid = q[at(j)].pid
        BY <2>1, <2>2, <3>4
      <4>1. at(i) = at(j)
        BY <4>0, Zenon DEF Holds, NoDuplicates
      <4>2. i \in Int /\ j \in Int /\ k \in Int
        BY <1>0, <1>2
      <4>3. CASE i < k
        BY <3>4, <4>1, <4>2, <4>3
      <4>4. CASE i > k
        BY <3>4, <4>1, <4>2, <4>4
      <4> QED BY <3>4, <4>2, <4>3, <4>4
    <3> QED BY <3>1, <3>2, <3>3, <3>4
  <2> QED BY <2>2 DEF NoDuplicates
<1>7. r # <<>>
  BY <1>0, <1>2
<1> QED BY <1>2, <1>4, <1>5, <1>6, <1>7 DEF Holds, e, r

\* Unlinking the entry of a process takes that process, and no other, off the
\* queue: it has no second entry.
LEMMA UnlinkHolds ==
  ASSUME NEW P, NEW M, NEW q, Holds(q, P, M), NEW k \in 1..Len(q)
  PROVE  Holds(RemoveAt(q, k), P, M \ {q[k].pid})
<1> DEFINE r == RemoveAt(q, k)
           p == q[k].pid
<1>0. q \in Seq(EntriesOf(P)) /\ Len(q) \in Nat
  BY LenProperties DEF Holds
<1>1. /\ r \in Seq(EntriesOf(P))
      /\ Len(r) = Len(q) - 1
      /\ \A i \in 1..(Len(q) - 1) : r[i] = IF i < k THEN q[i] ELSE q[i + 1]
  BY <1>0, RemoveAtProperties
<1> HIDE DEF r
<1> DEFINE at(i) == IF i < k THEN i ELSE i + 1
<1>2. ASSUME NEW i \in 1..Len(r)
      PROVE  at(i) \in 1..Len(q) /\ at(i) # k /\ r[i] = q[at(i)]
  BY <1>0, <1>1
<1>3. \A i, j \in 1..Len(q) : q[i].pid = q[j].pid => i = j
  BY DEF Holds, NoDuplicates
<1>4. Members(r) \subseteq M \ {p}
  <2> SUFFICES ASSUME NEW i \in 1..Len(r) PROVE r[i].pid \in M \ {p}
    BY DEF Members
  <2>1. q[at(i)].pid \in M
    BY <1>2 DEF Holds, Members
  <2>2. q[at(i)].pid # p
    BY <1>2, <1>3
  <2> QED BY <1>2, <2>1, <2>2
<1>5. M \ {p} \subseteq Members(r)
  <2> SUFFICES ASSUME NEW m \in M \ {p} PROVE m \in Members(r)
    OBVIOUS
  <2>1. PICK i \in 1..Len(q) : q[i].pid = m
    BY DEF Holds, Members
  <2>2. CASE i < k
    <3>1. i \in 1..Len(r) /\ r[i].pid = m
      BY <1>0, <1>1, <2>1, <2>2
    <3> QED BY <3>1 DEF Members
  <2>3. CASE i > k
    <3>1. i - 1 \in 1..Len(r) /\ r[i - 1] = q[(i - 1) + 1]
      BY <1>0, <1>1, <2>3
    <3>2. r[i - 1].pid = m
      BY <2>1, <3>1
    <3> QED BY <3>1, <3>2 DEF Members
  <2>4. i # k
    BY <2>1
  <2> QED BY <2>2, <2>3, <2>4
<1>6. NoDuplicates(r)
  <2>1. ASSUME NEW i \in 1..Len(r), NEW j \in 1..Len(r), r[i].pid = r[j].pid
        PROVE  i = j
    <3>1. at(i) = at(j)
      BY <1>2, <1>3, <2>1
    <3> QED BY <1>0, <1>1, <3>1
  <2> QED BY <2>1 DEF NoDuplicates
<1> QED BY <1>1, <1>4, <1>5, <1>6 DEF Holds, r

\* Changing the key of an entry moves no process.
LEMMA RekeyHolds ==
  ASSUME NEW P, NEW M, NEW q, Holds(q, P, M), NEW k \in 1..Len(q), NEW n \in Int
  PROVE  /\ Holds([q EXCEPT ![k].key = n], P, M)
         /\ Len([q EXCEPT ![k].key = n]) = Len(q)
         /\ [q EXCEPT ![k].key = n][k].pid = q[k].pid
         /\ \A i \in 1..Len(q) : [q EXCEPT ![k].key = n][i].pid = q[i].pid
<1> DEFINE e == [q[k] EXCEPT !.key = n]
           r == [q EXCEPT ![k] = e]
<1>0. q \in Seq(EntriesOf(P)) /\ Len(q) \in Nat /\ q[k] \in EntriesOf(P)
  BY LenProperties, ElementOfSeq DEF Holds
<1>1. e \in EntriesOf(P) /\ e.pid = q[k].pid
  BY <1>0 DEF EntriesOf
<1>2. [q EXCEPT ![k].key = n] = r
  OBVIOUS
<1> HIDE DEF e
<1>3. /\ r \in Seq(EntriesOf(P))
      /\ Len(r) = Len(q)
      /\ \A i \in 1..Len(q) : r[i] = IF i = k THEN e ELSE q[i]
  BY <1>0, <1>1, ExceptSeq
<1> HIDE DEF r
<1>4. \A i \in 1..Len(q) : r[i].pid = q[i].pid
  BY <1>1, <1>3
<1>5. Members(r) = M
  BY <1>3, <1>4 DEF Holds, Members
<1>6. NoDuplicates(r)
  BY <1>3, <1>4 DEF Holds, NoDuplicates
<1>7. Holds(r, P, M)
  BY <1>3, <1>5, <1>6 DEF Holds
<1> QED BY <1>2, <1>3, <1>4, <1>7

-----------------------------------------------------------------------------
(* The operations                                                          *)

\* insert() finds the place on the ready list, wherever the keys put it: behind
\* the keys that are as large and before a smaller one.
LEMMA InsertPosInRange ==
  ASSUME NEW q, Len(q) \in Nat, NEW key \in Int,
         \A i \in 1..Len(q) : q[i].key \in Int
  PROVE  /\ InsertPos(q, key) \in 1..(Len(q) + 1)
         /\ \A i \in 1..(InsertPos(q, key) - 1) : q[i].key >= key
         /\ InsertPos(q, key) <= Len(q) => q[InsertPos(q, key)].key < key
<1> DEFINE T == {k \in 1..(Len(q) + 1) : k <= Len(q) => q[k].key < key}
           Here(j) == /\ \A i \in 1..(j - 1) : q[i].key >= key
                      /\ j <= Len(q) => q[j].key < key
<1>1. T \in SUBSET Nat /\ Len(q) + 1 \in T
  OBVIOUS
<1>2. PICK k \in T : \A j \in T : k <= j
  BY <1>1, LeastNat
<1>3. \A i \in 1..(k - 1) : q[i].key >= key
  <2> SUFFICES ASSUME NEW i \in 1..(k - 1), q[i].key < key PROVE FALSE
    OBVIOUS
  <2>1. i \in T
    OBVIOUS
  <2> QED BY <1>2, <2>1
<1>4. \E j \in 1..(Len(q) + 1) : Here(j)
  BY <1>3
<1>5. InsertPos(q, key) = CHOOSE j \in 1..(Len(q) + 1) : Here(j)
  BY DEF InsertPos
<1>6. InsertPos(q, key) \in 1..(Len(q) + 1) /\ Here(InsertPos(q, key))
  <2> HIDE DEF Here
  <2> QED BY <1>4, <1>5
<1> QED BY <1>6

\* insert() links one more process into the ready list and loses none.
LEMMA InsertHolds ==
  ASSUME NEW P, NEW M, NEW q, Holds(q, P, M),
         NEW p \in P, p \notin M, NEW key \in Int
  PROVE  Holds(insert(q, p, key), P, M \cup {p}) /\ insert(q, p, key) # <<>>
<1>1. Len(q) \in Nat /\ \A i \in 1..Len(q) : q[i].key \in Int
  <2>1. \A i \in 1..Len(q) : q[i] \in EntriesOf(P)
    BY ElementOfSeq DEF Holds
  <2> QED BY <2>1, LenProperties DEF Holds, EntriesOf
<1>2. InsertPos(q, key) \in 1..(Len(q) + 1)
  BY <1>1, InsertPosInRange
<1> QED BY <1>2, LinkHolds DEF insert

\* enqueue() does the same for the FIFO queue of a semaphore.
LEMMA EnqueueHolds ==
  ASSUME NEW P, NEW M, NEW q, Holds(q, P, M), NEW p \in P, p \notin M
  PROVE  Holds(enqueue(q, p), P, M \cup {p})
<1> DEFINE e == Entry(p, 0)
           r == Append(q, e)
<1>0. q \in Seq(EntriesOf(P)) /\ Len(q) \in Nat
  BY LenProperties DEF Holds
<1>1. e \in EntriesOf(P) /\ e.pid = p
  BY DEF Entry, EntriesOf
<1> HIDE DEF e
<1>2. /\ r \in Seq(EntriesOf(P))
      /\ Len(r) = Len(q) + 1
      /\ \A i \in 1..Len(q) : r[i] = q[i]
      /\ r[Len(q) + 1] = e
  BY ONLY <1>0, <1>1, AppendProperties DEF r
<1> HIDE DEF r
<1>3. \A i \in 1..Len(q) : q[i].pid \in M
  BY DEF Holds, Members
<1>4. Members(r) = M \cup {p}
  <2>1. \A i \in 1..Len(r) : r[i].pid \in M \cup {p}
    BY <1>0, <1>1, <1>2, <1>3
  <2>2. p \in Members(r)
    <3>1. Len(q) + 1 \in 1..Len(r) /\ r[Len(q) + 1].pid = p
      BY <1>0, <1>1, <1>2
    <3> QED BY <3>1 DEF Members
  <2>3. ASSUME NEW m \in M PROVE m \in Members(r)
    <3>1. PICK i \in 1..Len(q) : q[i].pid = m
      BY DEF Holds, Members
    <3>2. i \in 1..Len(r) /\ r[i].pid = m
      BY <1>0, <1>2, <3>1
    <3> QED BY <3>2 DEF Members
  <2> QED BY <2>1, <2>2, <2>3 DEF Members
<1>5. NoDuplicates(r)
  <2>1. ASSUME NEW i \in 1..Len(r), NEW j \in 1..Len(r), r[i].pid = r[j].pid
        PROVE  i = j
    <3>1. CASE i <= Len(q) /\ j <= Len(q)
      BY <1>0, <1>2, <2>1, <3>1 DEF Holds, NoDuplicates
    <3>2. CASE ~(i <= Len(q) /\ j <= Len(q))
      BY <1>0, <1>1, <1>2, <1>3, <2>1, <3>2
    <3> QED BY <3>1, <3>2
  <2> QED BY <2>1 DEF NoDuplicates
<1> QED BY <1>2, <1>4, <1>5 DEF Holds, enqueue, e, r

\* dequeue() takes off the first process.
LEMMA DequeueHolds ==
  ASSUME NEW P, NEW M, NEW q, Holds(q, P, M), q # <<>>
  PROVE  first(q) \in M /\ first(q) \in P /\ Holds(rest(q), P, M \ {first(q)})
<1>0. q \in Seq(EntriesOf(P)) /\ Len(q) \in Nat /\ 1 \in 1..Len(q)
  BY EmptySeq, LenProperties DEF Holds
<1>1. q[1] \in EntriesOf(P)
  BY <1>0, ElementOfSeq
<1>2. first(q) \in M /\ first(q) \in P
  BY <1>0, <1>1 DEF Holds, Members, first, EntriesOf
<1>3. Holds(RemoveAt(q, 1), P, M \ {first(q)})
  BY <1>0, UnlinkHolds DEF first
<1>4. rest(q) = RemoveAt(q, 1)
  <2>1. /\ Tail(q) \in Seq(EntriesOf(P))
        /\ Len(Tail(q)) = Len(q) - 1
        /\ \A i \in 1..Len(Tail(q)) : Tail(q)[i] = q[i + 1]
    BY <1>0, HeadTailProperties
  <2>2. /\ RemoveAt(q, 1) \in Seq(EntriesOf(P))
        /\ Len(RemoveAt(q, 1)) = Len(q) - 1
        /\ \A i \in 1..(Len(q) - 1) :
             RemoveAt(q, 1)[i] = IF i < 1 THEN q[i] ELSE q[i + 1]
    BY ONLY <1>0, RemoveAtProperties
  <2>3. \A i \in 1..Len(Tail(q)) : Tail(q)[i] = RemoveAt(q, 1)[i]
    BY <1>0, <2>1, <2>2
  <2>4. Len(Tail(q)) = Len(RemoveAt(q, 1))
    BY <2>1, <2>2
  <2> QED BY ONLY <2>1, <2>2, <2>3, <2>4, SeqEqual DEF rest
<1> QED BY <1>2, <1>3, <1>4

\* getitem() and unsleep() find the process they are to take off, if it is on
\* the queue.
LEMMA PositionFound ==
  ASSUME NEW P, NEW M, NEW q, Holds(q, P, M), NEW p \in M
  PROVE  Position(q, p) \in 1..Len(q) /\ q[Position(q, p)].pid = p
<1>1. \E i \in 1..Len(q) : q[i].pid = p
  BY DEF Holds, Members
<1> QED BY <1>1 DEF Position

\* getitem() takes a process off a list of semaphore or ready processes.
LEMMA GetitemHolds ==
  ASSUME NEW P, NEW M, NEW q, Holds(q, P, M), NEW p \in M
  PROVE  Holds(getitem(q, p), P, M \ {p})
BY PositionFound, UnlinkHolds DEF getitem

\* unsleep() takes a process off the delta list.
LEMMA UnsleepHolds ==
  ASSUME NEW P, NEW M, NEW q, Holds(q, P, M), NEW p \in M
  PROVE  Holds(unsleep(q, p), P, M \ {p})
<1> DEFINE i == Position(q, p)
           n == q[i + 1].key + q[i].key
           r == IF i < Len(q) THEN [q EXCEPT ![i + 1].key = n] ELSE q
<1>0. Len(q) \in Nat /\ \A k \in 1..Len(q) : q[k].key \in Int
  <2>1. \A k \in 1..Len(q) : q[k] \in EntriesOf(P)
    BY ElementOfSeq DEF Holds
  <2> QED BY <2>1, LenProperties DEF Holds, EntriesOf
<1>1. i \in 1..Len(q) /\ q[i].pid = p
  BY PositionFound
<1> HIDE DEF i
<1>2. Holds(r, P, M) /\ i \in 1..Len(r) /\ r[i].pid = p
  <2>1. CASE i < Len(q)
    <3>1. i + 1 \in 1..Len(q) /\ n \in Int
      BY <1>0, <1>1, <2>1
    <3> HIDE DEF n
    <3> QED BY <1>1, <2>1, <3>1, RekeyHolds
  <2>2. CASE ~(i < Len(q))
    BY <1>1, <2>2
  <2> QED BY <2>1, <2>2
<1>3. unsleep(q, p) = RemoveAt(r, i)
  BY DEF unsleep, i
<1> HIDE DEF r
<1>4. Holds(RemoveAt(r, i), P, M \ {r[i].pid})
  BY <1>2, UnlinkHolds
<1> QED BY <1>2, <1>3, <1>4

\* The recursion of Remaining has a solution for queues of any length: were
\* there a shortest prefix without one, the solution for the prefix that is
\* one entry shorter could be extended to it.
RemainingOf(q, delay, n, f) ==
  f = [i \in 0..n |-> IF i = 0 THEN delay ELSE f[i - 1] - q[i].key]

\* The remaining delays along a delta list are a function of its positions.
LEMMA RemainingExists ==
  ASSUME NEW q, Len(q) \in Nat, NEW delay
  PROVE  \E f : RemainingOf(q, delay, Len(q), f)
<1> DEFINE T == {n \in 0..Len(q) : ~ \E f : RemainingOf(q, delay, n, f)}
<1> SUFFICES ASSUME T # {} PROVE FALSE
  <2>1. Len(q) \notin T => \E f : RemainingOf(q, delay, Len(q), f)
    OBVIOUS
  <2> QED BY <2>1
<1>1. T \in SUBSET Nat
  OBVIOUS
<1>2. PICK n \in T : \A m \in T : n <= m
  BY <1>1, LeastNat
<1>3. CASE n = 0
  <2> DEFINE f == [i \in 0..0 |-> delay]
  <2>1. f = [i \in 0..0 |-> IF i = 0 THEN delay ELSE f[i - 1] - q[i].key]
    OBVIOUS
  <2>2. RemainingOf(q, delay, n, f)
    BY <1>3, <2>1 DEF RemainingOf
  <2> QED BY <2>2
<1>4. CASE n > 0
  <2>1. n - 1 \in 0..Len(q) /\ n - 1 \notin T
    BY <1>2, <1>4
  <2>2. PICK f : RemainingOf(q, delay, n - 1, f)
    BY <2>1
  <2>3. /\ f = [i \in 0..(n - 1) |-> IF i = 0 THEN delay ELSE f[i - 1] - q[i].key]
        /\ \A i \in 0..(n - 1) : f[i] = IF i = 0 THEN delay ELSE f[i - 1] - q[i].key
    BY <2>2 DEF RemainingOf
  <2> DEFINE g == [i \in 0..n |-> IF i < n THEN f[i] ELSE f[n - 1] - q[n].key]
             h == [i \in 0..n |-> IF i = 0 THEN delay ELSE g[i - 1] - q[i].key]
  <2>4. ASSUME NEW i \in 0..n PROVE g[i] = h[i]
    <3>1. CASE i = 0
      BY <1>4, <2>3, <3>1
    <3>2. CASE i > 0 /\ i < n
      <4>1. g[i] = f[i] /\ g[i - 1] = f[i - 1]
        BY <3>2
      <4>2. i \in 0..(n - 1)
        BY <3>2
      <4>3. f[i] = f[i - 1] - q[i].key
        BY <2>3, <3>2, <4>2
      <4> QED BY <3>2, <4>1, <4>3
    <3>3. CASE i = n
      BY <1>4, <3>3
    <3> QED BY <3>1, <3>2, <3>3
  <2>5. g = h
    BY <2>4
  <2>6. RemainingOf(q, delay, n, g)
    BY <2>5 DEF RemainingOf
  <2> QED BY <2>6
<1> QED BY <1>2, <1>3, <1>4

\* The recursion of Remaining, unfolded once.
LEMMA RemainingStep ==
  ASSUME NEW q, Len(q) \in Nat, NEW delay
  PROVE  \A i \in 0..Len(q) :
           Remaining(q, delay)[i] =
             IF i = 0 THEN delay ELSE Remaining(q, delay)[i - 1] - q[i].key
<1> DEFINE f == Remaining(q, delay)
<1>1. RemainingOf(q, delay, Len(q), f)
  <2>1. f = CHOOSE g : RemainingOf(q, delay, Len(q), g)
    BY Zenon DEF Remaining, RemainingOf
  <2>2. \E g : RemainingOf(q, delay, Len(q), g)
    BY RemainingExists
  <2> HIDE DEF f
  <2> QED BY <2>1, <2>2
<1> HIDE DEF f
<1>2. \A i \in 0..Len(q) : f[i] = IF i = 0 THEN delay ELSE f[i - 1] - q[i].key
  BY <1>1 DEF RemainingOf
<1> QED BY <1>2 DEF f

\* What remains of a delay is an integer.
LEMMA RemainingType ==
  ASSUME NEW q, Len(q) \in Nat, NEW delay \in Int,
         \A i \in 1..Len(q) : q[i].key \in Int
  PROVE  \A i \in 0..Len(q) : Remaining(q, delay)[i] \in Int
<1> DEFINE f == Remaining(q, delay)
<1>2. \A i \in 0..Len(q) : f[i] = IF i = 0 THEN delay ELSE f[i - 1] - q[i].key
  BY RemainingStep
<1> HIDE DEF f
<1> DEFINE T == {n \in 0..Len(q) : f[n] \notin Int}
<1>3. T = {}
  <2> SUFFICES ASSUME T # {} PROVE FALSE
    OBVIOUS
  <2>1. PICK n \in T : \A m \in T : n <= m
    <3>1. T \in SUBSET Nat
      OBVIOUS
    <3> QED BY <3>1, LeastNat
  <2>2. n # 0
    BY <1>2
  <2>3. n - 1 \in 0..Len(q) /\ n - 1 \notin T
    BY <2>1, <2>2
  <2>4. f[n - 1] \in Int /\ q[n].key \in Int
    BY <2>2, <2>3
  <2>5. f[n] = f[n - 1] - q[n].key
    BY <1>2, <2>2
  <2> QED BY <2>4, <2>5
<1> QED BY <1>3 DEF f

\* insertd() stops at the first entry whose key is above what remains.
LEMMA PassedStops ==
  ASSUME NEW q, Len(q) \in Nat, NEW left,
         \A i \in 1..Len(q) : q[i].key \in Int,
         \A i \in 0..Len(q) : left[i] \in Int
  PROVE  /\ Passed(q, left) \in 0..Len(q)
         /\ \A i \in 1..Passed(q, left) : q[i].key <= left[i - 1]
         /\ Passed(q, left) < Len(q) => q[Passed(q, left) + 1].key > left[Passed(q, left)]
<1> DEFINE T == {k \in 0..Len(q) : k < Len(q) => q[k + 1].key > left[k]}
<1>1. T \in SUBSET Nat /\ Len(q) \in T
  OBVIOUS
<1>2. PICK k \in T : \A j \in T : k <= j
  BY <1>1, LeastNat
<1>3. \A i \in 1..k : q[i].key <= left[i - 1]
  <2> SUFFICES ASSUME NEW i \in 1..k, ~(q[i].key <= left[i - 1]) PROVE FALSE
    OBVIOUS
  <2>1. /\ i - 1 \in 0..Len(q) /\ (i - 1) + 1 = i
        /\ q[i].key \in Int /\ left[i - 1] \in Int
    OBVIOUS
  <2>2. i - 1 \in T
    BY <2>1
  <2> QED BY <1>2, <2>2
<1>4. \E j \in 0..Len(q) :
        /\ \A i \in 1..j : q[i].key <= left[i - 1]
        /\ j < Len(q) => q[j + 1].key > left[j]
  BY <1>3
<1> QED BY <1>4 DEF Passed

\* insertd() links one more process into the delta list and loses none.
LEMMA InsertdHolds ==
  ASSUME NEW P, NEW M, NEW q, Holds(q, P, M),
         NEW p \in P, p \notin M, NEW delay \in Int
  PROVE  Holds(insertd(q, p, delay), P, M \cup {p})
<1> DEFINE left == Remaining(q, delay)
           k == Passed(q, left)
           n == q[k + 1].key - left[k]
           r == IF k < Len(q) THEN [q EXCEPT ![k + 1].key = n] ELSE q
<1>0. Len(q) \in Nat /\ \A i \in 1..Len(q) : q[i].key \in Int
  <2>1. \A i \in 1..Len(q) : q[i] \in EntriesOf(P)
    BY ElementOfSeq DEF Holds
  <2> QED BY <2>1, LenProperties DEF Holds, EntriesOf
<1>1. \A i \in 0..Len(q) : left[i] \in Int
  BY <1>0, RemainingType
<1> HIDE DEF left
<1>2. k \in 0..Len(q)
  BY <1>0, <1>1, PassedStops
<1> HIDE DEF k
<1>3. Holds(r, P, M) /\ Len(r) = Len(q)
  <2>1. CASE k < Len(q)
    <3>1. k + 1 \in 1..Len(q) /\ n \in Int
      BY <1>0, <1>1, <1>2, <2>1
    <3> HIDE DEF n
    <3> QED BY <2>1, <3>1, RekeyHolds
  <2> QED BY <2>1
<1>4. insertd(q, p, delay) = InsertAt(r, k + 1, Entry(p, left[k]))
  BY DEF insertd, left, k
<1> HIDE DEF r
<1>5. k + 1 \in 1..(Len(r) + 1) /\ left[k] \in Int
  BY <1>0, <1>1, <1>2, <1>3
<1> QED BY <1>3, <1>4, <1>5, LinkHolds

-----------------------------------------------------------------------------
(* Lists: sequences without duplicates                                     *)

\* q is a list of the elements of M, which are in S, each of them on it once.
Lists(q, S, M) ==
  /\ q \in Seq(S)
  /\ IsInjective(q)
  /\ Range(q) = M

LEMMA ListFacts ==
  ASSUME NEW S, NEW M, NEW q, Lists(q, S, M)
  PROVE  /\ Len(q) \in Nat /\ DOMAIN q = 1..Len(q)
         /\ \A i \in 1..Len(q) : q[i] \in S /\ q[i] \in M
         /\ \A i, j \in 1..Len(q) : q[i] = q[j] => i = j
         /\ \A x \in M : \E i \in 1..Len(q) : q[i] = x
         /\ M \subseteq S
         /\ q = <<>> <=> Len(q) = 0
         /\ q = <<>> <=> M = {}
<1>1. Len(q) \in Nat /\ DOMAIN q = 1..Len(q) /\ \A i \in 1..Len(q) : q[i] \in S
  BY LenProperties, ElementOfSeq DEF Lists
<1>2. q = <<>> <=> Len(q) = 0
  BY EmptySeq DEF Lists
<1>3. M = {q[i] : i \in 1..Len(q)}
  BY <1>1 DEF Lists, Range
<1>4. \A i, j \in 1..Len(q) : q[i] = q[j] => i = j
  BY <1>1 DEF Lists, IsInjective
<1>5. Len(q) # 0 => 1 \in 1..Len(q)
  BY <1>1
<1>6. \A i \in 1..Len(q) : q[i] \in M
  BY <1>3
<1>7. \A x \in M : \E i \in 1..Len(q) : q[i] = x
  BY <1>3
<1>8. M \subseteq S
  BY <1>1, <1>7
<1>9. Len(q) = 0 => M = {}
  BY <1>1, <1>7
<1>10. M = {} => Len(q) = 0
  BY <1>5, <1>6
<1> HIDE DEF Lists
<1> QED BY <1>1, <1>2, <1>4, <1>6, <1>7, <1>8, <1>9, <1>10

LEMMA ListIntro ==
  ASSUME NEW S, NEW M, NEW q \in Seq(S),
         \A i, j \in 1..Len(q) : q[i] = q[j] => i = j,
         \A x : x \in M <=> \E i \in 1..Len(q) : q[i] = x
  PROVE  Lists(q, S, M)
<1>1. DOMAIN q = 1..Len(q)
  BY LenProperties
<1>2. Range(q) = M
  BY <1>1 DEF Range
<1> QED BY <1>1, <1>2 DEF Lists, IsInjective

LEMMA ListEmpty == ASSUME NEW S PROVE Lists(<<>>, S, {}) /\ Len(<<>>) = 0
<1> DEFINE q == <<>>
<1>1. q \in Seq(S) /\ Len(q) = 0
  BY EmptySeq
<1> HIDE DEF q
<1>2. 1..Len(q) = {}
  BY <1>1
<1>3. Lists(q, S, {})
  BY <1>1, <1>2, ListIntro, Zenon
<1> QED BY <1>1, <1>3 DEF q

LEMMA ListAppend ==
  ASSUME NEW S, NEW M, NEW q, Lists(q, S, M), NEW x \in S, x \notin M
  PROVE  Lists(Append(q, x), S, M \cup {x}) /\ Len(Append(q, x)) = Len(q) + 1
<1> DEFINE r == Append(q, x)
           n == Len(q) + 1
<1>1. /\ Len(q) \in Nat
      /\ \A i \in 1..Len(q) : q[i] \in M
      /\ \A i, j \in 1..Len(q) : q[i] = q[j] => i = j
      /\ \A y \in M : \E i \in 1..Len(q) : q[i] = y
  BY ListFacts
<1>2. r \in Seq(S) /\ Len(r) = n /\ (\A i \in 1..Len(q) : r[i] = q[i]) /\ r[n] = x
  BY AppendProperties DEF Lists
<1> HIDE DEF r
<1>3. \A i \in 1..n : i = n \/ i \in 1..Len(q)
  BY <1>1
<1>4. 1..Len(q) \subseteq 1..n /\ n \in 1..n
  BY <1>1
<1> HIDE DEF n
<1>5. \A i, j \in 1..n : r[i] = r[j] => i = j
  BY <1>1, <1>2, <1>3
<1>6. ASSUME NEW y PROVE y \in M \cup {x} <=> \E i \in 1..n : r[i] = y
  BY <1>1, <1>2, <1>3, <1>4
<1>7. Lists(r, S, M \cup {x})
  BY <1>2, <1>5, <1>6, ListIntro
<1> QED BY <1>2, <1>7 DEF r, n

LEMMA ListTail ==
  ASSUME NEW S, NEW M, NEW q, Lists(q, S, M), q # <<>>
  PROVE  /\ Head(q) \in M
         /\ Lists(Tail(q), S, M \ {Head(q)})
         /\ Len(Tail(q)) = Len(q) - 1
<1> DEFINE r == Tail(q)
           h == q[1]
<1>1. /\ Len(q) \in Nat /\ Len(q) # 0
      /\ \A i \in 1..Len(q) : q[i] \in M
      /\ \A i, j \in 1..Len(q) : q[i] = q[j] => i = j
      /\ \A y \in M : \E i \in 1..Len(q) : q[i] = y
  BY ListFacts
<1>2. r \in Seq(S) /\ Len(r) = Len(q) - 1 /\ \A i \in 1..Len(r) : r[i] = q[i + 1]
  BY HeadTailProperties DEF Lists
<1>3. Head(q) = h
  OBVIOUS
<1> HIDE DEF r, h
<1>4. 1 \in 1..Len(q) /\ (\A i \in 1..Len(r) : i + 1 \in 1..Len(q))
  BY <1>1, <1>2
<1>5. ASSUME NEW i \in 1..Len(r), NEW j \in 1..Len(r), r[i] = r[j] PROVE i = j
  <2>1. q[i + 1] = q[j + 1] /\ i + 1 \in 1..Len(q) /\ j + 1 \in 1..Len(q)
    BY <1>2, <1>4, <1>5
  <2>2. i + 1 = j + 1
    BY <1>1, <2>1
  <2> QED BY <2>2
<1>6. ASSUME NEW y PROVE y \in M \ {h} <=> \E i \in 1..Len(r) : r[i] = y
  <2>1. ASSUME y \in M \ {h} PROVE \E i \in 1..Len(r) : r[i] = y
    <3>1. PICK i \in 1..Len(q) : q[i] = y
      BY <1>1, <2>1
    <3>2. i # 1
      BY <2>1, <3>1 DEF h
    <3>3. i - 1 \in 1..Len(r) /\ (i - 1) + 1 = i
      BY <1>1, <1>2, <3>1, <3>2
    <3> QED BY <1>2, <3>1, <3>3
  <2>2. ASSUME NEW i \in 1..Len(r), r[i] = y PROVE y \in M \ {h}
    <3>1. i + 1 \in 1..Len(q) /\ i + 1 # 1 /\ q[i + 1] = y
      BY <1>2, <1>4, <2>2
    <3> QED BY <1>1, <1>4, <3>1 DEF h
  <2> QED BY <2>1, <2>2
<1>7. Lists(r, S, M \ {h})
  BY <1>2, <1>5, <1>6, ListIntro
<1>8. h \in M
  BY <1>1, <1>4 DEF h
<1> QED BY <1>2, <1>3, <1>7, <1>8 DEF r

LEMMA ListCardinality ==
  ASSUME NEW S, NEW M, NEW q, Lists(q, S, M)
  PROVE  IsFiniteSet(M) /\ Cardinality(M) = Len(q)
<1>1. /\ Len(q) \in Nat
      /\ \A i \in 1..Len(q) : q[i] \in M
      /\ \A i, j \in 1..Len(q) : q[i] = q[j] => i = j
      /\ \A y \in M : \E i \in 1..Len(q) : q[i] = y
      /\ DOMAIN q = 1..Len(q)
  BY ListFacts
<1>2. q \in [1..Len(q) -> M]
  <2>1. q \in [1..Len(q) -> S]
    BY LenProperties DEF Lists
  <2> QED BY <1>1, <2>1
<1>3. q \in Bijection(1..Len(q), M)
  BY <1>1, <1>2 DEF Bijection, Injection, Surjection, IsInjective
<1>4. ExistsBijection(1..Len(q), M)
  BY <1>3 DEF ExistsBijection
<1>5. IsFiniteSet(1..Len(q)) /\ Cardinality(1..Len(q)) = Len(q)
  <2>1. Len(q) \in Int /\ 1 \in Int
    BY <1>1
  <2>2. Cardinality(1..Len(q)) = IF 1 > Len(q) THEN 0 ELSE Len(q) - 1 + 1
    BY <2>1, FS_Interval
  <2>3. IsFiniteSet(1..Len(q))
    BY <2>1, FS_Interval
  <2> QED BY <1>1, <2>2, <2>3
<1> QED BY <1>4, <1>5, FS_Bijection

\* RemoveAt(): one entry goes, the others stay in their order.
LEMMA ListRemoved ==
  ASSUME NEW S, NEW M, NEW q, Lists(q, S, M), NEW k \in 1..Len(q)
  PROVE  /\ q[k] \in M /\ Lists(RemoveAt(q, k), S, M \ {q[k]})
         /\ Len(RemoveAt(q, k)) = Len(q) - 1
<1> DEFINE r == RemoveAt(q, k)
           x == q[k]
<1>1. /\ Len(q) \in Nat /\ \A i \in 1..Len(q) : q[i] \in M
      /\ \A i, j \in 1..Len(q) : q[i] = q[j] => i = j
      /\ \A y \in M : \E i \in 1..Len(q) : q[i] = y
  BY ListFacts
<1>2. /\ r \in Seq(S) /\ Len(r) = Len(q) - 1
      /\ \A i \in 1..(Len(q) - 1) : r[i] = IF i < k THEN q[i] ELSE q[i + 1]
  BY RemoveAtProperties DEF Lists
<1> HIDE DEF r
<1> DEFINE From(i) == IF i < k THEN i ELSE i + 1
<1>3. \A i \in 1..Len(r) : From(i) \in 1..Len(q) /\ From(i) # k /\ r[i] = q[From(i)]
  BY <1>1, <1>2
<1>4. \A i, j \in 1..Len(r) : From(i) = From(j) => i = j
  BY <1>1, <1>2
<1>5. ASSUME NEW i \in 1..Len(q), i # k PROVE \E j \in 1..Len(r) : From(j) = i
  <2>1. CASE i < k
    <3>1. i \in 1..Len(r) /\ From(i) = i
      BY <1>1, <1>2, <2>1
    <3> QED BY <3>1
  <2>2. CASE i > k
    <3>1. i - 1 \in 1..Len(r) /\ From(i - 1) = i
      BY <1>1, <1>2, <2>2
    <3> QED BY <3>1
  <2> QED BY <1>1, <1>5, <2>1, <2>2
<1> HIDE DEF From
<1>6. ASSUME NEW i \in 1..Len(r), NEW j \in 1..Len(r), r[i] = r[j] PROVE i = j
  <2>1. q[From(i)] = q[From(j)] /\ From(i) \in 1..Len(q) /\ From(j) \in 1..Len(q)
    BY <1>3, <1>6
  <2>2. From(i) = From(j)
    BY <1>1, <2>1
  <2> QED BY <1>4, <2>2
<1>7. ASSUME NEW y PROVE y \in M \ {x} <=> \E i \in 1..Len(r) : r[i] = y
  <2>1. ASSUME y \in M, y # x PROVE \E i \in 1..Len(r) : r[i] = y
    <3>1. PICK i \in 1..Len(q) : q[i] = y
      BY <1>1, <2>1
    <3>2. PICK j \in 1..Len(r) : From(j) = i
      BY <1>5, <2>1, <3>1
    <3> QED BY <1>3, <3>1, <3>2
  <2>2. ASSUME NEW i \in 1..Len(r), r[i] = y PROVE y \in M \ {x}
    <3>1. From(i) \in 1..Len(q) /\ From(i) # k /\ y = q[From(i)]
      BY <1>3, <2>2
    <3> QED BY <1>1, <3>1
  <2> QED BY <2>1, <2>2
<1>8. Lists(r, S, M \ {x})
  BY <1>2, <1>6, <1>7, ListIntro
<1>9. x \in M
  BY <1>1
<1> QED BY <1>2, <1>8, <1>9 DEF r

LEMMA ListReversed ==
  ASSUME NEW S, NEW M, NEW q, Lists(q, S, M)
  PROVE  Lists(Reverse(q), S, M) /\ Len(Reverse(q)) = Len(q)
<1> DEFINE r == Reverse(q)
<1>1. /\ Len(q) \in Nat /\ \A i \in 1..Len(q) : q[i] \in M /\ q[i] \in S
      /\ \A i, j \in 1..Len(q) : q[i] = q[j] => i = j
      /\ \A y \in M : \E i \in 1..Len(q) : q[i] = y
  BY ListFacts
<1> DEFINE Back(i) == (Len(q) - i) + 1
<1>2. \A i \in 1..Len(q) : Back(i) \in 1..Len(q) /\ Back(Back(i)) = i
  BY <1>1
<1>3. \A i, j \in 1..Len(q) : Back(i) = Back(j) => i = j
  BY <1>1
<1>4. r = [i \in 1..Len(q) |-> q[Back(i)]]
  BY DEF Reverse
<1> HIDE DEF Back
<1>5. r \in Seq(S) /\ Len(r) = Len(q) /\ \A i \in 1..Len(q) : r[i] = q[Back(i)]
  <2>1. r \in [1..Len(q) -> S]
    BY <1>1, <1>2, <1>4
  <2>2. r \in Seq(S) /\ Len(r) = Len(q)
    <3> HIDE DEF r
    <3> QED BY <1>1, <2>1
  <2> QED BY <1>4, <2>2
<1> HIDE DEF r
<1>6. ASSUME NEW i \in 1..Len(r), NEW j \in 1..Len(r), r[i] = r[j] PROVE i = j
  BY <1>1, <1>2, <1>3, <1>5, <1>6
<1>7. ASSUME NEW y PROVE y \in M <=> \E i \in 1..Len(r) : r[i] = y
  <2>1. ASSUME y \in M PROVE \E i \in 1..Len(r) : r[i] = y
    <3>1. PICK i \in 1..Len(q) : q[i] = y
      BY <1>1, <2>1
    <3>2. Back(i) \in 1..Len(r) /\ r[Back(i)] = q[i]
      BY <1>2, <1>5
    <3> QED BY <3>1, <3>2
  <2>2. ASSUME NEW i \in 1..Len(r), r[i] = y PROVE y \in M
    BY <1>1, <1>2, <1>5, <2>2
  <2> QED BY <2>1, <2>2
<1> QED BY <1>5, <1>6, <1>7, ListIntro DEF r

LEMMA ListJoined ==
  ASSUME NEW S, NEW M, NEW N, NEW q, NEW r, Lists(q, S, M), Lists(r, S, N), M \cap N = {}
  PROVE  Lists(q \o r, S, M \cup N) /\ Len(q \o r) = Len(q) + Len(r)
<1> DEFINE c == q \o r
<1>1. /\ Len(q) \in Nat /\ \A i \in 1..Len(q) : q[i] \in M
      /\ \A i, j \in 1..Len(q) : q[i] = q[j] => i = j
      /\ \A y \in M : \E i \in 1..Len(q) : q[i] = y
  BY ListFacts
<1>2. /\ Len(r) \in Nat /\ \A i \in 1..Len(r) : r[i] \in N
      /\ \A i, j \in 1..Len(r) : r[i] = r[j] => i = j
      /\ \A y \in N : \E i \in 1..Len(r) : r[i] = y
  BY ListFacts
<1>3. /\ c \in Seq(S) /\ Len(c) = Len(q) + Len(r)
      /\ \A i \in 1..(Len(q) + Len(r)) : c[i] = IF i <= Len(q) THEN q[i] ELSE r[i - Len(q)]
  BY ConcatProperties DEF Lists
<1> HIDE DEF c
<1>4. \A i \in 1..Len(q) : i \in 1..Len(c) /\ c[i] = q[i]
  BY <1>1, <1>2, <1>3
<1>5. ASSUME NEW i \in 1..Len(r) PROVE Len(q) + i \in 1..Len(c) /\ c[Len(q) + i] = r[i]
  <2>1. Len(q) + i \in 1..(Len(q) + Len(r)) /\ ~(Len(q) + i <= Len(q)) /\ (Len(q) + i) - Len(q) = i
    BY <1>1, <1>2
  <2>2. c[Len(q) + i] = r[(Len(q) + i) - Len(q)]
    BY <1>3, <2>1
  <2> QED BY <1>3, <2>1, <2>2
<1>6. ASSUME NEW i \in 1..Len(c), ~(i <= Len(q)) PROVE i - Len(q) \in 1..Len(r) /\ c[i] = r[i - Len(q)]
  <2>1. i \in 1..(Len(q) + Len(r)) /\ i \in Nat /\ i <= Len(q) + Len(r)
    BY <1>1, <1>2, <1>3
  <2>2. c[i] = r[i - Len(q)]
    BY <1>3, <1>6, <2>1
  <2>3. i - Len(q) \in 1..Len(r)
    BY <1>1, <1>2, <1>6, <2>1
  <2> QED BY <2>2, <2>3
<1>7. ASSUME NEW i \in 1..Len(c), i <= Len(q) PROVE i \in 1..Len(q) /\ c[i] = q[i]
  BY <1>1, <1>2, <1>3, <1>7
<1>8. ASSUME NEW i \in 1..Len(c), NEW j \in 1..Len(c), c[i] = c[j] PROVE i = j
  <2>1. CASE i <= Len(q) /\ j <= Len(q)
    <3>1. q[i] = q[j] /\ i \in 1..Len(q) /\ j \in 1..Len(q)
      BY <1>7, <1>8, <2>1
    <3> QED BY <1>1, <3>1
  <2>2. CASE ~(i <= Len(q)) /\ ~(j <= Len(q))
    <3>1. i - Len(q) \in 1..Len(r) /\ j - Len(q) \in 1..Len(r) /\ r[i - Len(q)] = r[j - Len(q)]
      BY <1>6, <1>8, <2>2
    <3>2. i - Len(q) = j - Len(q)
      BY <1>2, <3>1
    <3> QED BY <1>1, <3>2
  <2>3. CASE i <= Len(q) /\ ~(j <= Len(q))
    <3>1. c[i] \in M
      BY <1>1, <1>7, <2>3
    <3>2. c[j] \in N
      BY <1>2, <1>6, <2>3
    <3> QED BY <1>8, <3>1, <3>2
  <2>4. CASE ~(i <= Len(q)) /\ j <= Len(q)
    <3>1. c[j] \in M
      BY <1>1, <1>7, <2>4
    <3>2. c[i] \in N
      BY <1>2, <1>6, <2>4
    <3> QED BY <1>8, <3>1, <3>2
  <2> QED BY <2>1, <2>2, <2>3, <2>4
<1>9. ASSUME NEW y PROVE y \in M \cup N <=> \E i \in 1..Len(c) : c[i] = y
  <2>1. ASSUME y \in M PROVE \E i \in 1..Len(c) : c[i] = y
    BY <1>1, <1>4, <2>1
  <2>2. ASSUME y \in N PROVE \E i \in 1..Len(c) : c[i] = y
    BY <1>2, <1>5, <2>2
  <2>3. ASSUME NEW i \in 1..Len(c), c[i] = y PROVE y \in M \cup N
    BY <1>1, <1>2, <1>6, <1>7, <2>3
  <2> QED BY <2>1, <2>2, <2>3
<1>10. Lists(c, S, M \cup N)
  BY <1>3, <1>8, <1>9, ListIntro
<1> QED BY <1>3, <1>10 DEF c

LEMMA ListPush ==
  ASSUME NEW S, NEW M, NEW q, Lists(q, S, M), NEW x \in S, x \notin M
  PROVE  Lists(<<x>> \o q, S, M \cup {x}) /\ Len(<<x>> \o q) = Len(q) + 1
<1>1. PICK o : o = <<x>>
  OBVIOUS
<1>2. o \in Seq(S) /\ Len(o) = 1 /\ o[1] = x
  BY <1>1
<1>3. Lists(o, S, {x})
  <2>1. \A i \in 1..Len(o) : i = 1 /\ o[i] = x
    BY <1>2
  <2>2. 1 \in 1..Len(o)
    BY <1>2
  <2>3. \A y : y \in {x} <=> \E i \in 1..Len(o) : o[i] = y
    BY <2>1, <2>2
  <2> QED BY <1>2, <2>1, <2>3, ListIntro
<1>4. Lists(o \o q, S, {x} \cup M) /\ Len(o \o q) = Len(o) + Len(q)
  BY <1>3, ListJoined
<1>5. Len(q) \in Nat /\ {x} \cup M = M \cup {x}
  BY ListFacts
<1>6. Len(o) + Len(q) = Len(q) + 1
  BY <1>2, <1>5
<1> QED BY <1>1, <1>4, <1>5, <1>6
=============================================================================
