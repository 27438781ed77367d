------------------------------- MODULE Queues -------------------------------
(***************************************************************************)
(* The process queues of Xinu (queue.c, insert.c, insertd.c, getitem.c,    *)
(* unsleep.c).  queuetab[] links the entries of a queue between a head and *)
(* a tail node; here a queue is the sequence of its entries from head to   *)
(* tail, an entry being the index of a process and the key stored with it. *)
(* The ready list is ordered by descending key (insert), the sleep queue   *)
(* is a delta list (insertd), a semaphore's queue is FIFO (enqueue) and    *)
(* never reads its keys, which are therefore all 0 here.                   *)
(***************************************************************************)
EXTENDS Integers, Sequences, SequencesExt

MINKEY == -2147483647 - 1       \* key of every tail node

Entry(p, k) == [pid |-> p, key |-> k]

\* The processes on queue q.
Members(q) == {q[i].pid : i \in 1..Len(q)}

\* No process is on queue q twice.
NoDuplicates(q) ==
  \A i, j \in 1..Len(q) : q[i].pid = q[j].pid => i = j

\* firstkey(q): an empty queue's first node is its tail node.
firstkey(q) == IF q = <<>> THEN MINKEY ELSE q[1].key

\* insert(): walk past the entries whose key is at least as large, so that
\* entries with equal keys keep the order in which they came.
InsertPos(q, key) ==
  CHOOSE k \in 1..(Len(q) + 1) :
    /\ \A i \in 1..(k - 1) : q[i].key >= key
    /\ k <= Len(q) => q[k].key < key

\* (Variant: ahead of the entries with an equal key.)
insert_ahead(q, p, key) ==
  LET k == CHOOSE i \in 1..(Len(q) + 1) :
             /\ \A j \in 1..(i - 1) : q[j].key > key
             /\ i <= Len(q) => q[i].key <= key
  IN  InsertAt(q, k, Entry(p, key))

insert(q, p, key) == InsertAt(q, InsertPos(q, key), Entry(p, key))

\* (Variant: last in, first out.)
enqueue_lifo(q, p) == <<Entry(p, 0)>> \o q

enqueue(q, p) == Append(q, Entry(p, 0))

\* dequeue() and getfirst() return the first entry and leave the others.
first(q) == q[1].pid
rest(q)  == Tail(q)

\* getitem(): unlink process p from the queue it is on.
Position(q, p) == CHOOSE i \in 1..Len(q) : q[i].pid = p

getitem(q, p) == RemoveAt(q, Position(q, p))

\* What remains of a delay after the first i entries of the delta list q, whose
\* keys are delays relative to the entry before.
Remaining(q, delay) ==
  LET left[i \in 0..Len(q)] ==
        IF i = 0 THEN delay ELSE left[i - 1] - q[i].key
  IN  left

\* insertd() walks past the entries whose key is at most what remains.
Passed(q, left) ==
  CHOOSE k \in 0..Len(q) :
    /\ \A i \in 1..k : q[i].key <= left[i - 1]
    /\ k < Len(q) => q[k + 1].key > left[k]

\* (Variant: the entry behind keeps its key.)
insertd_nosub(q, p, delay) ==
  LET left == Remaining(q, delay)
      k == Passed(q, left)
  IN  InsertAt(q, k + 1, Entry(p, left[k]))

\* insertd(): the key of the entry behind is reduced by that of the new one.
insertd(q, p, delay) ==
  LET left == Remaining(q, delay)
      k == Passed(q, left)
      r == IF k < Len(q) THEN [q EXCEPT ![k + 1].key = @ - left[k]] ELSE q
  IN  InsertAt(r, k + 1, Entry(p, left[k]))

\* (Variant: p's delay is lost.)
unsleep_nodelay(q, p) == RemoveAt(q, Position(q, p))

\* unsleep(): give p's delay to the entry that follows it and unlink p.
unsleep(q, p) ==
  LET i == Position(q, p)
      r == IF i < Len(q) THEN [q EXCEPT ![i + 1].key = @ + q[i].key] ELSE q
  IN  RemoveAt(r, i)
=============================================================================
