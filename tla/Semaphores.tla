----------------------------- MODULE Semaphores -----------------------------
(***************************************************************************)
(* What the counting semaphores promise to the code that is built on them. *)
(*                                                                         *)
(* Kernel models semaphores with the scheduler, where semdelete() and      *)
(* semreset() release one process at a time; KernelSemaphores says how it  *)
(* implements SemSpec.  Ports, buffer pools, marks and devices use the     *)
(* operators of this module, each of which maps a semaphore table to the   *)
(* table after a call.                                                     *)
(***************************************************************************)
EXTENDS Integers, FiniteSets, SequencesExt

CONSTANTS
  Procs,      \* processes
  NSEM        \* entries of the semaphore table

ASSUME SemAssumption == NSEM \in Nat

SYSERR == -1
SemIds == 0..(NSEM - 1)

VARIABLE semtab

Unused == [used |-> FALSE, count |-> 0, queue |-> <<>>]

isused(t, s) == s \in SemIds /\ t[s].used
FreeSems(t) == {s \in SemIds : ~t[s].used}
WaitsIn(t, p) == \E s \in SemIds : p \in Range(t[s].queue)
Waiting(p) == WaitsIn(semtab, p)

\* semcreate() with the entry that newsem() has found, or SYSERR.
semcreate(t, s, count) ==
  IF s = SYSERR THEN t
  ELSE [t EXCEPT ![s] = [used |-> TRUE, count |-> count, queue |-> <<>>]]

\* Entry e with another count and another queue.
changed(e, count, queue) == [used |-> e.used, count |-> count, queue |-> queue]

wait(t, s, p) ==
  [t EXCEPT ![s] = changed(@, @.count - 1,
                           IF @.count <= 0 THEN Append(@.queue, p) ELSE @.queue)]

signal(t, s) ==
  IF ~isused(t, s) THEN t
  ELSE [t EXCEPT ![s] = changed(@, @.count + 1,
                                IF @.count < 0 THEN Tail(@.queue) ELSE @.queue)]

\* The first n of queue q are gone.
unserved(q, n) == IF n >= Len(q) THEN <<>> ELSE SubSeq(q, n + 1, Len(q))

signaln(t, s, n) == [t EXCEPT ![s] = changed(@, @.count + n, unserved(@.queue, n))]

semdelete(t, s) == IF ~isused(t, s) THEN t ELSE [t EXCEPT ![s] = Unused]

\* (Variant: only as many processes are released as the new count serves.)
semreset_some(t, s, count) ==
  IF ~isused(t, s) THEN t
  ELSE [t EXCEPT ![s] = changed(@, count, unserved(@.queue, count))]

semreset(t, s, count) ==
  IF ~isused(t, s) THEN t
  ELSE [t EXCEPT ![s] = changed(@, count, <<>>)]

\* getitem() on the queue.
without(q, p) == RemoveAt(q, CHOOSE i \in 1..Len(q) : q[i] = p)

\* A process that waits is killed.
withdraw(t, p) ==
  [s \in SemIds |->
     IF p \in Range(t[s].queue)
     THEN changed(t[s], t[s].count + 1, without(t[s].queue, p))
     ELSE t[s]]

-----------------------------------------------------------------------------
(* The semaphore table under any use                                       *)

SemInit == semtab = [s \in SemIds |-> Unused]

\* The count that a semaphore is created with or reset to may be any.
SemNext ==
  \/ \E s \in SemIds :
       \/ /\ semtab'[s].count \in Nat
          /\ \/ ~isused(semtab, s) /\ semtab' = semcreate(semtab, s, semtab'[s].count)
             \/ semtab' = semreset(semtab, s, semtab'[s].count)
       \/ isused(semtab, s) /\ semtab' = signal(semtab, s)
       \/ semtab' = semdelete(semtab, s)
       \/ \E p \in Procs :
            /\ isused(semtab, s)
            /\ ~Waiting(p)
            /\ semtab' = wait(semtab, s, p)
  \/ \E p \in Procs : semtab' = withdraw(semtab, p)

SemSpec == SemInit /\ [][SemNext]_semtab
=============================================================================
