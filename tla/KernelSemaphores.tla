-------------------------- MODULE KernelSemaphores --------------------------
(***************************************************************************)
(* The semaphores of Kernel as an implementation of Semaphores: each call  *)
(* has its whole effect at once.  A deletion and a reset take effect when  *)
(* the loop that releases the waiting processes starts, as nothing else    *)
(* can happen before it ends; signaln() is a row of signals.               *)
(***************************************************************************)
EXTENDS Kernel

\* The loop of semreset(s) is running.
Resetting(s) == loop.op = "semreset" /\ loop.sem = s

\* The processes on queue q.
pidsof(q) == [i \in DOMAIN q |-> q[i].pid]

AbstractSem(s) ==
  IF ~sstate[s] THEN [used |-> FALSE, count |-> 0, queue |-> <<>>]
  ELSE [used  |-> TRUE,
        count |-> IF Resetting(s) THEN loop.n ELSE scount[s],
        queue |-> IF Resetting(s) THEN <<>> ELSE pidsof(squeue[s])]

table == [s \in Sems |-> AbstractSem(s)]

Abstract == INSTANCE Semaphores WITH Procs <- Pids, semtab <- table

\* The semaphores that devices, ports and pools rely on are the ones that
\* wait(), signal(), signaln(), semdelete(), semreset() and kill() make with
\* the scheduler (signal.c:26, semdelete.c:30, semreset.c:28, kill.c:74).
SemaphoresRefined == Abstract!SemSpec
=============================================================================
