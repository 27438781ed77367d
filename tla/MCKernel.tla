------------------------------ MODULE MCKernel ------------------------------
(***************************************************************************)
(* Instances of Kernel, SleepTiming and KernelSemaphores for TLC.  `mode'  *)
(* says which calls are made besides those that manage processes:          *)
(* semaphores and sleeping share no queue, and one run looks at each in a  *)
(* system that it fills.                                                   *)
(***************************************************************************)
EXTENDS SleepTiming, KernelSemaphores

VARIABLE mode    \* "semaphores" or "sleep"

mcVars == <<tvars, mode>>

\* Every call of Kernel but those that sleep.
SemSteps ==
  \/ ProcessCalls \/ receive \/ SemaphoreCalls
  \/ KernelLoops \/ Clock \/ clkreturn \/ halt

MCInit == TInit /\ mode \in {"semaphores", "sleep"}

MCNext ==
  /\ UNCHANGED mode
  /\ \/ mode = "sleep" /\ TNext
     \/ mode = "semaphores" /\ SemSteps /\ UNCHANGED remain

MCSpec == MCInit /\ [][MCNext]_mcVars

-----------------------------------------------------------------------------
(* With fairness.  Processes are created by rcreate() and creation does not *)
(* fail; those that use semaphores have one priority; nobody waits for     *)
(* anything but a semaphore or the end of a delay.                         *)

Managing ==
  \/ \E prio \in Prios : nulluser(prio) \/ usercreate(prio)
  \/ \E p \in Pids : kill(p) \/ suspend(p) \/ resume(p)
  \/ yield
  \/ KernelLoops \/ Clock \/ clkreturn \/ halt

Sleeping ==
  \/ \E delay \in Delays : sleepms(delay)
  \/ \E maxwait \in Waits : recvtime(maxwait)

MCFairNext ==
  /\ UNCHANGED <<mode, remain>>
  /\ \/ Managing
     \/ mode = "sleep" /\ Sleeping
     \/ mode = "semaphores" /\ SemaphoreCalls
  /\ mode = "semaphores" => \A p \in Pids : prprio'[p] <= 1

MCFairSpec == MCInit /\ [][MCFairNext]_mcVars /\ Fairness

=============================================================================
