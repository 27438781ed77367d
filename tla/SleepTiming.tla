----------------------------- MODULE SleepTiming -----------------------------
(***************************************************************************)
(* What the delta list of Kernel is for: a process that sleeps, or waits   *)
(* with a time limit, is woken by the tick that ends its delay, no matter  *)
(* who joins or leaves the list in the meantime.  The specification is     *)
(* Kernel's with a history variable that counts every delay down.          *)
(***************************************************************************)
EXTENDS Kernel

VARIABLE remain    \* (history) ticks left of the delay of each process

tvars == <<vars, remain>>

\* The current process joins the sleep queue, or yields when the delay is 0.
joins(delay) ==
  remain' = [remain EXCEPT ![currpid] = delay]

tsleepms(delay) == sleepms(delay) /\ joins(delay)

trecvtime(maxwait) == recvtime(maxwait) /\ joins(maxwait)

\* A tick brings the end of every delay nearer.
tick ==
  /\ Clock
  /\ remain' = [p \in Pids |->
                 IF p \in Members(sleepq) THEN remain[p] - 1 ELSE remain[p]]

TInit == Init /\ remain = [p \in Pids |-> 0]

\* Semaphores do not touch the sleep queue; their calls are left out.
TNext ==
  \/ \E delay \in Delays : tsleepms(delay)
  \/ \E maxwait \in Waits : trecvtime(maxwait)
  \/ tick
  \/ (ProcessCalls \/ receive \/ KernelLoops \/ clkreturn \/ halt) /\ UNCHANGED remain

TSpec == TInit /\ [][TNext]_tvars

-----------------------------------------------------------------------------
(* Properties                                                              *)

\* KeySum(q)[i] is the sum of the keys of the first i entries of queue q.
KeySum(q) ==
  LET sum[i \in 0..Len(q)] == IF i = 0 THEN 0 ELSE sum[i - 1] + q[i].key
  IN  sum

\* The keys up to a process add up to the ticks it still has to wait, through
\* every insertion (insertd.c:22), every departure of a process that is killed
\* (unsleep.c:39) and every tick, also when several delays end together.
\* And nobody oversleeps: outside wakeup() every delay on the list has time left.
DelaysExact ==
  /\ \A i \in 1..Len(sleepq) :
       KeySum(sleepq)[i] = remain[sleepq[i].pid]
  /\ loop = NoLoop => \A p \in Members(sleepq) : remain[p] > 0

WokenInTime ==
  \A p \in Pids :
    /\ prstate[p] \in {PR_SLEEP, PR_RECTIM}
    /\ prstate'[p] \notin {PR_SLEEP, PR_RECTIM, PR_FREE}
    => remain[p] = 0

\* Who sleeps and is not killed gets up at the tick that ends its delay, neither
\* before it nor after it (sleep.c:23).  A recvtime() with a time limit of 0
\* breaks this for the processes behind it in the list: the tick takes 1 from a
\* key that is 0 already, and the sum of the keys behind stays as it was.
WokenOnTime == [][WokenInTime]_tvars
=============================================================================
